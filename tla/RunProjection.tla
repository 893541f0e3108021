---------------------------- MODULE RunProjection ----------------------------
(***************************************************************************)
(* What the event log of a run says of the run.  The stores write the      *)
(* table and the log side by side; the log is enough when the record can   *)
(* be computed back from it.                                               *)
(***************************************************************************)
EXTENDS RunStore, FiniteSets

\* The status a run has after an event that goes with a transition.
StatusAfter ==
  [created |-> "CREATED", enqueued |-> "ENQUEUED", claimed |-> "RUNNING",
   claim_expired |-> "ENQUEUED", cancelled |-> "CANCELLED",
   run_succeeded |-> "SUCCEEDED", run_failed |-> "FAILED"]

IsTransition(event) == event.type \in DOMAIN StatusAfter

IsLastTransition(log, i) ==
  /\ IsTransition(log[i])
  /\ \A j \in DOMAIN log : j > i => ~IsTransition(log[j])

EventsOfType(log, type) == {i \in DOMAIN log : log[i].type = type}

\* The record is, but for its lease, a function of the log.
Tells(log, run) ==
  /\ \E i \in DOMAIN log :
       /\ IsLastTransition(log, i)
       /\ run.status = StatusAfter[log[i].type]
       /\ run.status = "RUNNING" => run.claimed_worker = log[i].worker
  /\ run.retry_count = Cardinality(EventsOfType(log, "claim_expired"))
  /\ run.cancel_requested <=> EventsOfType(log, "cancel requested") # {}

\* The log of a run tells its record: the status and (while it runs) the worker come
\* from the last transition, the retries are the expired claims, and the cancellation
\* flag is set exactly when a request was logged.  A method that changed one without
\* the other would break it.
LogTellsRun == \A r \in DOMAIN runs : Tells(events[r], runs[r])

=============================================================================
