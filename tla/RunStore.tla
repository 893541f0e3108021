------------------------------ MODULE RunStore ------------------------------
(***************************************************************************)
(* The in-memory run store: the table of runs that the intake store (API   *)
(* side) and the processing store (worker side) share, and the append-only *)
(* event log of every run.                                                 *)
(*                                                                         *)
(* asyncio runs one task at a time and no method of the stores suspends    *)
(* while it holds its lock, so a method is one atomic step.  The operators *)
(* below are what the methods do to one run, or to the whole table;        *)
(* RunOrchestration composes them into the steps of the program.           *)
(*                                                                         *)
(* A run is named by its position in the table: a dict iterates in the     *)
(* order of insertion.  The result, the error text and the payloads no     *)
(* decision depends on are left out.                                       *)
(***************************************************************************)
EXTENDS Integers, Sequences, RunTransitions

CONSTANTS Workers,   \* worker ids of the consumers
          NoWorker   \* None, where a worker id is optional

ASSUME NoWorkerAssumption == NoWorker \notin Workers

VARIABLES runs,      \* internal_run_storage
          events     \* internal_event_logs, per run

MaybeWorker == Workers \cup {NoWorker}

\* What the clock says of claim_expiration_unix_ts: not set, not reached, passed.
Leases == {"none", "live", "expired"}

\* The statuses in which a method leaves a run; the other three are only passed.
RestingStatuses == {"ENQUEUED", "RUNNING"} \cup TerminalStatuses

RunRecord == [status: RestingStatuses, claimed_worker: MaybeWorker,
              lease: Leases, retry_count: Nat, cancel_requested: BOOLEAN]

EventTypes == {"created", "enqueued", "claimed", "claim_expired", "claim_lost",
               "cancel requested", "cancelled", "run_succeeded", "run_failed"}

EventRecord == [type: EventTypes, worker: MaybeWorker]

Event(type) == [type |-> type, worker |-> NoWorker]
EventOf(type, w) == [type |-> type, worker |-> w]

-----------------------------------------------------------------------------
(* What one store method does to one run.                                  *)

\* A RunStatus built from nothing but a status: every other field has its default.
FreshRun(status) ==
  [status |-> status, claimed_worker |-> NoWorker, lease |-> "none",
   retry_count |-> 0, cancel_requested |-> FALSE]

\* A terminal run may still be asked to stop.
MayRequestCancellation_Terminal(run) == ~run.cancel_requested

\* request_cancellation, for a run that is neither terminal nor already asked to stop.
MayRequestCancellation(run) ==
  run.status \notin TerminalStatuses /\ ~run.cancel_requested

\* The request ends the run at once, instead of leaving that to its worker.
WithCancelRequested_Ends(run) ==
  [run EXCEPT !.cancel_requested = TRUE, !.status = "CANCELLED"]

WithCancelRequested(run) == [run EXCEPT !.cancel_requested = TRUE]

\* The expiration is not compared with the clock.
ClaimExpired_Always(run) == run.status = "RUNNING" /\ run.lease # "none"

\* has_claim_expired, for the runs claim_run looks at.
ClaimExpired(run) == run.status = "RUNNING" /\ run.lease = "expired"

\* The attempt is not counted.
Recover_NoRetryCount(run, w) ==
  [run EXCEPT !.status = "ENQUEUED", !.claimed_worker = w]

\* The chain stops at RETRYING.
Recover_NotRequeued(run, w) ==
  [run EXCEPT !.status = "RETRYING", !.claimed_worker = w,
              !.retry_count = @ + 1]

\* recover_expired_runs: TIMED_OUT, RETRYING and ENQUEUED in one step, and the
\* recovering worker is recorded.
Recover(run, w) ==
  LET timedOut == [run EXCEPT !.status = "TIMED_OUT", !.claimed_worker = w]
      retrying == [timedOut EXCEPT !.status = "RETRYING",
                                   !.retry_count = run.retry_count + 1]
  IN  [retrying EXCEPT !.status = "ENQUEUED"]

\* The processing store's transition to RUNNING in claim_run.
Claim(run, w) ==
  [run EXCEPT !.status = "RUNNING", !.claimed_worker = w, !.lease = "live"]

\* heartbeat, for the worker that holds the run.
Renew(run) == [run EXCEPT !.lease = "live"]

\* _transition_locked with no field requested: only the status changes.
MoveTo(run, status) == [run EXCEPT !.status = status]

-----------------------------------------------------------------------------
(* claim_run: first every expired run is recovered, then the table is      *)
(* scanned in order up to the first run to claim, and the runs that were   *)
(* asked to stop are cancelled on the way.                                 *)

AfterRecovery(r, w) ==
  IF ClaimExpired(runs[r]) THEN Recover(runs[r], w) ELSE runs[r]

\* The cancellation intent is not looked at.
Claimable_IgnoresCancel(r, w) == AfterRecovery(r, w).status = "ENQUEUED"

Claimable(r, w) ==
  /\ AfterRecovery(r, w).status = "ENQUEUED"
  /\ ~AfterRecovery(r, w).cancel_requested

Cancellable(r, w) ==
  /\ AfterRecovery(r, w).status = "ENQUEUED"
  /\ AfterRecovery(r, w).cancel_requested

NothingClaimable(w) == \A r \in DOMAIN runs : ~Claimable(r, w)

FirstClaimable(r, w) ==
  /\ Claimable(r, w)
  /\ \A q \in 1..(r - 1) : ~Claimable(q, w)

\* The scan of a claim_run that stops at position last and claims the runs in won.
Scan(w, last, won) ==
  /\ runs' = [r \in DOMAIN runs |->
       IF r \in won THEN Claim(AfterRecovery(r, w), w)
       ELSE IF r <= last /\ Cancellable(r, w)
            THEN MoveTo(AfterRecovery(r, w), "CANCELLED")
       ELSE AfterRecovery(r, w)]
  /\ events' = [r \in DOMAIN events |->
       events[r]
       \o (IF ClaimExpired(runs[r]) THEN <<Event("claim_expired")>> ELSE <<>>)
       \o (IF r \in won THEN <<EventOf("claimed", w)>>
           ELSE IF r <= last /\ Cancellable(r, w) THEN <<Event("cancelled")>>
           ELSE <<>>)]

ScanClaims(w, r) == FirstClaimable(r, w) /\ Scan(w, r, {r})

ScanFindsNothing(w) == NothingClaimable(w) /\ Scan(w, Len(runs), {})

-----------------------------------------------------------------------------
(* Store methods on one run: the new status is validated and written, then *)
(* the event is appended.                                                  *)

Update(r, run) == runs' = [runs EXCEPT ![r] = run]

Log(r, event) == events' = [events EXCEPT ![r] = Append(@, event)]

\* create_run followed by mark_enqueued, which rebuilds the record it found.
CreateEnqueued ==
  /\ runs' = Append(runs, FreshRun("ENQUEUED"))
  /\ events' = Append(events, <<Event("created"), Event("enqueued")>>)

RequestCancellation(r) ==
  /\ MayRequestCancellation(runs[r])
  /\ Update(r, WithCancelRequested(runs[r]))
  /\ Log(r, Event("cancel requested"))

\* mark_cancelled (deprecated): rebuilds the record, which drops every other field.
MarkRunCancelled(r) ==
  /\ runs[r].status \notin TerminalStatuses
  /\ Validates(runs[r].status, "CANCELLED")
  /\ Update(r, FreshRun("CANCELLED"))
  /\ Log(r, Event("cancelled"))

\* set_succeeded, set_failed and set_cancelled, once the policy let them pass.
FinalEvent(status) ==
  CASE status = "SUCCEEDED" -> Event("run_succeeded")
    [] status = "FAILED"    -> Event("run_failed")
    [] status = "CANCELLED" -> Event("cancelled")

SetFinal(r, status) ==
  /\ Validates(runs[r].status, status)
  /\ Update(r, MoveTo(runs[r], status))
  /\ Log(r, FinalEvent(status))

=============================================================================
