------------------------------- MODULE RunApi -------------------------------
(***************************************************************************)
(* The agent routes of the REST API on top of the orchestration: what a    *)
(* client that creates a run, polls it, pages through its events and asks  *)
(* for its cancellation is told, while the workers go on.                  *)
(*                                                                         *)
(* A handler does not suspend between its reads of the store, so a request *)
(* is one step.  A request for a run that is not in the table gets a 404   *)
(* and changes nothing.  Every run has one client, which remembers what it *)
(* was told.                                                               *)
(***************************************************************************)
EXTENDS RunOrchestration

VARIABLE view      \* view[r]: what the client of run r was told

apiVars == <<vars, view>>

Replies == {"none", "cancel_requested", "already_terminal"}

(* status     of the last GET /runs/{r}, NoStatus before the first one     *)
(* log        the events of all its GET /runs/{r}/events, in order         *)
(* logEnded   the last of them came after a terminal status was seen       *)
(* reply      to the last POST /runs/{r}/cancel                            *)
(* acked      one of these was acknowledged as "cancel_requested"          *)
NoStatus == "none"

View == [status: {NoStatus} \cup RestingStatuses, log: Seq(EventRecord),
         logEnded: BOOLEAN, reply: Replies, acked: BOOLEAN]

NewView == [status |-> NoStatus, log |-> <<>>, logEnded |-> FALSE,
            reply |-> "none", acked |-> FALSE]

ApiInit == Init /\ view = <<>>

-----------------------------------------------------------------------------
(* The handlers.                                                           *)

\* The event with the given number is sent again.
EventsAfter_Inclusive(r, after) ==
  SubSeq(events[r], IF after = 0 THEN 1 ELSE after, Len(events[r]))

\* InMemoryRunEventLog.list: the events with a greater sequence number, which is
\* the position of an event in its stream.
EventsAfter(r, after) == SubSeq(events[r], after + 1, Len(events[r]))

\* create_agent_run.
PostRun ==
  /\ CreateRun
  /\ view' = Append(view, NewView)

\* get_agent_run.
GetRun(r) ==
  /\ view' = [view EXCEPT ![r].status = runs[r].status]
  /\ UNCHANGED vars

\* get_agent_run_events; the client asks for what follows its last event.
GetEvents(r) ==
  /\ view' = [view EXCEPT ![r].log = @ \o EventsAfter(r, Len(@)),
                          ![r].logEnded = view[r].status \in TerminalStatuses]
  /\ UNCHANGED vars

\* cancel_agent_run, when cancel_run returned True.
CancelAccepted(r) ==
  /\ CancelRun(r)
  /\ view' = [view EXCEPT ![r].reply = "cancel_requested", ![r].acked = TRUE]

\* cancel_agent_run, when it returned False: the run is terminal, or it was
\* already asked to stop.
CancelRefused(r) ==
  /\ ClientsCancel
  /\ ~MayRequestCancellation(runs[r])
  /\ view' = [view EXCEPT ![r].reply = "already_terminal"]
  /\ UNCHANGED vars

-----------------------------------------------------------------------------

Request(r) == GetRun(r) \/ GetEvents(r) \/ CancelAccepted(r) \/ CancelRefused(r)

\* The steps of the workers, of the operators of the service and of the callers
\* of the deprecated mark_cancelled, which no route exposes.
Background ==
  \/ \E w \in Workers : Consumer(w) \/ Heartbeat(w) \/ WaitTimesOut(w)
                        \/ ShutdownExecution(w) \/ InfraShutdown(w)
  \/ \E r \in DOMAIN runs : LeaseExpires(r) \/ MarkCancelled(r)

ApiNext ==
  \/ PostRun
  \/ \E r \in DOMAIN runs : Request(r)
  \/ Background /\ UNCHANGED view

ApiSpec == ApiInit /\ [][ApiNext]_apiVars

-----------------------------------------------------------------------------
(* Properties.                                                             *)

\* Paging by sequence number loses and repeats nothing, whatever is appended
\* between two requests: the client's copy is a prefix of the run's stream.
ClientLogIsPrefix ==
  \A r \in DOMAIN runs :
    /\ Len(view[r].log) <= Len(events[r])
    /\ \A i \in 1..Len(view[r].log) : view[r].log[i] = events[r][i]

\* A client may stop at the first terminal status it sees: that status is final,
\* and the events it fetches after it are all the events the run will ever have.
TerminalReplyIsTheEnd ==
  \A r \in DOMAIN runs :
    view[r].status \in TerminalStatuses =>
      /\ runs[r].status = view[r].status
      /\ view[r].logEnded => view[r].log = events[r]

\* What cancel_agent_run answered stays true.  A run whose cancellation was
\* acknowledged is never reported as succeeded afterwards, and until it is cancelled
\* its flag is visible: no heartbeat, recovery or claim that rebuilds the record
\* drops it.  A refusal means, as its message says, that the run is terminal or was
\* already asked to stop.
CancelRepliesHold ==
  \A r \in DOMAIN runs :
    /\ view[r].acked =>
         /\ runs[r].cancel_requested \/ runs[r].status = "CANCELLED"
         /\ runs[r].status # "SUCCEEDED"
    /\ view[r].reply = "already_terminal" =>
         runs[r].cancel_requested \/ runs[r].status \in TerminalStatuses

=============================================================================
