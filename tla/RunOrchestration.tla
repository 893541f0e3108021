-------------------------- MODULE RunOrchestration --------------------------
(***************************************************************************)
(* The life of agent runs in one process: the REST handlers that create    *)
(* and cancel runs, the signal queue, and the consumers that claim runs,   *)
(* keep their lease alive with heartbeats, execute them and write the      *)
(* outcome.                                                                *)
(*                                                                         *)
(* An action is what one task does between two points where it really      *)
(* suspends: the wait for a signal, the sleep of an executor step, the     *)
(* sleep of the heartbeat loop, the wait for the cancelled heartbeat task. *)
(* Everything between two such points runs without interleaving.           *)
(***************************************************************************)
EXTENDS RunStore, FiniteSets

CONSTANTS
  MaxRuns,        \* bound: runs created
  MaxRetries,     \* bound: a run whose retry_count reached it keeps its lease
  Steps,          \* steps of an execution, one checkpoint before each
  PromptLoop,     \* the event loop is never stalled past the lease of a heartbeat
  ShortSteps,     \* a step ends within the lease left when a heartbeat loop stops
  ExecutorFails,  \* the executor may raise
  LegacyCancel,   \* someone still calls the deprecated mark_cancelled
  ClientsCancel,  \* clients ask for cancellations
  Stoppable       \* the workers that may be shut down

ASSUME OrchestrationAssumption ==
  /\ MaxRuns \in Nat /\ MaxRetries \in Nat
  /\ Steps \in Nat \ {0}
  /\ {PromptLoop, ShortSteps, ExecutorFails, LegacyCancel, ClientsCancel}
       \subseteq BOOLEAN
  /\ Stoppable \subseteq Workers

VARIABLES
  signalled,      \* the asyncio.Event of the signal queue is set
  pc,             \* where the consumer loop of a worker is suspended
  job,            \* the run being executed, NoRun if none
  step,           \* steps of it that are done
  ctxCancelled,   \* its execution context was cancelled
  heartbeat,      \* its heartbeat task
  allowed         \* _execution_allowed

store == <<runs, events>>
execution == <<job, step, ctxCancelled, heartbeat>>
vars == <<runs, events, signalled, pc, job, step, ctxCancelled, heartbeat, allowed>>

NoRun == 0

(* waiting    in RunSignalQueue.wait, with the event not set              *)
(* ready      woken by the event or by the timeout, not resumed yet       *)
(* executing  in a step of the executor, inside the lease scope           *)
(* releasing  outcome written, waiting for the cancelled heartbeat task   *)
(* raising    the same, with an exception on its way out                  *)
(* cancelled  the task was cancelled, CancelledError not delivered yet    *)
(* ended      the loop returned, or left with CancelledError              *)
(* died       the loop left with another exception                        *)
Locations == {"waiting", "ready", "executing", "releasing", "raising",
              "cancelled", "ended", "died"}

Heartbeats == {"off", "beating", "stopped"}

Init ==
  /\ runs = <<>> /\ events = <<>>
  /\ signalled = FALSE
  /\ pc = [w \in Workers |-> "waiting"]
  /\ job = [w \in Workers |-> NoRun]
  /\ step = [w \in Workers |-> 0]
  /\ ctxCancelled = [w \in Workers |-> FALSE]
  /\ heartbeat = [w \in Workers |-> "off"]
  /\ allowed = [w \in Workers |-> TRUE]

-----------------------------------------------------------------------------
(* Signals.                                                                *)

\* The tasks that Event.set wakes.
Woken == [w \in Workers |-> IF pc[w] = "waiting" THEN "ready" ELSE pc[w]]

\* RunSignalQueue.notify.
Notify == signalled' = TRUE /\ pc' = Woken

\* The queue waits without a timeout.
WaitTimesOut_Never(w) == FALSE /\ UNCHANGED vars

\* The timeout of RunSignalQueue.wait.
WaitTimesOut(w) ==
  /\ pc[w] = "waiting"
  /\ pc' = [pc EXCEPT ![w] = "ready"]
  /\ UNCHANGED <<store, signalled, execution, allowed>>

-----------------------------------------------------------------------------
(* REST handlers.                                                          *)

\* BackendRunOrchestrationService.create_run.
CreateRun ==
  /\ Len(runs) < MaxRuns
  /\ CreateEnqueued
  /\ Notify
  /\ UNCHANGED <<execution, allowed>>

\* BackendRunOrchestrationService.cancel_run, when there is something to change.
CancelRun(r) ==
  /\ ClientsCancel
  /\ RequestCancellation(r)
  /\ Notify
  /\ UNCHANGED <<execution, allowed>>

\* A direct call of the intake store's mark_cancelled: no worker is notified.
MarkCancelled(r) ==
  /\ LegacyCancel
  /\ MarkRunCancelled(r)
  /\ UNCHANGED <<signalled, pc, execution, allowed>>

-----------------------------------------------------------------------------
(* The consumer loop, from a wake-up to its next suspension: the wait      *)
(* clears the event, claim_run scans the table, and the loop goes on.      *)

\* The loop does not look at _execution_allowed when it starts over.
ClaimNothing_LoopsForever(w) ==
  /\ ScanFindsNothing(w)
  /\ signalled' = FALSE
  /\ pc' = [pc EXCEPT ![w] = "waiting"]
  /\ UNCHANGED <<execution, allowed>>

ClaimNothing(w) ==
  /\ ScanFindsNothing(w)
  /\ signalled' = FALSE
  /\ pc' = [pc EXCEPT ![w] = IF allowed[w] THEN "waiting" ELSE "ended"]
  /\ UNCHANGED <<execution, allowed>>

\* _execution_allowed is read after the claim: the run stays RUNNING.
AbandonClaim(w, r) ==
  /\ ScanClaims(w, r)
  /\ ~allowed[w]
  /\ signalled' = FALSE
  /\ pc' = [pc EXCEPT ![w] = "ended"]
  /\ UNCHANGED <<execution, allowed>>

StartRun(w, r) ==
  /\ ScanClaims(w, r)
  /\ allowed[w]
  /\ signalled' = FALSE
  /\ pc' = [pc EXCEPT ![w] = "executing"]
  /\ job' = [job EXCEPT ![w] = r]
  /\ step' = [step EXCEPT ![w] = 0]
  /\ ctxCancelled' = [ctxCancelled EXCEPT ![w] = FALSE]
  /\ heartbeat' = [heartbeat EXCEPT ![w] = "beating"]
  /\ UNCHANGED allowed

ClaimAndGoOn(w) ==
  \/ ClaimNothing(w)
  \/ \E r \in DOMAIN runs : AbandonClaim(w, r) \/ StartRun(w, r)

Resume(w) == pc[w] = "ready" /\ ClaimAndGoOn(w)

-----------------------------------------------------------------------------
(* Execution of the claimed run.                                           *)

\* The checkpoint before a step is passed over.
NextStep_NoCheckpoint(w) ==
  /\ pc[w] = "executing"
  /\ step[w] + 1 < Steps
  /\ step' = [step EXCEPT ![w] = @ + 1]
  /\ UNCHANGED <<store, signalled, pc, job, ctxCancelled, heartbeat, allowed>>

\* The executor leaves a step and is not told to stop at the next checkpoint.
NextStep(w) ==
  /\ pc[w] = "executing"
  /\ step[w] + 1 < Steps
  /\ ~ctxCancelled[w]
  /\ step' = [step EXCEPT ![w] = @ + 1]
  /\ UNCHANGED <<store, signalled, pc, job, ctxCancelled, heartbeat, allowed>>

\* _current_run_execution_ctx is dropped and the heartbeat task is cancelled,
\* which ends it before its next beat.
LeaveExecution(w, location) ==
  /\ pc' = [pc EXCEPT ![w] = location]
  /\ job' = [job EXCEPT ![w] = NoRun]
  /\ step' = [step EXCEPT ![w] = 0]
  /\ ctxCancelled' = [ctxCancelled EXCEPT ![w] = FALSE]
  /\ heartbeat' = [heartbeat EXCEPT ![w] = "off"]
  /\ UNCHANGED <<signalled, allowed>>

\* The outcome is written if the policy allows it; a ValueError makes
\* execute_run try set_failed, whose own ValueError leaves the loop.
Settle(w, outcome) ==
  LET status == runs[job[w]].status
      final  == IF Validates(status, outcome) THEN outcome ELSE "FAILED"
  IN  \/ SetFinal(job[w], final) /\ LeaveExecution(w, "releasing")
      \/ /\ ~Validates(status, final)
         /\ LeaveExecution(w, "raising")
         /\ UNCHANGED store

\* The store is not asked again after the execution.
Outcome_ContextOnly(w) == IF ctxCancelled[w] THEN "CANCELLED" ELSE "SUCCEEDED"

\* What execute_run decides when the executor returned.
Outcome(w) ==
  IF ctxCancelled[w] \/ runs[job[w]].cancel_requested
  THEN "CANCELLED" ELSE "SUCCEEDED"

ExecutorReturns(w) ==
  /\ pc[w] = "executing"
  /\ step[w] + 1 = Steps \/ ctxCancelled[w]
  /\ Settle(w, Outcome(w))

ExecutorRaises(w) ==
  /\ ExecutorFails
  /\ pc[w] = "executing"
  /\ Settle(w, "FAILED")

-----------------------------------------------------------------------------
(* The end of the lease scope, and the next turn of the loop.              *)

LoopEnds(w) ==
  /\ pc[w] = "releasing"
  /\ ~allowed[w]
  /\ pc' = [pc EXCEPT ![w] = "ended"]
  /\ UNCHANGED <<store, signalled, execution, allowed>>

LoopWaits(w) ==
  /\ pc[w] = "releasing"
  /\ allowed[w] /\ ~signalled
  /\ pc' = [pc EXCEPT ![w] = "waiting"]
  /\ UNCHANGED <<store, signalled, execution, allowed>>

\* The event is set already: wait returns without suspending.
LoopClaimsAtOnce(w) ==
  /\ pc[w] = "releasing"
  /\ allowed[w] /\ signalled
  /\ ClaimAndGoOn(w)

LoopDies(w) ==
  /\ pc[w] = "raising"
  /\ pc' = [pc EXCEPT ![w] = "died"]
  /\ UNCHANGED <<store, signalled, execution, allowed>>

-----------------------------------------------------------------------------
(* The heartbeat task.                                                     *)

\* The heartbeat loop breaks off after its first beat.
ObserveCancellation_BeatsOnce(w) ==
  /\ ctxCancelled' = [ctxCancelled EXCEPT ![w] = @ \/ runs[job[w]].cancel_requested]
  /\ heartbeat' = [heartbeat EXCEPT ![w] = "stopped"]

\* The heartbeat loop looks at the status it got back: a requested cancellation
\* cancels the execution context and ends the loop.
ObserveCancellation(w) ==
  IF runs[job[w]].cancel_requested
  THEN /\ ctxCancelled' = [ctxCancelled EXCEPT ![w] = TRUE]
       /\ heartbeat' = [heartbeat EXCEPT ![w] = "stopped"]
  ELSE UNCHANGED <<ctxCancelled, heartbeat>>

HeartbeatRenews(w) ==
  /\ heartbeat[w] = "beating"
  /\ runs[job[w]].status = "RUNNING"
  /\ runs[job[w]].claimed_worker = w
  /\ Update(job[w], Renew(runs[job[w]]))
  /\ ObserveCancellation(w)
  /\ UNCHANGED <<events, signalled, pc, job, step, allowed>>

\* RunLeaseLostError ends the loop; nothing tells the execution.
HeartbeatLosesLease(w) ==
  /\ heartbeat[w] = "beating"
  /\ runs[job[w]].status = "RUNNING"
  /\ runs[job[w]].claimed_worker # w
  /\ Log(job[w], EventOf("claim_lost", w))
  /\ heartbeat' = [heartbeat EXCEPT ![w] = "stopped"]
  /\ UNCHANGED <<runs, signalled, pc, job, step, ctxCancelled, allowed>>

HeartbeatFindsNotRunning(w) ==
  /\ heartbeat[w] = "beating"
  /\ runs[job[w]].status # "RUNNING"
  /\ ObserveCancellation(w)
  /\ UNCHANGED <<store, signalled, pc, job, step, allowed>>

\* A worker keeps the lease of its run: its heartbeats come in time, or they
\* stopped and the execution reaches its next checkpoint before the lease ends.
Attends(w, r) ==
  /\ job[w] = r
  /\ runs[r].claimed_worker = w
  /\ heartbeat[w] = "beating" \/ (ShortSteps /\ pc[w] = "executing")

\* The clock passes the expiration of a lease.
LeasePasses(r) ==
  /\ runs[r].status = "RUNNING" /\ runs[r].lease = "live"
  /\ runs[r].retry_count < MaxRetries
  /\ Update(r, [runs[r] EXCEPT !.lease = "expired"])
  /\ UNCHANGED <<events, signalled, pc, execution, allowed>>

\* That it does not do so while a worker attends to the run is assumed here, and
\* derived from the times in TimedOrchestration.
LeaseExpires(r) ==
  /\ PromptLoop => \A w \in Workers : ~Attends(w, r)
  /\ LeasePasses(r)

-----------------------------------------------------------------------------
(* Shutdown.                                                               *)

\* _execution_allowed is not cleared: the cancellation of the task has to do.
StopExecution_StillAllowed(w) ==
  /\ ctxCancelled' = [ctxCancelled EXCEPT ![w] = @ \/ pc[w] = "executing"]
  /\ signalled' = TRUE
  /\ UNCHANGED <<store, job, step, heartbeat, allowed>>

\* InMemoryConsumer.shutdown_execution, but for the wake-up.
StopExecution(w) ==
  /\ allowed' = [allowed EXCEPT ![w] = FALSE]
  /\ ctxCancelled' = [ctxCancelled EXCEPT ![w] = @ \/ pc[w] = "executing"]
  /\ signalled' = TRUE
  /\ UNCHANGED <<store, job, step, heartbeat>>

\* The consumer is shut down on its own.
ShutdownExecution(w) ==
  /\ w \in Stoppable /\ allowed[w]
  /\ StopExecution(w)
  /\ pc' = Woken

\* LocalDevInfrastructureSetup.shutdown: the loop's task is cancelled as well,
\* which __aexit__ swallows while it waits for the heartbeat task.
InfraShutdown(w) ==
  /\ w \in Stoppable /\ pc[w] \notin {"cancelled", "ended", "died"}
  /\ StopExecution(w)
  /\ pc' = [Woken EXCEPT ![w] =
              IF pc[w] \in {"waiting", "ready", "executing"} THEN "cancelled"
              ELSE pc[w]]

\* CancelledError leaves the wait, which clears the event, or the execution,
\* which leaves the run as it is.
Unwind(w) ==
  /\ pc[w] = "cancelled"
  /\ signalled' = (signalled /\ job[w] # NoRun)
  /\ pc' = [pc EXCEPT ![w] = "ended"]
  /\ job' = [job EXCEPT ![w] = NoRun]
  /\ step' = [step EXCEPT ![w] = 0]
  /\ ctxCancelled' = [ctxCancelled EXCEPT ![w] = FALSE]
  /\ heartbeat' = [heartbeat EXCEPT ![w] = "off"]
  /\ UNCHANGED <<store, allowed>>

-----------------------------------------------------------------------------

Consumer(w) ==
  \/ Resume(w)
  \/ NextStep(w) \/ ExecutorReturns(w) \/ ExecutorRaises(w)
  \/ LoopEnds(w) \/ LoopWaits(w) \/ LoopClaimsAtOnce(w) \/ LoopDies(w)
  \/ Unwind(w)

Heartbeat(w) ==
  HeartbeatRenews(w) \/ HeartbeatLosesLease(w) \/ HeartbeatFindsNotRunning(w)

Clients == CreateRun \/ \E r \in DOMAIN runs : CancelRun(r) \/ MarkCancelled(r)

Next ==
  \/ Clients
  \/ \E w \in Workers : Consumer(w) \/ Heartbeat(w) \/ WaitTimesOut(w)
                        \/ ShutdownExecution(w) \/ InfraShutdown(w)
  \/ \E r \in DOMAIN runs : LeaseExpires(r)

Spec == Init /\ [][Next]_vars

(* The event loop runs every task that is ready, timers fire, and a lease  *)
(* that nobody renews ends.  Clients and operators need not do anything.   *)
Fairness ==
  /\ \A w \in Workers : /\ WF_vars(Consumer(w))
                        /\ WF_vars(Heartbeat(w))
                        /\ WF_vars(WaitTimesOut(w))
  /\ \A r \in 1..MaxRuns : WF_vars(r \in DOMAIN runs /\ LeaseExpires(r))

FairSpec == Spec /\ Fairness

-----------------------------------------------------------------------------
(* Properties.                                                             *)

\* What is known of a worker at each of its suspension points.
WorkerOK(w) ==
  /\ job[w] \in {NoRun} \cup DOMAIN runs
  /\ heartbeat[w] = "off" <=> job[w] = NoRun
  /\ pc[w] = "executing" => job[w] # NoRun
  /\ pc[w] \notin {"executing", "cancelled"} => job[w] = NoRun

\* Every variable has a value the code can give it.  CREATED, TIMED_OUT and
\* RETRYING are passed inside one step: no task ever reads them from the table.
\* A worker has a run, and a heartbeat task, exactly while it is in the lease
\* scope of execute_run.
TypeOK ==
  /\ runs \in Seq(RunRecord)
  /\ events \in Seq(Seq(EventRecord))
  /\ Len(events) = Len(runs)
  /\ signalled \in BOOLEAN
  /\ pc \in [Workers -> Locations]
  /\ job \in [Workers -> Nat]
  /\ step \in [Workers -> 0..(Steps - 1)]
  /\ ctxCancelled \in [Workers -> BOOLEAN]
  /\ heartbeat \in [Workers -> Heartbeats]
  /\ allowed \in [Workers -> BOOLEAN]
  /\ \A w \in Workers : WorkerOK(w)

\* A run a client asked to stop is never reported as succeeded, however the
\* request interleaves with the end of its execution (execute_run asks the store
\* again before it writes the outcome).
NoSuccessAfterCancelRequest ==
  \A r \in DOMAIN runs :
    runs[r].status = "SUCCEEDED" => ~runs[r].cancel_requested

\* The record of a terminal run never changes and its log gets no further event,
\* whatever stale worker, late heartbeat or client still acts on it.
TerminalIsFinal ==
  [][\A r \in DOMAIN runs :
       runs[r].status \in TerminalStatuses =>
         runs'[r] = runs[r] /\ events'[r] = events[r]]_vars

\* Once its cancellation was requested a run is not started again: it is neither
\* claimed from the queue nor claimed for another attempt.
CancelledRunsDoNotRestart ==
  [][\A r \in DOMAIN runs :
       runs[r].cancel_requested /\ runs'[r].status = "RUNNING" =>
         /\ runs[r].status = "RUNNING"
         /\ runs'[r].retry_count = runs[r].retry_count]_vars

\* The orchestration implements the lifecycle that clients of the API see.
Lifecycle == INSTANCE RunLifecycle WITH
  phase    <- [r \in DOMAIN runs |-> runs[r].status],
  retries  <- [r \in DOMAIN runs |-> runs[r].retry_count],
  stopping <- {r \in DOMAIN runs : runs[r].cancel_requested}

ImplementsLifecycle == Lifecycle!Spec

\* A worker that executes a run is the one the store says holds it, so that no
\* run is executed twice at a time.
ExecutesOnlyOwnRun ==
  \A w \in Workers : pc[w] = "executing" =>
    runs[job[w]].status = "RUNNING" /\ runs[job[w]].claimed_worker = w

\* The workers that are in the lease scope of a run and do not hold it: a claim was
\* lost, or another worker wrote the outcome.
Stale(r) ==
  {w \in Workers : /\ job[w] = r
                   /\ ~(runs[r].status = "RUNNING" /\ runs[r].claimed_worker = w)}

\* Leases may lapse under their workers and nothing keeps a worker from acting on a run
\* it does not hold any more, but each such execution goes back to an attempt that
\* recover_expired_runs counted: a run that never lost a claim has one execution.
StaleExecutionsAreCounted ==
  \A r \in DOMAIN runs : Cardinality(Stale(r)) <= runs[r].retry_count

\* A consumer loop leaves with the ValueError of the policy only because of a run whose
\* claim had expired, however cancellations, failures and shutdowns interleave.
LoopsDieOfRetriedRunsOnly ==
  [][\A w \in Workers :
       pc[w] # "raising" /\ pc'[w] = "raising" => runs[job[w]].retry_count > 0]_vars

\* The consumer loop never leaves with an exception of its own: it goes on to
\* claim runs until it is shut down.
LoopsSurvive == \A w \in Workers : pc[w] \notin {"raising", "died"}

Settled(r) == r \in DOMAIN runs /\ runs[r].status \in TerminalStatuses

\* A run that was created is eventually succeeded, failed or cancelled: the signal,
\* the timeout of the wait, the heartbeats and the recovery of expired leases leave
\* no run behind as long as a worker is not shut down.
EveryRunSettles == \A r \in 1..MaxRuns : r \in DOMAIN runs ~> Settled(r)

\* A worker that was told to stop leaves its loop cleanly, from wherever it is.
ShutdownEndsLoop == \A w \in Workers : ~allowed[w] ~> pc[w] = "ended"

-----------------------------------------------------------------------------
(* What the comments of the code promise and the code does not keep.       *)

\* shutdown_execution: "Shutdown does NOT mark the run as CANCELLED in the store",
\* and only a client's request does (consumer.py:162-167).
CancelledOnlyOnRequest ==
  \A r \in DOMAIN runs :
    runs[r].status = "CANCELLED" => runs[r].cancel_requested

\* execute_run: "If cancelled, we log but do not mark as succeeded (run is already
\* CANCELLED in store)" (consumer.py:105).
CancelledExecutionOnlyLogs ==
  [][\A w \in Workers : ctxCancelled[w] => pc'[w] # "raising"]_vars

\* InMemoryRunSignalQueue: "Run enqueued | immediate wakeup" (queue.py:14).  No
\* worker sleeps on the signal while a run is waiting to be claimed.
NoSleepWhileRunsWait ==
  \A r \in DOMAIN runs, w \in Workers :
    runs[r].status = "ENQUEUED" => pc[w] # "waiting"

=============================================================================
