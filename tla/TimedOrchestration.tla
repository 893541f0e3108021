------------------------- MODULE TimedOrchestration -------------------------
(***************************************************************************)
(* RunOrchestration on the clock: each claim has a time to its expiration, *)
(* each heartbeat task one to its next beat, and each execution one to the *)
(* end of its step.  A timer is served with a delay of at most MaxStall,   *)
(* the time for which something else may occupy the event loop.            *)
(*                                                                         *)
(* The switches PromptLoop and ShortSteps play no part here: what they     *)
(* assume of RunOrchestration is shown of this specification.              *)
(***************************************************************************)
EXTENDS RunOrchestration

CONSTANTS
  LeaseTime,          \* 30, of get_new_expiration_ts
  HeartbeatInterval,  \* 5, of InMemoryConsumer
  MaxStep,            \* 8, the longest sleep of RandomSleepRunExecutor
  MaxStall            \* how late a timer may be served

ASSUME TimesAssumption ==
  /\ {LeaseTime, HeartbeatInterval, MaxStep, MaxStall} \subseteq Nat
  /\ HeartbeatInterval + 2 * MaxStall <= LeaseTime
  /\ MaxStep + MaxStall <= LeaseTime

VARIABLES
  left,    \* per run, time to the expiration of its claim, -1 once it is passed
  beat,    \* per worker, time to the next turn of its heartbeat task
  asleep,  \* the heartbeat task had its first turn
  work     \* time to the end of the step that a worker executes

timers == <<left, beat, asleep, work>>
timedVars == <<vars, timers>>

TimedInit ==
  /\ Init
  /\ left = <<>>
  /\ beat = [w \in Workers |-> 0]
  /\ asleep = [w \in Workers |-> FALSE]
  /\ work = [w \in Workers |-> 0]

-----------------------------------------------------------------------------
(* What a step does to the claims.                                         *)

\* The expiration is moved on by the lease instead of being set anew.
Grant_MovesOn(granted) ==
  left' = [r \in DOMAIN runs' |->
             IF r \in granted THEN left[r] + LeaseTime
             ELSE IF r \in DOMAIN runs /\ runs'[r].status = "RUNNING" THEN left[r]
             ELSE -1]

\* get_new_expiration_ts, for the runs in granted.  The expiration of a run that is
\* not RUNNING is never looked at.
Grant(granted) ==
  left' = [r \in DOMAIN runs' |->
             IF r \in granted THEN LeaseTime
             ELSE IF r \in DOMAIN runs /\ runs'[r].status = "RUNNING" THEN left[r]
             ELSE -1]

-----------------------------------------------------------------------------

TimedClients ==
  /\ Clients
  /\ Grant({})
  /\ UNCHANGED <<beat, asleep, work>>

\* The tasks of the heartbeat and of the first step are due at once, and within
\* MaxStep.
BeginScope(w) ==
  /\ beat' = [beat EXCEPT ![w] = 0]
  /\ asleep' = [asleep EXCEPT ![w] = FALSE]
  /\ \E t \in 0..MaxStep : work' = [work EXCEPT ![w] = t]

\* The consumer loop, from a wake-up, or from the end of a lease scope while the event
\* is set, to its next suspension.
Turn(w) ==
  /\ \/ pc[w] = "ready"
     \/ pc[w] = "releasing" /\ allowed[w] /\ signalled
  /\ \/ ClaimNothing(w) /\ Grant({}) /\ UNCHANGED <<beat, asleep, work>>
     \/ \E r \in DOMAIN runs :
          /\ \/ AbandonClaim(w, r) /\ UNCHANGED <<beat, asleep, work>>
             \/ StartRun(w, r) /\ BeginScope(w)
          /\ Grant({r})

StepDue(w) == pc[w] = "executing" /\ work[w] <= 0

TimedNextStep(w) ==
  /\ StepDue(w)
  /\ NextStep(w)
  /\ \E t \in 0..MaxStep : work' = [work EXCEPT ![w] = t]
  /\ UNCHANGED <<left, beat, asleep>>

\* The timers of the worker's heartbeat and step are cancelled.
EndScope(w) ==
  /\ beat' = [beat EXCEPT ![w] = 0]
  /\ asleep' = [asleep EXCEPT ![w] = FALSE]
  /\ work' = [work EXCEPT ![w] = 0]

Finish(w) ==
  /\ StepDue(w)
  /\ ExecutorReturns(w) \/ ExecutorRaises(w)
  /\ Grant({})
  /\ EndScope(w)

TimedUnwind(w) ==
  /\ Unwind(w)
  /\ EndScope(w)
  /\ UNCHANGED left

-----------------------------------------------------------------------------
(* The heartbeat task.                                                     *)

\* Its first turn: it goes to sleep.
HeartbeatBegins(w) ==
  /\ heartbeat[w] = "beating" /\ ~asleep[w]
  /\ asleep' = [asleep EXCEPT ![w] = TRUE]
  /\ beat' = [beat EXCEPT ![w] = HeartbeatInterval]
  /\ UNCHANGED <<vars, left, work>>

Holds(w) ==
  runs[job[w]].status = "RUNNING" /\ runs[job[w]].claimed_worker = w

\* The store's heartbeat keeps the expiration it finds.
Beat_NotRenewing(w) ==
  /\ asleep[w] /\ beat[w] <= 0
  /\ Heartbeat(w)
  /\ Grant({})
  /\ asleep' = [asleep EXCEPT ![w] = heartbeat'[w] = "beating"]
  /\ beat' = [beat EXCEPT ![w] = HeartbeatInterval]
  /\ UNCHANGED work

\* It wakes up, and goes to sleep again unless it found a reason to end.
Beat(w) ==
  /\ asleep[w] /\ beat[w] <= 0
  /\ Heartbeat(w)
  /\ Grant({r \in {job[w]} : Holds(w)})
  /\ asleep' = [asleep EXCEPT ![w] = heartbeat'[w] = "beating"]
  /\ beat' = [beat EXCEPT ![w] = HeartbeatInterval]
  /\ UNCHANGED work

-----------------------------------------------------------------------------
(* The clock.                                                              *)

\* The claim is expired at its expiration already.
Overdue_AtExpiration(r) ==
  /\ runs[r].status = "RUNNING" /\ runs[r].lease = "live"
  /\ left[r] <= 0
  /\ runs[r].retry_count < MaxRetries

\* A claim whose expiration is passed is expired for has_claim_expired at once.
Overdue(r) ==
  /\ runs[r].status = "RUNNING" /\ runs[r].lease = "live"
  /\ left[r] < 0
  /\ runs[r].retry_count < MaxRetries

TimedExpiry(r) == Overdue(r) /\ LeasePasses(r) /\ UNCHANGED timers

\* Time passes while nothing is served later than MaxStall.
Tick ==
  /\ \A r \in DOMAIN runs : ~Overdue(r)
  /\ \A w \in Workers :
       /\ heartbeat[w] = "beating" => beat[w] > -MaxStall
       /\ pc[w] = "executing" => work[w] > -MaxStall
  /\ left' = [r \in DOMAIN runs |-> IF left[r] < 0 THEN left[r] ELSE left[r] - 1]
  /\ beat' = [w \in Workers |->
                IF heartbeat[w] = "beating" THEN beat[w] - 1 ELSE beat[w]]
  /\ work' = [w \in Workers |->
                IF pc[w] = "executing" THEN work[w] - 1 ELSE work[w]]
  /\ UNCHANGED <<vars, asleep>>

-----------------------------------------------------------------------------

\* The consumer task, the time-out of its wait included.
TimedConsumer(w) ==
  \/ Turn(w) \/ TimedNextStep(w) \/ Finish(w) \/ TimedUnwind(w)
  \/ /\ LoopEnds(w) \/ LoopWaits(w) \/ LoopDies(w) \/ WaitTimesOut(w)
     /\ UNCHANGED timers

TimedHeartbeat(w) == HeartbeatBegins(w) \/ Beat(w)

Shutdown(w) == (ShutdownExecution(w) \/ InfraShutdown(w)) /\ UNCHANGED timers

Clock == Tick \/ \E r \in DOMAIN runs : TimedExpiry(r)

TimedNext ==
  \/ TimedClients
  \/ \E w \in Workers : TimedConsumer(w) \/ TimedHeartbeat(w) \/ Shutdown(w)
  \/ Clock

TimedSpec == TimedInit /\ [][TimedNext]_timedVars

-----------------------------------------------------------------------------
(* Properties.                                                             *)

\* Every variable has a value the code can give it: no timer is served later than
\* MaxStall, and no claim reaches further than LeaseTime ahead.
TimedTypeOK ==
  /\ TypeOK
  /\ left \in [DOMAIN runs -> -1..LeaseTime]
  /\ beat \in [Workers -> -MaxStall..HeartbeatInterval]
  /\ asleep \in [Workers -> BOOLEAN]
  /\ work \in [Workers -> -MaxStall..MaxStep]

\* The claim of a worker that executes, or whose heartbeat task still beats, does not
\* expire: it outlasts each pause between two beats, and the step that goes on after the
\* heartbeat loop (run_lease.py:74-89) stopped because of a request to stop.
ClaimsOutlastExecutions ==
  \A w \in Workers :
    pc[w] = "executing" \/ heartbeat[w] = "beating" =>
      left[job[w]] >= 0 /\ runs[job[w]].lease = "live"

\* With these times the system keeps what PromptLoop and ShortSteps assume of it: it
\* implements the orchestration with both switches on.
ImplementsOrchestration == Spec

=============================================================================
