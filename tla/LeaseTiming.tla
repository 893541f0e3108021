----------------------------- MODULE LeaseTiming -----------------------------
(***************************************************************************)
(* The clock of one lease scope, in seconds: a worker has just claimed a   *)
(* run and executes it in steps, its heartbeat task renews the lease, the  *)
(* client may ask to stop, the worker's task may be cancelled, and another *)
(* consumer of the same store looks for expired leases whenever it is      *)
(* notified, or when its wait times out.                                   *)
(*                                                                         *)
(* A timer that fires is served with a delay of at most MaxStall, the time *)
(* for which something else may occupy the event loop.  RunOrchestration   *)
(* assumes of its leases (PromptLoop, ShortSteps) what is shown here.      *)
(***************************************************************************)
EXTENDS Integers

CONSTANTS
  LeaseTime,          \* 30, of get_new_expiration_ts
  HeartbeatInterval,  \* 5
  WaitTimeout,        \* 5, of RunSignalQueue.wait
  Steps,              \* 5, of RandomSleepRunExecutor
  MaxStep,            \* 8, the longest of its sleeps
  MaxStall            \* how late a timer may be served

ASSUME TimesAssumption ==
  /\ {LeaseTime, HeartbeatInterval, WaitTimeout, Steps, MaxStep, MaxStall}
       \subseteq Nat
  /\ Steps > 0

\* The lease survives a late start of the heartbeat task and a late beat, and the
\* longest step, which nobody renews the lease for once the heartbeat loop stopped.
ASSUME LeaseIsLongEnough ==
  /\ HeartbeatInterval + 2 * MaxStall <= LeaseTime
  /\ MaxStep + MaxStall <= LeaseTime

VARIABLES
  place,      \* of the worker that claimed the run
  steps,      \* steps begun
  work,       \* time to the end of the current step, negative when it is late
  heartbeat,  \* the heartbeat task: created, sleeping, or off
  beat,       \* time to its next action
  lease,      \* time to the expiration of the claim, -1 once it is passed
  holder,     \* whose the run is for the store
  asked,      \* cancel_requested
  told,       \* the execution context is cancelled
  poll,       \* time to the end of the other consumer's wait
  since       \* time since the request, or since the worker abandoned the run

vars == <<place, steps, work, heartbeat, beat, lease, holder, asked, told, poll, since>>

Init ==
  /\ place = "executing" /\ steps = 1 /\ work \in 0..MaxStep
  /\ heartbeat = "created" /\ beat = 0
  /\ lease = LeaseTime /\ holder = "worker"
  /\ asked = FALSE /\ told = FALSE
  /\ poll \in 0..WaitTimeout
  /\ since = 0

-----------------------------------------------------------------------------

\* The task created in __aenter__ gets its first turn and goes to sleep.
HeartbeatBegins ==
  /\ heartbeat = "created"
  /\ heartbeat' = "sleeping"
  /\ beat' = HeartbeatInterval
  /\ UNCHANGED <<place, steps, work, lease, holder, asked, told, poll, since>>

\* The heartbeat looks for the request and forgets the lease.
Beat_NotRenewing ==
  /\ heartbeat = "sleeping" /\ beat <= 0
  /\ told' = asked
  /\ IF asked THEN heartbeat' = "off" /\ beat' = 0
     ELSE beat' = HeartbeatInterval /\ UNCHANGED heartbeat
  /\ UNCHANGED <<place, steps, work, lease, holder, asked, poll, since>>

\* The expiration is moved on instead of being set anew.
Beat_ExtendsLease ==
  /\ heartbeat = "sleeping" /\ beat <= 0
  /\ lease' = lease + LeaseTime
  /\ told' = asked
  /\ IF asked THEN heartbeat' = "off" /\ beat' = 0
     ELSE beat' = HeartbeatInterval /\ UNCHANGED heartbeat
  /\ UNCHANGED <<place, steps, work, holder, asked, poll, since>>

\* A heartbeat renews the lease; if it finds the request to stop it tells the
\* execution and does not beat again.
Beat ==
  /\ heartbeat = "sleeping" /\ beat <= 0
  /\ lease' = LeaseTime
  /\ told' = asked
  /\ IF asked THEN heartbeat' = "off" /\ beat' = 0
     ELSE beat' = HeartbeatInterval /\ UNCHANGED heartbeat
  /\ UNCHANGED <<place, steps, work, holder, asked, poll, since>>

Leave(where) ==
  /\ place' = where
  /\ heartbeat' = "off" /\ beat' = 0 /\ work' = 0
  /\ UNCHANGED <<steps, lease, holder, asked, told, poll>>

StepDue == place = "executing" /\ work <= 0

\* The checkpoint before a step is passed over.
NextStep_NoCheckpoint ==
  /\ StepDue /\ steps < Steps
  /\ steps' = steps + 1
  /\ work' \in 0..MaxStep
  /\ UNCHANGED <<place, heartbeat, beat, lease, holder, asked, told, poll, since>>

NextStep ==
  /\ StepDue /\ steps < Steps /\ ~told
  /\ steps' = steps + 1
  /\ work' \in 0..MaxStep
  /\ UNCHANGED <<place, heartbeat, beat, lease, holder, asked, told, poll, since>>

\* The executor returns and the outcome is written.
ExecutorReturns ==
  /\ StepDue /\ (steps = Steps \/ told)
  /\ Leave("left")
  /\ UNCHANGED since

\* __aexit__ leaves the heartbeat task alone.
Abandon_HeartbeatGoesOn ==
  /\ place = "executing"
  /\ place' = "gone" /\ since' = 0 /\ work' = 0
  /\ UNCHANGED <<steps, heartbeat, beat, lease, holder, asked, told, poll>>

\* The worker's task is cancelled: the run stays RUNNING, the heartbeats end.
Abandon ==
  /\ place = "executing"
  /\ Leave("gone")
  /\ since' = 0

AskToStop ==
  /\ place = "executing" /\ ~asked
  /\ asked' = TRUE /\ since' = 0
  /\ UNCHANGED <<place, steps, work, heartbeat, beat, lease, holder, told, poll>>

\* The other consumer's claim_run takes a run whose claim has expired.
Scan ==
  /\ place # "left" /\ holder = "worker"
  /\ holder' = IF lease < 0 THEN "other" ELSE "worker"
  /\ poll' = WaitTimeout
  /\ UNCHANGED <<place, steps, work, heartbeat, beat, lease, asked, told, since>>

\* Time passes while nothing is served later than MaxStall.
Tick ==
  /\ place # "left" /\ holder = "worker"
  /\ heartbeat # "off" => beat > -MaxStall
  /\ place = "executing" => work > -MaxStall
  /\ poll > -MaxStall
  /\ beat' = IF heartbeat = "off" THEN beat ELSE beat - 1
  /\ work' = IF place = "executing" THEN work - 1 ELSE work
  /\ lease' = IF lease < 0 THEN lease ELSE lease - 1
  /\ poll' = poll - 1
  /\ since' = IF asked \/ place = "gone" THEN since + 1 ELSE since
  /\ UNCHANGED <<place, steps, heartbeat, holder, asked, told>>

Next ==
  \/ HeartbeatBegins \/ Beat
  \/ NextStep \/ ExecutorReturns \/ Abandon
  \/ AskToStop
  \/ Scan
  \/ Tick

Spec == Init /\ [][Next]_vars

-----------------------------------------------------------------------------
(* Properties.                                                             *)

\* Every variable has a value the code can give it: no timer is served later than
\* MaxStall, and no lease reaches further than LeaseTime ahead.
TypeOK ==
  /\ place \in {"executing", "left", "gone"}
  /\ steps \in 1..Steps
  /\ work \in -MaxStall..MaxStep
  /\ heartbeat \in {"created", "sleeping", "off"}
  /\ beat \in -MaxStall..HeartbeatInterval
  /\ lease \in -1..LeaseTime
  /\ holder \in {"worker", "other"}
  /\ asked \in BOOLEAN /\ told \in BOOLEAN
  /\ poll \in -MaxStall..WaitTimeout
  /\ since \in Nat

\* The lease of a run never ends while the run is executed, however many steps it
\* has and whenever the heartbeat loop stops because of a request to stop: no other
\* consumer ever finds the claim expired.
LeaseCoversExecution == place = "executing" => lease >= 0 /\ holder = "worker"

\* An execution ends within one heartbeat interval and one step of the request to
\* stop, as heartbeat_loop documents (run_lease.py:64), plus the delay of the start of
\* the heartbeat task, of the beat and of the step.
CancellationIsPrompt ==
  asked /\ place = "executing" =>
    since <= HeartbeatInterval + MaxStep + 3 * MaxStall

\* A run whose worker is gone is taken by an idle consumer once its lease is over and
\* the wait of that consumer timed out, although nobody notifies it.
AbandonedRunIsRecovered ==
  place = "gone" /\ holder = "worker" =>
    since <= LeaseTime + 1 + WaitTimeout + MaxStall

=============================================================================
