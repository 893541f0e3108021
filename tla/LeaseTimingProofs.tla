-------------------------- MODULE LeaseTimingProofs --------------------------
(***************************************************************************)
(* The timing properties of a lease scope, for every choice of the numbers *)
(* that satisfies LeaseIsLongEnough.                                       *)
(*                                                                         *)
(* None of the three is inductive.  The strengthening ties the clocks that *)
(* run side by side to one another: as long as the heartbeat is to come,   *)
(* the lease and the age of a request are bounded by the time to the beat; *)
(* once the heartbeat stopped they are bounded by the rest of the step;    *)
(* and once the worker is gone the age of its absence is bounded by the    *)
(* lease, and after that by the wait of the other consumer.                *)
(***************************************************************************)
EXTENDS LeaseTiming, TLAPS

Executing == place = "executing"

\* The heartbeat task exists only in the lease scope, and tells the execution of a
\* request to stop when, and only when, it ends because of one.
Scope ==
  /\ ~Executing => heartbeat = "off"
  /\ Executing => holder = "worker"
  /\ Executing /\ heartbeat = "off" => told
  /\ heartbeat # "off" => ~told
  /\ told => asked

\* The task was created together with the lease, and has not had its first turn.
BeforeTheHeartbeat ==
  heartbeat = "created" =>
    /\ beat <= 0
    /\ lease = LeaseTime + beat
    /\ asked => since <= -beat

UntilTheBeat ==
  heartbeat = "sleeping" =>
    /\ lease >= LeaseTime - MaxStall - HeartbeatInterval + beat
    /\ asked => since <= MaxStall + HeartbeatInterval - beat

UntilTheCheckpoint ==
  Executing /\ heartbeat = "off" =>
    /\ lease >= LeaseTime - MaxStep + work
    /\ since <= HeartbeatInterval + MaxStep + 2 * MaxStall - work

UntilTheRecovery ==
  place = "gone" /\ holder = "worker" =>
    /\ lease >= 0 => since <= LeaseTime - lease
    /\ lease = -1 => since <= LeaseTime + 1 + WaitTimeout - poll

TimingInv ==
  /\ TypeOK /\ Scope
  /\ BeforeTheHeartbeat /\ UntilTheBeat /\ UntilTheCheckpoint /\ UntilTheRecovery

-----------------------------------------------------------------------------

\* The parameters, one by one, and the two inequalities between them.
LEMMA Times ==
  /\ LeaseTime \in Nat /\ HeartbeatInterval \in Nat /\ WaitTimeout \in Nat
  /\ Steps \in Nat /\ Steps > 0 /\ MaxStep \in Nat /\ MaxStall \in Nat
  /\ HeartbeatInterval + 2 * MaxStall <= LeaseTime
  /\ MaxStep + MaxStall <= LeaseTime
BY TimesAssumption, LeaseIsLongEnough

\* What the strengthening says of a run in execution, as the property states it.
LEMMA LeaseLives ==
  ASSUME TimingInv PROVE LeaseCoversExecution
<1> SUFFICES ASSUME Executing PROVE lease >= 0 /\ holder = "worker"
  BY DEF LeaseCoversExecution, Executing
<1>1. holder = "worker"
  BY DEF TimingInv, Scope
<1>2. CASE heartbeat = "created"
  BY <1>1, <1>2, Times DEF TimingInv, TypeOK, BeforeTheHeartbeat
<1>3. CASE heartbeat = "sleeping"
  BY <1>1, <1>3, Times DEF TimingInv, TypeOK, UntilTheBeat
<1>4. CASE heartbeat = "off"
  BY <1>1, <1>4, Times DEF TimingInv, TypeOK, UntilTheCheckpoint
<1> QED
  BY <1>2, <1>3, <1>4 DEF TimingInv, TypeOK

LEMMA InitHolds ==
  ASSUME Init PROVE TimingInv
<1>1. TypeOK
  <2>1. steps \in 1..Steps /\ work \in -MaxStall..MaxStep /\ poll \in -MaxStall..WaitTimeout
    BY Times DEF Init
  <2>2. beat \in -MaxStall..HeartbeatInterval /\ lease \in -1..LeaseTime /\ since \in Nat
    BY Times DEF Init
  <2> QED
    BY <2>1, <2>2 DEF Init, TypeOK
<1>2. Scope /\ BeforeTheHeartbeat
  BY Times DEF Init, Scope, Executing, BeforeTheHeartbeat
<1>3. UntilTheBeat /\ UntilTheCheckpoint /\ UntilTheRecovery
  BY DEF Init, UntilTheBeat, UntilTheCheckpoint, UntilTheRecovery
<1> QED
  BY <1>1, <1>2, <1>3 DEF TimingInv

\* The clock: every timer loses a second, unless it is already served too late.
LEMMA TickHolds ==
  ASSUME TimingInv, Tick PROVE TimingInv'
<1> USE Times DEF TimingInv
<1>0. LeaseCoversExecution
  BY LeaseLives
<1>1. TypeOK'
  BY DEF TypeOK, Tick
<1>2. Scope'
  BY DEF Scope, Executing, Tick
<1>3. BeforeTheHeartbeat'
  BY <1>0 DEF BeforeTheHeartbeat, LeaseCoversExecution, Scope, Executing, Tick, TypeOK
<1>4. UntilTheBeat'
  BY <1>0 DEF UntilTheBeat, LeaseCoversExecution, Scope, Executing, Tick, TypeOK
<1>5. UntilTheCheckpoint'
  BY <1>0 DEF UntilTheCheckpoint, LeaseCoversExecution, Scope, Executing, Tick, TypeOK
<1>6. UntilTheRecovery'
  BY DEF UntilTheRecovery, Scope, Executing, Tick, TypeOK
<1> QED
  BY <1>1, <1>2, <1>3, <1>4, <1>5, <1>6

\* The heartbeat task: its first turn, and its beats.
LEMMA HeartbeatHolds ==
  ASSUME TimingInv, HeartbeatBegins \/ Beat PROVE TimingInv'
<1> USE Times DEF TimingInv
<1>1. CASE HeartbeatBegins
  BY <1>1 DEF HeartbeatBegins, TypeOK, Scope, Executing, BeforeTheHeartbeat,
    UntilTheBeat, UntilTheCheckpoint, UntilTheRecovery
<1>2. CASE Beat
  <2>1. TypeOK' /\ Scope'
    BY <1>2 DEF Beat, TypeOK, Scope, Executing
  <2>2. BeforeTheHeartbeat' /\ UntilTheBeat' /\ UntilTheRecovery'
    BY <1>2 DEF Beat, TypeOK, Scope, Executing, BeforeTheHeartbeat, UntilTheBeat,
      UntilTheRecovery
  <2>3. UntilTheCheckpoint'
    BY <1>2 DEF Beat, TypeOK, Scope, Executing, UntilTheBeat, UntilTheCheckpoint
  <2> QED
    BY <2>1, <2>2, <2>3
<1> QED
  BY <1>1, <1>2

\* The executor goes on only while it is not told to stop, that is, while the
\* heartbeat is to come; otherwise the execution ends.
LEMMA ExecutionHolds ==
  ASSUME TimingInv, NextStep \/ ExecutorReturns \/ Abandon PROVE TimingInv'
<1> USE Times DEF TimingInv
<1>1. CASE NextStep
  <2>1. steps' \in 1..Steps /\ work' \in -MaxStall..MaxStep
    BY <1>1 DEF NextStep, TypeOK
  <2>2. TypeOK'
    BY <1>1, <2>1 DEF NextStep, TypeOK
  <2>3. Scope' /\ BeforeTheHeartbeat' /\ UntilTheBeat'
    BY <1>1 DEF NextStep, Scope, Executing, BeforeTheHeartbeat, UntilTheBeat
  <2>4. UntilTheCheckpoint' /\ UntilTheRecovery'
    BY <1>1 DEF NextStep, StepDue, Scope, Executing, UntilTheCheckpoint, UntilTheRecovery
  <2> QED
    BY <2>2, <2>3, <2>4
<1>2. CASE ExecutorReturns
  BY <1>2 DEF ExecutorReturns, StepDue, Leave, TypeOK, Scope, Executing,
    BeforeTheHeartbeat, UntilTheBeat, UntilTheCheckpoint, UntilTheRecovery
<1>3. CASE Abandon
  <2>1. TypeOK' /\ Scope'
    BY <1>3 DEF Abandon, Leave, TypeOK, Scope, Executing
  <2>2. BeforeTheHeartbeat' /\ UntilTheBeat' /\ UntilTheCheckpoint'
    BY <1>3 DEF Abandon, Leave, Executing, BeforeTheHeartbeat, UntilTheBeat,
      UntilTheCheckpoint
  <2>3. UntilTheRecovery'
    BY <1>3 DEF Abandon, Leave, TypeOK, UntilTheRecovery
  <2> QED
    BY <2>1, <2>2, <2>3
<1> QED
  BY <1>1, <1>2, <1>3

\* The client, and the other consumer: while the worker is in its scope the scan
\* finds a live lease.
LEMMA OthersHold ==
  ASSUME TimingInv, AskToStop \/ Scan PROVE TimingInv'
<1> USE Times DEF TimingInv
<1>1. CASE AskToStop
  <2>1. TypeOK' /\ Scope' /\ UntilTheCheckpoint' /\ UntilTheRecovery'
    BY <1>1 DEF AskToStop, TypeOK, Scope, Executing, UntilTheCheckpoint,
      UntilTheRecovery
  <2>2. BeforeTheHeartbeat' /\ UntilTheBeat'
    BY <1>1 DEF AskToStop, TypeOK, Executing, BeforeTheHeartbeat, UntilTheBeat
  <2> QED
    BY <2>1, <2>2
<1>2. CASE Scan
  <2>0. LeaseCoversExecution
    BY LeaseLives
  <2>1. TypeOK' /\ Scope'
    BY <1>2, <2>0 DEF Scan, LeaseCoversExecution, TypeOK, Scope, Executing
  <2>2. BeforeTheHeartbeat' /\ UntilTheBeat' /\ UntilTheCheckpoint'
    BY <1>2 DEF Scan, Executing, BeforeTheHeartbeat, UntilTheBeat, UntilTheCheckpoint
  <2>3. UntilTheRecovery'
    BY <1>2 DEF Scan, TypeOK, UntilTheRecovery
  <2> QED
    BY <2>1, <2>2, <2>3
<1> QED
  BY <1>1, <1>2

LEMMA StepHolds ==
  ASSUME TimingInv, [Next]_vars PROVE TimingInv'
<1>1. CASE UNCHANGED vars
  BY <1>1 DEF vars, TimingInv, TypeOK, Scope, Executing, BeforeTheHeartbeat, UntilTheBeat,
    UntilTheCheckpoint, UntilTheRecovery
<1> QED
  BY <1>1, TickHolds, HeartbeatHolds, ExecutionHolds, OthersHold DEF Next

\* The strengthening holds in every state.
THEOREM TimingInvariant == Spec => []TimingInv
<1>1. Init => TimingInv
  BY InitHolds
<1>2. TimingInv /\ [Next]_vars => TimingInv'
  BY StepHolds
<1> QED
  BY <1>1, <1>2, PTL DEF Spec

-----------------------------------------------------------------------------

\* No timer is served later than MaxStall and no lease reaches further than LeaseTime
\* ahead, for any numbers.
THEOREM TimersInRange == Spec => []TypeOK
<1>1. TimingInv => TypeOK
  BY DEF TimingInv
<1> QED
  BY <1>1, TimingInvariant, PTL

\* The lease of a run in execution never ends, if it is longer than one heartbeat
\* interval and two delays, and longer than one step and one delay; the number of
\* steps does not matter.
THEOREM LeaseOutlivesBeatAndStep == Spec => []LeaseCoversExecution
<1>1. TimingInv => LeaseCoversExecution
  BY LeaseLives
<1> QED
  BY <1>1, TimingInvariant, PTL

\* An execution ends within one heartbeat interval and one step of the request to
\* stop, and the delays of three timers.
THEOREM RequestsAreObeyedInTime == Spec => []CancellationIsPrompt
<1>1. TimingInv => CancellationIsPrompt
  <2> SUFFICES ASSUME TimingInv, asked, Executing
               PROVE  since <= HeartbeatInterval + MaxStep + 3 * MaxStall
    BY DEF CancellationIsPrompt, Executing
  <2>1. CASE heartbeat = "created"
    BY <2>1, Times DEF TimingInv, TypeOK, BeforeTheHeartbeat
  <2>2. CASE heartbeat = "sleeping"
    BY <2>2, Times DEF TimingInv, TypeOK, UntilTheBeat
  <2>3. CASE heartbeat = "off"
    BY <2>3, Times DEF TimingInv, TypeOK, UntilTheCheckpoint
  <2> QED
    BY <2>1, <2>2, <2>3 DEF TimingInv, TypeOK
<1> QED
  BY <1>1, TimingInvariant, PTL

\* A run whose worker is gone is taken over within the lease and one wait of another
\* consumer.
THEOREM AbandonedRunsAreTakenOver == Spec => []AbandonedRunIsRecovered
<1>1. TimingInv => AbandonedRunIsRecovered
  <2> SUFFICES ASSUME TimingInv, place = "gone", holder = "worker"
               PROVE  since <= LeaseTime + 1 + WaitTimeout + MaxStall
    BY DEF AbandonedRunIsRecovered
  <2>1. lease = -1 \/ lease \in 0..LeaseTime
    BY Times DEF TimingInv, TypeOK
  <2> QED
    BY <2>1, Times DEF TimingInv, TypeOK, UntilTheRecovery
<1> QED
  BY <1>1, TimingInvariant, PTL

=============================================================================
