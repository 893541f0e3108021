------------------------ MODULE RunAbstractionProofs ------------------------
(***************************************************************************)
(* Two ways of looking at the store are right, for any workers, bounds and *)
(* timing, as long as nobody calls the deprecated mark_cancelled: what a   *)
(* client sees of the runs follows RunLifecycle, and the log of a run      *)
(* tells its record.                                                       *)
(*                                                                         *)
(* Both are shown per store method, then for the steps that call them.     *)
(***************************************************************************)
EXTENDS RunOrchestrationProofs, RunProjection, FiniteSetTheorems

-----------------------------------------------------------------------------
(* The lifecycle: what a method does to the view of a client.              *)

\* The view of a client, as the refinement mapping has it.
PhaseView == [r \in DOMAIN runs |-> runs[r].status]
RetryView == [r \in DOMAIN runs |-> runs[r].retry_count]
StopView == {r \in DOMAIN runs : runs[r].cancel_requested}

\* A step of the lifecycle, or a stutter.
LifecycleStep == [Lifecycle!Next]_(Lifecycle!lifecycle)

LEMMA ViewDomain ==
  ASSUME StoreOK
  PROVE  /\ DOMAIN PhaseView = DOMAIN runs /\ DOMAIN RetryView = DOMAIN runs
         /\ \A r \in DOMAIN runs :
              /\ PhaseView[r] = runs[r].status
              /\ RetryView[r] = runs[r].retry_count
              /\ r \in StopView <=> runs[r].cancel_requested
              /\ runs[r].cancel_requested \in BOOLEAN
         /\ StopView \subseteq DOMAIN runs
<1>1. \A r \in DOMAIN runs : runs[r].cancel_requested \in BOOLEAN
  BY StoreDomains DEF RunRecord
<1> QED
  BY <1>1 DEF PhaseView, RetryView, StopView

\* A step that leaves what clients see alone.
LEMMA SameView ==
  ASSUME DOMAIN runs' = DOMAIN runs,
         \A r \in DOMAIN runs :
           /\ runs'[r].status = runs[r].status
           /\ runs'[r].retry_count = runs[r].retry_count
           /\ runs'[r].cancel_requested = runs[r].cancel_requested
  PROVE  LifecycleStep
<1>1. PhaseView' = PhaseView /\ RetryView' = RetryView /\ StopView' = StopView
  BY DEF PhaseView, RetryView, StopView
<1> QED
  BY <1>1 DEF LifecycleStep, Lifecycle!lifecycle, PhaseView, RetryView, StopView

LEMMA SameRunsSameView ==
  ASSUME UNCHANGED runs
  PROVE  LifecycleStep
BY SameView

\* A column of the table, read as a sequence.
LEMMA ColumnAppended ==
  ASSUME NEW S, NEW n \in Nat, NEW f, NEW g, NEW x \in S,
         DOMAIN f = 1..n, DOMAIN g = 1..(n + 1),
         f = [r \in DOMAIN f |-> f[r]], g = [r \in DOMAIN g |-> g[r]],
         \A r \in 1..n : f[r] \in S /\ g[r] = f[r],
         g[n + 1] = x
  PROVE  g = Append(f, x)
<1>1. \A r \in 1..(n + 1) : r \in 1..n \/ r = n + 1
  OBVIOUS
<1>2. f \in [1..n -> S] /\ g \in [1..(n + 1) -> S]
  BY <1>1
<1>3. f \in Seq(S) /\ Len(f) = n /\ g \in Seq(S) /\ Len(g) = n + 1
  <2>1. n + 1 \in Nat
    OBVIOUS
  <2> QED
    BY <1>2, <2>1, FunctionIsSeq
<1>4. /\ Append(f, x) \in Seq(S) /\ Len(Append(f, x)) = n + 1
      /\ \A r \in 1..n : Append(f, x)[r] = f[r]
      /\ Append(f, x)[n + 1] = x
  BY <1>3, AppendProperties
<1>5. \A r \in 1..(n + 1) : g[r] = Append(f, x)[r]
  BY <1>1, <1>4
<1> QED
  BY <1>3, <1>4, <1>5, SeqEqual

\* A new run at the end of the table is submitted.
LEMMA SubmitView ==
  ASSUME StoreOK, CreateEnqueued
  PROVE  LifecycleStep
<1> DEFINE n == Len(runs)
           run == FreshRun("ENQUEUED")
<1>1. n \in Nat /\ DOMAIN runs = 1..n
  BY StoreDomains
<1>2. run \in RunRecord /\ runs' = Append(runs, run)
  BY FreshRunType DEF CreateEnqueued, RestingStatuses
<1>3. run.status = "ENQUEUED" /\ run.retry_count = 0 /\ run.cancel_requested = FALSE
  BY DEF FreshRun
<1> HIDE DEF run
<1>4. /\ runs' \in Seq(RunRecord) /\ Len(runs') = n + 1
      /\ \A r \in 1..n : runs'[r] = runs[r]
      /\ runs'[n + 1] = run
  BY <1>2, AppendProperties DEF StoreOK
<1>5. DOMAIN runs' = 1..(n + 1)
  BY <1>4, LenProperties
<1> HIDE DEF n
<1>6. \A r \in 1..n : runs[r].status \in RestingStatuses /\ runs[r].retry_count \in Nat
  BY <1>1, StoreDomains DEF RunRecord
<1>7. 1..n \subseteq 1..(n + 1) /\ n + 1 \in 1..(n + 1)
  BY <1>1
<1>8. PhaseView' = Append(PhaseView, "ENQUEUED")
  <2>1. /\ DOMAIN PhaseView = 1..n /\ DOMAIN PhaseView' = 1..(n + 1)
        /\ PhaseView = [r \in DOMAIN PhaseView |-> PhaseView[r]]
        /\ PhaseView' = [r \in DOMAIN PhaseView' |-> PhaseView'[r]]
    BY <1>1, <1>5 DEF PhaseView
  <2>2. \A r \in 1..n : PhaseView[r] \in RestingStatuses /\ PhaseView'[r] = PhaseView[r]
    BY <1>1, <1>4, <1>5, <1>6, <1>7 DEF PhaseView
  <2>3. PhaseView'[n + 1] = "ENQUEUED"
    BY <1>3, <1>4, <1>5, <1>7 DEF PhaseView
  <2>4. "ENQUEUED" \in RestingStatuses
    BY DEF RestingStatuses
  <2> QED
    BY <1>1, <2>1, <2>2, <2>3, <2>4, ColumnAppended
<1>9. RetryView' = Append(RetryView, 0)
  <2>1. /\ DOMAIN RetryView = 1..n /\ DOMAIN RetryView' = 1..(n + 1)
        /\ RetryView = [r \in DOMAIN RetryView |-> RetryView[r]]
        /\ RetryView' = [r \in DOMAIN RetryView' |-> RetryView'[r]]
    BY <1>1, <1>5 DEF RetryView
  <2>2. \A r \in 1..n : RetryView[r] \in Nat /\ RetryView'[r] = RetryView[r]
    BY <1>1, <1>4, <1>5, <1>6, <1>7 DEF RetryView
  <2>3. RetryView'[n + 1] = 0
    BY <1>3, <1>4, <1>5, <1>7 DEF RetryView
  <2> QED
    BY <1>1, <2>1, <2>2, <2>3, ColumnAppended
<1>10. StopView' = StopView
  <2>1. \A r \in DOMAIN runs' : r \in 1..n \/ r = n + 1
    BY <1>1, <1>5
  <2> QED
    BY <1>1, <1>3, <1>4, <1>5, <1>7, <2>1 DEF StopView
<1> QED
  BY <1>8, <1>9, <1>10 DEF LifecycleStep, Lifecycle!Next, Lifecycle!Submit,
    PhaseView, RetryView, StopView

\* A request to stop.
LEMMA AskView ==
  ASSUME StoreOK, NEW r \in DOMAIN runs, RequestCancellation(r)
  PROVE  LifecycleStep
<1> DEFINE run == WithCancelRequested(runs[r])
<1>1. runs[r] \in RunRecord /\ run \in RunRecord /\ Update(r, run)
  BY StoreDomains, RewrittenTypes DEF RequestCancellation
<1>2. /\ run.status = runs[r].status /\ run.retry_count = runs[r].retry_count
      /\ run.cancel_requested = TRUE
  BY <1>1 DEF WithCancelRequested, RunRecord
<1>3. /\ DOMAIN runs' = DOMAIN runs
      /\ \A q \in DOMAIN runs : runs'[q] = IF q = r THEN run ELSE runs[q]
  BY <1>1, UpdateFacts DEF StoreOK
<1>4. runs[r].status \notin TerminalStatuses
  BY DEF RequestCancellation, MayRequestCancellation
<1> HIDE DEF run
<1>5. PhaseView' = PhaseView /\ RetryView' = RetryView
  BY <1>2, <1>3 DEF PhaseView, RetryView
<1>6. StopView' = StopView \cup {r}
  BY <1>2, <1>3 DEF StopView
<1>7. Lifecycle!AskToStop(r)
  BY <1>4, <1>5, <1>6 DEF Lifecycle!AskToStop, Lifecycle!Final, TerminalStatuses,
    PhaseView, RetryView, StopView
<1> QED
  BY <1>7, ViewDomain DEF LifecycleStep, Lifecycle!Next, Lifecycle!Runs, PhaseView

\* An outcome is written.
LEMMA FinishView ==
  ASSUME StoreOK, NEW r \in DOMAIN runs, NEW s \in TerminalStatuses, SetFinal(r, s),
         s = "SUCCEEDED" => ~runs[r].cancel_requested
  PROVE  LifecycleStep
<1> DEFINE run == MoveTo(runs[r], s)
<1>1. runs[r] \in RunRecord /\ run \in RunRecord /\ Update(r, run)
  BY StoreDomains, RewrittenTypes DEF SetFinal, RestingStatuses
<1>2. /\ run.status = s /\ run.retry_count = runs[r].retry_count
      /\ run.cancel_requested = runs[r].cancel_requested
  BY <1>1 DEF MoveTo, RunRecord
<1>3. /\ DOMAIN runs' = DOMAIN runs
      /\ \A q \in DOMAIN runs : runs'[q] = IF q = r THEN run ELSE runs[q]
  BY <1>1, UpdateFacts DEF StoreOK
<1>4. /\ runs[r].status \notin TerminalStatuses
      /\ s \in {"SUCCEEDED", "FAILED"} => runs[r].status = "RUNNING"
  BY DEF SetFinal, Validates, TransitionRules, TerminalStatuses
<1> HIDE DEF run
<1>5. PhaseView' = [PhaseView EXCEPT ![r] = s]
  BY <1>2, <1>3 DEF PhaseView
<1>6. RetryView' = RetryView /\ StopView' = StopView
  BY <1>2, <1>3 DEF RetryView, StopView
<1>7. Lifecycle!Finish(r, s)
  BY <1>4, <1>5, <1>6 DEF Lifecycle!Finish, Lifecycle!Final, TerminalStatuses,
    PhaseView, RetryView, StopView
<1> QED
  BY <1>7, ViewDomain DEF LifecycleStep, Lifecycle!Next, Lifecycle!Runs, Lifecycle!Final,
    TerminalStatuses, PhaseView

\* A scan takes expired runs back, cancels those that were asked to stop and starts
\* at most one.
LEMMA PollView ==
  ASSUME StoreOK, NEW w \in Workers, NEW last \in Nat, NEW won \in SUBSET DOMAIN runs,
         Scan(w, last, won), \A p, q \in won : p = q, \A r \in won : Claimable(r, w)
  PROVE  LifecycleStep
<1> DEFINE lost == {r \in DOMAIN runs : ClaimExpired(runs[r])}
           dropped == {r \in DOMAIN runs : r \notin won /\ r <= last /\ Cancellable(r, w)}
           run(r) == IF r \in won THEN Claim(AfterRecovery(r, w), w)
                     ELSE IF r <= last /\ Cancellable(r, w)
                          THEN MoveTo(AfterRecovery(r, w), "CANCELLED")
                     ELSE AfterRecovery(r, w)
<1>1. DOMAIN runs' = DOMAIN runs /\ \A r \in DOMAIN runs : runs'[r] = run(r)
  BY DEF Scan
<1>2. ASSUME NEW r \in DOMAIN runs
      PROVE  /\ AfterRecovery(r, w).cancel_requested = runs[r].cancel_requested
             /\ AfterRecovery(r, w).status =
                  IF r \in lost THEN "ENQUEUED" ELSE runs[r].status
             /\ AfterRecovery(r, w).retry_count =
                  IF r \in lost THEN runs[r].retry_count + 1 ELSE runs[r].retry_count
             /\ AfterRecovery(r, w) \in RunRecord
  <2>1. runs[r] \in RunRecord /\ AfterRecovery(r, w) \in RunRecord
    BY StoreDomains, AfterRecoveryType
  <2>2. Recover(runs[r], w).retry_count = runs[r].retry_count + 1
    BY <2>1 DEF Recover, RunRecord
  <2> QED
    BY <2>1, <2>2, RecordTypes DEF AfterRecovery
<1>3. ASSUME NEW r \in DOMAIN runs
      PROVE  /\ runs'[r].cancel_requested = runs[r].cancel_requested
             /\ runs'[r].status = IF r \in won THEN "RUNNING"
                                  ELSE IF r \in dropped THEN "CANCELLED"
                                  ELSE IF r \in lost THEN "ENQUEUED"
                                  ELSE runs[r].status
             /\ runs'[r].retry_count =
                  IF r \in lost THEN runs[r].retry_count + 1 ELSE runs[r].retry_count
  <2>1. /\ Claim(AfterRecovery(r, w), w).status = "RUNNING"
        /\ Claim(AfterRecovery(r, w), w).retry_count = AfterRecovery(r, w).retry_count
        /\ Claim(AfterRecovery(r, w), w).cancel_requested
             = AfterRecovery(r, w).cancel_requested
    BY <1>2 DEF Claim, RunRecord
  <2>2. /\ MoveTo(AfterRecovery(r, w), "CANCELLED").status = "CANCELLED"
        /\ MoveTo(AfterRecovery(r, w), "CANCELLED").retry_count
             = AfterRecovery(r, w).retry_count
        /\ MoveTo(AfterRecovery(r, w), "CANCELLED").cancel_requested
             = AfterRecovery(r, w).cancel_requested
    BY <1>2 DEF MoveTo, RunRecord
  <2>3. CASE r \in won
    BY <1>1, <1>2, <2>1, <2>3
  <2>4. CASE r \notin won /\ r \in dropped
    BY <1>1, <1>2, <2>2, <2>4
  <2>5. CASE r \notin won /\ r \notin dropped
    BY <1>1, <1>2, <2>5
  <2> QED
    BY <2>3, <2>4, <2>5
<1>4. PhaseView' = [r \in DOMAIN runs |-> IF r \in won THEN "RUNNING"
                                          ELSE IF r \in dropped THEN "CANCELLED"
                                          ELSE IF r \in lost THEN "ENQUEUED"
                                          ELSE PhaseView[r]]
  BY <1>1, <1>3 DEF PhaseView
<1>5. RetryView' = [r \in DOMAIN runs |-> IF r \in lost THEN RetryView[r] + 1
                                          ELSE RetryView[r]]
  BY <1>1, <1>3 DEF RetryView
<1>6. StopView' = StopView
  BY <1>1, <1>3 DEF StopView
<1>7. lost \subseteq {r \in DOMAIN runs : PhaseView[r] = "RUNNING"}
  BY DEF ClaimExpired, PhaseView
<1>8. dropped \subseteq ({r \in DOMAIN runs : PhaseView[r] = "ENQUEUED"} \cup lost)
                          \cap StopView
  BY <1>2 DEF Cancellable, PhaseView, StopView
<1>9. won \subseteq ({r \in DOMAIN runs : PhaseView[r] = "ENQUEUED"} \cup lost)
                      \ StopView
  BY <1>2 DEF Claimable, PhaseView, StopView
<1> HIDE DEF lost, dropped
<1>10. Lifecycle!Poll(lost, dropped, won)
  BY <1>4, <1>5, <1>6, <1>8, <1>9, ViewDomain DEF Lifecycle!Poll, Lifecycle!In,
    Lifecycle!Runs, PhaseView, RetryView, StopView
<1>11. /\ lost \in SUBSET Lifecycle!In("RUNNING") /\ dropped \in SUBSET StopView
       /\ won \in SUBSET Lifecycle!Runs
  BY <1>7, <1>8, <1>9, ViewDomain DEF Lifecycle!In, Lifecycle!Runs, PhaseView
<1> QED
  BY <1>10, <1>11 DEF LifecycleStep, Lifecycle!Next, StopView

LEMMA ClaimView ==
  ASSUME StoreOK, NEW w \in Workers,
         ScanFindsNothing(w) \/ \E r \in DOMAIN runs : ScanClaims(w, r)
  PROVE  LifecycleStep
<1>1. CASE ScanFindsNothing(w)
  <2>1. Scan(w, Len(runs), {}) /\ Len(runs) \in Nat
    BY <1>1, StoreDomains DEF ScanFindsNothing
  <2> QED
    BY <2>1, PollView
<1>2. ASSUME NEW r \in DOMAIN runs, ScanClaims(w, r)
      PROVE  LifecycleStep
  <2>1. r \in Nat /\ Scan(w, r, {r}) /\ Claimable(r, w)
    BY <1>2, StoreDomains DEF ScanClaims, FirstClaimable
  <2> QED
    BY <2>1, PollView
<1> QED
  BY <1>1, <1>2

-----------------------------------------------------------------------------
(* The lifecycle: every step of the program.                               *)

LEMMA SettleView ==
  ASSUME StoreOK, NEW w \in Workers, job[w] \in DOMAIN runs,
         NEW outcome \in TerminalStatuses, Settle(w, outcome),
         outcome = "SUCCEEDED" => ~runs[job[w]].cancel_requested
  PROVE  LifecycleStep
<1> DEFINE final == IF Validates(runs[job[w]].status, outcome) THEN outcome ELSE "FAILED"
<1>1. final \in TerminalStatuses /\ (final = "SUCCEEDED" => outcome = "SUCCEEDED")
  BY DEF TerminalStatuses
<1>2. SetFinal(job[w], final) \/ UNCHANGED runs
  BY DEF Settle, store
<1> HIDE DEF final
<1> QED
  BY <1>1, <1>2, FinishView, SameRunsSameView

LEMMA ConsumerView ==
  ASSUME TypeOK, NEW w \in Workers, Consumer(w)
  PROVE  LifecycleStep
<1>1. StoreOK /\ WorkerOK(w)
  BY DEF TypeOK, StoreOK
<1>2. CASE Resume(w) \/ LoopClaimsAtOnce(w)
  <2>1. ScanFindsNothing(w) \/ \E r \in DOMAIN runs : ScanClaims(w, r)
    BY <1>2 DEF Resume, LoopClaimsAtOnce, ClaimAndGoOn, ClaimNothing, AbandonClaim, StartRun
  <2> QED
    BY <1>1, <2>1, ClaimView
<1>3. pc[w] = "executing" => job[w] \in DOMAIN runs
  BY <1>1 DEF WorkerOK
<1>4. CASE ExecutorReturns(w)
  <2>1. /\ Outcome(w) \in TerminalStatuses
        /\ Outcome(w) = "SUCCEEDED" => ~runs[job[w]].cancel_requested
    BY DEF Outcome, TerminalStatuses
  <2> QED
    BY <1>1, <1>3, <1>4, <2>1, SettleView DEF ExecutorReturns
<1>5. CASE ExecutorRaises(w)
  <2>1. "FAILED" \in TerminalStatuses
    BY DEF TerminalStatuses
  <2> QED
    BY <1>1, <1>3, <1>5, <2>1, SettleView DEF ExecutorRaises
<1>6. CASE \/ NextStep(w) \/ LoopEnds(w) \/ LoopWaits(w) \/ LoopDies(w) \/ Unwind(w)
  BY <1>6, SameRunsSameView DEF NextStep, LoopEnds, LoopWaits, LoopDies, Unwind, store
<1> QED
  BY <1>2, <1>4, <1>5, <1>6 DEF Consumer

\* A method that writes a record which clients cannot tell from the one before.
LEMMA RewriteView ==
  ASSUME StoreOK, NEW r \in DOMAIN runs, NEW run \in RunRecord, Update(r, run),
         run.status = runs[r].status, run.retry_count = runs[r].retry_count,
         run.cancel_requested = runs[r].cancel_requested
  PROVE  LifecycleStep
<1>1. /\ DOMAIN runs' = DOMAIN runs
      /\ \A q \in DOMAIN runs : runs'[q] = IF q = r THEN run ELSE runs[q]
  BY UpdateFacts DEF StoreOK
<1> QED
  BY <1>1, SameView

LEMMA LeaseView ==
  ASSUME TypeOK,
         \/ \E w \in Workers : Heartbeat(w)
         \/ \E r \in DOMAIN runs : LeaseExpires(r)
  PROVE  LifecycleStep
<1>1. StoreOK /\ \A w \in Workers : WorkerOK(w)
  BY DEF TypeOK, StoreOK
<1>2. ASSUME NEW w \in Workers, HeartbeatRenews(w)
      PROVE  LifecycleStep
  <2> DEFINE run == Renew(runs[job[w]])
  <2>1. job[w] \in DOMAIN runs /\ runs[job[w]] \in RunRecord
    BY <1>1, <1>2, StoreDomains DEF HeartbeatRenews, WorkerOK
  <2>2. /\ run \in RunRecord /\ Update(job[w], run)
        /\ run.status = runs[job[w]].status
        /\ run.retry_count = runs[job[w]].retry_count
        /\ run.cancel_requested = runs[job[w]].cancel_requested
    BY <1>2, <2>1, RewrittenTypes DEF HeartbeatRenews, Renew, RunRecord
  <2> HIDE DEF run
  <2> QED
    BY <1>1, <2>1, <2>2, RewriteView
<1>3. ASSUME NEW w \in Workers, HeartbeatLosesLease(w) \/ HeartbeatFindsNotRunning(w)
      PROVE  LifecycleStep
  BY <1>3, SameRunsSameView DEF HeartbeatLosesLease, HeartbeatFindsNotRunning, store
<1>4. ASSUME NEW r \in DOMAIN runs, LeaseExpires(r)
      PROVE  LifecycleStep
  <2> DEFINE run == [runs[r] EXCEPT !.lease = "expired"]
  <2>1. runs[r] \in RunRecord
    BY <1>1, StoreDomains
  <2>2. /\ run \in RunRecord /\ Update(r, run) /\ run.status = runs[r].status
        /\ run.retry_count = runs[r].retry_count
        /\ run.cancel_requested = runs[r].cancel_requested
    BY <1>4, <2>1 DEF LeaseExpires, LeasePasses, RunRecord, Leases
  <2> HIDE DEF run
  <2> QED
    BY <1>1, <2>2, RewriteView
<1> QED
  BY <1>2, <1>3, <1>4 DEF Heartbeat

LEMMA NextView ==
  ASSUME ~LegacyCancel, TypeOK, [Next]_vars
  PROVE  LifecycleStep
<1>1. StoreOK
  BY DEF TypeOK, StoreOK
<1>2. CASE Clients
  BY <1>1, <1>2, SubmitView, AskView DEF Clients, CreateRun, CancelRun, MarkCancelled
<1>3. ASSUME NEW w \in Workers, Consumer(w)
      PROVE  LifecycleStep
  BY <1>3, ConsumerView
<1>4. ASSUME NEW w \in Workers,
             WaitTimesOut(w) \/ ShutdownExecution(w) \/ InfraShutdown(w)
      PROVE  LifecycleStep
  BY <1>4, SameRunsSameView
     DEF WaitTimesOut, ShutdownExecution, InfraShutdown, StopExecution, store
<1>5. CASE UNCHANGED vars
  BY <1>5, SameRunsSameView DEF vars
<1> QED
  BY <1>2, <1>3, <1>4, <1>5, LeaseView DEF Next

\* What a client sees of its runs is a behaviour of RunLifecycle, whatever workers,
\* leases, signals and shutdowns do behind it.
THEOREM OrchestrationImplementsLifecycle ==
  ASSUME ~LegacyCancel
  PROVE  Spec => ImplementsLifecycle
<1>1. Init => Lifecycle!Init
  BY DEF Init, Lifecycle!Init
<1>2. TypeOK /\ [Next]_vars => [Lifecycle!Next]_(Lifecycle!lifecycle)
  BY NextView DEF LifecycleStep
<1> QED
  BY <1>1, <1>2, TypeCorrect, PTL DEF Spec, ImplementsLifecycle, Lifecycle!Spec

-----------------------------------------------------------------------------
(* The log: what one more event says of a run.                             *)

LEMMA EventsAppended ==
  ASSUME NEW log \in Seq(EventRecord), NEW event \in EventRecord, NEW type
  PROVE  /\ EventsOfType(Append(log, event), type) =
              EventsOfType(log, type)
                \cup (IF event.type = type THEN {Len(log) + 1} ELSE {})
         /\ IsFiniteSet(EventsOfType(log, type))
         /\ Len(log) + 1 \notin EventsOfType(log, type)
<1>1. Len(log) \in Nat /\ DOMAIN log = 1..Len(log)
  BY LenProperties
<1>2. /\ DOMAIN Append(log, event) = 1..(Len(log) + 1)
      /\ \A i \in 1..Len(log) : Append(log, event)[i] = log[i]
      /\ Append(log, event)[Len(log) + 1] = event
  BY AppendProperties, LenProperties
<1>3. \A i \in 1..(Len(log) + 1) : i \in 1..Len(log) \/ i = Len(log) + 1
  BY <1>1
<1>4. 1..Len(log) \subseteq 1..(Len(log) + 1) /\ Len(log) + 1 \in 1..(Len(log) + 1)
  BY <1>1
<1>5. EventsOfType(Append(log, event), type) =
        EventsOfType(log, type) \cup (IF event.type = type THEN {Len(log) + 1} ELSE {})
  BY <1>1, <1>2, <1>3, <1>4 DEF EventsOfType
<1>6. IsFiniteSet(EventsOfType(log, type))
  <2>1. IsFiniteSet(1..Len(log))
    BY <1>1, FS_Interval
  <2> QED
    BY <1>1, <2>1, FS_Subset DEF EventsOfType
<1>7. Len(log) + 1 \notin EventsOfType(log, type)
  BY <1>1 DEF EventsOfType
<1> QED
  BY <1>5, <1>6, <1>7

\* An event that goes with a transition tells the new status and worker; an expired
\* claim is one retry more; a logged request sets the flag; nothing else matters.
Follows(event, run, next) ==
  /\ IF IsTransition(event)
     THEN /\ next.status = StatusAfter[event.type]
          /\ next.status = "RUNNING" => next.claimed_worker = event.worker
     ELSE next.status = run.status /\ next.claimed_worker = run.claimed_worker
  /\ next.retry_count = IF event.type = "claim_expired" THEN run.retry_count + 1
                        ELSE run.retry_count
  /\ next.cancel_requested = IF event.type = "cancel requested" THEN TRUE
                             ELSE run.cancel_requested

LEMMA NewEventTells ==
  ASSUME NEW log \in Seq(EventRecord), NEW event \in EventRecord,
         NEW run \in RunRecord, NEW next \in RunRecord,
         Tells(log, run), Follows(event, run, next)
  PROVE  Tells(Append(log, event), next)
<1> DEFINE longer == Append(log, event)
<1>1. Len(log) \in Nat /\ DOMAIN log = 1..Len(log)
  BY LenProperties
<1>2. /\ DOMAIN longer = 1..(Len(log) + 1)
      /\ \A i \in 1..Len(log) : longer[i] = log[i]
      /\ longer[Len(log) + 1] = event
  BY AppendProperties, LenProperties
<1>3. \A i \in 1..(Len(log) + 1) : i \in 1..Len(log) \/ i = Len(log) + 1
  BY <1>1
<1>4. 1..Len(log) \subseteq 1..(Len(log) + 1) /\ Len(log) + 1 \in 1..(Len(log) + 1)
  BY <1>1
<1> HIDE DEF longer
<1>5. \E i \in DOMAIN longer :
        /\ IsLastTransition(longer, i)
        /\ next.status = StatusAfter[longer[i].type]
        /\ next.status = "RUNNING" => next.claimed_worker = longer[i].worker
  <2>1. CASE IsTransition(event)
    <3>1. \A j \in DOMAIN longer : ~(j > Len(log) + 1)
      BY <1>1, <1>2
    <3>2. IsLastTransition(longer, Len(log) + 1)
      BY <1>2, <2>1, <3>1 DEF IsLastTransition
    <3> QED
      BY <1>2, <1>4, <2>1, <3>2 DEF Follows
  <2>2. CASE ~IsTransition(event)
    <3>1. PICK i \in DOMAIN log :
            /\ IsLastTransition(log, i)
            /\ run.status = StatusAfter[log[i].type]
            /\ run.status = "RUNNING" => run.claimed_worker = log[i].worker
      BY DEF Tells
    <3>2. i \in DOMAIN longer /\ longer[i] = log[i]
      BY <1>1, <1>2, <1>4
    <3>3. IsLastTransition(longer, i)
      BY <1>1, <1>2, <1>3, <2>2, <3>1, <3>2 DEF IsLastTransition
    <3> QED
      BY <2>2, <3>1, <3>2, <3>3 DEF Follows
  <2> QED
    BY <2>1, <2>2
<1>6. next.retry_count = Cardinality(EventsOfType(longer, "claim_expired"))
  <2> DEFINE expired == EventsOfType(log, "claim_expired")
  <2>1. IsFiniteSet(expired) /\ Len(log) + 1 \notin expired
    BY EventsAppended
  <2>2. Cardinality(expired \cup {Len(log) + 1}) = Cardinality(expired) + 1
    BY <2>1, FS_AddElement
  <2>3. run.retry_count = Cardinality(expired) /\ run.retry_count \in Nat
    BY DEF Tells, RunRecord
  <2>4. EventsOfType(longer, "claim_expired") =
          expired \cup (IF event.type = "claim_expired" THEN {Len(log) + 1} ELSE {})
    BY EventsAppended DEF longer
  <2> HIDE DEF expired
  <2>5. CASE event.type = "claim_expired"
    BY <2>2, <2>3, <2>4, <2>5 DEF Follows
  <2>6. CASE event.type # "claim_expired"
    BY <2>3, <2>4, <2>6 DEF Follows
  <2> QED
    BY <2>5, <2>6
<1>7. next.cancel_requested <=> EventsOfType(longer, "cancel requested") # {}
  <2>1. EventsOfType(longer, "cancel requested") =
          EventsOfType(log, "cancel requested")
            \cup (IF event.type = "cancel requested" THEN {Len(log) + 1} ELSE {})
    BY EventsAppended DEF longer
  <2>2. run.cancel_requested <=> EventsOfType(log, "cancel requested") # {}
    BY DEF Tells
  <2>3. next.cancel_requested \in BOOLEAN /\ run.cancel_requested \in BOOLEAN
    BY DEF RunRecord
  <2> QED
    BY <2>1, <2>2, <2>3 DEF Follows
<1> QED
  BY <1>5, <1>6, <1>7 DEF Tells, longer

-----------------------------------------------------------------------------
(* The log: the store methods.                                             *)

\* The events that the methods log, by what they tell.
LEMMA EventMeanings ==
  /\ ~IsTransition(Event("cancel requested"))
  /\ \A w \in Workers : ~IsTransition(EventOf("claim_lost", w))
  /\ IsTransition(Event("claim_expired"))
  /\ IsTransition(Event("cancelled")) /\ StatusAfter["cancelled"] = "CANCELLED"
  /\ StatusAfter["claim_expired"] = "ENQUEUED"
  /\ \A w \in Workers : IsTransition(EventOf("claimed", w))
  /\ StatusAfter["claimed"] = "RUNNING"
  /\ \A s \in TerminalStatuses :
       /\ IsTransition(FinalEvent(s)) /\ StatusAfter[FinalEvent(s).type] = s
       /\ FinalEvent(s).type \notin {"claim_expired", "cancel requested"}
BY DEF IsTransition, StatusAfter, Event, EventOf, FinalEvent, TerminalStatuses

\* A method that logs one event and may write the record of the same run.
LEMMA MethodTells ==
  ASSUME StoreOK, LogTellsRun, NEW r \in DOMAIN runs, NEW run \in RunRecord,
         NEW event \in EventRecord, Log(r, event), Follows(event, runs[r], run),
         DOMAIN runs' = DOMAIN runs,
         \A q \in DOMAIN runs : runs'[q] = IF q = r THEN run ELSE runs[q]
  PROVE  LogTellsRun'
<1>1. /\ r \in DOMAIN events /\ DOMAIN events = DOMAIN runs
      /\ events[r] \in Seq(EventRecord) /\ runs[r] \in RunRecord
  BY StoreDomains
<1>2. /\ events'[r] = Append(events[r], event)
      /\ \A q \in DOMAIN runs : q # r => events'[q] = events[q]
  BY <1>1 DEF Log
<1>3. Tells(Append(events[r], event), run)
  BY <1>1, NewEventTells DEF LogTellsRun
<1> QED
  BY <1>2, <1>3 DEF LogTellsRun

\* A step that logs nothing, and changes at most the lease of a run.
LEMMA QuietTells ==
  ASSUME LogTellsRun, UNCHANGED events, DOMAIN runs' = DOMAIN runs,
         \A r \in DOMAIN runs :
           /\ runs'[r].status = runs[r].status
           /\ runs'[r].claimed_worker = runs[r].claimed_worker
           /\ runs'[r].retry_count = runs[r].retry_count
           /\ runs'[r].cancel_requested = runs[r].cancel_requested
  PROVE  LogTellsRun'
BY DEF LogTellsRun, Tells

LEMMA StutterTells ==
  ASSUME LogTellsRun, UNCHANGED store
  PROVE  LogTellsRun'
BY DEF LogTellsRun, store

LEMMA CreateTells ==
  ASSUME StoreOK, LogTellsRun, CreateEnqueued
  PROVE  LogTellsRun'
<1> DEFINE n == Len(runs)
           log == <<Event("created"), Event("enqueued")>>
<1>1. n \in Nat /\ DOMAIN runs = 1..n /\ Len(events) = n /\ DOMAIN events = 1..n
  BY StoreDomains DEF StoreOK
<1>2. FreshRun("ENQUEUED") \in RunRecord /\ log \in Seq(EventRecord)
  <2>1. Event("created") \in EventRecord /\ Event("enqueued") \in EventRecord
    BY EventType DEF EventTypes
  <2> QED
    BY <2>1, FreshRunType DEF RestingStatuses
<1>3. Tells(log, FreshRun("ENQUEUED"))
  <2>1. /\ Len(log) = 2 /\ DOMAIN log = {1, 2}
        /\ log[1].type = "created" /\ log[2].type = "enqueued"
    BY DEF Event
  <2>2. IsLastTransition(log, 2) /\ StatusAfter[log[2].type] = "ENQUEUED"
    BY <2>1 DEF IsLastTransition, IsTransition, StatusAfter
  <2>3. /\ EventsOfType(log, "claim_expired") = {}
        /\ EventsOfType(log, "cancel requested") = {}
    BY <2>1 DEF EventsOfType
  <2> HIDE DEF log
  <2> QED
    BY <2>1, <2>2, <2>3, FS_EmptySet DEF Tells, FreshRun
<1> HIDE DEF log
<1>4. /\ runs' \in Seq(RunRecord) /\ Len(runs') = n + 1
      /\ \A r \in 1..n : runs'[r] = runs[r]
      /\ runs'[n + 1] = FreshRun("ENQUEUED")
  BY <1>2, AppendProperties DEF StoreOK, CreateEnqueued
<1>5. (\A r \in 1..n : events'[r] = events[r]) /\ events'[n + 1] = log
  BY <1>1, <1>2, AppendProperties DEF StoreOK, CreateEnqueued, log
<1>6. DOMAIN runs' = 1..(n + 1)
  BY <1>4, LenProperties
<1> HIDE DEF n
<1>7. \A r \in 1..(n + 1) : r \in 1..n \/ r = n + 1
  BY <1>1
<1> QED
  BY <1>1, <1>3, <1>4, <1>5, <1>6, <1>7 DEF LogTellsRun

\* The run that a scan looks at: the recovery, if its claim expired, and then the
\* claim or the cancellation, if it is its turn, each log their own event.
LEMMA ScanTells ==
  ASSUME StoreOK, LogTellsRun, NEW w \in Workers, NEW last \in Nat, NEW won,
         Scan(w, last, won), \A r \in won : Claimable(r, w)
  PROVE  LogTellsRun'
<1> SUFFICES ASSUME NEW r \in DOMAIN runs PROVE Tells(events'[r], runs'[r])
  BY DEF LogTellsRun, Scan
<1> DEFINE found == AfterRecovery(r, w)
           first == IF ClaimExpired(runs[r]) THEN <<Event("claim_expired")>> ELSE <<>>
           second == IF r \in won THEN <<EventOf("claimed", w)>>
                     ELSE IF r <= last /\ Cancellable(r, w) THEN <<Event("cancelled")>>
                     ELSE <<>>
           log == events[r] \o first
<1>1. /\ r \in DOMAIN events /\ events[r] \in Seq(EventRecord)
      /\ runs[r] \in RunRecord /\ found \in RunRecord /\ Tells(events[r], runs[r])
  BY StoreDomains, AfterRecoveryType DEF LogTellsRun
<1>2. /\ Event("claim_expired") \in EventRecord /\ Event("cancelled") \in EventRecord
      /\ EventOf("claimed", w) \in EventRecord
  BY EventType DEF EventTypes
<1>3. log \in Seq(EventRecord) /\ Tells(log, found)
  <2>1. CASE ClaimExpired(runs[r])
    <3>1. log = Append(events[r], Event("claim_expired"))
      BY <1>1, <1>2, <2>1, AppendIsConcat
    <3>2. found = Recover(runs[r], w) /\ Recover(runs[r], w).status = "ENQUEUED"
      BY <1>1, <2>1, RecordTypes DEF AfterRecovery
    <3>3. /\ Recover(runs[r], w).retry_count = runs[r].retry_count + 1
          /\ Recover(runs[r], w).cancel_requested = runs[r].cancel_requested
          /\ runs[r].cancel_requested \in BOOLEAN
      BY <1>1, RecordTypes DEF Recover, RunRecord
    <3>4. Follows(Event("claim_expired"), runs[r], found)
      BY <3>2, <3>3, EventMeanings DEF Follows, Event
    <3> HIDE DEF log, found
    <3>5. Tells(Append(events[r], Event("claim_expired")), found)
      BY <1>1, <1>2, <3>4, NewEventTells
    <3>6. Append(events[r], Event("claim_expired")) \in Seq(EventRecord)
      BY <1>1, <1>2, AppendProperties
    <3> QED
      BY <3>1, <3>5, <3>6
  <2>2. CASE ~ClaimExpired(runs[r])
    <3>1. found = runs[r] /\ log = events[r]
      BY <1>1, <2>2, ConcatEmptySeq DEF AfterRecovery
    <3> QED
      BY <1>1, <3>1
  <2> QED
    BY <2>1, <2>2
<1>4. /\ events'[r] = log \o second
      /\ runs'[r] = IF r \in won THEN Claim(found, w)
                    ELSE IF r <= last /\ Cancellable(r, w) THEN MoveTo(found, "CANCELLED")
                    ELSE found
  BY <1>1 DEF Scan
<1> HIDE DEF found, log
<1>5. found.cancel_requested \in BOOLEAN /\ found.retry_count \in Nat
  BY <1>1 DEF RunRecord
<1>6. CASE r \in won
  <2>1. events'[r] = Append(log, EventOf("claimed", w))
    BY <1>2, <1>3, <1>4, <1>6, AppendIsConcat
  <2>2. Claim(found, w) \in RunRecord /\ runs'[r] = Claim(found, w)
    BY <1>1, <1>4, <1>6, RecordTypes
  <2>3. /\ Claim(found, w).status = "RUNNING" /\ Claim(found, w).claimed_worker = w
        /\ Claim(found, w).retry_count = found.retry_count
        /\ Claim(found, w).cancel_requested = found.cancel_requested
    BY <1>1 DEF Claim, RunRecord
  <2>4. Follows(EventOf("claimed", w), found, Claim(found, w))
    <3>1. EventOf("claimed", w).type = "claimed" /\ EventOf("claimed", w).worker = w
      BY DEF EventOf
    <3>2. IsTransition(EventOf("claimed", w)) /\ StatusAfter["claimed"] = "RUNNING"
      BY EventMeanings
    <3> QED
      BY <1>5, <2>3, <3>1, <3>2 DEF Follows
  <2> QED
    BY <1>1, <1>2, <1>3, <2>1, <2>2, <2>4, NewEventTells
<1>7. CASE r \notin won /\ r <= last /\ Cancellable(r, w)
  <2>1. events'[r] = Append(log, Event("cancelled"))
    BY <1>2, <1>3, <1>4, <1>7, AppendIsConcat
  <2>2. /\ MoveTo(found, "CANCELLED") \in RunRecord
        /\ runs'[r] = MoveTo(found, "CANCELLED")
    BY <1>1, <1>4, <1>7, RewrittenTypes DEF RestingStatuses, TerminalStatuses
  <2>3. /\ MoveTo(found, "CANCELLED").status = "CANCELLED"
        /\ MoveTo(found, "CANCELLED").retry_count = found.retry_count
        /\ MoveTo(found, "CANCELLED").cancel_requested = found.cancel_requested
    BY <1>1 DEF MoveTo, RunRecord
  <2>4. Follows(Event("cancelled"), found, MoveTo(found, "CANCELLED"))
    <3>1. Event("cancelled").type = "cancelled"
      BY DEF Event
    <3>2. IsTransition(Event("cancelled")) /\ StatusAfter["cancelled"] = "CANCELLED"
      BY EventMeanings
    <3> QED
      BY <1>5, <2>3, <3>1, <3>2 DEF Follows
  <2> QED
    BY <1>1, <1>2, <1>3, <2>1, <2>2, <2>4, NewEventTells
<1>8. CASE r \notin won /\ ~(r <= last /\ Cancellable(r, w))
  <2>1. events'[r] = log /\ runs'[r] = found
    BY <1>3, <1>4, <1>8, ConcatEmptySeq
  <2> QED
    BY <1>3, <2>1
<1> QED
  BY <1>6, <1>7, <1>8

-----------------------------------------------------------------------------
(* The log: every step of the program.                                     *)

LEMMA SettleTells ==
  ASSUME StoreOK, LogTellsRun, NEW w \in Workers, job[w] \in DOMAIN runs,
         NEW outcome \in TerminalStatuses, Settle(w, outcome)
  PROVE  LogTellsRun'
<1> DEFINE r == job[w]
           final == IF Validates(runs[r].status, outcome) THEN outcome ELSE "FAILED"
           run == MoveTo(runs[r], final)
<1>1. final \in TerminalStatuses /\ runs[r] \in RunRecord
  BY StoreDomains DEF TerminalStatuses
<1>2. CASE SetFinal(r, final)
  <2> HIDE DEF final
  <2>1. run \in RunRecord /\ FinalEvent(final) \in EventRecord
    BY <1>1, RewrittenTypes, EventType DEF RestingStatuses
  <2>2. Update(r, run) /\ Log(r, FinalEvent(final))
    BY <1>2 DEF SetFinal
  <2>3. /\ run.status = final /\ run.retry_count = runs[r].retry_count
        /\ run.cancel_requested = runs[r].cancel_requested
        /\ runs[r].retry_count \in Nat /\ runs[r].cancel_requested \in BOOLEAN
        /\ final # "RUNNING"
    BY <1>1 DEF MoveTo, RunRecord, TerminalStatuses
  <2>4. /\ IsTransition(FinalEvent(final)) /\ StatusAfter[FinalEvent(final).type] = final
        /\ FinalEvent(final).type \notin {"claim_expired", "cancel requested"}
    BY <1>1, EventMeanings
  <2>5. /\ DOMAIN runs' = DOMAIN runs
        /\ \A q \in DOMAIN runs : runs'[q] = IF q = r THEN run ELSE runs[q]
    BY <2>1, <2>2, UpdateFacts DEF StoreOK
  <2> HIDE DEF run, r
  <2>6. Follows(FinalEvent(final), runs[r], run)
    BY <2>3, <2>4 DEF Follows
  <2>7. r \in DOMAIN runs
    BY DEF r
  <2> QED
    BY <2>1, <2>2, <2>5, <2>6, <2>7, MethodTells
<1>3. CASE UNCHANGED store
  BY <1>3, StutterTells
<1> QED
  BY <1>2, <1>3 DEF Settle

LEMMA ConsumerTells ==
  ASSUME TypeOK, LogTellsRun, NEW w \in Workers, Consumer(w)
  PROVE  LogTellsRun'
<1>1. StoreOK /\ WorkerOK(w)
  BY DEF TypeOK, StoreOK
<1>2. ASSUME ClaimAndGoOn(w)
      PROVE  LogTellsRun'
  <2>1. CASE ScanFindsNothing(w)
    <3>1. Scan(w, Len(runs), {}) /\ Len(runs) \in Nat
      BY <1>1, <2>1, StoreDomains DEF ScanFindsNothing
    <3> QED
      BY <1>1, <3>1, ScanTells
  <2>2. ASSUME NEW r \in DOMAIN runs, ScanClaims(w, r)
        PROVE  LogTellsRun'
    <3>1. r \in Nat /\ Scan(w, r, {r}) /\ Claimable(r, w)
      BY <1>1, <2>2, StoreDomains DEF ScanClaims, FirstClaimable
    <3> QED
      BY <1>1, <3>1, ScanTells
  <2> QED
    BY <1>2, <2>1, <2>2 DEF ClaimAndGoOn, ClaimNothing, AbandonClaim, StartRun
<1>3. pc[w] = "executing" => job[w] \in DOMAIN runs
  BY <1>1 DEF WorkerOK
<1>4. CASE ExecutorReturns(w)
  <2>1. Outcome(w) \in TerminalStatuses
    BY DEF Outcome, TerminalStatuses
  <2> QED
    BY <1>1, <1>3, <1>4, <2>1, SettleTells DEF ExecutorReturns
<1>5. CASE ExecutorRaises(w)
  <2>1. "FAILED" \in TerminalStatuses
    BY DEF TerminalStatuses
  <2> QED
    BY <1>1, <1>3, <1>5, <2>1, SettleTells DEF ExecutorRaises
<1>6. CASE \/ NextStep(w) \/ LoopEnds(w) \/ LoopWaits(w) \/ LoopDies(w) \/ Unwind(w)
  BY <1>6, StutterTells DEF NextStep, LoopEnds, LoopWaits, LoopDies, Unwind
<1> QED
  BY <1>2, <1>4, <1>5, <1>6 DEF Consumer, Resume, LoopClaimsAtOnce

LEMMA HeartbeatTells ==
  ASSUME TypeOK, LogTellsRun, NEW w \in Workers, Heartbeat(w)
  PROVE  LogTellsRun'
<1>1. StoreOK /\ WorkerOK(w)
  BY DEF TypeOK, StoreOK
<1>2. job[w] \in DOMAIN runs /\ runs[job[w]] \in RunRecord
  <2>1. heartbeat[w] = "beating"
    BY DEF Heartbeat, HeartbeatRenews, HeartbeatLosesLease, HeartbeatFindsNotRunning
  <2> QED
    BY <1>1, <2>1, StoreDomains DEF WorkerOK
<1>3. CASE HeartbeatRenews(w)
  <2> DEFINE run == Renew(runs[job[w]])
  <2>1. run \in RunRecord /\ Update(job[w], run) /\ UNCHANGED events
    BY <1>2, <1>3, RewrittenTypes DEF HeartbeatRenews
  <2>2. /\ run.status = runs[job[w]].status
        /\ run.claimed_worker = runs[job[w]].claimed_worker
        /\ run.retry_count = runs[job[w]].retry_count
        /\ run.cancel_requested = runs[job[w]].cancel_requested
    BY <1>2 DEF Renew, RunRecord
  <2> HIDE DEF run
  <2>3. /\ DOMAIN runs' = DOMAIN runs
        /\ \A q \in DOMAIN runs : runs'[q] = IF q = job[w] THEN run ELSE runs[q]
    BY <1>1, <1>2, <2>1, UpdateFacts DEF StoreOK
  <2> QED
    BY <2>1, <2>2, <2>3, QuietTells
<1>4. CASE HeartbeatLosesLease(w)
  <2> DEFINE event == EventOf("claim_lost", w)
  <2>1. event \in EventRecord /\ event.type = "claim_lost" /\ ~IsTransition(event)
    BY EventType, EventMeanings DEF EventTypes, EventOf
  <2>2. Log(job[w], event) /\ UNCHANGED runs
    BY <1>4 DEF HeartbeatLosesLease
  <2> HIDE DEF event
  <2>3. runs[job[w]].retry_count \in Nat /\ runs[job[w]].cancel_requested \in BOOLEAN
    BY <1>2 DEF RunRecord
  <2>4. Follows(event, runs[job[w]], runs[job[w]])
    BY <2>1, <2>3 DEF Follows
  <2> QED
    BY <1>1, <1>2, <2>1, <2>2, <2>4, MethodTells
<1>5. CASE HeartbeatFindsNotRunning(w)
  BY <1>5, StutterTells DEF HeartbeatFindsNotRunning
<1> QED
  BY <1>3, <1>4, <1>5 DEF Heartbeat

LEMMA CancelTells ==
  ASSUME StoreOK, LogTellsRun, NEW r \in DOMAIN runs, RequestCancellation(r)
  PROVE  LogTellsRun'
<1> DEFINE run == WithCancelRequested(runs[r])
           event == Event("cancel requested")
<1>1. runs[r] \in RunRecord /\ run \in RunRecord /\ Update(r, run) /\ Log(r, event)
  BY StoreDomains, RewrittenTypes DEF RequestCancellation
<1>2. /\ run.status = runs[r].status /\ run.claimed_worker = runs[r].claimed_worker
      /\ run.retry_count = runs[r].retry_count /\ run.retry_count \in Nat
      /\ run.cancel_requested = TRUE
  BY <1>1 DEF WithCancelRequested, RunRecord
<1>3. event \in EventRecord /\ event.type = "cancel requested" /\ ~IsTransition(event)
  BY EventType, EventMeanings DEF EventTypes, Event
<1> HIDE DEF run, event
<1>4. /\ DOMAIN runs' = DOMAIN runs
      /\ \A q \in DOMAIN runs : runs'[q] = IF q = r THEN run ELSE runs[q]
  BY <1>1, UpdateFacts DEF StoreOK
<1>5. Follows(event, runs[r], run)
  BY <1>2, <1>3 DEF Follows
<1> QED
  BY <1>1, <1>3, <1>4, <1>5, MethodTells

LEMMA ExpiryTells ==
  ASSUME StoreOK, LogTellsRun, NEW r \in DOMAIN runs, LeaseExpires(r)
  PROVE  LogTellsRun'
<1> DEFINE run == [runs[r] EXCEPT !.lease = "expired"]
<1>1. Update(r, run) /\ UNCHANGED events /\ runs[r] \in RunRecord
  BY StoreDomains DEF LeaseExpires, LeasePasses
<1>2. /\ run \in RunRecord /\ run.status = runs[r].status
      /\ run.claimed_worker = runs[r].claimed_worker
      /\ run.retry_count = runs[r].retry_count
      /\ run.cancel_requested = runs[r].cancel_requested
  BY <1>1 DEF RunRecord, Leases
<1> HIDE DEF run
<1>3. /\ DOMAIN runs' = DOMAIN runs
      /\ \A q \in DOMAIN runs : runs'[q] = IF q = r THEN run ELSE runs[q]
  BY <1>1, <1>2, UpdateFacts DEF StoreOK
<1> QED
  BY <1>1, <1>2, <1>3, QuietTells

\* The log of every run tells its record, whatever crashes, expirations, late
\* heartbeats and requests the run went through.
THEOREM LogIsComplete ==
  ASSUME ~LegacyCancel
  PROVE  Spec => []LogTellsRun
<1>1. Init => LogTellsRun
  BY DEF Init, LogTellsRun
<1>2. TypeOK /\ LogTellsRun /\ [Next]_vars => LogTellsRun'
  <2> SUFFICES ASSUME TypeOK, LogTellsRun, [Next]_vars PROVE LogTellsRun'
    OBVIOUS
  <2>1. StoreOK
    BY DEF TypeOK, StoreOK
  <2>2. CASE Clients
    BY <2>1, <2>2, CreateTells, CancelTells DEF Clients, CreateRun, CancelRun, MarkCancelled
  <2>3. ASSUME NEW w \in Workers, Consumer(w) \/ Heartbeat(w)
        PROVE  LogTellsRun'
    BY <2>3, ConsumerTells, HeartbeatTells
  <2>4. ASSUME NEW w \in Workers,
               WaitTimesOut(w) \/ ShutdownExecution(w) \/ InfraShutdown(w)
        PROVE  LogTellsRun'
    BY <2>4, StutterTells DEF WaitTimesOut, ShutdownExecution, InfraShutdown, StopExecution
  <2>5. ASSUME NEW r \in DOMAIN runs, LeaseExpires(r)
        PROVE  LogTellsRun'
    BY <2>1, <2>5, ExpiryTells
  <2>6. CASE UNCHANGED vars
    BY <2>6, StutterTells DEF vars, store
  <2> QED
    BY <2>2, <2>3, <2>4, <2>5, <2>6 DEF Next
<1> QED
  BY <1>1, <1>2, TypeCorrect, PTL DEF Spec

=============================================================================
