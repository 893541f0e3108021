------------------------ MODULE LeaseExclusionProofs ------------------------
(***************************************************************************)
(* Why no run is executed twice at a time and no consumer loop dies, for   *)
(* any number of workers.  The store has no fencing: the argument is about *)
(* the lease.  It is made once, from what must not happen (the lease of a  *)
(* worker in its lease scope does not end), and used twice: where the      *)
(* switches PromptLoop and ShortSteps assume that, and where the times of  *)
(* TimedOrchestration imply it.  Where leases may end at any time, what is *)
(* left is a count: an execution too many goes back to a claim that was    *)
(* taken back.                                                             *)
(***************************************************************************)
EXTENDS TimedOrchestration, RunOrchestrationProofs, FiniteSetTheorems

\* A worker whose execution, or at least its heartbeat, is going on.
InScope(w) ==
  job[w] # NoRun /\ (pc[w] = "executing" \/ heartbeat[w] = "beating")

HoldsLease(w) ==
  /\ runs[job[w]].status = "RUNNING"
  /\ runs[job[w]].claimed_worker = w
  /\ runs[job[w]].lease = "live"

\* The strengthening of ExecutesOnlyOwnRun: that the store names the worker is not
\* enough, its lease must not lapse either, since the next claim_run of any worker
\* would take the run away.
LeaseInv == \A w \in Workers : InScope(w) => HoldsLease(w)

-----------------------------------------------------------------------------

LEMMA JobInTable ==
  ASSUME TypeOK, NEW w \in Workers, job[w] # NoRun
  PROVE  /\ StoreOK
         /\ job[w] \in DOMAIN runs
         /\ runs[job[w]] \in RunRecord
<1>1. StoreOK /\ WorkerOK(w)
  BY DEF TypeOK, StoreOK
<1> QED
  BY <1>1, StoreDomains DEF WorkerOK

\* A scan leaves a run with a live lease alone.
LEMMA ScanKeepsLive ==
  ASSUME StoreOK, NEW w \in Workers, NEW last \in Nat, NEW won,
         Scan(w, last, won), \A r \in won : Claimable(r, w),
         NEW q \in DOMAIN runs, runs[q].status = "RUNNING", runs[q].lease = "live"
  PROVE  runs'[q] = runs[q]
<1>1. AfterRecovery(q, w) = runs[q]
  BY DEF AfterRecovery, ClaimExpired
<1>2. q \notin won /\ ~Cancellable(q, w)
  BY <1>1 DEF Claimable, Cancellable
<1> QED
  BY <1>1, <1>2, ScanFacts

LEMMA ClaimKeepsLive ==
  ASSUME StoreOK, NEW w \in Workers,
         \/ ScanFindsNothing(w)
         \/ \E r \in DOMAIN runs : ScanClaims(w, r),
         NEW q \in DOMAIN runs, runs[q].status = "RUNNING", runs[q].lease = "live"
  PROVE  runs'[q] = runs[q]
<1>1. CASE ScanFindsNothing(w)
  BY <1>1, StoreDomains, ScanKeepsLive DEF ScanFindsNothing
<1>2. CASE \E r \in DOMAIN runs : ScanClaims(w, r)
  <2>1. PICK r \in DOMAIN runs : ScanClaims(w, r)
    BY <1>2
  <2>2. r \in Nat /\ Scan(w, r, {r}) /\ Claimable(r, w)
    BY <2>1, StoreDomains DEF ScanClaims, FirstClaimable
  <2> QED
    BY <2>2, ScanKeepsLive
<1> QED
  BY <1>1, <1>2

\* A worker that stays in its lease scope keeps the lease when its record keeps
\* the three fields.
LEMMA KeepsLease ==
  ASSUME NEW v \in Workers, InScope(v) => HoldsLease(v),
         InScope(v)', InScope(v), job'[v] = job[v],
         runs'[job[v]] = runs[job[v]]
  PROVE  HoldsLease(v)'
  BY DEF HoldsLease

-----------------------------------------------------------------------------

(* Whatever the timing: what is counted.                                   *)

\* A step makes a worker stale only by counting an attempt, or by taking a stale worker
\* out of its execution.
StaleStep(r) ==
  \/ /\ Stale(r)' \subseteq Stale(r)
     /\ runs'[r].retry_count = runs[r].retry_count
  \/ /\ \E w : Stale(r)' \subseteq Stale(r) \cup {w}
     /\ runs'[r].retry_count = runs[r].retry_count + 1
  \/ /\ \E v \in Stale(r) : \E w : Stale(r)' \subseteq (Stale(r) \ {v}) \cup {w}
     /\ runs'[r].retry_count = runs[r].retry_count

LEMMA OneForOne ==
  ASSUME NEW S, IsFiniteSet(S), NEW w, NEW T \in SUBSET (S \cup {w})
  PROVE  /\ Cardinality(S) \in Nat /\ Cardinality(T) \in Nat
         /\ Cardinality(T) <= Cardinality(S) + 1
<1>1. /\ IsFiniteSet(S \cup {w}) /\ Cardinality(S) \in Nat
      /\ Cardinality(S \cup {w}) = IF w \in S THEN Cardinality(S) ELSE Cardinality(S) + 1
  BY FS_AddElement, FS_CardinalityType
<1>2. /\ IsFiniteSet(T) /\ Cardinality(T) <= Cardinality(S \cup {w})
  BY <1>1, FS_Subset
<1>3. Cardinality(T) \in Nat /\ Cardinality(S \cup {w}) \in Nat
  BY <1>1, <1>2, FS_CardinalityType
<1> QED
  BY <1>1, <1>2, <1>3

LEMMA StaleStepCounts ==
  ASSUME IsFiniteSet(Workers), NEW r, runs[r].retry_count \in Nat,
         Cardinality(Stale(r)) <= runs[r].retry_count, StaleStep(r)
  PROVE  Cardinality(Stale(r)') <= runs'[r].retry_count
<1> DEFINE S == Stale(r)
           T == Stale(r)'
<1>1. IsFiniteSet(S) /\ Cardinality(S) \in Nat
  <2>1. S \in SUBSET Workers
    BY DEF Stale
  <2> QED
    BY <2>1, FS_Subset, FS_CardinalityType
<1>2. CASE T \subseteq S /\ runs'[r].retry_count = runs[r].retry_count
  <2>1. IsFiniteSet(T) /\ Cardinality(T) <= Cardinality(S)
    BY <1>1, <1>2, FS_Subset
  <2>2. Cardinality(T) \in Nat
    BY <2>1, FS_CardinalityType
  <2> QED
    BY <1>1, <1>2, <2>1, <2>2
<1>3. ASSUME NEW w, T \subseteq S \cup {w},
             runs'[r].retry_count = runs[r].retry_count + 1
      PROVE  Cardinality(T) <= runs'[r].retry_count
  <2>1. Cardinality(T) \in Nat /\ Cardinality(T) <= Cardinality(S) + 1
    BY <1>1, <1>3, OneForOne
  <2> QED
    BY <1>1, <1>3, <2>1
<1>4. ASSUME NEW v \in S, NEW w, T \subseteq (S \ {v}) \cup {w},
             runs'[r].retry_count = runs[r].retry_count
      PROVE  Cardinality(T) <= runs'[r].retry_count
  <2>1. IsFiniteSet(S \ {v}) /\ Cardinality(S \ {v}) = Cardinality(S) - 1
    BY <1>1, <1>4, FS_RemoveElement
  <2>2. Cardinality(T) \in Nat /\ Cardinality(T) <= Cardinality(S \ {v}) + 1
    BY <1>4, <2>1, OneForOne
  <2> QED
    BY <1>1, <1>4, <2>1, <2>2
<1> HIDE DEF S, T
<1> QED
  BY <1>2, <1>3, <1>4 DEF StaleStep, S, T

LEMMA SameClaimSameStale ==
  ASSUME NEW r, \A w \in Workers : job'[w] = r => job[w] = r,
         runs'[r].status = runs[r].status,
         runs'[r].claimed_worker = runs[r].claimed_worker,
         runs'[r].retry_count = runs[r].retry_count
  PROVE  StaleStep(r)
  BY DEF StaleStep, Stale

\* What a scan does to the attempts.
LEMMA ScanRetries ==
  ASSUME StoreOK, NEW w \in Workers,
         ScanFindsNothing(w) \/ \E q \in DOMAIN runs : ScanClaims(w, q),
         NEW r \in DOMAIN runs
  PROVE  \/ runs'[r] = runs[r]
         \/ /\ runs[r].status = "ENQUEUED"
            /\ runs'[r].retry_count = runs[r].retry_count
         \/ /\ runs[r].status = "RUNNING"
            /\ runs'[r].retry_count = runs[r].retry_count + 1
<1>1. PICK last \in Nat, won \in SUBSET Nat :
        Scan(w, last, won) /\ \A q \in won : Claimable(q, w)
  <2>1. CASE ScanFindsNothing(w)
    BY <2>1, StoreDomains DEF ScanFindsNothing
  <2>2. ASSUME NEW q \in DOMAIN runs, ScanClaims(w, q)
        PROVE  \E last \in Nat, won \in SUBSET Nat :
                 Scan(w, last, won) /\ \A p \in won : Claimable(p, w)
    <3>1. q \in Nat /\ {q} \in SUBSET Nat /\ Scan(w, q, {q}) /\ Claimable(q, w)
      BY <2>2, StoreDomains DEF ScanClaims, FirstClaimable
    <3> QED
      BY <3>1
  <2> QED
    BY <2>1, <2>2
<1>2. runs[r] \in RunRecord /\ AfterRecovery(r, w) \in RunRecord
  BY StoreDomains, AfterRecoveryType
<1>3. \/ runs'[r] = AfterRecovery(r, w)
      \/ /\ runs'[r].retry_count = AfterRecovery(r, w).retry_count
         /\ AfterRecovery(r, w).status = "ENQUEUED"
  <2>1. /\ Claim(AfterRecovery(r, w), w).retry_count = AfterRecovery(r, w).retry_count
        /\ MoveTo(AfterRecovery(r, w), "CANCELLED").retry_count
             = AfterRecovery(r, w).retry_count
    BY <1>2 DEF Claim, MoveTo, RunRecord
  <2>2. runs'[r] = IF r \in won THEN Claim(AfterRecovery(r, w), w)
                   ELSE IF r <= last /\ Cancellable(r, w)
                        THEN MoveTo(AfterRecovery(r, w), "CANCELLED")
                   ELSE AfterRecovery(r, w)
    BY <1>1 DEF Scan
  <2> QED
    BY <1>1, <2>1, <2>2 DEF Claimable, Cancellable
<1>4. CASE ClaimExpired(runs[r])
  <2>1. AfterRecovery(r, w).retry_count = runs[r].retry_count + 1
    BY <1>2, <1>4 DEF AfterRecovery, Recover, RunRecord
  <2> QED
    BY <1>3, <1>4, <2>1 DEF ClaimExpired
<1>5. CASE ~ClaimExpired(runs[r])
  BY <1>3, <1>5 DEF AfterRecovery
<1> QED
  BY <1>4, <1>5

LEMMA ScanStale ==
  ASSUME StoreOK, NEW w \in Workers,
         ScanFindsNothing(w) \/ \E q \in DOMAIN runs : ScanClaims(w, q),
         NEW r \in DOMAIN runs,
         \A v \in Workers : v \in Stale(r)' => job[v] = r
  PROVE  StaleStep(r)
<1>1. CASE runs'[r] = runs[r]
  BY <1>1 DEF StaleStep, Stale
<1>2. CASE runs[r].status = "ENQUEUED" /\ runs'[r].retry_count = runs[r].retry_count
  BY <1>2 DEF StaleStep, Stale
<1>3. CASE /\ runs[r].status = "RUNNING"
           /\ runs'[r].retry_count = runs[r].retry_count + 1
  <2>1. Stale(r)' \subseteq Stale(r) \cup {runs[r].claimed_worker}
    BY DEF Stale
  <2> QED
    BY <1>3, <2>1 DEF StaleStep
<1> QED
  BY <1>1, <1>2, <1>3, ScanRetries

\* A worker that writes an outcome leaves; if it was stale, it may leave another one
\* stale.
LEMMA SettleStale ==
  ASSUME TypeOK, NEW w \in Workers, pc[w] = "executing",
         NEW outcome \in TerminalStatuses, Settle(w, outcome),
         NEW r \in DOMAIN runs
  PROVE  StaleStep(r)
<1>1. StoreOK /\ job \in [Workers -> Nat] /\ WorkerOK(w)
  BY DEF TypeOK, StoreOK
<1>2. r # NoRun /\ job[w] \in DOMAIN runs /\ runs[r] \in RunRecord
  BY <1>1, StoreDomains DEF WorkerOK, NoRun
<1>3. job' = [job EXCEPT ![w] = NoRun]
  BY DEF Settle, LeaveExecution
<1>4. /\ runs'[r].retry_count = runs[r].retry_count
      /\ r # job[w] => runs'[r] = runs[r]
  <2>1. CASE UNCHANGED runs
    BY <2>1
  <2>2. ASSUME NEW status, Update(job[w], MoveTo(runs[job[w]], status))
        PROVE  /\ runs'[r].retry_count = runs[r].retry_count
               /\ r # job[w] => runs'[r] = runs[r]
    <3>1. MoveTo(runs[r], status).retry_count = runs[r].retry_count
      BY <1>2 DEF MoveTo, RunRecord
    <3> QED
      BY <1>1, <1>2, <2>2, <3>1, StoreDomains DEF Update
  <2> QED
    BY <2>1, <2>2 DEF Settle, SetFinal, store
<1>5. CASE r # job[w]
  BY <1>1, <1>2, <1>3, <1>4, <1>5 DEF StaleStep, Stale
<1>6. CASE r = job[w] /\ w \in Stale(r)
  <2>1. Stale(r)' \subseteq (Stale(r) \ {w}) \cup {runs[r].claimed_worker}
    BY <1>1, <1>2, <1>3 DEF Stale
  <2> QED
    BY <1>4, <1>6, <2>1 DEF StaleStep
<1>7. CASE r = job[w] /\ w \notin Stale(r)
  <2>1. runs[r].claimed_worker = w
    BY <1>7 DEF Stale
  <2>2. Stale(r)' \subseteq Stale(r)
    BY <1>1, <1>2, <1>3, <2>1 DEF Stale
  <2> QED
    BY <1>4, <2>2 DEF StaleStep
<1> QED
  BY <1>5, <1>6, <1>7

LEMMA ConsumerStale ==
  ASSUME TypeOK, NEW w \in Workers, Consumer(w), NEW r \in DOMAIN runs
  PROVE  StaleStep(r)
<1>1. StoreOK /\ job \in [Workers -> Nat] /\ r # NoRun
  BY StoreDomains DEF TypeOK, StoreOK, NoRun
<1>2. ASSUME ClaimAndGoOn(w)
      PROVE  StaleStep(r)
  <2>1. ScanFindsNothing(w) \/ \E q \in DOMAIN runs : ScanClaims(w, q)
    BY <1>2 DEF ClaimAndGoOn, ClaimNothing, AbandonClaim, StartRun
  <2>2. ASSUME NEW q \in DOMAIN runs, StartRun(w, q), NEW v \in Workers, v \in Stale(r)'
        PROVE  job[v] = r
    <3>1. /\ job' = [job EXCEPT ![w] = q]
          /\ runs'[q].status = "RUNNING" /\ runs'[q].claimed_worker = w
      BY <1>1, <2>2, ClaimGrantsLease DEF StartRun
    <3> QED
      BY <1>1, <2>2, <3>1 DEF Stale
  <2>3. CASE UNCHANGED job
    BY <1>1, <2>1, <2>3, ScanStale DEF Stale
  <2> QED
    BY <1>1, <1>2, <2>1, <2>2, <2>3, ScanStale
       DEF ClaimAndGoOn, ClaimNothing, AbandonClaim, execution
<1>3. CASE ExecutorReturns(w) \/ ExecutorRaises(w)
  <2>1. \E outcome \in TerminalStatuses : pc[w] = "executing" /\ Settle(w, outcome)
    BY <1>3 DEF ExecutorReturns, ExecutorRaises, Outcome, TerminalStatuses
  <2> QED
    BY <2>1, SettleStale
<1>4. CASE NextStep(w) \/ LoopEnds(w) \/ LoopWaits(w) \/ LoopDies(w) \/ Unwind(w)
  <2>1. UNCHANGED runs /\ \A v \in Workers : job'[v] = r => job[v] = r
    BY <1>1, <1>4 DEF NextStep, LoopEnds, LoopWaits, LoopDies, Unwind, store, execution
  <2> QED
    BY <2>1, SameClaimSameStale
<1> QED
  BY <1>2, <1>3, <1>4 DEF Consumer, Resume, LoopClaimsAtOnce

\* The rest changes neither who executes nor who holds a run.
LEMMA OthersStale ==
  ASSUME TypeOK, ~LegacyCancel, NEW r \in DOMAIN runs,
         \/ Clients
         \/ \E w \in Workers : Heartbeat(w) \/ WaitTimesOut(w)
                               \/ ShutdownExecution(w) \/ InfraShutdown(w)
         \/ \E q \in DOMAIN runs : LeaseExpires(q)
         \/ UNCHANGED vars
  PROVE  StaleStep(r)
<1>1. StoreOK /\ runs[r] \in RunRecord /\ \A w \in Workers : WorkerOK(w)
  BY StoreDomains DEF TypeOK, StoreOK
<1>2. UNCHANGED job
  BY DEF Clients, CreateRun, CancelRun, MarkCancelled, Heartbeat, HeartbeatRenews,
         HeartbeatLosesLease, HeartbeatFindsNotRunning, WaitTimesOut, ShutdownExecution,
         InfraShutdown, StopExecution, LeaseExpires, LeasePasses, execution, vars
<1>3. ASSUME NEW q \in DOMAIN runs, NEW run, Update(q, run),
             run.status = runs[q].status, run.claimed_worker = runs[q].claimed_worker,
             run.retry_count = runs[q].retry_count
      PROVE  StaleStep(r)
  <2>1. runs'[r] = IF r = q THEN run ELSE runs[r]
    BY <1>3 DEF Update
  <2> QED
    BY <1>2, <1>3, <2>1, SameClaimSameStale
<1>4. CASE UNCHANGED runs
  BY <1>2, <1>4, SameClaimSameStale
<1>5. CASE CreateRun
  <2>1. runs' = Append(runs, FreshRun("ENQUEUED")) /\ FreshRun("ENQUEUED") \in RunRecord
    BY <1>5, FreshRunType DEF CreateRun, CreateEnqueued, RestingStatuses
  <2>2. runs'[r] = runs[r]
    BY <1>1, <2>1, AppendProperties, StoreDomains DEF StoreOK
  <2> QED
    BY <1>2, <2>2, SameClaimSameStale
<1>6. ASSUME NEW q \in DOMAIN runs, CancelRun(q)
      PROVE  StaleStep(r)
  <2>1. runs[q] \in RunRecord /\ Update(q, WithCancelRequested(runs[q]))
    BY <1>1, <1>6, StoreDomains DEF CancelRun, RequestCancellation
  <2> QED
    BY <1>3, <2>1 DEF WithCancelRequested, RunRecord
<1>7. ASSUME NEW w \in Workers, HeartbeatRenews(w)
      PROVE  StaleStep(r)
  <2>1. job[w] \in DOMAIN runs
    BY <1>1, <1>7 DEF HeartbeatRenews, WorkerOK
  <2>2. runs[job[w]] \in RunRecord /\ Update(job[w], Renew(runs[job[w]]))
    BY <1>1, <1>7, <2>1, StoreDomains DEF HeartbeatRenews
  <2> QED
    BY <1>3, <2>1, <2>2 DEF Renew, RunRecord
<1>8. ASSUME NEW q \in DOMAIN runs, LeaseExpires(q)
      PROVE  StaleStep(r)
  <2>1. runs[q] \in RunRecord /\ Update(q, [runs[q] EXCEPT !.lease = "expired"])
    BY <1>1, <1>8, StoreDomains DEF LeaseExpires, LeasePasses
  <2> QED
    BY <1>3, <2>1 DEF RunRecord
<1> QED
  BY <1>4, <1>5, <1>6, <1>7, <1>8
     DEF Clients, MarkCancelled, Heartbeat, HeartbeatLosesLease, HeartbeatFindsNotRunning,
         WaitTimesOut, ShutdownExecution, InfraShutdown, StopExecution, store, vars

LEMMA StaleNext ==
  ASSUME IsFiniteSet(Workers), ~LegacyCancel, TypeOK, StaleExecutionsAreCounted,
         [Next]_vars
  PROVE  StaleExecutionsAreCounted'
<1> SUFFICES ASSUME NEW r \in DOMAIN runs'
             PROVE  Cardinality(Stale(r)') <= runs'[r].retry_count
  BY DEF StaleExecutionsAreCounted, Stale
<1>1. StoreOK /\ \A w \in Workers : WorkerOK(w)
  BY DEF TypeOK, StoreOK
<1>2. CASE r \in DOMAIN runs
  <2>1. runs[r].retry_count \in Nat /\ Cardinality(Stale(r)) <= runs[r].retry_count
    BY <1>1, <1>2, StoreDomains DEF StaleExecutionsAreCounted, RunRecord
  <2>2. StaleStep(r)
    BY <1>2, ConsumerStale, OthersStale DEF Next
  <2> QED
    BY <2>1, <2>2, StaleStepCounts
<1>3. CASE r \notin DOMAIN runs
  <2>1. StoreOK' /\ r # NoRun /\ runs'[r].retry_count \in Nat
    <3>1. StoreOK'
      BY NextAdvances DEF StoreAdvances
    <3>2. DOMAIN runs' = 1..Len(runs') /\ Len(runs') \in Nat /\ runs'[r] \in RunRecord
      BY <3>1, LenProperties, ElementOfSeq DEF StoreOK
    <3> QED
      BY <3>1, <3>2 DEF NoRun, RunRecord
  <2>2. CreateRun
    <3>1. ASSUME ~CreateRun
          PROVE  DOMAIN runs' = DOMAIN runs
      <4>1. ASSUME NEW w \in Workers, Consumer(w)
            PROVE  DOMAIN runs' = DOMAIN runs
        BY <4>1 DEF Consumer, Resume, LoopClaimsAtOnce, ClaimAndGoOn, ClaimNothing,
                    AbandonClaim, StartRun, ScanFindsNothing, ScanClaims, Scan, NextStep,
                    ExecutorReturns, ExecutorRaises, Settle, SetFinal, Update, LoopEnds,
                    LoopWaits, LoopDies, Unwind, store
      <4> QED
        BY <3>1, <4>1
           DEF Next, Clients, CancelRun, MarkCancelled, RequestCancellation, Update,
               Heartbeat, HeartbeatRenews, HeartbeatLosesLease, HeartbeatFindsNotRunning,
               WaitTimesOut, ShutdownExecution, InfraShutdown, StopExecution,
               LeaseExpires, LeasePasses, store, vars
    <3> QED
      BY <1>3, <3>1
  <2>3. Stale(r)' = {}
    BY <1>1, <1>3, <2>1, <2>2 DEF CreateRun, execution, Stale, WorkerOK
  <2> QED
    BY <2>1, <2>3, FS_EmptySet
<1> QED
  BY <1>2, <1>3

\* Whatever the timing, the executions of a run that its store record does not name are
\* no more than the claims on it that were taken back.
THEOREM OneStaleExecutionPerRetry ==
  ASSUME IsFiniteSet(Workers), ~LegacyCancel
  PROVE  Spec => []StaleExecutionsAreCounted
<1>1. Init => StaleExecutionsAreCounted
  BY DEF Init, StaleExecutionsAreCounted
<1>2. TypeOK /\ StaleExecutionsAreCounted /\ [Next]_vars => StaleExecutionsAreCounted'
  BY StaleNext
<1> QED
  BY <1>1, <1>2, TypeCorrect, PTL DEF Spec

\* The policy refuses an outcome twice only when the store does not show the run as
\* RUNNING.
LEMMA RaisingComesFromSettle ==
  ASSUME TypeOK, Next, NEW w \in Workers, pc[w] # "raising", pc'[w] = "raising"
  PROVE  pc[w] = "executing" /\ runs[job[w]].status # "RUNNING"
<1>1. pc \in [Workers -> Locations]
  BY DEF TypeOK
<1>2. CASE Clients
  BY <1>1, <1>2 DEF Clients, CreateRun, CancelRun, MarkCancelled, Notify, Woken
<1>3. ASSUME NEW v \in Workers, Consumer(v)
      PROVE  pc[w] = "executing" /\ runs[job[w]].status # "RUNNING"
  <2>1. CASE ClaimAndGoOn(v)
    BY <1>1, <2>1 DEF ClaimAndGoOn, ClaimNothing, AbandonClaim, StartRun
  <2>2. ASSUME NEW outcome \in TerminalStatuses, pc[v] = "executing",
               Settle(v, outcome)
        PROVE  pc[w] = "executing" /\ runs[job[w]].status # "RUNNING"
    <3>1. CASE LeaveExecution(v, "releasing")
      BY <1>1, <3>1 DEF LeaveExecution
    <3>2. CASE LeaveExecution(v, "raising") /\ ~Validates(runs[job[v]].status, "FAILED")
      <4>1. v = w
        BY <1>1, <3>2 DEF LeaveExecution
      <4> QED
        BY <2>2, <3>2, <4>1 DEF Validates, TransitionRules
    <3>3. CASE /\ LeaveExecution(v, "raising")
               /\ Validates(runs[job[v]].status, "FAILED")
      BY <2>2, <3>3, <1>1 DEF Settle, LeaveExecution
    <3> QED
      BY <2>2, <3>1, <3>2, <3>3 DEF Settle
  <2>3. CASE ExecutorReturns(v) \/ ExecutorRaises(v)
    BY <2>2, <2>3 DEF ExecutorReturns, ExecutorRaises, Outcome, TerminalStatuses
  <2>4. CASE NextStep(v) \/ LoopEnds(v) \/ LoopWaits(v) \/ LoopDies(v) \/ Unwind(v)
    BY <1>1, <2>4 DEF NextStep, LoopEnds, LoopWaits, LoopDies, Unwind
  <2> QED
    BY <1>3, <2>1, <2>3, <2>4 DEF Consumer, Resume, LoopClaimsAtOnce
<1>4. ASSUME NEW v \in Workers,
             \/ Heartbeat(v) \/ WaitTimesOut(v)
             \/ ShutdownExecution(v) \/ InfraShutdown(v)
      PROVE  FALSE
  BY <1>1, <1>4 DEF Heartbeat, HeartbeatRenews, HeartbeatLosesLease,
                    HeartbeatFindsNotRunning, WaitTimesOut, ShutdownExecution,
                    InfraShutdown, Woken
<1>5. CASE \E r \in DOMAIN runs : LeaseExpires(r)
  BY <1>5 DEF LeaseExpires, LeasePasses
<1> QED
  BY <1>2, <1>3, <1>4, <1>5 DEF Next

LEMMA RaisingWasStale ==
  ASSUME IsFiniteSet(Workers)
  PROVE  TypeOK /\ StaleExecutionsAreCounted /\ [Next]_vars =>
           [\A w \in Workers :
              pc[w] # "raising" /\ pc'[w] = "raising" => runs[job[w]].retry_count > 0]_vars
<1> SUFFICES ASSUME TypeOK, StaleExecutionsAreCounted, Next, NEW w \in Workers,
                    pc[w] # "raising", pc'[w] = "raising"
             PROVE  runs[job[w]].retry_count > 0
  OBVIOUS
<1> DEFINE S == Stale(job[w])
<1>1. pc[w] = "executing" /\ runs[job[w]].status # "RUNNING"
  BY RaisingComesFromSettle
<1>2. job[w] \in DOMAIN runs /\ runs[job[w]] \in RunRecord
  <2>1. job[w] # NoRun
    BY <1>1 DEF TypeOK, WorkerOK
  <2> QED
    BY <2>1, JobInTable
<1>3. w \in S /\ S \in SUBSET Workers
  BY <1>1 DEF Stale
<1>4. Cardinality(S) \in Nat /\ Cardinality(S) # 0
  <2>1. IsFiniteSet(S)
    BY <1>3, FS_Subset
  <2> QED
    BY <1>3, <2>1, FS_CardinalityType, FS_EmptySet
<1>5. Cardinality(S) <= runs[job[w]].retry_count
  BY <1>2 DEF StaleExecutionsAreCounted
<1>6. runs[job[w]].retry_count \in Nat
  BY <1>2 DEF RunRecord
<1> HIDE DEF S
<1> QED
  BY <1>4, <1>5, <1>6

\* Whatever the timing, an outcome that the policy refuses twice, which ends the
\* consumer loop, is that of a worker whose claim was taken back.
THEOREM LoopsDieOfLostClaims ==
  ASSUME IsFiniteSet(Workers), ~LegacyCancel
  PROVE  Spec => LoopsDieOfRetriedRunsOnly
<1>1. TypeOK /\ StaleExecutionsAreCounted /\ [Next]_vars =>
        [\A w \in Workers :
           pc[w] # "raising" /\ pc'[w] = "raising" => runs[job[w]].retry_count > 0]_vars
  BY RaisingWasStale
<1> QED
  BY <1>1, OneStaleExecutionPerRetry, TypeCorrect, PTL
     DEF Spec, LoopsDieOfRetriedRunsOnly

-----------------------------------------------------------------------------

LEMMA LeaseInit == Init => LeaseInv
  BY DEF Init, LeaseInv, InScope, NoRun

LEMMA LeaseClients ==
  ASSUME TypeOK, LeaseInv, ~LegacyCancel, Clients,
         NEW v \in Workers, InScope(v)'
  PROVE  HoldsLease(v)'
<1>1. StoreOK /\ UNCHANGED execution /\ ~\E r \in DOMAIN runs : MarkCancelled(r)
  BY DEF TypeOK, StoreOK, Clients, CreateRun, CancelRun, MarkCancelled
<1>2. pc' = Woken
  BY <1>1 DEF Clients, CreateRun, CancelRun, Notify
<1>3. InScope(v) /\ job'[v] = job[v]
  BY <1>1, <1>2 DEF InScope, execution, Woken
<1>4. job[v] \in DOMAIN runs /\ runs[job[v]] \in RunRecord /\ HoldsLease(v)
  BY <1>3, JobInTable DEF InScope, LeaseInv
<1>5. CASE CreateRun
  <2>1. runs' = Append(runs, FreshRun("ENQUEUED"))
    BY <1>5 DEF CreateRun, CreateEnqueued
  <2>2. FreshRun("ENQUEUED") \in RunRecord
    BY FreshRunType DEF RestingStatuses
  <2>3. runs'[job[v]] = runs[job[v]]
    BY <1>1, <1>4, <2>1, <2>2, AppendProperties, StoreDomains DEF StoreOK
  <2> QED
    BY <1>3, <1>4, <2>3 DEF HoldsLease
<1>6. ASSUME NEW r \in DOMAIN runs, CancelRun(r)
      PROVE  HoldsLease(v)'
  <2>1. Update(r, WithCancelRequested(runs[r])) /\ runs[r] \in RunRecord
    BY <1>1, <1>6, StoreDomains DEF CancelRun, RequestCancellation
  <2>2. WithCancelRequested(runs[r]) \in RunRecord
    BY <2>1, RewrittenTypes
  <2>3. runs'[job[v]] = IF job[v] = r THEN WithCancelRequested(runs[r])
                        ELSE runs[job[v]]
    BY <1>1, <1>4, <2>1, <2>2, UpdateFacts DEF StoreOK
  <2> QED
    BY <1>3, <1>4, <2>1, <2>3 DEF HoldsLease, WithCancelRequested, RunRecord
<1> QED
  BY <1>1, <1>5, <1>6 DEF Clients

LEMMA LeaseConsumer ==
  ASSUME TypeOK, LeaseInv, NEW w \in Workers, Consumer(w),
         NEW v \in Workers, InScope(v)'
  PROVE  HoldsLease(v)'
<1>1. StoreOK /\ ControlOK
  BY TypeOKParts
<1>2. ASSUME pc[w] \in {"ready", "releasing"}, ClaimAndGoOn(w)
      PROVE  HoldsLease(v)'
  <2>1. \/ ScanFindsNothing(w)
        \/ \E r \in DOMAIN runs : ScanClaims(w, r)
    BY <1>2 DEF ClaimAndGoOn, ClaimNothing, AbandonClaim, StartRun
  <2>2. ASSUME InScope(v), job'[v] = job[v]
        PROVE  HoldsLease(v)'
    <3>1. HoldsLease(v) /\ job[v] \in DOMAIN runs
      BY <2>2, JobInTable DEF LeaseInv, InScope
    <3>2. runs'[job[v]] = runs[job[v]]
      BY <1>1, <2>1, <3>1, ClaimKeepsLive DEF HoldsLease
    <3> QED
      BY <2>2, <3>1, <3>2 DEF HoldsLease
  <2>3. CASE ClaimNothing(w) \/ \E r \in DOMAIN runs : AbandonClaim(w, r)
    <3>1. /\ UNCHANGED execution
          /\ \E place \in {"waiting", "ended"} : pc' = [pc EXCEPT ![w] = place]
      BY <2>3 DEF ClaimNothing, AbandonClaim
    <3> QED
      BY <1>1, <2>2, <3>1 DEF InScope, execution, ControlOK
  <2>4. ASSUME NEW r \in DOMAIN runs, StartRun(w, r)
        PROVE  HoldsLease(v)'
    <3>1. CASE v = w
      <4>1. job'[v] = r
        BY <1>1, <2>4, <3>1 DEF StartRun, ControlOK
      <4> QED
        BY <1>1, <2>4, <3>1, <4>1, ClaimGrantsLease DEF StartRun, HoldsLease
    <3>2. CASE v # w
      BY <1>1, <2>2, <2>4, <3>2 DEF StartRun, InScope, ControlOK
    <3> QED
      BY <3>1, <3>2
  <2> QED
    BY <1>2, <2>3, <2>4 DEF ClaimAndGoOn
<1>3. CASE Resume(w) \/ LoopClaimsAtOnce(w)
  BY <1>2, <1>3 DEF Resume, LoopClaimsAtOnce
<1>4. ASSUME ExecutorReturns(w) \/ ExecutorRaises(w)
      PROVE  HoldsLease(v)'
  <2>1. PICK outcome : Settle(w, outcome) /\ pc[w] = "executing"
    BY <1>4 DEF ExecutorReturns, ExecutorRaises
  <2>2. PICK place : LeaveExecution(w, place)
    BY <2>1 DEF Settle
  <2>3. v # w /\ InScope(v) /\ job'[v] = job[v]
    BY <1>1, <2>2 DEF LeaveExecution, InScope, ControlOK
  <2>4. /\ HoldsLease(v) /\ job[v] \in DOMAIN runs
        /\ InScope(w) /\ HoldsLease(w) /\ job[w] \in DOMAIN runs
    BY <1>1, <2>1, <2>3, JobInTable DEF LeaseInv, InScope, ControlOK, WorkerOK
  <2>5. job[v] # job[w]
    BY <2>3, <2>4 DEF HoldsLease
  <2>6. runs'[job[v]] = runs[job[v]]
    BY <2>1, <2>4, <2>5 DEF Settle, SetFinal, Update, store
  <2> QED
    BY <2>3, <2>4, <2>6 DEF HoldsLease
<1>5. CASE NextStep(w) \/ LoopEnds(w) \/ LoopWaits(w) \/ LoopDies(w) \/ Unwind(w)
  <2>1. /\ UNCHANGED runs
        /\ InScope(v) /\ job'[v] = job[v]
    BY <1>1, <1>5 DEF NextStep, LoopEnds, LoopWaits, LoopDies, Unwind, store,
                      execution, InScope, ControlOK
  <2> QED
    BY <2>1 DEF LeaseInv, HoldsLease
<1> QED
  BY <1>3, <1>4, <1>5 DEF Consumer

LEMMA LeaseHeartbeat ==
  ASSUME TypeOK, LeaseInv, NEW w \in Workers, Heartbeat(w),
         NEW v \in Workers, InScope(v)'
  PROVE  HoldsLease(v)'
<1>1. StoreOK /\ ControlOK
  BY TypeOKParts
<1>2. /\ heartbeat[w] = "beating" /\ UNCHANGED <<pc, job>>
      /\ heartbeat'[v] = "beating" => heartbeat[v] = "beating"
  BY <1>1 DEF Heartbeat, HeartbeatRenews, HeartbeatLosesLease,
              HeartbeatFindsNotRunning, ObserveCancellation, ControlOK
<1>3. InScope(v) /\ HoldsLease(v) /\ job[v] \in DOMAIN runs
  BY <1>2, JobInTable DEF InScope, LeaseInv
<1>4. CASE HeartbeatRenews(w)
  <2>1. job[w] \in DOMAIN runs /\ runs[job[w]] \in RunRecord
    BY <1>1, <1>2, StoreDomains DEF ControlOK, WorkerOK
  <2>2. Renew(runs[job[w]]) \in RunRecord
    BY <2>1, RewrittenTypes
  <2>3. runs'[job[v]] = IF job[v] = job[w] THEN Renew(runs[job[w]])
                        ELSE runs[job[v]]
    BY <1>1, <1>3, <1>4, <2>1, <2>2, UpdateFacts DEF HeartbeatRenews, StoreOK
  <2> QED
    BY <1>2, <1>3, <2>1, <2>3 DEF HoldsLease, Renew, RunRecord
<1>5. CASE HeartbeatLosesLease(w) \/ HeartbeatFindsNotRunning(w)
  BY <1>2, <1>3, <1>5
     DEF HeartbeatLosesLease, HeartbeatFindsNotRunning, store, HoldsLease
<1> QED
  BY <1>4, <1>5 DEF Heartbeat

\* A step of the orchestration in which no lease ends that a worker in its scope
\* relies on.
UnattendedLeasePasses ==
  \E r \in DOMAIN runs :
    LeasePasses(r) /\ \A w \in Workers : InScope(w) => job[w] # r

SafeStep ==
  \/ Clients
  \/ \E w \in Workers : Consumer(w) \/ Heartbeat(w) \/ WaitTimesOut(w)
                        \/ ShutdownExecution(w) \/ InfraShutdown(w)
  \/ UnattendedLeasePasses
  \/ UNCHANGED vars

LEMMA LeaseExpiry ==
  ASSUME TypeOK, LeaseInv, UnattendedLeasePasses,
         NEW v \in Workers, InScope(v)'
  PROVE  HoldsLease(v)'
<1>1. PICK r \in DOMAIN runs :
        LeasePasses(r) /\ \A w \in Workers : InScope(w) => job[w] # r
  BY DEF UnattendedLeasePasses
<1>2. InScope(v) /\ job'[v] = job[v]
  BY <1>1 DEF LeasePasses, execution, InScope
<1>3. HoldsLease(v) /\ job[v] \in DOMAIN runs /\ job[v] # r
  BY <1>1, <1>2, JobInTable DEF LeaseInv, InScope
<1>4. runs'[job[v]] = runs[job[v]]
  BY <1>1, <1>3 DEF LeasePasses, Update
<1> QED
  BY <1>2, <1>3, <1>4 DEF HoldsLease

LEMMA LeaseNext ==
  ~LegacyCancel /\ TypeOK /\ LeaseInv /\ SafeStep => LeaseInv'
<1> SUFFICES ASSUME ~LegacyCancel, TypeOK, LeaseInv, SafeStep,
                    NEW v \in Workers, InScope(v)'
             PROVE  HoldsLease(v)'
  BY DEF LeaseInv
<1>1. CASE Clients
  BY <1>1, LeaseClients
<1>2. ASSUME NEW w \in Workers, Consumer(w)
      PROVE  HoldsLease(v)'
  BY <1>2, LeaseConsumer
<1>3. ASSUME NEW w \in Workers, Heartbeat(w)
      PROVE  HoldsLease(v)'
  BY <1>3, LeaseHeartbeat
<1>4. ASSUME NEW w \in Workers,
             WaitTimesOut(w) \/ ShutdownExecution(w) \/ InfraShutdown(w)
      PROVE  HoldsLease(v)'
  <2>1. pc \in [Workers -> Locations] /\ Woken \in [Workers -> Locations \cup {"ready"}]
    BY DEF TypeOK, Woken
  <2>2. /\ UNCHANGED <<runs, job, heartbeat>>
        /\ pc'[v] = "executing" => pc[v] = "executing"
    BY <1>4, <2>1 DEF WaitTimesOut, ShutdownExecution, InfraShutdown, StopExecution,
                      store, execution, Woken
  <2> QED
    BY <2>2 DEF LeaseInv, InScope, HoldsLease
<1>5. CASE UnattendedLeasePasses
  BY <1>5, LeaseExpiry
<1>6. CASE UNCHANGED vars
  BY <1>6 DEF vars, LeaseInv, InScope, HoldsLease
<1> QED
  BY <1>1, <1>2, <1>3, <1>4, <1>5, <1>6 DEF SafeStep

-----------------------------------------------------------------------------
(* With the switches.                                                      *)

\* PromptLoop and ShortSteps leave exactly the safe steps.
LEMMA PunctualStepIsSafe ==
  ASSUME PromptLoop, ShortSteps, TypeOK, LeaseInv, [Next]_vars
  PROVE  SafeStep
<1>1. ASSUME NEW r \in DOMAIN runs, LeaseExpires(r)
      PROVE  UnattendedLeasePasses
  <2>1. ASSUME NEW w \in Workers, InScope(w), job[w] = r
        PROVE  FALSE
    <3>1. Attends(w, r)
      BY <2>1 DEF Attends, InScope, LeaseInv, HoldsLease
    <3> QED
      BY <1>1, <3>1 DEF LeaseExpires
  <2> QED
    BY <1>1, <2>1 DEF LeaseExpires, UnattendedLeasePasses
<1> QED
  BY <1>1 DEF Next, SafeStep

LEMMA LeaseInvariant ==
  ASSUME PromptLoop, ShortSteps, ~LegacyCancel
  PROVE  Spec => [](TypeOK /\ LeaseInv)
<1>1. Init => LeaseInv
  BY LeaseInit
<1>2. TypeOK /\ LeaseInv /\ [Next]_vars => LeaseInv'
  BY LeaseNext, PunctualStepIsSafe
<1> QED
  BY <1>1, <1>2, InitOK, NextOK, PTL DEF Spec

-----------------------------------------------------------------------------

\* With a prompt event loop and short steps, however many workers there are, a
\* worker only ever executes a run that the store says it holds; two workers never
\* execute the same run.
THEOREM ExecutionIsExclusive ==
  ASSUME PromptLoop, ShortSteps, ~LegacyCancel
  PROVE  Spec => []ExecutesOnlyOwnRun
<1>1. TypeOK /\ LeaseInv => ExecutesOnlyOwnRun
  BY DEF TypeOK, WorkerOK, LeaseInv, InScope, HoldsLease, ExecutesOnlyOwnRun
<1> QED
  BY <1>1, LeaseInvariant, PTL

\* Under the same assumptions every outcome is a legal transition of the run it is
\* written to, so that no consumer loop dies of the ValueError of the policy.
THEOREM LoopsNeverDie ==
  ASSUME PromptLoop, ShortSteps, ~LegacyCancel
  PROVE  Spec => []LoopsSurvive
<1>1. Init => LoopsSurvive
  BY DEF Init, LoopsSurvive
<1> QED
  BY <1>1, ExecutionIsExclusive, TypeCorrect, SettledLoopsSurvive, PTL DEF Spec

-----------------------------------------------------------------------------
(* On the clock.                                                           *)

\* What is left of the claim of a worker in its lease scope, as a function of the
\* timer that will renew it, or that will end the execution.
UntilTheFirstTurn(w) ==
  heartbeat[w] = "beating" /\ ~asleep[w] =>
    beat[w] <= 0 /\ left[job[w]] >= LeaseTime + beat[w]

UntilTheBeat(w) ==
  heartbeat[w] = "beating" /\ asleep[w] =>
    left[job[w]] >= LeaseTime - MaxStall - HeartbeatInterval + beat[w]

\* The heartbeat loop stops only after it told the execution to stop, which then does
\* not begin another step.
UntilTheCheckpoint(w) ==
  pc[w] = "executing" /\ heartbeat[w] # "beating" =>
    ctxCancelled[w] /\ left[job[w]] >= LeaseTime - MaxStep + work[w]

Covered(w) ==
  InScope(w) => UntilTheFirstTurn(w) /\ UntilTheBeat(w) /\ UntilTheCheckpoint(w)

ClaimsCovered == \A w \in Workers : Covered(w)

\* The strengthening of ClaimsOutlastExecutions.
TimedInv == TimedTypeOK /\ LeaseInv /\ ClaimsCovered

LEMMA TimesFacts ==
  /\ LeaseTime \in Nat /\ HeartbeatInterval \in Nat
  /\ MaxStep \in Nat /\ MaxStall \in Nat
  /\ HeartbeatInterval + 2 * MaxStall <= LeaseTime
  /\ MaxStep + MaxStall <= LeaseTime
  BY TimesAssumption

\* Each of the three bounds leaves something of the claim, however late the timer is.
LEMMA CoveredClaimLasts ==
  ASSUME TimedTypeOK, NEW w \in Workers, InScope(w), Covered(w)
  PROVE  job[w] \in DOMAIN runs /\ left[job[w]] \in 0..LeaseTime
<1>1. job[w] \in DOMAIN runs
  BY JobInTable DEF InScope, TimedTypeOK
<1>2. /\ left[job[w]] \in -1..LeaseTime /\ asleep[w] \in BOOLEAN
      /\ beat[w] \in -MaxStall..HeartbeatInterval
      /\ work[w] \in -MaxStall..MaxStep
  BY <1>1 DEF TimedTypeOK
<1>3. CASE heartbeat[w] = "beating"
  BY <1>1, <1>2, <1>3, TimesFacts DEF Covered, UntilTheFirstTurn, UntilTheBeat
<1>4. CASE heartbeat[w] # "beating"
  BY <1>1, <1>2, <1>4, TimesFacts DEF Covered, UntilTheCheckpoint, InScope
<1> QED
  BY <1>3, <1>4

\* On the clock every step is safe: only a claim that is past its expiration ends.
LEMMA TimedStepIsSafe ==
  ASSUME TimedInv, [TimedNext]_timedVars
  PROVE  SafeStep
<1>1. ASSUME NEW r \in DOMAIN runs, TimedExpiry(r)
      PROVE  UnattendedLeasePasses
  <2>1. ASSUME NEW w \in Workers, InScope(w), job[w] = r
        PROVE  FALSE
    <3>1. left[r] \in 0..LeaseTime
      BY <2>1, CoveredClaimLasts DEF TimedInv, ClaimsCovered
    <3> QED
      BY <1>1, <3>1, TimesFacts DEF TimedExpiry, Overdue
  <2> QED
    BY <1>1, <2>1 DEF TimedExpiry, UnattendedLeasePasses
<1>2. ASSUME NEW w \in Workers, TimedConsumer(w)
      PROVE  Consumer(w) \/ WaitTimesOut(w)
  <2>1. CASE Turn(w)
    BY <2>1 DEF Turn, Consumer, Resume, LoopClaimsAtOnce, ClaimAndGoOn
  <2> QED
    BY <1>2, <2>1 DEF TimedConsumer, TimedNextStep, Finish, TimedUnwind, Consumer
<1>3. ASSUME NEW w \in Workers, TimedHeartbeat(w)
      PROVE  Heartbeat(w) \/ UNCHANGED vars
  BY <1>3 DEF TimedHeartbeat, HeartbeatBegins, Beat
<1>4. CASE TimedClients \/ Tick \/ UNCHANGED timedVars
  BY <1>4 DEF TimedClients, Tick, timedVars, SafeStep
<1> QED
  BY <1>1, <1>2, <1>3, <1>4 DEF TimedNext, Clock, Shutdown, SafeStep

\* A safe step is one of the orchestration, whatever its switches are.
LEMMA SafeStepIsStep ==
  ASSUME TypeOK, SafeStep
  PROVE  [Next]_vars
<1>1. ASSUME UnattendedLeasePasses
      PROVE  \E r \in DOMAIN runs : LeaseExpires(r)
  <2>1. PICK r \in DOMAIN runs :
          LeasePasses(r) /\ \A w \in Workers : InScope(w) => job[w] # r
    BY <1>1 DEF UnattendedLeasePasses
  <2>2. r # NoRun
    BY StoreDomains DEF TypeOK, StoreOK, NoRun
  <2>3. \A w \in Workers : ~Attends(w, r)
    BY <2>1, <2>2 DEF Attends, InScope
  <2> QED
    BY <2>1, <2>3 DEF LeaseExpires
<1> QED
  BY <1>1 DEF SafeStep, Next

-----------------------------------------------------------------------------
(* The timers keep their ranges.                                           *)

TimersOK ==
  /\ left \in [DOMAIN runs -> -1..LeaseTime]
  /\ beat \in [Workers -> -MaxStall..HeartbeatInterval]
  /\ asleep \in [Workers -> BOOLEAN]
  /\ work \in [Workers -> -MaxStall..MaxStep]

LEMMA GrantFacts ==
  ASSUME left \in [DOMAIN runs -> -1..LeaseTime], NEW granted, Grant(granted)
  PROVE  /\ left' \in [DOMAIN runs' -> -1..LeaseTime]
         /\ \A r \in DOMAIN runs \cap DOMAIN runs' :
              runs'[r].status = "RUNNING" =>
                left'[r] = IF r \in granted THEN LeaseTime ELSE left[r]
  BY TimesFacts DEF Grant

LEMMA SetTimers ==
  /\ 0 \in -MaxStall..HeartbeatInterval
  /\ HeartbeatInterval \in -MaxStall..HeartbeatInterval
  /\ 0..MaxStep \subseteq -MaxStall..MaxStep
  /\ 0 \in -MaxStall..MaxStep
  BY TimesFacts

LEMMA TimersStayOK ==
  ASSUME TimersOK, TypeOK, TypeOK', [TimedNext]_timedVars
  PROVE  TimersOK'
<1>1. ASSUME UNCHANGED timers, DOMAIN runs' = DOMAIN runs
      PROVE  TimersOK'
  BY <1>1 DEF TimersOK, timers
<1>2. CASE TimedClients
  BY <1>2, GrantFacts DEF TimedClients, TimersOK
<1>3. ASSUME NEW w \in Workers, Turn(w)
      PROVE  TimersOK'
  <2>1. left' \in [DOMAIN runs' -> -1..LeaseTime]
    BY <1>3, GrantFacts DEF Turn, TimersOK
  <2>2. UNCHANGED <<beat, asleep, work>> \/ BeginScope(w)
    BY <1>3 DEF Turn
  <2> QED
    BY <2>1, <2>2, SetTimers DEF BeginScope, TimersOK
<1>4. ASSUME NEW w \in Workers, TimedNextStep(w)
      PROVE  TimersOK'
  BY <1>4, SetTimers DEF TimedNextStep, NextStep, store, TimersOK
<1>5. ASSUME NEW w \in Workers, Finish(w) \/ TimedUnwind(w)
      PROVE  TimersOK'
  <2>1. left' \in [DOMAIN runs' -> -1..LeaseTime]
    BY <1>5, GrantFacts DEF Finish, TimedUnwind, Unwind, store, TimersOK
  <2> QED
    BY <1>5, <2>1, SetTimers DEF Finish, TimedUnwind, EndScope, TimersOK
<1>6. ASSUME NEW w \in Workers,
             \/ /\ LoopEnds(w) \/ LoopWaits(w) \/ LoopDies(w) \/ WaitTimesOut(w)
                /\ UNCHANGED timers
             \/ Shutdown(w)
      PROVE  TimersOK'
  BY <1>1, <1>6 DEF LoopEnds, LoopWaits, LoopDies, WaitTimesOut, Shutdown,
                    ShutdownExecution, InfraShutdown, StopExecution, store
<1>7. ASSUME NEW w \in Workers, TimedHeartbeat(w)
      PROVE  TimersOK'
  <2>1. CASE HeartbeatBegins(w)
    BY <2>1, SetTimers DEF HeartbeatBegins, vars, TimersOK
  <2>2. CASE Beat(w)
    <3>1. left' \in [DOMAIN runs' -> -1..LeaseTime]
      BY <2>2, GrantFacts DEF Beat, TimersOK
    <3> QED
      BY <2>2, <3>1, SetTimers DEF Beat, TimersOK
  <2> QED
    BY <1>7, <2>1, <2>2 DEF TimedHeartbeat
<1>8. CASE Tick
  <2>1. UNCHANGED <<runs, asleep>>
    BY <1>8 DEF Tick, vars
  <2>2. left' \in [DOMAIN runs' -> -1..LeaseTime]
    BY <1>8, <2>1, TimesFacts DEF Tick, TimersOK
  <2>3. beat' \in [Workers -> -MaxStall..HeartbeatInterval]
    BY <1>8, TimesFacts DEF Tick, TimersOK
  <2>4. work' \in [Workers -> -MaxStall..MaxStep]
    BY <1>8, TimesFacts DEF Tick, TimersOK
  <2> QED
    BY <2>1, <2>2, <2>3, <2>4 DEF TimersOK
<1>9. ASSUME NEW r \in DOMAIN runs, TimedExpiry(r)
      PROVE  TimersOK'
  BY <1>1, <1>9 DEF TimedExpiry, LeasePasses, Update
<1>10. CASE UNCHANGED timedVars
  BY <1>1, <1>10 DEF timedVars, vars, timers
<1> QED
  BY <1>2, <1>3, <1>4, <1>5, <1>6, <1>7, <1>8, <1>9, <1>10
     DEF TimedNext, TimedConsumer, Clock

-----------------------------------------------------------------------------
(* The claims stay covered.                                                *)

\* The step does not touch the worker, except to take it out of its execution or to
\* tell the execution to stop.
ScopeKept(v) ==
  /\ job'[v] = job[v] /\ heartbeat'[v] = heartbeat[v]
  /\ asleep'[v] = asleep[v] /\ beat'[v] = beat[v] /\ work'[v] = work[v]
  /\ pc'[v] = "executing" => pc[v] = "executing"
  /\ ctxCancelled[v] => ctxCancelled'[v]

LEMMA ScopeTypes ==
  ASSUME TimedTypeOK, NEW v \in Workers, job[v] # NoRun
  PROVE  /\ job[v] \in DOMAIN runs /\ left[job[v]] \in -1..LeaseTime
         /\ asleep[v] \in BOOLEAN /\ beat[v] \in -MaxStall..HeartbeatInterval
         /\ work[v] \in -MaxStall..MaxStep
         /\ heartbeat[v] \in Heartbeats
  BY JobInTable DEF TimedTypeOK, TypeOK

\* Whatever else the step does to the claims, a run that its worker holds keeps the
\* time it has left.
LEMMA StaysCovered ==
  ASSUME TimedTypeOK, TimedTypeOK', LeaseInv', NEW v \in Workers, Covered(v),
         ScopeKept(v), UNCHANGED left \/ \E granted : Grant(granted)
  PROVE  Covered(v)'
<1> SUFFICES ASSUME InScope(v)'
             PROVE  (UntilTheFirstTurn(v) /\ UntilTheBeat(v) /\ UntilTheCheckpoint(v))'
  BY DEF Covered
<1>1. InScope(v) /\ job[v] # NoRun
  BY DEF InScope, ScopeKept
<1>2. job'[v] \in DOMAIN runs' /\ left'[job'[v]] \in -1..LeaseTime
  <2>1. runs' \in Seq(RunRecord) /\ WorkerOK(v)' /\ job'[v] # NoRun
    BY <1>1 DEF TimedTypeOK, TypeOK, ScopeKept
  <2>2. job'[v] \in DOMAIN runs'
    BY <2>1 DEF WorkerOK
  <2> QED
    BY <2>2 DEF TimedTypeOK
<1>3. left'[job[v]] >= left[job[v]]
  <2>1. CASE UNCHANGED left
    BY <1>1, <2>1, ScopeTypes
  <2>2. ASSUME NEW granted, Grant(granted)
        PROVE  left'[job[v]] >= left[job[v]]
    <3>1. runs'[job[v]].status = "RUNNING"
      BY DEF LeaseInv, HoldsLease, ScopeKept
    <3>2. left'[job[v]] = IF job[v] \in granted THEN LeaseTime ELSE left[job[v]]
      BY <1>1, <1>2, <2>2, <3>1, ScopeTypes, GrantFacts DEF TimedTypeOK, ScopeKept
    <3> QED
      BY <1>1, <3>2, ScopeTypes, TimesFacts
  <2> QED
    BY <2>1, <2>2
<1>4. UntilTheFirstTurn(v) /\ UntilTheBeat(v) /\ UntilTheCheckpoint(v)
  BY <1>1 DEF Covered
<1> QED
  BY <1>1, <1>2, <1>3, <1>4, ScopeTypes, TimesFacts
     DEF UntilTheFirstTurn, UntilTheBeat, UntilTheCheckpoint, ScopeKept

LEMMA ClientsCovered ==
  ASSUME TimedTypeOK, TimedTypeOK', LeaseInv', ClaimsCovered, TimedClients
  PROVE  ClaimsCovered'
<1>1. /\ UNCHANGED <<execution, beat, asleep, work>>
      /\ pc' = pc \/ pc' = Woken
      /\ \E granted : Grant(granted)
  BY DEF TimedClients, Clients, CreateRun, CancelRun, MarkCancelled, Notify
<1>2. ASSUME NEW v \in Workers
      PROVE  ScopeKept(v)
  BY <1>1 DEF ScopeKept, execution, Woken
<1> QED
  BY <1>1, <1>2, StaysCovered DEF ClaimsCovered

LEMMA TurnCovered ==
  ASSUME TimedTypeOK, TimedTypeOK', LeaseInv', ClaimsCovered,
         NEW w \in Workers, Turn(w)
  PROVE  ClaimsCovered'
<1> SUFFICES ASSUME NEW v \in Workers
             PROVE  Covered(v)'
  BY DEF ClaimsCovered
<1>1. ControlOK /\ \E granted : Grant(granted)
  BY TypeOKParts DEF TimedTypeOK, Turn
<1>2. CASE ClaimNothing(w) \/ \E r \in DOMAIN runs : AbandonClaim(w, r)
  <2>1. UNCHANGED <<beat, asleep, work>>
    <3>1. ~\E r \in DOMAIN runs : StartRun(w, r)
      BY <1>1, <1>2 DEF ClaimNothing, AbandonClaim, StartRun, ControlOK
    <3> QED
      BY <3>1 DEF Turn
  <2>2. /\ UNCHANGED execution
        /\ \E place \in {"waiting", "ended"} : pc' = [pc EXCEPT ![w] = place]
    BY <1>2 DEF ClaimNothing, AbandonClaim
  <2>3. ScopeKept(v)
    BY <1>1, <2>1, <2>2 DEF ScopeKept, execution, ControlOK
  <2> QED
    BY <1>1, <2>3, StaysCovered DEF ClaimsCovered
<1>3. ASSUME NEW r \in DOMAIN runs, StartRun(w, r), BeginScope(w), Grant({r})
      PROVE  Covered(v)'
  <2>1. CASE v = w
    <3>1. job'[w] = r /\ heartbeat'[w] = "beating" /\ asleep'[w] = FALSE /\ beat'[w] = 0
      BY <1>1, <1>3 DEF StartRun, BeginScope, ControlOK, TimedTypeOK
    <3>2. r \in DOMAIN runs'
      BY <1>1, <1>3, <3>1 DEF TimedTypeOK, TypeOK, WorkerOK
    <3>3. left'[r] = LeaseTime
      BY <1>3, <3>2 DEF Grant
    <3> QED
      BY <2>1, <3>1, <3>3, TimesFacts
         DEF Covered, UntilTheFirstTurn, UntilTheBeat, UntilTheCheckpoint
  <2>2. CASE v # w
    <3>1. ScopeKept(v)
      BY <1>1, <1>3, <2>2 DEF ScopeKept, StartRun, BeginScope, ControlOK, TimedTypeOK
    <3> QED
      BY <1>1, <3>1, StaysCovered DEF ClaimsCovered
  <2> QED
    BY <2>1, <2>2
<1>4. CASE \E r \in DOMAIN runs : StartRun(w, r) /\ BeginScope(w) /\ Grant({r})
  BY <1>3, <1>4
<1> QED
  BY <1>2, <1>4 DEF Turn

\* The execution goes on to another step only while its heartbeat task still beats.
LEMMA NextStepCovered ==
  ASSUME TimedTypeOK, TimedTypeOK', LeaseInv', ClaimsCovered,
         NEW w \in Workers, TimedNextStep(w)
  PROVE  ClaimsCovered'
<1> SUFFICES ASSUME NEW v \in Workers
             PROVE  Covered(v)'
  BY DEF ClaimsCovered
<1>1. /\ UNCHANGED <<left, beat, asleep, pc, job, ctxCancelled, heartbeat>>
      /\ pc[w] = "executing" /\ ~ctxCancelled[w]
      /\ v # w => work'[v] = work[v]
  BY DEF TimedNextStep, NextStep, TimedTypeOK
<1>2. CASE v # w
  <2>1. ScopeKept(v)
    BY <1>1, <1>2 DEF ScopeKept
  <2> QED
    BY <1>1, <2>1, StaysCovered DEF ClaimsCovered
<1>3. CASE v = w
  <2>1. Covered(w) /\ (InScope(w)' <=> InScope(w))
    BY <1>1 DEF ClaimsCovered, InScope
  <2>2. InScope(w) => heartbeat[w] = "beating"
    BY <1>1, <2>1 DEF Covered, UntilTheCheckpoint, InScope
  <2> QED
    BY <1>1, <1>3, <2>1, <2>2
       DEF Covered, UntilTheFirstTurn, UntilTheBeat, UntilTheCheckpoint
<1> QED
  BY <1>2, <1>3

LEMMA EndCovered ==
  ASSUME TimedTypeOK, TimedTypeOK', LeaseInv', ClaimsCovered,
         NEW w \in Workers, Finish(w) \/ TimedUnwind(w)
  PROVE  ClaimsCovered'
<1> SUFFICES ASSUME NEW v \in Workers
             PROVE  Covered(v)'
  BY DEF ClaimsCovered
<1>1. /\ ControlOK /\ EndScope(w)
      /\ UNCHANGED left \/ \E granted : Grant(granted)
  BY TypeOKParts DEF TimedTypeOK, Finish, TimedUnwind
<1>2. PICK place \in {"releasing", "raising", "ended"} :
        /\ pc' = [pc EXCEPT ![w] = place]
        /\ job' = [job EXCEPT ![w] = NoRun]
        /\ ctxCancelled' = [ctxCancelled EXCEPT ![w] = FALSE]
        /\ heartbeat' = [heartbeat EXCEPT ![w] = "off"]
  BY DEF Finish, TimedUnwind, Unwind, ExecutorReturns, ExecutorRaises, Settle,
         LeaveExecution
<1>3. CASE v = w
  BY <1>1, <1>2, <1>3 DEF Covered, InScope, ControlOK
<1>4. CASE v # w
  <2>1. ScopeKept(v)
    BY <1>1, <1>2, <1>4 DEF ScopeKept, EndScope, ControlOK, TimedTypeOK
  <2> QED
    BY <1>1, <2>1, StaysCovered DEF ClaimsCovered
<1> QED
  BY <1>3, <1>4

\* The other steps of a loop, and those of a shutdown.
LEMMA RestCovered ==
  ASSUME TimedTypeOK, TimedTypeOK', LeaseInv', ClaimsCovered, NEW w \in Workers,
         \/ /\ LoopEnds(w) \/ LoopWaits(w) \/ LoopDies(w) \/ WaitTimesOut(w)
            /\ UNCHANGED timers
         \/ Shutdown(w)
  PROVE  ClaimsCovered'
<1>1. ControlOK /\ UNCHANGED timers
  BY TypeOKParts DEF TimedTypeOK, Shutdown
<1>2. ASSUME NEW v \in Workers
      PROVE  ScopeKept(v)
  <2>1. CASE Shutdown(w)
    <3>1. /\ UNCHANGED <<job, heartbeat>>
          /\ ctxCancelled' = [ctxCancelled EXCEPT ![w] = @ \/ pc[w] = "executing"]
      BY <2>1 DEF Shutdown, ShutdownExecution, InfraShutdown, StopExecution
    <3>2. \/ pc' = Woken
          \/ pc' = [Woken EXCEPT ![w] =
                      IF pc[w] \in {"waiting", "ready", "executing"} THEN "cancelled"
                      ELSE pc[w]]
      BY <2>1 DEF Shutdown, ShutdownExecution, InfraShutdown
    <3>3. pc'[v] = "executing" => pc[v] = "executing"
      BY <3>2 DEF Woken
    <3> QED
      BY <1>1, <3>1, <3>3 DEF ScopeKept, timers, ControlOK
  <2>2. CASE LoopEnds(w) \/ LoopWaits(w) \/ LoopDies(w) \/ WaitTimesOut(w)
    BY <1>1, <2>2 DEF LoopEnds, LoopWaits, LoopDies, WaitTimesOut, execution,
                      ScopeKept, timers, ControlOK
  <2> QED
    BY <2>1, <2>2
<1> QED
  BY <1>1, <1>2, StaysCovered DEF timers, ClaimsCovered

LEMMA HeartbeatBeginsCovered ==
  ASSUME TimedTypeOK, TimedTypeOK', LeaseInv', ClaimsCovered,
         NEW w \in Workers, HeartbeatBegins(w)
  PROVE  ClaimsCovered'
<1> SUFFICES ASSUME NEW v \in Workers
             PROVE  Covered(v)'
  BY DEF ClaimsCovered
<1>1. UNCHANGED <<left, work, pc, job, ctxCancelled, heartbeat>>
  BY DEF HeartbeatBegins, vars
<1>2. CASE v # w
  <2>1. ScopeKept(v)
    BY <1>1, <1>2 DEF ScopeKept, HeartbeatBegins, TimedTypeOK
  <2> QED
    BY <1>1, <2>1, StaysCovered DEF ClaimsCovered
<1>3. CASE v = w
  <2>1. /\ heartbeat[w] = "beating" /\ ~asleep[w] /\ asleep'[w] = TRUE
        /\ beat'[w] = HeartbeatInterval
    BY DEF HeartbeatBegins, TimedTypeOK
  <2>2. SUFFICES ASSUME InScope(w)
                 PROVE  left[job[w]] >= LeaseTime - MaxStall
    BY <1>1, <1>3, <2>1, <2>2, ScopeTypes, TimesFacts
       DEF Covered, InScope, UntilTheFirstTurn, UntilTheBeat, UntilTheCheckpoint
  <2>3. left[job[w]] >= LeaseTime + beat[w]
    BY <2>1, <2>2 DEF ClaimsCovered, Covered, UntilTheFirstTurn
  <2> QED
    BY <2>2, <2>3, ScopeTypes, TimesFacts DEF InScope
<1> QED
  BY <1>2, <1>3

\* A beat grants the full lease, since the worker still holds its run, and the loop
\* stops at it only if it told the execution to stop.
LEMMA BeatCovered ==
  ASSUME TimedTypeOK, TimedTypeOK', LeaseInv, LeaseInv', ClaimsCovered,
         NEW w \in Workers, Beat(w)
  PROVE  ClaimsCovered'
<1> SUFFICES ASSUME NEW v \in Workers
             PROVE  Covered(v)'
  BY DEF ClaimsCovered
<1>1. /\ ControlOK /\ Heartbeat(w) /\ heartbeat[w] = "beating"
      /\ UNCHANGED <<pc, job, work>>
  BY TypeOKParts
     DEF TimedTypeOK, Beat, Heartbeat, HeartbeatRenews, HeartbeatLosesLease,
         HeartbeatFindsNotRunning
<1>2. HoldsLease(w) /\ job[w] # NoRun
  BY <1>1 DEF LeaseInv, InScope, ControlOK, WorkerOK
<1>3. HeartbeatRenews(w)
  BY <1>1, <1>2
     DEF Heartbeat, HeartbeatLosesLease, HeartbeatFindsNotRunning, HoldsLease
<1>4. /\ v # w => ctxCancelled'[v] = ctxCancelled[v] /\ heartbeat'[v] = heartbeat[v]
      /\ heartbeat'[w] # "beating" => ctxCancelled'[w]
  BY <1>1, <1>3 DEF HeartbeatRenews, ObserveCancellation, ControlOK
<1>5. CASE v # w
  <2>1. ScopeKept(v)
    BY <1>1, <1>4, <1>5 DEF ScopeKept, Beat, TimedTypeOK
  <2> QED
    BY <2>1, StaysCovered DEF ClaimsCovered, Beat
<1>6. CASE v = w
  <2>1. /\ beat'[w] = HeartbeatInterval
        /\ heartbeat'[w] = "beating" => asleep'[w]
    BY DEF Beat, TimedTypeOK
  <2>2. job[w] \in DOMAIN runs'
    BY <1>1, <1>2 DEF TimedTypeOK, TypeOK, WorkerOK
  <2>3. job[w] \in {r \in {job[w]} : Holds(w)}
    BY <1>2 DEF Holds, HoldsLease
  <2>4. left'[job'[w]] = LeaseTime
    BY <1>1, <2>2, <2>3 DEF Beat, Grant
  <2>5. UntilTheFirstTurn(w)' /\ UntilTheBeat(w)'
    BY <2>1, <2>4, TimesFacts DEF UntilTheFirstTurn, UntilTheBeat
  <2>6. work'[w] \in -MaxStall..MaxStep
    BY DEF TimedTypeOK
  <2>7. UntilTheCheckpoint(w)'
    BY <1>4, <2>4, <2>6, TimesFacts DEF UntilTheCheckpoint
  <2> QED
    BY <1>6, <2>5, <2>7 DEF Covered
<1> QED
  BY <1>5, <1>6

\* A claim and the timer that it is compared with run down together.
LEMMA TickCovered ==
  ASSUME TimedTypeOK, ClaimsCovered, Tick
  PROVE  ClaimsCovered'
<1> SUFFICES ASSUME NEW v \in Workers, InScope(v)'
             PROVE  (UntilTheFirstTurn(v) /\ UntilTheBeat(v) /\ UntilTheCheckpoint(v))'
  BY DEF ClaimsCovered, Covered
<1>1. UNCHANGED <<runs, pc, job, ctxCancelled, heartbeat, asleep>> /\ InScope(v)
  BY DEF Tick, vars, InScope
<1>2. /\ job[v] \in DOMAIN runs /\ left[job[v]] \in 0..LeaseTime
      /\ beat[v] \in Int /\ work[v] \in Int
  BY <1>1, CoveredClaimLasts, ScopeTypes DEF ClaimsCovered, InScope
<1>3. left'[job[v]] = left[job[v]] - 1
  BY <1>2, TimesFacts DEF Tick
<1>4. /\ beat'[v] = IF heartbeat[v] = "beating" THEN beat[v] - 1 ELSE beat[v]
      /\ work'[v] = IF pc[v] = "executing" THEN work[v] - 1 ELSE work[v]
  BY DEF Tick
<1>5. UntilTheFirstTurn(v) /\ UntilTheBeat(v) /\ UntilTheCheckpoint(v)
  BY <1>1 DEF ClaimsCovered, Covered
<1> QED
  BY <1>1, <1>2, <1>3, <1>4, <1>5, TimesFacts
     DEF UntilTheFirstTurn, UntilTheBeat, UntilTheCheckpoint

LEMMA ExpiryCovered ==
  ASSUME TimedTypeOK, TimedTypeOK', LeaseInv', ClaimsCovered,
         \/ \E r \in DOMAIN runs : TimedExpiry(r)
         \/ UNCHANGED timedVars
  PROVE  ClaimsCovered'
<1>1. UNCHANGED <<pc, execution, left, beat, asleep, work>>
  BY DEF TimedExpiry, LeasePasses, timedVars, vars, timers, execution
<1>2. \A v \in Workers : ScopeKept(v)
  BY <1>1 DEF ScopeKept, execution
<1> QED
  BY <1>1, <1>2, StaysCovered DEF ClaimsCovered

LEMMA StepCovered ==
  ASSUME TimedTypeOK, TimedTypeOK', LeaseInv, LeaseInv', ClaimsCovered,
         [TimedNext]_timedVars
  PROVE  ClaimsCovered'
<1>1. ASSUME NEW w \in Workers, TimedConsumer(w)
      PROVE  ClaimsCovered'
  BY <1>1, TurnCovered, NextStepCovered, EndCovered, RestCovered DEF TimedConsumer
<1>2. ASSUME NEW w \in Workers, TimedHeartbeat(w)
      PROVE  ClaimsCovered'
  BY <1>2, HeartbeatBeginsCovered, BeatCovered DEF TimedHeartbeat
<1> QED
  BY <1>1, <1>2, ClientsCovered, RestCovered, TickCovered, ExpiryCovered
     DEF TimedNext, Clock

-----------------------------------------------------------------------------

LEMMA TimedInitOK == TimedInit => TimedInv
<1> SUFFICES ASSUME TimedInit
             PROVE  TimedInv
  OBVIOUS
<1>1. TypeOK /\ LeaseInv
  BY InitOK, LeaseInit DEF TimedInit
<1>2. TimersOK
  <2>1. DOMAIN runs = {} /\ left = <<>>
    BY DEF TimedInit, Init
  <2>2. left \in [DOMAIN runs -> -1..LeaseTime]
    BY <2>1
  <2> QED
    BY <2>2, SetTimers DEF TimedInit, TimersOK
<1>3. ClaimsCovered
  BY DEF TimedInit, Init, NoRun, ClaimsCovered, Covered, InScope
<1> QED
  BY <1>1, <1>2, <1>3 DEF TimersOK, TimedTypeOK, TimedInv

LEMMA TimedNextOK ==
  ASSUME ~LegacyCancel, TimedInv, [TimedNext]_timedVars
  PROVE  TimedInv' /\ SafeStep
<1>1. SafeStep
  BY TimedStepIsSafe
<1>2. TypeOK'
  BY <1>1, SafeStepIsStep, NextOK DEF TimedInv, TimedTypeOK
<1>3. LeaseInv'
  BY <1>1, LeaseNext DEF TimedInv, TimedTypeOK
<1>4. TimedTypeOK'
  BY <1>2, TimersStayOK DEF TimedInv, TimersOK, TimedTypeOK
<1>5. ClaimsCovered'
  BY <1>3, <1>4, StepCovered DEF TimedInv
<1> QED
  BY <1>1, <1>3, <1>4, <1>5 DEF TimedInv

LEMMA TimedInvariant ==
  ASSUME ~LegacyCancel
  PROVE  TimedSpec => []TimedInv
  BY TimedInitOK, TimedNextOK, PTL DEF TimedSpec

\* For all times that TimesAssumption admits, no timer is served later than MaxStall
\* and no claim reaches further than LeaseTime ahead.
THEOREM TimersInRangeOnTheClock ==
  ASSUME ~LegacyCancel
  PROVE  TimedSpec => []TimedTypeOK
<1>1. TimedInv => TimedTypeOK
  BY DEF TimedInv
<1> QED
  BY <1>1, TimedInvariant, PTL

\* For all such times, however late the event loop serves the beats and the ends of
\* the steps, the claim of a worker that executes a run has not expired: neither while
\* its heartbeat task beats nor after that stopped because of a request to cancel.
THEOREM ClaimsOutlast ==
  ASSUME ~LegacyCancel
  PROVE  TimedSpec => []ClaimsOutlastExecutions
<1>1. ASSUME TimedInv, NEW w \in Workers,
             pc[w] = "executing" \/ heartbeat[w] = "beating"
      PROVE  left[job[w]] >= 0 /\ runs[job[w]].lease = "live"
  <2>1. WorkerOK(w)
    BY <1>1 DEF TimedInv, TimedTypeOK, TypeOK
  <2>2. InScope(w)
    BY <1>1, <2>1 DEF WorkerOK, InScope
  <2>3. left[job[w]] \in 0..LeaseTime
    BY <1>1, <2>2, CoveredClaimLasts DEF TimedInv, ClaimsCovered
  <2> QED
    BY <1>1, <2>2, <2>3, TimesFacts DEF TimedInv, LeaseInv, HoldsLease
<1>2. TimedInv => ClaimsOutlastExecutions
  BY <1>1 DEF ClaimsOutlastExecutions
<1> QED
  BY <1>2, TimedInvariant, PTL

\* The orchestration on the clock implements the untimed one whatever the switches
\* say: with PromptLoop and ShortSteps on, what they assume is a consequence of the
\* times.
THEOREM TimedImplements ==
  ASSUME ~LegacyCancel
  PROVE  TimedSpec => ImplementsOrchestration
<1>1. TimedInit => Init
  BY DEF TimedInit
<1>2. TimedInv /\ [TimedNext]_timedVars => [Next]_vars
  BY TimedStepIsSafe, SafeStepIsStep DEF TimedInv, TimedTypeOK
<1> QED
  BY <1>1, <1>2, TimedInvariant, PTL DEF TimedSpec, Spec, ImplementsOrchestration

\* On the clock a worker only ever executes a run that the store says it holds.
THEOREM ExclusiveOnTheClock ==
  ASSUME ~LegacyCancel
  PROVE  TimedSpec => []ExecutesOnlyOwnRun
<1>1. TimedInv => ExecutesOnlyOwnRun
  BY DEF TimedInv, TimedTypeOK, TypeOK, WorkerOK, LeaseInv, InScope, HoldsLease,
         ExecutesOnlyOwnRun
<1> QED
  BY <1>1, TimedInvariant, PTL

\* On the clock every outcome is a legal transition of the run it is written to: no
\* consumer loop dies of the ValueError of the policy.
THEOREM LoopsSurviveOnTheClock ==
  ASSUME ~LegacyCancel
  PROVE  TimedSpec => []LoopsSurvive
<1>1. TimedInit => LoopsSurvive
  BY DEF TimedInit, Init, LoopsSurvive
<1>2. TimedInv /\ [TimedNext]_timedVars => [Next]_vars /\ TypeOK
  BY TimedStepIsSafe, SafeStepIsStep DEF TimedInv, TimedTypeOK
<1>3. TypeOK /\ ExecutesOnlyOwnRun /\ LoopsSurvive /\ [Next]_vars => LoopsSurvive'
  BY SettledLoopsSurvive
<1> QED
  BY <1>1, <1>2, <1>3, ExclusiveOnTheClock, TimedInvariant, PTL DEF TimedSpec

=============================================================================
