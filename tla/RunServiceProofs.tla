-------------------------- MODULE RunServiceProofs --------------------------
(***************************************************************************)
(* What the local deployment guarantees for any number of runs, retries    *)
(* and steps and any timing: with one consumer no assumption on leases is  *)
(* needed, because only the consumer itself could take its run away, and   *)
(* it does not scan the table while it executes.                           *)
(***************************************************************************)
EXTENDS RunService, RunOrchestrationProofs

LEMMA ServiceStepIsStep == [ServiceNext]_serviceVars => [Next]_vars
<1> SUFFICES ASSUME [ServiceNext]_serviceVars PROVE [Next]_vars
  OBVIOUS
<1>1. CASE StartUp \/ ShutDownReturns \/ UNCHANGED serviceVars
  BY <1>1 DEF StartUp, ShutDownReturns, serviceVars
<1>2. CASE StartUpFails \/ ShutDown
  BY <1>2 DEF StartUpFails, ShutDown, Next
<1>3. CASE Requests \/ LeasesEnd
  BY <1>3 DEF Requests, LeasesEnd, Next
<1>4. CASE \E w \in Workers : \/ TaskStep(Consumer(w)) \/ TaskStep(Heartbeat(w))
                              \/ TaskStep(WaitTimesOut(w))
  BY <1>4 DEF TaskStep, Next
<1> QED
  BY <1>1, <1>2, <1>3, <1>4 DEF ServiceNext

\* The service is the orchestration, started late and stopped: what is proved of
\* Spec holds under the lifespan.
THEOREM ServiceImplementsOrchestration == ServiceSpec => Spec
<1>1. ServiceInit => Init
  BY DEF ServiceInit
<1> QED
  BY <1>1, ServiceStepIsStep, PTL DEF ServiceSpec, Spec

-----------------------------------------------------------------------------
(* One consumer has its run for itself.                                    *)

Holds(w) ==
  pc[w] = "executing" =>
    runs[job[w]].status = "RUNNING" /\ runs[job[w]].claimed_worker = w

LEMMA SoleConsumer ==
  ASSUME NEW w \in Workers, Workers = {w}, TypeOK, Holds(w), Consumer(w)
  PROVE  Holds(w)'
<1>1. StoreOK /\ ControlOK
  BY TypeOKParts
<1>2. ASSUME ClaimAndGoOn(w)
      PROVE  Holds(w)'
  <2>1. CASE ClaimNothing(w) \/ \E r \in DOMAIN runs : AbandonClaim(w, r)
    BY <1>1, <2>1 DEF ClaimNothing, AbandonClaim, Holds, ControlOK
  <2>2. ASSUME NEW r \in DOMAIN runs, StartRun(w, r)
        PROVE  Holds(w)'
    <3>1. job'[w] = r
      BY <1>1, <2>2 DEF StartRun, ControlOK
    <3> QED
      BY <1>1, <2>2, <3>1, ClaimGrantsLease DEF StartRun, Holds
  <2> QED
    BY <1>2, <2>1, <2>2 DEF ClaimAndGoOn
<1>3. CASE Resume(w) \/ LoopClaimsAtOnce(w)
  BY <1>2, <1>3 DEF Resume, LoopClaimsAtOnce
<1>4. CASE NextStep(w)
  BY <1>4 DEF NextStep, Holds, store
<1>5. CASE ExecutorReturns(w) \/ ExecutorRaises(w)
  <2>1. LeaveExecution(w, "releasing") \/ LeaveExecution(w, "raising")
    BY <1>5 DEF ExecutorReturns, ExecutorRaises, Settle
  <2> QED
    BY <1>1, <2>1 DEF LeaveExecution, Holds, ControlOK
<1>6. CASE LoopEnds(w) \/ LoopWaits(w) \/ LoopDies(w) \/ Unwind(w)
  BY <1>1, <1>6 DEF LoopEnds, LoopWaits, LoopDies, Unwind, Holds, ControlOK
<1> QED
  BY <1>3, <1>4, <1>5, <1>6 DEF Consumer

\* A step that leaves the worker where it is and rewrites records only in their
\* lease, their retries or their cancellation flag.
LEMMA HoldsSurvives ==
  ASSUME NEW w \in Workers, TypeOK, Holds(w), job'[w] = job[w],
         pc'[w] = "executing" => pc[w] = "executing",
         \A r \in DOMAIN runs : /\ runs'[r].status = runs[r].status
                                /\ runs'[r].claimed_worker = runs[r].claimed_worker
  PROVE  Holds(w)'
  BY DEF Holds, TypeOK, WorkerOK

\* A write of one record that keeps status and worker.
LEMMA KeepsClaim ==
  ASSUME StoreOK, NEW r \in DOMAIN runs, NEW run \in RunRecord, Update(r, run),
         run.status = runs[r].status, run.claimed_worker = runs[r].claimed_worker
  PROVE  \A q \in DOMAIN runs : /\ runs'[q].status = runs[q].status
                                /\ runs'[q].claimed_worker = runs[q].claimed_worker
  BY UpdateFacts DEF StoreOK

LEMMA SoleNext ==
  ASSUME NEW w \in Workers, Workers = {w}, ~LegacyCancel,
         TypeOK, Holds(w), [Next]_vars
  PROVE  Holds(w)'
<1>1. StoreOK /\ ControlOK
  BY TypeOKParts
<1> DEFINE Same == \A r \in DOMAIN runs :
                     /\ runs'[r].status = runs[r].status
                     /\ runs'[r].claimed_worker = runs[r].claimed_worker
           Stays == job'[w] = job[w] /\ (pc'[w] = "executing" => pc[w] = "executing")
<1>2. CASE CreateRun
  <2>1. FreshRun("ENQUEUED") \in RunRecord
    BY FreshRunType DEF RestingStatuses
  <2>2. \A r \in DOMAIN runs : runs'[r] = runs[r]
    BY <1>1, <1>2, <2>1, AppendProperties, StoreDomains
       DEF CreateRun, CreateEnqueued, StoreOK
  <2>3. Stays
    BY <1>1, <1>2 DEF CreateRun, Notify, Woken, execution, ControlOK
  <2> QED
    BY <2>2, <2>3, HoldsSurvives
<1>3. ASSUME NEW r \in DOMAIN runs, CancelRun(r)
      PROVE  Holds(w)'
  <2>1. Update(r, WithCancelRequested(runs[r])) /\ runs[r] \in RunRecord
    BY <1>1, <1>3, StoreDomains DEF CancelRun, RequestCancellation
  <2>2. /\ WithCancelRequested(runs[r]) \in RunRecord
        /\ WithCancelRequested(runs[r]).status = runs[r].status
        /\ WithCancelRequested(runs[r]).claimed_worker = runs[r].claimed_worker
    BY <2>1, RewrittenTypes DEF WithCancelRequested, RunRecord
  <2>3. Stays
    BY <1>1, <1>3 DEF CancelRun, Notify, Woken, execution, ControlOK
  <2> QED
    BY <1>1, <2>1, <2>2, <2>3, KeepsClaim, HoldsSurvives
<1>4. CASE Consumer(w)
  BY <1>4, SoleConsumer
<1>5. CASE HeartbeatRenews(w)
  <2>1. job[w] \in DOMAIN runs /\ runs[job[w]] \in RunRecord
    BY <1>1, <1>5, StoreDomains DEF HeartbeatRenews, ControlOK, WorkerOK
  <2>2. /\ Renew(runs[job[w]]) \in RunRecord
        /\ Renew(runs[job[w]]).status = runs[job[w]].status
        /\ Renew(runs[job[w]]).claimed_worker = runs[job[w]].claimed_worker
    BY <2>1, RewrittenTypes DEF Renew, RunRecord
  <2>3. Stays
    BY <1>5 DEF HeartbeatRenews
  <2>4. Update(job[w], Renew(runs[job[w]]))
    BY <1>5 DEF HeartbeatRenews
  <2> QED
    BY <1>1, <2>1, <2>2, <2>3, <2>4, KeepsClaim, HoldsSurvives
<1>6. CASE HeartbeatLosesLease(w) \/ HeartbeatFindsNotRunning(w)
  BY <1>6 DEF HeartbeatLosesLease, HeartbeatFindsNotRunning, Holds, store
<1>7. CASE WaitTimesOut(w) \/ ShutdownExecution(w) \/ InfraShutdown(w)
  <2>1. runs' = runs /\ job' = job
    BY <1>7 DEF WaitTimesOut, ShutdownExecution, InfraShutdown, StopExecution,
                store, execution
  <2>2. pc'[w] = "executing" => pc[w] = "executing"
    BY <1>1, <1>7 DEF WaitTimesOut, ShutdownExecution, InfraShutdown, Woken, ControlOK
  <2> QED
    BY <2>1, <2>2 DEF Holds
<1>8. ASSUME NEW r \in DOMAIN runs, LeaseExpires(r)
      PROVE  Holds(w)'
  <2> DEFINE run == [runs[r] EXCEPT !.lease = "expired"]
  <2>1. /\ Update(r, run)
        /\ runs[r] \in RunRecord
    BY <1>1, <1>8, StoreDomains DEF LeaseExpires, LeasePasses
  <2>2. /\ run \in RunRecord /\ run.status = runs[r].status
        /\ run.claimed_worker = runs[r].claimed_worker
    BY <2>1 DEF RunRecord, Leases
  <2>3. Stays
    BY <1>8 DEF LeaseExpires, LeasePasses, execution
  <2> HIDE DEF run
  <2> QED
    BY <1>1, <2>1, <2>2, <2>3, KeepsClaim, HoldsSurvives
<1>9. CASE UNCHANGED vars
  BY <1>9 DEF vars, Holds
<1>10. ~\E r \in DOMAIN runs : MarkCancelled(r)
  BY DEF MarkCancelled
<1> QED
  BY <1>2, <1>3, <1>4, <1>5, <1>6, <1>7, <1>8, <1>9, <1>10 DEF Next, Clients, Heartbeat

LEMMA SoleInvariant ==
  ASSUME ~LegacyCancel
  PROVE  ServiceSpec => [](TypeOK /\ ExecutesOnlyOwnRun)
<1>1. Init => ExecutesOnlyOwnRun
  BY DEF Init, ExecutesOnlyOwnRun
<1>2. TypeOK /\ ExecutesOnlyOwnRun /\ [Next]_vars => ExecutesOnlyOwnRun'
  <2>1. PICK w \in Workers : Workers = {w}
    BY OneConsumer
  <2> QED
    BY <2>1, SoleNext DEF ExecutesOnlyOwnRun, Holds
<1> QED
  BY <1>1, <1>2, InitOK, NextOK, ServiceImplementsOrchestration, PTL DEF Spec

\* With one consumer, however late its heartbeats are and however long its steps
\* take, it only executes a run that the store says it holds.
THEOREM SoleConsumerIsExclusive ==
  ASSUME ~LegacyCancel
  PROVE  ServiceSpec => []ExecutesOnlyOwnRun
  BY SoleInvariant, PTL

\* Under the same assumption the loop of the local deployment never dies of a
\* ValueError of the policy, so that the shutdown has no exception to raise again.
THEOREM SoleLoopNeverDies ==
  ASSUME ~LegacyCancel
  PROVE  ServiceSpec => []LoopsSurvive
<1>1. Init => LoopsSurvive
  BY DEF Init, LoopsSurvive
<1>2. TypeOK /\ ExecutesOnlyOwnRun /\ LoopsSurvive /\ [Next]_vars => LoopsSurvive'
  BY SettledLoopsSurvive
<1> QED
  BY <1>1, <1>2, SoleInvariant, ServiceImplementsOrchestration, PTL DEF Spec

-----------------------------------------------------------------------------
(* Shutdown.                                                               *)

StoppedInv == phase = "stopped" => \A w \in Workers : pc[w] = "ended"

LEMMA StoppedNext ==
  ASSUME TypeOK, StoppedInv, [ServiceNext]_serviceVars
  PROVE  /\ StoppedInv'
         /\ phase = "stopped" =>
              /\ events' = events
              /\ \A r \in DOMAIN runs :
                   /\ runs'[r].status = runs[r].status
                   /\ runs'[r].claimed_worker = runs[r].claimed_worker
<1>1. StoreOK /\ ControlOK
  BY TypeOKParts
<1>2. CASE StartUp \/ StartUpFails \/ ShutDown \/ Requests
  BY <1>2 DEF StartUp, StartUpFails, ShutDown, Requests, StoppedInv
<1>3. CASE ShutDownReturns
  <2>1. PICK w \in Workers : Workers = {w}
    BY OneConsumer
  <2>2. phase'= "stopped" => pc[w] = "ended"
    BY <1>3, <2>1 DEF ShutDownReturns
  <2> QED
    BY <1>3, <2>1, <2>2 DEF ShutDownReturns, StoppedInv, vars
<1>4. ASSUME NEW w \in Workers,
             \/ TaskStep(Consumer(w)) \/ TaskStep(Heartbeat(w))
             \/ TaskStep(WaitTimesOut(w))
      PROVE  phase' = phase /\ phase # "stopped"
  <2>1. phase' = phase /\ (Consumer(w) \/ Heartbeat(w) \/ WaitTimesOut(w))
    BY <1>4 DEF TaskStep
  <2>2. pc[w] # "ended"
    <3>1. CASE Consumer(w)
      BY <3>1 DEF Consumer, Resume, NextStep, ExecutorReturns, ExecutorRaises,
                  LoopEnds, LoopWaits, LoopClaimsAtOnce, LoopDies, Unwind
    <3>2. CASE Heartbeat(w)
      <4>1. heartbeat[w] = "beating"
        BY <3>2 DEF Heartbeat, HeartbeatRenews, HeartbeatLosesLease,
                    HeartbeatFindsNotRunning
      <4> QED
        BY <1>1, <4>1 DEF ControlOK, WorkerOK
    <3>3. CASE WaitTimesOut(w)
      BY <3>3 DEF WaitTimesOut
    <3> QED
      BY <2>1, <3>1, <3>2, <3>3
  <2> QED
    BY <2>1, <2>2 DEF StoppedInv
<1>5. CASE LeasesEnd
  <2>1. PICK r \in DOMAIN runs : LeaseExpires(r)
    BY <1>5 DEF LeasesEnd
  <2> DEFINE run == [runs[r] EXCEPT !.lease = "expired"]
  <2>2. Update(r, run) /\ runs[r] \in RunRecord /\ events' = events /\ pc' = pc
    BY <1>1, <2>1, StoreDomains DEF LeaseExpires, LeasePasses
  <2>3. /\ run \in RunRecord /\ run.status = runs[r].status
        /\ run.claimed_worker = runs[r].claimed_worker
    BY <2>2 DEF RunRecord, Leases
  <2> HIDE DEF run
  <2>4. phase' = phase
    BY <1>5 DEF LeasesEnd
  <2> QED
    BY <1>1, <2>2, <2>3, <2>4, KeepsClaim DEF StoppedInv
<1>6. CASE UNCHANGED serviceVars
  BY <1>6 DEF serviceVars, vars, StoppedInv
<1> QED
  BY <1>2, <1>3, <1>4, <1>5, <1>6 DEF ServiceNext, StoppedInv

\* Once the shutdown returned no step writes to a log or moves a run, for any number
\* of runs and wherever the shutdown caught the loop.
THEOREM NothingOutlivesShutdown == ServiceSpec => QuietAfterStop
<1>1. ServiceInit => StoppedInv
  BY DEF ServiceInit, StoppedInv
<1>2. ServiceSpec => []TypeOK
  BY ServiceImplementsOrchestration, TypeCorrect, PTL
<1>3. TypeOK /\ StoppedInv /\ [ServiceNext]_serviceVars => StoppedInv'
  BY StoppedNext
<1>4. TypeOK /\ StoppedInv /\ [ServiceNext]_serviceVars =>
        [phase = "stopped" =>
           /\ events' = events
           /\ \A r \in DOMAIN runs :
                /\ runs'[r].status = runs[r].status
                /\ runs'[r].claimed_worker = runs[r].claimed_worker]_serviceVars
  BY StoppedNext
<1> QED
  BY <1>1, <1>2, <1>3, <1>4, PTL DEF ServiceSpec, QuietAfterStop

=============================================================================
