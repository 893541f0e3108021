----------------------------- MODULE RunService -----------------------------
(***************************************************************************)
(* The life of the process around the orchestration: the FastAPI lifespan  *)
(* applies the registrars, sets the infrastructure up (which creates the   *)
(* task of the consumer loop), serves requests, and shuts the              *)
(* infrastructure down.  Requests are only served between the two.         *)
(*                                                                         *)
(* LocalDevInfrastructureSetup has one consumer.                           *)
(***************************************************************************)
EXTENDS RunOrchestration

ASSUME OneConsumer == \E w \in Workers : Workers = {w}

VARIABLE phase      \* where di_lifespan is

(* starting   before infra_setup.setup                                     *)
(* serving    suspended in its yield                                       *)
(* stopping   in infra_setup.shutdown, waiting for the task                *)
(* stopped    shutdown returned                                            *)
(* failed     left with an exception                                       *)
Phases == {"starting", "serving", "stopping", "stopped", "failed"}

serviceVars == <<vars, phase>>

\* The task does not exist before setup created it.
ServiceInit == Init /\ phase = "starting"

-----------------------------------------------------------------------------

StartUp ==
  /\ phase = "starting"
  /\ phase' = "serving"
  /\ UNCHANGED vars

\* A registrar raises: the finally clause shuts the consumer down; there is no
\* task to cancel.
StartUpFails ==
  /\ phase = "starting"
  /\ \E w \in Workers : ShutdownExecution(w)
  /\ phase' = "failed"

\* setup did not keep the task it created: there is nothing to cancel or wait for.
ShutDown_TaskForgotten ==
  /\ phase = "serving"
  /\ \E w \in Workers : ShutdownExecution(w)
  /\ phase' = "stopped"

\* Until the task ends, shutdown is suspended in its await.
ShutDown ==
  /\ phase = "serving"
  /\ \E w \in Workers : InfraShutdown(w)
  /\ phase' = "stopping"

\* The await returns when the loop ended, CancelledError included; an exception
\* the loop died of is raised again.
ShutDownReturns ==
  /\ phase = "stopping"
  /\ \E w \in Workers :
       /\ pc[w] \in {"ended", "died"}
       /\ phase' = IF pc[w] = "ended" THEN "stopped" ELSE "failed"
  /\ UNCHANGED vars

\* The steps of the tasks, once there is one.
TaskExists == phase \in {"serving", "stopping", "stopped"}

TaskStep(A) == TaskExists /\ A /\ UNCHANGED phase

Requests == phase = "serving" /\ Clients /\ UNCHANGED phase

LeasesEnd == (\E r \in DOMAIN runs : LeaseExpires(r)) /\ UNCHANGED phase

ServiceNext ==
  \/ StartUp \/ StartUpFails \/ ShutDown \/ ShutDownReturns
  \/ Requests
  \/ \E w \in Workers : \/ TaskStep(Consumer(w))
                        \/ TaskStep(Heartbeat(w))
                        \/ TaskStep(WaitTimesOut(w))
  \/ LeasesEnd

ServiceSpec == ServiceInit /\ [][ServiceNext]_serviceVars

(* The event loop runs the tasks that are ready and its timers fire.  The  *)
(* server need not be started or stopped, and no request need arrive.      *)
ServiceFairness ==
  /\ WF_serviceVars(ShutDownReturns)
  /\ \A w \in Workers : /\ WF_serviceVars(TaskStep(Consumer(w)))
                        /\ WF_serviceVars(TaskStep(Heartbeat(w)))
                        /\ WF_serviceVars(TaskStep(WaitTimesOut(w)))

FairServiceSpec == ServiceSpec /\ ServiceFairness

-----------------------------------------------------------------------------
(* Properties.                                                             *)

\* As long as the service is up it settles every run it accepted: neither the one
\* event for many runs, nor a lease that ran out during an execution, nor a failing
\* executor leaves a run behind.
ServedRunsSettle ==
  \A r \in 1..MaxRuns :
    r \in DOMAIN runs ~> Settled(r) \/ phase \in {"stopping", "stopped"}

\* shutdown waits until the worker has stopped: when it returned, no execution and
\* no heartbeat that outlived it moves a run or writes to a log.
QuietAfterStop ==
  [][phase = "stopped" =>
       /\ events' = events
       /\ \A r \in DOMAIN runs : /\ runs'[r].status = runs[r].status
                                 /\ runs'[r].claimed_worker = runs[r].claimed_worker
    ]_serviceVars

\* The lifespan ends, and ends cleanly, wherever the loop is when the shutdown
\* begins; also where the CancelledError is swallowed, because __aexit__ waits for
\* the heartbeat task, and where the loop has just claimed a run.
LifespanEnds == phase = "stopping" ~> phase = "stopped"

=============================================================================
