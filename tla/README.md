# Verification of the agent run system

This directory models the program under `src/llm_agent/`: a FastAPI service that
accepts *agent runs*, and an in-process worker that executes them. The models are
written in TLA+, checked with TLC on small instances, and the theorems are proved
with TLAPS for every value of the constants.

## 1. Inventory

Paths are relative to `src/llm_agent/`.

| Component | State it keeps | Operations | Hard behaviours |
| --- | --- | --- | --- |
| Statuses, transition policy (`contracts/domain/runs`, `llm_agent/domain/agent/runs`, `transition_policy.py`) | none | `validate` | a late write must not leave a terminal status |
| Run store, intake side (`local_runtime/run_store/intake.py`) | `_runs`: run id -> `RunStatus` (shared dict) | `create_run`, `mark_enqueued`, `request_cancellation`, `mark_cancelled` (deprecated), reads | records are rebuilt field by field; a dropped field loses a claim or an intent |
| Run store, worker side (`local_runtime/run_store/processing.py`) | the same dict, its own lock | `claim_run` (recovery of expired leases, scan), `heartbeat`, `set_succeeded`, `set_failed`, `set_cancelled` | leases that expire under a live worker; `set_*` do not check who holds the run |
| Event log (`local_runtime/event_log/in_memory.py`) | one deque per run, next sequence number | `init_run_stream`, `append`, `list(after)` | the log must tell what the table says; readers page while workers append |
| Signal queue (`local_runtime/run_signal_queue/queue.py`) | one `asyncio.Event` | `wait` (timeout, then clear), `notify` | one event for all runs and workers: notifications coalesce |
| Worker (`agent_run_worker/in_memory/*`, `domain/runs/execution_context.py`) | `_execution_allowed`, current execution context, heartbeat task | loop, `execute_run`, `heartbeat_loop`, `shutdown_execution`, executor checkpoints | cancellation, heartbeat, lease expiry and shutdown interleave with the execution |
| Orchestration service, REST routes (`services/agent/orchestrator.py`, `api/http/v1/routes/agent.py`) | none | create, get, cancel, events | replies are computed from a state that moves on |
| Infrastructure setup, lifespan (`infra_setup/local_dev.py`, `di/fastapi_lifespan.py`) | the consumer's task | `setup`, `shutdown` | cancelling a task that swallows `CancelledError` |
| Authentication pipeline (`api/http/middlewares`, `infrastructure/authentication`, `infrastructure/execution_context`) | metadata and JWKS caches, request state | extract token, discover, fetch keys, validate | awaits between cache check and fill; keys that rotate |
| Path finders, throttle route (`infrastructure/navigation/path_finders`, `throttle_steps_service.py`, `routes/throttle_steps_calculator.py`) | the population | genetic search, LLM stub, one handler | lengths and ranges through crossover, trim and mutation; timeout; every exception becomes a 400 |


### How the parts interact

Everything runs in one process on one asyncio event loop. The REST handlers and the
consumer tasks share two dictionaries (the run table and the event log) and one
`asyncio.Event` (the signal queue); nothing else passes between them.

    client --HTTP--> routes/agent.py --> orchestrator.py --> intake store --+
                                            | notify()                      |
                                            v                      runs, events (dicts)
                                       signal queue                         |
                                            | wait(timeout)                 |
                                            v                               |
              consumer loop: claim_run, execute_run, set_* --> processing store
                   |   heartbeat task (run_lease.py) ---------^
                   +-- executor (checkpoints on the execution context)

* *Calls*: routes call the service, the service the intake store and `notify`.
* *Shared state*: intake and processing store hold the same dict under two different
  locks. That is harmless because no method suspends while it holds its lock.
* *Callbacks*: the heartbeat task cancels the execution context of the run it keeps
  alive; `shutdown_execution` cancels the same context from the outside.
* *Time*: the wait for a signal times out after 5 s; a lease lasts 30 s and is
  renewed every 5 s; an expired lease is noticed by the next `claim_run` of any
  worker, not by a timer.

The middlewares are independent of the runs: they only decide which requests reach
the routes. The genetic search is independent of both, except that it runs
synchronously inside an `async` handler and so stalls the event loop.

### What is hard here

1. Cancellation, heartbeat, lease expiry, recovery and the write of the outcome
   interleave, and `set_succeeded`, `set_failed` and `set_cancelled` have no fencing:
   they never compare the caller with `claimed_worker_id`.
2. One event stands for all runs and all workers, so notifications coalesce.
3. A shutdown uses the channel of a client's cancellation.
4. Every method of the stores rebuilds a frozen record field by field.
5. A client polls, pages and cancels between any two steps of the workers.
6. The authentication reads a cache, awaits a fetch, and fills the cache afterwards.

`PROJECT.json` lists each hazard at its line with the properties that would notice it.

## 2. Modules

| Module | Models | State |
| --- | --- | --- |
| `RunTransitions` | `RunStatusCode`, `DEFAULT_TRANSITION_RULES`, `RunTransitionPolicy.validate` | none |
| `RunStore` | what each method of the two stores does to a run, or to the table, and to its log | `runs`, `events` |
| `RunOrchestration` | the steps of the handlers, consumers, heartbeat tasks, shutdown and clock; extends `RunStore` | `signalled`, `pc`, `job`, `step`, `ctxCancelled`, `heartbeat`, `allowed` |
| `RunProjection` | the log as a description of the table (`LogTellsRun`) | none |
| `RunLifecycle` | abstract specification: what a client may rely on, without workers | `phase`, `retries`, `stopping` |
| `RunApi` | the four agent routes and what their client was told; extends `RunOrchestration` | `view` |
| `RunService` | the lifespan around the orchestration: registrars, `setup`, serving, `shutdown`; extends `RunOrchestration` | `phase` |
| `TimedOrchestration` | the orchestration on the clock: a timer for every claim, heartbeat task and step; extends `RunOrchestration` | `left`, `beat`, `asleep`, `work` |
| `LeaseTiming` | one lease scope in seconds: heartbeats, steps, the lease, the other consumer's waits | the timers, `place`, `holder`, `asked`, `told` |
| `GeneticFitness`, `GeneticSearch` | the score of a sequence; the search loop | `configuration`, `population`, `scores`, `offspring`, `best`, `generation`, `clock`, `startTime` |
| `ThrottleRoute` | a call of the throttle route: mapping, first units, the search, the answer; extends `GeneticSearch` | `request`, `answer` |
| `Authentication` | both middlewares and the validator's caches | per request `pc`, `call`, `status`, `reply`; the caches; the provider |
| `MCRunOrchestration`, `MCRunApi`, `MCThrottleRoute` | the symmetry of the workers, the game states for TLC | |
| `*Proofs` | the theorems, one module per subject | |

What composes what: `RunOrchestration` is built on the operators of `RunStore`, which
uses the rules of `RunTransitions`; `RunApi` and `RunService` each add a part of the
process around it and are shown to implement it; `TimedOrchestration` adds the clock
and is shown to implement it with both assumptions on time switched on;
`RunOrchestration` implements `RunLifecycle`; `LeaseTiming` follows one lease scope with
the numbers in the code; `ThrottleRoute` runs `GeneticSearch`.

Operators whose name has a suffix after an underscore (`Recover_NoRetryCount`,
`Trim_OneTooLong`, ...) are not part of the model. They are plausible bugs that
`PROJECT.json` puts in the place of the definition of the same name, to show that the
property concerned notices them.

### State and actions of the run system

`runs[r]` is the `RunStatus` of the r-th run created (a dict iterates in the order of
insertion). Its lease is what the clock says of `claim_expiration_unix_ts`: `none`,
`live` or `expired`. Results, error texts, timestamps and the payloads that no
decision reads are left out. `events[r]` is the run's stream, where the sequence
number of an event is its position.

`pc[w]` says where the task of worker `w` is suspended. These are the only points of
interleaving: the wait for a signal, the sleeps of the executor's steps, the sleep of
the heartbeat loop, and in `__aexit__` the await of the cancelled heartbeat task. A
lock that nobody holds does not suspend, so that "create, enqueue, notify" or "wake
up, clear, recover, scan, claim" are one step each, and `__aexit__` is two
(`releasing` and `raising` stand for its await; where the heartbeat has already ended
the code does not suspend there, so the model allows slightly more).

| Action | Code |
| --- | --- |
| `CreateRun`, `CancelRun` | `BackendRunOrchestrationService.create_run`, `cancel_run` with `notify` |
| `MarkCancelled` | the deprecated `mark_cancelled` of the intake store; it has no caller, so `LegacyCancel` switches it on |
| `WaitTimesOut`, `Resume` | `RunSignalQueue.wait`, then one turn of `consume_and_execute_loop` up to its next suspension: `ClaimNothing`, `AbandonClaim` (claimed, but no longer allowed) or `StartRun` |
| `NextStep`, `ExecutorReturns`, `ExecutorRaises` | a checkpoint of the executor; the rest of `execute_run` with the write of the outcome (`Settle`) |
| `LoopEnds`, `LoopWaits`, `LoopClaimsAtOnce`, `LoopDies` | `__aexit__` and the next turn. `wait_for` on an event that is set does not suspend, hence `LoopClaimsAtOnce` |
| `HeartbeatRenews`, `HeartbeatLosesLease`, `HeartbeatFindsNotRunning` | `_heartbeat_loop` with `heartbeat` of the processing store |
| `LeaseExpires` | the clock passes `claim_expiration_unix_ts` |
| `ShutdownExecution`, `InfraShutdown`, `Unwind` | `shutdown_execution` alone, with the cancellation of the task as the infrastructure setup does it, and the delivery of `CancelledError` |

`Settle` follows `execute_run`: if the policy refuses the outcome, the `ValueError`
makes the handler try `set_failed`, and if that is refused too, the exception leaves
the loop. Under the rules of the code the second try never succeeds after the first
one failed; the model keeps it because the code has it.

### Time

Two switches say what is assumed of time; both are off unless a run says otherwise.

* `PromptLoop`: the event loop is never stalled past the lease of a worker that
  beats. It fails when synchronous code blocks the loop for long enough; the genetic
  search blocks it, from its call to its return, for less than the initial population,
  the timeout and one generation take (`OverrunIsBounded`).
* `ShortSteps`: a step of an execution ends within the lease that is left when the
  heartbeat loop stops on a cancellation.

`TimedOrchestration` derives both from the times. Every claim has a time to its
expiration (`left`), every heartbeat task one to its next turn (`beat`), every execution
one to the end of its step (`work`), and any of the last two may be served up to
`MaxStall` late, while something else occupies the event loop. A heartbeat task takes its
first turn, in which it only goes to sleep, with the same delay. Each action is the one
of `RunOrchestration` with its timer due and the timers it sets; `LeasePasses` is
enabled by the clock, and the switches play no part. All it takes is `TimesAssumption`:
the heartbeat interval and two delays, and the longest step and one delay, fit into a
lease. Then `ImplementsOrchestration` holds with both switches on, so that they are an
abstraction of these times and not a restriction of the model. With the code's numbers
the assumption allows delays of up to 12 s. Once the expiration of a claim is passed, no
other time passes before the expiry is seen, because `has_claim_expired` compares with
the clock at once; at the bound `MaxRetries` a claim stays live, as it does in
`RunOrchestration`.

`LeaseTiming` has the real numbers for one execution: a lease of 30 s, a heartbeat every
5 s, steps of up to 8 s, a wait of 5 s, delays of `MaxStall`. It gives the bounds that
`heartbeat_loop` documents for a cancellation (`CancellationIsPrompt`) and that a run
without a worker waits before another consumer takes it (`AbandonedRunIsRecovered`).
Timers count down in both modules, so that the models are finite without a growing
clock; `since` grows only while a bound on it is claimed.

### Lifespan

`RunService` puts the phases of `di_lifespan` around `RunOrchestration`: no task exists
before `setup`; requests are served in `serving` only; `shutdown` tells the consumer to
stop, cancels its task and waits for it, and raises what the task raised. A registrar
that raises before `setup` leads through the same `finally` clause without a task. It
has one consumer, as `LocalDevInfrastructureSetup` has, and needs no assumption on
time.

### Routes

A handler does not suspend between its reads of the store, so a request is one step of
`RunApi`. `view[r]` is the memory of the client of run r: the last status, the
concatenated pages of events, whether the last page was fetched after a terminal
status, and the replies to its cancellations. The replies 404 and 400 change nothing.

### Genetic search

A random choice is any value that the call may return, and a call of `random` that
raises, on an empty range or for a sample that is too large, has no successor. The route
names the samples that raise (`SampleFails`); the deadlock check would find any other. The mutation rate becomes "any of the throttles may be replaced". Slices
copy, so that parents, children and the next population share no list. Friction is a
fraction and scores are exact integers in units of `1 / Scale`: floating-point
rounding is not modelled. `Breed` and `Keep` are the two halves of a loop body, so
that the model shows that the best sequence is looked up before the population is
replaced.

`configuration` is what the loop reads of `GeneticConfiguration` and a deployment might
set to anything: `num_generations`, `num_best_parents` and `num_worst_parents`, each of
which may be 0 or larger than the population. A population, a maximum length or a
throttle range that is empty is excluded (`SearchAssumption`, `MaxLengthAssumption`).
`clock` is the time since the call. The initial population takes its time (up to
`MaxSetup`) before `start_time` is read, and each generation takes up to `MaxDuration`.
The timeout counts from `startTime` and is looked at after a generation, so that it
bounds neither the first nor the last; the rest of the handler, which is linear in the
request and in the result, takes no time.

The route adds what surrounds the search, and what raises there and becomes a 400
(`Raises`): a game state without a first unit; first units so far apart that squaring
their distance overflows (`coordinate.py:10`); a generation whose scores divide by a
mass of zero, or whose samples are too large (`random.sample` of the population for the
random parents, or of fewer than two parents for a pair); and a result without a
sequence. `AnswerFitsRequest` says that a 400 is given to nothing else, and a 200 to none
of these. The handler does not suspend, so that one call is a behaviour of its own.

A unit is its coordinate and whether it has a mass; speed, mass, friction and distance
are the constants of `GeneticFitness`. Coordinates are finite, and which pairs overflow
is the constant `TooFar`: two places may also be so far apart that their difference is
already infinite, which raises nothing, and such a pair is not in `TooFar`. The floats of
a score do not raise when they grow too large either. How the goals become JSON is left
out.

### Authentication

A step is what a request does between two awaits. A token is its key and a defect:
`listed` defects raise an exception that `authenticate` turns into a 401, `unlisted`
ones (such as a wrong signature, or a missing `sub`, which `parse_keycloak_claims` reads
unguarded) reach the middleware and become a 500. They are met after the key was looked
up, so that an unknown key is a 401 whatever else is wrong; only a token without a usable
algorithm (`no algorithm`) is a 500 before that. The content of the metadata is constant. A fetch is
two-phase (the provider answers, the answer arrives), so that an older answer can
overtake a newer one. `constant` and `ever` are history variables of the provider: the
keys it has always, and has ever, published. The identity provider itself is outside
this repository and modelled only by what it may answer.

## 3. Runs

| Run | Question | Bounds | Result |
| --- | --- | --- | --- |
| `any_timing` | What holds whatever the timing? | 2 workers, 2 runs, 1 retry, 2 steps, failing executors, shutdowns of both | the table agrees with its log, terminal is final, no success and no restart after a cancellation request, stale executions are matched by counted attempts, a loop dies of a run that was retried only, and the lifecycle is implemented; 132k states |
| `on_time` | Is execution exclusive and does everything end, if heartbeats and steps are on time? | 2 workers, one of which may be shut down, 2 runs, 2 retries | exclusive; no loop dies; every run settles; a stopped loop ends; 5k states |
| `service` | Does the local deployment serve, and stop, without any assumption on time? | 1 worker, 3 runs, 1 retry, failing executors, any start and shutdown | exclusive; the loop survives; accepted runs settle while it serves; the lifespan ends and nothing moves afterwards |
| `on_the_clock` | Do exclusive execution and the survival of the loops follow from times alone? | 2 workers, one of which may be shut down, 2 runs, 1 retry, 2 steps; lease 3, heartbeat 1, steps of 0 to 2, delays of up to 1 | yes, and the orchestration with both switches is implemented; time never comes to a stop; 124k states |
| `lease_timing` | Are the numbers in the code right for each other? | 30, 5, 5, 5 and 8 as in the code, delays of up to 1 s, any cancellation and request | the lease covers the execution, a request is obeyed within 16 s, an abandoned run is taken within 37 s; 67k states |
| `api` | Does what a client was told stay true? | 2 workers, 1 run, any timing, also with callers of the deprecated `mark_cancelled` | pages form a prefix, the first terminal reply is the end, replies to cancellations hold |
| `throttle_route` | Are populations legal, is the result its own, does the answer fit the request? | 2 individuals of up to 2 throttles from {0, 1, 2}; 5 configurations with 0 to 2 generations, 0 to 3 best and random parents; timeout 2, initial population of 0 to 1, generations of 0 to 2; 5 game states | holds, without deadlock; 1.58M states |
| `authentication` | Are verdicts right under rotation and failing fetches? | 2 requests with any token, 2 keys | holds; every request is answered; once keys are cached nothing waits for the provider; 558k states |
| `shutdown_cancels`, `late_cancel_kills_loop`, `burst_sleeps`, `health_token` | a promise of a comment or docstring | as small as the counterexample allows | violated, see section 5 |

Why the bounds are enough:

* Two workers are the smallest number where a lease can change hands, and the store
  treats all workers that are not the holder alike. They differ in nothing but their
  id, hence the symmetry; it is not used in runs with liveness properties.
* Two runs are the smallest number where a scan passes one run to reach another, and
  where two notifications coalesce. `api` needs only one, since a client's view
  concerns its own run; the theorem behind it has no such bound. `service` has three, so that a
  run can wait while another is executed and a third is cancelled.
* Two steps give an execution a checkpoint at its start and one between steps (the two
  executors of the code have one step and five); a third would repeat the second.
* `MaxRetries` (1 or 2) caps a counter that the code leaves unbounded: the lease of a
  run that reached it does not expire. One retry gives two holders, two give a third claim by
  the first holder. For `EveryRunSettles` the cap has a meaning: it excludes a run
  that loses its lease for ever, which no fairness of the code rules out.
* `MaxRuns` bounds the runs created.
* `Timeout`, `MaxSetup` and `MaxDuration` are such that the timeout falls before, on and
  after the end of a generation, and that the initial population takes time or none. Of
  the game states one can be answered, with further units that must not matter; the
  others lack a player, an enemy, or a mass, or are too far from their target. Of the
  configurations two can breed, the second with more best parents than there are
  individuals; the others have no generation, one parent, or more random parents than
  individuals.
* `MaxStall = 1` lets every timer be late; the proofs hold for any delay for which the
  lease is long enough. The times of `on_the_clock` leave nothing to spare: the heartbeat
  interval and two delays, and the longest step and one delay, are each exactly a lease.
* Deadlock is checked for the throttle route, where it is a call of `random` that
  raises although no guard of the route expects it, and for `TimedOrchestration`, where it would be a moment from which neither time
  nor a task can go on: the rule that nothing is served later than `MaxStall` would then
  hold by excluding behaviours. In the other models all clients may
  have stopped asking while every worker was shut down, or every request was answered,
  or the execution that `LeaseTiming` follows has ended.

Where a bound limits the argument, the theorems of section 4 do without it.

### Fairness

* `FairSpec`: weak fairness of each consumer's steps, of each heartbeat task and of
  each wait's timeout, because asyncio runs every task that is ready and fires every
  timer; and of the expiry of a lease that nobody renews, because time passes. Nothing
  is assumed of clients, operators, shutdowns, or of which worker gets a run.
* `Authentication`: weak fairness of each request's steps, because `httpx` ends each
  GET within its default timeout of 5 s. Arrivals and rotations are not fair.
* `FairServiceSpec`: as `FairSpec`, for the tasks once they exist, and of the return of
  `shutdown`; leases need not expire, since one worker does not depend on that. Neither
  the server's start nor its stop is fair.
* The throttle route, `LeaseTiming` and `TimedOrchestration` are checked for safety; the
  bounds on time are safety properties because time itself is a variable.

### Mutants

Every property of a passing run has a mutant in `PROJECT.json`: one definition of the
model changed as a plausible bug would change the code. TLC then finds the property
violated, which shows that the property depends on that piece of code.

## 4. Proofs

| Theorem | Module | Assumes |
| --- | --- | --- |
| `TypeCorrect`, `CancelRequestPreventsSuccess`, `TerminalRunsAreFinal`, `CancelRequestPreventsRestart` | `RunOrchestrationProofs` | the constants' types |
| `OneStaleExecutionPerRetry`, `LoopsDieOfLostClaims` | `LeaseExclusionProofs` | finitely many workers, `~LegacyCancel`; nothing of time |
| `ExecutionIsExclusive`, `LoopsNeverDie` | `LeaseExclusionProofs` | `PromptLoop`, `ShortSteps`, `~LegacyCancel` |
| `TimersInRangeOnTheClock`, `ClaimsOutlast`, `TimedImplements`, `ExclusiveOnTheClock`, `LoopsSurviveOnTheClock` | `LeaseExclusionProofs` | `~LegacyCancel`, `TimesAssumption`; not the switches |
| `OrchestrationImplementsLifecycle`, `LogIsComplete` | `RunAbstractionProofs` | `~LegacyCancel` |
| `ApiImplementsOrchestration`, `ClientsSeeAPrefix`, `TerminalRepliesAreFinal`, `CancelRepliesAreTrue` | `RunApiProofs` | the constants' types |
| `ServiceImplementsOrchestration`, `NothingOutlivesShutdown` | `RunServiceProofs` | one consumer |
| `SoleConsumerIsExclusive`, `SoleLoopNeverDies` | `RunServiceProofs` | one consumer, `~LegacyCancel` |
| `TimersInRange`, `LeaseOutlivesBeatAndStep`, `RequestsAreObeyedInTime`, `AbandonedRunsAreTakenOver` | `LeaseTimingProofs` | `LeaseIsLongEnough` |
| `PopulationsAreLegal`, `ResultIsConsistent`, `OverrunBound`, `RouteRunsTheSearch`, `AnswersAreFaithful` | `GeneticSearchProofs` | the constants' types |
| `ConstantKeysWork`, `OnlyAuthenticatedAreServed`, `CachesHoldKeySets`, `ProviderIsAskedNoMore` | `AuthenticationProofs` | `NoKey \notin Keys` |

They hold for every number of workers, runs, retries, steps, individuals, generations,
requests and keys. The named assumptions are in the modules that declare the constants
(`NoWorkerAssumption`, `OrchestrationAssumption`, `OneConsumer`, `TimesAssumption` of
`TimedOrchestration` and of `LeaseTiming`, `LeaseIsLongEnough`, `MaxLengthAssumption`, `SearchAssumption`, `RequestsAssumption`,
`NoKeyAssumption`).

* **Types.** `TypeOK` is inductive. It is split into what concerns the store
  (`StoreOK`) and what concerns the workers (`ControlOK`). Lemmas on the methods of
  the store (`Scan`, `SetFinal`, `Update`, `Log`) are proved once and cited for each
  action.
* **Cancellation and finality.** Each step satisfies `StoreAdvances`: nothing is
  deleted, a new run is in the queue, and any other run is either left alone with its
  log, or was not terminal and neither succeeds against a request nor is started again
  after one (`RunStep`). The three theorems follow from that action property; with
  `TypeOK` it is inductive, although `mark_cancelled` may drop a request.
* **Exclusive execution.** `ExecutesOnlyOwnRun` is not inductive: that the store names
  the worker says nothing of the next `claim_run`, which takes a run with an expired
  lease from anyone. `LeaseInv` adds that the lease of a worker in its lease scope is
  live, and that this is so for its heartbeat task as well as for its execution. A
  scan leaves live leases alone, a claim grants one, and only the two assumptions on
  time keep the clock from ending it. `LoopsNeverDie` follows: the outcome of a run
  that is RUNNING is never refused. The argument is made for any step that does not end
  the lease of a worker in its lease scope (`SafeStep`), and used a second time on the
  clock.
* **On the clock.** `TimedInv` adds to `TimedTypeOK` and `LeaseInv` that what is left of a
  claim covers the next thing that will renew or release it (`ClaimsCovered`): before the
  first turn of the heartbeat task, a whole pause and a delay; while it beats, the
  rest of the pause and a delay; and when it has stopped because of a request, the rest
  of the step and a delay, after which the execution meets its checkpoint. Hence
  no claim of a worker in its lease scope can become overdue, every timed step is a
  `SafeStep`, and a `SafeStep` is a step of the orchestration whatever the two switches
  say.
* **Whatever the timing.** Without the assumptions `LeaseInv` fails, and a run may be
  executed by a worker that its record does not name. `StaleExecutionsAreCounted` bounds
  such executions by the number of attempts counted, and is inductive with `TypeOK` because a step
  makes a worker stale in two ways only (`StaleStep`): a claim_run takes the run back and
  counts an attempt, or a stale worker settles the run and thereby leaves, at the moment
  in which the rightful one becomes stale in its place. A worker whose outcome is
  refused twice is stale, so that the count is not zero (`LoopsDieOfLostClaims`).
* **API.** A step of the API is a step of the orchestration or a stutter, hence
  `ApiImplementsOrchestration`, through which everything proved of `Spec` holds here
  too. `ViewInv` has one part per client: its log is a prefix of the run's, and once it
  saw a terminal status, table and log stand still. It rests on the fact that logs only
  grow (`LogsGrow`) and on `TerminalRunsAreFinal`.
  `CancelRepliesAreTrue` follows from `ReplyInv`: an acknowledged request, or a refusal,
  is matched by the flag or by a terminal status, which no method drops but the
  deprecated one, and that writes CANCELLED.
* **Refinement.** Every method of the store, and the whole scan, is matched with one
  step of `RunLifecycle` through the three columns that clients see. The lemma on the
  scan (`PollView`) computes from the table which runs are lost, dropped and started.
* **Log.** `Tells` relates one record to its log. `NewEventTells` states which new events
  keep that relation for which new record; the lemma of each method cites it with the
  event it appends, and the scan appends up to two to one run.
* **Service.** A step of the service is a step of the orchestration or a stutter. With
  one worker the store names it as the holder for as long as it executes: its own
  `claim_run` is the only one, and it is not called during an execution. That replaces
  the assumptions on time. `NothingOutlivesShutdown` needs that the loop has ended
  whenever `shutdown` returned.
* **Timing.** `TimingInv` relates the timers to each other: before the first turn of the
  heartbeat task, until the next beat, and after the last one, it bounds from below what is
  left of the lease, and from above the time since the request or the abandonment.
  Each part hands over to the next when a timer fires.
* **Genetic search.** `IInv` is `TypeOK` with four parts: while the best is looked
  up, scores belong to the population that is still in place (`ScoresFit`); the best has
  its own score (`BestFits`); no time has passed at the call (`AtCall`); and the loop has
  started by `MaxSetup` and goes on only before its timeout (`InTime`), which together
  bound the clock for any `MaxSetup` and `MaxDuration`. Lemmas
  on `Trim`, `Crossover` and `Mutations` show that each maps genomes to genomes. The
  route does to the search only what the search does itself, so that it inherits `IInv`.
  `RouteInv` adds `NothingWasMissing`: a search which was begun has its units and their
  distance, and one which evaluated a generation had a mass and samples that could be
  drawn. The last of these is a matter of counting: parents as `Breed` draws them exist only where
  `SampleFails` is false (`BreedingSamples`, with the theorems on finite sets).
* **Authentication.** `IInv` adds to `TypeOK` that each key set in the cache, or on its
  way, contains `constant` and is contained in `ever`, and what is known of a request
  at each stage. Keys on their way stay between the two because `constant` only
  shrinks and `ever` only grows. `ProviderIsAskedNoMore` needs that the metadata are
  cached before any keys (`MetadataFirst`).

Only model-checked: the liveness properties `EveryRunSettles`, `ShutdownEndsLoop`,
`ServedRunsSettle`, `LifespanEnds` and `EveryRequestIsAnswered`. They rest on weak
fairness, hence on ENABLED, which is out of the prover's reach. Every invariant and every
action property of the runs is a theorem. What `Score` computes is a recursive
definition; an induction over it is out of reach as well, and the proofs use nothing of
it.

### The refinement

`ImplementsLifecycle` maps `phase` to the status, `retries` to `retry_count` and
`stopping` to the runs with `cancel_requested`. A `claim_run` becomes one abstract
`Poll`, which takes runs back, drops those that were asked to stop and starts at most
one; heartbeats, signals, leases, context cancellations and shutdowns become stutters.
It is not claimed with callers of `mark_cancelled`, which clears the flag and the
retries; neither are `LogTellsRun` and `LoopsSurvive`. It is checked in `any_timing` and
proved as `OrchestrationImplementsLifecycle`.

## 5. Where code and documentation disagree

Each is a run that TLC must find violated; `PROJECT.json` quotes the lines.

1. `shutdown_cancels`: a shutdown is documented not to mark a run as CANCELLED. A run
   that is executing when the consumer is shut down (without its task being cancelled)
   ends CANCELLED without any request, and is not retried.
2. `late_cancel_kills_loop`: a cancelled execution is documented only to log. If its
   step outlasts the lease after the heartbeat loop stopped, another worker settles the
   run, both writes of the outcome are refused, and the consumer loop dies. It cannot
   happen with one worker, or while `ShortSteps` holds.
3. `burst_sleeps`: an enqueued run is documented to wake a worker immediately. Two runs
   enqueued together set one event, and the second waits for the timeout.
4. `health_token`: health checks are documented to skip authentication. The exempted
   prefix is not where the endpoint is mounted, so that a check without a token is
   answered 500.

Noticed while modelling, without a run of their own: a shutdown wakes the loop, which
may claim one more run and leave it RUNNING until its lease expires (`AbandonClaim`; the
loop's docstring describes it); a second cancellation request for
a run that goes on is refused with the status `already_terminal`
(`routes/agent.py`; `CancelRepliesHold` states what the reply may really mean);
`select_random_parents` is documented to select the worst solutions and samples any;
the result of the genetic search may be worse than a sequence that an earlier
generation held; units too far apart are a 400 whose detail is the text of an
`OverflowError`; a missing token is answered 500 and not 401; keys rotated in later are
refused until the process restarts, and of two concurrent first fetches the older answer
may be the one that stays in the cache.

## 6. Not modelled

* The crash of the process: the store is in memory and is lost with it. A worker that
  leaves without its run (a cancelled task, an abandoned claim) is modelled.
* The LLM path finder: a stub without a caller.
* Registrars, configuration, logging, telemetry and database setup: construction and
  I/O. Of the lifespan, what it does to the workers is modelled. The production provider
  (`di/app_registrar_providers.py`) has no infrastructure registrar yet (`TODO: tbd`), so
  that `build_infra_setup` finds no `Consumer`; the models are of the wiring that the
  development registrars of the tests build.
* A lifespan that is entered again on the same application: `_execution_allowed` stays
  false after a shutdown, and nothing in the code enters it twice.
* `emit_event` of the execution context: its calls are commented out.
* Websocket messages: their token is read only after an authentication that has none
  and so cannot succeed.
* The user's name, roles and scopes, and the context variables for logging: they are
  computed from one request's own token, and asyncio keeps them per task.
* The status poller of the integration tests: client code that only reads.

## 7. Plan

Done: the run system with its API, its lifespan and its clock, the timing of a lease, the genetic
search and its route, the authentication, and the theorems of section 4. What a next
step could add:

1. A provider of registrars for production, once there is one: that the infrastructure
   container and the application's registry hand out the same store, log and queue.
2. Several consumers started and stopped by one infrastructure setup, when the code has
   one.
