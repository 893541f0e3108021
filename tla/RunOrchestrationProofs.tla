----------------------- MODULE RunOrchestrationProofs -----------------------
(***************************************************************************)
(* Theorems about RunOrchestration for any set of workers, any number of   *)
(* runs and retries, and any timing.                                       *)
(***************************************************************************)
EXTENDS RunOrchestration, SequenceTheorems, TLAPS

-----------------------------------------------------------------------------
(* What a write to the table or to the log changes.                        *)

\* Writing a record of the right type into the table keeps the table well-formed
\* and touches no other run.
LEMMA UpdateFacts ==
  ASSUME runs \in Seq(RunRecord), NEW r \in DOMAIN runs, NEW run \in RunRecord,
         Update(r, run)
  PROVE  /\ runs' \in Seq(RunRecord)
         /\ Len(runs') = Len(runs) /\ DOMAIN runs' = DOMAIN runs
         /\ \A q \in DOMAIN runs : runs'[q] = IF q = r THEN run ELSE runs[q]
<1>1. DOMAIN runs = 1..Len(runs)
  BY LenProperties
<1>2. runs' = [runs EXCEPT ![r] = run]
  BY DEF Update
<1>3. /\ runs' \in Seq(RunRecord) /\ Len(runs') = Len(runs)
      /\ \A q \in 1..Len(runs) : runs'[q] = IF q = r THEN run ELSE runs[q]
  BY <1>1, <1>2, ExceptSeq, Zenon
<1>4. DOMAIN runs' = 1..Len(runs')
  BY <1>3, LenProperties
<1> QED
  BY <1>1, <1>3, <1>4

\* Appending an event keeps the logs well-formed and touches no other log.
LEMMA LogFacts ==
  ASSUME events \in Seq(Seq(EventRecord)), NEW r \in DOMAIN events,
         NEW event \in EventRecord, Log(r, event)
  PROVE  /\ events' \in Seq(Seq(EventRecord))
         /\ Len(events') = Len(events)
         /\ \A q \in DOMAIN events : q # r => events'[q] = events[q]
<1>1. DOMAIN events = 1..Len(events)
  BY LenProperties
<1>2. events[r] \in Seq(EventRecord)
  BY <1>1, ElementOfSeq
<1>3. Append(events[r], event) \in Seq(EventRecord)
  BY <1>2
<1>4. events' = [events EXCEPT ![r] = Append(events[r], event)]
  BY DEF Log
<1>5. /\ events' \in Seq(Seq(EventRecord)) /\ Len(events') = Len(events)
      /\ \A q \in 1..Len(events) :
           events'[q] = IF q = r THEN Append(events[r], event) ELSE events[q]
  BY <1>1, <1>3, <1>4, ExceptSeq, Zenon
<1> QED
  BY <1>1, <1>5

\* A function on 1..n is a sequence of length n.
LEMMA FunctionIsSeq ==
  ASSUME NEW S, NEW n \in Nat, NEW f \in [1..n -> S]
  PROVE  f \in Seq(S) /\ Len(f) = n
<1>1. f \in Seq(S)
  BY SeqDef
<1>2. DOMAIN f = 1..Len(f) /\ Len(f) \in Nat /\ DOMAIN f = 1..n
  BY <1>1, LenProperties
<1> QED
  BY <1>1, <1>2

-----------------------------------------------------------------------------
(* What the store methods make of one run.                                 *)

LEMMA RewrittenTypes ==
  ASSUME NEW run \in RunRecord
  PROVE  /\ Renew(run) \in RunRecord
         /\ WithCancelRequested(run) \in RunRecord
         /\ \A s \in RestingStatuses : MoveTo(run, s) \in RunRecord
  BY DEF Renew, WithCancelRequested, MoveTo, RunRecord, Leases

LEMMA RecordTypes ==
  ASSUME NEW run \in RunRecord, NEW w \in Workers
  PROVE  /\ Recover(run, w) \in RunRecord
         /\ Recover(run, w).status = "ENQUEUED"
         /\ Recover(run, w).cancel_requested = run.cancel_requested
         /\ Claim(run, w) \in RunRecord
<1> DEFINE passing == [status: Statuses, claimed_worker: MaybeWorker,
                       lease: Leases, retry_count: Nat, cancel_requested: BOOLEAN]
           timedOut == [run EXCEPT !.status = "TIMED_OUT", !.claimed_worker = w]
           retrying == [timedOut EXCEPT !.status = "RETRYING",
                                        !.retry_count = run.retry_count + 1]
<1>1. timedOut \in passing /\ timedOut.cancel_requested = run.cancel_requested
  BY DEF RunRecord, Statuses, MaybeWorker
<1>2. run.retry_count + 1 \in Nat
  BY DEF RunRecord
<1> HIDE DEF timedOut
<1>3. retrying \in passing /\ retrying.cancel_requested = run.cancel_requested
  BY <1>1, <1>2 DEF Statuses
<1> HIDE DEF retrying
<1>4. /\ [retrying EXCEPT !.status = "ENQUEUED"] \in RunRecord
      /\ [retrying EXCEPT !.status = "ENQUEUED"].status = "ENQUEUED"
      /\ [retrying EXCEPT !.status = "ENQUEUED"].cancel_requested
           = run.cancel_requested
  BY <1>3 DEF RunRecord, RestingStatuses
<1>5. Recover(run, w) = [retrying EXCEPT !.status = "ENQUEUED"]
  BY DEF Recover, retrying, timedOut
<1>6. Claim(run, w) \in RunRecord
  BY DEF Claim, RunRecord, RestingStatuses, MaybeWorker, Leases
<1> QED
  BY <1>4, <1>5, <1>6

LEMMA FreshRunType ==
  ASSUME NEW s \in RestingStatuses
  PROVE  FreshRun(s) \in RunRecord
  BY DEF RunRecord, FreshRun, RestingStatuses, MaybeWorker, Leases

LEMMA EventType ==
  /\ \A type \in EventTypes : Event(type) \in EventRecord
  /\ \A type \in EventTypes, w \in Workers : EventOf(type, w) \in EventRecord
  /\ \A s \in TerminalStatuses : FinalEvent(s) \in EventRecord
  BY DEF Event, EventOf, EventRecord, EventTypes, MaybeWorker, FinalEvent,
         TerminalStatuses

\* The store as every step finds it.
StoreOK ==
  /\ runs \in Seq(RunRecord)
  /\ events \in Seq(Seq(EventRecord))
  /\ Len(events) = Len(runs)

LEMMA StoreDomains ==
  ASSUME StoreOK
  PROVE  /\ Len(runs) \in Nat
         /\ DOMAIN runs = 1..Len(runs)
         /\ DOMAIN events = DOMAIN runs
         /\ \A r \in DOMAIN runs : runs[r] \in RunRecord
         /\ \A r \in DOMAIN events : events[r] \in Seq(EventRecord)
  BY LenProperties, ElementOfSeq DEF StoreOK

LEMMA AfterRecoveryType ==
  ASSUME StoreOK, NEW r \in DOMAIN runs, NEW w \in Workers
  PROVE  AfterRecovery(r, w) \in RunRecord
  BY StoreDomains, RecordTypes DEF AfterRecovery

\* A scan keeps the store well-formed and says what becomes of every run.
LEMMA ScanFacts ==
  ASSUME StoreOK, NEW w \in Workers, NEW last \in Nat, NEW won,
         Scan(w, last, won)
  PROVE  /\ StoreOK'
         /\ Len(runs') = Len(runs)
         /\ \A r \in DOMAIN runs :
              runs'[r] = IF r \in won THEN Claim(AfterRecovery(r, w), w)
                         ELSE IF r <= last /\ Cancellable(r, w)
                              THEN MoveTo(AfterRecovery(r, w), "CANCELLED")
                         ELSE AfterRecovery(r, w)
         /\ \A r \in DOMAIN runs :
              r \notin won /\ ~ClaimExpired(runs[r]) /\ runs[r].status # "ENQUEUED"
                => events'[r] = events[r]
<1> DEFINE run(r) == IF r \in won THEN Claim(AfterRecovery(r, w), w)
                     ELSE IF r <= last /\ Cancellable(r, w)
                          THEN MoveTo(AfterRecovery(r, w), "CANCELLED")
                     ELSE AfterRecovery(r, w)
<1>1. \A r \in DOMAIN runs : run(r) \in RunRecord
  BY AfterRecoveryType, RecordTypes, RewrittenTypes
     DEF RestingStatuses, TerminalStatuses
<1>2. runs' = [r \in DOMAIN runs |-> run(r)]
  BY DEF Scan
<1> HIDE DEF run
<1>3. runs' \in [1..Len(runs) -> RunRecord]
  BY <1>1, <1>2, StoreDomains
<1>4. runs' \in Seq(RunRecord) /\ Len(runs') = Len(runs)
  BY <1>3, StoreDomains, FunctionIsSeq
<1> DEFINE first(r) == IF ClaimExpired(runs[r])
                       THEN <<Event("claim_expired")>> ELSE <<>>
           second(r) == IF r \in won THEN <<EventOf("claimed", w)>>
                        ELSE IF r <= last /\ Cancellable(r, w)
                             THEN <<Event("cancelled")>> ELSE <<>>
<1>5. \A r \in DOMAIN events :
        first(r) \in Seq(EventRecord) /\ second(r) \in Seq(EventRecord)
  <2>1. /\ Event("claim_expired") \in EventRecord
        /\ Event("cancelled") \in EventRecord
        /\ EventOf("claimed", w) \in EventRecord
    BY EventType DEF EventTypes
  <2>2. /\ <<Event("claim_expired")>> \in Seq(EventRecord)
        /\ <<Event("cancelled")>> \in Seq(EventRecord)
        /\ <<EventOf("claimed", w)>> \in Seq(EventRecord)
        /\ <<>> \in Seq(EventRecord)
    BY <2>1
  <2> QED
    BY <2>2
<1>6. events' = [r \in DOMAIN events |-> events[r] \o first(r) \o second(r)]
  BY DEF Scan
<1> HIDE DEF first, second
<1>7. \A r \in DOMAIN events :
        events[r] \o first(r) \o second(r) \in Seq(EventRecord)
  BY <1>5, StoreDomains, ConcatProperties
<1>8. events' \in [1..Len(events) -> Seq(EventRecord)]
  BY <1>6, <1>7, StoreDomains DEF StoreOK
<1>9. events' \in Seq(Seq(EventRecord)) /\ Len(events') = Len(events)
  <2>1. Len(events) \in Nat
    BY StoreDomains DEF StoreOK
  <2> QED
    BY <1>8, <2>1, FunctionIsSeq
<1>10. \A r \in DOMAIN runs :
         runs'[r] = IF r \in won THEN Claim(AfterRecovery(r, w), w)
                    ELSE IF r <= last /\ Cancellable(r, w)
                         THEN MoveTo(AfterRecovery(r, w), "CANCELLED")
                    ELSE AfterRecovery(r, w)
  BY <1>2 DEF run
<1>11. ASSUME NEW r \in DOMAIN runs, r \notin won, ~ClaimExpired(runs[r]),
              runs[r].status # "ENQUEUED"
       PROVE  events'[r] = events[r]
  <2>1. first(r) = <<>> /\ second(r) = <<>>
    BY <1>11 DEF first, second, Cancellable, AfterRecovery
  <2>2. events'[r] = (events[r] \o <<>>) \o <<>>
    BY <1>6, <2>1, StoreDomains
  <2>3. events[r] \o <<>> = events[r]
    BY StoreDomains, ConcatEmptySeq
  <2> QED
    BY <2>2, <2>3
<1> QED
  BY <1>4, <1>9, <1>10, <1>11 DEF StoreOK

-----------------------------------------------------------------------------
(* What any step may do to the store.                                      *)

\* A run is left alone, or it is not terminal and neither succeeds against a
\* request to stop nor is started again after one; only a cancellation drops the
\* request.
RunStep(r) ==
  \/ runs'[r] = runs[r] /\ events'[r] = events[r]
  \/ /\ runs[r].status \notin TerminalStatuses
     /\ runs'[r].status = "SUCCEEDED" => ~runs'[r].cancel_requested
     /\ runs[r].cancel_requested /\ runs'[r].status = "RUNNING" =>
          /\ runs[r].status = "RUNNING"
          /\ runs'[r].retry_count = runs[r].retry_count
     /\ runs[r].cancel_requested =>
          runs'[r].cancel_requested \/ runs'[r].status = "CANCELLED"

\* Nothing is deleted, and a new run is in the queue.
StoreAdvances ==
  /\ StoreOK'
  /\ Len(runs) <= Len(runs')
  /\ \A r \in DOMAIN runs : RunStep(r)
  /\ \A r \in DOMAIN runs' \ DOMAIN runs : runs'[r].status = "ENQUEUED"

LEMMA StoreUnchanged ==
  ASSUME StoreOK, UNCHANGED store
  PROVE  StoreAdvances
<1>1. Len(runs) \in Nat
  BY StoreDomains
<1> QED
  BY <1>1 DEF StoreOK, StoreAdvances, RunStep, store

LEMMA CreateAdvances ==
  ASSUME StoreOK, CreateEnqueued
  PROVE  StoreAdvances
<1>1. /\ runs' = Append(runs, FreshRun("ENQUEUED"))
      /\ events' = Append(events, <<Event("created"), Event("enqueued")>>)
  BY DEF CreateEnqueued
<1>2. FreshRun("ENQUEUED") \in RunRecord
  BY FreshRunType DEF RestingStatuses
<1>3. <<Event("created"), Event("enqueued")>> \in Seq(EventRecord)
  <2>1. Event("created") \in EventRecord /\ Event("enqueued") \in EventRecord
    BY EventType DEF EventTypes
  <2> QED
    BY <2>1
<1>4. /\ runs' \in Seq(RunRecord) /\ Len(runs') = Len(runs) + 1
      /\ \A r \in 1..Len(runs) : runs'[r] = runs[r]
      /\ runs'[Len(runs) + 1] = FreshRun("ENQUEUED")
  BY <1>1, <1>2, AppendProperties DEF StoreOK
<1>5. /\ events' \in Seq(Seq(EventRecord)) /\ Len(events') = Len(events) + 1
      /\ \A r \in 1..Len(events) : events'[r] = events[r]
  BY <1>1, <1>3, AppendProperties DEF StoreOK
<1>6. \A r \in DOMAIN runs' \ DOMAIN runs : runs'[r].status = "ENQUEUED"
  <2>1. DOMAIN runs' = 1..(Len(runs) + 1) /\ DOMAIN runs = 1..Len(runs)
    BY <1>4, StoreDomains, LenProperties
  <2>2. \A r \in DOMAIN runs' \ DOMAIN runs : r = Len(runs) + 1
    BY <2>1, StoreDomains
  <2> QED
    BY <1>4, <2>2 DEF FreshRun
<1> QED
  BY <1>4, <1>5, <1>6, StoreDomains DEF StoreOK, StoreAdvances, RunStep

\* A method that writes one record and may log one event.
LEMMA UpdateAdvances ==
  ASSUME StoreOK, NEW r \in DOMAIN runs, NEW run \in RunRecord, Update(r, run),
         \/ UNCHANGED events
         \/ \E event \in EventRecord : Log(r, event),
         runs[r].status \notin TerminalStatuses,
         run.status = "SUCCEEDED" => ~run.cancel_requested,
         run.status = "RUNNING" =>
           runs[r].status = "RUNNING" /\ run.retry_count = runs[r].retry_count,
         runs[r].cancel_requested =>
           run.cancel_requested \/ run.status = "CANCELLED"
  PROVE  StoreAdvances
<1>1. /\ runs' \in Seq(RunRecord) /\ Len(runs') = Len(runs)
      /\ DOMAIN runs' = DOMAIN runs
      /\ \A q \in DOMAIN runs : runs'[q] = IF q = r THEN run ELSE runs[q]
  BY UpdateFacts DEF StoreOK
<1>2. /\ events' \in Seq(Seq(EventRecord)) /\ Len(events') = Len(events)
      /\ \A q \in DOMAIN events : q # r => events'[q] = events[q]
  BY LogFacts, StoreDomains DEF StoreOK
<1>3. StoreOK' /\ Len(runs) <= Len(runs')
  BY <1>1, <1>2, StoreDomains DEF StoreOK
<1>4. \A q \in DOMAIN runs : RunStep(q)
  BY <1>1, <1>2, StoreDomains DEF RunStep
<1> QED
  BY <1>1, <1>3, <1>4 DEF StoreAdvances

\* A heartbeat that lost its lease logs that, and writes nothing.
LEMMA LogAdvances ==
  ASSUME StoreOK, NEW r \in DOMAIN runs, NEW event \in EventRecord,
         Log(r, event), UNCHANGED runs, runs[r].status = "RUNNING"
  PROVE  StoreAdvances
<1>1. /\ events' \in Seq(Seq(EventRecord)) /\ Len(events') = Len(events)
      /\ \A q \in DOMAIN events : q # r => events'[q] = events[q]
  BY LogFacts, StoreDomains DEF StoreOK
<1> QED
  BY <1>1, StoreDomains DEF StoreOK, StoreAdvances, RunStep, TerminalStatuses

\* claim_run, whether it claims the run r or finds nothing to claim.
LEMMA ScanAdvances ==
  ASSUME StoreOK, NEW w \in Workers,
         \/ ScanFindsNothing(w)
         \/ \E r \in DOMAIN runs : ScanClaims(w, r)
  PROVE  StoreAdvances
<1>1. PICK last \in Nat, won \in SUBSET Nat :
        Scan(w, last, won) /\ \A r \in won : Claimable(r, w)
  <2>1. CASE ScanFindsNothing(w)
    <3>1. Scan(w, Len(runs), {}) /\ Len(runs) \in Nat
      BY <2>1, StoreDomains DEF ScanFindsNothing
    <3> QED
      BY <3>1
  <2>2. CASE \E r \in DOMAIN runs : ScanClaims(w, r)
    <3>1. PICK r \in DOMAIN runs : ScanClaims(w, r)
      BY <2>2
    <3>2. r \in Nat /\ Scan(w, r, {r}) /\ Claimable(r, w)
      BY <3>1, StoreDomains DEF ScanClaims, FirstClaimable
    <3> QED
      BY <3>2
  <2> QED
    BY <2>1, <2>2
<1>2. StoreOK' /\ Len(runs') = Len(runs) /\ Len(runs) \in Nat
  BY <1>1, ScanFacts, StoreDomains
<1>3. ASSUME NEW r \in DOMAIN runs
      PROVE  RunStep(r)
  <2>1. /\ runs[r] \in RunRecord
        /\ AfterRecovery(r, w) \in RunRecord
    BY StoreDomains, AfterRecoveryType
  <2>2. runs'[r] = IF r \in won THEN Claim(AfterRecovery(r, w), w)
                   ELSE IF r <= last /\ Cancellable(r, w)
                        THEN MoveTo(AfterRecovery(r, w), "CANCELLED")
                   ELSE AfterRecovery(r, w)
    BY <1>1, ScanFacts
  <2>3. AfterRecovery(r, w).cancel_requested = runs[r].cancel_requested
    BY <2>1, RecordTypes DEF AfterRecovery
  <2>4. AfterRecovery(r, w).status = "ENQUEUED" =>
          runs[r].status \in {"ENQUEUED", "RUNNING"}
    BY <2>1, RecordTypes DEF AfterRecovery, ClaimExpired
  <2>5. CASE r \in won
    <3>1. /\ AfterRecovery(r, w).status = "ENQUEUED"
          /\ ~AfterRecovery(r, w).cancel_requested
      BY <1>1, <2>5 DEF Claimable
    <3>2. runs'[r].status = "RUNNING"
      BY <2>1, <2>2, <2>5 DEF Claim, RunRecord
    <3> QED
      BY <2>3, <2>4, <3>1, <3>2 DEF RunStep, TerminalStatuses
  <2>6. CASE r \notin won /\ r <= last /\ Cancellable(r, w)
    <3>1. runs'[r].status = "CANCELLED"
      BY <2>1, <2>2, <2>6 DEF MoveTo, RunRecord
    <3> QED
      BY <2>4, <2>6, <3>1 DEF Cancellable, RunStep, TerminalStatuses
  <2>7. CASE r \notin won /\ ~(r <= last /\ Cancellable(r, w))
    <3>1. runs'[r] = AfterRecovery(r, w)
      BY <2>2, <2>7
    <3>2. CASE ClaimExpired(runs[r])
      <4>1. runs'[r].status = "ENQUEUED" /\ runs[r].status = "RUNNING"
        BY <2>1, <3>1, <3>2, RecordTypes DEF AfterRecovery, ClaimExpired
      <4> QED
        BY <2>3, <3>1, <4>1 DEF RunStep, TerminalStatuses
    <3>3. CASE ~ClaimExpired(runs[r]) /\ runs[r].status = "ENQUEUED"
      BY <3>1, <3>3 DEF RunStep, TerminalStatuses, AfterRecovery
    <3>4. CASE ~ClaimExpired(runs[r]) /\ runs[r].status # "ENQUEUED"
      <4>1. events'[r] = events[r]
        BY <1>1, <2>7, <3>4, ScanFacts
      <4> QED
        BY <3>1, <3>4, <4>1 DEF RunStep, AfterRecovery
    <3> QED
      BY <3>2, <3>3, <3>4
  <2> QED
    BY <2>5, <2>6, <2>7
<1> QED
  BY <1>2, <1>3 DEF StoreAdvances

-----------------------------------------------------------------------------
(* Every step of the program advances the store in that way.               *)

LEMMA SettleAdvances ==
  ASSUME StoreOK, NEW w \in Workers, job[w] \in DOMAIN runs,
         NEW outcome \in TerminalStatuses, Settle(w, outcome),
         outcome = "SUCCEEDED" => ~runs[job[w]].cancel_requested
  PROVE  StoreAdvances
<1> DEFINE r == job[w]
           final == IF Validates(runs[r].status, outcome) THEN outcome ELSE "FAILED"
<1>1. final \in TerminalStatuses /\ runs[r] \in RunRecord
  BY StoreDomains DEF TerminalStatuses
<1>2. CASE SetFinal(r, final)
  <2>1. Update(r, MoveTo(runs[r], final)) /\ Log(r, FinalEvent(final))
    BY <1>2 DEF SetFinal
  <2>2. runs[r].status \notin TerminalStatuses
    BY <1>2 DEF SetFinal, Validates, TransitionRules, TerminalStatuses
  <2>3. FinalEvent(final) \in EventRecord
    BY <1>1, EventType
  <2>4. /\ MoveTo(runs[r], final) \in RunRecord
        /\ MoveTo(runs[r], final).status = final
        /\ MoveTo(runs[r], final).cancel_requested = runs[r].cancel_requested
    BY <1>1, RewrittenTypes DEF MoveTo, RunRecord, RestingStatuses
  <2>5. final = "SUCCEEDED" => outcome = "SUCCEEDED"
    OBVIOUS
  <2>6. final # "RUNNING"
    BY <1>1 DEF TerminalStatuses
  <2> HIDE DEF final
  <2> QED
    BY <2>1, <2>2, <2>3, <2>4, <2>5, <2>6, UpdateAdvances
<1>3. CASE UNCHANGED store
  BY <1>3, StoreUnchanged
<1> QED
  BY <1>2, <1>3 DEF Settle

LEMMA ClientAdvances ==
  ASSUME StoreOK, Clients
  PROVE  StoreAdvances
<1>1. CASE CreateRun
  BY <1>1, CreateAdvances DEF CreateRun
<1>2. ASSUME NEW r \in DOMAIN runs, CancelRun(r)
      PROVE  StoreAdvances
  <2> DEFINE run == WithCancelRequested(runs[r])
  <2>1. /\ Update(r, run) /\ Log(r, Event("cancel requested"))
        /\ runs[r].status \notin TerminalStatuses
    BY <1>2 DEF CancelRun, RequestCancellation, MayRequestCancellation
  <2>2. /\ Event("cancel requested") \in EventRecord
        /\ runs[r] \in RunRecord /\ run \in RunRecord
    BY EventType, StoreDomains, RewrittenTypes DEF EventTypes
  <2>3. /\ run.status = runs[r].status /\ run.retry_count = runs[r].retry_count
        /\ run.cancel_requested
    BY <2>2 DEF WithCancelRequested, RunRecord
  <2> HIDE DEF run
  <2> QED
    BY <2>1, <2>2, <2>3, UpdateAdvances DEF TerminalStatuses
<1>3. ASSUME NEW r \in DOMAIN runs, MarkCancelled(r)
      PROVE  StoreAdvances
  <2>1. /\ Update(r, FreshRun("CANCELLED")) /\ Log(r, Event("cancelled"))
        /\ runs[r].status \notin TerminalStatuses
    BY <1>3 DEF MarkCancelled, MarkRunCancelled
  <2>2. FreshRun("CANCELLED") \in RunRecord /\ Event("cancelled") \in EventRecord
    BY FreshRunType, EventType DEF RestingStatuses, TerminalStatuses, EventTypes
  <2>3. FreshRun("CANCELLED").status = "CANCELLED"
    BY DEF FreshRun
  <2> QED
    BY <2>1, <2>2, <2>3, UpdateAdvances
<1> QED
  BY <1>1, <1>2, <1>3 DEF Clients

LEMMA ConsumerAdvances ==
  ASSUME TypeOK, NEW w \in Workers, Consumer(w)
  PROVE  StoreAdvances
<1>1. StoreOK /\ WorkerOK(w)
  BY DEF TypeOK, StoreOK
<1>2. ASSUME ClaimAndGoOn(w)
      PROVE  StoreAdvances
  <2>1. \/ ScanFindsNothing(w)
        \/ \E r \in DOMAIN runs : ScanClaims(w, r)
    BY <1>2 DEF ClaimAndGoOn, ClaimNothing, AbandonClaim, StartRun
  <2> QED
    BY <1>1, <2>1, ScanAdvances
<1>3. pc[w] = "executing" => job[w] \in DOMAIN runs
  BY <1>1 DEF WorkerOK
<1>4. CASE Resume(w) \/ LoopClaimsAtOnce(w)
  BY <1>2, <1>4 DEF Resume, LoopClaimsAtOnce
<1>5. CASE ExecutorReturns(w)
  <2>1. /\ Outcome(w) \in TerminalStatuses
        /\ Outcome(w) = "SUCCEEDED" => ~runs[job[w]].cancel_requested
    BY DEF Outcome, TerminalStatuses
  <2> QED
    BY <1>1, <1>3, <1>5, <2>1, SettleAdvances DEF ExecutorReturns
<1>6. CASE ExecutorRaises(w)
  <2>1. "FAILED" \in TerminalStatuses
    BY DEF TerminalStatuses
  <2> QED
    BY <1>1, <1>3, <1>6, <2>1, SettleAdvances DEF ExecutorRaises
<1>7. CASE \/ NextStep(w) \/ LoopEnds(w) \/ LoopWaits(w) \/ LoopDies(w)
           \/ Unwind(w)
  BY <1>1, <1>7, StoreUnchanged DEF NextStep, LoopEnds, LoopWaits, LoopDies, Unwind
<1> QED
  BY <1>4, <1>5, <1>6, <1>7 DEF Consumer

LEMMA HeartbeatAdvances ==
  ASSUME TypeOK, NEW w \in Workers, Heartbeat(w)
  PROVE  StoreAdvances
<1>1. StoreOK /\ WorkerOK(w)
  BY DEF TypeOK, StoreOK
<1>2. heartbeat[w] = "beating"
  BY DEF Heartbeat, HeartbeatRenews, HeartbeatLosesLease, HeartbeatFindsNotRunning
<1>3. job[w] \in DOMAIN runs /\ runs[job[w]] \in RunRecord
  BY <1>1, <1>2, StoreDomains DEF WorkerOK
<1>4. CASE HeartbeatRenews(w)
  <2> DEFINE run == Renew(runs[job[w]])
  <2>1. /\ Update(job[w], run) /\ UNCHANGED events
        /\ runs[job[w]].status = "RUNNING"
    BY <1>4 DEF HeartbeatRenews
  <2>2. /\ run \in RunRecord
        /\ run.status = runs[job[w]].status
        /\ run.retry_count = runs[job[w]].retry_count
        /\ run.cancel_requested = runs[job[w]].cancel_requested
    BY <1>3, RewrittenTypes DEF Renew, RunRecord
  <2> HIDE DEF run
  <2> QED
    BY <1>1, <1>3, <2>1, <2>2, UpdateAdvances DEF TerminalStatuses
<1>5. CASE HeartbeatLosesLease(w)
  <2>1. EventOf("claim_lost", w) \in EventRecord
    BY EventType DEF EventTypes
  <2> QED
    BY <1>1, <1>3, <1>5, <2>1, LogAdvances DEF HeartbeatLosesLease
<1>6. CASE HeartbeatFindsNotRunning(w)
  BY <1>1, <1>6, StoreUnchanged DEF HeartbeatFindsNotRunning
<1> QED
  BY <1>4, <1>5, <1>6 DEF Heartbeat

LEMMA LeaseExpiryAdvances ==
  ASSUME StoreOK, NEW r \in DOMAIN runs, LeaseExpires(r)
  PROVE  StoreAdvances
<1> DEFINE run == [runs[r] EXCEPT !.lease = "expired"]
<1>1. Update(r, run) /\ UNCHANGED events /\ runs[r].status = "RUNNING"
  BY DEF LeaseExpires, LeasePasses
<1>2. runs[r] \in RunRecord
  BY StoreDomains
<1>3. /\ run \in RunRecord /\ run.status = runs[r].status
      /\ run.retry_count = runs[r].retry_count
      /\ run.cancel_requested = runs[r].cancel_requested
  BY <1>2 DEF RunRecord, Leases
<1> HIDE DEF run
<1> QED
  BY <1>1, <1>2, <1>3, UpdateAdvances DEF TerminalStatuses

LEMMA NextAdvances ==
  ASSUME TypeOK, [Next]_vars
  PROVE  StoreAdvances
<1>1. StoreOK
  BY DEF TypeOK, StoreOK
<1>2. CASE Clients
  BY <1>1, <1>2, ClientAdvances
<1>3. ASSUME NEW w \in Workers, Consumer(w)
      PROVE  StoreAdvances
  BY <1>3, ConsumerAdvances
<1>4. ASSUME NEW w \in Workers, Heartbeat(w)
      PROVE  StoreAdvances
  BY <1>4, HeartbeatAdvances
<1>5. ASSUME NEW w \in Workers,
             WaitTimesOut(w) \/ ShutdownExecution(w) \/ InfraShutdown(w)
      PROVE  StoreAdvances
  BY <1>1, <1>5, StoreUnchanged
     DEF WaitTimesOut, ShutdownExecution, InfraShutdown, StopExecution
<1>6. ASSUME NEW r \in DOMAIN runs, LeaseExpires(r)
      PROVE  StoreAdvances
  BY <1>1, <1>6, LeaseExpiryAdvances
<1>7. CASE UNCHANGED vars
  BY <1>1, <1>7, StoreUnchanged DEF vars, store
<1> QED
  BY <1>2, <1>3, <1>4, <1>5, <1>6, <1>7 DEF Next

-----------------------------------------------------------------------------
(* Type correctness.                                                       *)

LEMMA InitOK == Init => TypeOK
<1> SUFFICES ASSUME Init PROVE TypeOK
  OBVIOUS
<1>1. /\ runs \in Seq(RunRecord) /\ events \in Seq(Seq(EventRecord))
      /\ Len(runs) = 0 /\ Len(events) = 0 /\ DOMAIN runs = {}
  BY DEF Init
<1>2. 0 \in 0..(Steps - 1)
  BY OrchestrationAssumption
<1> QED
  BY <1>1, <1>2 DEF Init, TypeOK, WorkerOK, NoRun, Locations, Heartbeats

\* The state of one worker survives a step that leaves it alone.
LEMMA OthersStayOK ==
  ASSUME NEW w \in Workers, WorkerOK(w), StoreOK, StoreAdvances,
         job'[w] = job[w], heartbeat'[w] = heartbeat[w],
         \/ pc'[w] = pc[w]
         \/ /\ pc[w] \in {"waiting", "ready", "releasing", "raising"}
            /\ pc'[w] # "executing"
         \/ pc[w] = "executing" /\ pc'[w] = "cancelled"
  PROVE  WorkerOK(w)'
<1>1. DOMAIN runs \subseteq DOMAIN runs'
  <2>1. /\ DOMAIN runs = 1..Len(runs) /\ Len(runs) \in Nat
        /\ DOMAIN runs' = 1..Len(runs') /\ Len(runs') \in Nat
    BY LenProperties DEF StoreOK, StoreAdvances
  <2> QED
    BY <2>1 DEF StoreAdvances
<1> QED
  BY <1>1 DEF WorkerOK, NoRun

\* The variables other than the store, as TypeOK has them.
ControlOK ==
  /\ signalled \in BOOLEAN
  /\ pc \in [Workers -> Locations]
  /\ job \in [Workers -> Nat]
  /\ step \in [Workers -> 0..(Steps - 1)]
  /\ ctxCancelled \in [Workers -> BOOLEAN]
  /\ heartbeat \in [Workers -> Heartbeats]
  /\ allowed \in [Workers -> BOOLEAN]
  /\ \A w \in Workers : WorkerOK(w)

LEMMA TypeOKParts == TypeOK <=> StoreOK /\ ControlOK
  BY DEF TypeOK, StoreOK, ControlOK

\* A step that changes no control variable.
LEMMA ControlUnchanged ==
  ASSUME TypeOK, StoreAdvances, UNCHANGED <<signalled, pc, execution, allowed>>
  PROVE  ControlOK'
<1>1. StoreOK /\ ControlOK
  BY TypeOKParts
<1>2. \A w \in Workers : WorkerOK(w)'
  BY <1>1, OthersStayOK DEF ControlOK, execution
<1> QED
  BY <1>1, <1>2 DEF ControlOK, execution

\* A step that only wakes workers that wait.
LEMMA NotifyControl ==
  ASSUME TypeOK, StoreAdvances, Notify, UNCHANGED <<execution, allowed>>
  PROVE  ControlOK'
<1>1. StoreOK /\ ControlOK
  BY TypeOKParts
<1>2. pc' \in [Workers -> Locations] /\ signalled' \in BOOLEAN
  BY <1>1 DEF ControlOK, Notify, Woken, Locations
<1>3. ASSUME NEW w \in Workers
      PROVE  WorkerOK(w)'
  <2>1. pc'[w] = IF pc[w] = "waiting" THEN "ready" ELSE pc[w]
    BY DEF Notify, Woken
  <2> QED
    BY <1>1, <2>1, OthersStayOK DEF ControlOK, execution
<1> QED
  BY <1>1, <1>2, <1>3 DEF ControlOK, execution

\* A step of one worker that moves only its own pc, between places without a run.
LEMMA MoveControl ==
  ASSUME TypeOK, StoreAdvances, NEW w \in Workers, NEW place,
         place \in {"waiting", "ready", "ended", "died"},
         pc[w] \in {"waiting", "ready", "releasing", "raising"},
         pc' = [pc EXCEPT ![w] = place], signalled' \in BOOLEAN,
         UNCHANGED <<execution, allowed>>
  PROVE  ControlOK'
<1>1. StoreOK /\ ControlOK
  BY TypeOKParts
<1>2. pc' \in [Workers -> Locations]
  BY <1>1 DEF ControlOK, Locations
<1>3. ASSUME NEW v \in Workers
      PROVE  WorkerOK(v)'
  <2>1. pc'[v] = IF v = w THEN place ELSE pc[v]
    BY <1>1 DEF ControlOK
  <2> QED
    BY <1>1, <2>1, OthersStayOK DEF ControlOK, execution
<1> QED
  BY <1>1, <1>2, <1>3 DEF ControlOK, execution

\* A step of one worker that leaves the lease scope, or never had a run.
LEMMA LeaveControl ==
  ASSUME TypeOK, StoreAdvances, NEW w \in Workers, NEW place,
         place \in {"releasing", "raising", "ended"},
         pc' = [pc EXCEPT ![w] = place],
         job' = [job EXCEPT ![w] = NoRun], step' = [step EXCEPT ![w] = 0],
         ctxCancelled' = [ctxCancelled EXCEPT ![w] = FALSE],
         heartbeat' = [heartbeat EXCEPT ![w] = "off"],
         signalled' \in BOOLEAN, UNCHANGED allowed
  PROVE  ControlOK'
<1>1. StoreOK /\ ControlOK
  BY TypeOKParts
<1>2. /\ pc' \in [Workers -> Locations]
      /\ job' \in [Workers -> Nat]
      /\ step' \in [Workers -> 0..(Steps - 1)]
      /\ ctxCancelled' \in [Workers -> BOOLEAN]
      /\ heartbeat' \in [Workers -> Heartbeats]
  BY <1>1, OrchestrationAssumption DEF ControlOK, Locations, Heartbeats, NoRun
<1>3. ASSUME NEW v \in Workers
      PROVE  WorkerOK(v)'
  <2>1. CASE v = w
    BY <1>1, <2>1 DEF ControlOK, WorkerOK, NoRun
  <2>2. CASE v # w
    <3>1. pc'[v] = pc[v] /\ job'[v] = job[v] /\ heartbeat'[v] = heartbeat[v]
      BY <1>1, <2>2 DEF ControlOK
    <3> QED
      BY <1>1, <3>1, OthersStayOK DEF ControlOK
  <2> QED
    BY <2>1, <2>2
<1> QED
  BY <1>1, <1>2, <1>3 DEF ControlOK

LEMMA StartRunControl ==
  ASSUME TypeOK, StoreAdvances, NEW w \in Workers, NEW r \in DOMAIN runs,
         StartRun(w, r)
  PROVE  ControlOK'
<1>1. StoreOK /\ ControlOK
  BY TypeOKParts
<1>2. r \in Nat /\ r # NoRun /\ r \in DOMAIN runs'
  <2>1. /\ DOMAIN runs = 1..Len(runs) /\ Len(runs) \in Nat
        /\ DOMAIN runs' = 1..Len(runs') /\ Len(runs') \in Nat
    BY <1>1, LenProperties DEF StoreOK, StoreAdvances
  <2> QED
    BY <2>1 DEF StoreAdvances, NoRun
<1>3. /\ pc' \in [Workers -> Locations]
      /\ job' \in [Workers -> Nat]
      /\ step' \in [Workers -> 0..(Steps - 1)]
      /\ ctxCancelled' \in [Workers -> BOOLEAN]
      /\ heartbeat' \in [Workers -> Heartbeats]
      /\ signalled' \in BOOLEAN
  <2>1. pc' \in [Workers -> Locations] /\ heartbeat' \in [Workers -> Heartbeats]
    BY <1>1 DEF StartRun, ControlOK, Locations, Heartbeats
  <2>2. job' \in [Workers -> Nat] /\ step' \in [Workers -> 0..(Steps - 1)]
    BY <1>1, <1>2, OrchestrationAssumption DEF StartRun, ControlOK
  <2>3. ctxCancelled' \in [Workers -> BOOLEAN] /\ signalled' \in BOOLEAN
    BY <1>1 DEF StartRun, ControlOK
  <2> QED
    BY <2>1, <2>2, <2>3
<1>4. ASSUME NEW v \in Workers
      PROVE  WorkerOK(v)'
  <2>1. CASE v = w
    BY <1>1, <1>2, <2>1 DEF StartRun, ControlOK, WorkerOK, NoRun
  <2>2. CASE v # w
    <3>1. pc'[v] = pc[v] /\ job'[v] = job[v] /\ heartbeat'[v] = heartbeat[v]
      BY <1>1, <2>2 DEF StartRun, ControlOK
    <3> QED
      BY <1>1, <3>1, OthersStayOK DEF ControlOK
  <2> QED
    BY <2>1, <2>2
<1> QED
  BY <1>1, <1>3, <1>4 DEF ControlOK, StartRun

LEMMA ConsumerControl ==
  ASSUME TypeOK, StoreAdvances, NEW w \in Workers, Consumer(w)
  PROVE  ControlOK'
<1>1. StoreOK /\ ControlOK
  BY TypeOKParts
<1>2. ASSUME pc[w] \in {"ready", "releasing"}, ClaimAndGoOn(w)
      PROVE  ControlOK'
  <2>1. CASE ClaimNothing(w)
    <3> DEFINE place == IF allowed[w] THEN "waiting" ELSE "ended"
    <3>1. place \in {"waiting", "ready", "ended", "died"}
      OBVIOUS
    <3>2. /\ pc' = [pc EXCEPT ![w] = place] /\ signalled' \in BOOLEAN
          /\ UNCHANGED <<execution, allowed>>
      BY <2>1 DEF ClaimNothing
    <3> HIDE DEF place
    <3> QED
      BY <1>2, <3>1, <3>2, MoveControl
  <2>2. ASSUME NEW r \in DOMAIN runs, AbandonClaim(w, r)
        PROVE  ControlOK'
    BY <1>2, <2>2, MoveControl DEF AbandonClaim
  <2>3. ASSUME NEW r \in DOMAIN runs, StartRun(w, r)
        PROVE  ControlOK'
    BY <2>3, StartRunControl
  <2> QED
    BY <1>2, <2>1, <2>2, <2>3 DEF ClaimAndGoOn
<1>3. CASE Resume(w) \/ LoopClaimsAtOnce(w)
  BY <1>2, <1>3 DEF Resume, LoopClaimsAtOnce
<1>4. CASE NextStep(w)
  <2>1. step' \in [Workers -> 0..(Steps - 1)]
    BY <1>1, <1>4, OrchestrationAssumption DEF NextStep, ControlOK
  <2>2. \A v \in Workers : WorkerOK(v)'
    BY <1>1, <1>4, OthersStayOK DEF NextStep, ControlOK
  <2> QED
    BY <1>1, <1>4, <2>1, <2>2 DEF NextStep, ControlOK
<1>5. CASE ExecutorReturns(w) \/ ExecutorRaises(w)
  <2>1. LeaveExecution(w, "releasing") \/ LeaveExecution(w, "raising")
    BY <1>5 DEF ExecutorReturns, ExecutorRaises, Settle
  <2>2. PICK place \in {"releasing", "raising", "ended"} : LeaveExecution(w, place)
    BY <2>1
  <2> QED
    BY <1>1, <2>2, LeaveControl DEF LeaveExecution, ControlOK
<1>6. CASE Unwind(w)
  BY <1>1, <1>6, LeaveControl DEF Unwind, ControlOK
<1>7. CASE LoopEnds(w) \/ LoopWaits(w) \/ LoopDies(w)
  BY <1>1, <1>7, MoveControl DEF LoopEnds, LoopWaits, LoopDies, ControlOK
<1> QED
  BY <1>3, <1>4, <1>5, <1>6, <1>7 DEF Consumer

LEMMA HeartbeatControl ==
  ASSUME TypeOK, StoreAdvances, NEW w \in Workers, Heartbeat(w)
  PROVE  ControlOK'
<1>1. StoreOK /\ ControlOK
  BY TypeOKParts
<1>2. heartbeat[w] = "beating" /\ UNCHANGED <<signalled, pc, job, step, allowed>>
  BY DEF Heartbeat, HeartbeatRenews, HeartbeatLosesLease, HeartbeatFindsNotRunning
<1>3. /\ ctxCancelled' \in [Workers -> BOOLEAN]
      /\ \/ heartbeat' = heartbeat
         \/ heartbeat' = [heartbeat EXCEPT ![w] = "stopped"]
  BY <1>1 DEF Heartbeat, HeartbeatRenews, HeartbeatLosesLease,
              HeartbeatFindsNotRunning, ObserveCancellation, ControlOK
<1>4. heartbeat' \in [Workers -> Heartbeats]
  BY <1>1, <1>3 DEF ControlOK, Heartbeats
<1>5. ASSUME NEW v \in Workers
      PROVE  WorkerOK(v)'
  <2>1. DOMAIN runs \subseteq DOMAIN runs'
    <3>1. /\ DOMAIN runs = 1..Len(runs) /\ Len(runs) \in Nat
          /\ DOMAIN runs' = 1..Len(runs') /\ Len(runs') \in Nat
      BY <1>1, LenProperties DEF StoreOK, StoreAdvances
    <3> QED
      BY <3>1 DEF StoreAdvances
  <2>2. heartbeat'[v] = heartbeat[v] \/ (v = w /\ heartbeat'[v] = "stopped")
    BY <1>1, <1>3 DEF ControlOK
  <2> QED
    BY <1>1, <1>2, <2>1, <2>2 DEF ControlOK, WorkerOK
<1> QED
  BY <1>1, <1>2, <1>3, <1>4, <1>5 DEF ControlOK

LEMMA ShutdownControl ==
  ASSUME TypeOK, StoreAdvances, NEW w \in Workers,
         ShutdownExecution(w) \/ InfraShutdown(w)
  PROVE  ControlOK'
<1>1. StoreOK /\ ControlOK
  BY TypeOKParts
<1>2. /\ allowed' \in [Workers -> BOOLEAN] /\ signalled' \in BOOLEAN
      /\ ctxCancelled' \in [Workers -> BOOLEAN]
      /\ UNCHANGED <<job, step, heartbeat>>
  BY <1>1 DEF ShutdownExecution, InfraShutdown, StopExecution, ControlOK
<1>3. Woken \in [Workers -> Locations]
  BY <1>1 DEF Woken, ControlOK, Locations
<1>4. pc' \in [Workers -> Locations]
  BY <1>1, <1>3 DEF ShutdownExecution, InfraShutdown, ControlOK, Locations
<1>5. ASSUME NEW v \in Workers
      PROVE  WorkerOK(v)'
  <2>1. \/ pc'[v] = pc[v]
        \/ pc[v] \in {"waiting", "ready"} /\ pc'[v] \in {"ready", "cancelled"}
        \/ pc[v] = "executing" /\ pc'[v] = "cancelled"
    BY <1>1, <1>3 DEF ShutdownExecution, InfraShutdown, Woken, ControlOK
  <2> QED
    BY <1>1, <1>2, <2>1, OthersStayOK DEF ControlOK
<1> QED
  BY <1>1, <1>2, <1>4, <1>5 DEF ControlOK

LEMMA NextOK == TypeOK /\ [Next]_vars => TypeOK'
<1> SUFFICES ASSUME TypeOK, [Next]_vars PROVE TypeOK'
  OBVIOUS
<1>1. StoreAdvances
  BY NextAdvances
<1>2. ControlOK'
  <2>1. CASE Clients
    <3>1. CASE CreateRun \/ \E r \in DOMAIN runs : CancelRun(r)
      BY <1>1, <3>1, NotifyControl DEF CreateRun, CancelRun
    <3>2. CASE \E r \in DOMAIN runs : MarkCancelled(r)
      BY <1>1, <3>2, ControlUnchanged DEF MarkCancelled
    <3> QED
      BY <2>1, <3>1, <3>2 DEF Clients
  <2>2. ASSUME NEW w \in Workers, Consumer(w)
        PROVE  ControlOK'
    BY <1>1, <2>2, ConsumerControl
  <2>3. ASSUME NEW w \in Workers, Heartbeat(w)
        PROVE  ControlOK'
    BY <1>1, <2>3, HeartbeatControl
  <2>4. ASSUME NEW w \in Workers, WaitTimesOut(w)
        PROVE  ControlOK'
    BY <1>1, <2>4, MoveControl DEF WaitTimesOut, TypeOK
  <2>5. ASSUME NEW w \in Workers, ShutdownExecution(w) \/ InfraShutdown(w)
        PROVE  ControlOK'
    BY <1>1, <2>5, ShutdownControl
  <2>6. CASE \E r \in DOMAIN runs : LeaseExpires(r)
    BY <1>1, <2>6, ControlUnchanged DEF LeaseExpires, LeasePasses
  <2>7. CASE UNCHANGED vars
    BY <1>1, <2>7, ControlUnchanged DEF vars, execution
  <2> QED
    BY <2>1, <2>2, <2>3, <2>4, <2>5, <2>6, <2>7 DEF Next
<1>3. StoreOK'
  BY <1>1 DEF StoreAdvances
<1> QED
  BY <1>2, <1>3 DEF TypeOK, StoreOK, ControlOK

\* The types of the table, the logs and the workers hold in every reachable state,
\* for any number of workers, runs and retries: in particular no task ever reads
\* CREATED, TIMED_OUT or RETRYING from the table, and a worker has a run of the
\* table exactly while it is in the lease scope.
THEOREM TypeCorrect == Spec => []TypeOK
  BY InitOK, NextOK, PTL DEF Spec

-----------------------------------------------------------------------------
(* Safety of every run.                                                    *)

\* No interleaving of a cancellation request with the end of an execution leaves a
\* succeeded run whose cancellation was requested.
THEOREM CancelRequestPreventsSuccess == Spec => []NoSuccessAfterCancelRequest
<1>1. Init => NoSuccessAfterCancelRequest
  BY DEF Init, NoSuccessAfterCancelRequest
<1>2. TypeOK /\ NoSuccessAfterCancelRequest /\ [Next]_vars
        => NoSuccessAfterCancelRequest'
  <2> SUFFICES ASSUME TypeOK, NoSuccessAfterCancelRequest, [Next]_vars,
                      NEW r \in DOMAIN runs', runs'[r].status = "SUCCEEDED"
               PROVE  ~runs'[r].cancel_requested
    BY DEF NoSuccessAfterCancelRequest
  <2>1. StoreAdvances
    BY NextAdvances
  <2>2. CASE r \in DOMAIN runs
    <3>1. RunStep(r)
      BY <2>1, <2>2 DEF StoreAdvances
    <3> QED
      BY <2>2, <3>1 DEF RunStep, NoSuccessAfterCancelRequest
  <2>3. CASE r \notin DOMAIN runs
    BY <2>1, <2>3 DEF StoreAdvances
  <2> QED
    BY <2>2, <2>3
<1> QED
  BY <1>1, <1>2, TypeCorrect, PTL DEF Spec

\* The record and the log of a terminal run never change again.
THEOREM TerminalRunsAreFinal == Spec => TerminalIsFinal
<1>1. TypeOK /\ [Next]_vars =>
        [\A r \in DOMAIN runs :
           runs[r].status \in TerminalStatuses =>
             runs'[r] = runs[r] /\ events'[r] = events[r]]_vars
  BY NextAdvances DEF StoreAdvances, RunStep
<1> QED
  BY <1>1, TypeCorrect, PTL DEF Spec, TerminalIsFinal

\* A run whose cancellation was requested is not claimed or retried again.
THEOREM CancelRequestPreventsRestart == Spec => CancelledRunsDoNotRestart
<1>1. TypeOK /\ [Next]_vars =>
        [\A r \in DOMAIN runs :
           runs[r].cancel_requested /\ runs'[r].status = "RUNNING" =>
             /\ runs[r].status = "RUNNING"
             /\ runs'[r].retry_count = runs[r].retry_count]_vars
  BY NextAdvances DEF StoreAdvances, RunStep
<1> QED
  BY <1>1, TypeCorrect, PTL DEF Spec, CancelledRunsDoNotRestart

-----------------------------------------------------------------------------
(* What the proofs about leases need of a claim and of an outcome.         *)

\* The worker that starts a run gets its lease.
LEMMA ClaimGrantsLease ==
  ASSUME StoreOK, NEW w \in Workers, NEW r \in DOMAIN runs, ScanClaims(w, r)
  PROVE  /\ runs'[r].status = "RUNNING"
         /\ runs'[r].claimed_worker = w
         /\ runs'[r].lease = "live"
<1>1. r \in Nat /\ Scan(w, r, {r})
  BY StoreDomains DEF ScanClaims
<1>2. runs'[r] = Claim(AfterRecovery(r, w), w)
  BY <1>1, ScanFacts
<1>3. AfterRecovery(r, w) \in RunRecord
  BY AfterRecoveryType
<1> QED
  BY <1>2, <1>3 DEF Claim, RunRecord

\* A worker that executes only its own run writes legal outcomes, so that no ValueError
\* of the policy leaves its loop.
LEMMA SettledLoopsSurvive ==
  TypeOK /\ ExecutesOnlyOwnRun /\ LoopsSurvive /\ [Next]_vars => LoopsSurvive'
<1> SUFFICES ASSUME TypeOK, ExecutesOnlyOwnRun, LoopsSurvive, [Next]_vars,
                    NEW v \in Workers
             PROVE  pc'[v] \notin {"raising", "died"}
  BY DEF LoopsSurvive
<1>1. pc \in [Workers -> Locations] /\ pc[v] \notin {"raising", "died"}
  BY DEF TypeOK, LoopsSurvive
<1>2. CASE Clients
  BY <1>1, <1>2 DEF Clients, CreateRun, CancelRun, MarkCancelled, Notify, Woken
<1>3. ASSUME NEW w \in Workers, Consumer(w)
      PROVE  pc'[v] \notin {"raising", "died"}
  <2>1. CASE ClaimAndGoOn(w)
    BY <1>1, <2>1 DEF ClaimAndGoOn, ClaimNothing, AbandonClaim, StartRun
  <2>2. ASSUME NEW outcome \in TerminalStatuses, pc[w] = "executing",
               Settle(w, outcome)
        PROVE  pc'[v] \notin {"raising", "died"}
    <3>1. runs[job[w]].status = "RUNNING"
      BY <2>2 DEF ExecutesOnlyOwnRun
    <3>2. Validates(runs[job[w]].status, outcome)
      BY <3>1 DEF Validates, TransitionRules, TerminalStatuses
    <3>3. LeaveExecution(w, "releasing")
      BY <2>2, <3>2 DEF Settle
    <3> QED
      BY <1>1, <3>3 DEF LeaveExecution
  <2>3. CASE ExecutorReturns(w) \/ ExecutorRaises(w)
    BY <2>2, <2>3 DEF ExecutorReturns, ExecutorRaises, Outcome, TerminalStatuses
  <2>4. CASE \/ NextStep(w) \/ LoopEnds(w) \/ LoopWaits(w) \/ LoopDies(w)
             \/ Unwind(w)
    BY <1>1, <2>4 DEF NextStep, LoopEnds, LoopWaits, LoopDies, Unwind, LoopsSurvive
  <2> QED
    BY <1>3, <2>1, <2>3, <2>4 DEF Consumer, Resume, LoopClaimsAtOnce
<1>4. ASSUME NEW w \in Workers, Heartbeat(w)
      PROVE  pc'[v] \notin {"raising", "died"}
  BY <1>1, <1>4 DEF Heartbeat, HeartbeatRenews, HeartbeatLosesLease,
                    HeartbeatFindsNotRunning
<1>5. ASSUME NEW w \in Workers,
             WaitTimesOut(w) \/ ShutdownExecution(w) \/ InfraShutdown(w)
      PROVE  pc'[v] \notin {"raising", "died"}
  BY <1>1, <1>5 DEF WaitTimesOut, ShutdownExecution, InfraShutdown, Woken
<1>6. CASE (\E r \in DOMAIN runs : LeaseExpires(r)) \/ UNCHANGED vars
  BY <1>1, <1>6 DEF LeaseExpires, LeasePasses, vars
<1> QED
  BY <1>2, <1>3, <1>4, <1>5, <1>6 DEF Next

=============================================================================
