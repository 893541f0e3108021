---------------------------- MODULE RunApiProofs ----------------------------
(***************************************************************************)
(* What a client of the API may rely on, for any number of workers, runs   *)
(* and retries.  The event log of a run only grows, so that a copy fetched *)
(* by sequence number stays a prefix of it; a terminal run is final, so    *)
(* that the first terminal status a client sees ends its polling.          *)
(***************************************************************************)
EXTENDS RunApi, RunOrchestrationProofs

\* s is a prefix of t.
Begins(s, t) == Len(s) <= Len(t) /\ \A i \in 1..Len(s) : s[i] = t[i]

\* What a step of the workers does to the table and to the logs.
LogsGrow ==
  /\ Len(runs') = Len(runs)
  /\ \A r \in DOMAIN runs : Begins(events[r], events'[r])

LEMMA ConcatBegins ==
  ASSUME NEW s \in Seq(EventRecord), NEW t \in Seq(EventRecord)
  PROVE  s \o t \in Seq(EventRecord) /\ Begins(s, s \o t)
  BY ConcatProperties, LenProperties DEF Begins

LEMMA AppendBegins ==
  ASSUME NEW s \in Seq(EventRecord), NEW e \in EventRecord
  PROVE  Begins(s, Append(s, e))
  BY AppendProperties, LenProperties DEF Begins

LEMMA BeginsSelf ==
  ASSUME NEW s \in Seq(EventRecord)
  PROVE  Begins(s, s)
  BY LenProperties DEF Begins

-----------------------------------------------------------------------------
(* The workers only append.                                                *)

LEMMA UnchangedGrows ==
  ASSUME StoreOK, UNCHANGED store
  PROVE  LogsGrow
  BY StoreDomains, BeginsSelf DEF LogsGrow, store

LEMMA LogGrows ==
  ASSUME StoreOK, NEW r \in DOMAIN runs, NEW event \in EventRecord, Log(r, event)
  PROVE  \A q \in DOMAIN runs : Begins(events[q], events'[q])
<1>1. /\ DOMAIN events = DOMAIN runs /\ events[r] \in Seq(EventRecord)
      /\ \A q \in DOMAIN runs : events[q] \in Seq(EventRecord)
  BY StoreDomains
<1>2. \A q \in DOMAIN runs :
        events'[q] = IF q = r THEN Append(events[q], event) ELSE events[q]
  BY <1>1 DEF Log
<1> QED
  BY <1>1, <1>2, AppendBegins, BeginsSelf

LEMMA UpdateGrows ==
  ASSUME StoreOK, NEW r \in DOMAIN runs, NEW run, Update(r, run),
         UNCHANGED events \/ \E event \in EventRecord : Log(r, event)
  PROVE  LogsGrow
<1>1. Len(runs') = Len(runs)
  BY ExceptSeq, StoreDomains DEF Update, StoreOK
<1>2. \A q \in DOMAIN runs : Begins(events[q], events'[q])
  BY LogGrows, StoreDomains, BeginsSelf
<1> QED
  BY <1>1, <1>2 DEF LogsGrow

LEMMA ScanGrows ==
  ASSUME StoreOK, NEW w \in Workers, NEW last \in Nat, NEW won,
         Scan(w, last, won)
  PROVE  LogsGrow
<1>1. Len(runs') = Len(runs)
  BY ScanFacts
<1>2. ASSUME NEW r \in DOMAIN runs
      PROVE  Begins(events[r], events'[r])
  <2> DEFINE expiry == IF ClaimExpired(runs[r]) THEN <<Event("claim_expired")>>
                       ELSE <<>>
             turn == IF r \in won THEN <<EventOf("claimed", w)>>
                     ELSE IF r <= last /\ Cancellable(r, w)
                          THEN <<Event("cancelled")>>
                     ELSE <<>>
  <2>1. r \in DOMAIN events /\ events[r] \in Seq(EventRecord)
    BY StoreDomains
  <2>2. events'[r] = events[r] \o expiry \o turn
    BY <2>1 DEF Scan
  <2>3. expiry \in Seq(EventRecord) /\ turn \in Seq(EventRecord)
    <3>1. /\ Event("claim_expired") \in EventRecord
          /\ Event("cancelled") \in EventRecord
          /\ EventOf("claimed", w) \in EventRecord
      BY EventType DEF EventTypes
    <3>2. \A e \in EventRecord : <<e>> \in Seq(EventRecord)
      OBVIOUS
    <3>3. <<>> \in Seq(EventRecord)
      OBVIOUS
    <3> QED
      BY <3>1, <3>2, <3>3
  <2> HIDE DEF expiry, turn
  <2>4. /\ events[r] \o expiry \in Seq(EventRecord)
        /\ Begins(events[r], events[r] \o expiry)
        /\ Begins(events[r] \o expiry, events[r] \o expiry \o turn)
    BY <2>1, <2>3, ConcatBegins
  <2> QED
    BY <2>1, <2>2, <2>4, LenProperties DEF Begins
<1> QED
  BY <1>1, <1>2 DEF LogsGrow

LEMMA SettleGrows ==
  ASSUME StoreOK, NEW w \in Workers, job[w] \in DOMAIN runs,
         NEW outcome \in TerminalStatuses, Settle(w, outcome)
  PROVE  LogsGrow
<1> DEFINE final == IF Validates(runs[job[w]].status, outcome)
                    THEN outcome ELSE "FAILED"
<1>1. final \in TerminalStatuses
  BY DEF TerminalStatuses
<1>2. CASE SetFinal(job[w], final)
  <2>1. /\ Update(job[w], MoveTo(runs[job[w]], final))
        /\ Log(job[w], FinalEvent(final))
    BY <1>2 DEF SetFinal
  <2>2. FinalEvent(final) \in EventRecord
    BY <1>1, EventType
  <2> QED
    BY <2>1, <2>2, UpdateGrows
<1>3. CASE UNCHANGED store
  BY <1>3, UnchangedGrows
<1> QED
  BY <1>2, <1>3 DEF Settle

LEMMA ConsumerGrows ==
  ASSUME TypeOK, NEW w \in Workers, Consumer(w)
  PROVE  LogsGrow
<1>1. StoreOK /\ WorkerOK(w)
  BY DEF TypeOK, StoreOK
<1>2. ASSUME ClaimAndGoOn(w)
      PROVE  LogsGrow
  <2>1. CASE ScanFindsNothing(w)
    BY <1>1, <2>1, ScanGrows, StoreDomains DEF ScanFindsNothing
  <2>2. ASSUME NEW r \in DOMAIN runs, ScanClaims(w, r)
        PROVE  LogsGrow
    BY <1>1, <2>2, ScanGrows, StoreDomains DEF ScanClaims
  <2> QED
    BY <1>2, <2>1, <2>2 DEF ClaimAndGoOn, ClaimNothing, AbandonClaim, StartRun
<1>3. pc[w] = "executing" => job[w] \in DOMAIN runs
  BY <1>1 DEF WorkerOK
<1>4. CASE Resume(w) \/ LoopClaimsAtOnce(w)
  BY <1>2, <1>4 DEF Resume, LoopClaimsAtOnce
<1>5. CASE ExecutorReturns(w)
  <2>1. Outcome(w) \in TerminalStatuses
    BY DEF Outcome, TerminalStatuses
  <2> QED
    BY <1>1, <1>3, <1>5, <2>1, SettleGrows DEF ExecutorReturns
<1>6. CASE ExecutorRaises(w)
  <2>1. "FAILED" \in TerminalStatuses
    BY DEF TerminalStatuses
  <2> QED
    BY <1>1, <1>3, <1>6, <2>1, SettleGrows DEF ExecutorRaises
<1>7. CASE \/ NextStep(w) \/ LoopEnds(w) \/ LoopWaits(w) \/ LoopDies(w)
           \/ Unwind(w)
  BY <1>1, <1>7, UnchangedGrows DEF NextStep, LoopEnds, LoopWaits, LoopDies, Unwind
<1> QED
  BY <1>4, <1>5, <1>6, <1>7 DEF Consumer

LEMMA HeartbeatGrows ==
  ASSUME TypeOK, NEW w \in Workers, Heartbeat(w)
  PROVE  LogsGrow
<1>1. StoreOK /\ WorkerOK(w)
  BY DEF TypeOK, StoreOK
<1>2. heartbeat[w] = "beating"
  BY DEF Heartbeat, HeartbeatRenews, HeartbeatLosesLease, HeartbeatFindsNotRunning
<1>3. job[w] \in DOMAIN runs
  BY <1>1, <1>2 DEF WorkerOK
<1>4. CASE HeartbeatRenews(w)
  BY <1>1, <1>3, <1>4, UpdateGrows DEF HeartbeatRenews
<1>5. CASE HeartbeatLosesLease(w)
  <2>1. EventOf("claim_lost", w) \in EventRecord
    BY EventType DEF EventTypes
  <2> QED
    BY <1>1, <1>3, <1>5, <2>1, LogGrows DEF HeartbeatLosesLease, LogsGrow
<1>6. CASE HeartbeatFindsNotRunning(w)
  BY <1>1, <1>6, UnchangedGrows DEF HeartbeatFindsNotRunning
<1> QED
  BY <1>4, <1>5, <1>6 DEF Heartbeat

LEMMA BackgroundGrows ==
  ASSUME TypeOK, Background
  PROVE  LogsGrow
<1>1. StoreOK
  BY DEF TypeOK, StoreOK
<1>2. ASSUME NEW w \in Workers,
             \/ Consumer(w) \/ Heartbeat(w) \/ WaitTimesOut(w)
             \/ ShutdownExecution(w) \/ InfraShutdown(w)
      PROVE  LogsGrow
  BY <1>1, <1>2, ConsumerGrows, HeartbeatGrows, UnchangedGrows
     DEF WaitTimesOut, ShutdownExecution, InfraShutdown, StopExecution
<1>3. ASSUME NEW r \in DOMAIN runs, LeaseExpires(r)
      PROVE  LogsGrow
  BY <1>1, <1>3, UpdateGrows DEF LeaseExpires, LeasePasses
<1>4. ASSUME NEW r \in DOMAIN runs, MarkCancelled(r)
      PROVE  LogsGrow
  <2>1. /\ Update(r, FreshRun("CANCELLED")) /\ Log(r, Event("cancelled"))
        /\ Event("cancelled") \in EventRecord
    BY <1>4, EventType DEF MarkCancelled, MarkRunCancelled, EventTypes
  <2> QED
    BY <1>1, <2>1, UpdateGrows
<1> QED
  BY <1>2, <1>3, <1>4 DEF Background

-----------------------------------------------------------------------------
(* The API adds nothing to what the orchestration does.                    *)

LEMMA ApiStepIsStep == [ApiNext]_apiVars => [Next]_vars
<1> SUFFICES ASSUME [ApiNext]_apiVars PROVE [Next]_vars
  OBVIOUS
<1>1. CASE PostRun
  BY <1>1 DEF PostRun, Next, Clients
<1>2. ASSUME NEW r \in DOMAIN runs, Request(r)
      PROVE  [Next]_vars
  BY <1>2 DEF Request, GetRun, GetEvents, CancelAccepted, CancelRefused, Next, Clients
<1>3. CASE Background
  BY <1>3 DEF Background, Next, Clients
<1>4. CASE UNCHANGED apiVars
  BY <1>4 DEF apiVars
<1> QED
  BY <1>1, <1>2, <1>3, <1>4 DEF ApiNext

\* Every behaviour of the API is, for the variables of the orchestration, one of its
\* behaviours: what is proved of Spec holds under the API.
THEOREM ApiImplementsOrchestration == ApiSpec => Spec
<1>1. ApiInit => Init
  BY DEF ApiInit
<1> QED
  BY <1>1, ApiStepIsStep, PTL DEF ApiSpec, Spec

-----------------------------------------------------------------------------
(* The view of a client.                                                   *)

ViewTypes ==
  /\ view \in Seq(View) /\ Len(view) = Len(runs)
  /\ \A r \in DOMAIN runs :
       view[r].logEnded => view[r].status \in TerminalStatuses

ViewInv == ViewTypes /\ ClientLogIsPrefix /\ TerminalReplyIsTheEnd

\* One client's part of the invariant.
ViewOK(r) ==
  /\ Begins(view[r].log, events[r])
  /\ view[r].logEnded => view[r].status \in TerminalStatuses
  /\ view[r].status \in TerminalStatuses =>
       /\ runs[r].status = view[r].status
       /\ view[r].logEnded => view[r].log = events[r]

LEMMA ViewInvParts ==
  ViewInv <=> /\ view \in Seq(View) /\ Len(view) = Len(runs)
              /\ \A r \in DOMAIN runs : ViewOK(r)
  BY DEF ViewInv, ViewTypes, ClientLogIsPrefix, TerminalReplyIsTheEnd, ViewOK, Begins

\* Fetching what follows a prefix completes it.
LEMMA CatchUp ==
  ASSUME NEW s \in Seq(EventRecord), NEW t \in Seq(EventRecord), Begins(s, t)
  PROVE  s \o SubSeq(t, Len(s) + 1, Len(t)) = t
<1> DEFINE rest == SubSeq(t, Len(s) + 1, Len(t))
<1>1. Len(s) \in Nat /\ Len(t) \in Nat /\ Len(s) <= Len(t)
  BY LenProperties DEF Begins
<1>2. /\ rest \in Seq(EventRecord)
      /\ Len(rest) = Len(t) - Len(s)
      /\ \A i \in 1..Len(rest) : rest[i] = t[Len(s) + i]
  <2>1. \A i \in (Len(s) + 1)..Len(t) : t[i] \in EventRecord
    BY <1>1, ElementOfSeq
  <2> QED
    BY <1>1, <2>1, SubSeqProperties
<1> HIDE DEF rest
<1>3. /\ s \o rest \in Seq(EventRecord) /\ Len(s \o rest) = Len(t)
      /\ \A i \in 1..Len(t) :
           (s \o rest)[i] = IF i <= Len(s) THEN s[i] ELSE rest[i - Len(s)]
  BY <1>1, <1>2, ConcatProperties
<1>4. ASSUME NEW i \in 1..Len(t)
      PROVE  (s \o rest)[i] = t[i]
  <2>1. CASE i <= Len(s)
    BY <1>1, <1>3, <2>1 DEF Begins
  <2>2. CASE i > Len(s)
    <3>1. i - Len(s) \in 1..Len(rest) /\ Len(s) + (i - Len(s)) = i
      BY <1>1, <1>2, <2>2
    <3>2. rest[i - Len(s)] = t[Len(s) + (i - Len(s))]
      BY <1>2, <3>1
    <3>3. (s \o rest)[i] = rest[i - Len(s)]
      BY <1>1, <1>3, <2>2
    <3> QED
      BY <3>1, <3>2, <3>3
  <2>3. i <= Len(s) \/ i > Len(s)
    BY <1>1
  <2> QED
    BY <2>1, <2>2, <2>3
<1>5. s \o rest = t
  BY <1>3, <1>4, SeqEqual
<1> QED
  BY <1>5 DEF rest

LEMMA ViewDomains ==
  ASSUME TypeOK, ViewInv
  PROVE  /\ DOMAIN view = DOMAIN runs
         /\ \A r \in DOMAIN runs : view[r] \in View /\ ViewOK(r)
  BY ViewInvParts, LenProperties, ElementOfSeq DEF TypeOK

\* The clients of runs that a step leaves alone still see a part of what is true.
LEMMA ViewSurvives ==
  ASSUME TypeOK, ViewInv, StoreAdvances, NEW r \in DOMAIN runs, r \in DOMAIN runs',
         Begins(events[r], events'[r]), view'[r].status = view[r].status,
         view'[r].log = view[r].log, view'[r].logEnded = view[r].logEnded
  PROVE  ViewOK(r)'
<1>1. ViewOK(r) /\ view[r] \in View
  BY ViewDomains
<1>2. view[r].log \in Seq(EventRecord) /\ events[r] \in Seq(EventRecord)
  BY <1>1, StoreDomains, TypeOKParts DEF View
<1>3. events'[r] \in Seq(EventRecord)
  BY LenProperties, ElementOfSeq DEF StoreAdvances, StoreOK
<1>4. Len(view[r].log) \in Nat /\ Len(events[r]) \in Nat /\ Len(events'[r]) \in Nat
  BY <1>2, <1>3, LenProperties
<1>5. Begins(view'[r].log, events'[r])
  BY <1>1, <1>4 DEF ViewOK, Begins
<1>6. view[r].status \in TerminalStatuses =>
        runs'[r] = runs[r] /\ events'[r] = events[r]
  <2>1. RunStep(r)
    BY DEF StoreAdvances
  <2> QED
    BY <1>1, <2>1 DEF RunStep, ViewOK
<1> QED
  BY <1>1, <1>5, <1>6 DEF ViewOK

\* A step of the workers: no client is told anything.
LEMMA BackgroundKeepsView ==
  ASSUME TypeOK, ViewInv, StoreAdvances, LogsGrow, UNCHANGED view
  PROVE  ViewInv'
<1>1. DOMAIN runs' = DOMAIN runs
  BY LenProperties DEF StoreAdvances, StoreOK, LogsGrow, TypeOK
<1>2. \A r \in DOMAIN runs : ViewOK(r)'
  BY <1>1, ViewSurvives DEF LogsGrow
<1>3. view' \in Seq(View) /\ Len(view') = Len(runs')
  BY ViewInvParts DEF LogsGrow
<1>4. ViewInv' <=> /\ view' \in Seq(View) /\ Len(view') = Len(runs')
                   /\ \A r \in DOMAIN runs' : ViewOK(r)'
  BY DEF ViewInv, ViewTypes, ClientLogIsPrefix, TerminalReplyIsTheEnd, ViewOK,
         Begins
<1> QED
  BY <1>1, <1>2, <1>3, <1>4

\* A request of one client changes nothing but its own view.
LEMMA OneViewChanges ==
  ASSUME TypeOK, ViewInv, UNCHANGED vars, NEW r \in DOMAIN runs, NEW v \in View,
         view' = [view EXCEPT ![r] = v], ViewOK(r)'
  PROVE  ViewInv'
<1>1. /\ DOMAIN view = DOMAIN runs /\ DOMAIN runs = 1..Len(runs)
      /\ view \in Seq(View) /\ Len(view) = Len(runs)
  BY ViewDomains, ViewInvParts, LenProperties DEF TypeOK
<1>2. /\ view' \in Seq(View) /\ Len(view') = Len(view)
      /\ \A q \in DOMAIN runs : q # r => view'[q] = view[q]
  BY <1>1, ExceptSeq
<1>3. runs' = runs /\ events' = events
  BY DEF vars
<1>4. \A q \in DOMAIN runs : q # r => ViewOK(q)'
  BY <1>2, <1>3, ViewDomains DEF ViewOK
<1>5. \A q \in DOMAIN runs' : ViewOK(q)'
  BY <1>3, <1>4
<1> QED
  BY <1>1, <1>2, <1>3, <1>5
     DEF ViewInv, ViewTypes, ClientLogIsPrefix, TerminalReplyIsTheEnd, ViewOK, Begins

LEMMA GetRunKeepsView ==
  ASSUME TypeOK, ViewInv, NEW r \in DOMAIN runs, GetRun(r)
  PROVE  ViewInv'
<1> DEFINE v == [view[r] EXCEPT !.status = runs[r].status]
<1>1. /\ view[r] \in View /\ ViewOK(r) /\ r \in DOMAIN view
      /\ runs[r] \in RunRecord
  BY ViewDomains, StoreDomains, TypeOKParts
<1>2. UNCHANGED vars /\ view' = [view EXCEPT ![r] = v]
  BY <1>1 DEF GetRun
<1>3. /\ v \in View /\ v.status = runs[r].status
      /\ v.log = view[r].log /\ v.logEnded = view[r].logEnded
  BY <1>1 DEF View, RunRecord
<1> HIDE DEF v
<1>4. view'[r] = v /\ runs' = runs /\ events' = events
  BY <1>1, <1>2 DEF vars
<1>5. ViewOK(r)'
  BY <1>1, <1>3, <1>4 DEF ViewOK
<1> QED
  BY <1>2, <1>3, <1>5, OneViewChanges

LEMMA GetEventsKeepsView ==
  ASSUME TypeOK, ViewInv, NEW r \in DOMAIN runs, GetEvents(r)
  PROVE  ViewInv'
<1> DEFINE ended == view[r].status \in TerminalStatuses
           v == [view[r] EXCEPT !.log = @ \o EventsAfter(r, Len(@)),
                                !.logEnded = ended]
<1>1. /\ view[r] \in View /\ ViewOK(r) /\ r \in DOMAIN view
      /\ events[r] \in Seq(EventRecord)
  BY ViewDomains, StoreDomains, TypeOKParts
<1>2. UNCHANGED vars /\ view' = [view EXCEPT ![r] = v]
  BY <1>1 DEF GetEvents
<1>3. view[r].log \in Seq(EventRecord) /\ Begins(view[r].log, events[r])
  BY <1>1 DEF View, ViewOK
<1>4. view[r].log \o EventsAfter(r, Len(view[r].log)) = events[r]
  BY <1>1, <1>3, CatchUp DEF EventsAfter
<1>5. v = [view[r] EXCEPT !.log = events[r], !.logEnded = ended]
  BY <1>4
<1>6. ended \in BOOLEAN /\ (ended <=> view[r].status \in TerminalStatuses)
  OBVIOUS
<1> HIDE DEF v, ended
<1>10. /\ v \in View /\ v.log = events[r] /\ v.logEnded = ended
       /\ v.status = view[r].status
  BY <1>1, <1>5, <1>6 DEF View
<1>7. view'[r] = v /\ runs' = runs /\ events' = events
  BY <1>1, <1>2 DEF vars
<1>8. Begins(events[r], events[r])
  BY <1>1, BeginsSelf
<1>9. ViewOK(r)'
  BY <1>1, <1>6, <1>7, <1>8, <1>10 DEF ViewOK
<1> QED
  BY <1>2, <1>9, <1>10, OneViewChanges

LEMMA RefusalKeepsView ==
  ASSUME TypeOK, ViewInv, NEW r \in DOMAIN runs, CancelRefused(r)
  PROVE  ViewInv'
<1> DEFINE v == [view[r] EXCEPT !.reply = "already_terminal"]
<1>1. view[r] \in View /\ ViewOK(r) /\ r \in DOMAIN view
  BY ViewDomains
<1>2. UNCHANGED vars /\ view' = [view EXCEPT ![r] = v]
  BY <1>1 DEF CancelRefused
<1>3. /\ v \in View /\ v.status = view[r].status
      /\ v.log = view[r].log /\ v.logEnded = view[r].logEnded
  BY <1>1 DEF View, Replies
<1> HIDE DEF v
<1>4. view'[r] = v /\ runs' = runs /\ events' = events
  BY <1>1, <1>2 DEF vars
<1>5. ViewOK(r)'
  BY <1>1, <1>3, <1>4 DEF ViewOK
<1> QED
  BY <1>2, <1>3, <1>5, OneViewChanges

LEMMA AcceptanceKeepsView ==
  ASSUME TypeOK, ViewInv, StoreAdvances, NEW r \in DOMAIN runs, CancelAccepted(r)
  PROVE  ViewInv'
<1> DEFINE v == [view[r] EXCEPT !.reply = "cancel_requested", !.acked = TRUE]
<1>1. /\ view[r] \in View /\ r \in DOMAIN view /\ DOMAIN view = DOMAIN runs
      /\ view \in Seq(View) /\ Len(view) = Len(runs) /\ DOMAIN runs = 1..Len(runs)
  BY ViewDomains, ViewInvParts, LenProperties DEF TypeOK
<1>2. /\ Update(r, WithCancelRequested(runs[r]))
      /\ Log(r, Event("cancel requested"))
      /\ view' = [view EXCEPT ![r] = v]
  BY <1>1 DEF CancelAccepted, CancelRun, RequestCancellation
<1>3. /\ v \in View /\ v.status = view[r].status
      /\ v.log = view[r].log /\ v.logEnded = view[r].logEnded
  BY <1>1 DEF View, Replies
<1> HIDE DEF v
<1>4. LogsGrow
  BY <1>2, UpdateGrows, EventType, TypeOKParts DEF EventTypes
<1>5. DOMAIN runs' = DOMAIN runs
  BY <1>4, LenProperties DEF StoreAdvances, StoreOK, LogsGrow, TypeOK
<1>6. /\ view' \in Seq(View) /\ Len(view') = Len(view)
      /\ \A q \in DOMAIN runs : view'[q] = IF q = r THEN v ELSE view[q]
  BY <1>1, <1>2, <1>3, ExceptSeq
<1>7. \A q \in DOMAIN runs : ViewOK(q)'
  BY <1>3, <1>4, <1>5, <1>6, ViewSurvives DEF LogsGrow
<1> QED
  BY <1>1, <1>4, <1>5, <1>6, <1>7
     DEF ViewInv, ViewTypes, ClientLogIsPrefix, TerminalReplyIsTheEnd, ViewOK, Begins,
         LogsGrow

LEMMA PostRunKeepsView ==
  ASSUME TypeOK, ViewInv, StoreAdvances, PostRun
  PROVE  ViewInv'
<1> DEFINE n == Len(runs)
<1>1. /\ runs' = Append(runs, FreshRun("ENQUEUED"))
      /\ events' = Append(events, <<Event("created"), Event("enqueued")>>)
      /\ view' = Append(view, NewView)
  BY DEF PostRun, CreateRun, CreateEnqueued
<1>2. /\ n \in Nat /\ DOMAIN runs = 1..n /\ Len(events) = n
      /\ view \in Seq(View) /\ Len(view) = n
  BY ViewInvParts, StoreDomains, TypeOKParts DEF TypeOK
<1>3. FreshRun("ENQUEUED") \in RunRecord
  BY FreshRunType DEF RestingStatuses
<1>4. /\ NewView \in View /\ NewView.status = NoStatus /\ NewView.log = <<>>
      /\ NewView.logEnded = FALSE
  BY DEF NewView, View, Replies
<1>5. Len(runs') = n + 1 /\ DOMAIN runs' = 1..(n + 1)
  BY <1>1, <1>2, <1>3, AppendProperties DEF TypeOK
<1>6. /\ view' \in Seq(View) /\ Len(view') = n + 1
      /\ \A r \in 1..n : view'[r] = view[r]
      /\ view'[n + 1] = NewView
  BY <1>1, <1>2, <1>4, AppendProperties
<1>7. \A r \in 1..n : events'[r] = events[r]
  BY <1>1, <1>2, AppendProperties DEF TypeOK
<1>8. ASSUME NEW r \in 1..n
      PROVE  ViewOK(r)'
  <2>1. Begins(events[r], events'[r])
    BY <1>2, <1>7, BeginsSelf, StoreDomains, TypeOKParts
  <2> QED
    BY <1>2, <1>5, <1>6, <2>1, ViewSurvives
<1>9. ASSUME NEW r \in DOMAIN runs', r = n + 1
      PROVE  ViewOK(r)'
  <2>1. Len(events'[r]) \in Nat
    BY LenProperties, ElementOfSeq DEF StoreAdvances, StoreOK
  <2>2. NoStatus \notin TerminalStatuses
    BY DEF NoStatus, TerminalStatuses
  <2>3. Len(NewView.log) = 0 /\ view'[r] = NewView
    BY <1>4, <1>6, <1>9
  <2>4. Begins(view'[r].log, events'[r])
    BY <1>4, <2>1, <2>3 DEF Begins
  <2> QED
    BY <1>4, <2>2, <2>3, <2>4 DEF ViewOK
<1>10. \A r \in DOMAIN runs' : ViewOK(r)'
  <2> SUFFICES ASSUME NEW r \in DOMAIN runs' PROVE ViewOK(r)'
    OBVIOUS
  <2>1. r \in 1..n \/ r = n + 1
    BY <1>2, <1>5
  <2> QED
    BY <1>8, <1>9, <2>1
<1> QED
  BY <1>5, <1>6, <1>10
     DEF ViewInv, ViewTypes, ClientLogIsPrefix, TerminalReplyIsTheEnd, ViewOK, Begins

LEMMA InitView == ApiInit => ViewInv
  BY DEF ApiInit, Init, ViewInv, ViewTypes, ClientLogIsPrefix, TerminalReplyIsTheEnd

LEMMA StepKeepsView == TypeOK /\ ViewInv /\ [ApiNext]_apiVars => ViewInv'
<1> SUFFICES ASSUME TypeOK, ViewInv, [ApiNext]_apiVars
             PROVE  ViewInv'
  OBVIOUS
<1>1. StoreAdvances
  BY ApiStepIsStep, NextAdvances
<1>2. CASE PostRun
  BY <1>1, <1>2, PostRunKeepsView
<1>3. ASSUME NEW r \in DOMAIN runs, Request(r)
      PROVE  ViewInv'
  BY <1>1, <1>3, GetRunKeepsView, GetEventsKeepsView, AcceptanceKeepsView,
     RefusalKeepsView DEF Request
<1>4. CASE Background /\ UNCHANGED view
  BY <1>1, <1>4, BackgroundGrows, BackgroundKeepsView
<1>5. CASE UNCHANGED apiVars
  BY <1>5 DEF apiVars, vars, ViewInv, ViewTypes, ClientLogIsPrefix,
              TerminalReplyIsTheEnd, store
<1> QED
  BY <1>2, <1>3, <1>4, <1>5 DEF ApiNext

LEMMA ViewInvariant == ApiSpec => []ViewInv
<1>1. ApiSpec => []TypeOK
  BY ApiImplementsOrchestration, TypeCorrect, PTL
<1> QED
  BY <1>1, InitView, StepKeepsView, PTL DEF ApiSpec

\* However requests and the steps of the workers interleave, the events a client
\* paged through by sequence number are a prefix of the run's stream.
THEOREM ClientsSeeAPrefix == ApiSpec => []ClientLogIsPrefix
<1>1. ViewInv => ClientLogIsPrefix
  BY DEF ViewInv
<1> QED
  BY <1>1, ViewInvariant, PTL

\* The first terminal status a client sees is final, and the events it fetches
\* after it are complete.
THEOREM TerminalRepliesAreFinal == ApiSpec => []TerminalReplyIsTheEnd
<1>1. ViewInv => TerminalReplyIsTheEnd
  BY DEF ViewInv
<1> QED
  BY <1>1, ViewInvariant, PTL

-----------------------------------------------------------------------------
(* The replies to cancellation requests.                                   *)

\* One client's part of CancelRepliesHold; that an acknowledged run does not succeed
\* follows from it and from NoSuccessAfterCancelRequest.
ReplyOK(r) ==
  /\ view[r].acked => runs[r].cancel_requested \/ runs[r].status = "CANCELLED"
  /\ view[r].reply = "already_terminal" =>
       runs[r].cancel_requested \/ runs[r].status \in TerminalStatuses

ReplyInv == \A r \in DOMAIN runs : ReplyOK(r)

\* What a step tells the client of run r about its cancellation.
LEMMA RepliesAreGiven ==
  ASSUME TypeOK, ViewInv, ApiNext, NEW r \in DOMAIN runs
  PROVE  /\ view'[r].acked => view[r].acked \/ runs'[r].cancel_requested
         /\ view'[r].reply = "already_terminal" =>
              \/ view[r].reply = "already_terminal"
              \/ runs'[r] = runs[r] /\ ~MayRequestCancellation(runs[r])
<1>1. /\ DOMAIN view = DOMAIN runs /\ DOMAIN runs = 1..Len(runs)
      /\ view \in Seq(View) /\ Len(view) = Len(runs) /\ view[r] \in View
  BY ViewDomains, ViewInvParts, LenProperties DEF TypeOK
<1>2. CASE PostRun
  <2>1. view' = Append(view, NewView) /\ NewView \in View
    BY <1>2 DEF PostRun, NewView, View, Replies
  <2>2. view'[r] = view[r]
    BY <1>1, <2>1, AppendProperties
  <2> QED
    BY <2>2
<1>3. ASSUME NEW q \in DOMAIN runs, Request(q), q # r
      PROVE  view'[r] = view[r]
  BY <1>1, <1>3 DEF Request, GetRun, GetEvents, CancelAccepted, CancelRefused
<1>4. CASE GetRun(r) \/ GetEvents(r)
  <2>1. CASE GetRun(r)
    <3>1. view'[r] = [view[r] EXCEPT !.status = runs[r].status]
      BY <1>1, <2>1 DEF GetRun
    <3> QED
      BY <1>1, <3>1 DEF View
  <2>2. CASE GetEvents(r)
    <3> DEFINE log == view[r].log \o EventsAfter(r, Len(view[r].log))
               ended == view[r].status \in TerminalStatuses
    <3>1. view'[r] = [view[r] EXCEPT !.log = log, !.logEnded = ended]
      BY <1>1, <2>2 DEF GetEvents
    <3> HIDE DEF log, ended
    <3> QED
      BY <1>1, <3>1 DEF View
  <2> QED
    BY <1>4, <2>1, <2>2
<1>5. CASE CancelAccepted(r)
  <2>1. runs[r] \in RunRecord /\ StoreOK
    BY StoreDomains, TypeOKParts
  <2>2. Update(r, WithCancelRequested(runs[r]))
    BY <1>5 DEF CancelAccepted, CancelRun, RequestCancellation
  <2>3. runs'[r].cancel_requested
    BY <2>1, <2>2, RewrittenTypes, UpdateFacts
       DEF StoreOK, WithCancelRequested, RunRecord
  <2>4. view'[r].reply = "cancel_requested"
    BY <1>1, <1>5 DEF CancelAccepted, View
  <2> QED
    BY <2>3, <2>4
<1>6. CASE CancelRefused(r)
  <2>1. runs' = runs /\ ~MayRequestCancellation(runs[r])
    BY <1>6 DEF CancelRefused, vars
  <2>2. view'[r].acked = view[r].acked
    BY <1>1, <1>6 DEF CancelRefused, View
  <2> QED
    BY <2>1, <2>2
<1>7. CASE UNCHANGED view
  BY <1>7
<1> QED
  BY <1>2, <1>3, <1>4, <1>5, <1>6, <1>7 DEF ApiNext, Request

\* A run that a step creates has a client that was told nothing.
LEMMA NewClientsKnowNothing ==
  ASSUME TypeOK, ViewInv, ApiNext, NEW r \in DOMAIN runs' \ DOMAIN runs
  PROVE  view'[r] = NewView
<1>1. /\ DOMAIN runs = 1..Len(runs) /\ Len(runs) \in Nat
      /\ view \in Seq(View) /\ Len(view) = Len(runs)
  BY ViewInvParts, LenProperties DEF TypeOK
<1>2. CASE PostRun
  <2>1. /\ runs' = Append(runs, FreshRun("ENQUEUED")) /\ view' = Append(view, NewView)
        /\ FreshRun("ENQUEUED") \in RunRecord /\ NewView \in View
    BY <1>2, FreshRunType
       DEF PostRun, CreateRun, CreateEnqueued, RestingStatuses, NewView, View, Replies
  <2>2. DOMAIN runs' = 1..(Len(runs) + 1)
    BY <1>1, <2>1, AppendProperties DEF TypeOK
  <2>3. r = Len(view) + 1
    BY <1>1, <2>2
  <2> QED
    BY <1>1, <2>1, <2>3, AppendProperties
<1>3. CASE ~PostRun
  <2>1. Len(runs') = Len(runs)
    <3>1. ASSUME NEW q \in DOMAIN runs, Request(q)
          PROVE  Len(runs') = Len(runs)
      BY <1>1, <3>1, ExceptSeq DEF Request, GetRun, GetEvents, CancelAccepted, CancelRun,
             RequestCancellation, Update, CancelRefused, vars, TypeOK
    <3> QED
      BY <1>3, <3>1, BackgroundGrows DEF ApiNext, LogsGrow
  <2>2. DOMAIN runs' = 1..Len(runs')
    <3>1. StoreAdvances
      BY ApiStepIsStep, NextAdvances
    <3> QED
      BY <3>1, LenProperties DEF StoreAdvances, StoreOK
  <2> QED
    BY <1>1, <2>1, <2>2
<1> QED
  BY <1>2, <1>3

LEMMA StepKeepsReplies ==
  TypeOK /\ ViewInv /\ ReplyInv /\ [ApiNext]_apiVars => ReplyInv'
<1> SUFFICES ASSUME TypeOK, ViewInv, ReplyInv, [ApiNext]_apiVars
             PROVE  ReplyInv'
  OBVIOUS
<1>1. CASE UNCHANGED apiVars
  BY <1>1 DEF apiVars, vars, ReplyInv, ReplyOK
<1>2. CASE ApiNext
  <2>1. StoreAdvances
    BY ApiStepIsStep, NextAdvances
  <2>2. ASSUME NEW r \in DOMAIN runs'
        PROVE  ReplyOK(r)'
    <3>1. CASE r \in DOMAIN runs
      <4>1. RunStep(r) /\ ReplyOK(r)
        BY <2>1, <3>1 DEF StoreAdvances, ReplyInv
      <4>2. runs[r].cancel_requested =>
              runs'[r].cancel_requested \/ runs'[r].status = "CANCELLED"
        BY <4>1 DEF RunStep
      <4>3. runs[r].status \in TerminalStatuses => runs'[r] = runs[r]
        BY <4>1 DEF RunStep
      <4> QED
        BY <1>2, <3>1, <4>1, <4>2, <4>3, RepliesAreGiven
           DEF ReplyOK, MayRequestCancellation, TerminalStatuses
    <3>2. CASE r \notin DOMAIN runs
      BY <1>2, <3>2, NewClientsKnowNothing DEF ReplyOK, NewView
    <3> QED
      BY <3>1, <3>2
  <2> QED
    BY <2>2 DEF ReplyInv
<1> QED
  BY <1>1, <1>2

\* What cancel_agent_run answered stays true for any number of workers, runs and
\* retries and any timing, also under callers of the deprecated mark_cancelled.
THEOREM CancelRepliesAreTrue == ApiSpec => []CancelRepliesHold
<1>1. ApiInit => ReplyInv
  BY DEF ApiInit, Init, ReplyInv
<1>2. ApiSpec => [](TypeOK /\ NoSuccessAfterCancelRequest)
  BY ApiImplementsOrchestration, TypeCorrect, CancelRequestPreventsSuccess, PTL
<1>3. ReplyInv /\ NoSuccessAfterCancelRequest => CancelRepliesHold
  BY DEF ReplyInv, ReplyOK, NoSuccessAfterCancelRequest, CancelRepliesHold
<1> QED
  BY <1>1, <1>2, <1>3, ViewInvariant, StepKeepsReplies, PTL DEF ApiSpec

=============================================================================
