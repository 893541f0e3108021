------------------------ MODULE AuthenticationProofs ------------------------
(***************************************************************************)
(* The authentication for any number of concurrent requests, any keys and  *)
(* any rotations and failures of the provider.                             *)
(***************************************************************************)
EXTENDS Authentication, TLAPS

\* What every key set lies between that the provider ever sent.
WasPublished(keys) == constant \subseteq keys /\ keys \subseteq ever

KeySetsWerePublished ==
  /\ WasPublished(published)
  /\ jwksCache # NoKeys => WasPublished(jwksCache)
  /\ \A r \in Requests : reply[r] # NoKeys => WasPublished(reply[r])

\* A verdict s on request r, which goes on to the given stage.
Honest(r, stage, s) ==
  /\ s = "401" /\ call[r].token # NoToken /\ call[r].token.defect = "none"
     => call[r].token.key \notin constant
  /\ stage = "serving" \/ s = "served" =>
       \/ Excluded(call[r].path)
       \/ /\ ContextToken(call[r]).defect = "none"
          /\ ContextToken(call[r]).key \in ever

\* There is none before the answer, and a request whose token is validated has one.
Ordered(r, stage, s) ==
  /\ stage # "answered" => s = "pending"
  /\ stage \in {"metadata", "keys", "keys sent"} => ContextToken(call[r]) # NoToken

RequestOK(r) == Honest(r, pc[r], status[r]) /\ Ordered(r, pc[r], status[r])

IInv ==
  /\ TypeOK
  /\ KeySetsWerePublished
  /\ \A r \in Requests : RequestOK(r)

LEMMA InitHolds == Init => IInv
  BY NoKeyAssumption
     DEF Init, IInv, TypeOK, KeySetsWerePublished, WasPublished, RequestOK, Honest,
         Ordered, Stages, Statuses, KeySets, NoKeys

-----------------------------------------------------------------------------
(* What a request does to itself.                                          *)

\* Request r takes the stage and the status given, the others stay.
Becomes(r, stage, s) ==
  pc' = [pc EXCEPT ![r] = stage] /\ status' = [status EXCEPT ![r] = s]

\* Where a request may go, and what it may be told.
MayBecome(r, stage, s) ==
  /\ stage \in Stages /\ s \in Statuses
  /\ Honest(r, stage, s) /\ Ordered(r, stage, s)
  /\ Becomes(r, stage, s)

LEMMA ContextTokenIsItsOwn ==
  ASSUME NEW c \in Calls, ContextToken(c) # NoToken
  PROVE  ContextToken(c) = c.token /\ c.token \in Tokens
  BY DEF ContextToken, Calls

LEMMA GotoIsBecomes ==
  ASSUME TypeOK, NEW r \in Requests, RequestOK(r), pc[r] # "answered",
         NEW stage \in Stages, Goto(r, stage)
  PROVE  Becomes(r, stage, "pending") /\ status[r] = "pending"
  BY DEF TypeOK, RequestOK, Ordered, Goto, Becomes

\* A validation with keys that were published ends in an honest verdict.
LEMMA ValidateIsHonest ==
  ASSUME TypeOK, NEW r \in Requests, RequestOK(r), pc[r] # "answered",
         NEW keys, WasPublished(keys), ContextToken(call[r]) # NoToken,
         Validate(r, keys)
  PROVE  \E stage \in {"serving", "answered"}, s \in Statuses : MayBecome(r, stage, s)
<1>1. ContextToken(call[r]) = call[r].token
  BY ContextTokenIsItsOwn DEF TypeOK
<1>2. CASE Accepts(call[r].token, keys)
  <2>1. Becomes(r, "serving", "pending")
    BY <1>1, <1>2, GotoIsBecomes DEF Validate, Stages
  <2>2. call[r].token.defect = "none" /\ call[r].token.key \in ever
    BY <1>2 DEF Accepts, WasPublished
  <2>3. Honest(r, "serving", "pending") /\ Ordered(r, "serving", "pending")
    BY <1>1, <2>2 DEF Honest, Ordered
  <2> QED
    BY <2>1, <2>3 DEF MayBecome, Stages, Statuses
<1>3. CASE ~Accepts(call[r].token, keys)
  <2>1. PICK s \in {"500", "401"} : Becomes(r, "answered", s)
    BY <1>1, <1>3 DEF Validate, Answer, Becomes
  <2>2. call[r].token.defect = "none" => call[r].token.key \notin constant
    BY <1>3 DEF Accepts, WasPublished
  <2>3. Honest(r, "answered", s) /\ Ordered(r, "answered", s)
    BY <2>2 DEF Honest, Ordered
  <2> QED
    BY <2>1, <2>3 DEF MayBecome, Stages, Statuses
<1> QED
  BY <1>2, <1>3

LEMMA WithKeysIsHonest ==
  ASSUME TypeOK, KeySetsWerePublished, NEW r \in Requests, RequestOK(r),
         pc[r] # "answered", ContextToken(call[r]) # NoToken, WithKeys(r)
  PROVE  \E stage \in {"keys", "serving", "answered"}, s \in Statuses :
           MayBecome(r, stage, s)
<1>1. CASE jwksCache = NoKeys
  <2>1. Becomes(r, "keys", "pending")
    BY <1>1, GotoIsBecomes DEF WithKeys, Stages
  <2>2. Honest(r, "keys", "pending") /\ Ordered(r, "keys", "pending")
    BY DEF Honest, Ordered
  <2> QED
    BY <2>1, <2>2 DEF MayBecome, Stages, Statuses
<1>2. CASE jwksCache # NoKeys
  BY <1>2, ValidateIsHonest DEF WithKeys, KeySetsWerePublished
<1> QED
  BY <1>1, <1>2

\* The step of one request keeps the invariant if its key set does.
LEMMA RequestStepKeeps ==
  ASSUME IInv, NEW r \in Requests, NEW stage, NEW s, MayBecome(r, stage, s),
         UNCHANGED <<call, provider>>, metadataCached' \in BOOLEAN,
         NEW keys \in KeySets \cup {NoKeys}, reply' = [reply EXCEPT ![r] = keys],
         keys # NoKeys <=> stage = "keys sent",
         keys # NoKeys => WasPublished(keys),
         jwksCache' \in KeySets \cup {NoKeys},
         jwksCache' # NoKeys => WasPublished(jwksCache')
  PROVE  IInv'
<1>1. /\ \A q \in Requests : pc'[q] = IF q = r THEN stage ELSE pc[q]
      /\ \A q \in Requests : status'[q] = IF q = r THEN s ELSE status[q]
      /\ \A q \in Requests : reply'[q] = IF q = r THEN keys ELSE reply[q]
  BY DEF MayBecome, Becomes, IInv, TypeOK
<1>2. call' = call /\ constant' = constant /\ ever' = ever /\ published' = published
  BY DEF provider
<1>3. TypeOK'
  <2>1. /\ pc' \in [Requests -> Stages] /\ status' \in [Requests -> Statuses]
        /\ reply' \in [Requests -> KeySets \cup {NoKeys}]
    BY DEF MayBecome, Becomes, IInv, TypeOK
  <2>2. \A q \in Requests : reply'[q] # NoKeys <=> pc'[q] = "keys sent"
    BY <1>1 DEF IInv, TypeOK
  <2> QED
    BY <1>2, <2>1, <2>2 DEF IInv, TypeOK
<1>4. KeySetsWerePublished'
  BY <1>1, <1>2 DEF IInv, KeySetsWerePublished, WasPublished
<1>5. ASSUME NEW q \in Requests
      PROVE  RequestOK(q)'
  BY <1>1, <1>2 DEF IInv, RequestOK, Honest, Ordered, MayBecome
<1> QED
  BY <1>3, <1>4, <1>5 DEF IInv

-----------------------------------------------------------------------------
(* The actions.                                                            *)

\* A step that neither sends nor receives keys.
LEMMA QuietStepKeeps ==
  ASSUME IInv, NEW r \in Requests, NEW stage, NEW s, MayBecome(r, stage, s),
         pc[r] # "keys sent", stage # "keys sent", metadataCached' \in BOOLEAN,
         UNCHANGED <<call, reply, jwksCache, provider>>
  PROVE  IInv'
<1>1. reply[r] = NoKeys /\ reply' = [reply EXCEPT ![r] = NoKeys]
  BY DEF IInv, TypeOK
<1> QED
  BY <1>1, RequestStepKeeps DEF IInv, TypeOK, KeySetsWerePublished

LEMMA ArriveKeeps ==
  ASSUME IInv, NEW r \in Requests, Arrive(r)
  PROVE  IInv'
<1>1. /\ TypeOK /\ KeySetsWerePublished /\ RequestOK(r) /\ pc[r] = "idle"
      /\ metadataCached' \in BOOLEAN
      /\ UNCHANGED <<call, reply, jwksCache, provider>>
  BY DEF IInv, TypeOK, Arrive, caches
<1>2. CASE Excluded(call[r].path) /\ Goto(r, "serving")
  <2>1. Becomes(r, "serving", "pending")
    BY <1>1, <1>2, GotoIsBecomes DEF Stages
  <2>2. Honest(r, "serving", "pending") /\ Ordered(r, "serving", "pending")
    BY <1>2 DEF Honest, Ordered
  <2> QED
    BY <1>1, <2>1, <2>2, QuietStepKeeps DEF MayBecome, Stages, Statuses
<1>3. CASE Answer(r, "500")
  <2>1. Becomes(r, "answered", "500")
    BY <1>3 DEF Answer, Becomes
  <2>2. Honest(r, "answered", "500") /\ Ordered(r, "answered", "500")
    BY DEF Honest, Ordered
  <2> QED
    BY <1>1, <2>1, <2>2, QuietStepKeeps DEF MayBecome, Stages, Statuses
<1>4. CASE ContextToken(call[r]) # NoToken /\ WithKeys(r)
  BY <1>1, <1>4, WithKeysIsHonest, QuietStepKeeps
<1>5. CASE ContextToken(call[r]) # NoToken /\ Goto(r, "metadata")
  <2>1. Becomes(r, "metadata", "pending")
    BY <1>1, <1>5, GotoIsBecomes DEF Stages
  <2>2. Honest(r, "metadata", "pending") /\ Ordered(r, "metadata", "pending")
    BY <1>5 DEF Honest, Ordered
  <2> QED
    BY <1>1, <2>1, <2>2, QuietStepKeeps DEF MayBecome, Stages, Statuses
<1> QED
  BY <1>2, <1>3, <1>4, <1>5 DEF Arrive

LEMMA MetadataArriveKeeps ==
  ASSUME IInv, NEW r \in Requests, MetadataArrive(r)
  PROVE  IInv'
<1>1. /\ TypeOK /\ KeySetsWerePublished /\ RequestOK(r) /\ pc[r] = "metadata"
      /\ ContextToken(call[r]) # NoToken
  BY DEF IInv, MetadataArrive, RequestOK, Ordered
<1>2. PICK stage \in {"keys", "serving", "answered"}, s \in Statuses :
        MayBecome(r, stage, s)
  BY <1>1, WithKeysIsHonest DEF MetadataArrive
<1>3. metadataCached' \in BOOLEAN /\ UNCHANGED <<call, reply, jwksCache, provider>>
  BY DEF MetadataArrive
<1>4. pc[r] # "keys sent" /\ stage # "keys sent"
  BY <1>1
<1> QED
  BY <1>2, <1>3, <1>4, QuietStepKeeps

LEMMA KeysSentKeeps ==
  ASSUME IInv, NEW r \in Requests, KeysSent(r)
  PROVE  IInv'
<1>1. /\ TypeOK /\ KeySetsWerePublished /\ RequestOK(r) /\ pc[r] = "keys"
      /\ ContextToken(call[r]) # NoToken
  BY DEF IInv, KeysSent, RequestOK, Ordered
<1>2. Becomes(r, "keys sent", "pending")
  BY <1>1, GotoIsBecomes DEF KeysSent, Stages
<1>3. Honest(r, "keys sent", "pending") /\ Ordered(r, "keys sent", "pending")
  BY <1>1 DEF Honest, Ordered
<1>4. published \in KeySets /\ published # NoKeys /\ WasPublished(published)
  BY <1>1, NoKeyAssumption DEF TypeOK, KeySetsWerePublished, KeySets, NoKeys
<1>5. MayBecome(r, "keys sent", "pending")
  BY <1>2, <1>3 DEF MayBecome, Stages, Statuses
<1>6. jwksCache' # NoKeys => WasPublished(jwksCache')
  BY <1>1 DEF KeysSent, caches, KeySetsWerePublished
<1> QED
  BY <1>1, <1>4, <1>5, <1>6, RequestStepKeeps DEF KeysSent, caches, TypeOK

LEMMA KeysArriveKeeps ==
  ASSUME IInv, NEW r \in Requests, KeysArrive(r)
  PROVE  IInv'
<1>1. /\ TypeOK /\ KeySetsWerePublished /\ RequestOK(r) /\ pc[r] = "keys sent"
      /\ ContextToken(call[r]) # NoToken
  BY DEF IInv, KeysArrive, RequestOK, Ordered
<1>2. reply[r] \in KeySets /\ reply[r] # NoKeys /\ WasPublished(reply[r])
  BY <1>1 DEF TypeOK, KeySetsWerePublished
<1>3. PICK stage \in {"serving", "answered"}, s \in Statuses : MayBecome(r, stage, s)
  BY <1>1, <1>2, ValidateIsHonest DEF KeysArrive
<1> QED
  BY <1>1, <1>2, <1>3, RequestStepKeeps DEF KeysArrive, TypeOK

LEMMA FetchFailsKeeps ==
  ASSUME IInv, NEW r \in Requests, FetchFails(r)
  PROVE  IInv'
<1>1. Becomes(r, "answered", "500")
  BY DEF FetchFails, Answer, Becomes
<1>2. Honest(r, "answered", "500") /\ Ordered(r, "answered", "500")
  BY DEF Honest, Ordered
<1>3. MayBecome(r, "answered", "500")
  BY <1>1, <1>2 DEF MayBecome, Stages, Statuses
<1>4. jwksCache' # NoKeys => WasPublished(jwksCache')
  BY DEF FetchFails, caches, IInv, KeySetsWerePublished
<1>5. /\ reply' = [reply EXCEPT ![r] = NoKeys] /\ UNCHANGED <<call, provider>>
      /\ metadataCached' \in BOOLEAN /\ jwksCache' \in KeySets \cup {NoKeys}
  BY DEF FetchFails, caches, IInv, TypeOK
<1>6. NoKeys \in KeySets \cup {NoKeys} /\ "answered" # "keys sent"
  OBVIOUS
<1> QED
  BY <1>3, <1>4, <1>5, <1>6, RequestStepKeeps

LEMMA ServeKeeps ==
  ASSUME IInv, NEW r \in Requests, Serve(r)
  PROVE  IInv'
<1>1. Becomes(r, "answered", "served")
  BY DEF Serve, Answer, Becomes
<1>2. RequestOK(r) /\ pc[r] = "serving"
  BY DEF IInv, Serve
<1>3. Honest(r, "answered", "served") /\ Ordered(r, "answered", "served")
  BY <1>2 DEF RequestOK, Honest, Ordered
<1>4. MayBecome(r, "answered", "served")
  BY <1>1, <1>3 DEF MayBecome, Stages, Statuses
<1> QED
  BY <1>2, <1>4, QuietStepKeeps DEF Serve, caches, IInv, TypeOK

\* Keys that leave the set are no longer constant; keys that enter it were published.
LEMMA RotateKeeps ==
  ASSUME IInv, Rotate
  PROVE  IInv'
<1>1. /\ UNCHANGED <<pc, call, status, reply, metadataCached, jwksCache>>
      /\ published' \in KeySets
      /\ constant' = constant \cap published' /\ ever' = ever \cup published'
  BY DEF Rotate, caches
<1>2. TypeOK'
  BY <1>1 DEF IInv, TypeOK, KeySets
<1>3. KeySetsWerePublished'
  BY <1>1 DEF IInv, KeySetsWerePublished, WasPublished
<1>4. ASSUME NEW q \in Requests
      PROVE  RequestOK(q)'
  BY <1>1 DEF IInv, RequestOK, Honest, Ordered
<1> QED
  BY <1>2, <1>3, <1>4 DEF IInv

LEMMA StepKeeps == IInv /\ [Next]_vars => IInv'
<1> SUFFICES ASSUME IInv, [Next]_vars
             PROVE  IInv'
  OBVIOUS
<1>1. ASSUME NEW r \in Requests, Arrive(r) \/ Proceed(r)
      PROVE  IInv'
  BY <1>1, ArriveKeeps, MetadataArriveKeeps, KeysSentKeeps, KeysArriveKeeps,
     FetchFailsKeeps, ServeKeeps DEF Proceed
<1>2. CASE Rotate
  BY <1>2, RotateKeeps
<1>3. CASE UNCHANGED vars
  BY <1>3 DEF vars, caches, provider, IInv, TypeOK, KeySetsWerePublished, WasPublished,
              RequestOK, Honest, Ordered
<1> QED
  BY <1>1, <1>2, <1>3 DEF Next

LEMMA Invariant == Spec => []IInv
  BY InitHolds, StepKeeps, PTL DEF Spec

\* A token whose key was published all the time is not refused because of failed,
\* late or overtaking fetches of other requests.
THEOREM ConstantKeysWork == Spec => []ConstantKeyIsNeverRefused
<1>1. IInv => ConstantKeyIsNeverRefused
  BY DEF IInv, RequestOK, Honest, ConstantKeyIsNeverRefused
<1> QED
  BY <1>1, Invariant, PTL

\* What reaches the routes was validated with a key of the provider.
THEOREM OnlyAuthenticatedAreServed == Spec => []ServedIsAuthenticated
<1>1. IInv => ServedIsAuthenticated
  BY DEF IInv, RequestOK, Honest, ServedIsAuthenticated
<1> QED
  BY <1>1, Invariant, PTL

\* A request has a key set on its way exactly while it waits for one, and neither a
\* failed fetch nor an error body is ever cached.
THEOREM CachesHoldKeySets == Spec => []TypeOK
<1>1. IInv => TypeOK
  BY DEF IInv
<1> QED
  BY <1>1, Invariant, PTL

-----------------------------------------------------------------------------
(* The caches without the provider.                                        *)

\* The metadata are cached before anybody fetches keys: they name the place.
MetadataFirst ==
  \/ metadataCached
  \/ jwksCache = NoKeys /\ \A r \in Requests : pc[r] \notin {"keys", "keys sent"}

LEMMA MetadataFirstNext ==
  ASSUME TypeOK, MetadataFirst, [Next]_vars
  PROVE  MetadataFirst'
<1> SUFFICES ASSUME ~metadataCached
             PROVE  MetadataFirst'
  <2>1. CASE metadataCached
    <3>1. metadataCached'
      BY <2>1 DEF Next, Arrive, Proceed, MetadataArrive, KeysSent, KeysArrive, FetchFails,
                  Serve, Rotate, caches, vars
    <3> QED
      BY <3>1 DEF MetadataFirst
  <2> QED
    BY <2>1
<1>1. /\ pc \in [Requests -> Stages] /\ jwksCache = NoKeys
      /\ \A r \in Requests : pc[r] \notin {"keys", "keys sent"}
  BY DEF TypeOK, MetadataFirst
<1>2. ASSUME NEW r \in Requests, Arrive(r)
      PROVE  MetadataFirst'
  <2>1. \E stage \in {"serving", "answered", "metadata"} : pc' = [pc EXCEPT ![r] = stage]
    BY <1>2 DEF Arrive, Goto, Answer
  <2> QED
    BY <1>1, <1>2, <2>1 DEF Arrive, caches, MetadataFirst
<1>3. ASSUME NEW r \in Requests, Proceed(r)
      PROVE  MetadataFirst'
  <2>1. CASE MetadataArrive(r)
    BY <2>1 DEF MetadataArrive, MetadataFirst
  <2>2. CASE FetchFails(r) \/ Serve(r)
    BY <1>1, <2>2 DEF FetchFails, Serve, Answer, caches, MetadataFirst
  <2> QED
    BY <1>1, <1>3, <2>1, <2>2 DEF Proceed, KeysSent, KeysArrive
<1>4. CASE Rotate \/ UNCHANGED vars
  BY <1>1, <1>4 DEF Rotate, vars, caches, MetadataFirst
<1> QED
  BY <1>2, <1>3, <1>4 DEF Next

\* For any number of requests: once keys are cached and no GET is under way, the
\* provider is not asked again.
THEOREM ProviderIsAskedNoMore == Spec => CachedKeysSuffice
<1>1. Init => MetadataFirst
  BY DEF Init, MetadataFirst
<1>2. TypeOK /\ MetadataFirst /\ [Next]_vars => MetadataFirst'
  BY MetadataFirstNext
<1>3. TypeOK /\ MetadataFirst /\ [Next]_vars =>
        [jwksCache # NoKeys /\ Waiting = {} => Waiting' = {} /\ UNCHANGED caches]_vars
  <2> SUFFICES ASSUME TypeOK, MetadataFirst, Next, jwksCache # NoKeys, Waiting = {}
               PROVE  Waiting' = {} /\ UNCHANGED caches
    OBVIOUS
  <2>1. /\ pc \in [Requests -> Stages] /\ metadataCached
        /\ \A r \in Requests : pc[r] \notin {"metadata", "keys", "keys sent"}
    BY DEF TypeOK, MetadataFirst, Waiting
  <2>2. ASSUME NEW r \in Requests, Arrive(r) \/ Proceed(r)
        PROVE  /\ UNCHANGED caches
               /\ \E stage \in {"serving", "answered"} : pc' = [pc EXCEPT ![r] = stage]
    BY <2>1, <2>2 DEF Arrive, WithKeys, Validate, Goto, Answer, Proceed, MetadataArrive,
                      KeysSent, KeysArrive, FetchFails, Serve
  <2>3. CASE Rotate
    BY <2>1, <2>3 DEF Rotate, Waiting
  <2> QED
    BY <2>1, <2>2, <2>3 DEF Next, Waiting
<1>4. Spec => []TypeOK
  BY CachesHoldKeySets
<1> QED
  BY <1>1, <1>2, <1>3, <1>4, PTL DEF Spec, CachedKeysSuffice

=============================================================================
