--------------------------- MODULE Authentication ---------------------------
(***************************************************************************)
(* The two middlewares around the routes: the execution context, which     *)
(* finds the token of a request, and the authentication, which asks the    *)
(* identity provider for its metadata and keys, keeps both for good, and   *)
(* validates the token with them.                                          *)
(*                                                                         *)
(* Requests share the two caches and suspend while a GET to the provider   *)
(* is under way; a step is what a request does between two suspensions.    *)
(* The metadata do not change: what is cached of them is whether they are. *)
(***************************************************************************)
EXTENDS Naturals

CONSTANTS Requests,
          Keys,       \* key ids of the provider
          NoKey

ASSUME NoKeyAssumption == NoKey \notin Keys

VARIABLES pc,          \* where each request is
          call,        \* what it asks for
          status,      \* what it is answered
          reply,       \* the key set on its way to it
          metadataCached, jwksCache,
          published,   \* the key set of the provider, and the keys that
          constant,    \* were in it all the time
          ever         \* and at any time

provider == <<published, constant, ever>>
caches == <<metadataCached, jwksCache>>
vars == <<pc, call, status, reply, caches, provider>>

Stages == {"idle", "metadata", "keys", "keys sent", "serving", "answered"}

Statuses == {"pending", "served", "401", "500"}

\* The key sets a provider publishes, and what is in a place where none is yet.
KeySets == (SUBSET Keys) \ {{}}

NoKeys == {NoKey}

\* A token names its key, and may be expired, of another issuer or undecodable (an
\* exception authenticate lists), or have another defect that raises an exception it
\* does not list: without a usable algorithm before its key is looked up, with a wrong
\* signature or without a subject (parse_keycloak_claims) after it.
Tokens == [key: Keys, defect: {"none", "listed", "unlisted", "no algorithm"}]

NoToken == [key |-> NoKey, defect |-> "none"]

\* Lifespan scopes are passed through and left out.
Paths == {"/health", "/api/v1/health/dummy-health", "/api/v1/agent/runs"}

Calls == [scope: {"http", "websocket"}, path: Paths,
          token: Tokens \cup {NoToken}]

Excluded(path) == path = "/health"

\* ProductionContextEnricher: the token of a websocket would come with a message
\* that nobody receives before the authentication.
ContextToken(c) == IF c.scope = "http" THEN c.token ELSE NoToken

Init ==
  /\ pc = [r \in Requests |-> "idle"]
  /\ call \in [Requests -> Calls]
  /\ status = [r \in Requests |-> "pending"]
  /\ reply = [r \in Requests |-> NoKeys]
  /\ metadataCached = FALSE
  /\ jwksCache = NoKeys
  /\ published \in KeySets
  /\ constant = published
  /\ ever = published

-----------------------------------------------------------------------------

Answer(r, s) ==
  /\ pc' = [pc EXCEPT ![r] = "answered"]
  /\ status' = [status EXCEPT ![r] = s]

Goto(r, stage) == pc' = [pc EXCEPT ![r] = stage] /\ UNCHANGED status

\* The key id is not looked up.
Accepts_AnyKey(token, keys) == token.defect = "none"

Accepts(token, keys) == token.key \in keys /\ token.defect = "none"

\* An exception that authenticate does not list.
Unforeseen(token, keys) ==
  token.defect = "no algorithm" \/ (token.defect = "unlisted" /\ token.key \in keys)

\* jwt.decode and claims.validate with the given keys, and the claims parser.
Validate(r, keys) ==
  LET token == ContextToken(call[r])
  IN  IF Accepts(token, keys) THEN Goto(r, "serving")
      ELSE Answer(r, IF Unforeseen(token, keys) THEN "500" ELSE "401")

\* _get_jwks, whose GET is left under way if the keys are not cached.
WithKeys(r) ==
  IF jwksCache = NoKeys THEN Goto(r, "keys") ELSE Validate(r, jwksCache)

Arrive(r) ==
  /\ pc[r] = "idle"
  /\ \/ /\ Excluded(call[r].path)
        /\ Goto(r, "serving")
     \/ /\ ~Excluded(call[r].path)
        /\ ContextToken(call[r]) = NoToken    \* PermissionError
        /\ Answer(r, "500")
     \/ /\ ~Excluded(call[r].path)
        /\ ContextToken(call[r]) # NoToken
        /\ IF metadataCached THEN WithKeys(r) ELSE Goto(r, "metadata")
  /\ UNCHANGED <<call, reply, caches, provider>>

\* The metadata are returned and not kept.
MetadataArrive_NotKept(r) ==
  /\ pc[r] = "metadata"
  /\ WithKeys(r)
  /\ UNCHANGED <<call, reply, caches, provider>>

MetadataArrive(r) ==
  /\ pc[r] = "metadata"
  /\ metadataCached' = TRUE
  /\ WithKeys(r)
  /\ UNCHANGED <<call, reply, jwksCache, provider>>

\* The provider answers with the keys it has now.
KeysSent(r) ==
  /\ pc[r] = "keys"
  /\ reply' = [reply EXCEPT ![r] = published]
  /\ Goto(r, "keys sent")
  /\ UNCHANGED <<call, caches, provider>>

KeysArrive(r) ==
  /\ pc[r] = "keys sent"
  /\ jwksCache' = reply[r]
  /\ Validate(r, reply[r])
  /\ reply' = [reply EXCEPT ![r] = NoKeys]
  /\ UNCHANGED <<call, metadataCached, provider>>

\* The body of an error is cached as if it were a key set.
FetchFails_BodyCached(r) ==
  /\ pc[r] \in {"metadata", "keys", "keys sent"}
  /\ jwksCache' = IF pc[r] = "metadata" THEN jwksCache ELSE {}
  /\ IF pc[r] = "metadata" THEN Answer(r, "500") ELSE Validate(r, {})
  /\ reply' = [reply EXCEPT ![r] = NoKeys]
  /\ UNCHANGED <<call, metadataCached, provider>>

\* A GET that fails is repeated without end.
FetchFails_Repeats(r) ==
  /\ pc[r] \in {"metadata", "keys", "keys sent"}
  /\ Goto(r, IF pc[r] = "metadata" THEN "metadata" ELSE "keys")
  /\ reply' = [reply EXCEPT ![r] = NoKeys]
  /\ UNCHANGED <<call, caches, provider>>

\* No connection, no answer within 5 seconds, or an error status: the exception of
\* httpx reaches the middleware.
FetchFails(r) ==
  /\ pc[r] \in {"metadata", "keys", "keys sent"}
  /\ Answer(r, "500")
  /\ reply' = [reply EXCEPT ![r] = NoKeys]
  /\ UNCHANGED <<call, caches, provider>>

\* The routes answer.
Serve(r) ==
  /\ pc[r] = "serving"
  /\ Answer(r, "served")
  /\ UNCHANGED <<call, reply, caches, provider>>

\* The provider replaces its keys.
Rotate ==
  /\ published' \in KeySets
  /\ constant' = constant \cap published'
  /\ ever' = ever \cup published'
  /\ UNCHANGED <<pc, call, status, reply, caches>>

Proceed(r) ==
  MetadataArrive(r) \/ KeysSent(r) \/ KeysArrive(r) \/ FetchFails(r) \/ Serve(r)

Next == (\E r \in Requests : Arrive(r) \/ Proceed(r)) \/ Rotate

\* A GET ends, with the timeout of the client at the latest, and its request is
\* resumed; the routes answer.
Spec == Init /\ [][Next]_vars /\ \A r \in Requests : WF_vars(Proceed(r))

-----------------------------------------------------------------------------
(* Properties.                                                             *)

\* Every variable has a value the code can give it; only a request that fetches keys
\* has a key set on its way.
TypeOK ==
  /\ pc \in [Requests -> Stages]
  /\ call \in [Requests -> Calls]
  /\ status \in [Requests -> Statuses]
  /\ reply \in [Requests -> KeySets \cup {NoKeys}]
  /\ \A r \in Requests : reply[r] # NoKeys <=> pc[r] = "keys sent"
  /\ metadataCached \in BOOLEAN
  /\ jwksCache \in KeySets \cup {NoKeys}
  /\ published \in KeySets
  /\ constant \in SUBSET published
  /\ ever \in SUBSET Keys /\ published \subseteq ever

\* A flawless token whose key the provider has always published is never refused
\* with 401: neither a failed fetch nor the order in which concurrent fetches fill
\* the cache while other keys rotate leaves a key set without it.
ConstantKeyIsNeverRefused ==
  \A r \in Requests :
    /\ status[r] = "401"
    /\ call[r].token # NoToken /\ call[r].token.defect = "none"
    => call[r].token.key \notin constant

\* The routes see only requests with a flawless token whose key the provider has
\* published, whatever the caches held when it was validated.
ServedIsAuthenticated ==
  \A r \in Requests :
    pc[r] = "serving" \/ status[r] = "served" =>
      \/ Excluded(call[r].path)
      \/ LET token == ContextToken(call[r])
         IN  token.defect = "none" /\ token.key \in ever

\* The requests for which a GET to the provider is under way.
Waiting == {r \in Requests : pc[r] \in {"metadata", "keys", "keys sent"}}

\* Once keys are cached and no request waits for the provider, none will wait for it
\* again and the keys stay what they are: the application notices no outage of the
\* provider any more, and no rotation either.
CachedKeysSuffice ==
  [][jwksCache # NoKeys /\ Waiting = {} => Waiting' = {} /\ UNCHANGED caches]_vars

\* Every request is answered, although the provider may fail at any fetch.
EveryRequestIsAnswered ==
  \A r \in Requests : pc[r] # "idle" ~> status[r] # "pending"

\* "Auth validation skipped for health checks" (authentication.py:28): the health
\* endpoint answers without a token.
HealthNeedsNoToken ==
  \A r \in Requests :
    call[r].path = "/api/v1/health/dummy-health" => status[r] \notin {"401", "500"}

=============================================================================
