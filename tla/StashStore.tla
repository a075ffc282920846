----------------------------- MODULE StashStore -----------------------------
(***************************************************************************)
(* The two stores the API worker keeps its data in, and the statements it  *)
(* runs against them:                                                      *)
(*   - the D1 (SQLite) tables endpoints, events and endpoint_secrets, one  *)
(*     operator per SQL statement; every statement is atomic, nothing      *)
(*     larger is;                                                          *)
(*   - the R2 bucket that holds two objects per event, body.raw and        *)
(*     request.json.                                                       *)
(* The handlers that run these statements are modules of their own.        *)
(***************************************************************************)
EXTENDS Naturals, FiniteSets

CONSTANTS
  TempEndpoint,       \* ids of temporary endpoints
  PrivEndpoint,       \* ids of private endpoints
  Request,            \* ingest requests; a request's id is its event's id
  Secret,             \* ids of endpoint secrets
  TempLimit,          \* TEMPORARY_ENDPOINT_EVENT_LIMIT
  PrivLimit,          \* PRIVATE_ENDPOINT_EVENT_LIMIT
  TempTtl,            \* TEMPORARY_ENDPOINT_TTL_SECONDS, in ticks
  PrivTtl,            \* PRIVATE_ENDPOINT_TTL_SECONDS, in ticks
  OrphanMinAge,       \* ORPHAN_CLEANUP_MIN_AGE_MS, in ticks
  MaxTime,            \* bound: the clock stops here
  CreateBy,           \* bound: no endpoint is created after this time
  MaxFailures         \* bound: how many storage calls fail or handlers die

ASSUME LimitAssumption == TempLimit \in Nat \ {0} /\ PrivLimit \in Nat \ {0}
ASSUME TimeAssumption ==
  /\ TempTtl \in Nat \ {0} /\ PrivTtl \in Nat \ {0}
  /\ OrphanMinAge \in Nat \ {0}
  /\ MaxTime \in Nat /\ CreateBy \in Nat /\ MaxFailures \in Nat
ASSUME ModeAssumption == TempEndpoint \cap PrivEndpoint = {}

Endpoint == TempEndpoint \cup PrivEndpoint
Part     == {"body", "request"}           \* body.raw and request.json
Key      == Request \X Part               \* the object keys of an event

VARIABLES
  endpoints,          \* rows of endpoints; status "none"/"deleted": no row
  events,             \* rows of events
  next_sequence,      \* the AUTOINCREMENT of events.sequence
  secrets,            \* rows of endpoint_secrets
  objects,            \* the R2 bucket
  clock,              \* the time every Date in the worker is read from
  failures            \* how many failures have been injected so far

d1Vars    == <<endpoints, events, next_sequence, secrets>>
storeVars == <<d1Vars, objects, clock, failures>>

EndpointRow == [status : {"none", "active", "disabled", "deleted"},
                event_count : Nat, expires_at : Nat]
EventRow    == [id : Request, endpoint_id : Endpoint, sequence : Nat \ {0},
                received_at : Nat]
SecretRow   == [id : Secret, endpoint_id : Endpoint,
                status : {"active", "revoked"}]
Object      == [key : Key, uploaded : Nat]

StoreTypeOK ==
  /\ endpoints \in [Endpoint -> EndpointRow]
  /\ events \in SUBSET EventRow
  /\ next_sequence \in Nat \ {0}
  /\ secrets \in SUBSET SecretRow
  /\ objects \in SUBSET Object
  /\ clock \in Nat
  /\ failures \in Nat

StoreInit ==
  /\ endpoints = [e \in Endpoint |->
                    [status |-> "none", event_count |-> 0, expires_at |-> 0]]
  /\ events = {}
  /\ next_sequence = 1
  /\ secrets = {}
  /\ objects = {}
  /\ clock = 0
  /\ failures = 0

-----------------------------------------------------------------------------
(* Reading the tables *)

RowExists(e) == endpoints[e].status \in {"active", "disabled"}
Expired(e)   == endpoints[e].expires_at <= clock     \* isEndpointExpired

EventsOf(e)      == {v \in events : v.endpoint_id = e}
HasEvent(r)      == \E v \in events : v.id = r
SecretsOf(e)     == {s \in secrets : s.endpoint_id = e}
ActiveSecrets(e) == {s.id : s \in {x \in SecretsOf(e) : x.status = "active"}}
Stored(k)        == \E o \in objects : o.key = k

\* The events of S that follow a sequence cursor, at most n of them in order.
PageAfter(S, cursor, n) ==
  {v \in S : /\ v.sequence > cursor
             /\ Cardinality({w \in S : /\ w.sequence > cursor
                                       /\ w.sequence <= v.sequence}) <= n}

\* The row a page ends with; the next page follows its sequence.
LastRow(page) == {v \in page : \A w \in page : w.sequence <= v.sequence}

KeysOf(S) == {v.id : v \in S} \X Part

-----------------------------------------------------------------------------
(* Writing the tables: each operator is one statement. *)

\* SET event_count = event_count + 1 ... WHERE event_count < limit
CountUp(e) == endpoints' = [endpoints EXCEPT ![e].event_count = @ + 1]

\* SET event_count = MAX(event_count - 1, 0); no row, no change.
MutantUnclampedRelease(e) ==               \* no MAX(..., 0)
  endpoints' = [endpoints EXCEPT ![e].event_count = @ - 1]

CountDown(e) ==
  endpoints' = [endpoints EXCEPT ![e].event_count = IF @ > 0 THEN @ - 1 ELSE 0]

MutantReserveOneMore(e) ==                 \* <= for <
  endpoints[e].status = "active" /\ endpoints[e].event_count <= TempLimit

CanReserveTemporarySlot(e) ==
  /\ endpoints[e].status = "active"
  /\ endpoints[e].event_count < TempLimit

CanReservePrivateSlot(e) ==
  /\ endpoints[e].status = "active"
  /\ endpoints[e].event_count < PrivLimit
  /\ ~Expired(e)

MutantGuardWithoutSecrets(e, matched) == endpoints[e].status = "active"

MutantGuardWithoutStatus(e, matched) ==
  /\ RowExists(e)
  /\ IF matched = {} THEN ActiveSecrets(e) = {} ELSE matched \subseteq ActiveSecrets(e)

\* The WHERE of INSERT_EVENT_WITH_GUARDS_SQL: it looks at the endpoint's status
\* and at the secrets, not at expires_at and not at event_count.
InsertGuard(e, matched) ==
  /\ endpoints[e].status = "active"
  /\ IF matched = {} THEN ActiveSecrets(e) = {} ELSE matched \subseteq ActiveSecrets(e)

InsertEvent(r, e, receivedAt) ==
  /\ events' = events \cup {[id |-> r, endpoint_id |-> e,
                             sequence |-> next_sequence,
                             received_at |-> receivedAt]}
  /\ next_sequence' = next_sequence + 1

\* DELETE FROM endpoints: the foreign keys of events and endpoint_secrets make
\* the statement fail while a row still refers to the endpoint.
CanDeleteEndpoint(e) == EventsOf(e) = {} /\ SecretsOf(e) = {}

\* A deleted row keeps its expires_at here: handlers that read the row before it
\* went still hold that value, which no statement ever changes.
DeleteEndpointRow(e) ==
  endpoints' = [endpoints EXCEPT ![e] =
    IF RowExists(e) THEN [@ EXCEPT !.status = "deleted", !.event_count = 0] ELSE @]

MutantReconcileUpwards ==                  \* a count is never lowered
  endpoints' = [e \in Endpoint |->
    IF /\ e \in PrivEndpoint /\ RowExists(e)
       /\ endpoints[e].event_count < Cardinality(EventsOf(e))
    THEN [endpoints[e] EXCEPT !.event_count = Cardinality(EventsOf(e))]
    ELSE endpoints[e]]

\* UPDATE endpoints SET event_count = (SELECT COUNT(*) ...) WHERE mode = 'private'
ReconcileCounts ==
  endpoints' = [e \in Endpoint |->
    IF e \in PrivEndpoint /\ RowExists(e)
    THEN [endpoints[e] EXCEPT !.event_count = Cardinality(EventsOf(e))]
    ELSE endpoints[e]]

PutObject(k)       == objects' = {o \in objects : o.key # k}
                                   \cup {[key |-> k, uploaded |-> clock]}
RemoveObjects(ks)  == objects' = {o \in objects : o.key \notin ks}

\* A storage call throws, or the isolate running a handler is lost.
Failure == failures < MaxFailures /\ failures' = failures + 1

-----------------------------------------------------------------------------
(* POST /v1/endpoints: one INSERT with status active and count 0. *)

CreateEndpoint(e) ==
  /\ clock <= CreateBy
  /\ endpoints[e].status = "none"
  /\ endpoints' = [endpoints EXCEPT ![e] =
       [status |-> "active", event_count |-> 0,
        expires_at |-> clock + IF e \in PrivEndpoint THEN PrivTtl ELSE TempTtl]]
  /\ UNCHANGED <<events, next_sequence, secrets, objects, clock, failures>>
=============================================================================
