-------------------------------- MODULE Stash --------------------------------
(***************************************************************************)
(* The API worker's storage side put together: ingest handlers, owners'    *)
(* management requests and the hourly cleanup, interleaved between their   *)
(* storage calls on the same D1 tables and R2 bucket.                      *)
(***************************************************************************)
EXTENDS Ingest, EndpointAdmin, Retention

vars == <<storeVars, req, job, cron>>

Init == StoreInit /\ IngestInit /\ PurgeInit /\ RetentionInit

\* A request between its first put and the INSERT of its row.
Storing(r) == req[r].pc \in {"store", "check", "insert"}

\* The clock moves.  The code relies on a request storing its objects and its
\* row within the age an orphan must have; the bound StoreBy leaves every
\* stored object the time to reach that age before MaxTime.
Tick ==
  /\ clock < MaxTime
  /\ \A o \in objects :
       Storing(o.key[1]) => clock + 1 < o.uploaded + OrphanMinAge
  /\ clock = StoreBy => \A r \in Request :
       req[r].pc \in {"idle", "check", "insert", "classify", "publish", "undo",
                      "done", "lost"}
  /\ clock' = clock + 1
  /\ UNCHANGED <<d1Vars, objects, failures, req, job, cron>>

RequestOnly == UNCHANGED <<job, cron>>
JobOnly     == UNCHANGED <<req, cron>>

RequestStep(r) ==
  \/ ReserveTemporary(r) /\ RequestOnly
  \/ ReservePrivate(r) /\ RequestOnly
  \/ ExplainRefusal(r) /\ RequestOnly
  \/ VerifySecret(r) /\ RequestOnly
  \/ ReadBody(r) /\ RequestOnly
  \/ BodyTooLarge(r) /\ RequestOnly
  \/ \E part \in Part : PersistObject(r, part) /\ RequestOnly
  \/ CheckExpiry(r) /\ RequestOnly
  \/ RecordMetadata(r) /\ RequestOnly
  \/ ClassifyRefusal(r) /\ RequestOnly
  \/ PublishLive(r) /\ RequestOnly
  \/ \E entry \in {"slot"} \cup Part : Compensate(r, entry) /\ RequestOnly

RequestFailure(r) ==
  \/ \E part \in Part : PersistObjectFails(r, part) /\ RequestOnly
  \/ ReserveAckLost(r) /\ RequestOnly
  \/ InsertAckLost(r) /\ RequestOnly
  \/ StorageCallFails(r) /\ RequestOnly
  \/ \E entry \in {"slot"} \cup Part : CompensationFails(r, entry) /\ RequestOnly
  \/ IsolateLost(r) /\ RequestOnly

OwnerStep(o) ==
  \/ \E e \in PrivEndpoint : FindForDelete(o, e) /\ JobOnly
  \/ DisableEndpoint(o) /\ JobOnly
  \/ \E e \in PrivEndpoint, s \in Secret : FindForCreateSecret(o, e, s) /\ JobOnly
  \/ \E e \in PrivEndpoint, s \in Secret : FindForRevokeSecret(o, e, s) /\ JobOnly
  \/ CreateEndpointSecret(o) /\ JobOnly
  \/ RevokeEndpointSecret(o) /\ JobOnly
  \/ OwnerRequestFails(o) /\ JobOnly
  \/ OwnerDeleteRefused(o) /\ JobOnly

PurgeStep(p) ==
  \/ ListObjectKeys(p) /\ JobOnly
  \/ DeleteObjectBatch(p) /\ JobOnly
  \/ DeleteEvents(p) /\ JobOnly
  \/ DeleteSecrets(p) /\ JobOnly
  \/ DeleteEndpoint(p) /\ JobOnly

CleanupStep ==
  \/ StartCleanup /\ UNCHANGED req
  \/ ListExpiredTemporary /\ UNCHANGED req
  \/ ListExpiredPrivate /\ UNCHANGED req
  \/ \E e \in Endpoint : PurgeNextExpired(e) /\ UNCHANGED req
  \/ ListOldEvents /\ UNCHANGED req
  \/ DeleteOldRows /\ UNCHANGED req
  \/ ReconcilePrivateCounts /\ UNCHANGED req
  \/ ListOldObjects /\ UNCHANGED req
  \/ \E k \in Key : LookUpEvent(k) /\ UNCHANGED req
  \/ ScanDone /\ UNCHANGED req
  \/ DeleteKeyBatch /\ UNCHANGED req
  \/ CleanupDeleteRefused /\ UNCHANGED req

Next ==
  \/ Tick
  \/ \E e \in Endpoint : CreateEndpoint(e) /\ UNCHANGED <<req, job, cron>>
  \/ \E r \in Request, e \in Endpoint, h \in Credential :
       ValidateEndpoint(r, e, h) /\ RequestOnly
  \/ \E r \in Request : RequestStep(r)
  \/ \E r \in Request : RequestFailure(r)
  \/ \E o \in Owner : OwnerStep(o)
  \/ \E p \in Job : PurgeStep(p)
  \/ CleanupStep
  \/ CleanupFails /\ UNCHANGED req

Spec == Init /\ [][Next]_vars

\* A handler that has started goes on to its answer unless it is lost, and
\* the cron fires again and again; nobody has to send a request.
Fairness ==
  /\ WF_vars(Tick)
  /\ \A r \in Request : WF_vars(RequestStep(r))
  /\ WF_vars(CleanupStep \/ PurgeStep(Cron))

FairSpec == Spec /\ Fairness

-----------------------------------------------------------------------------
(* Every variable keeps its type in every interleaving of the handlers. *)
TypeOK == StoreTypeOK /\ IngestTypeOK /\ PurgeTypeOK /\ RetentionTypeOK

Held(e) == {r \in Request : HoldsSlot(r) /\ req[r].endpoint = e}
Readable(e) == endpoints[e].status = "active" /\ ~Expired(e)

\* The requests that could not give back the slot they took at e.
Leaked(e) == {r \in Request : "slot" \in req[r].left /\ req[r].endpoint = e}

(* reserveCapacity: the events stored for a temporary endpoint and the slots *)
(* requests still hold are all counted in event_count, which never exceeds   *)
(* the limit: concurrent deliveries, refusals and lost isolates cannot       *)
(* overfill an endpoint.                                                     *)
TemporaryCapacity ==
  \A e \in TempEndpoint : RowExists(e) =>
    /\ Cardinality(EventsOf(e)) + Cardinality(Held(e)) <= endpoints[e].event_count
    /\ endpoints[e].event_count <= TempLimit

(* releaseTemporaryEventSlot: whatever calls throw, a slot is only lost where *)
(* the code could not help it: the reservation itself or its release threw,   *)
(* or the isolate died.  Every other way to end without an event, a put or an *)
(* INSERT that throws included, gives the slot back, so that a 429 means that *)
(* the endpoint's slots are stored, held or leaked in one of these ways.      *)
NoSlotLeak ==
  \A e \in TempEndpoint : Readable(e) =>
    endpoints[e].event_count <= Cardinality(EventsOf(e)) + Cardinality(Held(e))
                                  + Cardinality(Leaked(e))

(* The same promise for private endpoints, as the requirements state it: no *)
(* more events are stored than PRIVATE_ENDPOINT_EVENT_LIMIT.                *)
PrivateStoredWithinLimit ==
  \A e \in PrivEndpoint : Cardinality(EventsOf(e)) <= PrivLimit

\* An event of e received at t is past its retention.
Aged(e, t) == e \in PrivEndpoint /\ t + PrivRetention < clock

(* persistRawRequest before recordMetadata, and the age an orphan must have: *)
(* an event a reader can see has both its objects, whatever compensations    *)
(* and cleanups run beside it, as long as its retention lasts.               *)
ReadableEventsHaveObjects ==
  \A v \in events :
    Readable(v.endpoint_id) /\ ~Aged(v.endpoint_id, v.received_at) =>
      \A part \in Part : Stored(<<v.id, part>>)

(* ingestRequest's answer: 204 means the event is there for as long as its *)
(* endpoint can be read and its retention lasts, and any other answer      *)
(* means no row was left.                                                  *)
AnswersAreTrue ==
  \A r \in Request : At(r, "done") =>
    LET e == req[r].endpoint IN
    IF req[r].response = 204
    THEN Readable(e) /\ ~Aged(e, req[r].receivedAt) => HasEvent(r)
    ELSE ~HasEvent(r)

(* CompensationStack: a refused request leaves no object behind, except one  *)
(* whose own put or whose own delete threw.  When one of the two puts fails, *)
(* before or after the other, the object of the other is removed, and so are *)
(* both when a later call throws.                                            *)
RefusalsLeaveNoObject ==
  \A r \in Request, part \in Part :
    At(r, "done") /\ req[r].response # 204 /\ part \notin req[r].left =>
      ~Stored(<<r, part>>)

(* INSERT_EVENT_WITH_GUARDS_SQL: an event is stored only if, at that moment, *)
(* the endpoint has no active secret or the request carried an active one,   *)
(* although the secrets were read several calls earlier.                     *)
SecretsGuardEvents ==
  [][\A v \in events' \ events :
       LET active == ActiveSecrets(v.endpoint_id) IN
       active # {} => req[v.id].header # {} /\ req[v.id].header \subseteq active]_vars

(* deletePrivateEndpointData after disableEndpoint, and                      *)
(* cleanupExpiredPrivateEvents: no event row goes before its objects unless  *)
(* its endpoint has expired, so that an interrupted deletion can be taken up *)
(* again and leaves no object without a row.                                 *)
ObjectsGoFirst ==
  [][\A v \in events \ events' :
       ~Expired(v.endpoint_id) => \A part \in Part : ~Stored(<<v.id, part>>)]_vars

-----------------------------------------------------------------------------
(* The abstract promise *)

LifeOf(e) ==
  CASE endpoints[e].status = "none"     -> "none"
    [] endpoints[e].status = "active"   -> IF Expired(e) THEN "lapsed" ELSE "open"
    [] endpoints[e].status = "disabled" -> "closed"
    [] endpoints[e].status = "deleted"  -> "gone"

Ledger == INSTANCE EventLedger WITH
  Limited <- TempEndpoint, MaxKept <- TempLimit,
  life <- [e \in Endpoint |-> LifeOf(e)],
  kept <- {<<v.id, v.endpoint_id>> : v \in events},
  aged <- {<<v.id, v.endpoint_id>> : v \in {w \in events : Aged(w.endpoint_id, w.received_at)}}

(* The storage side implements EventLedger: an accepted event stays until its *)
(* endpoint expires or is closed or its retention is over, an endpoint goes   *)
(* only when nothing is kept for it, and a temporary endpoint never keeps     *)
(* more than its limit.                                                       *)
LedgerPromise == Ledger!Spec

-----------------------------------------------------------------------------
(* The hourly cleanup, under fairness *)

Orphan(k) == Stored(k) /\ ~HasEvent(k[1]) /\ req[k[1]].pc \in {"done", "lost"}

(* cleanupOrphanObjects: objects left without a row by a lost isolate, a *)
(* failed compensation or a race with a purge are all deleted, whichever *)
(* page of the listing they are on: the bucket is free of them again and *)
(* again.                                                                *)
OrphansRemoved == []<>(\A k \in Key : ~Orphan(k))

(* cleanupExpiredTemporaryEndpoints, cleanupExpiredPrivateEndpoints: an      *)
(* expired endpoint is removed in the end, although a run may be aborted by  *)
(* a failed call or by an event inserted behind its back.                    *)
ExpiredEndpointsRemoved ==
  \A e \in Endpoint : (RowExists(e) /\ Expired(e)) ~> ~RowExists(e)

(* reconcilePrivateEndpointEventCounts: a private endpoint's count comes back *)
(* to the number of its events after a lost isolate or a failed release.      *)
PrivateCountsRecover ==
  \A e \in PrivEndpoint :
    (\A r \in Request : ~Running(r)) ~>
      (RowExists(e) => endpoints[e].event_count = Cardinality(EventsOf(e)))
=============================================================================
