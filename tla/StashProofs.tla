----------------------------- MODULE StashProofs -----------------------------
(***************************************************************************)
(* Stash keeps its types, for every number of endpoints, requests, owners  *)
(* and secrets and every value of the limits and times.  The inductive     *)
(* invariant is HandlerInv: the types, a finite events table, a handler    *)
(* that writes a row knows its endpoint, and a request holds its slot from *)
(* the reservation to the INSERT.                                          *)
(***************************************************************************)
EXTENDS Stash, FiniteSetTheorems, TLAPS

(* The events table only ever holds finitely many rows. *)
Finite == IsFiniteSet(events)

Undo == SUBSET ({"slot"} \cup Part)

-----------------------------------------------------------------------------
(* The handlers' states *)

LEMMA NoRequestType == NoRequest \in RequestState
  BY DEF NoRequest, RequestState, Credential, Response

LEMMA NoJobType == NoJob \in JobState
  BY DEF NoJob, JobState

LEMMA BecomeTypes ==
  ASSUME IngestTypeOK, NEW r \in Request, NEW q \in RequestState, Become(r, q)
  PROVE  IngestTypeOK'
  BY DEF IngestTypeOK, Become

LEMMA JobBecomeTypes ==
  ASSUME PurgeTypeOK, NEW p \in Job, NEW j \in JobState, JobBecome(p, j)
  PROVE  PurgeTypeOK'
  BY DEF PurgeTypeOK, JobBecome

(* What Fail leaves of a request. *)
LEMMA FailTypes ==
  ASSUME IngestTypeOK, NEW r \in Request, NEW undo \in Undo, NEW left \in Undo,
         NEW code \in Response, FailWith(r, undo, left, code)
  PROVE  IngestTypeOK'
PROOF
  <1>1. PICK pc \in {"done", "undo"} :
          Become(r, [NoRequest EXCEPT !.pc = pc, !.endpoint = req[r].endpoint,
                                      !.undo = undo, !.left = left, !.response = code])
    BY DEF FailWith
  <1>2. req[r].endpoint \in Endpoint \cup {{}}
    BY DEF IngestTypeOK, RequestState
  <1>3. [NoRequest EXCEPT !.pc = pc, !.endpoint = req[r].endpoint,
                          !.undo = undo, !.left = left, !.response = code] \in RequestState
    BY <1>2, NoRequestType DEF RequestState, Undo
  <1> QED
    BY <1>1, <1>3, BecomeTypes

LEMMA PutAnsweredTypes ==
  ASSUME IngestTypeOK, NEW r \in Request, NEW part \in Part, NEW undo \in Undo,
         NEW left \in Undo, PutAnswered(r, part, undo, left)
  PROVE  IngestTypeOK'
PROOF
  <1>1. req[r] \in RequestState /\ req[r].pending \in SUBSET Part
    BY DEF IngestTypeOK, RequestState
  <1>2. CASE FailWith(r, undo, left, 500)
    <2>1. 500 \in Response
      BY DEF Response
    <2> QED
      BY <1>2, <2>1, FailTypes
  <1>3. CASE ~FailWith(r, undo, left, 500)
    <2>1. PICK pc \in {"check", "store"} :
            Become(r, [req[r] EXCEPT !.pending = req[r].pending \ {part},
                                     !.undo = undo, !.left = left, !.pc = pc])
      BY <1>3 DEF PutAnswered
    <2>2. [req[r] EXCEPT !.pending = req[r].pending \ {part},
                         !.undo = undo, !.left = left, !.pc = pc] \in RequestState
      BY <1>1 DEF RequestState, Undo
    <2> QED
      BY <2>1, <2>2, BecomeTypes
  <1> QED
    BY <1>2, <1>3

LEMMA PoppedTypes ==
  ASSUME IngestTypeOK, NEW r \in Request, NEW entry \in {"slot"} \cup Part,
         NEW left \in Undo, Popped(r, entry, left)
  PROVE  IngestTypeOK'
PROOF
  <1>1. req[r] \in RequestState /\ req[r].undo \in Undo
    BY DEF IngestTypeOK, RequestState, Undo
  <1>2. ASSUME NEW pc \in {"done", "undo"}
        PROVE  [req[r] EXCEPT !.undo = req[r].undo \ {entry}, !.left = left, !.pc = pc]
                 \in RequestState
    BY <1>1 DEF RequestState, Undo
  <1> QED
    BY <1>2, BecomeTypes DEF Popped

LEMMA RequestStepTypes ==
  ASSUME IngestTypeOK, StoreTypeOK, NEW r \in Request, RequestStep(r)
  PROVE  IngestTypeOK'
PROOF
  <1>r. req[r] \in RequestState
    BY DEF IngestTypeOK
  <1>u. req[r].undo \in Undo /\ req[r].left \in Undo /\ req[r].pending \in SUBSET Part
        /\ req[r].endpoint \in Endpoint \cup {{}} /\ req[r].header \in Credential
        /\ req[r].receivedAt \in Nat
    BY <1>r DEF RequestState, Undo
  <1>c. {0, 204, 401, 404, 410, 413, 429, 500} = Response
    BY DEF Response
  <1>f. ASSUME NEW code \in Response, Fail(r, code) PROVE IngestTypeOK'
    BY <1>f, <1>u, FailTypes DEF Fail
  <1>g. ASSUME NEW pc \in {"relookup", "verify", "body", "insert", "classify"}, Goto(r, pc)
        PROVE  IngestTypeOK'
    <2>1. [req[r] EXCEPT !.pc = pc] \in RequestState
      BY <1>r DEF RequestState
    <2> QED
      BY <1>g, <2>1, BecomeTypes DEF Goto
  <1>s. [req[r] EXCEPT !.pc = "verify", !.undo = {"slot"}] \in RequestState
    BY <1>r DEF RequestState
  <1>1. CASE ReserveTemporary(r)
    BY <1>1, <1>f, <1>c, <1>s, BecomeTypes DEF ReserveTemporary
  <1>2. CASE ReservePrivate(r)
    BY <1>2, <1>g, <1>s, BecomeTypes DEF ReservePrivate
  <1>3. CASE ExplainRefusal(r)
    BY <1>3, <1>f, <1>c DEF ExplainRefusal
  <1>4. CASE VerifySecret(r)
    <2>1. [req[r] EXCEPT !.pc = "body", !.matched = req[r].header] \in RequestState
      BY <1>r, <1>u DEF RequestState
    <2> QED
      BY <1>4, <2>1, <1>f, <1>g, <1>c, BecomeTypes DEF VerifySecret
  <1>5. CASE ReadBody(r)
    <2>1. [req[r] EXCEPT !.pc = "store", !.receivedAt = clock, !.pending = Part]
            \in RequestState
      BY <1>r DEF RequestState, StoreTypeOK
    <2> QED
      BY <1>5, <2>1, BecomeTypes DEF ReadBody
  <1>6. CASE BodyTooLarge(r)
    BY <1>6, <1>f, <1>c DEF BodyTooLarge
  <1>7. CASE \E part \in Part : PersistObject(r, part)
    <2>1. PICK part \in Part : PersistObject(r, part)
      BY <1>7
    <2>2. req[r].undo \cup {part} \in Undo
      BY <1>u DEF Undo
    <2> QED
      BY <1>u, <2>1, <2>2, PutAnsweredTypes DEF PersistObject
  <1>8. CASE CheckExpiry(r)
    BY <1>8, <1>f, <1>g, <1>c DEF CheckExpiry
  <1>9. CASE RecordMetadata(r)
    <2>1. [NoRequest EXCEPT !.pc = "publish", !.endpoint = req[r].endpoint,
                            !.receivedAt = req[r].receivedAt] \in RequestState
      BY <1>u, NoRequestType DEF RequestState
    <2>2. CASE InsertGuard(req[r].endpoint, req[r].matched)
      BY <1>9, <2>1, <2>2, BecomeTypes DEF RecordMetadata
    <2>3. CASE ~InsertGuard(req[r].endpoint, req[r].matched)
      BY <1>9, <2>3, <1>g DEF RecordMetadata
    <2> QED
      BY <2>2, <2>3
  <1>10. CASE ClassifyRefusal(r)
    BY <1>10, <1>f, <1>c DEF ClassifyRefusal
  <1>11. CASE PublishLive(r)
    <2>1. [req[r] EXCEPT !.pc = "done", !.response = 204] \in RequestState
      <3>1. 204 \in Response
        BY DEF Response
      <3> QED
        BY <1>r, <3>1 DEF RequestState
    <2> QED
      BY <1>11, <2>1, BecomeTypes DEF PublishLive
  <1>12. CASE \E entry \in {"slot"} \cup Part : Compensate(r, entry)
    BY <1>12, <1>u, PoppedTypes DEF Compensate
  <1> QED
    BY <1>1, <1>2, <1>3, <1>4, <1>5, <1>6, <1>7, <1>8, <1>9, <1>10, <1>11, <1>12
    DEF RequestStep

LEMMA RequestFailureTypes ==
  ASSUME IngestTypeOK, NEW r \in Request, RequestFailure(r)
  PROVE  IngestTypeOK'
PROOF
  <1>u. req[r].undo \in Undo /\ req[r].left \in Undo /\ {} \in Undo /\ {"slot"} \in Undo
        /\ \A x \in {"slot"} \cup Part : req[r].left \cup {x} \in Undo
    BY DEF IngestTypeOK, RequestState, Undo
  <1>c. 500 \in Response
    BY DEF Response
  <1>f. ASSUME Fail(r, 500) PROVE IngestTypeOK'
    BY <1>f, <1>u, <1>c, FailTypes DEF Fail
  <1>1. CASE \E part \in Part : PersistObjectFails(r, part)
    BY <1>1, <1>u, PutAnsweredTypes DEF PersistObjectFails
  <1>6. CASE ReserveAckLost(r)
    BY <1>6, <1>u, <1>c, FailTypes DEF ReserveAckLost
  <1>2. CASE InsertAckLost(r)
    BY <1>2, <1>f DEF InsertAckLost
  <1>3. CASE StorageCallFails(r)
    BY <1>3, <1>f DEF StorageCallFails
  <1>4. CASE \E entry \in {"slot"} \cup Part : CompensationFails(r, entry)
    BY <1>4, <1>u, PoppedTypes DEF CompensationFails
  <1>5. CASE IsolateLost(r)
    <2>1. [NoRequest EXCEPT !.pc = "lost", !.endpoint = req[r].endpoint,
                            !.left = req[r].left \cup req[r].undo] \in RequestState
      BY <1>u, NoRequestType DEF IngestTypeOK, RequestState, Undo
    <2> QED
      BY <1>5, <2>1, BecomeTypes DEF IsolateLost
  <1> QED
    BY <1>1, <1>2, <1>3, <1>4, <1>5, <1>6 DEF RequestFailure

LEMMA ValidateEndpointTypes ==
  ASSUME IngestTypeOK, NEW r \in Request, NEW e \in Endpoint, NEW h \in Credential,
         ValidateEndpoint(r, e, h)
  PROVE  IngestTypeOK'
PROOF
  <1>1. [NoRequest EXCEPT !.pc = "reserve", !.endpoint = e, !.header = h] \in RequestState
    BY NoRequestType DEF RequestState
  <1>2. ASSUME NEW code \in Response
        PROVE  [NoRequest EXCEPT !.pc = "done", !.endpoint = e, !.response = code]
                 \in RequestState
    BY NoRequestType DEF RequestState
  <1>3. 0 \in Response /\ 404 \in Response /\ 410 \in Response
    BY DEF Response
  <1>4. PICK q \in RequestState : Become(r, q)
    BY <1>1, <1>2, <1>3 DEF ValidateEndpoint
  <1> QED
    BY <1>4, BecomeTypes

-----------------------------------------------------------------------------
(* The purging handlers' states *)

LEMMA JobGotoTypes ==
  ASSUME PurgeTypeOK, NEW p \in Job,
         NEW pc \in {"list", "events", "secrets", "endpoint"}, JobGoto(p, pc)
  PROVE  PurgeTypeOK'
PROOF
  <1>1. [job[p] EXCEPT !.pc = pc] \in JobState
    BY DEF PurgeTypeOK, JobState
  <1> QED
    BY <1>1, JobBecomeTypes DEF JobGoto

LEMMA EndJobTypes ==
  ASSUME PurgeTypeOK, NEW p \in Job, EndJob(p)
  PROVE  PurgeTypeOK'
  BY NoJobType, JobBecomeTypes DEF EndJob

LEMMA StartPurgeTypes ==
  ASSUME PurgeTypeOK, NEW p \in Job, NEW e \in Endpoint, StartPurge(p, e)
  PROVE  PurgeTypeOK'
PROOF
  <1>1. [NoJob EXCEPT !.pc = "list", !.endpoint = e] \in JobState
    BY NoJobType DEF JobState
  <1> QED
    BY <1>1, JobBecomeTypes DEF StartPurge

LEMMA KeysOfTypes ==
  ASSUME StoreTypeOK, NEW S \in SUBSET events
  PROVE  KeysOf(S) \in SUBSET Key
  BY DEF StoreTypeOK, EventRow, KeysOf, Key

LEMMA OwnerStepTypes ==
  ASSUME PurgeTypeOK, NEW o \in Owner, OwnerStep(o)
  PROVE  PurgeTypeOK'
PROOF
  <1>o. o \in Job
    BY DEF Job
  <1>p. \A e \in PrivEndpoint : e \in Endpoint
    BY DEF Endpoint
  <1>s. ASSUME NEW e \in PrivEndpoint, NEW s \in Secret,
               NEW pc \in {"addSecret", "revokeSecret"}, FindForSecret(o, e, s, pc)
        PROVE  PurgeTypeOK'
    <2>1. [NoJob EXCEPT !.endpoint = e, !.secret = s, !.pc = pc] \in JobState
      BY <1>p, NoJobType DEF JobState
    <2> QED
      BY <1>o, <1>s, <2>1, JobBecomeTypes DEF FindForSecret
  <1>1. CASE \E e \in PrivEndpoint : FindForDelete(o, e)
    <2>1. PICK e \in PrivEndpoint : FindForDelete(o, e)
      BY <1>1
    <2>2. ASSUME NEW pc \in {"disable", "list"}
          PROVE  [NoJob EXCEPT !.endpoint = e, !.pc = pc] \in JobState
      BY <1>p, NoJobType DEF JobState
    <2> QED
      BY <1>o, <2>1, <2>2, JobBecomeTypes DEF FindForDelete
  <1>2. CASE DisableEndpoint(o)
    BY <1>o, <1>2, JobGotoTypes, EndJobTypes DEF DisableEndpoint
  <1>3. CASE \E e \in PrivEndpoint, s \in Secret : FindForCreateSecret(o, e, s)
    BY <1>3, <1>s DEF FindForCreateSecret
  <1>4. CASE \E e \in PrivEndpoint, s \in Secret : FindForRevokeSecret(o, e, s)
    BY <1>4, <1>s DEF FindForRevokeSecret
  <1>5. CASE CreateEndpointSecret(o)
    BY <1>o, <1>5, EndJobTypes DEF CreateEndpointSecret
  <1>6. CASE RevokeEndpointSecret(o)
    BY <1>o, <1>6, EndJobTypes DEF RevokeEndpointSecret
  <1>7. CASE OwnerRequestFails(o)
    BY <1>o, <1>7, EndJobTypes DEF OwnerRequestFails
  <1>8. CASE OwnerDeleteRefused(o)
    BY <1>o, <1>8, EndJobTypes DEF OwnerDeleteRefused
  <1> QED
    BY <1>1, <1>2, <1>3, <1>4, <1>5, <1>6, <1>7, <1>8 DEF OwnerStep

LEMMA PurgeStepTypes ==
  ASSUME PurgeTypeOK, StoreTypeOK, NEW p \in Job, PurgeStep(p)
  PROVE  PurgeTypeOK'
PROOF
  <1>j. job[p] \in JobState
    BY DEF PurgeTypeOK
  <1>1. CASE ListObjectKeys(p)
    <2> DEFINE page == PageAfter(EventsOf(job[p].endpoint), job[p].cursor, PageSize)
    <2>1. page \in SUBSET events
      BY DEF PageAfter, EventsOf
    <2>2. CASE page = {}
      BY <1>1, <2>2, JobGotoTypes DEF ListObjectKeys
    <2>3. CASE page # {}
      <3>1. PICK last \in LastRow(page) :
              JobBecome(p, [job[p] EXCEPT !.pc = "objects", !.keys = KeysOf(page),
                                          !.cursor = last.sequence])
        BY <1>1, <2>3 DEF ListObjectKeys
      <3>2. last.sequence \in Nat
        BY <2>1 DEF LastRow, StoreTypeOK, EventRow
      <3>3. KeysOf(page) \in SUBSET Key
        BY <2>1, KeysOfTypes
      <3>4. [job[p] EXCEPT !.pc = "objects", !.keys = KeysOf(page),
                           !.cursor = last.sequence] \in JobState
        BY <1>j, <3>2, <3>3 DEF JobState
      <3> QED
        BY <3>1, <3>4, JobBecomeTypes
    <2> QED
      BY <2>2, <2>3
  <1>2. CASE DeleteObjectBatch(p)
    <2>1. PICK batch \in Batches(job[p].keys), pc \in {"list", "objects"} :
            JobBecome(p, [job[p] EXCEPT !.keys = job[p].keys \ batch, !.pc = pc])
      BY <1>2 DEF DeleteObjectBatch
    <2>2. [job[p] EXCEPT !.keys = job[p].keys \ batch, !.pc = pc] \in JobState
      BY <1>j DEF JobState
    <2> QED
      BY <2>1, <2>2, JobBecomeTypes
  <1>3. CASE DeleteEvents(p)
    BY <1>3, JobGotoTypes DEF DeleteEvents
  <1>4. CASE DeleteSecrets(p)
    BY <1>4, JobGotoTypes DEF DeleteSecrets
  <1>5. CASE DeleteEndpoint(p)
    BY <1>5, EndJobTypes DEF DeleteEndpoint
  <1> QED
    BY <1>1, <1>2, <1>3, <1>4, <1>5 DEF PurgeStep

-----------------------------------------------------------------------------
(* The cleanup's state *)

LEMMA CronGotoTypes ==
  ASSUME RetentionTypeOK, NEW ph \in {"private", "old", "reconcile", "list", "orphans"},
         CronGoto(ph)
  PROVE  RetentionTypeOK'
  BY DEF RetentionTypeOK, CronState, CronGoto

LEMMA CronOffType == CronOff \in CronState
  BY DEF CronOff, CronState

LEMMA ListExpiredTypes ==
  ASSUME RetentionTypeOK, NEW ph, NEW S \in SUBSET Endpoint,
         NEW next \in {"private", "old"}, ListExpired(ph, S, next)
  PROVE  RetentionTypeOK'
PROOF
  <1>1. CASE ExpiredOf(S) = {}
    BY <1>1, CronGotoTypes DEF ListExpired
  <1>2. CASE ExpiredOf(S) # {}
    <2>1. PICK page \in SUBSET ExpiredOf(S) : cron' = [cron EXCEPT !.page = page]
      BY <1>2 DEF ListExpired
    <2>2. page \in SUBSET Endpoint
      BY DEF ExpiredOf
    <2> QED
      BY <2>1, <2>2 DEF RetentionTypeOK, CronState
  <1> QED
    BY <1>1, <1>2

LEMMA CleanupStepTypes ==
  ASSUME RetentionTypeOK, PurgeTypeOK, StoreTypeOK, CleanupStep
  PROVE  RetentionTypeOK' /\ PurgeTypeOK'
PROOF
  <1>j. ASSUME UNCHANGED job PROVE PurgeTypeOK'
    BY <1>j DEF PurgeTypeOK
  <1>c. cron \in CronState /\ Cron \in Job
    BY DEF RetentionTypeOK, Job
  <1>1. CASE StartCleanup
    <2>1. [CronOff EXCEPT !.phase = "temporary", !.now = clock] \in CronState
      BY CronOffType DEF CronState, StoreTypeOK
    <2> QED
      BY <1>1, <1>j, <2>1 DEF StartCleanup, RetentionTypeOK
  <1>2. CASE ListExpiredTemporary
    <2>1. TempEndpoint \in SUBSET Endpoint
      BY DEF Endpoint
    <2> QED
      BY <1>2, <1>j, <2>1, ListExpiredTypes DEF ListExpiredTemporary, ListExpired
  <1>3. CASE ListExpiredPrivate
    <2>1. PrivEndpoint \in SUBSET Endpoint
      BY DEF Endpoint
    <2> QED
      BY <1>3, <1>j, <2>1, ListExpiredTypes DEF ListExpiredPrivate, ListExpired
  <1>4. CASE \E e \in Endpoint : PurgeNextExpired(e)
    <2>1. PICK e \in Endpoint : PurgeNextExpired(e)
      BY <1>4
    <2>2. [cron EXCEPT !.page = cron.page \ {e}] \in CronState
      BY <1>c DEF CronState
    <2> QED
      BY <2>1, <2>2, <1>c, StartPurgeTypes DEF PurgeNextExpired, RetentionTypeOK
  <1>5. CASE ListOldEvents
    <2> DEFINE page == PageAfter(OldPrivateEvents, cron.cursor, PageSize)
    <2>1. page \in SUBSET events
      BY DEF PageAfter, OldPrivateEvents
    <2>2. CASE page = {}
      BY <1>5, <2>2, <1>j, CronGotoTypes DEF ListOldEvents
    <2>3. CASE page # {}
      <3>1. PICK last \in LastRow(page) :
              cron' = [cron EXCEPT !.phase = "oldObjects", !.keys = KeysOf(page),
                                   !.rows = {v.id : v \in page},
                                   !.cursor = last.sequence]
        BY <1>5, <2>3 DEF ListOldEvents
      <3>2. last.sequence \in Nat
        BY <2>1 DEF LastRow, StoreTypeOK, EventRow
      <3>3. KeysOf(page) \in SUBSET Key
        BY <2>1, KeysOfTypes
      <3>4. {v.id : v \in page} \in SUBSET Request
        BY <2>1 DEF StoreTypeOK, EventRow
      <3> HIDE DEF page
      <3>5. cron' \in CronState
        BY <1>c, <3>1, <3>2, <3>3, <3>4 DEF CronState
      <3> QED
        BY <1>5, <3>5, <1>j DEF ListOldEvents, RetentionTypeOK
    <2> QED
      BY <2>2, <2>3
  <1>6. CASE DeleteOldRows
    <2>1. [cron EXCEPT !.phase = "old", !.rows = {}] \in CronState
      BY <1>c DEF CronState
    <2> QED
      BY <1>6, <1>j, <2>1 DEF DeleteOldRows, RetentionTypeOK
  <1>7. CASE ReconcilePrivateCounts
    BY <1>7, <1>j, CronGotoTypes DEF ReconcilePrivateCounts
  <1>8. CASE ListOldObjects
    <2>1. OldObjects \in SUBSET Key
      BY DEF StoreTypeOK, Object, OldObjects
    <2>2. ASSUME NEW page \in SUBSET OldObjects
          PROVE  [cron EXCEPT !.phase = "exists", !.scan = page,
                              !.listed = cron.listed \cup page] \in CronState
      BY <1>c, <2>1 DEF CronState
    <2>3. CASE OldObjects \ cron.listed = {}
      BY <1>8, <1>j, <2>3, CronOffType, CronGotoTypes DEF ListOldObjects, RetentionTypeOK
    <2>4. CASE OldObjects \ cron.listed # {}
      <3>1. cron' \in CronState
        BY <1>8, <2>2, <2>4 DEF ListOldObjects
      <3> QED
        BY <1>8, <1>j, <3>1 DEF ListOldObjects, RetentionTypeOK
    <2> QED
      BY <2>3, <2>4
  <1>9. CASE \E k \in Key : LookUpEvent(k)
    <2>1. PICK k \in Key : LookUpEvent(k)
      BY <1>9
    <2>2. PICK keys \in SUBSET Key :
            cron' = [cron EXCEPT !.scan = cron.scan \ {k}, !.keys = keys]
      BY <2>1, <1>c DEF LookUpEvent, CronState
    <2>3. cron' \in CronState
      BY <1>c, <2>2 DEF CronState
    <2> QED
      BY <2>1, <2>3, <1>j DEF LookUpEvent, RetentionTypeOK
  <1>10. CASE ScanDone
    BY <1>10, <1>j, CronOffType, CronGotoTypes DEF ScanDone, RetentionTypeOK
  <1>11. CASE DeleteKeyBatch
    <2>1. PICK batch \in Batches(cron.keys) :
            \/ cron' = [cron EXCEPT !.keys = cron.keys \ batch]
            \/ cron' = CronOff
            \/ cron' = [cron EXCEPT !.keys = {}, !.phase = "oldRows"]
      BY <1>11 DEF DeleteKeyBatch
    <2>2. [cron EXCEPT !.keys = cron.keys \ batch] \in CronState
      BY <1>c DEF CronState
    <2>3. [cron EXCEPT !.keys = {}, !.phase = "oldRows"] \in CronState
      BY <1>c DEF CronState
    <2>4. UNCHANGED job
      BY <1>11 DEF DeleteKeyBatch
    <2> QED
      BY <1>j, <2>1, <2>2, <2>3, <2>4, CronOffType DEF RetentionTypeOK
  <1>12. CASE CleanupDeleteRefused
    BY <1>12, <1>c, CronOffType, EndJobTypes DEF CleanupDeleteRefused, RetentionTypeOK
  <1> QED
    BY <1>1, <1>2, <1>3, <1>4, <1>5, <1>6, <1>7, <1>8, <1>9, <1>10, <1>11, <1>12
    DEF CleanupStep

-----------------------------------------------------------------------------
(* The stores, statement by statement *)

StoreInv == StoreTypeOK /\ Finite

EndpointsOK == endpoints \in [Endpoint -> EndpointRow]
EventsOK    == events \in SUBSET EventRow /\ IsFiniteSet(events) /\ next_sequence \in Nat \ {0}
SecretsOK   == secrets \in SUBSET SecretRow
ObjectsOK   == objects \in SUBSET Object
ClockOK     == clock \in Nat /\ failures \in Nat

LEMMA StoreInvParts ==
  StoreInv <=> EndpointsOK /\ EventsOK /\ SecretsOK /\ ObjectsOK /\ ClockOK
  BY DEF StoreInv, StoreTypeOK, Finite, EndpointsOK, EventsOK, SecretsOK, ObjectsOK, ClockOK

LEMMA StoreInvPartsNext ==
  StoreInv' <=> EndpointsOK' /\ EventsOK' /\ SecretsOK' /\ ObjectsOK' /\ ClockOK'
  BY DEF StoreInv, StoreTypeOK, Finite, EndpointsOK, EventsOK, SecretsOK, ObjectsOK, ClockOK

LEMMA Unchanged ==
  /\ EndpointsOK /\ UNCHANGED endpoints => EndpointsOK'
  /\ EventsOK /\ UNCHANGED <<events, next_sequence>> => EventsOK'
  /\ SecretsOK /\ UNCHANGED secrets => SecretsOK'
  /\ ObjectsOK /\ UNCHANGED objects => ObjectsOK'
  /\ ClockOK /\ UNCHANGED <<clock, failures>> => ClockOK'
  BY DEF EndpointsOK, EventsOK, SecretsOK, ObjectsOK, ClockOK

LEMMA UnchangedStore == StoreInv /\ UNCHANGED storeVars => StoreInv'
  BY StoreInvParts, StoreInvPartsNext, Unchanged DEF storeVars, d1Vars

LEMMA CountTypes ==
  ASSUME EndpointsOK, NEW e, CountUp(e) \/ CountDown(e)
  PROVE  EndpointsOK'
  BY DEF EndpointsOK, EndpointRow, CountUp, CountDown

LEMMA DeleteEndpointRowTypes ==
  ASSUME EndpointsOK, NEW e, DeleteEndpointRow(e)
  PROVE  EndpointsOK'
  BY DEF EndpointsOK, EndpointRow, DeleteEndpointRow

LEMMA ReconcileCountsTypes ==
  ASSUME EndpointsOK, EventsOK, ReconcileCounts
  PROVE  EndpointsOK'
PROOF
  <1>1. ASSUME NEW e \in Endpoint PROVE Cardinality(EventsOf(e)) \in Nat
    <2>1. IsFiniteSet(EventsOf(e))
      BY FS_Subset DEF EventsOf, EventsOK
    <2> QED
      BY <2>1, FS_CardinalityType
  <1>2. ASSUME NEW e \in Endpoint
        PROVE  [endpoints[e] EXCEPT !.event_count = Cardinality(EventsOf(e))] \in EndpointRow
    BY <1>1 DEF EndpointsOK, EndpointRow
  <1> QED
    BY <1>2 DEF ReconcileCounts, EndpointsOK

LEMMA InsertEventTypes ==
  ASSUME EventsOK, NEW r \in Request, NEW e \in Endpoint, NEW t \in Nat, InsertEvent(r, e, t)
  PROVE  EventsOK'
PROOF
  <1>1. IsFiniteSet(events')
    BY FS_AddElement DEF InsertEvent, EventsOK
  <1> QED
    BY <1>1 DEF InsertEvent, EventsOK, EventRow

LEMMA DeleteEventsTypes ==
  ASSUME EventsOK, events' \in SUBSET events, UNCHANGED next_sequence
  PROVE  EventsOK'
PROOF
  <1>1. IsFiniteSet(events')
    BY FS_Subset DEF EventsOK
  <1> QED
    BY <1>1 DEF EventsOK

LEMMA PutObjectTypes ==
  ASSUME ObjectsOK, ClockOK, NEW k \in Key, PutObject(k)
  PROVE  ObjectsOK'
  BY DEF ObjectsOK, ClockOK, PutObject, Object

LEMMA RemoveObjectsTypes ==
  ASSUME ObjectsOK, NEW ks, RemoveObjects(ks)
  PROVE  ObjectsOK'
  BY DEF ObjectsOK, RemoveObjects

LEMMA FailureTypes ==
  ASSUME ClockOK, Failure, UNCHANGED clock
  PROVE  ClockOK'
  BY DEF ClockOK, Failure

(* A handler that is about to write a row knows the endpoint it is for. *)
Bound ==
  /\ \A r \in Request : Running(r) => req[r].endpoint \in Endpoint
  /\ \A o \in Owner : Doing(o, "addSecret") =>
       job[o].endpoint \in Endpoint /\ job[o].secret \in Secret

LEMMA RequestStepStore ==
  ASSUME StoreInv, IngestTypeOK, Bound, NEW r \in Request, RequestStep(r)
  PROVE  StoreInv'
PROOF
  <1> USE StoreInvParts, StoreInvPartsNext, Unchanged
  <1>k. \A part \in Part : <<r, part>> \in Key
    BY DEF Key
  <1>1. CASE ReserveTemporary(r)
    BY <1>1, CountTypes DEF ReserveTemporary
  <1>2. CASE ReservePrivate(r)
    BY <1>2, CountTypes DEF ReservePrivate
  <1>3. CASE \E part \in Part : PersistObject(r, part)
    BY <1>3, <1>k, PutObjectTypes DEF PersistObject, d1Vars
  <1>4. CASE RecordMetadata(r)
    <2>1. req[r].endpoint \in Endpoint /\ req[r].receivedAt \in Nat
      BY <1>4 DEF RecordMetadata, Bound, Running, At, IngestTypeOK, RequestState
    <2> QED
      BY <1>4, <2>1, InsertEventTypes DEF RecordMetadata
  <1>5. CASE \E entry \in {"slot"} \cup Part : Compensate(r, entry)
    <2>1. PICK entry \in {"slot"} \cup Part : Compensate(r, entry)
      BY <1>5
    <2>2. EndpointsOK' /\ ObjectsOK'
      BY <2>1, CountTypes, RemoveObjectsTypes DEF Compensate
    <2> QED
      BY <2>1, <2>2 DEF Compensate
  <1>6. CASE UNCHANGED storeVars
    BY <1>6, UnchangedStore
  <1> QED
    BY <1>1, <1>2, <1>3, <1>4, <1>5, <1>6 DEF RequestStep, ExplainRefusal, VerifySecret,
      ReadBody, BodyTooLarge, CheckExpiry, ClassifyRefusal, PublishLive

LEMMA RequestFailureStore ==
  ASSUME StoreInv, IngestTypeOK, Bound, NEW r \in Request, RequestFailure(r)
  PROVE  StoreInv'
PROOF
  <1> USE StoreInvParts, StoreInvPartsNext, Unchanged
  <1>k. \A part \in Part : <<r, part>> \in Key
    BY DEF Key
  <1>1. CASE \E part \in Part : PersistObjectFails(r, part)
    BY <1>1, <1>k, PutObjectTypes, FailureTypes DEF PersistObjectFails, d1Vars
  <1>2. CASE InsertAckLost(r)
    <2>1. req[r].endpoint \in Endpoint /\ req[r].receivedAt \in Nat
      BY <1>2 DEF InsertAckLost, Bound, Running, At, IngestTypeOK, RequestState
    <2> QED
      BY <1>2, <2>1, InsertEventTypes, FailureTypes DEF InsertAckLost
  <1>3. CASE Failure /\ UNCHANGED <<d1Vars, objects, clock>>
    BY <1>3, FailureTypes DEF d1Vars
  <1>4. CASE ReserveAckLost(r)
    BY <1>4, CountTypes, FailureTypes DEF ReserveAckLost
  <1> QED
    BY <1>1, <1>2, <1>3, <1>4 DEF RequestFailure, StorageCallFails, CompensationFails, IsolateLost

LEMMA OwnerStepStore ==
  ASSUME StoreInv, Bound, NEW o \in Owner, OwnerStep(o)
  PROVE  StoreInv'
PROOF
  <1> USE StoreInvParts, StoreInvPartsNext, Unchanged
  <1>1. CASE DisableEndpoint(o)
    <2>1. EndpointsOK'
      BY <1>1 DEF DisableEndpoint, EndpointsOK, EndpointRow
    <2> QED
      BY <1>1, <2>1 DEF DisableEndpoint
  <1>2. CASE CreateEndpointSecret(o)
    <2>1. job[o].endpoint \in Endpoint /\ job[o].secret \in Secret
      BY <1>2 DEF CreateEndpointSecret, Bound
    <2>2. SecretsOK'
      BY <1>2, <2>1 DEF CreateEndpointSecret, SecretsOK, SecretRow
    <2> QED
      BY <1>2, <2>2 DEF CreateEndpointSecret
  <1>3. CASE RevokeEndpointSecret(o)
    <2>1. SecretsOK'
      BY <1>3 DEF RevokeEndpointSecret, SecretsOf, SecretsOK, SecretRow
    <2> QED
      BY <1>3, <2>1 DEF RevokeEndpointSecret
  <1>4. CASE OwnerRequestFails(o)
    BY <1>4, FailureTypes DEF OwnerRequestFails, d1Vars
  <1>5. CASE UNCHANGED storeVars
    BY <1>5, UnchangedStore
  <1> QED
    BY <1>1, <1>2, <1>3, <1>4, <1>5 DEF OwnerStep, FindForDelete, FindForCreateSecret,
      FindForRevokeSecret, FindForSecret, OwnerDeleteRefused

LEMMA PurgeStepStore ==
  ASSUME StoreInv, NEW p \in Job, PurgeStep(p)
  PROVE  StoreInv'
PROOF
  <1> USE StoreInvParts, StoreInvPartsNext, Unchanged
  <1>1. CASE ListObjectKeys(p)
    BY <1>1, UnchangedStore DEF ListObjectKeys
  <1>2. CASE DeleteObjectBatch(p)
    BY <1>2, RemoveObjectsTypes DEF DeleteObjectBatch, d1Vars
  <1>3. CASE DeleteEvents(p)
    BY <1>3, DeleteEventsTypes DEF DeleteEvents
  <1>4. CASE DeleteSecrets(p)
    <2>1. SecretsOK'
      BY <1>4 DEF DeleteSecrets, SecretsOK
    <2> QED
      BY <1>4, <2>1 DEF DeleteSecrets
  <1>5. CASE DeleteEndpoint(p)
    BY <1>5, DeleteEndpointRowTypes DEF DeleteEndpoint
  <1> QED
    BY <1>1, <1>2, <1>3, <1>4, <1>5 DEF PurgeStep

LEMMA CleanupStepStore ==
  ASSUME StoreInv, CleanupStep
  PROVE  StoreInv'
PROOF
  <1> USE StoreInvParts, StoreInvPartsNext, Unchanged
  <1>1. CASE DeleteOldRows
    BY <1>1, DeleteEventsTypes DEF DeleteOldRows
  <1>2. CASE ReconcilePrivateCounts
    BY <1>2, ReconcileCountsTypes DEF ReconcilePrivateCounts
  <1>3. CASE DeleteKeyBatch
    BY <1>3, RemoveObjectsTypes DEF DeleteKeyBatch, d1Vars
  <1>4. CASE UNCHANGED storeVars
    BY <1>4, UnchangedStore
  <1> QED
    BY <1>1, <1>2, <1>3, <1>4 DEF CleanupStep, StartCleanup, ListExpiredTemporary,
      ListExpiredPrivate, ListExpired, PurgeNextExpired, ListOldEvents, ListOldObjects,
      LookUpEvent, ScanDone, CleanupDeleteRefused

-----------------------------------------------------------------------------
(* What a step of a request does to its slot, to the endpoint's count and to *)
(* the events, whatever else it does.                                        *)

LeaksSlot(r) == "slot" \in req[r].left

(* From the reservation to the INSERT a request holds its slot, and only one *)
(* that is over has left it behind.                                          *)
Slotted == \A r \in Request :
  /\ req[r].pc \in {"verify", "body", "store", "check", "insert"} => HoldsSlot(r)
  /\ LeaksSlot(r) => req[r].pc \in {"done", "lost"}

Keeps(r) == (HoldsSlot(r)' <=> HoldsSlot(r)) /\ UNCHANGED <<endpoints, events>>

Drops(r) ==
  /\ ~HoldsSlot(r)' /\ (HoldsSlot(r) => LeaksSlot(r)')
  /\ UNCHANGED <<endpoints, events>>

Takes(r) ==
  LET e == req[r].endpoint IN
  /\ At(r, "reserve") /\ (HoldsSlot(r)' \/ LeaksSlot(r)')
  /\ endpoints[e].status = "active"
  /\ e \in TempEndpoint => endpoints[e].event_count < TempLimit
  /\ CountUp(e) /\ UNCHANGED events

Releases(r) ==
  /\ HoldsSlot(r) /\ ~HoldsSlot(r)'
  /\ CountDown(req[r].endpoint) /\ UNCHANGED events

Inserts(r) ==
  /\ At(r, "insert") /\ HoldsSlot(r) /\ ~HoldsSlot(r)'
  /\ endpoints[req[r].endpoint].status = "active"
  /\ InsertEvent(r, req[r].endpoint, req[r].receivedAt) /\ UNCHANGED endpoints

(* The part of Slotted and Bound a step of r is responsible for. *)
StaysBound(r) ==
  /\ Running(r)
  /\ \A x \in Request \ {r} : req'[x] = req[x]
  /\ req'[r].endpoint = req[r].endpoint
  /\ req'[r].pc \in {"verify", "body", "store", "check", "insert"} => HoldsSlot(r)'
  /\ LeaksSlot(r)' => LeaksSlot(r) \/ req'[r].pc \in {"done", "lost"}

LEMMA BecomeShape ==
  ASSUME IngestTypeOK, NEW r \in Request, NEW q, Become(r, q)
  PROVE  req'[r] = q /\ \A x \in Request \ {r} : req'[x] = req[x]
  BY DEF IngestTypeOK, Become

LEMMA FailShape ==
  ASSUME IngestTypeOK, NEW r \in Request, NEW undo, NEW left, NEW code,
         FailWith(r, undo, left, code)
  PROVE  /\ \A x \in Request \ {r} : req'[x] = req[x]
         /\ req'[r].pc = IF undo = {} THEN "done" ELSE "undo"
         /\ req'[r].endpoint = req[r].endpoint
         /\ req'[r].undo = undo
         /\ req'[r].left = left
PROOF
  <1> DEFINE pc == IF undo = {} THEN "done" ELSE "undo"
             q == [NoRequest EXCEPT !.pc = pc, !.endpoint = req[r].endpoint,
                                    !.undo = undo, !.left = left, !.response = code]
  <1>1. Become(r, q)
    BY DEF FailWith
  <1>2. q.pc = pc /\ q.endpoint = req[r].endpoint /\ q.undo = undo /\ q.left = left
    BY DEF NoRequest
  <1>3. Become(r, q)
    BY <1>1
  <1> HIDE DEF q
  <1> QED
    BY <1>2, <1>3, BecomeShape

LEMMA FailStaysBound ==
  ASSUME IngestTypeOK, NEW r \in Request, Running(r), NEW undo, NEW left, NEW code,
         "slot" \in left => undo = {} \/ LeaksSlot(r), FailWith(r, undo, left, code)
  PROVE  /\ StaysBound(r) /\ (HoldsSlot(r)' <=> "slot" \in undo)
         /\ LeaksSlot(r)' <=> "slot" \in left
  BY FailShape DEF StaysBound, HoldsSlot, LeaksSlot

LEMMA GotoShape ==
  ASSUME IngestTypeOK, NEW r \in Request, NEW pc, Goto(r, pc)
  PROVE  /\ \A x \in Request \ {r} : req'[x] = req[x]
         /\ req'[r].pc = pc
         /\ req'[r].endpoint = req[r].endpoint
         /\ req'[r].undo = req[r].undo
         /\ req'[r].left = req[r].left
PROOF
  <1>1. req[r] \in RequestState
    BY DEF IngestTypeOK
  <1> QED
    BY <1>1, BecomeShape DEF Goto, RequestState

LEMMA PutAnsweredShape ==
  ASSUME IngestTypeOK, NEW r \in Request, NEW part \in Part, NEW undo, NEW left,
         "slot" \in left => LeaksSlot(r),
         Running(r), HoldsSlot(r), "slot" \in undo, PutAnswered(r, part, undo, left)
  PROVE  StaysBound(r) /\ HoldsSlot(r)'
PROOF
  <1>1. CASE FailWith(r, undo, left, 500)
    BY <1>1, FailStaysBound
  <1>2. CASE ~FailWith(r, undo, left, 500)
    <2>1. PICK pc \in {"check", "store"} :
            Become(r, [req[r] EXCEPT !.pending = req[r].pending \ {part},
                                     !.undo = undo, !.left = left, !.pc = pc])
      BY <1>2 DEF PutAnswered
    <2> DEFINE q == [req[r] EXCEPT !.pending = req[r].pending \ {part},
                                   !.undo = undo, !.left = left, !.pc = pc]
    <2>2. q.pc = pc /\ q.endpoint = req[r].endpoint /\ q.undo = undo /\ q.left = left
      BY DEF IngestTypeOK, RequestState
    <2>3. Become(r, q)
      BY <2>1
    <2> HIDE DEF q
    <2> QED
      BY <2>2, <2>3, BecomeShape DEF StaysBound, HoldsSlot, LeaksSlot
  <1> QED
    BY <1>1, <1>2

LEMMA PoppedShape ==
  ASSUME IngestTypeOK, NEW r \in Request, NEW entry, NEW left,
         "slot" \in left => entry = "slot" \/ LeaksSlot(r), Popped(r, entry, left)
  PROVE  /\ StaysBound(r)
         /\ req'[r].undo = req[r].undo \ {entry}
         /\ req'[r].left = left
         /\ entry \in req[r].undo
PROOF
  <1> DEFINE pc == IF req[r].undo \ {entry} = {} THEN "done" ELSE "undo"
  <1>1. /\ Become(r, [req[r] EXCEPT !.undo = req[r].undo \ {entry}, !.left = left, !.pc = pc])
        /\ entry = "slot" => pc = "done"
    BY DEF Popped
  <1>2. req[r] \in RequestState /\ req[r].pc = "undo" /\ entry \in req[r].undo
    BY DEF IngestTypeOK, Popped, At
  <1> DEFINE q == [req[r] EXCEPT !.undo = req[r].undo \ {entry}, !.left = left, !.pc = pc]
  <1>3. /\ q.pc = pc /\ q.endpoint = req[r].endpoint /\ q.undo = req[r].undo \ {entry}
        /\ q.left = left
    BY <1>2 DEF RequestState
  <1>4. Become(r, q)
    BY <1>1
  <1>6. pc \in {"done", "undo"}
    OBVIOUS
  <1> HIDE DEF q, pc
  <1>5. /\ req'[r].undo = req[r].undo \ {entry}
        /\ req'[r].left = left
        /\ req'[r].pc \in {"done", "undo"} /\ (entry = "slot" => req'[r].pc = "done")
        /\ req'[r].endpoint = req[r].endpoint
        /\ \A x \in Request \ {r} : req'[x] = req[x]
    BY <1>1, <1>3, <1>4, <1>6, BecomeShape
  <1> QED
    BY <1>2, <1>5 DEF StaysBound, Running, HoldsSlot, LeaksSlot

(* A refusal, and a step that only moves on, leave the slot as it was. *)
LEMMA FailKeeps ==
  ASSUME IngestTypeOK, NEW r \in Request, Running(r), NEW code, Fail(r, code),
         UNCHANGED <<endpoints, events>>
  PROVE  StaysBound(r) /\ Keeps(r)
  BY FailStaysBound DEF Fail, Keeps, HoldsSlot, LeaksSlot

LEMMA GotoKeeps ==
  ASSUME IngestTypeOK, NEW r \in Request, Running(r), NEW pc, Goto(r, pc),
         HoldsSlot(r) \/ pc \in {"relookup", "classify"},
         UNCHANGED <<endpoints, events>>
  PROVE  StaysBound(r) /\ Keeps(r)
  BY GotoShape DEF StaysBound, Keeps, HoldsSlot, LeaksSlot

LEMMA ReserveShape ==
  ASSUME IngestTypeOK, NEW r \in Request, At(r, "reserve"),
         Become(r, [req[r] EXCEPT !.pc = "verify", !.undo = {"slot"}])
  PROVE  StaysBound(r) /\ HoldsSlot(r)'
PROOF
  <1> DEFINE q == [req[r] EXCEPT !.pc = "verify", !.undo = {"slot"}]
  <1>1. /\ q.pc = "verify" /\ q.endpoint = req[r].endpoint /\ q.undo = {"slot"}
        /\ q.left = req[r].left
    BY DEF IngestTypeOK, RequestState
  <1>2. Become(r, q)
    OBVIOUS
  <1> HIDE DEF q
  <1> QED
    BY <1>1, <1>2, BecomeShape DEF StaysBound, Running, At, HoldsSlot, LeaksSlot

LEMMA RequestStepShape ==
  ASSUME IngestTypeOK, Slotted, NEW r \in Request, RequestStep(r)
  PROVE  StaysBound(r) /\ (Keeps(r) \/ Takes(r) \/ Releases(r) \/ Inserts(r))
PROOF
  <1>s. UNCHANGED storeVars => UNCHANGED <<endpoints, events>>
    BY DEF storeVars, d1Vars
  <1>p. ASSUME NEW pc, At(r, pc), pc \notin {"idle", "done", "lost"}
        PROVE  Running(r)
    BY <1>p DEF At, Running
  <1>h. ASSUME NEW pc \in {"verify", "body", "store", "check", "insert"}, At(r, pc)
        PROVE  HoldsSlot(r) /\ Running(r)
    BY <1>h DEF Slotted, At, Running
  <1>1. CASE ReserveTemporary(r)
    <2>1. CASE CanReserveTemporarySlot(req[r].endpoint)
      BY <1>1, <2>1, ReserveShape DEF ReserveTemporary, Takes, CanReserveTemporarySlot
    <2>2. CASE ~CanReserveTemporarySlot(req[r].endpoint)
      BY <1>1, <2>2, <1>p, FailKeeps DEF ReserveTemporary
    <2> QED
      BY <2>1, <2>2
  <1>2. CASE ReservePrivate(r)
    <2>1. CASE CanReservePrivateSlot(req[r].endpoint)
      BY <1>2, <2>1, ReserveShape, ModeAssumption
      DEF ReservePrivate, Takes, CanReservePrivateSlot
    <2>2. CASE ~CanReservePrivateSlot(req[r].endpoint)
      BY <1>2, <2>2, <1>p, GotoKeeps DEF ReservePrivate
    <2> QED
      BY <2>1, <2>2
  <1>3. CASE ExplainRefusal(r)
    BY <1>3, <1>s, <1>p, FailKeeps DEF ExplainRefusal
  <1>4. CASE VerifySecret(r)
    <2>1. HoldsSlot(r) /\ Running(r) /\ UNCHANGED <<endpoints, events>>
      BY <1>4, <1>s, <1>h DEF VerifySecret
    <2>2. CASE Goto(r, "body")
      BY <2>1, <2>2, GotoKeeps
    <2>3. CASE Fail(r, 401)
      BY <2>1, <2>3, FailKeeps
    <2>4. CASE Become(r, [req[r] EXCEPT !.pc = "body", !.matched = req[r].header])
      <3> DEFINE q == [req[r] EXCEPT !.pc = "body", !.matched = req[r].header]
      <3>1. /\ q.pc = "body" /\ q.endpoint = req[r].endpoint /\ q.undo = req[r].undo
            /\ q.left = req[r].left
        BY DEF IngestTypeOK, RequestState
      <3>2. Become(r, q)
        BY <2>4
      <3> HIDE DEF q
      <3> QED
        BY <2>1, <3>1, <3>2, BecomeShape DEF StaysBound, Keeps, HoldsSlot, LeaksSlot
    <2> QED
      BY <1>4, <2>2, <2>3, <2>4 DEF VerifySecret
  <1>5. CASE ReadBody(r)
    <2> DEFINE q == [req[r] EXCEPT !.pc = "store", !.receivedAt = clock, !.pending = Part]
    <2>1. /\ q.pc = "store" /\ q.endpoint = req[r].endpoint /\ q.undo = req[r].undo
          /\ q.left = req[r].left
      BY DEF IngestTypeOK, RequestState
    <2>2. Become(r, q) /\ HoldsSlot(r) /\ Running(r) /\ UNCHANGED <<endpoints, events>>
      BY <1>5, <1>s, <1>h DEF ReadBody
    <2> HIDE DEF q
    <2> QED
      BY <2>1, <2>2, BecomeShape DEF StaysBound, Keeps, HoldsSlot, LeaksSlot
  <1>6. CASE BodyTooLarge(r)
    BY <1>6, <1>s, <1>h, FailKeeps DEF BodyTooLarge
  <1>7. CASE \E part \in Part : PersistObject(r, part)
    <2>1. PICK part \in Part : PersistObject(r, part)
      BY <1>7
    <2>2. HoldsSlot(r) /\ Running(r) /\ UNCHANGED <<endpoints, events>>
      BY <2>1, <1>h DEF PersistObject, d1Vars
    <2>3. StaysBound(r) /\ HoldsSlot(r)'
      BY <2>1, <2>2, PutAnsweredShape DEF PersistObject, HoldsSlot, LeaksSlot
    <2> QED
      BY <2>2, <2>3 DEF Keeps
  <1>8. CASE CheckExpiry(r)
    BY <1>8, <1>s, <1>h, FailKeeps, GotoKeeps DEF CheckExpiry
  <1>9. CASE RecordMetadata(r)
    <2>1. HoldsSlot(r) /\ Running(r) /\ UNCHANGED endpoints
      BY <1>9, <1>h DEF RecordMetadata
    <2>2. CASE InsertGuard(req[r].endpoint, req[r].matched)
      <3> DEFINE q == [NoRequest EXCEPT !.pc = "publish", !.endpoint = req[r].endpoint,
                                        !.receivedAt = req[r].receivedAt]
      <3>1. q.pc = "publish" /\ q.endpoint = req[r].endpoint /\ q.undo = {} /\ q.left = {}
        BY DEF NoRequest
      <3>2. Become(r, q)
        BY <1>9, <2>2 DEF RecordMetadata
      <3> HIDE DEF q
      <3>3. StaysBound(r) /\ ~HoldsSlot(r)'
        BY <2>1, <3>1, <3>2, BecomeShape DEF StaysBound, HoldsSlot, LeaksSlot
      <3> QED
        BY <1>9, <2>1, <2>2, <3>3 DEF RecordMetadata, Inserts, InsertGuard
    <2>3. CASE ~InsertGuard(req[r].endpoint, req[r].matched)
      BY <1>9, <2>1, <2>3, GotoKeeps DEF RecordMetadata
    <2> QED
      BY <2>2, <2>3
  <1>10. CASE ClassifyRefusal(r)
    BY <1>10, <1>s, <1>p, FailKeeps DEF ClassifyRefusal
  <1>11. CASE PublishLive(r)
    <2> DEFINE q == [req[r] EXCEPT !.pc = "done", !.response = 204]
    <2>1. /\ q.pc = "done" /\ q.endpoint = req[r].endpoint /\ q.undo = req[r].undo
          /\ q.left = req[r].left
      BY DEF IngestTypeOK, RequestState
    <2>2. Become(r, q) /\ Running(r) /\ UNCHANGED <<endpoints, events>>
      BY <1>11, <1>s, <1>p DEF PublishLive
    <2> HIDE DEF q
    <2> QED
      BY <2>1, <2>2, BecomeShape DEF StaysBound, Keeps, HoldsSlot, LeaksSlot
  <1>12. CASE \E entry \in {"slot"} \cup Part : Compensate(r, entry)
    <2>1. PICK entry \in {"slot"} \cup Part : Compensate(r, entry)
      BY <1>12
    <2>2. /\ StaysBound(r) /\ UNCHANGED events
          /\ req'[r].undo = req[r].undo \ {entry} /\ entry \in req[r].undo
      BY <2>1, PoppedShape DEF Compensate, LeaksSlot
    <2>3. CASE entry = "slot"
      BY <2>1, <2>2, <2>3 DEF Compensate, Releases, HoldsSlot
    <2>4. CASE entry # "slot"
      BY <2>1, <2>2, <2>4 DEF Compensate, Keeps, HoldsSlot
    <2> QED
      BY <2>2, <2>3, <2>4
  <1> QED
    BY <1>1, <1>2, <1>3, <1>4, <1>5, <1>6, <1>7, <1>8, <1>9, <1>10, <1>11, <1>12
    DEF RequestStep

LEMMA RequestFailureShape ==
  ASSUME IngestTypeOK, Slotted, NEW r \in Request, RequestFailure(r)
  PROVE  /\ StaysBound(r)
         /\ \/ Keeps(r) \/ Drops(r) \/ Takes(r)
            \/ (AmbiguousInsert /\ (HoldsSlot(r)' <=> HoldsSlot(r)) /\ UNCHANGED endpoints)
PROOF
  <1>d. UNCHANGED d1Vars => UNCHANGED <<endpoints, events>>
    BY DEF d1Vars
  <1>1. CASE \E part \in Part : PersistObjectFails(r, part)
    <2>1. PICK part \in Part : PersistObjectFails(r, part)
      BY <1>1
    <2>2. HoldsSlot(r) /\ Running(r) /\ UNCHANGED <<endpoints, events>>
      BY <2>1, <1>d DEF PersistObjectFails, Slotted, At, Running
    <2>3. part # "slot"
      BY DEF Part
    <2>4. StaysBound(r) /\ HoldsSlot(r)'
      BY <2>1, <2>2, <2>3, PutAnsweredShape DEF PersistObjectFails, HoldsSlot, LeaksSlot
    <2> QED
      BY <2>2, <2>4 DEF Keeps
  <1>6. CASE ReserveAckLost(r)
    <2> DEFINE e == req[r].endpoint
    <2>1. Running(r) /\ ~LeaksSlot(r)
      BY <1>6 DEF ReserveAckLost, At, Running, Slotted
    <2>2. StaysBound(r) /\ LeaksSlot(r)'
      BY <1>6, <2>1, FailStaysBound DEF ReserveAckLost
    <2>3. /\ endpoints[e].status = "active"
          /\ e \in TempEndpoint => endpoints[e].event_count < TempLimit
      BY <1>6 DEF ReserveAckLost, CanReserveTemporarySlot, CanReservePrivateSlot
    <2> QED
      BY <1>6, <2>2, <2>3 DEF ReserveAckLost, Takes
  <1>2. CASE InsertAckLost(r)
    <2>1. Running(r)
      BY <1>2 DEF InsertAckLost, At, Running
    <2> QED
      BY <1>2, <2>1, FailStaysBound DEF InsertAckLost, Fail, HoldsSlot, LeaksSlot
  <1>3. CASE StorageCallFails(r)
    <2>1. Running(r)
      BY <1>3 DEF StorageCallFails, Running
    <2> QED
      BY <1>3, <1>d, <2>1, FailKeeps DEF StorageCallFails
  <1>4. CASE \E entry \in {"slot"} \cup Part : CompensationFails(r, entry)
    <2>1. PICK entry \in {"slot"} \cup Part : CompensationFails(r, entry)
      BY <1>4
    <2>2. /\ StaysBound(r) /\ UNCHANGED <<endpoints, events>>
          /\ req'[r].undo = req[r].undo \ {entry} /\ req'[r].left = req[r].left \cup {entry}
      BY <1>d, <2>1, PoppedShape DEF CompensationFails, LeaksSlot
    <2> QED
      BY <2>2 DEF Keeps, Drops, HoldsSlot, LeaksSlot
  <1>5. CASE IsolateLost(r)
    <2> DEFINE q == [NoRequest EXCEPT !.pc = "lost", !.endpoint = req[r].endpoint,
                                      !.left = req[r].left \cup req[r].undo]
    <2>1. /\ q.pc = "lost" /\ q.undo = {} /\ q.endpoint = req[r].endpoint
          /\ q.left = req[r].left \cup req[r].undo
      BY DEF NoRequest
    <2>2. Become(r, q) /\ Running(r) /\ UNCHANGED <<endpoints, events>>
      BY <1>5, <1>d DEF IsolateLost
    <2> HIDE DEF q
    <2> QED
      BY <2>1, <2>2, BecomeShape DEF StaysBound, Drops, HoldsSlot, Running, LeaksSlot
  <1> QED
    BY <1>1, <1>2, <1>3, <1>4, <1>5, <1>6 DEF RequestFailure

-----------------------------------------------------------------------------
(* Type correctness *)

HandlerInv == TypeOK /\ Finite /\ Bound /\ Slotted

LEMMA HandlerInvInit == Init => HandlerInv
PROOF
  <1> SUFFICES ASSUME Init PROVE HandlerInv
    OBVIOUS
  <1>1. StoreTypeOK /\ Finite
    BY FS_EmptySet DEF Init, StoreInit, StoreTypeOK, EndpointRow, Finite
  <1>2. IngestTypeOK
    BY NoRequestType DEF Init, IngestInit, IngestTypeOK
  <1>3. PurgeTypeOK
    BY NoJobType DEF Init, PurgeInit, PurgeTypeOK
  <1>4. RetentionTypeOK
    BY CronOffType DEF Init, RetentionInit, RetentionTypeOK
  <1>5. \A r \in Request : req[r].pc = "idle"
    BY DEF Init, IngestInit, NoRequest
  <1>6. \A p \in Job : job[p].pc = "idle"
    BY DEF Init, PurgeInit, NoJob
  <1>7. Bound
    BY <1>5, <1>6 DEF Bound, Running, Doing, Job
  <1>8. Slotted
    BY <1>5 DEF Slotted, LeaksSlot, Init, IngestInit, NoRequest
  <1> QED
    BY <1>1, <1>2, <1>3, <1>4, <1>7, <1>8 DEF HandlerInv, TypeOK

LEMMA RequestBound ==
  ASSUME Bound, Slotted, NEW r \in Request, StaysBound(r), UNCHANGED job
  PROVE  Bound' /\ Slotted'
PROOF
  <1>1. ASSUME NEW x \in Request
        PROVE  /\ Running(x)' => req'[x].endpoint \in Endpoint
               /\ req'[x].pc \in {"verify", "body", "store", "check", "insert"}
                    => HoldsSlot(x)'
               /\ LeaksSlot(x)' => req'[x].pc \in {"done", "lost"}
    BY DEF Bound, Slotted, StaysBound, Running, HoldsSlot, LeaksSlot
  <1> QED
    BY <1>1 DEF Bound, Slotted, Doing

LEMMA ValidateEndpointBound ==
  ASSUME IngestTypeOK, Bound, Slotted, NEW r \in Request, NEW e \in Endpoint,
         NEW h \in Credential, ValidateEndpoint(r, e, h), UNCHANGED job
  PROVE  /\ Bound' /\ Slotted'
         /\ \A x \in Request : HoldsSlot(x)' =>
              HoldsSlot(x) /\ req'[x].endpoint = req[x].endpoint
PROOF
  <1> DEFINE accepted == [NoRequest EXCEPT !.pc = "reserve", !.endpoint = e, !.header = h]
             refused(code) == [NoRequest EXCEPT !.pc = "done", !.endpoint = e,
                                                !.response = code]
  <1>1. /\ accepted.endpoint = e /\ accepted.pc = "reserve" /\ accepted.undo = {}
        /\ accepted.left = {}
    BY DEF NoRequest
  <1>2. \A code : refused(code).endpoint = e /\ refused(code).pc = "done"
                 /\ refused(code).undo = {} /\ refused(code).left = {}
    BY DEF NoRequest
  <1>3. Become(r, accepted) \/ \E code : Become(r, refused(code))
    BY DEF ValidateEndpoint
  <1> HIDE DEF accepted, refused
  <1>4. /\ req'[r].endpoint = e /\ req'[r].pc \in {"reserve", "done"} /\ req'[r].undo = {}
        /\ req'[r].left = {}
        /\ \A x \in Request \ {r} : req'[x] = req[x]
    BY <1>1, <1>2, <1>3, BecomeShape
  <1>5. \A x \in Request : HoldsSlot(x)' =>
          HoldsSlot(x) /\ req'[x].endpoint = req[x].endpoint
    BY <1>4 DEF HoldsSlot
  <1>6. ASSUME NEW x \in Request
        PROVE  /\ Running(x)' => req'[x].endpoint \in Endpoint
               /\ req'[x].pc \in {"verify", "body", "store", "check", "insert"}
                    => HoldsSlot(x)'
               /\ LeaksSlot(x)' => req'[x].pc \in {"done", "lost"}
    BY <1>4 DEF Bound, Slotted, Running, HoldsSlot, LeaksSlot
  <1> QED
    BY <1>5, <1>6 DEF Bound, Slotted, Doing

LEMMA OwnerStepBound ==
  ASSUME PurgeTypeOK, Bound, Slotted, NEW o \in Owner, OwnerStep(o)
  PROVE  Bound' /\ Slotted'
PROOF
  <1>1. UNCHANGED req
    BY DEF OwnerStep, JobOnly
  <1>2. PICK j : JobBecome(o, j) /\ (j.pc = "addSecret" =>
                                      j.endpoint \in Endpoint /\ j.secret \in Secret)
    <2>1. NoJob.pc = "idle"
      BY DEF NoJob
    <2>2. [job[o] EXCEPT !.pc = "list"].pc = "list"
      BY DEF PurgeTypeOK, JobState, Job
    <2>4. \A e, pc : [NoJob EXCEPT !.endpoint = e, !.pc = pc].pc = pc
      BY DEF NoJob
    <2>5. CASE \E e \in PrivEndpoint : FindForDelete(o, e)
      <3>1. PICK e \in PrivEndpoint, pc \in {"disable", "list"} :
              JobBecome(o, [NoJob EXCEPT !.endpoint = e, !.pc = pc])
        BY <2>5 DEF FindForDelete
      <3> QED
        BY <3>1, <2>4
    <2>6. CASE DisableEndpoint(o)
      BY <2>1, <2>2, <2>6 DEF DisableEndpoint, JobGoto, EndJob
    <2>7. CASE \E e \in PrivEndpoint, s \in Secret :
                 FindForCreateSecret(o, e, s) \/ FindForRevokeSecret(o, e, s)
      <3>1. PICK e \in PrivEndpoint, s \in Secret, pc \in {"addSecret", "revokeSecret"} :
              JobBecome(o, [NoJob EXCEPT !.endpoint = e, !.secret = s, !.pc = pc])
        BY <2>7 DEF FindForCreateSecret, FindForRevokeSecret, FindForSecret
      <3> DEFINE q == [NoJob EXCEPT !.endpoint = e, !.secret = s, !.pc = pc]
      <3>2. q.endpoint \in Endpoint /\ q.secret \in Secret
        BY DEF NoJob, Endpoint
      <3>3. JobBecome(o, q)
        BY <3>1
      <3> HIDE DEF q
      <3> QED
        BY <3>2, <3>3
    <2>8. CASE EndJob(o)
      BY <2>1, <2>8 DEF EndJob
    <2> QED
      BY <2>5, <2>6, <2>7, <2>8 DEF OwnerStep, CreateEndpointSecret, RevokeEndpointSecret,
        OwnerRequestFails, OwnerDeleteRefused
  <1>3. job'[o] = j /\ \A p \in Owner \ {o} : job'[p] = job[p]
    BY <1>2 DEF PurgeTypeOK, JobBecome, Job
  <1> QED
    BY <1>1, <1>2, <1>3 DEF Bound, Slotted, Doing, Running, HoldsSlot, LeaksSlot

LEMMA PurgeStepBound ==
  ASSUME PurgeTypeOK, Bound, Slotted, NEW p \in Job, PurgeStep(p)
  PROVE  Bound' /\ Slotted'
PROOF
  <1>1. UNCHANGED req
    BY DEF PurgeStep, JobOnly
  <1>2. PICK j : JobBecome(p, j) /\ j.pc # "addSecret"
    <2>1. NoJob.pc = "idle"
      BY DEF NoJob
    <2>2. job[p] \in JobState
      BY DEF PurgeTypeOK
    <2>3. ASSUME NEW pc \in {"events", "secrets", "endpoint"}, JobGoto(p, pc)
          PROVE  \E j : JobBecome(p, j) /\ j.pc # "addSecret"
      <3>1. [job[p] EXCEPT !.pc = pc].pc = pc
        BY <2>2 DEF JobState
      <3> QED
        BY <2>3, <3>1 DEF JobGoto
    <2>4. \A keys, cursor : [job[p] EXCEPT !.pc = "objects", !.keys = keys,
                                           !.cursor = cursor].pc = "objects"
      BY <2>2 DEF JobState
    <2>5. \A keys, pc : [job[p] EXCEPT !.keys = keys, !.pc = pc].pc = pc
      BY <2>2 DEF JobState
    <2>6. CASE ListObjectKeys(p)
      BY <2>3, <2>4, <2>6 DEF ListObjectKeys
    <2>7. CASE DeleteObjectBatch(p)
      <3>1. PICK keys, pc : pc \in {"list", "objects"} /\
              JobBecome(p, [job[p] EXCEPT !.keys = keys, !.pc = pc])
        BY <2>7 DEF DeleteObjectBatch
      <3> QED
        BY <3>1, <2>5
    <2>8. CASE DeleteEvents(p)
      BY <2>3, <2>8 DEF DeleteEvents
    <2>9. CASE DeleteSecrets(p)
      BY <2>3, <2>9 DEF DeleteSecrets
    <2>10. CASE DeleteEndpoint(p)
      BY <2>1, <2>10 DEF DeleteEndpoint, EndJob
    <2> QED
      BY <2>6, <2>7, <2>8, <2>9, <2>10 DEF PurgeStep
  <1>3. job'[p] = j /\ \A x \in Job \ {p} : job'[x] = job[x]
    BY <1>2 DEF PurgeTypeOK, JobBecome
  <1> QED
    BY <1>1, <1>2, <1>3 DEF Bound, Slotted, Doing, Running, HoldsSlot, LeaksSlot, Job

LEMMA CleanupBound ==
  ASSUME PurgeTypeOK, Bound, Slotted, UNCHANGED req, CleanupStep \/ CleanupFails
  PROVE  Bound' /\ Slotted'
PROOF
  <1>1. UNCHANGED job \/ EndJob(Cron) \/ \E e : StartPurge(Cron, e)
    BY DEF CleanupStep, CleanupFails, StartCleanup, ListExpiredTemporary, ListExpiredPrivate,
      ListExpired, PurgeNextExpired, ListOldEvents, DeleteOldRows, ReconcilePrivateCounts,
      ListOldObjects, LookUpEvent, ScanDone, DeleteKeyBatch, CleanupDeleteRefused
  <1>2. \A o \in Owner : job'[o] = job[o]
    BY <1>1, PurgeAssumption DEF EndJob, StartPurge, JobBecome, PurgeTypeOK, Job
  <1> QED
    BY <1>2 DEF Bound, Slotted, Doing, Running, HoldsSlot, LeaksSlot

LEMMA CreateEndpointStore ==
  ASSUME StoreInv, NEW e \in Endpoint, CreateEndpoint(e)
  PROVE  StoreInv'
PROOF
  <1>1. clock + (IF e \in PrivEndpoint THEN PrivTtl ELSE TempTtl) \in Nat
    BY TimeAssumption DEF StoreInv, StoreTypeOK
  <1>2. EndpointsOK'
    BY <1>1, StoreInvParts DEF CreateEndpoint, EndpointsOK, EndpointRow
  <1> QED
    BY <1>2, StoreInvParts, StoreInvPartsNext, Unchanged DEF CreateEndpoint

LEMMA OthersUnchanged ==
  /\ IngestTypeOK /\ UNCHANGED req => IngestTypeOK'
  /\ PurgeTypeOK /\ UNCHANGED job => PurgeTypeOK'
  /\ RetentionTypeOK /\ UNCHANGED cron => RetentionTypeOK'
  /\ Bound /\ Slotted /\ UNCHANGED <<req, job>> => Bound' /\ Slotted'
  BY DEF IngestTypeOK, PurgeTypeOK, RetentionTypeOK, Bound, Slotted, Running, HoldsSlot, LeaksSlot, Doing

LEMMA HandlerInvNext == HandlerInv /\ [Next]_vars => HandlerInv'
PROOF
  <1> SUFFICES ASSUME HandlerInv, [Next]_vars PROVE HandlerInv'
    OBVIOUS
  <1>i. StoreInv /\ StoreTypeOK /\ IngestTypeOK /\ PurgeTypeOK /\ RetentionTypeOK
        /\ Bound /\ Slotted
    BY DEF HandlerInv, TypeOK, StoreInv
  <1>o. StoreInv' /\ IngestTypeOK' /\ PurgeTypeOK' /\ RetentionTypeOK' /\ Bound' /\ Slotted'
        => HandlerInv'
    BY DEF HandlerInv, TypeOK, StoreInv
  <1> USE <1>i, <1>o, OthersUnchanged
  <1>1. CASE Tick
    <2>1. ClockOK'
      BY <1>1, StoreInvParts DEF Tick, ClockOK
    <2>2. StoreInv'
      BY <1>1, <2>1, StoreInvParts, StoreInvPartsNext, Unchanged DEF Tick, d1Vars
    <2> QED
      BY <1>1, <2>2 DEF Tick
  <1>2. CASE \E e \in Endpoint : CreateEndpoint(e) /\ UNCHANGED <<req, job, cron>>
    BY <1>2, CreateEndpointStore
  <1>3. CASE \E r \in Request, e \in Endpoint, h \in Credential :
               ValidateEndpoint(r, e, h) /\ RequestOnly
    <2>1. PICK r \in Request, e \in Endpoint, h \in Credential :
                 ValidateEndpoint(r, e, h) /\ RequestOnly
      BY <1>3
    <2>2. StoreInv'
      BY <2>1, UnchangedStore DEF ValidateEndpoint
    <2> QED
      BY <2>1, <2>2, ValidateEndpointTypes, ValidateEndpointBound DEF RequestOnly
  <1>4. CASE \E r \in Request : RequestStep(r)
    <2>1. PICK r \in Request : RequestStep(r)
      BY <1>4
    <2>2. RequestOnly
      BY <2>1 DEF RequestStep
    <2> QED
      BY <2>1, <2>2, RequestStepTypes, RequestStepStore, RequestStepShape, RequestBound
      DEF RequestOnly
  <1>5. CASE \E r \in Request : RequestFailure(r)
    <2>1. PICK r \in Request : RequestFailure(r)
      BY <1>5
    <2>2. RequestOnly
      BY <2>1 DEF RequestFailure
    <2> QED
      BY <2>1, <2>2, RequestFailureTypes, RequestFailureStore, RequestFailureShape, RequestBound
      DEF RequestOnly
  <1>6. CASE \E o \in Owner : OwnerStep(o)
    <2>1. PICK o \in Owner : OwnerStep(o)
      BY <1>6
    <2>2. JobOnly
      BY <2>1 DEF OwnerStep
    <2> QED
      BY <2>1, <2>2, OwnerStepTypes, OwnerStepStore, OwnerStepBound DEF JobOnly
  <1>7. CASE \E p \in Job : PurgeStep(p)
    <2>1. PICK p \in Job : PurgeStep(p)
      BY <1>7
    <2>2. JobOnly
      BY <2>1 DEF PurgeStep
    <2> QED
      BY <2>1, <2>2, PurgeStepTypes, PurgeStepStore, PurgeStepBound DEF JobOnly
  <1>8. CASE CleanupStep
    <2>1. UNCHANGED req
      BY <1>8 DEF CleanupStep
    <2> QED
      BY <1>8, <2>1, CleanupStepTypes, CleanupStepStore, CleanupBound
  <1>9. CASE CleanupFails /\ UNCHANGED req
    <2>1. StoreInv'
      BY <1>9, StoreInvParts, StoreInvPartsNext, Unchanged, FailureTypes DEF CleanupFails, d1Vars
    <2>2. Cron \in Job
      BY DEF Job
    <2>3. PurgeTypeOK' /\ RetentionTypeOK'
      BY <1>9, <2>2, EndJobTypes, CronOffType DEF CleanupFails, RetentionTypeOK
    <2> QED
      BY <1>9, <2>1, <2>3, CleanupBound
  <1>10. CASE UNCHANGED vars
    BY <1>10, UnchangedStore DEF vars
  <1> QED
    BY <1>1, <1>2, <1>3, <1>4, <1>5, <1>6, <1>7, <1>8, <1>9, <1>10 DEF Next

THEOREM HandlerInvHolds == Spec => []HandlerInv
PROOF
  <1> QED
    BY HandlerInvInit, HandlerInvNext, PTL DEF Spec

(* Every variable of the storage side keeps its type in every interleaving of *)
(* requests, owners and cleanup, for every number of each and every limit.    *)
THEOREM TypeCorrect == Spec => []TypeOK
PROOF
  <1>1. HandlerInv => TypeOK
    BY DEF HandlerInv
  <1> QED
    BY <1>1, HandlerInvHolds, PTL
=============================================================================
