------------------------- MODULE StashCapacityProofs -------------------------
(***************************************************************************)
(* Stash keeps TemporaryCapacity: the events stored for a temporary        *)
(* endpoint and the slots requests hold are covered by event_count, and    *)
(* event_count by the limit.  The argument: a request's step keeps, takes, *)
(* gives back or uses up one slot (StashProofs!RequestStepShape), and      *)
(* nobody else stores events or touches a temporary endpoint's count.      *)
(***************************************************************************)
EXTENDS StashProofs

(* The slots held for an endpoint are finitely many, and an endpoint that was *)
(* never created has neither slots nor events; both are needed to count.      *)
HeldFinite == \A e \in TempEndpoint : IsFiniteSet(Held(e))
Untouched  == \A e \in TempEndpoint :
  endpoints[e].status = "none" => EventsOf(e) = {} /\ Held(e) = {}

CapacityInv == HeldFinite /\ Untouched /\ TemporaryCapacity

LEMMA SubsetCard ==
  ASSUME NEW S, IsFiniteSet(S), NEW T, T \subseteq S
  PROVE  /\ IsFiniteSet(T) /\ Cardinality(T) \in Nat /\ Cardinality(S) \in Nat
         /\ Cardinality(T) <= Cardinality(S)
  BY FS_Subset, FS_CardinalityType

LEMMA AddCard ==
  ASSUME NEW S, IsFiniteSet(S), NEW x, NEW T, T \subseteq S \cup {x}
  PROVE  /\ IsFiniteSet(T) /\ Cardinality(T) \in Nat /\ Cardinality(S) \in Nat
         /\ Cardinality(T) <= Cardinality(S) + 1
PROOF
  <1>1. /\ IsFiniteSet(S \cup {x})
        /\ Cardinality(S \cup {x}) = IF x \in S THEN Cardinality(S) ELSE Cardinality(S) + 1
    BY FS_AddElement
  <1>2. /\ IsFiniteSet(T) /\ Cardinality(T) \in Nat /\ Cardinality(S \cup {x}) \in Nat
        /\ Cardinality(T) <= Cardinality(S \cup {x})
    BY <1>1, SubsetCard
  <1>3. Cardinality(S) \in Nat
    BY FS_CardinalityType
  <1> QED
    BY <1>1, <1>2, <1>3

LEMMA RemoveCard ==
  ASSUME NEW S, IsFiniteSet(S), NEW x \in S, NEW T, T \subseteq S \ {x}
  PROVE  /\ IsFiniteSet(T) /\ Cardinality(T) \in Nat /\ Cardinality(S) \in Nat
         /\ Cardinality(T) + 1 <= Cardinality(S)
PROOF
  <1>1. IsFiniteSet(S \ {x}) /\ Cardinality(S \ {x}) = Cardinality(S) - 1
    BY FS_RemoveElement
  <1>2. /\ IsFiniteSet(T) /\ Cardinality(T) \in Nat /\ Cardinality(S \ {x}) \in Nat
        /\ Cardinality(T) <= Cardinality(S \ {x})
    BY <1>1, SubsetCard
  <1>3. Cardinality(S) \in Nat
    BY FS_CardinalityType
  <1> QED
    BY <1>1, <1>2, <1>3

LEMMA EventsOfFinite ==
  ASSUME Finite, NEW e
  PROVE  IsFiniteSet(EventsOf(e))
  BY FS_Subset DEF Finite, EventsOf

LEMMA CapacityInvInit == Init => CapacityInv
PROOF
  <1> SUFFICES ASSUME Init PROVE CapacityInv
    OBVIOUS
  <1>1. \A r \in Request : req[r].undo = {}
    BY DEF Init, IngestInit, NoRequest
  <1>2. \A e : Held(e) = {} /\ EventsOf(e) = {}
    BY <1>1 DEF Held, HoldsSlot, EventsOf, Init, StoreInit
  <1>3. \A e \in TempEndpoint : ~RowExists(e)
    BY DEF RowExists, Init, StoreInit, Endpoint
  <1> QED
    BY <1>2, <1>3, FS_EmptySet DEF CapacityInv, HeldFinite, Untouched, TemporaryCapacity

(* A step that takes no slot and stores no event, and that changes a count or *)
(* brings a row only where nothing was: everybody but the requests.           *)
Shrinks ==
  /\ events' \in SUBSET events
  /\ \A r \in Request : HoldsSlot(r)' => HoldsSlot(r) /\ req'[r].endpoint = req[r].endpoint
  /\ \A e \in TempEndpoint :
       /\ endpoints'[e].status = "none" => endpoints[e].status = "none"
       /\ RowExists(e)' => \/ RowExists(e) /\ endpoints'[e].event_count = endpoints[e].event_count
                           \/ endpoints[e].status = "none" /\ endpoints'[e].event_count = 0

LEMMA ShrinksCapacity ==
  ASSUME HandlerInv, CapacityInv, Shrinks
  PROVE  CapacityInv'
PROOF
  <1>1. ASSUME NEW e \in TempEndpoint
        PROVE  /\ IsFiniteSet(Held(e)')
               /\ endpoints'[e].status = "none" => EventsOf(e)' = {} /\ Held(e)' = {}
               /\ RowExists(e)' =>
                    /\ Cardinality(EventsOf(e)') + Cardinality(Held(e)') <= endpoints'[e].event_count
                    /\ endpoints'[e].event_count <= TempLimit
    <2>1. Held(e)' \subseteq Held(e) /\ EventsOf(e)' \subseteq EventsOf(e)
      BY DEF Shrinks, Held, EventsOf
    <2>2. IsFiniteSet(Held(e)) /\ IsFiniteSet(EventsOf(e))
      BY EventsOfFinite DEF CapacityInv, HeldFinite, HandlerInv
    <2>3. /\ IsFiniteSet(Held(e)')
          /\ Cardinality(Held(e)') \in Nat /\ Cardinality(Held(e)) \in Nat
          /\ Cardinality(Held(e)') <= Cardinality(Held(e))
      BY <2>1, <2>2, SubsetCard
    <2>4. /\ Cardinality(EventsOf(e)') \in Nat /\ Cardinality(EventsOf(e)) \in Nat
          /\ Cardinality(EventsOf(e)') <= Cardinality(EventsOf(e))
      BY <2>1, <2>2, SubsetCard
    <2>5. endpoints[e].event_count \in Nat
      BY DEF HandlerInv, TypeOK, StoreTypeOK, EndpointRow, Endpoint
    <2>6. endpoints[e].status = "none" => EventsOf(e)' = {} /\ Held(e)' = {}
      BY <2>1 DEF CapacityInv, Untouched
    <2>7. ASSUME RowExists(e), endpoints'[e].event_count = endpoints[e].event_count
          PROVE  /\ Cardinality(EventsOf(e)') + Cardinality(Held(e)') <= endpoints'[e].event_count
                 /\ endpoints'[e].event_count <= TempLimit
      <3>1. /\ Cardinality(EventsOf(e)) + Cardinality(Held(e)) <= endpoints[e].event_count
            /\ endpoints[e].event_count <= TempLimit
        BY <2>7 DEF CapacityInv, TemporaryCapacity
      <3> QED
        BY <2>3, <2>4, <2>5, <2>7, <3>1
    <2>8. ASSUME endpoints[e].status = "none", endpoints'[e].event_count = 0
          PROVE  /\ Cardinality(EventsOf(e)') + Cardinality(Held(e)') <= endpoints'[e].event_count
                 /\ endpoints'[e].event_count <= TempLimit
      <3>1. Cardinality(EventsOf(e)') = 0 /\ Cardinality(Held(e)') = 0
        BY <2>6, <2>8, FS_EmptySet
      <3> QED
        BY <2>8, <3>1, LimitAssumption
    <2> QED
      BY <2>3, <2>6, <2>7, <2>8 DEF Shrinks
  <1> QED
    BY <1>1 DEF CapacityInv, HeldFinite, Untouched, TemporaryCapacity

LEMMA RequestCapacity ==
  ASSUME HandlerInv, CapacityInv, NEW r \in Request, StaysBound(r),
         Keeps(r) \/ Drops(r) \/ Takes(r) \/ Releases(r) \/ Inserts(r)
  PROVE  CapacityInv'
PROOF
  <1> DEFINE slot == req[r].endpoint
  <1>t. /\ \A e \in Endpoint : endpoints[e] \in EndpointRow
        /\ endpoints \in [Endpoint -> EndpointRow]
    BY DEF HandlerInv, TypeOK, StoreTypeOK
  <1>s. slot \in Endpoint
    BY DEF StaysBound, HandlerInv, Bound
  <1>h. ASSUME NEW x \in Request, HoldsSlot(x)', x # r
        PROVE  HoldsSlot(x) /\ req'[x].endpoint = req[x].endpoint
    BY <1>h DEF StaysBound, HoldsSlot
  <1>1. CASE Keeps(r) \/ Drops(r)
    <2>1. Shrinks
      BY <1>1, <1>h DEF Keeps, Drops, Shrinks, StaysBound, RowExists
    <2> QED
      BY <2>1, ShrinksCapacity
  <1>2. ASSUME Takes(r) \/ Releases(r) \/ Inserts(r), NEW e \in TempEndpoint
        PROVE  /\ IsFiniteSet(Held(e)')
               /\ endpoints'[e].status = "none" => EventsOf(e)' = {} /\ Held(e)' = {}
               /\ RowExists(e)' =>
                    /\ Cardinality(EventsOf(e)') + Cardinality(Held(e)') <= endpoints'[e].event_count
                    /\ endpoints'[e].event_count <= TempLimit
    <2> DEFINE count == endpoints[e].event_count
               stored == Cardinality(EventsOf(e))
               held == Cardinality(Held(e))
    <2>e. e \in Endpoint /\ count \in Nat
      BY <1>t DEF Endpoint, EndpointRow
    <2>f. IsFiniteSet(Held(e)) /\ IsFiniteSet(EventsOf(e))
      BY EventsOfFinite DEF CapacityInv, HeldFinite, HandlerInv
    <2>c. RowExists(e) => stored + held <= count /\ count <= TempLimit
      BY DEF CapacityInv, TemporaryCapacity
    <2>u. endpoints[e].status = "none" => EventsOf(e) = {} /\ Held(e) = {}
      BY DEF CapacityInv, Untouched
    <2>l. TempLimit \in Nat
      BY LimitAssumption
    <2>1. CASE e # slot
      <3>1. endpoints'[e] = endpoints[e]
        BY <1>2, <1>t, <2>e, <2>1 DEF Takes, Releases, Inserts, CountUp, CountDown
      <3>2. Held(e)' \subseteq Held(e)
        BY <1>h, <2>1 DEF Held, StaysBound
      <3>3. EventsOf(e)' \subseteq EventsOf(e)
        BY <1>2, <2>1 DEF EventsOf, Takes, Releases, Inserts, InsertEvent
      <3>4. /\ IsFiniteSet(Held(e)')
            /\ Cardinality(Held(e)') \in Nat /\ held \in Nat /\ Cardinality(Held(e)') <= held
        BY <2>f, <3>2, SubsetCard
      <3>5. /\ Cardinality(EventsOf(e)') \in Nat /\ stored \in Nat
            /\ Cardinality(EventsOf(e)') <= stored
        BY <2>f, <3>3, SubsetCard
      <3> HIDE DEF count, stored, held
      <3>6. RowExists(e)' <=> RowExists(e)
        BY <3>1 DEF RowExists
      <3>7. RowExists(e) =>
              Cardinality(EventsOf(e)') + Cardinality(Held(e)') <= count /\ count <= TempLimit
        BY <2>c, <2>e, <3>4, <3>5
      <3> QED
        BY <2>u, <3>1, <3>2, <3>3, <3>4, <3>6, <3>7 DEF count
    <2>2. CASE e = slot /\ Takes(r)
      <3>1. /\ endpoints'[e].event_count = count + 1 /\ count < TempLimit
            /\ endpoints'[e].status = "active" /\ RowExists(e)
        BY <1>t, <2>2, <2>e DEF Takes, CountUp, EndpointRow, RowExists
      <3>2. Held(e)' \subseteq Held(e) \cup {r}
        BY <1>h DEF Held
      <3>3. EventsOf(e)' = EventsOf(e)
        BY <2>2 DEF Takes, EventsOf
      <3>4. /\ IsFiniteSet(Held(e)')
            /\ Cardinality(Held(e)') \in Nat /\ held \in Nat /\ Cardinality(Held(e)') <= held + 1
        BY <2>f, <3>2, AddCard
      <3>5. stored \in Nat
        BY <2>f, FS_CardinalityType
      <3>6. Cardinality(EventsOf(e)') = stored
        BY <3>3
      <3> HIDE DEF count, stored, held
      <3> QED
        BY <2>c, <2>e, <2>l, <3>1, <3>4, <3>5, <3>6
    <2>3. CASE e = slot /\ Releases(r)
      <3>1. /\ endpoints'[e].status = endpoints[e].status
            /\ endpoints'[e].event_count = IF count > 0 THEN count - 1 ELSE 0
        BY <1>t, <2>3, <2>e DEF Releases, CountDown, EndpointRow
      <3>2. r \in Held(e) /\ Held(e)' \subseteq Held(e) \ {r}
        BY <1>h, <2>3 DEF Held, Releases
      <3>3. EventsOf(e)' = EventsOf(e)
        BY <2>3 DEF Releases, EventsOf
      <3>4. /\ IsFiniteSet(Held(e)')
            /\ Cardinality(Held(e)') \in Nat /\ held \in Nat /\ Cardinality(Held(e)') + 1 <= held
        BY <2>f, <3>2, RemoveCard
      <3>5. stored \in Nat
        BY <2>f, FS_CardinalityType
      <3>6. Cardinality(EventsOf(e)') = stored /\ (RowExists(e)' <=> RowExists(e))
        BY <3>1, <3>3 DEF RowExists
      <3> HIDE DEF count, stored, held
      <3>7. RowExists(e) => /\ stored + Cardinality(Held(e)') <= endpoints'[e].event_count
                           /\ endpoints'[e].event_count <= TempLimit
        BY <2>c, <2>e, <2>l, <3>1, <3>4, <3>5
      <3> QED
        BY <2>u, <3>1, <3>2, <3>4, <3>6, <3>7
    <2>4. CASE e = slot /\ Inserts(r)
      <3>1. endpoints' = endpoints /\ endpoints[e].status = "active" /\ RowExists(e)
        BY <2>4 DEF Inserts, RowExists
      <3>2. r \in Held(e) /\ Held(e)' \subseteq Held(e) \ {r}
        BY <1>h, <2>4 DEF Held, Inserts
      <3>3. PICK x : EventsOf(e)' \subseteq EventsOf(e) \cup {x}
        BY <2>4 DEF Inserts, InsertEvent, EventsOf
      <3>4. /\ IsFiniteSet(Held(e)')
            /\ Cardinality(Held(e)') \in Nat /\ held \in Nat /\ Cardinality(Held(e)') + 1 <= held
        BY <2>f, <3>2, RemoveCard
      <3>5. /\ Cardinality(EventsOf(e)') \in Nat /\ stored \in Nat
            /\ Cardinality(EventsOf(e)') <= stored + 1
        BY <2>f, <3>3, AddCard
      <3> HIDE DEF stored, held
      <3>6. Cardinality(EventsOf(e)') + Cardinality(Held(e)') <= count /\ count <= TempLimit
        BY <2>c, <2>e, <2>l, <3>1, <3>4, <3>5
      <3> QED
        BY <3>1, <3>4, <3>6
    <2> QED
      BY <1>2, <2>1, <2>2, <2>3, <2>4
  <1>3. CASE Takes(r) \/ Releases(r) \/ Inserts(r)
    BY <1>2, <1>3 DEF CapacityInv, HeldFinite, Untouched, TemporaryCapacity
  <1> QED
    BY <1>1, <1>3

LEMMA OwnerStepShrinks ==
  ASSUME HandlerInv, NEW o \in Owner, OwnerStep(o)
  PROVE  Shrinks
PROOF
  <1>1. UNCHANGED <<req, events>>
    BY DEF OwnerStep, JobOnly, FindForDelete, DisableEndpoint, FindForCreateSecret,
      FindForRevokeSecret, FindForSecret, CreateEndpointSecret, RevokeEndpointSecret,
      OwnerRequestFails, OwnerDeleteRefused, storeVars, d1Vars
  <1>2. UNCHANGED endpoints \/ DisableEndpoint(o)
    BY DEF OwnerStep, FindForDelete, FindForCreateSecret,
      FindForRevokeSecret, FindForSecret, CreateEndpointSecret, RevokeEndpointSecret,
      OwnerRequestFails, OwnerDeleteRefused, storeVars, d1Vars
  <1>3. ASSUME DisableEndpoint(o), NEW e \in TempEndpoint
        PROVE  /\ \/ endpoints'[e].status = endpoints[e].status
                  \/ RowExists(e) /\ endpoints'[e].status # "none"
               /\ endpoints'[e].event_count = endpoints[e].event_count
    <2>1. endpoints \in [Endpoint -> EndpointRow] /\ e \in Endpoint
      BY DEF HandlerInv, TypeOK, StoreTypeOK, Endpoint
    <2>2. CASE endpoints[job[o].endpoint].status = "active"
      BY <1>3, <2>1, <2>2 DEF DisableEndpoint, EndpointRow, RowExists
    <2>3. CASE endpoints[job[o].endpoint].status # "active"
      BY <1>3, <2>3 DEF DisableEndpoint
    <2> QED
      BY <2>2, <2>3
  <1> QED
    BY <1>1, <1>2, <1>3 DEF Shrinks, HoldsSlot, RowExists

LEMMA PurgeStepShrinks ==
  ASSUME HandlerInv, NEW p \in Job, PurgeStep(p)
  PROVE  Shrinks
PROOF
  <1>1. UNCHANGED req
    BY DEF PurgeStep, JobOnly
  <1>2. events' \in SUBSET events
    BY DEF PurgeStep, ListObjectKeys, DeleteObjectBatch, DeleteEvents, DeleteSecrets,
      DeleteEndpoint, storeVars, d1Vars
  <1>3. UNCHANGED endpoints \/ \E e : DeleteEndpointRow(e)
    BY DEF PurgeStep, ListObjectKeys, DeleteObjectBatch, DeleteEvents, DeleteSecrets,
      DeleteEndpoint, storeVars, d1Vars
  <1>4. ASSUME NEW d, DeleteEndpointRow(d), NEW e \in TempEndpoint
        PROVE  endpoints'[e] = endpoints[e] \/ endpoints'[e].status = "deleted"
    BY <1>4 DEF DeleteEndpointRow, HandlerInv, TypeOK, StoreTypeOK, Endpoint, EndpointRow
  <1> QED
    BY <1>1, <1>2, <1>3, <1>4 DEF Shrinks, HoldsSlot, RowExists

LEMMA CleanupShrinks ==
  ASSUME HandlerInv, UNCHANGED req, CleanupStep \/ CleanupFails
  PROVE  Shrinks
PROOF
  <1>1. events' \in SUBSET events
    BY DEF CleanupStep, CleanupFails, StartCleanup, ListExpiredTemporary, ListExpiredPrivate,
      ListExpired, PurgeNextExpired, ListOldEvents, DeleteOldRows, ReconcilePrivateCounts,
      ListOldObjects, LookUpEvent, ScanDone, DeleteKeyBatch, CleanupDeleteRefused,
      storeVars, d1Vars
  <1>2. UNCHANGED endpoints \/ ReconcileCounts
    BY DEF CleanupStep, CleanupFails, StartCleanup, ListExpiredTemporary, ListExpiredPrivate,
      ListExpired, PurgeNextExpired, ListOldEvents, DeleteOldRows, ReconcilePrivateCounts,
      ListOldObjects, LookUpEvent, ScanDone, DeleteKeyBatch, CleanupDeleteRefused,
      storeVars, d1Vars
  <1>3. ASSUME ReconcileCounts, NEW e \in TempEndpoint
        PROVE  endpoints'[e] = endpoints[e]
    BY <1>3, ModeAssumption DEF ReconcileCounts, Endpoint
  <1> QED
    BY <1>1, <1>2, <1>3 DEF Shrinks, HoldsSlot, RowExists

LEMMA CreateShrinks ==
  ASSUME HandlerInv, NEW c \in Endpoint, CreateEndpoint(c), UNCHANGED <<req, job, cron>>
  PROVE  Shrinks
PROOF
  <1>1. ASSUME NEW e \in TempEndpoint
        PROVE  \/ endpoints'[e] = endpoints[e]
               \/ /\ endpoints[e].status = "none" /\ endpoints'[e].status = "active"
                  /\ endpoints'[e].event_count = 0
    BY DEF CreateEndpoint, HandlerInv, TypeOK, StoreTypeOK, Endpoint
  <1> QED
    BY <1>1 DEF Shrinks, CreateEndpoint, HoldsSlot, RowExists

LEMMA CapacityInvNext ==
  ASSUME AmbiguousInsert = FALSE, HandlerInv, CapacityInv, [Next]_vars
  PROVE  CapacityInv'
PROOF
  <1>i. IngestTypeOK /\ Bound /\ Slotted
    BY DEF HandlerInv, TypeOK
  <1>s. ASSUME UNCHANGED <<endpoints, events>>,
               \A r \in Request : HoldsSlot(r)' =>
                 HoldsSlot(r) /\ req'[r].endpoint = req[r].endpoint
        PROVE  CapacityInv'
    BY <1>s, ShrinksCapacity DEF Shrinks, RowExists
  <1>1. CASE Tick
    BY <1>1, <1>s DEF Tick, d1Vars, HoldsSlot
  <1>2. CASE \E e \in Endpoint : CreateEndpoint(e) /\ UNCHANGED <<req, job, cron>>
    BY <1>2, CreateShrinks, ShrinksCapacity
  <1>3. CASE \E r \in Request, e \in Endpoint, h \in Credential :
               ValidateEndpoint(r, e, h) /\ RequestOnly
    <2>1. PICK r \in Request, e \in Endpoint, h \in Credential :
                 ValidateEndpoint(r, e, h) /\ RequestOnly
      BY <1>3
    <2>2. UNCHANGED <<endpoints, events>>
      BY <2>1 DEF ValidateEndpoint, storeVars, d1Vars
    <2> QED
      BY <1>i, <1>s, <2>1, <2>2, ValidateEndpointBound DEF RequestOnly
  <1>4. CASE \E r \in Request : RequestStep(r)
    BY <1>4, <1>i, RequestStepShape, RequestCapacity
  <1>5. CASE \E r \in Request : RequestFailure(r)
    BY <1>5, <1>i, RequestFailureShape, RequestCapacity
  <1>6. CASE \E o \in Owner : OwnerStep(o)
    BY <1>6, OwnerStepShrinks, ShrinksCapacity
  <1>7. CASE \E p \in Job : PurgeStep(p)
    BY <1>7, PurgeStepShrinks, ShrinksCapacity
  <1>8. CASE CleanupStep
    <2>1. UNCHANGED req
      BY <1>8 DEF CleanupStep
    <2> QED
      BY <1>8, <2>1, CleanupShrinks, ShrinksCapacity
  <1>9. CASE CleanupFails /\ UNCHANGED req
    BY <1>9, CleanupShrinks, ShrinksCapacity
  <1>10. CASE UNCHANGED vars
    BY <1>10, <1>s DEF vars, storeVars, d1Vars, HoldsSlot
  <1> QED
    BY <1>1, <1>2, <1>3, <1>4, <1>5, <1>6, <1>7, <1>8, <1>9, <1>10 DEF Next

LEMMA CapacityInvHolds ==
  ASSUME AmbiguousInsert = FALSE
  PROVE  Spec => []CapacityInv
PROOF
  <1>1. Init => CapacityInv
    BY CapacityInvInit
  <1>2. HandlerInv /\ CapacityInv /\ [Next]_vars => CapacityInv'
    BY CapacityInvNext
  <1> QED
    BY <1>1, <1>2, HandlerInvHolds, PTL DEF Spec

(* A temporary endpoint is never overfilled: whatever requests, failures and *)
(* lost isolates interleave, its events and the slots still held are counted *)
(* and stay within TempLimit, as long as D1 does not commit an INSERT whose  *)
(* answer is lost.                                                           *)
THEOREM TemporaryCapacityHolds ==
  ASSUME AmbiguousInsert = FALSE
  PROVE  Spec => []TemporaryCapacity
PROOF
  <1>1. CapacityInv => TemporaryCapacity
    BY DEF CapacityInv
  <1> QED
    BY <1>1, CapacityInvHolds, PTL
=============================================================================
