-------------------------- MODULE StashSafetyProofs --------------------------
(***************************************************************************)
(* What the storage side promises about events and their objects, proved   *)
(* for every number of endpoints, requests, owners and secrets.  SafetyInv *)
(* relates the three kinds of handlers to what they share: where a request *)
(* stands to the rows and objects it stored, and what a purge or the       *)
(* cleanup has listed to the rows and objects that are there now.          *)
(***************************************************************************)
EXTENDS StashCapacityProofs, WellFoundedInduction

-----------------------------------------------------------------------------
(* Where a request stands: it has stored nothing yet; it will not insert its *)
(* row any more; its row is there or it never will be; it was accepted.      *)
Early(r)    == req[r].pc \in {"idle", "reserve", "relookup", "verify", "body"}
Past(r)     == req[r].pc \in {"classify", "publish", "undo", "done", "lost"}
Settled(r)  == req[r].pc \in {"publish", "undo", "done", "lost"}
Accepted(r) == At(r, "publish") \/ (At(r, "done") /\ req[r].response = 204)

(* An object of a request that is accounted for: it is on the stack, the *)
(* stack could not undo it, or its request was accepted or lost.         *)
Traced(r, part) ==
  part \in req[r].undo \cup req[r].left \/ Accepted(r) \/ At(r, "lost")

(* The fields of a request's record that its program counter determines. *)
Shape(q) ==
  /\ q.matched \in {{}, q.header}
  /\ q.pc \in {"idle", "reserve", "relookup", "publish", "done", "lost"} => q.undo = {}
  /\ q.pc \in {"verify", "body"} => q.undo = {"slot"}
  /\ q.pc \in {"idle", "reserve", "relookup", "verify", "body"} => q.left = {}
  /\ q.pc = "store" => "slot" \in q.undo /\ q.pending \cap q.undo = {}
  /\ q.pc \in {"check", "insert", "classify"} => q.undo = {"slot"} \cup Part
  /\ q.pc = "undo" => q.undo # {} /\ q.response \notin {0, 204}
  /\ q.pc \notin {"undo", "done"} => q.response = 0
Shaped == \A r \in Request : Shape(req[r])

(* A request inserts one row, and only the last thing it does; a row is not *)
(* there without its endpoint's.                                            *)
Rows ==
  /\ \A v, w \in events : v.id = w.id \/ v.sequence = w.sequence => v = w
  /\ \A v \in events :
       /\ v.sequence < next_sequence
       /\ RowExists(v.endpoint_id)
       /\ Settled(v.id)
       /\ Accepted(v.id) => /\ req[v.id].endpoint = v.endpoint_id
                            /\ req[v.id].receivedAt = v.received_at
       /\ AmbiguousInsert \/ Accepted(v.id) \/ At(v.id, "lost")

(* A purge has a cause that lasts: nothing that expired or was disabled can *)
(* be read again.                                                           *)
Closing(e) ==
  /\ e \in Endpoint /\ endpoints[e].status # "none"
  /\ Expired(e) \/ endpoints[e].status \in {"disabled", "deleted"}
Purging(p) == job[p].pc \in {"list", "objects", "events", "secrets", "endpoint"}
JobCauses == \A p \in Job :
  /\ Purging(p) => Closing(job[p].endpoint)
  /\ Doing(p, "disable") => job[p].endpoint \in Endpoint /\ job[p].cursor = 0
CronCauses == (\A e \in cron.page : Closing(e)) /\ cron.now <= clock

(* The keys and ids a handler has listed and acts on later. *)
JobListed == \A p \in Job : Doing(p, "objects") => \A k \in job[p].keys :
  /\ Past(k[1])
  /\ \A v \in events : v.id = k[1] => v.endpoint_id = job[p].endpoint
CronListed ==
  /\ \A r \in cron.rows :
       /\ Past(r)
       /\ \A v \in events : v.id = r =>
            v.endpoint_id \in PrivEndpoint /\ v.received_at + PrivRetention < cron.now
  /\ \A k \in cron.scan : Past(k[1])
  /\ cron.phase \notin {"oldObjects", "list", "exists", "orphans"} => cron.keys = {}
  /\ cron.phase = "oldObjects" => \A k \in cron.keys : k[1] \in cron.rows
  /\ cron.phase \in {"list", "exists", "orphans"} =>
       \A k \in cron.keys : Past(k[1]) /\ ~HasEvent(k[1])

(* An object is there from its put to the request's end, and is younger *)
(* than an orphan as long as its row may still come.                    *)
Young ==
  /\ \A o \in objects :
       /\ ~Early(o.key[1])
       /\ Storing(o.key[1]) => clock < o.uploaded + OrphanMinAge
  /\ \A r \in Request, part \in Part :
       Storing(r) /\ part \in req[r].undo => Stored(<<r, part>>)

(* Up to its cursor a purge of an endpoint that has not expired leaves no *)
(* object except those it is about to delete; so does the retention phase *)
(* for the rows it listed.                                                *)
JobSwept == \A p \in Job : job[p].pc \in {"list", "objects", "events"} =>
  \A v \in EventsOf(job[p].endpoint) :
    ~Expired(v.endpoint_id) /\ (Doing(p, "events") \/ v.sequence <= job[p].cursor) =>
      \A part \in Part : Stored(<<v.id, part>>) =>
        Doing(p, "objects") /\ <<v.id, part>> \in job[p].keys
CronSwept == \A v \in events : v.id \in cron.rows => \A part \in Part :
  Stored(<<v.id, part>>) => cron.phase = "oldObjects" /\ <<v.id, part>> \in cron.keys

(* An accepted event is there as long as it can be read. *)
Kept ==
  \A r \in Request : Accepted(r) =>
    LET e == req[r].endpoint IN
    /\ e \in Endpoint /\ endpoints[e].status # "none"
    /\ Readable(e) /\ ~Aged(e, req[r].receivedAt) => HasEvent(r)

Complete == AmbiguousInsert \/ ReadableEventsHaveObjects

(* Whatever fails, no object is forgotten. *)
Tidy == \A r \in Request, part \in Part : Stored(<<r, part>>) => Traced(r, part)

SafetyInv ==
  /\ Shaped /\ Rows
  /\ JobCauses /\ CronCauses /\ JobListed /\ CronListed
  /\ Young /\ JobSwept /\ CronSwept
  /\ Kept /\ Complete /\ Tidy

-----------------------------------------------------------------------------
(* What a step of a request does besides moving its slot: it goes onward,  *)
(* and it moves on, puts an object, records its row or removes an object.  *)

SameLives == \A e \in Endpoint :
  /\ endpoints'[e].status = endpoints[e].status
  /\ endpoints'[e].expires_at = endpoints[e].expires_at

RequestFrame ==
  SameLives /\ UNCHANGED <<secrets, clock, job, cron>>

Onward(r) ==
  /\ \A x \in Request \ {r} : req'[x] = req[x]
  /\ Shape(req'[r])
  /\ Early(r)' => Early(r)
  /\ Past(r) => Past(r)'
  /\ Settled(r) => Settled(r)'
  /\ Accepted(r) =>
       \/ /\ Accepted(r)' /\ req'[r].endpoint = req[r].endpoint
          /\ req'[r].receivedAt = req[r].receivedAt
       \/ At(r, "lost")'
  /\ At(r, "lost") => At(r, "lost")'

Moves(r) ==
  /\ UNCHANGED <<events, next_sequence, objects>>
  /\ Accepted(r)' => Accepted(r)
  /\ Storing(r)' =>
       \/ Storing(r) /\ req'[r].undo = req[r].undo
       \/ At(r, "body") /\ req'[r].undo = {"slot"}
  /\ \A part \in Part : Traced(r, part) => Traced(r, part)'

Puts(r) ==
  /\ UNCHANGED <<events, next_sequence>>
  /\ At(r, "store") /\ ~Accepted(r)'
  /\ \E part \in Part :
       \/ PutObject(<<r, part>>) /\ req'[r].undo = req[r].undo \cup {part}
       \/ /\ (PutObject(<<r, part>>) /\ Traced(r, part)') \/ UNCHANGED objects
          /\ req'[r].undo = req[r].undo
  /\ \A part \in Part : Traced(r, part) => Traced(r, part)'

Records(r) ==
  /\ UNCHANGED objects
  /\ At(r, "insert") /\ InsertGuard(req[r].endpoint, req[r].matched)
  /\ InsertEvent(r, req[r].endpoint, req[r].receivedAt)
  /\ \/ /\ At(r, "publish")' /\ req'[r].endpoint = req[r].endpoint
        /\ req'[r].receivedAt = req[r].receivedAt
     \/ /\ AmbiguousInsert /\ Settled(r)' /\ ~Accepted(r)'
        /\ \A part \in Part : Traced(r, part) => Traced(r, part)'

Cleans(r) ==
  /\ UNCHANGED <<events, next_sequence>>
  /\ At(r, "undo") /\ ~Accepted(r)' /\ ~Storing(r)'
  /\ \E part \in Part :
       /\ RemoveObjects({<<r, part>>}) /\ req'[r].undo = req[r].undo \ {part}
       /\ \A other \in Part \ {part} : Traced(r, other) => Traced(r, other)'

RequestMove(r) ==
  /\ RequestFrame /\ Onward(r)
  /\ Moves(r) \/ Puts(r) \/ Records(r) \/ Cleans(r)

Refusals == {401, 404, 410, 413, 429, 500}

LEMMA RefusalShape ==
  ASSUME IngestTypeOK, NEW r \in Request, NEW undo, undo \in Undo, NEW left,
         NEW code \in Refusals, FailWith(r, undo, left, code)
  PROVE  /\ \A x \in Request \ {r} : req'[x] = req[x]
         /\ Shape(req'[r])
         /\ req'[r].undo = undo /\ req'[r].left = left
         /\ req'[r].pc \in {"undo", "done"} /\ req'[r].response # 204
PROOF
  <1> DEFINE next == [NoRequest EXCEPT !.pc = IF undo = {} THEN "done" ELSE "undo",
                                       !.endpoint = req[r].endpoint,
                                       !.undo = undo, !.left = left,
                                       !.response = code]
  <1>1. /\ next.pc = (IF undo = {} THEN "done" ELSE "undo") /\ next.undo = undo
        /\ next.left = left /\ next.response = code /\ next.matched = {} /\ next.header = {}
    BY DEF NoRequest
  <1>2. Become(r, next)
    BY DEF FailWith
  <1>3. code # 204 /\ code # 0
    BY DEF Refusals
  <1> HIDE DEF next
  <1>4. req'[r] = next /\ \A x \in Request \ {r} : req'[x] = req[x]
    BY <1>2, BecomeShape
  <1>5. Shape(next)
    BY <1>1, <1>3 DEF Shape
  <1> QED
    BY <1>1, <1>3, <1>4, <1>5

(* A refusal of a request that was not accepted moves it on. *)
LEMMA RefusalMoves ==
  ASSUME IngestTypeOK, NEW r \in Request, NEW code \in Refusals, Fail(r, code),
         Running(r), ~At(r, "publish"), UNCHANGED <<events, next_sequence, objects>>
  PROVE  Onward(r) /\ Moves(r)
PROOF
  <1>1. req[r].undo \in Undo
    BY DEF IngestTypeOK, RequestState, Undo
  <1>2. /\ \A x \in Request \ {r} : req'[x] = req[x]
        /\ Shape(req'[r])
        /\ req'[r].undo = req[r].undo /\ req'[r].left = req[r].left
        /\ req'[r].pc \in {"undo", "done"} /\ req'[r].response # 204
    BY <1>1, RefusalShape DEF Fail
  <1>3. ~Accepted(r) /\ ~At(r, "lost") /\ ~Accepted(r)' /\ ~Early(r)' /\ Past(r)' /\ Settled(r)'
        /\ ~Storing(r)'
    BY <1>2 DEF Accepted, Running, At, Early, Past, Settled, Storing
  <1>4. \A part \in Part : Traced(r, part) => Traced(r, part)'
    BY <1>2, <1>3 DEF Traced
  <1> QED
    BY <1>2, <1>3, <1>4 DEF Onward, Moves

LEMMA ValidateMoves ==
  ASSUME IngestTypeOK, Shaped, NEW r \in Request, NEW e \in Endpoint,
         NEW h \in Credential, ValidateEndpoint(r, e, h), RequestOnly
  PROVE  RequestMove(r)
PROOF
  <1> DEFINE first == [NoRequest EXCEPT !.pc = "reserve", !.endpoint = e, !.header = h]
             last(code) == [NoRequest EXCEPT !.pc = "done", !.endpoint = e,
                                             !.response = code]
  <1>1. Shape(first) /\ first.pc = "reserve"
    BY DEF Shape, NoRequest
  <1>2. \A code : last(code).pc = "done" /\ last(code).response = code
    BY DEF NoRequest
  <1>3. ASSUME NEW code \in {404, 410} PROVE Shape(last(code))
    BY DEF Shape, NoRequest
  <1>4. Become(r, first) \/ \E code \in {404, 410} : Become(r, last(code))
    BY DEF ValidateEndpoint
  <1> HIDE DEF first, last
  <1>5. /\ \A x \in Request \ {r} : req'[x] = req[x]
        /\ Shape(req'[r])
        /\ \/ req'[r].pc = "reserve"
           \/ req'[r].pc = "done" /\ req'[r].response \in {404, 410}
    BY <1>1, <1>2, <1>3, <1>4, BecomeShape
  <1>6. At(r, "idle") /\ UNCHANGED storeVars
    BY DEF ValidateEndpoint
  <1>7. Early(r) /\ ~Past(r) /\ ~Settled(r) /\ ~Accepted(r) /\ ~At(r, "lost")
    BY <1>6 DEF Early, Past, Settled, Accepted, At
  <1>8. ~Accepted(r)' /\ ~Storing(r)'
    BY <1>5 DEF Accepted, At, Storing
  <1>9. Onward(r)
    BY <1>5, <1>7, <1>8 DEF Onward
  <1>10. \A part \in Part : ~Traced(r, part)
    BY <1>6, <1>7 DEF At, Shaped, Shape, Traced
  <1> QED
    BY <1>6, <1>8, <1>9, <1>10
    DEF RequestMove, Moves, RequestFrame, SameLives, storeVars, d1Vars, RequestOnly

LEMMA CountLives ==
  ASSUME EndpointsOK, NEW e, CountUp(e) \/ CountDown(e)
  PROVE  SameLives
  BY DEF EndpointsOK, EndpointRow, CountUp, CountDown, SameLives

LEMMA RequestFrames ==
  ASSUME StoreInv, NEW r \in Request, RequestStep(r) \/ RequestFailure(r)
  PROVE  RequestFrame
PROOF
  <1>1. EndpointsOK
    BY StoreInvParts
  <1>2. UNCHANGED endpoints => SameLives
    BY DEF SameLives
  <1>4. RequestStep(r) => RequestFrame
    BY <1>1, <1>2, CountLives
    DEF RequestStep, RequestFrame, RequestOnly, storeVars, d1Vars, ReserveTemporary,
        ReservePrivate, ExplainRefusal, VerifySecret, ReadBody, BodyTooLarge,
        PersistObject, CheckExpiry, RecordMetadata, ClassifyRefusal, PublishLive, Compensate
  <1>5. RequestFailure(r) => RequestFrame
    BY <1>1, <1>2, CountLives
    DEF RequestFailure, RequestFrame, RequestOnly, d1Vars, PersistObjectFails,
        ReserveAckLost, InsertAckLost, StorageCallFails, CompensationFails, IsolateLost
  <1> QED
    BY <1>4, <1>5

(* Both puts: the object is on the stack, or the put has failed. *)
LEMMA PutMoves ==
  ASSUME IngestTypeOK, Shaped, NEW r \in Request, At(r, "store"),
         NEW part \in Part, NEW undo, undo \in {req[r].undo, req[r].undo \cup {part}},
         NEW left, req[r].left \subseteq left,
         part \in req[r].pending, PutAnswered(r, part, undo, left)
  PROVE  /\ Onward(r) /\ ~Accepted(r)' /\ req'[r].undo = undo /\ req'[r].left = left
         /\ \A other \in Part : Traced(r, other) => Traced(r, other)'
PROOF
  <1>t. /\ req[r] \in RequestState /\ undo \in Undo /\ "slot" \in undo
        /\ req[r].matched \in {{}, req[r].header} /\ req[r].response = 0
        /\ req[r].pending \cap req[r].undo = {}
    BY DEF IngestTypeOK, RequestState, Undo, Shaped, Shape, At
  <1>0. ~Accepted(r) /\ ~At(r, "lost") /\ ~Past(r) /\ ~Settled(r) /\ ~Early(r)
    BY DEF Accepted, At, Past, Settled, Early
  <1>h. ASSUME req'[r].undo = undo, req'[r].left = left, NEW other \in Part, Traced(r, other)
        PROVE  Traced(r, other)'
    BY <1>h, <1>0 DEF Traced
  <1>1. CASE FailWith(r, undo, left, 500)
    <2>1. 500 \in Refusals
      BY DEF Refusals
    <2>2. /\ \A x \in Request \ {r} : req'[x] = req[x]
          /\ Shape(req'[r])
          /\ req'[r].undo = undo /\ req'[r].left = left
          /\ req'[r].pc \in {"undo", "done"} /\ req'[r].response # 204
      BY <1>1, <1>t, <2>1, RefusalShape
    <2>3. ~Accepted(r)' /\ ~Early(r)'
      BY <2>2 DEF Accepted, At, Early
    <2> QED
      BY <1>0, <1>h, <2>2, <2>3 DEF Onward
  <1>2. CASE ~FailWith(r, undo, left, 500)
    <2> DEFINE rest == req[r].pending \ {part}
               next == [req[r] EXCEPT !.pending = rest, !.undo = undo, !.left = left,
                                      !.pc = IF rest = {} THEN "check" ELSE "store"]
    <2>1. Become(r, next) /\ (rest = {} => Part \subseteq undo)
      BY <1>2 DEF PutAnswered
    <2>2. /\ next.pc = (IF rest = {} THEN "check" ELSE "store")
          /\ next.pending = rest /\ next.undo = undo /\ next.left = left
          /\ next.matched = req[r].matched /\ next.header = req[r].header
          /\ next.response = 0
      BY <1>t DEF RequestState
    <2>3. rest \cap undo = {}
      BY <1>t
    <2>4. rest = {} => undo = {"slot"} \cup Part
      BY <1>t, <2>1 DEF Undo
    <2> HIDE DEF next
    <2>5. Shape(next)
      BY <1>t, <2>2, <2>3, <2>4 DEF Shape
    <2>6. req'[r] = next /\ \A x \in Request \ {r} : req'[x] = req[x]
      BY <2>1, BecomeShape
    <2>7. ~Accepted(r)' /\ ~Early(r)'
      BY <2>2, <2>6 DEF Accepted, At, Early
    <2> QED
      BY <1>0, <1>h, <2>2, <2>5, <2>6, <2>7 DEF Onward
  <1> QED
    BY <1>1, <1>2

(* An entry popped off the stack. *)
LEMMA PoppedMoves ==
  ASSUME IngestTypeOK, Shaped, NEW r \in Request, NEW entry, NEW left,
         req[r].left \subseteq left, Popped(r, entry, left)
  PROVE  /\ Onward(r) /\ ~Accepted(r)' /\ ~Storing(r)'
         /\ req'[r].undo = req[r].undo \ {entry} /\ req'[r].left = left
         /\ \A other \in Part : other # entry \/ other \in left =>
              (Traced(r, other) => Traced(r, other)')
PROOF
  <1> DEFINE rest == req[r].undo \ {entry}
             next == [req[r] EXCEPT !.undo = rest, !.left = left,
                                    !.pc = IF rest = {} THEN "done" ELSE "undo"]
  <1>1. At(r, "undo") /\ Become(r, next)
    BY DEF Popped
  <1>2. req[r] \in RequestState /\ Shape(req[r])
    BY DEF IngestTypeOK, Shaped
  <1>3. /\ next.pc = (IF rest = {} THEN "done" ELSE "undo") /\ next.undo = rest
        /\ next.left = left
        /\ next.response = req[r].response
        /\ next.matched = req[r].matched /\ next.header = req[r].header
    BY <1>2 DEF RequestState
  <1>4. req[r].response \notin {0, 204}
    BY <1>1, <1>2 DEF Shape, At
  <1> HIDE DEF next
  <1>5. Shape(next)
    BY <1>2, <1>3, <1>4 DEF Shape
  <1>6. req'[r] = next /\ \A x \in Request \ {r} : req'[x] = req[x]
    BY <1>1, BecomeShape
  <1>7. /\ ~Accepted(r) /\ ~At(r, "lost") /\ ~Accepted(r)' /\ ~Early(r)' /\ Past(r)'
        /\ Settled(r)' /\ ~Storing(r)'
    BY <1>1, <1>3, <1>4, <1>6 DEF Accepted, At, Early, Past, Settled, Storing
  <1>8. ASSUME NEW other \in Part, other # entry \/ other \in left, Traced(r, other)
        PROVE  Traced(r, other)'
    BY <1>3, <1>6, <1>7, <1>8 DEF Traced
  <1> QED
    BY <1>3, <1>5, <1>6, <1>7, <1>8 DEF Onward

LEMMA StepMoves ==
  ASSUME IngestTypeOK, StoreInv, Shaped, NEW r \in Request, RequestStep(r)
  PROVE  RequestMove(r)
PROOF
  <1>f. RequestFrame
    BY RequestFrames
  <1>t. req[r] \in RequestState /\ Shape(req[r])
    BY DEF IngestTypeOK, Shaped
  <1>g. ASSUME NEW code \in Refusals, Fail(r, code), Running(r), ~At(r, "publish"),
               UNCHANGED <<events, next_sequence, objects>>
        PROVE  Onward(r) /\ Moves(r)
    BY <1>g, RefusalMoves
  <1>c. /\ 401 \in Refusals /\ 404 \in Refusals /\ 410 \in Refusals /\ 413 \in Refusals
        /\ 429 \in Refusals /\ 500 \in Refusals
    BY DEF Refusals
  <1>h. ASSUME NEW q, Become(r, q), Shape(q), ~At(r, "publish"), Running(r), q.response = 0,
               q.pc \in {"relookup", "verify", "body", "store", "insert", "classify"},
               q.pc \in {"relookup", "verify", "body"} => Early(r),
               q.pc = "store" => At(r, "body") /\ q.undo = {"slot"},
               q.pc = "insert" => At(r, "check") /\ q.undo = req[r].undo,
               q.pc = "classify" => At(r, "insert"),
               req[r].undo \subseteq q.undo, q.left = req[r].left,
               UNCHANGED <<events, next_sequence, objects>>
        PROVE  Onward(r) /\ Moves(r)
    <2>1. req'[r] = q /\ \A x \in Request \ {r} : req'[x] = req[x]
      BY <1>h, BecomeShape
    <2>2. ~Accepted(r) /\ ~At(r, "lost") /\ ~Accepted(r)'
      BY <1>h, <2>1 DEF Accepted, Running, At
    <2>3. (Early(r)' => Early(r)) /\ (Past(r) => Past(r)') /\ (Settled(r) => Settled(r)')
      BY <1>h, <1>t, <2>1 DEF Early, Past, Settled, Running, At, RequestState
    <2>4. Storing(r)' => \/ Storing(r) /\ req'[r].undo = req[r].undo
                         \/ At(r, "body") /\ req'[r].undo = {"slot"}
      BY <1>h, <2>1 DEF Storing, At
    <2>5. Onward(r)
      BY <1>h, <2>1, <2>2, <2>3 DEF Onward
    <2>7. \A part \in Part : Traced(r, part) => Traced(r, part)'
      BY <1>h, <2>1, <2>2 DEF Traced
    <2>6. Moves(r)
      BY <1>h, <2>2, <2>4, <2>7 DEF Moves
    <2> QED
      BY <2>5, <2>6
  <1>1. CASE ReserveTemporary(r) \/ ReservePrivate(r)
    <2>1. At(r, "reserve") /\ UNCHANGED <<events, next_sequence, objects>>
      BY <1>1 DEF ReserveTemporary, ReservePrivate
    <2>2. Running(r) /\ Early(r) /\ ~At(r, "publish") /\ req[r].undo = {}
      BY <1>t, <2>1 DEF Running, Early, At, Shape
    <2>3. CASE Become(r, [req[r] EXCEPT !.pc = "verify", !.undo = {"slot"}])
      <3> DEFINE next == [req[r] EXCEPT !.pc = "verify", !.undo = {"slot"}]
      <3>1. /\ next.pc = "verify" /\ next.undo = {"slot"} /\ next.response = req[r].response
            /\ next.left = req[r].left
            /\ next.matched = req[r].matched /\ next.header = req[r].header
        BY <1>t DEF RequestState
      <3>2. Become(r, next)
        BY <2>3
      <3> HIDE DEF next
      <3>3. Shape(next) /\ next.response = 0
        BY <1>t, <2>1, <3>1 DEF Shape, At
      <3> QED
        BY <1>f, <1>h, <2>1, <2>2, <3>1, <3>2, <3>3 DEF RequestMove
    <2>4. CASE Goto(r, "relookup")
      <3> DEFINE next == [req[r] EXCEPT !.pc = "relookup"]
      <3>1. /\ next.pc = "relookup" /\ next.undo = req[r].undo /\ next.response = req[r].response
            /\ next.left = req[r].left
            /\ next.matched = req[r].matched /\ next.header = req[r].header
        BY <1>t DEF RequestState
      <3>2. Become(r, next)
        BY <2>4 DEF Goto
      <3> HIDE DEF next
      <3>3. Shape(next) /\ next.response = 0
        BY <1>t, <2>1, <3>1 DEF Shape, At
      <3> QED
        BY <1>f, <1>h, <2>1, <2>2, <3>1, <3>2, <3>3 DEF RequestMove
    <2>5. CASE Fail(r, 429)
      BY <1>f, <1>g, <1>c, <2>1, <2>2, <2>5 DEF RequestMove
    <2> QED
      BY <1>1, <2>3, <2>4, <2>5 DEF ReserveTemporary, ReservePrivate
  <1>2. CASE ExplainRefusal(r) \/ BodyTooLarge(r) \/ ClassifyRefusal(r)
    <2>1. /\ req[r].pc \in {"relookup", "body", "classify"}
          /\ UNCHANGED <<events, next_sequence, objects>>
      BY <1>2 DEF ExplainRefusal, BodyTooLarge, ClassifyRefusal, At, storeVars, d1Vars
    <2>2. Running(r) /\ ~At(r, "publish")
      BY <2>1 DEF Running, At
    <2>3. \E code \in Refusals : Fail(r, code)
      BY <1>2, <1>c DEF ExplainRefusal, BodyTooLarge, ClassifyRefusal
    <2> QED
      BY <1>f, <1>g, <2>1, <2>2, <2>3 DEF RequestMove
  <1>3. CASE VerifySecret(r)
    <2>1. At(r, "verify") /\ UNCHANGED <<events, next_sequence, objects>>
      BY <1>3 DEF VerifySecret, storeVars, d1Vars
    <2>2. /\ Running(r) /\ Early(r) /\ ~At(r, "publish")
          /\ req[r].undo = {"slot"} /\ req[r].left = {}
      BY <1>t, <2>1 DEF Running, Early, At, Shape
    <2> DEFINE open  == [req[r] EXCEPT !.pc = "body"]
               match == [req[r] EXCEPT !.pc = "body", !.matched = req[r].header]
    <2>3. /\ open.pc = "body" /\ open.undo = req[r].undo /\ open.response = req[r].response
          /\ open.matched = req[r].matched /\ open.header = req[r].header
          /\ open.left = req[r].left /\ match.left = req[r].left
          /\ match.pc = "body" /\ match.undo = req[r].undo /\ match.response = req[r].response
          /\ match.matched = req[r].header /\ match.header = req[r].header
      BY <1>t DEF RequestState
    <2>6. Become(r, open) \/ Become(r, match) \/ Fail(r, 401)
      BY <1>3 DEF VerifySecret, Goto
    <2> HIDE DEF open, match
    <2>4. ASSUME NEW q \in {open, match}, Become(r, q)
          PROVE  Onward(r) /\ Moves(r)
      <3>1. /\ q.pc = "body" /\ q.undo = {"slot"} /\ q.left = {} /\ q.response = 0
            /\ q.matched \in {{}, q.header}
        BY <1>t, <2>1, <2>2, <2>3 DEF Shape, At
      <3>2. Shape(q)
        BY <3>1 DEF Shape
      <3> QED
        BY <1>h, <2>1, <2>2, <2>4, <3>1, <3>2
    <2>5. CASE Fail(r, 401)
      BY <1>f, <1>g, <1>c, <2>1, <2>2, <2>5 DEF RequestMove
    <2>7. ASSUME NEW q \in {open, match}, Become(r, q) PROVE RequestMove(r)
      BY <1>f, <2>4, <2>7 DEF RequestMove
    <2> QED
      BY <2>5, <2>6, <2>7
  <1>4. CASE ReadBody(r)
    <2> DEFINE next == [req[r] EXCEPT !.pc = "store", !.receivedAt = clock, !.pending = Part]
    <2>1. /\ At(r, "body") /\ UNCHANGED <<events, next_sequence, objects>>
          /\ Become(r, next)
      BY <1>4 DEF ReadBody, storeVars, d1Vars
    <2>2. /\ next.pc = "store" /\ next.undo = req[r].undo /\ next.response = req[r].response
          /\ next.left = req[r].left
          /\ next.matched = req[r].matched /\ next.header = req[r].header /\ next.pending = Part
      BY <1>t DEF RequestState
    <2>3. Running(r) /\ ~At(r, "publish") /\ req[r].undo = {"slot"} /\ req[r].response = 0
      BY <1>t, <2>1 DEF Running, At, Shape
    <2> HIDE DEF next
    <2>4. Shape(next)
      BY <1>t, <2>2, <2>3 DEF Shape, Part
    <2> QED
      BY <1>f, <1>h, <2>1, <2>2, <2>3, <2>4 DEF RequestMove
  <1>5. CASE \E part \in Part : PersistObject(r, part)
    <2>1. PICK part \in Part : PersistObject(r, part)
      BY <1>5
    <2>2. /\ Onward(r) /\ ~Accepted(r)' /\ req'[r].undo = req[r].undo \cup {part}
          /\ \A other \in Part : Traced(r, other) => Traced(r, other)'
      BY <2>1, PutMoves DEF PersistObject
    <2>3. Puts(r)
      BY <2>1, <2>2 DEF Puts, PersistObject, d1Vars
    <2> QED
      BY <1>f, <2>2, <2>3 DEF RequestMove
  <1>6. CASE CheckExpiry(r)
    <2> DEFINE next == [req[r] EXCEPT !.pc = "insert"]
    <2>1. At(r, "check") /\ UNCHANGED <<events, next_sequence, objects>>
      BY <1>6 DEF CheckExpiry, storeVars, d1Vars
    <2>2. Running(r) /\ ~At(r, "publish")
      BY <2>1 DEF Running, At
    <2>3. CASE Become(r, next)
      <3>1. /\ next.pc = "insert" /\ next.undo = req[r].undo /\ next.response = req[r].response
            /\ next.left = req[r].left
            /\ next.matched = req[r].matched /\ next.header = req[r].header
        BY <1>t DEF RequestState
      <3>2. Become(r, next)
        BY <2>3
      <3> HIDE DEF next
      <3>3. Shape(next) /\ next.response = 0
        BY <1>t, <2>1, <3>1 DEF Shape, At
      <3> QED
        BY <1>f, <1>h, <2>1, <2>2, <3>1, <3>2, <3>3 DEF RequestMove
    <2>4. CASE Fail(r, 410)
      BY <1>f, <1>g, <1>c, <2>1, <2>2, <2>4 DEF RequestMove
    <2> QED
      BY <1>6, <2>3, <2>4 DEF CheckExpiry, Goto
  <1>7. CASE RecordMetadata(r)
    <2> DEFINE next == [NoRequest EXCEPT !.pc = "publish", !.endpoint = req[r].endpoint,
                                         !.receivedAt = req[r].receivedAt]
               back == [req[r] EXCEPT !.pc = "classify"]
    <2>1. At(r, "insert") /\ UNCHANGED objects
      BY <1>7 DEF RecordMetadata
    <2>2. /\ ~Accepted(r) /\ ~At(r, "lost") /\ ~At(r, "publish") /\ ~Early(r) /\ ~Settled(r)
          /\ Running(r) /\ req[r].response = 0
      BY <1>t, <2>1 DEF Accepted, At, Early, Settled, Running, Shape
    <2>3. CASE InsertGuard(req[r].endpoint, req[r].matched)
      <3>1. InsertEvent(r, req[r].endpoint, req[r].receivedAt) /\ Become(r, next)
        BY <1>7, <2>3 DEF RecordMetadata
      <3>2. /\ next.pc = "publish" /\ next.endpoint = req[r].endpoint
            /\ next.receivedAt = req[r].receivedAt /\ Shape(next)
        BY DEF NoRequest, Shape
      <3> HIDE DEF next
      <3>3. req'[r] = next /\ \A x \in Request \ {r} : req'[x] = req[x]
        BY <3>1, BecomeShape
      <3>4. ~Early(r)' /\ Past(r)' /\ At(r, "publish")'
        BY <3>2, <3>3 DEF Early, Past, At
      <3>5. Onward(r)
        BY <2>2, <3>2, <3>3, <3>4 DEF Onward
      <3>6. Records(r)
        BY <2>1, <2>3, <3>1, <3>2, <3>3, <3>4 DEF Records
      <3> QED
        BY <1>f, <3>5, <3>6 DEF RequestMove
    <2>4. CASE ~InsertGuard(req[r].endpoint, req[r].matched)
      <3>1. Become(r, back) /\ UNCHANGED <<events, next_sequence, objects>>
        BY <1>7, <2>4 DEF RecordMetadata, Goto
      <3>2. /\ back.pc = "classify" /\ back.undo = req[r].undo /\ back.response = req[r].response
            /\ back.left = req[r].left
            /\ back.matched = req[r].matched /\ back.header = req[r].header
        BY <1>t DEF RequestState
      <3> HIDE DEF back
      <3>3. Shape(back) /\ back.response = 0
        BY <1>t, <2>1, <3>2 DEF Shape, At
      <3> QED
        BY <1>f, <1>h, <2>1, <2>2, <3>1, <3>2, <3>3 DEF RequestMove
    <2> QED
      BY <2>3, <2>4
  <1>8. CASE PublishLive(r)
    <2> DEFINE next == [req[r] EXCEPT !.pc = "done", !.response = 204]
    <2>1. /\ At(r, "publish") /\ UNCHANGED <<events, next_sequence, objects>>
          /\ Become(r, next)
      BY <1>8 DEF PublishLive, storeVars, d1Vars
    <2>2. /\ next.pc = "done" /\ next.response = 204 /\ next.undo = req[r].undo
          /\ next.matched = req[r].matched /\ next.header = req[r].header
          /\ next.endpoint = req[r].endpoint /\ next.receivedAt = req[r].receivedAt
      BY <1>t DEF RequestState
    <2>3. req[r].undo = {}
      BY <1>t, <2>1 DEF Shape, At
    <2> HIDE DEF next
    <2>4. Shape(next)
      BY <1>t, <2>2, <2>3 DEF Shape
    <2>5. req'[r] = next /\ \A x \in Request \ {r} : req'[x] = req[x]
      BY <2>1, BecomeShape
    <2>6. /\ Accepted(r) /\ Accepted(r)' /\ ~At(r, "lost") /\ ~Early(r)' /\ Past(r)' /\ Settled(r)'
          /\ ~Storing(r)'
      BY <2>1, <2>2, <2>5 DEF Accepted, At, Early, Past, Settled, Storing
    <2>9. /\ Shape(req'[r]) /\ req'[r].endpoint = req[r].endpoint
          /\ req'[r].receivedAt = req[r].receivedAt
          /\ \A x \in Request \ {r} : req'[x] = req[x]
      BY <2>2, <2>4, <2>5
    <2>7. Onward(r)
      BY <2>6, <2>9 DEF Onward
    <2>8. Moves(r)
      BY <2>1, <2>6 DEF Moves, Traced
    <2> QED
      BY <1>f, <2>7, <2>8 DEF RequestMove
  <1>9. CASE \E entry \in {"slot"} \cup Part : Compensate(r, entry)
    <2>1. PICK entry \in {"slot"} \cup Part : Compensate(r, entry)
      BY <1>9
    <2>2. /\ Onward(r) /\ ~Accepted(r)' /\ ~Storing(r)' /\ req'[r].undo = req[r].undo \ {entry}
          /\ \A other \in Part : other # entry => (Traced(r, other) => Traced(r, other)')
      BY <2>1, PoppedMoves DEF Compensate
    <2>3. At(r, "undo")
      BY <2>1 DEF Compensate, Popped
    <2>4. CASE entry = "slot"
      <3>1. UNCHANGED <<events, next_sequence, objects>>
        BY <2>1, <2>4 DEF Compensate
      <3>2. \A part \in Part : part # entry
        BY <2>4 DEF Part
      <3>3. Moves(r)
        BY <2>2, <3>1, <3>2 DEF Moves
      <3> QED
        BY <1>f, <2>2, <3>3 DEF RequestMove
    <2>5. CASE entry # "slot"
      <3>1. RemoveObjects({<<r, entry>>}) /\ UNCHANGED <<events, next_sequence>>
        BY <2>1, <2>5 DEF Compensate
      <3>2. Cleans(r)
        BY <2>1, <2>2, <2>3, <2>5, <3>1 DEF Cleans
      <3> QED
        BY <1>f, <2>2, <3>2 DEF RequestMove
    <2> QED
      BY <2>4, <2>5
  <1> QED
    BY <1>1, <1>2, <1>3, <1>4, <1>5, <1>6, <1>7, <1>8, <1>9 DEF RequestStep

LEMMA FailureMoves ==
  ASSUME IngestTypeOK, StoreInv, Shaped, NEW r \in Request, RequestFailure(r)
  PROVE  RequestMove(r)
PROOF
  <1>f. RequestFrame
    BY RequestFrames
  <1>t. req[r] \in RequestState /\ Shape(req[r])
    BY DEF IngestTypeOK, Shaped
  <1>c. 500 \in Refusals
    BY DEF Refusals
  <1>1. CASE \E part \in Part : PersistObjectFails(r, part)
    <2>1. PICK part \in Part : PersistObjectFails(r, part)
      BY <1>1
    <2>2. PICK left \in {req[r].left, req[r].left \cup {part}} :
            /\ PutAnswered(r, part, req[r].undo, left)
            /\ UNCHANGED objects \/ (PutObject(<<r, part>>) /\ part \in left)
      BY <2>1 DEF PersistObjectFails
    <2>3. /\ At(r, "store") /\ part \in req[r].pending
          /\ UNCHANGED <<events, next_sequence>>
      BY <2>1 DEF PersistObjectFails, d1Vars
    <2>4. /\ Onward(r) /\ ~Accepted(r)' /\ req'[r].undo = req[r].undo /\ req'[r].left = left
          /\ \A other \in Part : Traced(r, other) => Traced(r, other)'
      BY <2>2, <2>3, PutMoves
    <2>5. part \in left => Traced(r, part)'
      BY <2>4 DEF Traced
    <2>6. Puts(r)
      BY <2>2, <2>3, <2>4, <2>5 DEF Puts
    <2> QED
      BY <1>f, <2>4, <2>6 DEF RequestMove
  <1>2. CASE InsertAckLost(r)
    <2>1. /\ AmbiguousInsert /\ At(r, "insert") /\ Fail(r, 500) /\ UNCHANGED objects
          /\ InsertGuard(req[r].endpoint, req[r].matched) /\ Failure
          /\ InsertEvent(r, req[r].endpoint, req[r].receivedAt)
      BY <1>2 DEF InsertAckLost
    <2>2. req[r].undo \in Undo
      BY <1>t DEF RequestState, Undo
    <2>3. /\ \A x \in Request \ {r} : req'[x] = req[x]
          /\ Shape(req'[r])
          /\ req'[r].undo = req[r].undo /\ req'[r].left = req[r].left
          /\ req'[r].pc \in {"undo", "done"} /\ req'[r].response # 204
      BY <1>c, <2>1, <2>2, RefusalShape DEF Fail
    <2>4. /\ ~Accepted(r) /\ ~At(r, "lost") /\ ~Accepted(r)' /\ ~Early(r)' /\ Past(r)'
          /\ Settled(r)'
      BY <2>1, <2>3 DEF Accepted, At, Early, Past, Settled
    <2>5. Onward(r)
      BY <2>3, <2>4 DEF Onward
    <2>7. \A part \in Part : Traced(r, part) => Traced(r, part)'
      BY <2>3, <2>4 DEF Traced
    <2>6. Records(r)
      BY <2>1, <2>4, <2>7 DEF Records
    <2> QED
      BY <1>f, <2>5, <2>6 DEF RequestMove
  <1>3. CASE StorageCallFails(r)
    <2>1. /\ req[r].pc \in {"reserve", "relookup", "verify", "body", "insert", "classify"}
          /\ Fail(r, 500) /\ UNCHANGED <<events, next_sequence, objects>>
      BY <1>3 DEF StorageCallFails, d1Vars
    <2>2. Running(r) /\ ~At(r, "publish")
      BY <2>1 DEF Running, At
    <2> QED
      BY <1>f, <1>c, <2>1, <2>2, RefusalMoves DEF RequestMove
  <1>4. CASE \E entry \in {"slot"} \cup Part : CompensationFails(r, entry)
    <2>1. PICK entry \in {"slot"} \cup Part : CompensationFails(r, entry)
      BY <1>4
    <2>2. /\ Onward(r) /\ ~Accepted(r)' /\ ~Storing(r)'
          /\ \A other \in Part : Traced(r, other) => Traced(r, other)'
      BY <2>1, PoppedMoves DEF CompensationFails
    <2>3. UNCHANGED <<events, next_sequence, objects>>
      BY <2>1 DEF CompensationFails, d1Vars
    <2>4. Moves(r)
      BY <2>2, <2>3 DEF Moves
    <2> QED
      BY <1>f, <2>2, <2>4 DEF RequestMove
  <1>5. CASE IsolateLost(r)
    <2> DEFINE next == [NoRequest EXCEPT !.pc = "lost", !.endpoint = req[r].endpoint,
                                         !.left = req[r].left \cup req[r].undo]
    <2>1. /\ Running(r) /\ UNCHANGED <<events, next_sequence, objects>>
          /\ Become(r, next)
      BY <1>5 DEF IsolateLost, d1Vars
    <2>2. next.pc = "lost" /\ Shape(next)
      BY DEF NoRequest, Shape
    <2> HIDE DEF next
    <2>3. req'[r] = next /\ \A x \in Request \ {r} : req'[x] = req[x]
      BY <2>1, BecomeShape
    <2>4. /\ At(r, "lost")' /\ ~Accepted(r)' /\ ~Early(r)' /\ Past(r)' /\ Settled(r)'
          /\ ~Storing(r)'
      BY <2>2, <2>3 DEF Accepted, At, Early, Past, Settled, Storing
    <2>5. Onward(r)
      BY <2>1, <2>2, <2>3, <2>4 DEF Onward
    <2>6. Moves(r)
      BY <2>1, <2>4 DEF Moves, Traced
    <2> QED
      BY <1>f, <2>5, <2>6 DEF RequestMove
  <1>6. CASE ReserveAckLost(r)
    <2>1. /\ At(r, "reserve") /\ FailWith(r, {}, {"slot"}, 500)
          /\ UNCHANGED <<events, next_sequence, objects>>
      BY <1>6 DEF ReserveAckLost
    <2>2. {} \in Undo
      BY DEF Undo
    <2>3. /\ \A x \in Request \ {r} : req'[x] = req[x]
          /\ Shape(req'[r])
          /\ req'[r].pc \in {"undo", "done"} /\ req'[r].response # 204
      BY <1>c, <2>1, <2>2, RefusalShape
    <2>4. /\ ~Accepted(r) /\ ~At(r, "lost") /\ ~Accepted(r)' /\ ~Early(r)' /\ Past(r)'
          /\ Settled(r)' /\ ~Storing(r)'
      BY <2>1, <2>3 DEF Accepted, At, Early, Past, Settled, Storing
    <2>5. \A part \in Part : ~Traced(r, part)
      BY <1>t, <2>1, <2>4 DEF Traced, Shape, At
    <2>6. Onward(r) /\ Moves(r)
      BY <2>1, <2>3, <2>4, <2>5 DEF Onward, Moves
    <2> QED
      BY <1>f, <2>6 DEF RequestMove
  <1> QED
    BY <1>1, <1>2, <1>3, <1>4, <1>5, <1>6 DEF RequestFailure

-----------------------------------------------------------------------------
(* What a step of anybody else does: it stores nothing, and it takes away  *)
(* only what it has listed or what belongs to the endpoint it purges.      *)

LivesOn ==
  /\ clock' \in Nat /\ clock <= clock'
  /\ \A e \in Endpoint :
       /\ endpoints[e].status # "none" =>
            endpoints'[e].status # "none" /\ endpoints'[e].expires_at = endpoints[e].expires_at
       /\ endpoints[e].status \in {"disabled", "deleted"} =>
            endpoints'[e].status \in {"disabled", "deleted"}
       /\ RowExists(e) => RowExists(e)' \/ (EventsOf(e) = {} /\ UNCHANGED events)
       /\ endpoints'[e].status = "active" => endpoints[e].status \in {"active", "none"}

TickGuard ==
  \/ clock' = clock
  \/ /\ clock' = clock + 1 /\ UNCHANGED objects
     /\ \A o \in objects : Storing(o.key[1]) => clock + 1 < o.uploaded + OrphanMinAge

OtherMove ==
  /\ UNCHANGED <<req, next_sequence>>
  /\ LivesOn /\ TickGuard
  /\ events' \subseteq events /\ objects' \subseteq objects
  /\ \A v \in events \ events' :
       \/ \E p \in Job : Doing(p, "events") /\ v.endpoint_id = job[p].endpoint
       \/ cron.phase = "oldRows" /\ v.id \in cron.rows
  /\ \A o \in objects \ objects' :
       \/ \E p \in Job : Doing(p, "objects") /\ o.key \in job[p].keys
       \/ cron.phase \in {"oldObjects", "orphans"} /\ o.key \in cron.keys

LEMMA SameLivesOn ==
  ASSUME SameLives, clock \in Nat, UNCHANGED clock
  PROVE  LivesOn
  BY DEF SameLives, LivesOn, RowExists

(* A step that changes neither the stores nor the requests. *)
LEMMA NothingMoves ==
  ASSUME StoreInv, UNCHANGED <<storeVars, req>>
  PROVE  OtherMove
PROOF
  <1>1. clock \in Nat
    BY StoreInvParts DEF ClockOK
  <1> QED
    BY <1>1, SameLivesOn DEF SameLives, OtherMove, TickGuard, storeVars, d1Vars

LEMMA TickMoves ==
  ASSUME StoreInv, Tick
  PROVE  OtherMove
PROOF
  <1>1. clock \in Nat /\ clock' = clock + 1
    BY StoreInvParts DEF ClockOK, Tick
  <1>2. LivesOn
    BY <1>1 DEF Tick, LivesOn, d1Vars, RowExists
  <1>3. TickGuard
    BY DEF Tick, TickGuard
  <1> QED
    BY <1>2, <1>3 DEF Tick, OtherMove, d1Vars

LEMMA CreateMoves ==
  ASSUME StoreInv, NEW e \in Endpoint, CreateEndpoint(e), UNCHANGED <<req, job, cron>>
  PROVE  OtherMove
PROOF
  <1>1. clock \in Nat /\ EndpointsOK
    BY StoreInvParts DEF ClockOK
  <1>2. \A x \in Endpoint : endpoints[x].status # "none" => endpoints'[x] = endpoints[x]
    BY <1>1 DEF CreateEndpoint, EndpointsOK
  <1>3. LivesOn
    BY <1>1, <1>2 DEF LivesOn, RowExists, CreateEndpoint
  <1> QED
    BY <1>3 DEF CreateEndpoint, OtherMove, TickGuard

(* A row that goes has no events; a row that is disabled stays a row. *)
LEMMA DisableLives ==
  ASSUME StoreInv, NEW e, endpoints[e].status = "active", UNCHANGED clock,
         endpoints' = [endpoints EXCEPT ![e].status = "disabled"]
  PROVE  LivesOn
PROOF
  <1>1. clock \in Nat /\ EndpointsOK
    BY StoreInvParts DEF ClockOK
  <1>2. \A x \in Endpoint :
          /\ endpoints'[x].expires_at = endpoints[x].expires_at
          /\ endpoints'[x].status = IF x = e THEN "disabled" ELSE endpoints[x].status
    BY <1>1 DEF EndpointsOK, EndpointRow
  <1> QED
    BY <1>1, <1>2 DEF LivesOn, RowExists

LEMMA DeleteLives ==
  ASSUME StoreInv, NEW e, CanDeleteEndpoint(e), DeleteEndpointRow(e), UNCHANGED <<clock, events>>
  PROVE  LivesOn
PROOF
  <1>1. clock \in Nat /\ EndpointsOK
    BY StoreInvParts DEF ClockOK
  <1>2. \A x \in Endpoint :
          /\ endpoints'[x].expires_at = endpoints[x].expires_at
          /\ endpoints'[x].status = IF x = e /\ RowExists(e) THEN "deleted"
                                    ELSE endpoints[x].status
    BY <1>1 DEF EndpointsOK, EndpointRow, DeleteEndpointRow
  <1> QED
    BY <1>1, <1>2 DEF LivesOn, RowExists, CanDeleteEndpoint

LEMMA ReconcileLives ==
  ASSUME StoreInv, ReconcileCounts, UNCHANGED clock
  PROVE  LivesOn
PROOF
  <1>1. clock \in Nat /\ EndpointsOK
    BY StoreInvParts DEF ClockOK
  <1>2. SameLives
    BY <1>1 DEF SameLives, ReconcileCounts, EndpointsOK, EndpointRow
  <1> QED
    BY <1>1, <1>2, SameLivesOn

LEMMA OwnerMoves ==
  ASSUME StoreInv, NEW o \in Owner, OwnerStep(o)
  PROVE  OtherMove
PROOF
  <1>1. clock \in Nat
    BY StoreInvParts DEF ClockOK
  <1>2. UNCHANGED <<events, next_sequence, objects, clock, req, cron>>
    <2>1. JobOnly
      BY DEF OwnerStep
    <2>2. CASE UNCHANGED storeVars
      BY <2>1, <2>2 DEF JobOnly, storeVars, d1Vars
    <2>3. CASE DisableEndpoint(o) \/ CreateEndpointSecret(o) \/ RevokeEndpointSecret(o)
      BY <2>1, <2>3 DEF JobOnly, DisableEndpoint, CreateEndpointSecret, RevokeEndpointSecret
    <2>4. CASE OwnerRequestFails(o)
      BY <2>1, <2>4 DEF JobOnly, OwnerRequestFails, d1Vars
    <2> QED
      BY <2>2, <2>3, <2>4
      DEF OwnerStep, FindForDelete, FindForCreateSecret, FindForRevokeSecret,
          FindForSecret, OwnerDeleteRefused
  <1>3. LivesOn
    <2>1. CASE UNCHANGED endpoints
      BY <1>1, <1>2, <2>1, SameLivesOn DEF SameLives
    <2>2. CASE ~UNCHANGED endpoints
      <3>1. /\ endpoints[job[o].endpoint].status = "active"
            /\ endpoints' = [endpoints EXCEPT ![job[o].endpoint].status = "disabled"]
        BY <2>2 DEF OwnerStep, FindForDelete, DisableEndpoint, FindForCreateSecret,
            FindForRevokeSecret, FindForSecret, CreateEndpointSecret, RevokeEndpointSecret,
            OwnerRequestFails, OwnerDeleteRefused, storeVars, d1Vars
      <3> QED
        BY <1>2, <3>1, DisableLives
    <2> QED
      BY <2>1, <2>2
  <1> QED
    BY <1>2, <1>3 DEF OtherMove, TickGuard

LEMMA PurgeMoves ==
  ASSUME StoreInv, NEW p \in Job, PurgeStep(p)
  PROVE  OtherMove
PROOF
  <1>1. clock \in Nat /\ (UNCHANGED <<endpoints, clock>> => LivesOn)
    BY StoreInvParts, SameLivesOn DEF ClockOK, SameLives
  <1>2. CASE ListObjectKeys(p) /\ JobOnly
    BY <1>2, NothingMoves DEF ListObjectKeys, JobOnly
  <1>3. CASE DeleteObjectBatch(p) /\ JobOnly
    <2>1. PICK batch \in Batches(job[p].keys) : RemoveObjects(batch)
      BY <1>3 DEF DeleteObjectBatch
    <2>2. batch \subseteq job[p].keys
      BY DEF Batches
    <2>3. objects' \subseteq objects /\ \A o \in objects \ objects' : o.key \in job[p].keys
      BY <2>1, <2>2 DEF RemoveObjects
    <2> QED
      BY <1>1, <1>3, <2>3
      DEF DeleteObjectBatch, JobOnly, OtherMove, TickGuard, d1Vars
  <1>4. CASE DeleteEvents(p) /\ JobOnly
    <2>1. /\ events' \subseteq events
          /\ \A v \in events \ events' : v.endpoint_id = job[p].endpoint
      BY <1>4 DEF DeleteEvents, EventsOf
    <2> QED
      BY <1>1, <1>4, <2>1 DEF DeleteEvents, JobOnly, OtherMove, TickGuard
  <1>5. CASE DeleteSecrets(p) /\ JobOnly
    BY <1>1, <1>5 DEF DeleteSecrets, JobOnly, OtherMove, TickGuard
  <1>6. CASE DeleteEndpoint(p) /\ JobOnly
    BY <1>6, DeleteLives DEF DeleteEndpoint, JobOnly, OtherMove, TickGuard
  <1> QED
    BY <1>2, <1>3, <1>4, <1>5, <1>6 DEF PurgeStep

LEMMA CleanupMoves ==
  ASSUME StoreInv, CleanupStep \/ (CleanupFails /\ UNCHANGED req)
  PROVE  OtherMove
PROOF
  <1>1. clock \in Nat /\ (UNCHANGED <<endpoints, clock>> => LivesOn)
    BY StoreInvParts, SameLivesOn DEF ClockOK, SameLives
  <1>2. CASE UNCHANGED <<storeVars, req>>
    BY <1>2, NothingMoves
  <1>3. CASE DeleteOldRows /\ UNCHANGED req
    <2>1. /\ events' \subseteq events
          /\ \A v \in events \ events' : v.id \in cron.rows
      BY <1>3 DEF DeleteOldRows
    <2> QED
      BY <1>1, <1>3, <2>1 DEF DeleteOldRows, Phase, OtherMove, TickGuard
  <1>4. CASE ReconcilePrivateCounts /\ UNCHANGED req
    BY <1>4, ReconcileLives DEF ReconcilePrivateCounts, OtherMove, TickGuard
  <1>5. CASE DeleteKeyBatch /\ UNCHANGED req
    <2>1. PICK batch \in Batches(cron.keys) : RemoveObjects(batch)
      BY <1>5 DEF DeleteKeyBatch
    <2>2. batch \subseteq cron.keys
      BY DEF Batches
    <2>3. objects' \subseteq objects /\ \A o \in objects \ objects' : o.key \in cron.keys
      BY <2>1, <2>2 DEF RemoveObjects
    <2> QED
      BY <1>1, <1>5, <2>3 DEF DeleteKeyBatch, Phase, OtherMove, TickGuard, d1Vars
  <1>6. CASE CleanupFails /\ UNCHANGED req
    BY <1>1, <1>6 DEF CleanupFails, OtherMove, TickGuard, d1Vars
  <1> QED
    BY <1>2, <1>3, <1>4, <1>5, <1>6
    DEF CleanupStep, StartCleanup, ListExpiredTemporary, ListExpiredPrivate, ListExpired,
        PurgeNextExpired, ListOldEvents, ListOldObjects, LookUpEvent, ScanDone,
        CleanupDeleteRefused

-----------------------------------------------------------------------------
(* Rows *)

LEMMA EventTypes ==
  ASSUME HandlerInv
  PROVE  /\ \A v \in events :
              /\ v.id \in Request /\ v.endpoint_id \in Endpoint
              /\ v.sequence \in Nat /\ v.sequence > 0 /\ v.received_at \in Nat
         /\ next_sequence \in Nat /\ clock \in Nat /\ failures \in Nat
         /\ \A o \in objects : /\ o.key \in Key /\ o.uploaded \in Nat
                               /\ o.key[1] \in Request /\ o.key[2] \in Part
                               /\ o.key = <<o.key[1], o.key[2]>>
  BY DEF HandlerInv, TypeOK, StoreTypeOK, EventRow, Object, Key

(* What is true of one row. *)
RowOK(v) ==
  /\ v.sequence < next_sequence
  /\ RowExists(v.endpoint_id)
  /\ Settled(v.id)
  /\ Accepted(v.id) => /\ req[v.id].endpoint = v.endpoint_id
                       /\ req[v.id].receivedAt = v.received_at
  /\ AmbiguousInsert \/ Accepted(v.id) \/ At(v.id, "lost")

Unique == \A v, w \in events : v.id = w.id \/ v.sequence = w.sequence => v = w

LEMMA RowsParts == Rows <=> Unique /\ \A v \in events : RowOK(v)
  BY DEF Rows, Unique, RowOK

LEMMA RowsPartsNext == Rows' <=> Unique' /\ \A v \in events' : RowOK(v)'
  BY DEF Rows, Unique, RowOK

LEMMA FrameRowExists ==
  ASSUME RequestFrame, NEW e \in Endpoint
  PROVE  /\ RowExists(e)' <=> RowExists(e)
         /\ Expired(e)' <=> Expired(e)
         /\ Readable(e)' <=> Readable(e)
         /\ endpoints'[e].status = endpoints[e].status
  BY DEF RequestFrame, SameLives, RowExists, Expired, Readable

(* A row that is there stays as true as it was. *)
LEMMA RequestRowOK ==
  ASSUME HandlerInv, NEW r \in Request, RequestMove(r), NEW v \in events, RowOK(v),
         next_sequence' >= next_sequence
  PROVE  RowOK(v)'
PROOF
  <1>1. /\ v.id \in Request /\ v.endpoint_id \in Endpoint /\ v.sequence \in Nat
        /\ next_sequence \in Nat /\ next_sequence' \in Nat
    BY EventTypes DEF HandlerInv, TypeOK, StoreTypeOK, RequestMove, Moves, Puts,
       Records, Cleans, InsertEvent
  <1>2. v.sequence < next_sequence'
    BY <1>1 DEF RowOK
  <1>3. RowExists(v.endpoint_id)'
    BY <1>1, FrameRowExists DEF RequestMove, RowOK
  <1>4. CASE v.id # r
    <2>1. req'[v.id] = req[v.id]
      BY <1>1, <1>4 DEF RequestMove, Onward
    <2> QED
      BY <1>2, <1>3, <2>1 DEF RowOK, Settled, Accepted, At
  <1>5. CASE v.id = r
    <2>1. Settled(r)'
      BY <1>5 DEF RowOK, RequestMove, Onward
    <2>2. AmbiguousInsert \/ Accepted(r)' \/ At(r, "lost")'
      BY <1>5 DEF RowOK, RequestMove, Onward
    <2>3. ~At(r, "insert")
      BY <1>5 DEF RowOK, Settled, At
    <2>4. Accepted(r)' => Accepted(r)
      BY <2>3 DEF RequestMove, Moves, Puts, Records, Cleans
    <2>5. ~(Accepted(r)' /\ At(r, "lost")')
      BY DEF Accepted, At
    <2>6. Accepted(r)' => /\ req'[r].endpoint = v.endpoint_id
                          /\ req'[r].receivedAt = v.received_at
      BY <1>5, <2>4, <2>5 DEF RowOK, RequestMove, Onward
    <2> QED
      BY <1>2, <1>3, <1>5, <2>1, <2>2, <2>6 DEF RowOK
  <1> QED
    BY <1>4, <1>5

LEMMA InsertedRow ==
  ASSUME NEW r, NEW e, NEW t, InsertEvent(r, e, t)
  PROVE  \E new : /\ events' = events \cup {new}
                  /\ new.id = r /\ new.endpoint_id = e /\ new.sequence = next_sequence
                  /\ new.received_at = t
PROOF
  <1> WITNESS [id |-> r, endpoint_id |-> e, sequence |-> next_sequence, received_at |-> t]
  <1> QED
    BY DEF InsertEvent

LEMMA RequestRows ==
  ASSUME HandlerInv, Rows, NEW r \in Request, RequestMove(r)
  PROVE  Rows'
PROOF
  <1>1. Unique /\ \A v \in events : RowOK(v)
    BY RowsParts
  <1>2. next_sequence \in Nat
    BY EventTypes
  <1>3. CASE UNCHANGED <<events, next_sequence>>
    <2>1. \A v \in events : RowOK(v)'
      BY <1>1, <1>2, <1>3, RequestRowOK
    <2>2. Unique'
      BY <1>1, <1>3 DEF Unique
    <2> QED
      BY <1>3, <2>1, <2>2, RowsPartsNext
  <1>4. CASE Records(r)
    <2>0. At(r, "insert") /\ InsertGuard(req[r].endpoint, req[r].matched)
      BY <1>4 DEF Records
    <2>2. PICK e \in Endpoint : e = req[r].endpoint
      BY <2>0 DEF HandlerInv, Bound, Running, At
    <2>5. PICK new : /\ events' = events \cup {new}
                     /\ new.id = r /\ new.endpoint_id = e /\ new.sequence = next_sequence
                     /\ new.received_at = req[r].receivedAt
      BY <1>4, <2>2, InsertedRow DEF Records
    <2>1. /\ events' = events \cup {new} /\ next_sequence' = next_sequence + 1
          /\ At(r, "insert") /\ endpoints[e].status = "active"
      BY <1>4, <2>0, <2>2, <2>5 DEF Records, InsertEvent, InsertGuard
    <2>3. \A v \in events : RowOK(v)'
      BY <1>1, <1>2, <2>1, RequestRowOK
    <2>4. \A v \in events : v.id # r /\ v.sequence < next_sequence /\ v.sequence \in Nat
      BY <1>1, <2>1, EventTypes DEF RowOK, Settled, At
    <2>6. RowExists(e)'
      BY <2>1, <2>2, FrameRowExists DEF RequestMove, RowExists
    <2>7. /\ Settled(r)'
          /\ Accepted(r)' => req'[r].endpoint = e /\ req'[r].receivedAt = req[r].receivedAt
          /\ AmbiguousInsert \/ Accepted(r)' \/ At(r, "lost")'
      BY <1>4, <2>2 DEF Records, Settled, Accepted, At
    <2>8. RowOK(new)'
      <3>1. next_sequence < next_sequence'
        BY <1>2, <2>1
      <3> QED
        BY <2>5, <2>6, <2>7, <3>1 DEF RowOK
    <2>9. Unique'
      <3>1. \A v \in events : v.id # new.id /\ v.sequence # new.sequence
        BY <1>2, <2>4, <2>5
      <3> QED
        BY <1>1, <2>1, <3>1 DEF Unique
    <2> QED
      BY <2>1, <2>3, <2>8, <2>9, RowsPartsNext
  <1> QED
    BY <1>3, <1>4 DEF RequestMove, Moves, Puts, Cleans

LEMMA OtherRows ==
  ASSUME HandlerInv, Rows, OtherMove
  PROVE  Rows'
PROOF
  <1>1. Unique /\ \A v \in events : RowOK(v)
    BY RowsParts
  <1>2. Unique' /\ events' \subseteq events /\ UNCHANGED <<req, next_sequence>>
    BY <1>1 DEF Unique, OtherMove
  <1>3. ASSUME NEW v \in events' PROVE RowOK(v)'
    <2>1. RowOK(v) /\ v.endpoint_id \in Endpoint
      BY <1>1, <1>2, EventTypes
    <2>2. RowExists(v.endpoint_id)'
      <3>1. ~(EventsOf(v.endpoint_id) = {})
        BY <1>2 DEF EventsOf
      <3> QED
        BY <2>1, <3>1 DEF RowOK, OtherMove, LivesOn
    <2> QED
      BY <1>2, <2>1, <2>2 DEF RowOK, Settled, Accepted, At
  <1> QED
    BY <1>2, <1>3, RowsPartsNext

-----------------------------------------------------------------------------
(* Causes *)

LEMMA ClosingStays ==
  ASSUME HandlerInv, LivesOn, NEW e, Closing(e)
  PROVE  Closing(e)'
PROOF
  <1>1. e \in Endpoint /\ endpoints'[e].expires_at = endpoints[e].expires_at
        /\ endpoints'[e].status # "none"
    BY DEF Closing, LivesOn
  <1>2. clock \in Nat /\ clock' \in Nat /\ endpoints[e].expires_at \in Nat
    BY <1>1 DEF HandlerInv, TypeOK, StoreTypeOK, EndpointRow, LivesOn
  <1>3. Expired(e) => Expired(e)'
    BY <1>1, <1>2 DEF Expired, LivesOn
  <1> QED
    BY <1>1, <1>3 DEF Closing, LivesOn

(* What can be read now could be read before, or was not there. *)
LEMMA ReadableBefore ==
  ASSUME HandlerInv, LivesOn, NEW e \in Endpoint, endpoints[e].status # "none", Readable(e)'
  PROVE  Readable(e)
PROOF
  <1>1. ~Closing(e)
    BY ClosingStays DEF Readable, Closing
  <1> QED
    BY <1>1 DEF Closing, Readable, HandlerInv, TypeOK, StoreTypeOK, EndpointRow

-----------------------------------------------------------------------------
(* What the purging handlers do with their lists *)

JobStarts(p) ==
  /\ job'[p].pc = "list" /\ job'[p].cursor = 0
  /\ \E e \in Endpoint : job'[p].endpoint = e /\ Closing(e)'

JobEnds(p) ==
  \/ job'[p].pc \in {"idle", "addSecret", "revokeSecret"}
  \/ /\ job'[p].pc = "disable" /\ job'[p].endpoint \in Endpoint /\ job'[p].cursor = 0
  \/ /\ job'[p].pc \in {"secrets", "endpoint"} /\ Purging(p)
     /\ job'[p].endpoint = job[p].endpoint

JobLists(p) ==
  LET page == PageAfter(EventsOf(job[p].endpoint), job[p].cursor, PageSize) IN
  /\ job[p].pc = "list" /\ job'[p].endpoint = job[p].endpoint
  /\ UNCHANGED <<storeVars, req>>
  /\ \/ page = {} /\ job'[p].pc = "events"
     \/ \E last \in LastRow(page) :
          /\ job'[p].pc = "objects" /\ job'[p].keys = KeysOf(page)
          /\ job'[p].cursor = last.sequence

JobSweeps(p) ==
  /\ Doing(p, "objects") /\ job'[p].endpoint = job[p].endpoint
  /\ job'[p].cursor = job[p].cursor
  /\ \E batch \in SUBSET job[p].keys :
       /\ RemoveObjects(batch) /\ job'[p].keys = job[p].keys \ batch
       /\ job'[p].pc = (IF batch = job[p].keys THEN "list" ELSE "objects")

JobChange(p) ==
  /\ \A x \in Job \ {p} : job'[x] = job[x]
  /\ JobStarts(p) \/ JobEnds(p) \/ JobLists(p) \/ JobSweeps(p)

LEMMA JobBecomeShape ==
  ASSUME PurgeTypeOK, NEW p \in Job, NEW j, JobBecome(p, j)
  PROVE  job'[p] = j /\ \A x \in Job \ {p} : job'[x] = job[x]
  BY DEF PurgeTypeOK, JobBecome

LEMMA EndJobChange ==
  ASSUME PurgeTypeOK, NEW p \in Job, EndJob(p)
  PROVE  JobChange(p)
PROOF
  <1>1. NoJob.pc = "idle"
    BY DEF NoJob
  <1>2. job'[p] = NoJob /\ \A x \in Job \ {p} : job'[x] = job[x]
    BY JobBecomeShape DEF EndJob
  <1> QED
    BY <1>1, <1>2 DEF JobChange, JobEnds

LEMMA PurgeChange ==
  ASSUME HandlerInv, JobCauses, NEW p \in Job, PurgeStep(p)
  PROVE  JobChange(p)
PROOF
  <1>t. PurgeTypeOK /\ job[p] \in JobState
    BY DEF HandlerInv, TypeOK, PurgeTypeOK
  <1>g. ASSUME NEW pc, JobGoto(p, pc)
        PROVE  /\ job'[p].pc = pc /\ job'[p].endpoint = job[p].endpoint
               /\ \A x \in Job \ {p} : job'[x] = job[x]
    <2> DEFINE next == [job[p] EXCEPT !.pc = pc]
    <2>1. next.pc = pc /\ next.endpoint = job[p].endpoint
      BY <1>t DEF JobState
    <2>2. JobBecome(p, next)
      BY <1>g DEF JobGoto
    <2> HIDE DEF next
    <2> QED
      BY <1>t, <2>1, <2>2, JobBecomeShape
  <1>1. CASE ListObjectKeys(p) /\ JobOnly
    <2> DEFINE page == PageAfter(EventsOf(job[p].endpoint), job[p].cursor, PageSize)
    <2>1. job[p].pc = "list" /\ UNCHANGED <<storeVars, req>>
      BY <1>1 DEF ListObjectKeys, Doing, JobOnly
    <2>2. CASE page = {}
      <3>1. JobGoto(p, "events")
        BY <1>1, <2>2 DEF ListObjectKeys
      <3> QED
        BY <1>g, <2>1, <2>2, <3>1 DEF JobChange, JobLists
    <2>3. CASE page # {}
      <3>1. PICK last \in LastRow(page) :
              JobBecome(p, [job[p] EXCEPT !.pc = "objects", !.keys = KeysOf(page),
                                          !.cursor = last.sequence])
        BY <1>1, <2>3 DEF ListObjectKeys
      <3> DEFINE next == [job[p] EXCEPT !.pc = "objects", !.keys = KeysOf(page),
                                        !.cursor = last.sequence]
      <3>2. /\ next.pc = "objects" /\ next.keys = KeysOf(page) /\ next.cursor = last.sequence
            /\ next.endpoint = job[p].endpoint
        BY <1>t DEF JobState
      <3>3. JobBecome(p, next)
        BY <3>1
      <3> HIDE DEF next
      <3>4. job'[p] = next /\ \A x \in Job \ {p} : job'[x] = job[x]
        BY <1>t, <3>3, JobBecomeShape
      <3> QED
        BY <2>1, <3>2, <3>4 DEF JobChange, JobLists
    <2> QED
      BY <2>2, <2>3
  <1>2. CASE DeleteObjectBatch(p) /\ JobOnly
    <2>1. PICK batch \in Batches(job[p].keys) :
            /\ RemoveObjects(batch)
            /\ JobBecome(p, [job[p] EXCEPT !.keys = job[p].keys \ batch,
                                           !.pc = IF batch = job[p].keys THEN "list"
                                                  ELSE "objects"])
      BY <1>2 DEF DeleteObjectBatch
    <2> DEFINE next == [job[p] EXCEPT !.keys = job[p].keys \ batch,
                                      !.pc = IF batch = job[p].keys THEN "list"
                                             ELSE "objects"]
    <2>2. /\ next.pc = (IF batch = job[p].keys THEN "list" ELSE "objects")
          /\ next.keys = job[p].keys \ batch /\ next.cursor = job[p].cursor
          /\ next.endpoint = job[p].endpoint
      BY <1>t DEF JobState
    <2>3. JobBecome(p, next)
      BY <2>1
    <2> HIDE DEF next
    <2>4. job'[p] = next /\ \A x \in Job \ {p} : job'[x] = job[x]
      BY <1>t, <2>3, JobBecomeShape
    <2>5. batch \in SUBSET job[p].keys /\ Doing(p, "objects")
      BY <1>2 DEF Batches, DeleteObjectBatch
    <2>6. JobSweeps(p)
      BY <2>1, <2>2, <2>4, <2>5 DEF JobSweeps
    <2> QED
      BY <2>4, <2>6 DEF JobChange
  <1>3. CASE (DeleteEvents(p) \/ DeleteSecrets(p)) /\ JobOnly
    <2>1. Purging(p) /\ \E pc \in {"secrets", "endpoint"} : JobGoto(p, pc)
      BY <1>3 DEF DeleteEvents, DeleteSecrets, Purging, Doing
    <2> QED
      BY <1>g, <2>1 DEF JobChange, JobEnds
  <1>4. CASE DeleteEndpoint(p) /\ JobOnly
    BY <1>t, <1>4, EndJobChange DEF DeleteEndpoint
  <1> QED
    BY <1>1, <1>2, <1>3, <1>4 DEF PurgeStep

LEMMA OwnerChange ==
  ASSUME HandlerInv, JobCauses, NEW o \in Owner, OwnerStep(o)
  PROVE  JobChange(o)
PROOF
  <1>t. PurgeTypeOK /\ o \in Job /\ job[o] \in JobState /\ EndpointsOK
    BY DEF HandlerInv, TypeOK, PurgeTypeOK, Job, StoreTypeOK, EndpointsOK
  <1>1. CASE \E e \in PrivEndpoint : FindForDelete(o, e)
    <2>1. PICK e \in PrivEndpoint : FindForDelete(o, e)
      BY <1>1
    <2> DEFINE next == [NoJob EXCEPT !.endpoint = e,
                                     !.pc = IF endpoints[e].status = "active"
                                            THEN "disable" ELSE "list"]
    <2>2. /\ next.endpoint = e /\ next.cursor = 0
          /\ next.pc = IF endpoints[e].status = "active" THEN "disable" ELSE "list"
      BY DEF NoJob
    <2>3. JobBecome(o, next) /\ RowExists(e) /\ UNCHANGED endpoints
      BY <2>1 DEF FindForDelete, storeVars, d1Vars
    <2> HIDE DEF next
    <2>4. job'[o] = next /\ \A x \in Job \ {o} : job'[x] = job[x]
      BY <1>t, <2>3, JobBecomeShape
    <2>5. e \in Endpoint
      BY DEF Endpoint
    <2>6. endpoints[e].status # "active" => Closing(e)'
      BY <2>3, <2>5 DEF RowExists, Closing
    <2>7. endpoints[e].status # "active" => JobStarts(o)
      BY <2>2, <2>4, <2>5, <2>6 DEF JobStarts
    <2> QED
      BY <2>2, <2>4, <2>5, <2>7 DEF JobChange, JobEnds
  <1>2. CASE DisableEndpoint(o)
    <2>1. PICK e \in Endpoint : e = job[o].endpoint
      BY <1>t, <1>2 DEF JobCauses, DisableEndpoint
    <2>2. CASE endpoints[e].status = "active"
      <3> DEFINE next == [job[o] EXCEPT !.pc = "list"]
      <3>1. /\ JobBecome(o, next) /\ job[o].cursor = 0
            /\ endpoints' = [endpoints EXCEPT ![e].status = "disabled"]
        BY <1>t, <1>2, <2>1, <2>2 DEF DisableEndpoint, JobGoto, JobCauses
      <3>2. next.pc = "list" /\ next.endpoint = e /\ next.cursor = job[o].cursor
        BY <1>t, <2>1 DEF JobState
      <3> HIDE DEF next
      <3>3. job'[o] = next /\ \A x \in Job \ {o} : job'[x] = job[x]
        BY <1>t, <3>1, JobBecomeShape
      <3>4. Closing(e)'
        BY <1>t, <3>1 DEF EndpointsOK, EndpointRow, Closing
      <3>5. JobStarts(o)
        BY <3>1, <3>2, <3>3, <3>4 DEF JobStarts
      <3> QED
        BY <3>3, <3>5 DEF JobChange
    <2>3. CASE endpoints[e].status # "active"
      BY <1>t, <1>2, <2>1, <2>3, EndJobChange DEF DisableEndpoint
    <2> QED
      BY <2>2, <2>3
  <1>3. CASE \E e \in PrivEndpoint, s \in Secret :
               FindForCreateSecret(o, e, s) \/ FindForRevokeSecret(o, e, s)
    <2>1. PICK e \in PrivEndpoint, s \in Secret, pc \in {"addSecret", "revokeSecret"} :
            JobBecome(o, [NoJob EXCEPT !.endpoint = e, !.secret = s, !.pc = pc])
      BY <1>3 DEF FindForCreateSecret, FindForRevokeSecret, FindForSecret
    <2> DEFINE next == [NoJob EXCEPT !.endpoint = e, !.secret = s, !.pc = pc]
    <2>2. next.pc = pc
      BY DEF NoJob
    <2>3. JobBecome(o, next)
      BY <2>1
    <2> HIDE DEF next
    <2>4. job'[o] = next /\ \A x \in Job \ {o} : job'[x] = job[x]
      BY <1>t, <2>3, JobBecomeShape
    <2> QED
      BY <2>2, <2>4 DEF JobChange, JobEnds
  <1>4. CASE \/ CreateEndpointSecret(o) \/ RevokeEndpointSecret(o)
             \/ OwnerRequestFails(o) \/ OwnerDeleteRefused(o)
    BY <1>t, <1>4, EndJobChange
    DEF CreateEndpointSecret, RevokeEndpointSecret, OwnerRequestFails, OwnerDeleteRefused
  <1> QED
    BY <1>1, <1>2, <1>3, <1>4 DEF OwnerStep

(* A step of the cleanup starts a purge of a listed endpoint, ends its own, *)
(* or leaves the purging handlers alone.                                    *)
LEMMA CleanupChange ==
  ASSUME HandlerInv, CronCauses, CleanupStep \/ CleanupFails
  PROVE  JobChange(Cron) \/ UNCHANGED job
PROOF
  <1>t. PurgeTypeOK /\ Cron \in Job
    BY DEF HandlerInv, TypeOK, Job
  <1>1. CASE \E e \in Endpoint : PurgeNextExpired(e)
    <2>1. PICK e \in Endpoint : PurgeNextExpired(e)
      BY <1>1
    <2> DEFINE next == [NoJob EXCEPT !.pc = "list", !.endpoint = e]
    <2>2. next.pc = "list" /\ next.endpoint = e /\ next.cursor = 0
      BY DEF NoJob
    <2>3. JobBecome(Cron, next) /\ e \in cron.page /\ UNCHANGED storeVars
      BY <2>1 DEF PurgeNextExpired, StartPurge
    <2> HIDE DEF next
    <2>4. job'[Cron] = next /\ \A x \in Job \ {Cron} : job'[x] = job[x]
      BY <1>t, <2>3, JobBecomeShape
    <2>5. Closing(e)'
      <3>1. Closing(e)
        BY <2>3 DEF CronCauses
      <3> QED
        BY <2>3, <3>1 DEF Closing, Expired, storeVars, d1Vars
    <2>6. JobStarts(Cron)
      BY <2>2, <2>4, <2>5 DEF JobStarts
    <2> QED
      BY <2>4, <2>6 DEF JobChange
  <1>2. CASE CleanupFails \/ CleanupDeleteRefused
    BY <1>t, <1>2, EndJobChange DEF CleanupFails, CleanupDeleteRefused
  <1> QED
    BY <1>1, <1>2
    DEF CleanupStep, StartCleanup, ListExpiredTemporary, ListExpiredPrivate, ListExpired,
        ListOldEvents, DeleteOldRows, ReconcilePrivateCounts, ListOldObjects, LookUpEvent,
        ScanDone, DeleteKeyBatch

-----------------------------------------------------------------------------
(* Pages *)

(* A set of naturals that is not empty has a least element. *)
LEMMA Least ==
  ASSUME NEW T, T \subseteq Nat, T # {}
  PROVE  \E m \in T : \A n \in T : m <= n
PROOF
  <1> DEFINE R == OpToRel(<, Nat)
  <1>1. IsWellFoundedOn(R, Nat)
    BY NatLessThanWellFounded
  <1>2. \A m, n \in Nat : <<n, m>> \notin R => m <= n
    BY DEF OpToRel
  <1> HIDE DEF R
  <1>3. \E m \in T : \A n \in T : ~(<<n, m>> \in R)
    BY <1>1, WFMin
  <1> QED
    BY <1>2, <1>3

(* What follows the cursor and precedes a row of the page is in the page. *)
LEMMA PageCloses ==
  ASSUME NEW S, IsFiniteSet(S), \A v \in S : v.sequence \in Nat,
         NEW cursor \in Nat, NEW n \in Nat, NEW last \in PageAfter(S, cursor, n),
         NEW v \in S, v.sequence > cursor, v.sequence <= last.sequence
  PROVE  v \in PageAfter(S, cursor, n)
PROOF
  <1> DEFINE upto(x) == {w \in S : w.sequence > cursor /\ w.sequence <= x.sequence}
  <1>1. last \in S /\ Cardinality(upto(last)) <= n
    BY DEF PageAfter
  <1>2. upto(v) \subseteq upto(last) /\ upto(last) \subseteq S
    BY <1>1
  <1>3. IsFiniteSet(upto(last)) /\ IsFiniteSet(upto(v))
    BY <1>2, SubsetCard
  <1>4. /\ Cardinality(upto(v)) \in Nat /\ Cardinality(upto(last)) \in Nat
        /\ Cardinality(upto(v)) <= Cardinality(upto(last))
    BY <1>2, <1>3, SubsetCard
  <1>5. Cardinality(upto(v)) <= n
    BY <1>1, <1>4
  <1> QED
    BY <1>5 DEF PageAfter

(* The page is empty only when nothing follows the cursor. *)
LEMMA PageEmpty ==
  ASSUME NEW S, \A v \in S : v.sequence \in Nat,
         \A v, w \in S : v.sequence = w.sequence => v = w,
         NEW cursor \in Nat, NEW n \in Nat \ {0}, PageAfter(S, cursor, n) = {},
         NEW v \in S
  PROVE  v.sequence <= cursor
PROOF
  <1> SUFFICES ASSUME v.sequence > cursor PROVE FALSE
    OBVIOUS
  <1> DEFINE T == {w.sequence : w \in {x \in S : x.sequence > cursor}}
  <1>1. T \subseteq Nat /\ T # {}
    OBVIOUS
  <1>2. PICK m \in T : \A k \in T : m <= k
    BY <1>1, Least
  <1>3. PICK first \in S : first.sequence = m /\ first.sequence > cursor
    BY <1>2
  <1> DEFINE upto == {w \in S : w.sequence > cursor /\ w.sequence <= first.sequence}
  <1>4. upto = {first}
    BY <1>2, <1>3
  <1>5. Cardinality(upto) = 1
    BY <1>4, FS_Singleton
  <1>6. first \in PageAfter(S, cursor, n)
    BY <1>3, <1>5 DEF PageAfter
  <1> QED
    BY <1>6

(* A key that was listed belongs to a row of the page. *)
LEMMA KeyOfPage ==
  ASSUME NEW S, NEW cursor, NEW n, NEW k \in KeysOf(PageAfter(S, cursor, n))
  PROVE  \E w \in S : w.id = k[1] /\ w \in PageAfter(S, cursor, n)
  BY DEF KeysOf, PageAfter

-----------------------------------------------------------------------------
(* The lists of the purging handlers *)

LEMMA JobCausesNext ==
  ASSUME HandlerInv, JobCauses, LivesOn, NEW p \in Job, JobChange(p) \/ UNCHANGED job
  PROVE  JobCauses'
PROOF
  <1>1. ASSUME NEW q \in Job, NEW e, e = job'[q].endpoint, Purging(q)'
        PROVE  Closing(e)'
    <2>1. CASE Purging(q) /\ e = job[q].endpoint
      BY <2>1, ClosingStays DEF JobCauses
    <2>2. CASE JobStarts(q)
      BY <1>1, <2>2 DEF JobStarts
    <2>3. CASE JobEnds(q)
      BY <1>1, <2>1, <2>3 DEF JobEnds, Purging
    <2>4. CASE JobLists(q) \/ JobSweeps(q)
      BY <1>1, <2>1, <2>4 DEF JobLists, JobSweeps, Purging, Doing
    <2>5. CASE job'[q] = job[q]
      BY <1>1, <2>1, <2>5 DEF Purging
    <2> QED
      BY <2>2, <2>3, <2>4, <2>5 DEF JobChange
  <1>2. ASSUME NEW q \in Job, Doing(q, "disable")'
        PROVE  job'[q].endpoint \in Endpoint /\ job'[q].cursor = 0
    <2>1. CASE JobStarts(q) \/ JobLists(q) \/ JobSweeps(q)
      BY <1>2, <2>1 DEF JobStarts, JobLists, JobSweeps, Doing
    <2>2. CASE JobEnds(q)
      BY <1>2, <2>2 DEF JobEnds, Doing
    <2>3. CASE job'[q] = job[q]
      BY <1>2, <2>3 DEF JobCauses, Doing
    <2> QED
      BY <2>1, <2>2, <2>3 DEF JobChange
  <1> QED
    BY <1>1, <1>2 DEF JobCauses

LEMMA JobListedNext ==
  ASSUME HandlerInv, Rows, JobListed, OtherMove, NEW p \in Job,
         JobChange(p) \/ UNCHANGED job
  PROVE  JobListed'
PROOF
  <1>1. events' \subseteq events /\ UNCHANGED req
    BY DEF OtherMove
  <1>2. ASSUME NEW q \in Job, Doing(q, "objects")', NEW k \in job'[q].keys,
               NEW v \in events', v.id = k[1]
        PROVE  v.endpoint_id = job'[q].endpoint
    <2>1. CASE Doing(q, "objects") /\ k \in job[q].keys /\ job'[q].endpoint = job[q].endpoint
      BY <1>1, <1>2, <2>1 DEF JobListed
    <2>2. CASE JobStarts(q) \/ JobEnds(q)
      BY <1>2, <2>2 DEF JobStarts, JobEnds, Doing
    <2>3. CASE JobLists(q)
      <3>1. PICK w \in EventsOf(job[q].endpoint) : w.id = k[1]
        BY <1>2, <2>3, KeyOfPage DEF JobLists, Doing
      <3> QED
        BY <1>1, <1>2, <2>3, <3>1 DEF Rows, EventsOf, JobLists
    <2>4. CASE JobSweeps(q)
      BY <1>2, <2>1, <2>4 DEF JobSweeps
    <2>5. CASE job'[q] = job[q]
      BY <1>2, <2>1, <2>5 DEF Doing
    <2> QED
      BY <2>2, <2>3, <2>4, <2>5 DEF JobChange
  <1>3. ASSUME NEW q \in Job, Doing(q, "objects")', NEW k \in job'[q].keys
        PROVE  Past(k[1])
    <2>1. CASE Doing(q, "objects") /\ k \in job[q].keys
      BY <2>1 DEF JobListed
    <2>2. CASE JobStarts(q) \/ JobEnds(q)
      BY <1>3, <2>2 DEF JobStarts, JobEnds, Doing
    <2>3. CASE JobLists(q)
      <3>1. PICK w \in EventsOf(job[q].endpoint) : w.id = k[1]
        BY <1>3, <2>3, KeyOfPage DEF JobLists, Doing
      <3> QED
        BY <3>1 DEF Rows, EventsOf, Settled, Past
    <2>4. CASE JobSweeps(q)
      BY <1>3, <2>1, <2>4 DEF JobSweeps
    <2>5. CASE job'[q] = job[q]
      BY <1>3, <2>1, <2>5 DEF Doing
    <2> QED
      BY <2>2, <2>3, <2>4, <2>5 DEF JobChange
  <1> QED
    BY <1>1, <1>2, <1>3 DEF JobListed, Past

LEMMA JobSweptNext ==
  ASSUME HandlerInv, Rows, JobCauses, JobSwept, OtherMove, NEW p \in Job,
         JobChange(p) \/ UNCHANGED job
  PROVE  JobSwept'
PROOF
  <1>1. events' \subseteq events /\ objects' \subseteq objects
    BY DEF OtherMove
  <1>s. \A k : Stored(k)' => Stored(k)
    BY <1>1 DEF Stored
  <1>c. job \in [Job -> JobState]
    BY DEF HandlerInv, TypeOK, PurgeTypeOK
  <1>2. ASSUME NEW q \in Job, job'[q].pc \in {"list", "objects", "events"},
               NEW v \in events', v.endpoint_id = job'[q].endpoint,
               ~Expired(v.endpoint_id)', Doing(q, "events")' \/ v.sequence <= job'[q].cursor,
               NEW part \in Part, Stored(<<v.id, part>>)'
        PROVE  Doing(q, "objects")' /\ <<v.id, part>> \in job'[q].keys
    <2>v. /\ v \in events /\ v.endpoint_id \in Endpoint /\ v.sequence \in Nat /\ v.sequence > 0
          /\ Stored(<<v.id, part>>) /\ RowExists(v.endpoint_id)
      BY <1>1, <1>2, <1>s, EventTypes DEF Rows
    <2>x. ~Expired(v.endpoint_id)
      <3>1. endpoints'[v.endpoint_id].expires_at = endpoints[v.endpoint_id].expires_at
        BY <2>v DEF OtherMove, LivesOn, RowExists
      <3>2. clock \in Nat /\ clock' \in Nat /\ clock <= clock'
            /\ endpoints[v.endpoint_id].expires_at \in Nat
        BY <2>v DEF OtherMove, LivesOn, HandlerInv, TypeOK, StoreTypeOK, EndpointRow
      <3> QED
        BY <1>2, <3>1, <3>2 DEF Expired
    <2>u. ASSUME job[q].pc \in {"list", "objects", "events"}, v.endpoint_id = job[q].endpoint,
                 Doing(q, "events") \/ v.sequence <= job[q].cursor
          PROVE  Doing(q, "objects") /\ <<v.id, part>> \in job[q].keys
      BY <2>u, <2>v, <2>x DEF JobSwept, EventsOf
    <2>1. CASE JobStarts(q)
      BY <1>2, <2>1, <2>v DEF JobStarts, Doing
    <2>2. CASE JobEnds(q)
      BY <1>2, <2>2 DEF JobEnds
    <2>3. CASE JobLists(q)
      <3> DEFINE S == EventsOf(job[q].endpoint)
                 page == PageAfter(S, job[q].cursor, PageSize)
      <3>1. /\ v \in S /\ IsFiniteSet(S) /\ job[q].cursor \in Nat
            /\ \A w \in S : w.sequence \in Nat
            /\ \A w, x \in S : w.sequence = x.sequence => w = x
        BY <1>2, <1>c, <2>3, <2>v, EventTypes, EventsOfFinite
           DEF JobLists, EventsOf, HandlerInv, Rows, JobState
      <3>2. ~(v.sequence <= job[q].cursor)
        BY <1>2, <2>3, <2>u DEF JobLists, Doing
      <3>3. CASE page = {}
        BY <3>1, <3>2, <3>3, PageEmpty, PurgeAssumption
      <3>4. CASE page # {}
        <4>1. PICK last \in LastRow(page) :
                /\ job'[q].pc = "objects" /\ job'[q].keys = KeysOf(page)
                /\ job'[q].cursor = last.sequence
          BY <2>3, <3>4 DEF JobLists
        <4>2. last \in page /\ v.sequence <= last.sequence
          BY <1>2, <4>1 DEF LastRow, Doing
        <4> HIDE DEF S
        <4>3. v \in page
          BY <3>1, <3>2, <4>2, PageCloses, PurgeAssumption
        <4> QED
          BY <4>1, <4>3 DEF KeysOf, Doing
      <3> QED
        BY <3>3, <3>4
    <2>4. CASE JobSweeps(q)
      <3>1. Doing(q, "objects") /\ <<v.id, part>> \in job[q].keys
        <4>1. v.sequence <= job[q].cursor
          BY <1>2, <2>4 DEF JobSweeps, Doing
        <4> QED
          BY <1>2, <2>4, <2>u, <4>1 DEF JobSweeps, Doing
      <3>2. PICK batch \in SUBSET job[q].keys :
              /\ RemoveObjects(batch) /\ job'[q].keys = job[q].keys \ batch
              /\ job'[q].pc = (IF batch = job[q].keys THEN "list" ELSE "objects")
        BY <2>4 DEF JobSweeps
      <3>3. <<v.id, part>> \notin batch
        BY <1>2, <3>2 DEF Stored, RemoveObjects
      <3> QED
        BY <3>1, <3>2, <3>3 DEF Doing
    <2>5. CASE job'[q] = job[q]
      BY <1>2, <2>5, <2>u DEF Doing
    <2> QED
      BY <2>1, <2>2, <2>3, <2>4, <2>5 DEF JobChange
  <1> QED
    BY <1>2 DEF JobSwept, EventsOf

-----------------------------------------------------------------------------
(* What the cleanup does with its lists *)

CronResets ==
  /\ cron'.phase \in {"off", "temporary"} /\ cron'.now <= clock'
  /\ cron'.page = {} /\ cron'.rows = {} /\ cron'.scan = {} /\ cron'.keys = {}

CronPages ==
  /\ UNCHANGED <<events, objects>>
  /\ cron'.now = cron.now /\ cron'.rows = cron.rows /\ cron'.scan = cron.scan
  /\ cron'.keys = cron.keys
  /\ \/ cron'.phase = cron.phase
     \/ {cron.phase, cron'.phase} \subseteq {"temporary", "private", "old", "reconcile"}
     \/ cron.phase = "reconcile" /\ cron'.phase = "list"
     \/ cron.phase = "exists" /\ cron'.phase = "list"
     \/ cron.phase = "list" /\ cron'.phase = "orphans"
  /\ \A e \in cron'.page : e \in cron.page \/
       (e \in Endpoint /\ RowExists(e) /\ endpoints[e].expires_at <= cron.now)

CronListsOld ==
  LET page == PageAfter(OldPrivateEvents, cron.cursor, PageSize) IN
  /\ UNCHANGED <<events, objects>>
  /\ cron.phase = "old" /\ cron'.phase = "oldObjects"
  /\ cron'.keys = KeysOf(page) /\ cron'.rows = {v.id : v \in page}
  /\ cron'.now = cron.now /\ cron'.page = cron.page /\ cron'.scan = cron.scan

CronDeletesRows ==
  /\ cron.phase = "oldRows" /\ cron'.phase = "old"
  /\ cron'.rows = {} /\ cron'.keys = cron.keys
  /\ cron'.now = cron.now /\ cron'.page = cron.page /\ cron'.scan = cron.scan

CronLists ==
  /\ UNCHANGED <<events, objects>>
  /\ cron.phase = "list" /\ cron'.phase = "exists"
  /\ cron'.scan \subseteq OldObjects
  /\ cron'.now = cron.now /\ cron'.page = cron.page /\ cron'.rows = cron.rows
  /\ cron'.keys = cron.keys

CronLooksUp ==
  /\ UNCHANGED <<events, objects>>
  /\ cron.phase = "exists" /\ cron'.phase = "exists"
  /\ \E k \in cron.scan :
       /\ cron'.scan = cron.scan \ {k}
       /\ cron'.keys = IF HasEvent(k[1]) THEN cron.keys ELSE cron.keys \cup {k}
  /\ cron'.now = cron.now /\ cron'.page = cron.page /\ cron'.rows = cron.rows

CronSweeps ==
  /\ UNCHANGED events
  /\ cron.phase \in {"oldObjects", "orphans"}
  /\ \E batch \in SUBSET cron.keys :
       /\ RemoveObjects(batch) /\ cron'.keys = cron.keys \ batch
       /\ \/ cron'.phase = cron.phase
          \/ cron'.keys = {} /\ cron.phase = "oldObjects" /\ cron'.phase = "oldRows"
  /\ cron'.now = cron.now /\ cron'.page = cron.page /\ cron'.rows = cron.rows
  /\ cron'.scan = cron.scan

CronChange ==
  \/ CronResets \/ CronPages \/ CronListsOld \/ CronDeletesRows \/ CronLists
  \/ CronLooksUp \/ CronSweeps

LEMMA CleanupCron ==
  ASSUME HandlerInv, CleanupStep \/ CleanupFails
  PROVE  CronChange
PROOF
  <1>t. cron \in CronState /\ clock \in Nat /\ \A e \in Endpoint : endpoints[e] \in EndpointRow
    BY DEF HandlerInv, TypeOK, RetentionTypeOK, StoreTypeOK
  <1>o. /\ CronOff.phase = "off" /\ CronOff.now = 0
        /\ CronOff.page = {} /\ CronOff.rows = {} /\ CronOff.scan = {} /\ CronOff.keys = {}
    BY DEF CronOff
  <1>r. ASSUME cron' = CronOff, UNCHANGED clock PROVE CronChange
    BY <1>t, <1>r, <1>o DEF CronChange, CronResets
  <1>g. ASSUME NEW ph, CronGoto(ph)
        PROVE  /\ cron'.phase = ph /\ cron'.now = cron.now /\ cron'.page = cron.page
               /\ cron'.rows = cron.rows /\ cron'.scan = cron.scan /\ cron'.keys = cron.keys
    BY <1>t, <1>g DEF CronGoto, CronState
  <1>1. CASE StartCleanup
    <2>1. /\ cron'.phase = "temporary" /\ cron'.now = clock /\ cron'.page = {}
          /\ cron'.rows = {} /\ cron'.scan = {} /\ cron'.keys = {} /\ UNCHANGED clock
      BY <1>1 DEF StartCleanup, CronOff, storeVars
    <2> QED
      BY <1>t, <2>1 DEF CronChange, CronResets
  <1>2. ASSUME NEW ph \in {"temporary", "private"}, NEW next \in {"private", "old"},
               NEW S \in {TempEndpoint, PrivEndpoint}, ListExpired(ph, S, next)
        PROVE  CronChange
    <2>1. cron.phase = ph /\ UNCHANGED <<events, objects>>
      BY <1>2 DEF ListExpired, Phase, storeVars, d1Vars
    <2>2. CASE CronGoto(next)
      BY <1>g, <2>1, <2>2 DEF CronChange, CronPages
    <2>3. CASE \E page \in SUBSET ExpiredOf(S) : cron' = [cron EXCEPT !.page = page]
      <3>1. PICK page \in SUBSET ExpiredOf(S) : cron' = [cron EXCEPT !.page = page]
        BY <2>3
      <3>2. /\ cron'.phase = cron.phase /\ cron'.now = cron.now /\ cron'.page = page
            /\ cron'.rows = cron.rows /\ cron'.scan = cron.scan /\ cron'.keys = cron.keys
        BY <1>t, <3>1 DEF CronState
      <3> QED
        BY <2>1, <3>2 DEF CronChange, CronPages, ExpiredOf, Endpoint
    <2> QED
      BY <1>2, <2>2, <2>3 DEF ListExpired
  <1>3. CASE \E e \in Endpoint : PurgeNextExpired(e)
    <2>1. PICK e \in Endpoint : cron' = [cron EXCEPT !.page = cron.page \ {e}]
      BY <1>3 DEF PurgeNextExpired
    <2>2. /\ cron'.phase = cron.phase /\ cron'.now = cron.now /\ cron'.page = cron.page \ {e}
          /\ cron'.rows = cron.rows /\ cron'.scan = cron.scan /\ cron'.keys = cron.keys
      BY <1>t, <2>1 DEF CronState
    <2>3. UNCHANGED <<events, objects>>
      BY <1>3 DEF PurgeNextExpired, storeVars, d1Vars
    <2> QED
      BY <2>2, <2>3 DEF CronChange, CronPages
  <1>4. CASE ListOldEvents
    <2> DEFINE page == PageAfter(OldPrivateEvents, cron.cursor, PageSize)
    <2>1. cron.phase = "old" /\ UNCHANGED <<events, objects>>
      BY <1>4 DEF ListOldEvents, Phase, storeVars, d1Vars
    <2>2. CASE CronGoto("reconcile")
      BY <1>g, <2>1, <2>2 DEF CronChange, CronPages
    <2>3. CASE ~CronGoto("reconcile")
      <3>1. PICK last \in LastRow(page) :
              cron' = [cron EXCEPT !.phase = "oldObjects", !.keys = KeysOf(page),
                                   !.rows = {v.id : v \in page}, !.cursor = last.sequence]
        BY <1>4, <2>3 DEF ListOldEvents
      <3>2. /\ cron'.phase = "oldObjects" /\ cron'.now = cron.now /\ cron'.page = cron.page
            /\ cron'.rows = {v.id : v \in page} /\ cron'.scan = cron.scan
            /\ cron'.keys = KeysOf(page)
        BY <1>t, <3>1 DEF CronState
      <3> QED
        BY <2>1, <3>2 DEF CronChange, CronListsOld
    <2> QED
      BY <2>2, <2>3
  <1>5. CASE DeleteOldRows
    <2>1. cron.phase = "oldRows" /\ cron' = [cron EXCEPT !.phase = "old", !.rows = {}]
      BY <1>5 DEF DeleteOldRows, Phase
    <2>2. /\ cron'.phase = "old" /\ cron'.now = cron.now /\ cron'.page = cron.page
          /\ cron'.rows = {} /\ cron'.scan = cron.scan /\ cron'.keys = cron.keys
      BY <1>t, <2>1 DEF CronState
    <2> QED
      BY <2>1, <2>2 DEF CronChange, CronDeletesRows
  <1>6. CASE ReconcilePrivateCounts
    <2>1. cron.phase = "reconcile" /\ CronGoto("list") /\ UNCHANGED <<events, objects>>
      BY <1>6 DEF ReconcilePrivateCounts, Phase
    <2> QED
      BY <1>g, <2>1 DEF CronChange, CronPages
  <1>7. CASE ListOldObjects
    <2>1. cron.phase = "list" /\ UNCHANGED <<events, objects, clock>>
      BY <1>7 DEF ListOldObjects, Phase, storeVars, d1Vars
    <2>2. \/ cron' = CronOff \/ CronGoto("orphans")
          \/ \E page \in SUBSET OldObjects :
               cron' = [cron EXCEPT !.phase = "exists", !.scan = page,
                                    !.listed = cron.listed \cup page]
      BY <1>7 DEF ListOldObjects
    <2>3. CASE CronGoto("orphans")
      BY <1>g, <2>1, <2>3 DEF CronChange, CronPages
    <2>4. ASSUME NEW page \in SUBSET OldObjects,
                 cron' = [cron EXCEPT !.phase = "exists", !.scan = page,
                                      !.listed = cron.listed \cup page]
          PROVE  CronChange
      <3>1. /\ cron'.phase = "exists" /\ cron'.now = cron.now /\ cron'.page = cron.page
            /\ cron'.rows = cron.rows /\ cron'.scan = page /\ cron'.keys = cron.keys
        BY <1>t, <2>4 DEF CronState
      <3> QED
        BY <2>1, <3>1 DEF CronChange, CronLists
    <2> QED
      BY <1>r, <2>1, <2>2, <2>3, <2>4
  <1>8. CASE \E k \in Key : LookUpEvent(k)
    <2>1. PICK k \in cron.scan :
            cron' = [cron EXCEPT !.scan = cron.scan \ {k},
                                 !.keys = IF HasEvent(k[1]) THEN cron.keys
                                          ELSE cron.keys \cup {k}]
      BY <1>8 DEF LookUpEvent
    <2>2. cron.phase = "exists" /\ UNCHANGED <<events, objects>>
      BY <1>8 DEF LookUpEvent, Phase, storeVars, d1Vars
    <2> DEFINE keys == IF HasEvent(k[1]) THEN cron.keys ELSE cron.keys \cup {k}
    <2>3. /\ cron'.phase = cron.phase /\ cron'.now = cron.now /\ cron'.page = cron.page
          /\ cron'.rows = cron.rows /\ cron'.scan = cron.scan \ {k} /\ cron'.keys = keys
      BY <1>t, <2>1 DEF CronState
    <2> QED
      BY <2>2, <2>3 DEF CronChange, CronLooksUp
  <1>9. CASE ScanDone
    <2>1. /\ cron.phase = "exists" /\ UNCHANGED <<events, objects>>
          /\ CronGoto("list")
      BY <1>9 DEF ScanDone, Phase, storeVars, d1Vars
    <2> QED
      BY <1>g, <2>1 DEF CronChange, CronPages
  <1>10. CASE DeleteKeyBatch
    <2>1. PICK batch \in SUBSET cron.keys :
            /\ RemoveObjects(batch)
            /\ cron' = IF batch # cron.keys THEN [cron EXCEPT !.keys = cron.keys \ batch]
                       ELSE IF cron.phase = "orphans" THEN CronOff
                       ELSE [cron EXCEPT !.keys = {}, !.phase = "oldRows"]
      BY <1>10 DEF DeleteKeyBatch, Batches
    <2>2. cron.phase \in {"oldObjects", "orphans"} /\ UNCHANGED <<events, clock>>
      BY <1>10 DEF DeleteKeyBatch, Phase, d1Vars
    <2>3. CASE batch # cron.keys
      <3>1. /\ cron'.phase = cron.phase /\ cron'.now = cron.now /\ cron'.page = cron.page
            /\ cron'.rows = cron.rows /\ cron'.scan = cron.scan
            /\ cron'.keys = cron.keys \ batch
        BY <1>t, <2>1, <2>3 DEF CronState
      <3> QED
        BY <2>1, <2>2, <3>1 DEF CronChange, CronSweeps
    <2>4. CASE batch = cron.keys /\ cron.phase = "orphans"
      BY <1>r, <2>1, <2>2, <2>4
    <2>5. CASE batch = cron.keys /\ cron.phase # "orphans"
      <3>1. /\ cron'.phase = "oldRows" /\ cron'.now = cron.now /\ cron'.page = cron.page
            /\ cron'.rows = cron.rows /\ cron'.scan = cron.scan
            /\ cron'.keys = {} /\ cron'.keys = cron.keys \ batch
        BY <1>t, <2>1, <2>5 DEF CronState
      <3> QED
        BY <2>1, <2>2, <2>5, <3>1 DEF CronChange, CronSweeps
    <2> QED
      BY <2>3, <2>4, <2>5
  <1>11. CASE CleanupFails \/ CleanupDeleteRefused
    BY <1>11, <1>r DEF CleanupFails, CleanupDeleteRefused, storeVars
  <1> QED
    BY <1>1, <1>2, <1>3, <1>4, <1>5, <1>6, <1>7, <1>8, <1>9, <1>10, <1>11
    DEF CleanupStep, ListExpiredTemporary, ListExpiredPrivate

LEMMA CronCausesNext ==
  ASSUME HandlerInv, CronCauses, LivesOn, CronChange \/ UNCHANGED cron
  PROVE  CronCauses'
PROOF
  <1>t. cron.now \in Nat /\ clock \in Nat /\ clock' \in Nat /\ clock <= clock'
        /\ cron.now <= clock
    BY DEF HandlerInv, TypeOK, RetentionTypeOK, CronState, StoreTypeOK, LivesOn, CronCauses
  <1>1. cron'.now <= clock'
    BY <1>t DEF CronChange, CronResets, CronPages, CronListsOld, CronDeletesRows, CronLists,
       CronLooksUp, CronSweeps
  <1>2. ASSUME NEW e \in cron'.page PROVE Closing(e)'
    <2>1. CASE e \in cron.page
      BY <2>1, ClosingStays DEF CronCauses
    <2>2. CASE e \in Endpoint /\ RowExists(e) /\ endpoints[e].expires_at <= cron.now
      <3>1. endpoints[e].expires_at \in Nat
        BY <2>2 DEF HandlerInv, TypeOK, StoreTypeOK, EndpointRow
      <3>2. Closing(e)
        BY <1>t, <2>2, <3>1 DEF Closing, Expired, RowExists
      <3> QED
        BY <3>2, ClosingStays
    <2> QED
      BY <1>2, <2>1, <2>2 DEF CronChange, CronResets, CronPages, CronListsOld,
         CronDeletesRows, CronLists, CronLooksUp, CronSweeps
  <1> QED
    BY <1>1, <1>2 DEF CronCauses

(* An object old enough to be judged was put by a request that is past its *)
(* row: it has stored it, or it never will.                                 *)
LEMMA OldIsPast ==
  ASSUME HandlerInv, Young, cron.now <= clock, NEW o \in objects,
         o.uploaded + OrphanMinAge <= cron.now
  PROVE  Past(o.key[1])
PROOF
  <1>1. /\ cron.now \in Nat /\ clock \in Nat /\ o.uploaded \in Nat /\ OrphanMinAge \in Nat
        /\ o.key[1] \in Request
    BY EventTypes, TimeAssumption DEF HandlerInv, TypeOK, RetentionTypeOK, CronState
  <1>2. ~Storing(o.key[1]) /\ ~Early(o.key[1])
    BY <1>1 DEF Young
  <1>3. req[o.key[1]] \in RequestState
    BY <1>1 DEF HandlerInv, TypeOK, IngestTypeOK
  <1> QED
    BY <1>2, <1>3 DEF Past, Early, Storing, RequestState

LEMMA CronListedNext ==
  ASSUME HandlerInv, Rows, Young, CronCauses, CronListed, OtherMove,
         CronChange \/ UNCHANGED cron
  PROVE  CronListed'
PROOF
  <1>1. events' \subseteq events /\ UNCHANGED req /\ cron.now <= clock
    BY DEF OtherMove, CronCauses
  <1>2. ASSUME NEW r \in cron'.rows PROVE Past(r)
    <2>1. CASE r \in cron.rows
      BY <2>1 DEF CronListed
    <2>2. CASE CronListsOld
      BY <1>2, <2>2 DEF CronListsOld, PageAfter, OldPrivateEvents, Rows, Settled, Past
    <2> QED
      BY <1>2, <2>1, <2>2 DEF CronChange, CronResets, CronPages, CronDeletesRows, CronLists,
         CronLooksUp, CronSweeps
  <1>3. ASSUME NEW r \in cron'.rows, NEW v \in events', v.id = r
        PROVE  v.endpoint_id \in PrivEndpoint /\ v.received_at + PrivRetention < cron'.now
    <2>1. CASE r \in cron.rows /\ cron'.now = cron.now
      BY <1>1, <1>3, <2>1 DEF CronListed
    <2>2. CASE CronListsOld
      BY <1>1, <1>3, <2>2 DEF CronListsOld, PageAfter, OldPrivateEvents, Rows
    <2> QED
      BY <1>3, <2>1, <2>2 DEF CronChange, CronResets, CronPages, CronDeletesRows, CronLists,
         CronLooksUp, CronSweeps
  <1>4. ASSUME NEW k \in cron'.scan PROVE Past(k[1])
    <2>1. CASE k \in cron.scan
      BY <2>1 DEF CronListed
    <2>2. CASE CronLists
      BY <1>1, <1>4, <2>2, OldIsPast DEF CronLists, OldObjects
    <2> QED
      BY <1>4, <2>1, <2>2 DEF CronChange, CronResets, CronPages, CronListsOld,
         CronDeletesRows, CronLooksUp, CronSweeps
  <1>5. cron'.phase \notin {"oldObjects", "list", "exists", "orphans"} => cron'.keys = {}
    BY DEF CronListed, CronChange, CronResets, CronPages, CronListsOld, CronDeletesRows,
       CronLists, CronLooksUp, CronSweeps
  <1>6. ASSUME cron'.phase = "oldObjects", NEW k \in cron'.keys PROVE k[1] \in cron'.rows
    <2>1. CASE CronListsOld
      BY <1>6, <2>1 DEF CronListsOld, KeysOf
    <2> QED
      BY <1>6, <2>1 DEF CronListed, CronChange, CronResets, CronPages, CronDeletesRows,
         CronLists, CronLooksUp, CronSweeps
  <1>7. ASSUME cron'.phase \in {"list", "exists", "orphans"}, NEW k \in cron'.keys
        PROVE  Past(k[1]) /\ ~HasEvent(k[1])
    <2>1. CASE k \in cron.keys /\ cron.phase \in {"list", "exists", "orphans"}
      BY <2>1 DEF CronListed
    <2>2. CASE CronLooksUp
      BY <1>7, <2>1, <2>2 DEF CronLooksUp, CronListed
    <2>3. CASE CronLists
      BY <1>7, <2>3 DEF CronLists, CronListed
    <2>4. CASE CronPages
      BY <1>7, <2>1, <2>4 DEF CronPages, CronListed
    <2> QED
      BY <1>7, <2>1, <2>2, <2>3, <2>4 DEF CronChange, CronResets, CronListsOld,
         CronDeletesRows, CronSweeps
  <1>8. \A r : HasEvent(r)' => HasEvent(r)
    BY <1>1 DEF HasEvent
  <1> QED
    BY <1>1, <1>2, <1>3, <1>4, <1>5, <1>6, <1>7, <1>8 DEF CronListed, Past

LEMMA CronSweptNext ==
  ASSUME HandlerInv, CronSwept, CronListed, OtherMove, CronChange \/ UNCHANGED cron
  PROVE  CronSwept'
PROOF
  <1>1. events' \subseteq events /\ \A k : Stored(k)' => Stored(k)
    BY DEF OtherMove, Stored
  <1>2. ASSUME NEW v \in events', v.id \in cron'.rows, NEW part \in Part,
               Stored(<<v.id, part>>)'
        PROVE  cron'.phase = "oldObjects" /\ <<v.id, part>> \in cron'.keys
    <2>0. v.id \in cron.rows => cron.phase = "oldObjects" /\ <<v.id, part>> \in cron.keys
      BY <1>1, <1>2 DEF CronSwept
    <2>1. CASE CronListsOld
      BY <1>2, <2>1 DEF CronListsOld, KeysOf
    <2>2. CASE CronSweeps
      <3>1. PICK batch \in SUBSET cron.keys :
              /\ RemoveObjects(batch) /\ cron'.keys = cron.keys \ batch
              /\ \/ cron'.phase = cron.phase
                 \/ cron'.keys = {} /\ cron.phase = "oldObjects" /\ cron'.phase = "oldRows"
        BY <2>2 DEF CronSweeps
      <3>2. <<v.id, part>> \notin batch
        BY <1>2, <3>1 DEF Stored, RemoveObjects
      <3> QED
        BY <1>2, <2>0, <2>2, <3>1, <3>2 DEF CronSweeps
    <2> QED
      BY <1>2, <2>0, <2>1, <2>2 DEF CronChange, CronResets, CronPages, CronDeletesRows,
         CronLists, CronLooksUp
  <1> QED
    BY <1>2 DEF CronSwept

-----------------------------------------------------------------------------
(* A step of a request *)

LEMMA PutStores ==
  ASSUME NEW k, PutObject(k)
  PROVE  Stored(k)' /\ \A j : j # k => (Stored(j)' <=> Stored(j))
PROOF
  <1>1. PICK new : new = [key |-> k, uploaded |-> clock] /\ new.key = k
    <2> WITNESS [key |-> k, uploaded |-> clock]
    <2> QED
      OBVIOUS
  <1>2. objects' = {o \in objects : o.key # k} \cup {new}
    BY <1>1 DEF PutObject
  <1> QED
    BY <1>1, <1>2 DEF Stored

(* The rows and objects a request's step adds or takes away are its own. *)
LEMMA RequestReach ==
  ASSUME HandlerInv, NEW r \in Request, RequestMove(r)
  PROVE  /\ events \subseteq events'
         /\ \A v \in events' \ events :
              /\ v.id = r /\ At(r, "insert") /\ v.endpoint_id = req[r].endpoint
              /\ v.endpoint_id \in Endpoint /\ endpoints[v.endpoint_id].status = "active"
         /\ \A k \in Key : Stored(k)' => Stored(k) \/ (k[1] = r /\ At(r, "store"))
         /\ \A k \in Key : Stored(k) => Stored(k)' \/ (k[1] = r /\ At(r, "undo"))
         /\ \A x \in Request : Past(x) => Past(x)'
PROOF
  <1>1. \A x \in Request : Past(x) => Past(x)'
    BY DEF RequestMove, Onward, Past
  <1>2. CASE UNCHANGED <<events, objects>>
    BY <1>1, <1>2 DEF Stored
  <1>3. CASE Records(r)
    <2>1. /\ At(r, "insert") /\ req[r].endpoint \in Endpoint
          /\ endpoints[req[r].endpoint].status = "active"
      BY <1>3 DEF Records, InsertGuard, HandlerInv, Bound, Running, At
    <2>2. events \subseteq events' /\ UNCHANGED objects
          /\ \A v \in events' \ events : v.id = r /\ v.endpoint_id = req[r].endpoint
      BY <1>3 DEF Records, InsertEvent
    <2> QED
      BY <1>1, <2>1, <2>2 DEF Stored
  <1>4. CASE Puts(r)
    <2>1. At(r, "store") /\ UNCHANGED events
      BY <1>4 DEF Puts
    <2>2. PICK part \in Part : PutObject(<<r, part>>) \/ UNCHANGED objects
      BY <1>4 DEF Puts
    <2>3. ASSUME NEW k \in Key PROVE /\ Stored(k)' => Stored(k) \/ k[1] = r
                                     /\ Stored(k) => Stored(k)'
      <3>1. CASE UNCHANGED objects
        BY <3>1 DEF Stored
      <3>2. CASE PutObject(<<r, part>>)
        <4>1. k[1] = r \/ k # <<r, part>>
          OBVIOUS
        <4> QED
          BY <3>2, <4>1, PutStores
      <3> QED
        BY <2>2, <3>1, <3>2
    <2> QED
      BY <1>1, <2>1, <2>3
  <1>5. CASE Cleans(r)
    <2>1. At(r, "undo") /\ UNCHANGED events
      BY <1>5 DEF Cleans
    <2>2. PICK part \in Part : RemoveObjects({<<r, part>>})
      BY <1>5 DEF Cleans
    <2>3. \A k \in Key : /\ Stored(k)' => Stored(k)
                         /\ Stored(k) => Stored(k)' \/ k[1] = r
      BY <2>2 DEF Stored, RemoveObjects
    <2> QED
      BY <1>1, <2>1, <2>3
  <1> QED
    BY <1>2, <1>3, <1>4, <1>5 DEF RequestMove, Moves

LEMMA RequestLists ==
  ASSUME HandlerInv, Rows, JobCauses, CronCauses, JobListed, CronListed, JobSwept, CronSwept,
         NEW r \in Request, RequestMove(r)
  PROVE  JobCauses' /\ CronCauses' /\ JobListed' /\ CronListed' /\ JobSwept' /\ CronSwept'
PROOF
  <1>f. /\ SameLives /\ UNCHANGED <<clock, job, cron>>
        /\ \A e \in Endpoint : Expired(e)' <=> Expired(e)
    BY FrameRowExists DEF RequestMove, RequestFrame
  <1>c. ASSUME NEW e, Closing(e) PROVE Closing(e)'
    BY <1>f, <1>c DEF Closing, SameLives
  <1>p. \A x : x \in Request /\ Past(x) => Past(x)' /\ ~At(x, "insert")
    BY RequestReach DEF Past, At
  <1>k. \A k \in Key : k[1] \in Request /\ k[2] \in Part /\ k = <<k[1], k[2]>>
    BY DEF Key
  <1>t. /\ \A p \in Job : job[p].keys \subseteq Key
        /\ cron.rows \subseteq Request /\ cron.scan \subseteq Key /\ cron.keys \subseteq Key
    BY DEF HandlerInv, TypeOK, PurgeTypeOK, JobState, RetentionTypeOK, CronState
  <1>e. \A v \in events' : v \in events \/ /\ v.id = r /\ At(r, "insert")
                                           /\ v.endpoint_id \in Endpoint
                                           /\ endpoints[v.endpoint_id].status = "active"
    BY RequestReach
  <1>s. \A v \in events, part \in Part : Stored(<<v.id, part>>)' => Stored(<<v.id, part>>)
    <2>1. \A v \in events : v.id \in Request /\ ~At(v.id, "store")
      BY EventTypes DEF Rows, Settled, At
    <2> QED
      BY <2>1, RequestReach DEF Key
  <1>1. JobCauses'
    <2>1. ASSUME NEW p \in Job, NEW e, e = job[p].endpoint, Purging(p)
          PROVE  Closing(e)'
      BY <1>c, <2>1 DEF JobCauses
    <2> QED
      BY <1>f, <2>1 DEF JobCauses, Purging, Doing
  <1>2. CronCauses'
    BY <1>f, <1>c DEF CronCauses
  <1>3. JobListed'
    <2>1. ASSUME NEW p \in Job, Doing(p, "objects"), NEW k \in job[p].keys
          PROVE  /\ Past(k[1])'
                 /\ \A v \in events' : v.id = k[1] => v.endpoint_id = job[p].endpoint
      <3>1. Past(k[1]) /\ k[1] \in Request
        BY <1>k, <1>t, <2>1 DEF JobListed
      <3> QED
        BY <1>e, <1>p, <2>1, <3>1 DEF JobListed
    <2> QED
      BY <1>f, <2>1 DEF JobListed, Doing
  <1>4. CronListed'
    <2>1. ASSUME NEW x \in cron.rows
          PROVE  /\ Past(x)'
                 /\ \A v \in events' : v.id = x =>
                      v.endpoint_id \in PrivEndpoint /\ v.received_at + PrivRetention < cron.now
      <3>1. Past(x) /\ x \in Request
        BY <1>t DEF CronListed
      <3> QED
        BY <1>e, <1>p, <3>1 DEF CronListed
    <2>2. \A k \in cron.scan : Past(k[1])'
      BY <1>k, <1>p, <1>t DEF CronListed
    <2>3. ASSUME cron.phase \in {"list", "exists", "orphans"}, NEW k \in cron.keys
          PROVE  Past(k[1])' /\ ~HasEvent(k[1])'
      <3>1. Past(k[1]) /\ ~HasEvent(k[1]) /\ k[1] \in Request
        BY <1>k, <1>t, <2>3 DEF CronListed
      <3> QED
        BY <1>e, <1>p, <3>1 DEF HasEvent
    <2>4. /\ cron.phase \notin {"oldObjects", "list", "exists", "orphans"} => cron.keys = {}
          /\ cron.phase = "oldObjects" => \A k \in cron.keys : k[1] \in cron.rows
      BY DEF CronListed
    <2> QED
      BY <1>f, <2>1, <2>2, <2>3, <2>4 DEF CronListed
  <1>5. JobSwept'
    <2>1. ASSUME NEW p \in Job, job[p].pc \in {"list", "objects", "events"},
                 NEW v \in events', v.endpoint_id = job[p].endpoint, ~Expired(v.endpoint_id)',
                 Doing(p, "events") \/ v.sequence <= job[p].cursor,
                 NEW part \in Part, Stored(<<v.id, part>>)'
          PROVE  Doing(p, "objects") /\ <<v.id, part>> \in job[p].keys
      <3>1. Closing(v.endpoint_id)
        BY <2>1 DEF JobCauses, Purging
      <3>2. ~Expired(v.endpoint_id) /\ endpoints[v.endpoint_id].status # "active"
        BY <1>f, <2>1, <3>1 DEF Closing
      <3>3. v \in events
        BY <1>e, <3>2
      <3> QED
        BY <1>s, <2>1, <3>2, <3>3 DEF JobSwept, EventsOf
    <2> QED
      BY <1>f, <2>1 DEF JobSwept, EventsOf, Doing
  <1>6. CronSwept'
    <2>1. ASSUME NEW v \in events', v.id \in cron.rows, NEW part \in Part,
                 Stored(<<v.id, part>>)'
          PROVE  cron.phase = "oldObjects" /\ <<v.id, part>> \in cron.keys
      <3>1. v \in events
        BY <1>e, <1>p, <1>t, <2>1 DEF CronListed
      <3> QED
        BY <1>s, <2>1, <3>1 DEF CronSwept
    <2> QED
      BY <1>f, <2>1 DEF CronSwept
  <1> QED
    BY <1>1, <1>2, <1>3, <1>4, <1>5, <1>6

LEMMA RequestYoung ==
  ASSUME HandlerInv, Young, NEW r \in Request, RequestMove(r)
  PROVE  Young'
PROOF
  <1>t. /\ clock \in Nat /\ UNCHANGED clock /\ OrphanMinAge \in Nat /\ OrphanMinAge > 0
        /\ \A part \in Part : part # "slot"
    BY EventTypes, TimeAssumption DEF RequestMove, RequestFrame, Part
  <1>x. \A x \in Request : x # r => req'[x] = req[x]
    BY DEF RequestMove, Onward
  <1>r. \A x \in Request : Early(x)' => Early(x)
    BY <1>x DEF RequestMove, Onward, Early
  <1>s. \A x \in Request : Storing(x)' => Storing(x) \/ (x = r /\ At(r, "body"))
    <2>1. Storing(r)' => Storing(r) \/ At(r, "body")
      BY DEF RequestMove, Moves, Puts, Records, Cleans, Storing, Settled, At
    <2> QED
      BY <1>x, <2>1 DEF Storing
  <1>1. ASSUME NEW o \in objects'
        PROVE  ~Early(o.key[1])' /\ (Storing(o.key[1])' => clock < o.uploaded + OrphanMinAge)
    <2>1. CASE o \in objects
      <3>1. o.key[1] \in Request /\ ~Early(o.key[1])
        BY <2>1, EventTypes DEF Young
      <3>2. ~(o.key[1] = r /\ At(r, "body"))
        BY <3>1 DEF Early, At
      <3> QED
        BY <1>r, <1>s, <2>1, <3>1, <3>2 DEF Young
    <2>2. CASE o \notin objects
      <3>1. At(r, "store") /\ o.key[1] = r /\ o.uploaded = clock
        BY <2>2 DEF RequestMove, Moves, Puts, Records, Cleans, PutObject, RemoveObjects
      <3>2. ~Early(r)
        BY <3>1 DEF Early, At
      <3> QED
        BY <1>r, <1>t, <3>1, <3>2
    <2> QED
      BY <2>1, <2>2
  <1>2. ASSUME NEW x \in Request, NEW part \in Part, Storing(x)', part \in req'[x].undo
        PROVE  Stored(<<x, part>>)'
    <2>0. Stored(<<x, part>>) => Stored(<<x, part>>)'
      <3>1. ~(x = r /\ At(r, "undo"))
        BY <1>2, <1>s DEF Storing, At
      <3> QED
        BY <3>1, RequestReach DEF Key
    <2>1. CASE Storing(x) /\ part \in req[x].undo
      BY <2>0, <2>1 DEF Young
    <2>2. CASE x = r /\ Puts(r)
      <3>1. PICK p \in Part :
              \/ PutObject(<<r, p>>) /\ req'[r].undo = req[r].undo \cup {p}
              \/ req'[r].undo = req[r].undo
        BY <2>2 DEF Puts
      <3>2. Storing(x)
        BY <2>2 DEF Puts, Storing, At
      <3>3. CASE part = p /\ PutObject(<<r, p>>)
        BY <2>2, <3>3, PutStores
      <3> QED
        BY <1>2, <2>1, <2>2, <3>1, <3>2, <3>3
    <2>3. CASE x = r /\ Moves(r)
      BY <1>2, <1>t, <2>1, <2>3 DEF Moves
    <2>4. CASE x = r /\ (Records(r) \/ Cleans(r))
      BY <1>2, <2>4 DEF Records, Cleans, Storing, Settled, At
    <2>5. CASE x # r
      BY <1>2, <1>x, <2>1, <2>5 DEF Storing
    <2> QED
      BY <2>2, <2>3, <2>4, <2>5 DEF RequestMove
  <1> QED
    BY <1>1, <1>2, <1>t DEF Young

LEMMA RequestShaped ==
  ASSUME Shaped, NEW r \in Request, RequestMove(r)
  PROVE  Shaped'
PROOF
  <1>1. \A x \in Request : Shape(req'[x])
    BY DEF RequestMove, Onward, Shaped
  <1>2. \A x \in Request : Shape(req[x])' <=> Shape(req'[x])
    BY DEF Shape
  <1> QED
    BY <1>1, <1>2 DEF Shaped

LEMMA RequestKept ==
  ASSUME HandlerInv, Kept, NEW r \in Request, RequestMove(r)
  PROVE  Kept'
PROOF
  <1> SUFFICES ASSUME NEW x \in Request, Accepted(x)', Readable(req[x].endpoint)',
                      ~Aged(req[x].endpoint, req[x].receivedAt)'
               PROVE  HasEvent(x)'
    <2>1. ASSUME NEW x \in Request, Accepted(x)'
          PROVE  req'[x].endpoint \in Endpoint /\ endpoints'[req'[x].endpoint].status # "none"
      <3>1. CASE x = r /\ Records(r)
        <4>1. /\ req[r].endpoint \in Endpoint /\ endpoints[req[r].endpoint].status = "active"
              /\ req'[r].endpoint = req[r].endpoint
          BY <2>1, <3>1
          DEF Records, InsertGuard, HandlerInv, Bound, Running, At
        <4> QED
          BY <3>1, <4>1 DEF RequestMove, RequestFrame, SameLives
      <3>2. CASE /\ Accepted(x) /\ req'[x].endpoint = req[x].endpoint
        BY <3>2 DEF Kept, RequestMove, RequestFrame, SameLives
      <3> QED
        BY <2>1, <3>1, <3>2
        DEF RequestMove, Onward, Moves, Puts, Cleans, Accepted, At
    <2> QED
      BY <2>1 DEF Kept
  <1>1. HasEvent(x) => HasEvent(x)'
    BY RequestReach DEF HasEvent
  <1>2. CASE /\ Accepted(x) /\ req'[x].endpoint = req[x].endpoint
             /\ req'[x].receivedAt = req[x].receivedAt
    <2>1. PICK e \in Endpoint : e = req[x].endpoint
      BY <1>2 DEF Kept
    <2>2. Readable(e) /\ ~Aged(e, req[x].receivedAt)
      BY <1>2, <2>1, FrameRowExists DEF RequestMove, RequestFrame, Readable, Aged, Expired
    <2> QED
      BY <1>1, <1>2, <2>1, <2>2 DEF Kept
  <1>3. CASE x # r
    BY <1>2, <1>3 DEF RequestMove, Onward, Accepted, At
  <1>4. CASE x = r
    <2>1. CASE Records(r)
      BY <1>4, <2>1, InsertedRow DEF Records, HasEvent
    <2>2. CASE Moves(r)
      <3>1. Accepted(r) /\ ~At(r, "lost")'
        BY <1>4, <2>2 DEF Moves, Accepted, At
      <3> QED
        BY <1>2, <1>4, <3>1 DEF RequestMove, Onward
    <2> QED
      BY <1>4, <2>1, <2>2 DEF RequestMove, Puts, Cleans
  <1> QED
    BY <1>3, <1>4

LEMMA RequestComplete ==
  ASSUME HandlerInv, Shaped, Rows, Young, Complete, NEW r \in Request, RequestMove(r)
  PROVE  Complete'
PROOF
  <1> SUFFICES ASSUME ~AmbiguousInsert, NEW v \in events', Readable(v.endpoint_id)',
                      ~Aged(v.endpoint_id, v.received_at)', NEW part \in Part
               PROVE  Stored(<<v.id, part>>)'
    BY DEF Complete, ReadableEventsHaveObjects
  <1>1. CASE v \in events
    <2>1. /\ v.endpoint_id \in Endpoint /\ v.id \in Request
          /\ Accepted(v.id) \/ At(v.id, "lost")
      BY <1>1, EventTypes DEF Rows
    <2>2. Readable(v.endpoint_id) /\ ~Aged(v.endpoint_id, v.received_at)
      BY <2>1, FrameRowExists DEF RequestMove, RequestFrame, Aged
    <2>3. Stored(<<v.id, part>>) /\ ~At(v.id, "undo")
      BY <1>1, <2>1, <2>2 DEF Complete, ReadableEventsHaveObjects, Accepted, At
    <2> QED
      BY <2>1, <2>3, RequestReach DEF Key
  <1>2. CASE v \notin events
    <2>1. v.id = r /\ At(r, "insert")
      BY <1>2, RequestReach
    <2>2. Stored(<<r, part>>)
      BY <2>1 DEF Shaped, Shape, Young, Storing, At
    <2>3. ~At(r, "undo")
      BY <2>1 DEF At
    <2> QED
      BY <2>1, <2>2, <2>3, RequestReach DEF Key
  <1> QED
    BY <1>1, <1>2

LEMMA RequestTidy ==
  ASSUME HandlerInv, Tidy, NEW r \in Request, RequestMove(r)
  PROVE  Tidy'
PROOF
  <1> SUFFICES ASSUME NEW x \in Request, NEW part \in Part, Stored(<<x, part>>)'
               PROVE  Traced(x, part)'
    BY DEF Tidy
  <1>1. CASE x # r
    <2>1. req'[x] = req[x] /\ Stored(<<x, part>>)
      BY <1>1, RequestReach DEF RequestMove, Onward, Key
    <2> QED
      BY <2>1 DEF Tidy, Traced, Accepted, At
  <1>2. CASE x = r /\ Moves(r)
    BY <1>2 DEF Tidy, Moves, Stored
  <1>3. CASE x = r /\ Puts(r)
    <2>1. PICK p \in Part :
            \/ PutObject(<<r, p>>) /\ Traced(r, p)'
            \/ UNCHANGED objects
      BY <1>3 DEF Puts, Traced
    <2>2. CASE part = p /\ Traced(r, p)'
      BY <1>3, <2>2
    <2>3. CASE UNCHANGED objects
      BY <1>3, <2>3 DEF Tidy, Puts, Stored
    <2>4. CASE part # p /\ PutObject(<<r, p>>)
      <3>1. Stored(<<r, part>>)
        BY <1>3, <2>4, PutStores
      <3> QED
        BY <1>3, <3>1 DEF Tidy, Puts
    <2> QED
      BY <2>1, <2>2, <2>3, <2>4
  <1>4. CASE x = r /\ Records(r)
    <2>1. Traced(r, part)
      BY <1>4 DEF Tidy, Records, Stored
    <2>2. CASE At(r, "publish")'
      BY <1>4, <2>2 DEF Traced, Accepted
    <2> QED
      BY <1>4, <2>1, <2>2 DEF Records
  <1>5. CASE x = r /\ Cleans(r)
    <2>1. PICK p \in Part :
            /\ RemoveObjects({<<r, p>>})
            /\ \A other \in Part \ {p} : Traced(r, other) => Traced(r, other)'
      BY <1>5 DEF Cleans
    <2>3. part # p /\ Stored(<<r, part>>)
      BY <1>5, <2>1 DEF RemoveObjects, Stored
    <2> QED
      BY <1>5, <2>1, <2>3 DEF Tidy
  <1> QED
    BY <1>1, <1>2, <1>3, <1>4, <1>5 DEF RequestMove

-----------------------------------------------------------------------------
(* A step of anybody else *)

(* What is read, and not aged, after such a step was so before, and nobody  *)
(* has listed its row or its objects.                                       *)
LEMMA ReadUntouched ==
  ASSUME HandlerInv, JobCauses, CronCauses, JobListed, CronListed, OtherMove,
         NEW e \in Endpoint, endpoints[e].status # "none", Readable(e)',
         NEW t \in Nat, ~Aged(e, t)'
  PROVE  /\ Readable(e) /\ ~Aged(e, t)
         /\ \A v \in events : v.endpoint_id = e /\ v.received_at = t =>
              /\ v \in events'
              /\ \A part \in Part : Stored(<<v.id, part>>) => Stored(<<v.id, part>>)'
PROOF
  <1>1. /\ clock \in Nat /\ clock' \in Nat /\ clock <= clock' /\ PrivRetention \in Nat
        /\ cron.now \in Nat /\ cron.now <= clock
    BY RetentionAssumption
    DEF HandlerInv, TypeOK, StoreTypeOK, RetentionTypeOK, CronState, OtherMove, LivesOn,
        CronCauses
  <1>2. Readable(e) /\ ~Closing(e)
    BY ReadableBefore, ClosingStays DEF OtherMove, Readable, Closing
  <1>3. ~Aged(e, t) /\ ~(e \in PrivEndpoint /\ t + PrivRetention < cron.now)
    BY <1>1 DEF Aged
  <1>4. \A p \in Job : Purging(p) => job[p].endpoint # e
    BY <1>2 DEF JobCauses
  <1>5. ASSUME NEW v \in events, v.endpoint_id = e, v.received_at = t
        PROVE  v \in events'
    BY <1>3, <1>4, <1>5 DEF OtherMove, Purging, Doing, CronListed
  <1>6. ASSUME NEW v \in events, v.endpoint_id = e, v.received_at = t, NEW part \in Part,
               NEW o \in objects, o.key = <<v.id, part>>, o \notin objects'
        PROVE  FALSE
    <2>1. o.key[1] = v.id
      BY <1>6
    <2>2. ~\E p \in Job : Doing(p, "objects") /\ o.key \in job[p].keys
      BY <1>4, <1>6, <2>1 DEF JobListed, Purging, Doing
    <2>3. ~(cron.phase = "oldObjects" /\ o.key \in cron.keys)
      BY <1>3, <1>6, <2>1 DEF CronListed
    <2>4. ~(cron.phase = "orphans" /\ o.key \in cron.keys)
      BY <1>6, <2>1 DEF CronListed, HasEvent
    <2> QED
      BY <1>6, <2>2, <2>3, <2>4 DEF OtherMove
  <1> QED
    BY <1>2, <1>3, <1>5, <1>6 DEF Stored

LEMMA OtherYoung ==
  ASSUME HandlerInv, Young, JobListed, CronListed, OtherMove
  PROVE  Young'
PROOF
  <1>1. UNCHANGED req /\ objects' \subseteq objects
    BY DEF OtherMove
  <1>2. ASSUME NEW o \in objects', Storing(o.key[1])
        PROVE  clock' < o.uploaded + OrphanMinAge
    BY <1>1, <1>2 DEF OtherMove, TickGuard, Young
  <1>3. ASSUME NEW x \in Request, NEW part \in Part, Storing(x), part \in req[x].undo
        PROVE  Stored(<<x, part>>)'
    <2>1. PICK o \in objects : o.key = <<x, part>>
      BY <1>3 DEF Young, Stored
    <2>2. ~Past(o.key[1])
      BY <1>3, <2>1 DEF Past, Storing
    <2>3. o \in objects'
      BY <2>2 DEF OtherMove, JobListed, CronListed
    <2> QED
      BY <2>1, <2>3 DEF Stored
  <1> QED
    BY <1>1, <1>2, <1>3 DEF Young, Early, Storing

LEMMA OtherKept ==
  ASSUME HandlerInv, Rows, JobCauses, CronCauses, JobListed, CronListed, Kept, OtherMove
  PROVE  Kept'
PROOF
  <1>1. UNCHANGED req
    BY DEF OtherMove
  <1>2. ASSUME NEW x \in Request, Accepted(x), NEW e \in Endpoint, e = req[x].endpoint,
               Readable(e)', NEW t \in Nat, t = req[x].receivedAt, ~Aged(e, t)'
        PROVE  HasEvent(x)'
    <2>1. endpoints[e].status # "none"
      BY <1>2 DEF Kept
    <2>2. Readable(e) /\ ~Aged(e, t)
      BY <1>2, <2>1, ReadUntouched
    <2>3. PICK v \in events : v.id = x
      BY <1>2, <2>2 DEF Kept, HasEvent
    <2>4. v.endpoint_id = e /\ v.received_at = t
      BY <1>2, <2>3 DEF Rows
    <2>5. v \in events'
      BY <1>2, <2>1, <2>4, ReadUntouched
    <2> QED
      BY <2>3, <2>5 DEF HasEvent
  <1>3. ASSUME NEW x \in Request, Accepted(x)
        PROVE  /\ req[x].endpoint \in Endpoint /\ endpoints'[req[x].endpoint].status # "none"
               /\ req[x].receivedAt \in Nat
    BY <1>3 DEF Kept, OtherMove, LivesOn, HandlerInv, TypeOK, IngestTypeOK, RequestState
  <1> QED
    BY <1>1, <1>2, <1>3 DEF Kept, Accepted, At

LEMMA OtherComplete ==
  ASSUME HandlerInv, Rows, JobCauses, CronCauses, JobListed, CronListed, Complete, OtherMove
  PROVE  Complete'
PROOF
  <1> SUFFICES ASSUME ~AmbiguousInsert, NEW v \in events', Readable(v.endpoint_id)',
                      ~Aged(v.endpoint_id, v.received_at)', NEW part \in Part
               PROVE  Stored(<<v.id, part>>)'
    BY DEF Complete, ReadableEventsHaveObjects
  <1>1. /\ v \in events /\ v.endpoint_id \in Endpoint /\ v.received_at \in Nat
        /\ endpoints[v.endpoint_id].status # "none"
    BY EventTypes DEF OtherMove, Rows, RowExists
  <1>2. /\ Readable(v.endpoint_id) /\ ~Aged(v.endpoint_id, v.received_at)
        /\ Stored(<<v.id, part>>) => Stored(<<v.id, part>>)'
    BY <1>1, ReadUntouched
  <1> QED
    BY <1>1, <1>2 DEF Complete, ReadableEventsHaveObjects

LEMMA OtherTidy ==
  ASSUME Tidy, OtherMove
  PROVE  Tidy'
  BY DEF Tidy, Traced, OtherMove, Stored, Accepted, At

LEMMA OtherShaped ==
  ASSUME Shaped, OtherMove
  PROVE  Shaped'
  BY DEF Shaped, Shape, OtherMove

-----------------------------------------------------------------------------
(* The invariant *)

LEMMA SafetyInvInit == Init => SafetyInv
PROOF
  <1> SUFFICES ASSUME Init PROVE SafetyInv
    OBVIOUS
  <1>1. \A r \in Request : req[r] = NoRequest
    BY DEF Init, IngestInit
  <1>2. /\ NoRequest.pc = "idle" /\ NoRequest.undo = {} /\ NoRequest.matched = {}
        /\ NoRequest.response = 0 /\ NoRequest.left = {}
    BY DEF NoRequest
  <1>3. \A p \in Job : job[p].pc = "idle"
    BY DEF Init, PurgeInit, NoJob
  <1>4. /\ cron.phase = "off" /\ cron.now = 0 /\ cron.page = {} /\ cron.rows = {}
        /\ cron.scan = {} /\ cron.keys = {}
    BY DEF Init, RetentionInit, CronOff
  <1>5. events = {} /\ objects = {} /\ clock = 0
    BY DEF Init, StoreInit
  <1>6. \A r \in Request : ~Accepted(r) /\ ~Storing(r)
    BY <1>1, <1>2 DEF Accepted, Storing, At
  <1>7. Shaped
    BY <1>1, <1>2 DEF Shaped, Shape
  <1>8. Rows /\ JobCauses /\ CronCauses /\ JobListed /\ CronListed
    BY <1>3, <1>4, <1>5 DEF Rows, JobCauses, CronCauses, JobListed, CronListed, Purging, Doing
  <1>9. Young /\ JobSwept /\ CronSwept
    BY <1>3, <1>4, <1>5, <1>6 DEF Young, JobSwept, CronSwept
  <1>10. Kept /\ Complete /\ Tidy
    BY <1>5, <1>6 DEF Kept, Complete, Tidy, ReadableEventsHaveObjects, Stored
  <1> QED
    BY <1>7, <1>8, <1>9, <1>10 DEF SafetyInv

LEMMA RequestSafety ==
  ASSUME HandlerInv, SafetyInv, NEW r \in Request, RequestMove(r)
  PROVE  SafetyInv'
  BY RequestShaped, RequestRows, RequestLists, RequestYoung, RequestKept, RequestComplete,
     RequestTidy DEF SafetyInv

LEMMA OtherSafety ==
  ASSUME HandlerInv, SafetyInv, OtherMove, NEW p \in Job, JobChange(p) \/ UNCHANGED job,
         CronChange \/ UNCHANGED cron
  PROVE  SafetyInv'
PROOF
  <1>1. Shaped' /\ Rows' /\ Young' /\ Kept' /\ Complete' /\ Tidy'
    BY OtherShaped, OtherRows, OtherYoung, OtherKept, OtherComplete, OtherTidy DEF SafetyInv
  <1>2. JobCauses' /\ JobListed' /\ JobSwept'
    BY JobCausesNext, JobListedNext, JobSweptNext DEF SafetyInv, OtherMove
  <1>3. CronCauses' /\ CronListed' /\ CronSwept'
    BY CronCausesNext, CronListedNext, CronSweptNext DEF SafetyInv, OtherMove
  <1> QED
    BY <1>1, <1>2, <1>3 DEF SafetyInv

LEMMA SafetyInvNext == HandlerInv /\ SafetyInv /\ [Next]_vars => SafetyInv'
PROOF
  <1> SUFFICES ASSUME HandlerInv, SafetyInv, [Next]_vars PROVE SafetyInv'
    OBVIOUS
  <1>i. IngestTypeOK /\ StoreInv /\ Shaped /\ JobCauses /\ CronCauses /\ Cron \in Job
    BY DEF HandlerInv, TypeOK, StoreInv, SafetyInv, Job
  <1>1. CASE Tick
    BY <1>1, <1>i, TickMoves, OtherSafety DEF Tick
  <1>2. CASE \E e \in Endpoint : CreateEndpoint(e) /\ UNCHANGED <<req, job, cron>>
    BY <1>2, <1>i, CreateMoves, OtherSafety
  <1>3. CASE \E r \in Request, e \in Endpoint, h \in Credential :
               ValidateEndpoint(r, e, h) /\ RequestOnly
    BY <1>3, <1>i, ValidateMoves, RequestSafety
  <1>4. CASE \E r \in Request : RequestStep(r)
    BY <1>4, <1>i, StepMoves, RequestSafety
  <1>5. CASE \E r \in Request : RequestFailure(r)
    BY <1>5, <1>i, FailureMoves, RequestSafety
  <1>6. CASE \E o \in Owner : OwnerStep(o)
    <2>1. PICK o \in Owner : OwnerStep(o)
      BY <1>6
    <2>2. o \in Job /\ UNCHANGED cron
      BY <2>1 DEF Job, OwnerStep, JobOnly
    <2> QED
      BY <1>i, <2>1, <2>2, OwnerMoves, OwnerChange, OtherSafety
  <1>7. CASE \E p \in Job : PurgeStep(p)
    <2>1. PICK p \in Job : PurgeStep(p)
      BY <1>7
    <2>2. UNCHANGED cron
      BY <2>1 DEF PurgeStep, JobOnly
    <2> QED
      BY <1>i, <2>1, <2>2, PurgeMoves, PurgeChange, OtherSafety
  <1>8. CASE CleanupStep \/ (CleanupFails /\ UNCHANGED req)
    BY <1>8, <1>i, CleanupMoves, CleanupChange, CleanupCron, OtherSafety
  <1>9. CASE UNCHANGED vars
    <2>1. UNCHANGED <<storeVars, req>> /\ UNCHANGED job /\ UNCHANGED cron
      BY <1>9 DEF vars
    <2> QED
      BY <1>i, <2>1, NothingMoves, OtherSafety
  <1> QED
    BY <1>1, <1>2, <1>3, <1>4, <1>5, <1>6, <1>7, <1>8, <1>9 DEF Next

(* The invariant behind every promise below: where requests, purges and the *)
(* cleanup stand to the rows and objects, in every interleaving.            *)
THEOREM SafetyInvHolds == Spec => []SafetyInv
PROOF
  <1>1. Init => SafetyInv
    BY SafetyInvInit
  <1>2. HandlerInv /\ SafetyInv /\ [Next]_vars => SafetyInv'
    BY SafetyInvNext
  <1> QED
    BY <1>1, <1>2, HandlerInvHolds, PTL DEF Spec

-----------------------------------------------------------------------------
(* What it gives: properties of every state *)

(* An event that can be read has both its objects, whatever compensations and *)
(* cleanups run beside it (persistRawRequest before recordMetadata, and the   *)
(* age an orphan must have), as long as D1 does not commit an INSERT whose    *)
(* answer is lost.                                                            *)
THEOREM ReadableEventsHaveObjectsHolds ==
  ASSUME AmbiguousInsert = FALSE
  PROVE  Spec => []ReadableEventsHaveObjects
PROOF
  <1>1. SafetyInv => ReadableEventsHaveObjects
    BY DEF SafetyInv, Complete
  <1> QED
    BY <1>1, SafetyInvHolds, PTL

(* ingestRequest's answer is true: after a 204 the event is there as long as  *)
(* it can be read, after any other answer there is none; the same proviso.    *)
THEOREM AnswersAreTrueHolds ==
  ASSUME AmbiguousInsert = FALSE
  PROVE  Spec => []AnswersAreTrue
PROOF
  <1>1. SafetyInv => AnswersAreTrue
    BY DEF SafetyInv, AnswersAreTrue, Kept, Rows, Accepted, HasEvent, At
  <1> QED
    BY <1>1, SafetyInvHolds, PTL

(* Whichever call throws, a refused request has taken back every object it *)
(* put by the time it answers, except one whose own put or whose own       *)
(* deletion threw (CompensationStack).                                     *)
THEOREM RefusalsLeaveNoObjectHolds == Spec => []RefusalsLeaveNoObject
PROOF
  <1>1. HandlerInv /\ SafetyInv => RefusalsLeaveNoObject
    <2> SUFFICES ASSUME HandlerInv, SafetyInv PROVE RefusalsLeaveNoObject
      OBVIOUS
    <2>1. ASSUME NEW r \in Request, NEW part \in Part, At(r, "done"),
                 req[r].response # 204, part \notin req[r].left
          PROVE  ~Stored(<<r, part>>)
      BY <2>1 DEF SafetyInv, Shaped, Shape, Tidy, Traced, Accepted, At
    <2> QED
      BY <2>1 DEF RefusalsLeaveNoObject
  <1> QED
    BY <1>1, HandlerInvHolds, SafetyInvHolds, PTL

-----------------------------------------------------------------------------
(* What it gives: properties of every step *)

(* A request's step takes no row away, and the row it adds passed the guard. *)
LEMMA RequestStepPromises ==
  ASSUME HandlerInv, SafetyInv, NEW r \in Request, RequestMove(r)
  PROVE  /\ events \subseteq events'
         /\ \A v \in events' \ events :
              LET active == ActiveSecrets(v.endpoint_id) IN
              active # {} => req[v.id].header # {} /\ req[v.id].header \subseteq active
PROOF
  <1>1. events \subseteq events'
    BY RequestReach
  <1>2. ASSUME NEW v \in events' \ events, ActiveSecrets(v.endpoint_id) # {}
        PROVE  /\ req[v.id].header # {}
               /\ req[v.id].header \subseteq ActiveSecrets(v.endpoint_id)
    <2>1. v.id = r /\ v.endpoint_id = req[r].endpoint
      BY RequestReach
    <2>2. InsertGuard(req[r].endpoint, req[r].matched)
      BY DEF RequestMove, Moves, Puts, Records, Cleans
    <2>3. req[r].matched # {} /\ req[r].matched \subseteq ActiveSecrets(req[r].endpoint)
      BY <1>2, <2>1, <2>2 DEF InsertGuard
    <2>4. req[r].matched = req[r].header
      BY <2>3 DEF SafetyInv, Shaped, Shape
    <2> QED
      BY <2>1, <2>3, <2>4
  <1> QED
    BY <1>1, <1>2

(* Anybody else's step adds no row, and takes one away only for a cause and *)
(* after its objects.                                                       *)
LEMMA OtherStepPromises ==
  ASSUME HandlerInv, SafetyInv, OtherMove
  PROVE  /\ events' \subseteq events
         /\ \A v \in events \ events' :
              /\ ~Expired(v.endpoint_id) => \A part \in Part : ~Stored(<<v.id, part>>)
              /\ \/ Expired(v.endpoint_id) \/ endpoints[v.endpoint_id].status = "disabled"
                 \/ Aged(v.endpoint_id, v.received_at)
PROOF
  <1>1. events' \subseteq events
    BY DEF OtherMove
  <1>2. ASSUME NEW v \in events, NEW p \in Job, Doing(p, "events"),
               v.endpoint_id = job[p].endpoint
        PROVE  /\ ~Expired(v.endpoint_id) => \A part \in Part : ~Stored(<<v.id, part>>)
               /\ Expired(v.endpoint_id) \/ endpoints[v.endpoint_id].status = "disabled"
    <2>1. Closing(v.endpoint_id) /\ RowExists(v.endpoint_id)
      BY <1>2 DEF SafetyInv, JobCauses, Rows, Purging, Doing
    <2>2. ~Expired(v.endpoint_id) => \A part \in Part : ~Stored(<<v.id, part>>)
      BY <1>2 DEF SafetyInv, JobSwept, EventsOf, Doing
    <2> QED
      BY <2>1, <2>2 DEF Closing, RowExists
  <1>3. ASSUME NEW v \in events, cron.phase = "oldRows", v.id \in cron.rows
        PROVE  /\ \A part \in Part : ~Stored(<<v.id, part>>)
               /\ Aged(v.endpoint_id, v.received_at)
    <2>1. \A part \in Part : ~Stored(<<v.id, part>>)
      BY <1>3 DEF SafetyInv, CronSwept
    <2>2. /\ v.endpoint_id \in PrivEndpoint /\ v.received_at + PrivRetention < cron.now
          /\ cron.now <= clock
      BY <1>3 DEF SafetyInv, CronListed, CronCauses
    <2>3. /\ v.received_at \in Nat /\ PrivRetention \in Nat /\ cron.now \in Nat
          /\ clock \in Nat
      BY EventTypes, RetentionAssumption DEF HandlerInv, TypeOK, RetentionTypeOK, CronState
    <2> QED
      BY <2>1, <2>2, <2>3 DEF Aged
  <1> QED
    BY <1>1, <1>2, <1>3 DEF OtherMove

(* A step is a request's or somebody else's. *)
LEMMA EveryMove ==
  ASSUME HandlerInv, SafetyInv, [Next]_vars
  PROVE  OtherMove \/ \E r \in Request : RequestMove(r)
PROOF
  <1>i. IngestTypeOK /\ StoreInv /\ Shaped
    BY DEF HandlerInv, TypeOK, StoreInv, SafetyInv
  <1> QED
    BY <1>i, TickMoves, CreateMoves, ValidateMoves, StepMoves, FailureMoves, OwnerMoves,
       PurgeMoves, CleanupMoves, NothingMoves DEF Next, vars

(* An event is stored only if, at that moment, the endpoint has no active     *)
(* secret or the request carried an active one (INSERT_EVENT_WITH_GUARDS_SQL). *)
THEOREM SecretsGuardEventsHolds == Spec => SecretsGuardEvents
PROOF
  <1>1. HandlerInv /\ SafetyInv /\ [Next]_vars =>
          [\A v \in events' \ events :
             LET active == ActiveSecrets(v.endpoint_id) IN
             active # {} => req[v.id].header # {} /\ req[v.id].header \subseteq active]_vars
    BY EveryMove, RequestStepPromises, OtherStepPromises
  <1> QED
    BY <1>1, HandlerInvHolds, SafetyInvHolds, PTL DEF Spec, SecretsGuardEvents

(* No event row goes before its objects unless its endpoint has expired, so  *)
(* that an interrupted deletion leaves no object without a row.              *)
THEOREM ObjectsGoFirstHolds == Spec => ObjectsGoFirst
PROOF
  <1>1. HandlerInv /\ SafetyInv /\ [Next]_vars =>
          [\A v \in events \ events' :
             ~Expired(v.endpoint_id) => \A part \in Part : ~Stored(<<v.id, part>>)]_vars
    BY EveryMove, RequestStepPromises, OtherStepPromises
  <1> QED
    BY <1>1, HandlerInvHolds, SafetyInvHolds, PTL DEF Spec, ObjectsGoFirst

-----------------------------------------------------------------------------
(* What is counted for a temporary endpoint *)

(* Slots are taken at endpoints that were created, and finitely many of them *)
(* are held or leaked.                                                       *)
Slots ==
  /\ HeldFinite /\ \A e \in TempEndpoint : IsFiniteSet(Leaked(e))
  /\ \A r \in Request : Running(r) \/ HoldsSlot(r) \/ LeaksSlot(r) =>
       req[r].endpoint \in Endpoint /\ endpoints[req[r].endpoint].status # "none"

ExactInv == Slots /\ NoSlotLeak

(* A step that leaves the counts alone and takes no row away. *)
Stands(r) ==
  /\ HoldsSlot(r)' <=> HoldsSlot(r)
  /\ UNCHANGED endpoints /\ events \subseteq events'

LEMMA ExactInvInit == Init => ExactInv
PROOF
  <1> SUFFICES ASSUME Init PROVE ExactInv
    OBVIOUS
  <1>1. HeldFinite
    BY CapacityInvInit DEF CapacityInv
  <1>2. \A r \in Request : ~Running(r) /\ ~HoldsSlot(r) /\ ~LeaksSlot(r)
    BY DEF Init, IngestInit, NoRequest, Running, HoldsSlot, LeaksSlot
  <1>3. \A e \in TempEndpoint : ~Readable(e)
    BY DEF Readable, Init, StoreInit, Endpoint
  <1>4. \A e : Leaked(e) = {}
    BY <1>2 DEF Leaked, LeaksSlot
  <1> QED
    BY <1>1, <1>2, <1>3, <1>4, FS_EmptySet DEF ExactInv, Slots, NoSlotLeak

(* Nobody but requests changes who holds a slot, or what is counted for an *)
(* endpoint that can be read.                                              *)
LEMMA OtherExact ==
  ASSUME HandlerInv, SafetyInv, ExactInv, OtherMove, Shrinks
  PROVE  ExactInv'
PROOF
  <1>1. UNCHANGED req /\ events' \subseteq events
    BY DEF OtherMove
  <1>2. \A e : Held(e)' = Held(e) /\ Leaked(e)' = Leaked(e)
    BY <1>1 DEF Held, HoldsSlot, Leaked
  <1>3. Slots'
    BY <1>1, <1>2
    DEF ExactInv, Slots, HeldFinite, HoldsSlot, LeaksSlot, Running, OtherMove, LivesOn
  <1>4. ASSUME NEW e \in TempEndpoint, Readable(e)'
        PROVE  endpoints'[e].event_count <=
                 Cardinality(EventsOf(e)') + Cardinality(Held(e)') + Cardinality(Leaked(e)')
    <2>1. e \in Endpoint /\ e \notin PrivEndpoint /\ RowExists(e)'
      BY <1>4, ModeAssumption DEF Endpoint, Readable, RowExists
    <2>2. CASE endpoints[e].status = "none"
      <3>1. EventsOf(e) = {} /\ Held(e) = {} /\ Leaked(e) = {}
        BY <2>2
        DEF SafetyInv, Rows, RowExists, EventsOf, ExactInv, Slots, Held, Leaked, LeaksSlot
      <3>2. EventsOf(e)' = {} /\ Held(e)' = {} /\ Leaked(e)' = {}
        BY <1>1, <1>2, <3>1 DEF EventsOf
      <3>3. endpoints'[e].event_count = 0
        BY <2>1, <2>2 DEF Shrinks, RowExists
      <3> QED
        BY <3>2, <3>3, FS_EmptySet
    <2>3. CASE endpoints[e].status # "none"
      <3>1. Readable(e)
        BY <1>4, <2>1, <2>3, ReadableBefore DEF OtherMove
      <3>2. ASSUME NEW v \in events, v.endpoint_id = e PROVE v \in events'
        <4>1. v.received_at \in Nat /\ ~Aged(e, v.received_at)'
          BY <2>1, EventTypes DEF Aged
        <4> QED
          BY <1>4, <2>1, <2>3, <3>2, <4>1, ReadUntouched DEF SafetyInv
      <3>3. EventsOf(e)' = EventsOf(e)
        BY <1>1, <3>2 DEF EventsOf
      <3>4. endpoints'[e].event_count = endpoints[e].event_count
        BY <2>1, <2>3 DEF Shrinks
      <3> QED
        BY <1>2, <1>4, <3>1, <3>3, <3>4 DEF ExactInv, NoSlotLeak
    <2> QED
      BY <2>2, <2>3
  <1> QED
    BY <1>1, <1>3, <1>4 DEF ExactInv, NoSlotLeak

(* Whoever holds or leaks a slot does so at the endpoint it asked for. *)
LEMMA RequestSlots ==
  ASSUME HandlerInv, Slots, NEW r \in Request, RequestFrame, StaysBound(r)
  PROVE  /\ Slots'
         /\ \A e : Held(e)' \subseteq Held(e) \cup {r}
         /\ \A e : Leaked(e) \subseteq Leaked(e)' /\ Leaked(e)' \subseteq Leaked(e) \cup {r}
PROOF
  <1>0. Running(r) /\ ~LeaksSlot(r)
    BY DEF StaysBound, HandlerInv, Slotted, Running
  <1>1. ASSUME NEW x \in Request,
               Running(x)' \/ HoldsSlot(x)' \/ LeaksSlot(x)'
        PROVE  /\ req'[x].endpoint \in Endpoint
               /\ endpoints'[req'[x].endpoint].status # "none"
    <2>1. req'[x].endpoint = req[x].endpoint
      BY DEF StaysBound
    <2>2. Running(x) \/ HoldsSlot(x) \/ LeaksSlot(x)
      BY <1>0, <1>1 DEF StaysBound, Running, HoldsSlot, LeaksSlot
    <2> QED
      BY <2>1, <2>2 DEF Slots, RequestFrame, SameLives
  <1>2. \A e : Held(e)' \subseteq Held(e) \cup {r}
    BY DEF Held, HoldsSlot, StaysBound
  <1>3. \A e : Leaked(e) \subseteq Leaked(e)' /\ Leaked(e)' \subseteq Leaked(e) \cup {r}
    BY <1>0 DEF Leaked, LeaksSlot, StaysBound
  <1>4. \A e \in TempEndpoint : IsFiniteSet(Held(e)') /\ IsFiniteSet(Leaked(e)')
    BY <1>2, <1>3, AddCard DEF Slots, HeldFinite
  <1> QED
    BY <1>1, <1>2, <1>3, <1>4 DEF Slots, HeldFinite

LEMMA RequestExact ==
  ASSUME HandlerInv, SafetyInv, ExactInv, NEW r \in Request, RequestMove(r), StaysBound(r),
         Stands(r) \/ Drops(r) \/ Takes(r) \/ Releases(r) \/ Inserts(r)
  PROVE  NoSlotLeak'
PROOF
  <1> SUFFICES ASSUME NEW e \in TempEndpoint, Readable(e)'
               PROVE  endpoints'[e].event_count <= Cardinality(EventsOf(e)')
                        + Cardinality(Held(e)') + Cardinality(Leaked(e)')
    BY DEF NoSlotLeak
  <1> DEFINE count == endpoints[e].event_count
             stored == Cardinality(EventsOf(e))
             held == Cardinality(Held(e))
             leaked == Cardinality(Leaked(e))
             stored1 == Cardinality(EventsOf(e)')
             held1 == Cardinality(Held(e)')
             leaked1 == Cardinality(Leaked(e)')
  <1>e. e \in Endpoint /\ Readable(e)
    BY FrameRowExists DEF Endpoint, RequestMove, RequestFrame
  <1>t. endpoints \in [Endpoint -> EndpointRow]
    BY DEF HandlerInv, TypeOK, StoreTypeOK
  <1>s. /\ Leaked(e) \subseteq Leaked(e)' /\ Leaked(e)' \subseteq Leaked(e) \cup {r}
        /\ Held(e)' \subseteq Held(e) \cup {r}
    BY RequestSlots DEF ExactInv, RequestMove
  <1>f. IsFiniteSet(Held(e)) /\ IsFiniteSet(EventsOf(e)) /\ IsFiniteSet(Leaked(e))
    BY EventsOfFinite DEF ExactInv, Slots, HeldFinite, HandlerInv
  <1>v. /\ EventsOf(e) \subseteq EventsOf(e)' /\ IsFiniteSet(EventsOf(e)')
    <2>1. CASE UNCHANGED events
      BY <1>f, <2>1 DEF EventsOf
    <2>2. CASE Records(r)
      <3>1. PICK new : events' = events \cup {new}
        BY <2>2, InsertedRow DEF Records
      <3>2. EventsOf(e) \subseteq EventsOf(e)' /\ EventsOf(e)' \subseteq EventsOf(e) \cup {new}
        BY <3>1 DEF EventsOf
      <3> QED
        BY <1>f, <3>2, AddCard
    <2> QED
      BY <2>1, <2>2 DEF RequestMove, Moves, Puts, Cleans
  <1>c. count <= stored + held + leaked /\ count \in Nat
    BY <1>e, <1>t DEF ExactInv, NoSlotLeak, EndpointRow
  <1>n. /\ stored \in Nat /\ held \in Nat /\ leaked \in Nat
        /\ stored1 \in Nat /\ held1 \in Nat /\ leaked1 \in Nat
        /\ stored <= stored1 /\ leaked <= leaked1
    <2>1. IsFiniteSet(Leaked(e)') /\ IsFiniteSet(Held(e)')
      BY <1>f, <1>s, AddCard
    <2> QED
      BY <1>f, <1>s, <1>v, <2>1, SubsetCard, FS_CardinalityType
  <1>h. \A x \in Request \ {r} : x \in Held(e)' <=> x \in Held(e)
    BY DEF StaysBound, Held, HoldsSlot
  <1>l. r \notin Leaked(e)
    BY DEF Leaked, HandlerInv, Slotted, LeaksSlot, StaysBound, Running
  <1> HIDE DEF count, stored, held, leaked, stored1, held1, leaked1
  <1>1. CASE Stands(r)
    <2>1. r \in Held(e)' <=> r \in Held(e)
      BY <1>1 DEF Stands, Held, HoldsSlot, StaysBound
    <2>2. Held(e)' = Held(e)
      BY <1>h, <2>1 DEF Held
    <2>3. held1 = held /\ endpoints'[e].event_count = count
      BY <1>1, <2>2 DEF Stands, held, held1, count
    <2> QED
      BY <1>c, <1>n, <2>3 DEF stored1, held1, leaked1
  <1>2. CASE req[r].endpoint # e /\ ~Stands(r)
    <2>1. r \notin Held(e)' /\ r \notin Held(e)
      BY <1>2 DEF Held, StaysBound
    <2>2. Held(e)' = Held(e)
      BY <1>h, <2>1 DEF Held
    <2>3. held1 = held /\ endpoints'[e].event_count = count
      BY <1>2, <1>e, <1>t, <2>2
      DEF Drops, Takes, Releases, Inserts, CountUp, CountDown, held, held1, count
    <2> QED
      BY <1>c, <1>n, <2>3 DEF stored1, held1, leaked1
  <1>3. CASE req[r].endpoint = e /\ Takes(r)
    <2>1. endpoints'[e].event_count = count + 1
      BY <1>3, <1>e, <1>t DEF Takes, CountUp, EndpointRow, count
    <2>2. ~HoldsSlot(r)
      BY <1>3 DEF Takes, SafetyInv, Shaped, Shape, At, HoldsSlot
    <2>3. CASE HoldsSlot(r)'
      <3>1. Held(e)' = Held(e) \cup {r} /\ r \notin Held(e)
        BY <1>3, <1>h, <2>2, <2>3 DEF Held, StaysBound
      <3>2. held1 = held + 1
        BY <1>f, <3>1, FS_AddElement DEF held, held1
      <3> QED
        BY <1>c, <1>n, <2>1, <3>2 DEF stored1, held1, leaked1
    <2>4. CASE ~HoldsSlot(r)'
      <3>1. Held(e)' = Held(e)
        BY <1>h, <2>2, <2>4 DEF Held
      <3>2. Leaked(e)' = Leaked(e) \cup {r}
        BY <1>3, <1>s, <2>4 DEF Takes, Leaked, LeaksSlot, StaysBound
      <3>3. held1 = held /\ leaked1 = leaked + 1
        BY <1>f, <1>l, <3>1, <3>2, FS_AddElement DEF held, held1, leaked, leaked1
      <3> QED
        BY <1>c, <1>n, <2>1, <3>3 DEF stored1, held1, leaked1
    <2> QED
      BY <2>3, <2>4
  <1>4. CASE req[r].endpoint = e /\ Releases(r)
    <2>1. r \in Held(e) /\ Held(e)' = Held(e) \ {r}
      BY <1>4, <1>h DEF Releases, Held
    <2>2. held1 = held - 1
      BY <1>f, <2>1, FS_RemoveElement DEF held, held1
    <2>3. endpoints'[e].event_count = IF count > 0 THEN count - 1 ELSE 0
      BY <1>4, <1>e, <1>t DEF Releases, CountDown, EndpointRow, count
    <2> QED
      BY <1>c, <1>n, <2>2, <2>3 DEF stored1, held1, leaked1
  <1>5. CASE req[r].endpoint = e /\ Inserts(r)
    <2>1. r \in Held(e) /\ Held(e)' = Held(e) \ {r}
      BY <1>5, <1>h DEF Inserts, Held
    <2>2. held1 = held - 1
      BY <1>f, <2>1, FS_RemoveElement DEF held, held1
    <2>3. PICK new : events' = events \cup {new} /\ new.id = r /\ new.endpoint_id = e
      BY <1>5, InsertedRow DEF Inserts
    <2>4. new \notin events
      BY <1>5, <2>3 DEF Inserts, SafetyInv, Rows, Settled, At
    <2>5. EventsOf(e)' = EventsOf(e) \cup {new} /\ new \notin EventsOf(e)
      BY <2>3, <2>4 DEF EventsOf
    <2>6. stored1 = stored + 1
      BY <1>f, <2>5, FS_AddElement DEF stored, stored1
    <2>7. endpoints'[e].event_count = count
      BY <1>5 DEF Inserts, count
    <2> QED
      BY <1>c, <1>n, <2>2, <2>6, <2>7 DEF stored1, held1, leaked1
  <1>6. CASE req[r].endpoint = e /\ Drops(r)
    <2>1. endpoints'[e].event_count = count
      BY <1>6 DEF Drops, count
    <2>2. CASE HoldsSlot(r)
      <3>1. r \in Held(e) /\ Held(e)' = Held(e) \ {r}
        BY <1>6, <1>h, <2>2 DEF Drops, Held
      <3>2. held1 = held - 1
        BY <1>f, <3>1, FS_RemoveElement DEF held, held1
      <3>3. Leaked(e)' = Leaked(e) \cup {r}
        BY <1>6, <1>s, <2>2 DEF Drops, Leaked, LeaksSlot, StaysBound
      <3>4. leaked1 = leaked + 1
        BY <1>f, <1>l, <3>3, FS_AddElement DEF leaked, leaked1
      <3> QED
        BY <1>c, <1>n, <2>1, <3>2, <3>4 DEF stored1, held1, leaked1
    <2>3. CASE ~HoldsSlot(r)
      <3>1. Held(e)' = Held(e)
        BY <1>6, <1>h, <2>3 DEF Drops, Held
      <3>2. held1 = held
        BY <3>1 DEF held, held1
      <3> QED
        BY <1>c, <1>n, <2>1, <3>2 DEF stored1, held1, leaked1
    <2> QED
      BY <2>2, <2>3
  <1> QED
    BY <1>1, <1>2, <1>3, <1>4, <1>5, <1>6

LEMMA ExactInvNext == HandlerInv /\ SafetyInv /\ ExactInv /\ [Next]_vars => ExactInv'
PROOF
  <1> SUFFICES ASSUME HandlerInv, SafetyInv, ExactInv, [Next]_vars PROVE ExactInv'
    OBVIOUS
  <1>i. /\ IngestTypeOK /\ StoreInv /\ Shaped /\ Bound /\ Slotted
        /\ Slots /\ NoSlotLeak
    BY DEF HandlerInv, TypeOK, StoreInv, SafetyInv, ExactInv
  <1>u. ASSUME UNCHANGED <<endpoints, events, req>> PROVE Shrinks
    BY <1>u DEF Shrinks, HoldsSlot, RowExists
  <1>1. CASE Tick
    BY <1>1, <1>i, <1>u, TickMoves, OtherExact DEF Tick, d1Vars
  <1>2. CASE \E e \in Endpoint : CreateEndpoint(e) /\ UNCHANGED <<req, job, cron>>
    BY <1>2, <1>i, CreateMoves, CreateShrinks, OtherExact
  <1>3. CASE \E r \in Request, e \in Endpoint, h \in Credential :
               ValidateEndpoint(r, e, h) /\ RequestOnly
    <2>1. PICK r \in Request, e \in Endpoint, h \in Credential :
                 ValidateEndpoint(r, e, h) /\ RequestOnly
      BY <1>3
    <2>2. UNCHANGED storeVars /\ UNCHANGED job /\ At(r, "idle")
      BY <2>1 DEF ValidateEndpoint, RequestOnly
    <2>3. \A x \in Request : HoldsSlot(x)' =>
            HoldsSlot(x) /\ req'[x].endpoint = req[x].endpoint
      BY <1>i, <2>1, <2>2, ValidateEndpointBound
    <2>4. \A x \in Request \ {r} : req'[x] = req[x]
      BY <1>i, <2>1, ValidateMoves DEF RequestMove, Onward
    <2>5. ~HoldsSlot(r) /\ ~LeaksSlot(r)
      BY <1>i, <2>2 DEF Shaped, Shape, At, HoldsSlot, LeaksSlot
    <2>8. /\ ~HoldsSlot(r)' /\ ~LeaksSlot(r)'
          /\ Running(r)' => e \in Endpoint /\ endpoints[e].status # "none"
                            /\ req'[r].endpoint = e
      <3> DEFINE first == [NoRequest EXCEPT !.pc = "reserve", !.endpoint = e, !.header = h]
                 last(code) == [NoRequest EXCEPT !.pc = "done", !.endpoint = e,
                                                 !.response = code]
      <3>1. first.undo = {} /\ first.left = {} /\ first.endpoint = e
        BY DEF NoRequest
      <3>2. \A code : last(code).undo = {} /\ last(code).left = {} /\ last(code).pc = "done"
        BY DEF NoRequest
      <3>3. \/ Become(r, first) /\ endpoints[e].status = "active"
            \/ \E code \in {404, 410} : Become(r, last(code))
        <4> DEFINE refusal == IF endpoints[e].status # "active" THEN 404
                              ELSE IF Expired(e) THEN 410 ELSE 0
        <4>1. \/ refusal = 0 /\ endpoints[e].status = "active"
              \/ refusal \in {404, 410} /\ refusal # 0
          OBVIOUS
        <4>2. IF refusal = 0 THEN Become(r, first) ELSE Become(r, last(refusal))
          BY <2>1 DEF ValidateEndpoint
        <4> HIDE DEF refusal
        <4> QED
          BY <4>1, <4>2
      <3> HIDE DEF first, last
      <3> QED
        BY <1>i, <3>1, <3>2, <3>3, BecomeShape DEF HoldsSlot, LeaksSlot, Running
    <2>6. \A e1 : Held(e1)' = Held(e1) /\ Leaked(e1)' = Leaked(e1)
      BY <2>4, <2>5, <2>8 DEF Held, HoldsSlot, Leaked, LeaksSlot
    <2>7. UNCHANGED <<endpoints, events, clock>>
      BY <2>2 DEF storeVars, d1Vars
    <2>9. Slots'
      BY <1>i, <2>4, <2>6, <2>7, <2>8
      DEF Slots, HeldFinite, Running, HoldsSlot, LeaksSlot
    <2> QED
      BY <1>i, <2>6, <2>7, <2>9 DEF ExactInv, NoSlotLeak, EventsOf, Readable, Expired
  <1>4. CASE \E r \in Request : RequestStep(r)
    <2>1. PICK r \in Request : RequestStep(r)
      BY <1>4
    <2>2. /\ RequestMove(r) /\ StaysBound(r)
          /\ Stands(r) \/ Takes(r) \/ Releases(r) \/ Inserts(r)
      BY <1>i, <2>1, StepMoves, RequestStepShape DEF Keeps, Stands
    <2>3. Slots'
      BY <1>i, <2>2, RequestSlots DEF RequestMove
    <2> QED
      BY <2>2, <2>3, RequestExact DEF ExactInv
  <1>5. CASE \E r \in Request : RequestFailure(r)
    <2>1. PICK r \in Request : RequestFailure(r)
      BY <1>5
    <2>2. RequestMove(r) /\ StaysBound(r)
      BY <1>i, <2>1, FailureMoves, RequestFailureShape
    <2>3. Slots'
      BY <1>i, <2>2, RequestSlots DEF RequestMove
    <2>4. events \subseteq events'
      BY <2>2, RequestReach
    <2>5. Stands(r) \/ Drops(r) \/ Takes(r)
      BY <1>i, <2>1, <2>4, RequestFailureShape DEF Keeps, Stands
    <2> QED
      BY <2>2, <2>3, <2>5, RequestExact DEF ExactInv
  <1>6. CASE \E o \in Owner : OwnerStep(o)
    BY <1>6, <1>i, OwnerMoves, OwnerStepShrinks, OtherExact
  <1>7. CASE \E p \in Job : PurgeStep(p)
    BY <1>7, <1>i, PurgeMoves, PurgeStepShrinks, OtherExact
  <1>8. CASE CleanupStep \/ (CleanupFails /\ UNCHANGED req)
    <2>1. OtherMove
      BY <1>8, <1>i, CleanupMoves
    <2>2. Shrinks
      BY <1>8, <2>1, CleanupShrinks DEF OtherMove
    <2> QED
      BY <2>1, <2>2, OtherExact
  <1>9. CASE UNCHANGED vars
    <2>1. UNCHANGED <<storeVars, req>> /\ UNCHANGED <<endpoints, events, req>>
      BY <1>9 DEF vars, storeVars, d1Vars
    <2> QED
      BY <1>i, <1>u, <2>1, NothingMoves, OtherExact
  <1> QED
    BY <1>1, <1>2, <1>3, <1>4, <1>5, <1>6, <1>7, <1>8, <1>9 DEF Next

(* releaseTemporaryEventSlot: whatever calls throw, a readable temporary     *)
(* endpoint counts no more than its events, the slots still held and those   *)
(* the code could not give back, so that a 429 means as many of these as the *)
(* limit.                                                                    *)
THEOREM NoSlotLeakHolds == Spec => []NoSlotLeak
PROOF
  <1>1. Init => ExactInv
    BY ExactInvInit
  <1>2. HandlerInv /\ SafetyInv /\ ExactInv /\ [Next]_vars => ExactInv'
    BY ExactInvNext
  <1>3. ExactInv => NoSlotLeak
    BY DEF ExactInv
  <1> QED
    BY <1>1, <1>2, <1>3, HandlerInvHolds, SafetyInvHolds, PTL DEF Spec

-----------------------------------------------------------------------------
(* The storage side implements EventLedger *)

Life      == [e \in Endpoint |-> LifeOf(e)]
KeptPairs == {<<v.id, v.endpoint_id>> : v \in events}
AgedPairs == {<<v.id, v.endpoint_id>> : v \in {w \in events : Aged(w.endpoint_id, w.received_at)}}

LEMMA LifeUnchanged ==
  ASSUME SameLives, UNCHANGED <<events, clock>>
  PROVE  UNCHANGED <<Life, KeptPairs, AgedPairs>>
PROOF
  <1>1. \A e \in Endpoint : LifeOf(e)' = LifeOf(e)
    BY DEF SameLives, LifeOf, Expired
  <1> QED
    BY <1>1 DEF Life, KeptPairs, AgedPairs, Aged

(* Who is open, closed or gone, read off the tables. *)
LEMMA LifeCases ==
  ASSUME HandlerInv, NEW e \in Endpoint
  PROVE  /\ Life[e] = LifeOf(e)
         /\ endpoints[e].status = "active" => Life[e] \in {"open", "lapsed"}
         /\ Closing(e) /\ RowExists(e) => Life[e] \in {"lapsed", "closed"}
  BY DEF Life, LifeOf, Closing, RowExists

LEMMA LedgerInit == Init => Ledger!Init
PROOF
  <1> SUFFICES ASSUME Init PROVE Ledger!Init
    OBVIOUS
  <1>1. events = {} /\ \A e \in Endpoint : LifeOf(e) = "none"
    BY DEF Init, StoreInit, LifeOf
  <1> QED
    BY <1>1 DEF Ledger!Init

LEMMA LedgerOpen ==
  ASSUME HandlerInv, NEW e \in Endpoint, CreateEndpoint(e)
  PROVE  Ledger!Open(e)
PROOF
  <1>1. endpoints \in [Endpoint -> EndpointRow] /\ clock \in Nat
    BY DEF HandlerInv, TypeOK, StoreTypeOK
  <1>2. /\ \A x \in Endpoint \ {e} : endpoints'[x] = endpoints[x]
        /\ endpoints[e].status = "none" /\ endpoints'[e].status = "active"
        /\ endpoints'[e].expires_at = clock + IF e \in PrivEndpoint THEN PrivTtl ELSE TempTtl
        /\ UNCHANGED <<events, clock>>
    BY <1>1 DEF CreateEndpoint
  <1>3. ~Expired(e)'
    BY <1>1, <1>2, TimeAssumption DEF Expired
  <1>4. /\ LifeOf(e) = "none" /\ LifeOf(e)' = "open"
        /\ \A x \in Endpoint \ {e} : LifeOf(x)' = LifeOf(x)
    BY <1>2, <1>3 DEF LifeOf, Expired
  <1>5. Life[e] = "none" /\ Life' = [Life EXCEPT ![e] = "open"]
    BY <1>4 DEF Life
  <1>6. UNCHANGED <<KeptPairs, AgedPairs>>
    BY <1>2 DEF KeptPairs, AgedPairs, Aged
  <1> QED
    BY <1>5, <1>6 DEF Ledger!Open, Life, KeptPairs, AgedPairs

LEMMA LedgerLapse ==
  ASSUME HandlerInv, Tick
  PROVE  \E S \in SUBSET Endpoint, A \in SUBSET Ledger!Ageing(KeptPairs) : Ledger!Lapse(S, A)
PROOF
  <1> DEFINE S == {e \in Endpoint : Life[e] = "open" /\ Expired(e)'}
             A == {k \in AgedPairs' : k \notin AgedPairs}
  <1>1. /\ clock \in Nat /\ clock' = clock + 1 /\ UNCHANGED <<endpoints, events>>
        /\ PrivRetention \in Nat
        /\ \A e \in Endpoint : endpoints[e].expires_at \in Nat
        /\ \A v \in events : v.received_at \in Nat
    BY RetentionAssumption, EventTypes
    DEF Tick, d1Vars, HandlerInv, TypeOK, StoreTypeOK, EndpointRow
  <1>2. \A e \in Endpoint : Expired(e) => Expired(e)'
    BY <1>1 DEF Expired
  <1>3. ASSUME NEW e \in Endpoint
        PROVE  LifeOf(e)' = IF e \in S THEN "lapsed" ELSE LifeOf(e)
    <2>1. Life[e] = LifeOf(e)
      BY LifeCases
    <2>2. endpoints[e].status \in {"none", "active", "disabled", "deleted"}
      BY DEF HandlerInv, TypeOK, StoreTypeOK, EndpointRow
    <2>3. e \in S <=> endpoints[e].status = "active" /\ ~Expired(e) /\ Expired(e)'
      BY <2>1, <2>2 DEF LifeOf
    <2>4. endpoints'[e].status = endpoints[e].status
      BY <1>1
    <2> HIDE DEF S
    <2> QED
      BY <1>2, <2>2, <2>3, <2>4 DEF LifeOf
  <1>4. Life' = [e \in Endpoint |-> IF e \in S THEN "lapsed" ELSE Life[e]]
    BY <1>3 DEF Life
  <1>5. KeptPairs' = KeptPairs
    BY <1>1 DEF KeptPairs
  <1>6. AgedPairs \subseteq AgedPairs'
    BY <1>1 DEF AgedPairs, Aged
  <1>7. AgedPairs' = AgedPairs \cup A
    BY <1>6
  <1>8. ASSUME NEW k \in AgedPairs' PROVE k \in KeptPairs /\ k[2] \notin TempEndpoint
    <2>1. PICK v \in events : k = <<v.id, v.endpoint_id>> /\ v.endpoint_id \in PrivEndpoint
      BY <1>1 DEF AgedPairs, Aged
    <2> QED
      BY <2>1, ModeAssumption DEF KeptPairs
  <1>9. A \in SUBSET Ledger!Ageing(KeptPairs)
    BY <1>8 DEF Ledger!Ageing
  <1>10. \A e \in S : Life[e] = "open"
    OBVIOUS
  <1> HIDE DEF S, A
  <1>11. S \in SUBSET Endpoint
    BY DEF S
  <1>12. PICK T \in SUBSET Endpoint, B \in SUBSET Ledger!Ageing(KeptPairs) : T = S /\ B = A
    BY <1>9, <1>11
  <1>13. Ledger!Lapse(T, B)
    BY <1>4, <1>5, <1>7, <1>10, <1>12 DEF Ledger!Lapse, Life, KeptPairs, AgedPairs
  <1> QED
    BY <1>13

(* A step that changes one endpoint's status and nothing else of it. *)
LEMMA LifeChange ==
  ASSUME NEW e \in Endpoint, UNCHANGED <<events, clock>>,
         \A x \in Endpoint \ {e} : /\ endpoints'[x].status = endpoints[x].status
                                   /\ endpoints'[x].expires_at = endpoints[x].expires_at
  PROVE  /\ Life' = [Life EXCEPT ![e] = LifeOf(e)']
         /\ UNCHANGED <<KeptPairs, AgedPairs>>
PROOF
  <1>1. \A x \in Endpoint \ {e} : LifeOf(x)' = LifeOf(x)
    BY DEF LifeOf, Expired
  <1>2. UNCHANGED <<KeptPairs, AgedPairs>>
    BY DEF KeptPairs, AgedPairs, Aged
  <1> QED
    BY <1>1, <1>2 DEF Life

LEMMA LedgerClose ==
  ASSUME HandlerInv, SafetyInv, NEW o \in Owner, DisableEndpoint(o)
  PROVE  \/ UNCHANGED <<Life, KeptPairs, AgedPairs>>
         \/ \E e \in Endpoint : Ledger!Close(e)
PROOF
  <1>1. CASE UNCHANGED endpoints
    BY <1>1, LifeUnchanged DEF DisableEndpoint, SameLives
  <1>2. CASE ~UNCHANGED endpoints
    <2>1. PICK e \in Endpoint : e = job[o].endpoint
      BY DEF SafetyInv, JobCauses, DisableEndpoint, Job
    <2>2. /\ endpoints[e].status = "active" /\ UNCHANGED <<events, clock>>
          /\ endpoints' = [endpoints EXCEPT ![e].status = "disabled"]
      BY <1>2, <2>1 DEF DisableEndpoint
    <2>3. /\ \A x \in Endpoint \ {e} : endpoints'[x] = endpoints[x]
          /\ endpoints'[e].status = "disabled"
      BY <2>2 DEF HandlerInv, TypeOK, StoreTypeOK, EndpointRow
    <2>4. LifeOf(e)' = "closed"
      BY <2>3 DEF LifeOf
    <2>5. Life[e] \in {"open", "lapsed"}
      BY <2>2, LifeCases
    <2>6. Life' = [Life EXCEPT ![e] = "closed"] /\ UNCHANGED <<KeptPairs, AgedPairs>>
      BY <2>2, <2>3, <2>4, LifeChange
    <2>7. Ledger!Close(e)
      BY <2>5, <2>6 DEF Ledger!Close, Ledger!Accepting, Life, KeptPairs, AgedPairs
    <2> QED
      BY <2>7
  <1> QED
    BY <1>1, <1>2

(* The row of an endpoint goes only when none of its events is left. *)
LEMMA LedgerVanish ==
  ASSUME HandlerInv, SafetyInv, NEW p \in Job, DeleteEndpoint(p)
  PROVE  \/ UNCHANGED <<Life, KeptPairs, AgedPairs>>
         \/ \E e \in Endpoint : Ledger!Vanish(e)
PROOF
  <1>1. PICK e \in Endpoint : e = job[p].endpoint /\ Closing(e)
    BY DEF SafetyInv, JobCauses, DeleteEndpoint, Purging, Doing, Closing
  <1>2. /\ EventsOf(e) = {} /\ DeleteEndpointRow(e) /\ UNCHANGED <<events, clock>>
    BY <1>1 DEF DeleteEndpoint, CanDeleteEndpoint
  <1>3. endpoints \in [Endpoint -> EndpointRow]
    BY DEF HandlerInv, TypeOK, StoreTypeOK
  <1>4. CASE ~RowExists(e)
    <2>1. endpoints' = endpoints
      BY <1>2, <1>3, <1>4 DEF DeleteEndpointRow
    <2> QED
      BY <1>2, <2>1, LifeUnchanged DEF SameLives
  <1>5. CASE RowExists(e)
    <2>1. /\ \A x \in Endpoint \ {e} : endpoints'[x] = endpoints[x]
          /\ endpoints'[e].status = "deleted"
      BY <1>2, <1>3, <1>5 DEF DeleteEndpointRow, EndpointRow
    <2>2. LifeOf(e)' = "gone"
      BY <2>1 DEF LifeOf
    <2>3. Life[e] \in {"lapsed", "closed"}
      BY <1>1, <1>5, LifeCases
    <2>4. {k \in KeptPairs : k[2] = e} = {}
      BY <1>2 DEF KeptPairs, EventsOf
    <2>5. Life' = [Life EXCEPT ![e] = "gone"] /\ UNCHANGED <<KeptPairs, AgedPairs>>
      BY <1>2, <2>1, <2>2, LifeChange
    <2>6. Ledger!Vanish(e)
      BY <2>3, <2>4, <2>5
      DEF Ledger!Vanish, Ledger!Discarding, Ledger!KeptFor, Life, KeptPairs, AgedPairs
    <2> QED
      BY <2>6
  <1> QED
    BY <1>4, <1>5

(* A step of anybody else takes rows away, for a cause, or leaves them. *)
LEMMA LedgerDiscard ==
  ASSUME HandlerInv, SafetyInv, OtherMove, SameLives, UNCHANGED clock
  PROVE  \E D \in SUBSET KeptPairs : Ledger!Discard(D)
PROOF
  <1>1. PICK D \in SUBSET KeptPairs : D = {<<v.id, v.endpoint_id>> : v \in events \ events'}
    BY DEF KeptPairs
  <1>2. events' \subseteq events
    BY OtherStepPromises
  <1>3. ASSUME NEW v \in events, NEW w \in events, <<v.id, v.endpoint_id>> = <<w.id, w.endpoint_id>>
        PROVE  v = w
    BY <1>3 DEF SafetyInv, Rows
  <1>4. KeptPairs' = KeptPairs \ D
    BY <1>1, <1>2, <1>3 DEF KeptPairs
  <1>5. AgedPairs' = AgedPairs \ D
    BY <1>1, <1>2, <1>3 DEF AgedPairs, Aged
  <1>6. Life' = Life
    <2>1. \A e \in Endpoint : LifeOf(e)' = LifeOf(e)
      BY DEF SameLives, LifeOf, Expired
    <2> QED
      BY <2>1 DEF Life
  <1>7. ASSUME NEW k \in D PROVE Life[k[2]] \in {"lapsed", "closed"} \/ k \in AgedPairs
    <2>1. PICK v \in events \ events' : k = <<v.id, v.endpoint_id>>
      BY <1>1
    <2>2. RowExists(v.endpoint_id) /\ v.endpoint_id \in Endpoint /\ k[2] = v.endpoint_id
      BY <2>1, EventTypes DEF SafetyInv, Rows
    <2>3. CASE Aged(v.endpoint_id, v.received_at)
      BY <2>1, <2>3 DEF AgedPairs
    <2>4. CASE ~Aged(v.endpoint_id, v.received_at)
      <3>1. Closing(v.endpoint_id)
        BY <2>1, <2>2, <2>4, OtherStepPromises DEF Closing, RowExists
      <3> QED
        BY <2>2, <3>1, LifeCases
    <2> QED
      BY <2>3, <2>4
  <1>8. Ledger!Discard(D)
    BY <1>4, <1>5, <1>6, <1>7 DEF Ledger!Discard, Ledger!Discarding, Life, KeptPairs, AgedPairs
  <1> QED
    BY <1>8

(* The ledger counts no more events for an endpoint than the table has rows. *)
LEMMA KeptCount ==
  ASSUME HandlerInv, NEW e
  PROVE  LET K == {k \in KeptPairs : k[2] = e} IN
         /\ Cardinality(EventsOf(e)) \in Nat /\ Cardinality(K) \in Nat
         /\ Cardinality(K) <= Cardinality(EventsOf(e))
PROOF
  <1> DEFINE K == {k \in KeptPairs : k[2] = e}
             S == EventsOf(e)
             f == [v \in S |-> <<v.id, v.endpoint_id>>]
  <1>1. IsFiniteSet(S)
    BY EventsOfFinite DEF HandlerInv
  <1>2. K = {<<v.id, v.endpoint_id>> : v \in S}
    BY DEF KeptPairs, EventsOf
  <1> HIDE DEF K, S
  <1>3. f \in Surjection(S, K)
    BY <1>2 DEF Surjection
  <1>4. IsFiniteSet(K) /\ Cardinality(K) <= Cardinality(S)
    BY <1>1, <1>3, FS_Surjection
  <1>5. Cardinality(K) \in Nat /\ Cardinality(S) \in Nat
    BY <1>1, <1>4, FS_CardinalityType
  <1> QED
    BY <1>4, <1>5 DEF K, S

(* The slot of the request whose row is inserted is one the limit counts. *)
LEMMA RoomForOne ==
  ASSUME HandlerInv, SafetyInv, CapacityInv, NEW r \in Request, At(r, "insert"),
         NEW e \in TempEndpoint, e = req[r].endpoint, endpoints[e].status = "active"
  PROVE  Cardinality({k \in KeptPairs : k[2] = e}) < TempLimit
PROOF
  <1>1. r \in Held(e)
    BY DEF SafetyInv, Shaped, Shape, Held, HoldsSlot, At
  <1>2. Cardinality(Held(e)) \in Nat /\ Cardinality(Held(e)) # 0
    BY <1>1, FS_EmptySet, FS_CardinalityType DEF CapacityInv, HeldFinite
  <1>3. /\ Cardinality(EventsOf(e)) + Cardinality(Held(e)) <= endpoints[e].event_count
        /\ endpoints[e].event_count <= TempLimit
    BY DEF CapacityInv, TemporaryCapacity, RowExists
  <1>4. endpoints[e].event_count \in Nat /\ TempLimit \in Nat
    BY LimitAssumption DEF HandlerInv, TypeOK, StoreTypeOK, EndpointRow, Endpoint
  <1>5. LET K == {k \in KeptPairs : k[2] = e} IN
         /\ Cardinality(EventsOf(e)) \in Nat /\ Cardinality(K) \in Nat
         /\ Cardinality(K) <= Cardinality(EventsOf(e))
    BY KeptCount
  <1> DEFINE k == Cardinality({x \in KeptPairs : x[2] = e})
  <1>6. /\ Cardinality(EventsOf(e)) \in Nat /\ k \in Nat /\ k <= Cardinality(EventsOf(e))
    BY <1>5
  <1> HIDE DEF k
  <1>7. k < TempLimit
    BY <1>2, <1>3, <1>4, <1>6
  <1> QED
    BY <1>7 DEF k

LEMMA LedgerAccept ==
  ASSUME HandlerInv, SafetyInv, CapacityInv, NEW r \in Request, RequestMove(r)
  PROVE  \/ UNCHANGED <<Life, KeptPairs, AgedPairs>>
         \/ \E e \in Endpoint : Ledger!Accept(r, e)
PROOF
  <1>1. SameLives /\ UNCHANGED clock
    BY DEF RequestMove, RequestFrame
  <1>2. CASE UNCHANGED events
    BY <1>1, <1>2, LifeUnchanged
  <1>3. CASE Records(r)
    <2>1. PICK e \in Endpoint : e = req[r].endpoint /\ endpoints[e].status = "active"
      BY <1>3 DEF Records, InsertGuard, HandlerInv, Bound, Running, At
    <2>2. At(r, "insert")
      BY <1>3 DEF Records
    <2>3. PICK v : /\ events' = events \cup {v} /\ v.id = r /\ v.endpoint_id = e
                   /\ v.received_at = req[r].receivedAt
      <3> DEFINE row == [id |-> r, endpoint_id |-> req[r].endpoint,
                         sequence |-> next_sequence, received_at |-> req[r].receivedAt]
      <3>1. events' = events \cup {row}
        BY <1>3 DEF Records, InsertEvent
      <3>2. /\ row.id = r /\ row.endpoint_id = e /\ row.received_at = req[r].receivedAt
        BY <2>1
      <3> HIDE DEF row
      <3> QED
        BY <3>1, <3>2
    <2>4. Life[e] \in {"open", "lapsed"}
      BY <2>1, LifeCases
    <2>5. \A k \in KeptPairs : k[1] # r
      BY <2>2 DEF SafetyInv, Rows, Settled, At, KeptPairs
    <2>6. e \in TempEndpoint => Cardinality({k \in KeptPairs : k[2] = e}) < TempLimit
      BY <2>1, <2>2, RoomForOne
    <2>7. Life' = Life
      <3>1. \A x \in Endpoint : LifeOf(x)' = LifeOf(x)
        BY <1>1 DEF SameLives, LifeOf, Expired
      <3> QED
        BY <3>1 DEF Life
    <2>8. KeptPairs' = KeptPairs \cup {<<r, e>>}
      BY <2>3 DEF KeptPairs
    <2>9. \E A \in SUBSET Ledger!Ageing({<<r, e>>}) : AgedPairs' = AgedPairs \cup A
      <3>1. PICK A : A = IF Aged(e, v.received_at) THEN {<<r, e>>} ELSE {}
        OBVIOUS
      <3>2. Aged(e, v.received_at) => e \notin TempEndpoint
        BY ModeAssumption DEF Aged
      <3>3. A \in SUBSET Ledger!Ageing({<<r, e>>})
        BY <3>1, <3>2 DEF Ledger!Ageing
      <3>4. AgedPairs' = AgedPairs \cup A
        BY <1>1, <2>3, <3>1 DEF AgedPairs, Aged
      <3> QED
        BY <3>3, <3>4
    <2>c. \A S : Ledger!Cardinality(S) = Cardinality(S)
      BY DEF Ledger!Cardinality, Ledger!IsFiniteSet, Cardinality, IsFiniteSet
    <2>10. Ledger!Accept(r, e)
      BY <2>c, <2>4, <2>5, <2>6, <2>7, <2>8, <2>9
      DEF Ledger!Accept, Ledger!Accepting, Ledger!KeptFor, Life, KeptPairs, AgedPairs
    <2> QED
      BY <2>10
  <1> QED
    BY <1>2, <1>3 DEF RequestMove, Moves, Puts, Cleans

(* Each handler's step is one of the ledger's, or changes nothing it sees. *)
LEMMA LedgerOthers ==
  ASSUME HandlerInv, SafetyInv,
         \/ \E o \in Owner : OwnerStep(o)
         \/ \E p \in Job : PurgeStep(p)
         \/ CleanupStep \/ (CleanupFails /\ UNCHANGED req)
         \/ UNCHANGED vars
  PROVE  Ledger!Next \/ UNCHANGED <<Life, KeptPairs, AgedPairs>>
PROOF
  <1>i. StoreInv /\ endpoints \in [Endpoint -> EndpointRow]
    BY DEF HandlerInv, TypeOK, StoreInv, StoreTypeOK
  <1>1. OtherMove
    BY <1>i, OwnerMoves, PurgeMoves, CleanupMoves, NothingMoves DEF vars
  <1>2. CASE SameLives /\ UNCHANGED clock
    <2>1. \E D \in SUBSET KeptPairs : Ledger!Discard(D)
      BY <1>1, <1>2, LedgerDiscard
    <2> QED
      BY <2>1 DEF Ledger!Next, KeptPairs
  <1>3. CASE \E o \in Owner : DisableEndpoint(o)
    BY <1>3, LedgerClose DEF Ledger!Next
  <1>4. CASE \E p \in Job : DeleteEndpoint(p)
    BY <1>4, LedgerVanish DEF Ledger!Next
  <1>5. UNCHANGED <<endpoints, clock>> => SameLives /\ UNCHANGED clock
    BY DEF SameLives
  <1>6. ASSUME NEW o \in Owner, OwnerStep(o)
        PROVE  DisableEndpoint(o) \/ (SameLives /\ UNCHANGED clock)
    BY <1>5, <1>6 DEF OwnerStep, FindForDelete, FindForCreateSecret, FindForRevokeSecret,
        FindForSecret, CreateEndpointSecret, RevokeEndpointSecret, OwnerRequestFails,
        OwnerDeleteRefused, storeVars, d1Vars
  <1>7. ASSUME NEW p \in Job, PurgeStep(p)
        PROVE  DeleteEndpoint(p) \/ (SameLives /\ UNCHANGED clock)
    BY <1>5, <1>7 DEF PurgeStep, ListObjectKeys, DeleteObjectBatch, DeleteEvents, DeleteSecrets,
        storeVars, d1Vars
  <1>8. CleanupStep \/ CleanupFails => SameLives /\ UNCHANGED clock
    <2>1. ReconcilePrivateCounts => SameLives /\ UNCHANGED clock
      BY <1>i DEF ReconcilePrivateCounts, ReconcileCounts, EndpointRow, SameLives
    <2> QED
      BY <1>5, <2>1 DEF CleanupStep, StartCleanup, ListExpiredTemporary, ListExpiredPrivate,
        ListExpired, PurgeNextExpired, ListOldEvents, DeleteOldRows, ListOldObjects, LookUpEvent,
        ScanDone, DeleteKeyBatch, CleanupDeleteRefused, CleanupFails, storeVars, d1Vars
  <1>9. UNCHANGED vars => SameLives /\ UNCHANGED clock
    BY <1>5 DEF vars, storeVars, d1Vars
  <1> QED
    BY <1>2, <1>3, <1>4, <1>6, <1>7, <1>8, <1>9

LEMMA LedgerNext ==
  ASSUME HandlerInv, SafetyInv, CapacityInv, [Next]_vars
  PROVE  Ledger!Next \/ UNCHANGED <<Life, KeptPairs, AgedPairs>>
PROOF
  <1>i. IngestTypeOK /\ StoreInv /\ Shaped
    BY DEF HandlerInv, TypeOK, StoreInv, SafetyInv
  <1>1. CASE Tick
    BY <1>1, LedgerLapse DEF Ledger!Next, KeptPairs
  <1>2. CASE \E e \in Endpoint : CreateEndpoint(e)
    BY <1>2, LedgerOpen DEF Ledger!Next
  <1>3. CASE \E r \in Request : RequestMove(r)
    BY <1>3, LedgerAccept DEF Ledger!Next
  <1>4. (\/ \E r \in Request, e \in Endpoint, h \in Credential :
              ValidateEndpoint(r, e, h) /\ RequestOnly
         \/ \E r \in Request : RequestStep(r) \/ RequestFailure(r))
          => \E r \in Request : RequestMove(r)
    BY <1>i, ValidateMoves, StepMoves, FailureMoves
  <1> QED
    BY <1>1, <1>2, <1>3, <1>4, LedgerOthers DEF Next

(* The storage side implements EventLedger: an accepted event stays until its *)
(* endpoint expires or is closed or its retention is over, an endpoint goes   *)
(* only when nothing is kept for it, and a temporary endpoint never keeps     *)
(* more than its limit, when a failed insert has left no row.                 *)
THEOREM LedgerPromiseHolds ==
  ASSUME AmbiguousInsert = FALSE
  PROVE  Spec => LedgerPromise
PROOF
  <1>1. HandlerInv /\ SafetyInv /\ CapacityInv /\ [Next]_vars => [Ledger!Next]_(Ledger!ledgerVars)
    <2> SUFFICES ASSUME HandlerInv, SafetyInv, CapacityInv, [Next]_vars
                 PROVE  Ledger!Next \/ UNCHANGED Ledger!ledgerVars
      OBVIOUS
    <2> QED
      BY LedgerNext DEF Ledger!ledgerVars, Life, KeptPairs, AgedPairs
  <1> QED
    BY <1>1, LedgerInit, HandlerInvHolds, SafetyInvHolds, CapacityInvHolds, PTL
    DEF Spec, LedgerPromise, Ledger!Spec
=============================================================================
