------------------------------- MODULE Ingest -------------------------------
(***************************************************************************)
(* ingestRequest: one webhook delivery, from the endpoint lookup to the    *)
(* 204.  Requests run concurrently in different isolates and interleave    *)
(* between any two storage calls.  What a request has done before it is    *)
(* accepted is kept in its compensation stack, req[r].undo: the reserved   *)
(* slot and each object it stored.  On an error the stack is run, slot     *)
(* last, every entry best-effort; a lost isolate loses the stack.          *)
(*                                                                         *)
(* req[r].left is a history variable no guard reads: what the request took *)
(* or stored and the stack could not undo, because the call that did it    *)
(* threw, the call that was to undo it threw, or the isolate was lost.     *)
(***************************************************************************)
EXTENDS StashStore

CONSTANTS
  StoreBy,            \* bound: no request stores objects after this time
  AmbiguousInsert     \* whether D1 may commit the event row and still throw

ASSUME IngestAssumption ==
  StoreBy \in Nat /\ StoreBy <= MaxTime /\ AmbiguousInsert \in BOOLEAN

VARIABLE req          \* the state of each ingest handler

\* A credential carried by a request or matched by it: none, or one secret.
Credential == {{}} \cup {{s} : s \in Secret}
Response   == {0, 204, 401, 404, 410, 413, 429, 500}      \* 0: not answered

RequestState ==
  [pc : {"idle", "reserve", "relookup", "verify", "body", "store", "check",
         "insert", "classify", "publish", "undo", "done", "lost"},
   endpoint   : Endpoint \cup {{}},
   header     : Credential,      \* the secret in x-barestash-secret
   matched    : Credential,      \* matchedSecretId
   receivedAt : Nat,
   pending    : SUBSET Part,     \* objects whose put has not answered yet
   undo       : SUBSET ({"slot"} \cup Part),
   left       : SUBSET ({"slot"} \cup Part),
   response   : Response]

IngestTypeOK == req \in [Request -> RequestState]

NoRequest == [pc |-> "idle", endpoint |-> {}, header |-> {}, matched |-> {},
              receivedAt |-> 0, pending |-> {}, undo |-> {}, left |-> {},
              response |-> 0]

IngestInit == req = [r \in Request |-> NoRequest]

At(r, pc) == req[r].pc = pc
Running(r) == req[r].pc \notin {"idle", "done", "lost"}
HoldsSlot(r) == "slot" \in req[r].undo

Become(r, q) == req' = [req EXCEPT ![r] = q]
Goto(r, pc) == Become(r, [req[r] EXCEPT !.pc = pc])

\* The catch block of ingestRequest, with the entries the stack then holds and
\* those it lacks: the answer is code, once the stack has been run.
FailWith(r, undo, left, code) ==
  Become(r, [NoRequest EXCEPT !.pc = IF undo = {} THEN "done" ELSE "undo",
                              !.endpoint = req[r].endpoint,
                              !.undo = undo, !.left = left, !.response = code])

Fail(r, code) == FailWith(r, req[r].undo, req[r].left, code)

-----------------------------------------------------------------------------
(* validateEndpoint, on arrival and again when no private slot was left *)

ValidateEndpoint(r, e, h) ==
  LET refusal == IF endpoints[e].status # "active" THEN 404
                 ELSE IF Expired(e) THEN 410 ELSE 0
  IN /\ At(r, "idle") /\ clock <= StoreBy
     /\ e \in TempEndpoint => h = {}
     /\ IF refusal = 0
        THEN Become(r, [NoRequest EXCEPT !.pc = "reserve", !.endpoint = e, !.header = h])
        ELSE Become(r, [NoRequest EXCEPT !.pc = "done", !.endpoint = e,
                                         !.response = refusal])
     /\ UNCHANGED storeVars

\* reserveCapacity
ReserveTemporary(r) ==
  LET e == req[r].endpoint IN
  /\ At(r, "reserve") /\ e \in TempEndpoint
  /\ IF CanReserveTemporarySlot(e)
     THEN /\ CountUp(e)
          /\ Become(r, [req[r] EXCEPT !.pc = "verify", !.undo = {"slot"}])
     ELSE Fail(r, 429) /\ UNCHANGED endpoints
  /\ UNCHANGED <<events, next_sequence, secrets, objects, clock, failures>>

ReservePrivate(r) ==
  LET e == req[r].endpoint IN
  /\ At(r, "reserve") /\ e \in PrivEndpoint
  /\ IF CanReservePrivateSlot(e)
     THEN /\ CountUp(e)
          /\ Become(r, [req[r] EXCEPT !.pc = "verify", !.undo = {"slot"}])
     ELSE Goto(r, "relookup") /\ UNCHANGED endpoints
  /\ UNCHANGED <<events, next_sequence, secrets, objects, clock, failures>>

\* The UPDATE takes the slot and throws: no compensation has been added yet.
ReserveAckLost(r) ==
  LET e == req[r].endpoint IN
  /\ At(r, "reserve")
  /\ IF e \in TempEndpoint THEN CanReserveTemporarySlot(e) ELSE CanReservePrivateSlot(e)
  /\ Failure
  /\ CountUp(e)
  /\ FailWith(r, {}, {"slot"}, 500)
  /\ UNCHANGED <<events, next_sequence, secrets, objects, clock>>

ExplainRefusal(r) ==
  LET e == req[r].endpoint IN
  /\ At(r, "relookup")
  /\ Fail(r, IF endpoints[e].status # "active" THEN 404
             ELSE IF Expired(e) THEN 410
             ELSE IF endpoints[e].event_count >= PrivLimit THEN 429 ELSE 500)
  /\ UNCHANGED storeVars

-----------------------------------------------------------------------------
(* verifySecret: the secrets are read here and used at "insert" *)

VerifySecret(r) ==
  LET active == ActiveSecrets(req[r].endpoint) IN
  /\ At(r, "verify")
  /\ IF active = {}
     THEN Goto(r, "body")
     ELSE IF req[r].header # {} /\ req[r].header \subseteq active
     THEN Become(r, [req[r] EXCEPT !.pc = "body", !.matched = req[r].header])
     ELSE Fail(r, 401)
  /\ UNCHANGED storeVars

-----------------------------------------------------------------------------
(* persistRawRequest: read the body, then two puts at once *)

ReadBody(r) ==
  /\ At(r, "body")
  /\ Become(r, [req[r] EXCEPT !.pc = "store", !.receivedAt = clock, !.pending = Part])
  /\ UNCHANGED storeVars

BodyTooLarge(r) ==
  At(r, "body") /\ Fail(r, 413) /\ UNCHANGED storeVars

MutantCompensateBothOrNone(r, part, undo, left) ==  \* added after Promise.all
  LET pending == req[r].pending \ {part} IN
  IF pending = {} /\ ~(Part \subseteq undo)
  THEN FailWith(r, undo \ Part, left, 500)
  ELSE Become(r, [req[r] EXCEPT !.pending = pending, !.undo = undo, !.left = left,
                                !.pc = IF pending = {} THEN "check" ELSE "store"])

\* Promise.all: both puts answer before the handler goes on.
PutAnswered(r, part, undo, left) ==
  LET pending == req[r].pending \ {part} IN
  IF pending = {} /\ ~(Part \subseteq undo)
  THEN FailWith(r, undo, left, 500)
  ELSE Become(r, [req[r] EXCEPT !.pending = pending, !.undo = undo, !.left = left,
                                !.pc = IF pending = {} THEN "check" ELSE "store"])

PersistObject(r, part) ==
  /\ At(r, "store") /\ part \in req[r].pending
  /\ PutObject(<<r, part>>)
  /\ PutAnswered(r, part, req[r].undo \cup {part}, req[r].left)
  /\ UNCHANGED <<d1Vars, clock, failures>>

\* The put throws; the object may be there all the same.
PersistObjectFails(r, part) ==
  /\ At(r, "store") /\ part \in req[r].pending
  /\ Failure
  /\ \/ PutObject(<<r, part>>) /\ PutAnswered(r, part, req[r].undo, req[r].left \cup {part})
     \/ UNCHANGED objects /\ PutAnswered(r, part, req[r].undo, req[r].left)
  /\ UNCHANGED <<d1Vars, clock>>

-----------------------------------------------------------------------------
(* recordMetadata: a last look at the expiry, then the guarded INSERT *)

CheckExpiry(r) ==
  /\ At(r, "check")
  /\ IF Expired(req[r].endpoint) THEN Fail(r, 410) ELSE Goto(r, "insert")
  /\ UNCHANGED storeVars

MutantResultIgnored(r) ==                  \* created.status is not looked at
  LET e == req[r].endpoint IN
  /\ At(r, "insert")
  /\ IF InsertGuard(e, req[r].matched)
     THEN InsertEvent(r, e, req[r].receivedAt)
     ELSE UNCHANGED <<events, next_sequence>>
  /\ Become(r, [NoRequest EXCEPT !.pc = "publish", !.endpoint = e])
  /\ UNCHANGED <<endpoints, secrets, objects, clock, failures>>

RecordMetadata(r) ==
  LET e == req[r].endpoint IN
  /\ At(r, "insert")
  /\ IF InsertGuard(e, req[r].matched)
     THEN /\ InsertEvent(r, e, req[r].receivedAt)
          /\ Become(r, [NoRequest EXCEPT !.pc = "publish", !.endpoint = e,
                                         !.receivedAt = req[r].receivedAt])
     ELSE Goto(r, "classify") /\ UNCHANGED <<events, next_sequence>>
  /\ UNCHANGED <<endpoints, secrets, objects, clock, failures>>

\* classifyFailedCreateEvent, after a second look at the endpoint
ClassifyRefusal(r) ==
  /\ At(r, "classify")
  /\ Fail(r, IF endpoints[req[r].endpoint].status = "active" THEN 401 ELSE 404)
  /\ UNCHANGED storeVars

\* The row is committed, the answer is lost, and createEvent throws.
InsertAckLost(r) ==
  LET e == req[r].endpoint IN
  /\ AmbiguousInsert
  /\ At(r, "insert") /\ InsertGuard(e, req[r].matched)
  /\ Failure
  /\ InsertEvent(r, e, req[r].receivedAt)
  /\ Fail(r, 500)
  /\ UNCHANGED <<endpoints, secrets, objects, clock>>

MutantPublishFails(r) ==                   \* publish's rejection is not caught
  /\ At(r, "publish")
  /\ \E code \in {204, 500} : Fail(r, code)
  /\ UNCHANGED storeVars

\* publishLive never fails the request; its effect is EventStream's.
PublishLive(r) ==
  /\ At(r, "publish")
  /\ Become(r, [req[r] EXCEPT !.pc = "done", !.response = 204])
  /\ UNCHANGED storeVars

-----------------------------------------------------------------------------
(* Errors: a storage call throws; the stack is run; the isolate is lost *)

MutantErrorRethrown(r) ==                  \* a thrown call skips the stack
  /\ req[r].pc \in {"reserve", "relookup", "verify", "body", "insert", "classify"}
  /\ Failure
  /\ FailWith(r, {}, {}, 500)
  /\ UNCHANGED <<d1Vars, objects, clock>>

StorageCallFails(r) ==
  /\ req[r].pc \in {"reserve", "relookup", "verify", "body", "insert", "classify"}
  /\ Failure
  /\ Fail(r, 500)
  /\ UNCHANGED <<d1Vars, objects, clock>>

\* CompensationStack.run pops the last entry first: the slot goes last.
Popped(r, entry, left) ==
  LET rest == req[r].undo \ {entry} IN
  /\ At(r, "undo") /\ entry \in req[r].undo
  /\ entry = "slot" => rest = {}
  /\ Become(r, [req[r] EXCEPT !.undo = rest, !.left = left,
                              !.pc = IF rest = {} THEN "done" ELSE "undo"])

Compensate(r, entry) ==
  /\ Popped(r, entry, req[r].left)
  /\ IF entry = "slot"
     THEN CountDown(req[r].endpoint) /\ UNCHANGED objects
     ELSE RemoveObjects({<<r, entry>>}) /\ UNCHANGED endpoints
  /\ UNCHANGED <<events, next_sequence, secrets, clock, failures>>

CompensationFails(r, entry) ==
  /\ Popped(r, entry, req[r].left \cup {entry})
  /\ Failure
  /\ UNCHANGED <<d1Vars, objects, clock>>

IsolateLost(r) ==
  /\ Running(r)
  /\ Failure
  /\ Become(r, [NoRequest EXCEPT !.pc = "lost", !.endpoint = req[r].endpoint,
                              !.left = req[r].left \cup req[r].undo])
  /\ UNCHANGED <<d1Vars, objects, clock>>
=============================================================================
