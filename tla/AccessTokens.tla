----------------------------- MODULE AccessTokens -----------------------------
(***************************************************************************)
(* createPersonalAccessToken: a creation is repeated with the same         *)
(* idempotency key by a client that got no answer, and two such calls may  *)
(* run at once.  The key is looked up, the batch inserts the token with    *)
(* the key, and when the batch throws the key is looked up again.          *)
(***************************************************************************)
EXTENDS AuthStore

VARIABLE creation     \* the state of each creation

CreationState ==
  [pc : {"idle", "insert", "recover", "reread", "replay", "done"},
   account : Account \cup {{}}, key : IdempotencyKey \cup {{}},
   hash : {"", "a", "b"}, now : Nat, found : SUBSET IdempotencyRow,
   response : {"", "created", "replayed", "conflict", "error"},
   token : PatCreation \cup {{}}]

CreationTypeOK == creation \in [PatCreation -> CreationState]

NoCreation == [pc |-> "idle", account |-> {}, key |-> {}, hash |-> "", now |-> 0,
               found |-> {}, response |-> "", token |-> {}]

CreationInit == creation = [c \in PatCreation |-> NoCreation]

CreationRunning(c) == creation[c].pc \notin {"idle", "done"}
CreationGoes(c, pc, found) ==
  creation' = [creation EXCEPT ![c].pc = pc, ![c].found = found]
CreationAnswers(c, response, token) ==
  creation' = [creation EXCEPT ![c].pc = "done", ![c].found = {},
                               ![c].response = response, ![c].token = token]
RecordOf(c) ==
  LiveRecords(creation[c].account, creation[c].key, creation[c].now)

-----------------------------------------------------------------------------
\* findPatIdempotencyRecord, for a principal that holds tokens:write
StartCreation(c, a, k, hash) ==
  LET found == LiveRecords(a, k, clock) IN
  /\ creation[c].pc = "idle"
  /\ creation' = [creation EXCEPT ![c] =
       [NoCreation EXCEPT !.pc = IF found = {} THEN "insert" ELSE "replay",
          !.account = a, !.key = k, !.hash = hash, !.now = clock, !.found = found]]
  /\ UNCHANGED tableVars /\ Quiet

Mint(c) ==
  InsertPat(c, creation[c].account, creation[c].key, creation[c].hash, creation[c].now)
CanMint(c) ==
  KeyFree(creation[c].account, creation[c].key, creation[c].now)

\* createPersonalAccessTokenIdempotently; a taken key aborts the batch.
CreateIdempotently(c) ==
  /\ creation[c].pc = "insert"
  /\ IF CanMint(c)
     THEN Mint(c) /\ CreationAnswers(c, "created", c)
     ELSE CreationGoes(c, "recover", {}) /\ UNCHANGED tableVars
  /\ Quiet

\* The batch throws, whether it was committed or not.
CreateThrows(c) ==
  /\ creation[c].pc = "insert" /\ Throws
  /\ (CanMint(c) /\ Mint(c)) \/ UNCHANGED tableVars
  /\ CreationGoes(c, "recover", {})

\* The catch block: the error is passed on unless the key exists by now.
RecoverExisting(c) ==
  /\ creation[c].pc = "recover"
  /\ IF RecordOf(c) = {} THEN CreationAnswers(c, "error", {})
     ELSE CreationGoes(c, "reread", {})
  /\ UNCHANGED tableVars /\ Quiet

FindRacedRecord(c) ==
  /\ creation[c].pc = "reread"
  /\ IF RecordOf(c) = {} THEN CreationAnswers(c, "error", {})
     ELSE CreationGoes(c, "replay", RecordOf(c))
  /\ UNCHANGED tableVars /\ Quiet

MutantReplay(c) ==                          \* request_hash is not compared
  /\ creation[c].pc = "replay"
  /\ \E i \in creation[c].found : CreationAnswers(c, "replayed", i.token_id)
  /\ UNCHANGED tableVars /\ Quiet

\* replayPersonalAccessToken; tokens are never deleted, so the one the record
\* names is there.
ReplayPersonalAccessToken(c) ==
  /\ creation[c].pc = "replay"
  /\ \E i \in creation[c].found :
       IF i.request_hash # creation[c].hash
       THEN CreationAnswers(c, "conflict", {})
       ELSE CreationAnswers(c, "replayed", i.token_id)
  /\ UNCHANGED tableVars /\ Quiet

CreationFails(c) ==
  /\ creation[c].pc \in {"recover", "reread", "replay"} /\ Throws
  /\ CreationAnswers(c, "error", {}) /\ UNCHANGED tableVars
=============================================================================
