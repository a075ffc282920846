----------------------------- MODULE CliSession -----------------------------
(***************************************************************************)
(* refreshCliSession, revokeCliSession and authenticateBearerPrincipal.  A *)
(* refresh reads the token, its session and its account one after the      *)
(* other, and the batch that rotates asks for all three again.  A bearer   *)
(* call is any request authenticated by an access token or by a personal   *)
(* access token; once admitted it may revoke its session or a token.       *)
(***************************************************************************)
EXTENDS AuthStore

CONSTANT Bearer       \* calls authenticated by a bearer token

VARIABLES
  refreshing,         \* the state of each refresh call
  bearer              \* the state of each bearer call

callVars == <<refreshing, bearer>>

RefreshState ==
  [pc : {"idle", "session", "account", "rotate", "classify", "explain",
         "compromise", "done"},
   token : Token \cup {{}}, now : Nat,
   response : {"", "tokens", "reuse", "token_revoked", "token_expired",
               "session_revoked", "session_expired", "disabled", "error"}]
BearerState ==
  [pc : {"idle", "session", "account", "admitted", "done"},
   kind : {"", "access", "pat"}, token : Token \cup PatCreation \cup {{}},
   now : Nat, response : {"", "ok", "refused", "revoked", "error"},
   doomed : BOOLEAN]   \* history: its credential was dead when it started

SessionCallsTypeOK ==
  /\ refreshing \in [Refresh -> RefreshState]
  /\ bearer \in [Bearer -> BearerState]

NoRefreshCall == [pc |-> "idle", token |-> {}, now |-> 0, response |-> ""]
NoBearer == [pc |-> "idle", kind |-> "", token |-> {}, now |-> 0, response |-> "",
             doomed |-> FALSE]

SessionCallsInit ==
  /\ refreshing = [r \in Refresh |-> NoRefreshCall]
  /\ bearer = [c \in Bearer |-> NoBearer]

-----------------------------------------------------------------------------
(* POST /v1/auth/token/refresh *)

RefreshRunning(r) == refreshing[r].pc \notin {"idle", "done"}
RefreshGoes(r, pc) == refreshing' = [refreshing EXCEPT ![r].pc = pc]
RefreshAnswers(r, response) ==
  refreshing' = [refreshing EXCEPT ![r].pc = "done", ![r].now = 0, ![r].response = response]
RefreshOnly == UNCHANGED bearer /\ Quiet
Presented(r) == refreshing[r].token
SessionOf(r) == refresh[Presented(r)].session_id

MutantFindRefreshToken(r, t) ==             \* reuse is reported and nothing done
  LET found == [pc |-> "done", token |-> t, now |-> 0, response |-> ""] IN
  /\ refreshing[r].pc = "idle" /\ refresh[t].status # "none"
  /\ refreshing' = [refreshing EXCEPT ![r] =
       CASE refresh[t].status = "used"    -> [found EXCEPT !.response = "reuse"]
         [] refresh[t].status = "revoked" -> [found EXCEPT !.response = "token_revoked"]
         [] refresh[t].status = "active"  -> [found EXCEPT !.pc = "session", !.now = clock]]
  /\ UNCHANGED tableVars /\ RefreshOnly

\* The token is found, and refused at once if it is revoked or expired.
FindRefreshToken(r, t) ==
  LET found == [pc |-> "done", token |-> t, now |-> 0, response |-> ""] IN
  /\ refreshing[r].pc = "idle" /\ refresh[t].status # "none"
  /\ refreshing' = [refreshing EXCEPT ![r] =
       CASE refresh[t].status = "used"    -> [found EXCEPT !.pc = "compromise"]
         [] refresh[t].status = "revoked" -> [found EXCEPT !.response = "token_revoked"]
         [] refresh[t].status = "active"  ->
              IF refresh[t].expires_at <= clock
              THEN [found EXCEPT !.response = "token_expired"]
              ELSE [found EXCEPT !.pc = "session", !.now = clock]]
  /\ UNCHANGED tableVars /\ RefreshOnly

FindSessionToRefresh(r) ==
  /\ refreshing[r].pc = "session"
  /\ IF sessions[SessionOf(r)].status # "active" THEN RefreshAnswers(r, "session_revoked")
     ELSE IF SessionExpired(SessionOf(r), refreshing[r].now)
     THEN RefreshAnswers(r, "session_expired") ELSE RefreshGoes(r, "account")
  /\ UNCHANGED tableVars /\ RefreshOnly

FindAccountToRefresh(r) ==
  /\ refreshing[r].pc = "account"
  /\ IF accounts[sessions[SessionOf(r)].account_id] = "disabled"
     THEN RefreshAnswers(r, "disabled") ELSE RefreshGoes(r, "rotate")
  /\ UNCHANGED tableVars /\ RefreshOnly

RotateRefreshToken(r) ==
  /\ refreshing[r].pc = "rotate"
  /\ IF Rotatable(Presented(r), refreshing[r].now)
     THEN Rotate(Presented(r), r, refreshing[r].now) /\ RefreshAnswers(r, "tokens")
     ELSE RefreshGoes(r, "classify") /\ UNCHANGED tableVars
  /\ RefreshOnly

\* The batch is committed, and the call throws or its answer is lost.
RotateAckLost(r) ==
  /\ refreshing[r].pc = "rotate" /\ Throws
  /\ Rotatable(Presented(r), refreshing[r].now)
  /\ Rotate(Presented(r), r, refreshing[r].now)
  /\ RefreshAnswers(r, "error") /\ UNCHANGED bearer

\* Nothing was rotated: the token is read again to say why.
ClassifyRotation(r) ==
  /\ refreshing[r].pc = "classify"
  /\ CASE refresh[Presented(r)].status = "used"    -> RefreshGoes(r, "compromise")
       [] refresh[Presented(r)].status = "active"  -> RefreshGoes(r, "explain")
       [] refresh[Presented(r)].status = "revoked" -> RefreshAnswers(r, "session_revoked")
  /\ UNCHANGED tableVars /\ RefreshOnly

ExplainRotation(r) ==
  /\ refreshing[r].pc = "explain"
  /\ RefreshAnswers(r,
       IF SessionExpired(SessionOf(r), refreshing[r].now) THEN "session_expired"
       ELSE IF accounts[sessions[SessionOf(r)].account_id] = "disabled"
       THEN "disabled" ELSE "session_revoked")
  /\ UNCHANGED tableVars /\ RefreshOnly

CompromiseOnReuse(r) ==
  /\ refreshing[r].pc = "compromise"
  /\ CompromiseSession(SessionOf(r))
  /\ RefreshAnswers(r, "reuse") /\ RefreshOnly

RefreshFails(r) ==
  /\ RefreshRunning(r) /\ Throws
  /\ RefreshAnswers(r, "error") /\ UNCHANGED <<tableVars, bearer>>

-----------------------------------------------------------------------------
(* Bearer authentication, and the revocations it opens *)

BearerRunning(c) == bearer[c].pc \notin {"idle", "done"}
BearerGoes(c, pc) == bearer' = [bearer EXCEPT ![c].pc = pc]
BearerAnswers(c, response) ==
  bearer' = [bearer EXCEPT ![c].pc = "done", ![c].now = 0, ![c].response = response]
BearerOnly == UNCHANGED refreshing /\ Quiet
AccessSession(c) == access[bearer[c].token].session_id

AccessDead(t) ==
  LET s == access[t].session_id IN
  \/ access[t].status = "revoked" \/ sessions[s].status # "active"
  \/ accounts[sessions[s].account_id] = "disabled"
PatDead(t) == pats[t].status = "revoked" \/ accounts[pats[t].account_id] = "disabled"

MutantFindAccessToken(c, t) ==              \* token.status is not looked at
  /\ bearer[c].pc = "idle" /\ access[t].status # "none"
  /\ bearer' = [bearer EXCEPT ![c] =
       [pc |-> "account", kind |-> "access", token |-> t, now |-> clock,
        response |-> "", doomed |-> AccessDead(t)]]
  /\ UNCHANGED tableVars /\ BearerOnly

FindAccessToken(c, t) ==
  LET refused == access[t].status = "revoked" \/ access[t].expires_at <= clock IN
  /\ bearer[c].pc = "idle" /\ access[t].status # "none"
  /\ bearer' = [bearer EXCEPT ![c] =
       [pc |-> IF refused THEN "done" ELSE "session", kind |-> "access", token |-> t,
        now |-> IF refused THEN 0 ELSE clock,
        response |-> IF refused THEN "refused" ELSE "", doomed |-> AccessDead(t)]]
  /\ UNCHANGED tableVars /\ BearerOnly

FindPersonalAccessToken(c, t) ==
  LET refused == pats[t].status = "revoked" \/ pats[t].expires_at <= clock IN
  /\ bearer[c].pc = "idle" /\ pats[t].status # "none"
  /\ bearer' = [bearer EXCEPT ![c] =
       [pc |-> IF refused THEN "done" ELSE "account", kind |-> "pat", token |-> t,
        now |-> IF refused THEN 0 ELSE clock,
        response |-> IF refused THEN "refused" ELSE "", doomed |-> PatDead(t)]]
  /\ UNCHANGED tableVars /\ BearerOnly

FindBearerSession(c) ==
  /\ bearer[c].pc = "session"
  /\ IF \/ sessions[AccessSession(c)].status # "active"
        \/ SessionExpired(AccessSession(c), bearer[c].now)
     THEN BearerAnswers(c, "refused") ELSE BearerGoes(c, "account")
  /\ UNCHANGED tableVars /\ BearerOnly

BearerAccount(c) ==
  IF bearer[c].kind = "pat" THEN pats[bearer[c].token].account_id
  ELSE sessions[AccessSession(c)].account_id

FindBearerAccount(c) ==
  /\ bearer[c].pc = "account"
  /\ IF accounts[BearerAccount(c)] = "disabled"
     THEN BearerAnswers(c, "refused") ELSE BearerGoes(c, "admitted")
  /\ UNCHANGED tableVars /\ BearerOnly

\* Any other operation, for which being admitted is all that matters here.
UseBearer(c) ==
  /\ bearer[c].pc = "admitted"
  /\ BearerAnswers(c, "ok") /\ UNCHANGED tableVars /\ BearerOnly

\* POST /v1/auth/sessions/current/revoke
RevokeCurrentSession(c) ==
  /\ bearer[c].pc = "admitted" /\ bearer[c].kind = "access"
  /\ RevokeSession(AccessSession(c))
  /\ BearerAnswers(c, "revoked") /\ BearerOnly

\* DELETE /v1/tokens/:tokenId
RevokePersonalAccessToken(c, t) ==
  /\ bearer[c].pc = "admitted" /\ pats[t].status # "none"
  /\ RevokePat(t, BearerAccount(c))
  /\ BearerAnswers(c, IF pats[t].account_id = BearerAccount(c) THEN "revoked" ELSE "refused")
  /\ BearerOnly

BearerFails(c) ==
  /\ BearerRunning(c) /\ Throws
  /\ BearerAnswers(c, "error") /\ UNCHANGED <<tableVars, refreshing>>
=============================================================================
