-------------------------------- MODULE Auth --------------------------------
(***************************************************************************)
(* The identity side of Barestash put together: device grants, CLI         *)
(* sessions and personal access tokens on the same D1 tables, and an       *)
(* operator who may disable an account at any time.                        *)
(***************************************************************************)
EXTENDS DeviceGrant, CliSession, AccessTokens

CONSTANTS
  CallTime,           \* a call ends within this many ticks of its start
  GrantBy             \* bound: no device authorization is created later

ASSUME CallTimeAssumption ==
  CallTime \in Nat /\ GrantBy \in Nat /\ 2 * CallTime < Retention

vars == <<tableVars, worldVars, deviceVars, callVars, creation>>

Init == TablesInit /\ DeviceInit /\ SessionCallsInit /\ CreationInit

InTime(now) == clock < now + CallTime

\* The clock moves.  Every Date of a call is the one it took when it started (a
\* poll may take its own before it reads the row, a decision takes its own at
\* the statement), and an isolate does not outlive its request by more than CallTime.
Tick ==
  /\ clock < LastTick
  /\ \A p \in Poll : PollRunning(p) => InTime(poll[p].now)
  /\ \A r \in Refresh : RefreshRunning(r) /\ refreshing[r].pc # "compromise" =>
       InTime(refreshing[r].now)
  /\ \A c \in Bearer : BearerRunning(c) => InTime(bearer[c].now)
  /\ \A c \in PatCreation : CreationRunning(c) => InTime(creation[c].now)
  /\ clock' = clock + 1
  /\ UNCHANGED <<tableVars, errors, deviceVars, callVars, creation>>

\* There is no such operation in the code; an operator edits the row.
DisableAccount(a) ==
  /\ accounts[a] = "active"
  /\ accounts' = [accounts EXCEPT ![a] = "disabled"]
  /\ UNCHANGED <<authorizations, sessionVars, patVars, worldVars, deviceVars,
                 callVars, creation>>

GrantStep ==
  /\ \/ \E d \in Device, u \in UserCode :
          clock <= GrantBy /\ CreateDeviceAuthorization(d, u)
     \/ \E b \in Decision, d \in Device : AskToSignIn(b, d)
     \/ \E b \in Decision, d \in Device, a \in Account : ShowApprovalPage(b, d, a)
     \/ \E b \in Decision, verdict \in {"approve", "deny"} : SubmitDecision(b, verdict)
     \/ \E b \in Decision : Decide(b)
  /\ UNCHANGED <<callVars, creation>>

PollStep(p) ==
  /\ \/ \E d \in Device, now \in 0..clock :
          clock <= now + CallTime /\ FindByDeviceCode(p, d, now)
     \/ RecordDevicePoll(p) \/ ExpireOnPoll(p) \/ FindApprover(p)
     \/ ExchangeForSession(p) \/ ExchangeThrows(p) \/ RecheckConsumed(p)
     \/ PollFails(p)
  /\ UNCHANGED <<callVars, creation>>

RefreshAdvances(r) ==
  /\ \/ FindSessionToRefresh(r) \/ FindAccountToRefresh(r)
     \/ RotateRefreshToken(r) \/ ClassifyRotation(r)
     \/ ExplainRotation(r) \/ CompromiseOnReuse(r)
  /\ UNCHANGED <<deviceVars, creation>>

RefreshStep(r) ==
  \/ RefreshAdvances(r)
  \/ (\E t \in Token : FindRefreshToken(r, t)) /\ UNCHANGED <<deviceVars, creation>>
  \/ RotateAckLost(r) /\ UNCHANGED <<deviceVars, creation>>
  \/ RefreshFails(r) /\ UNCHANGED <<deviceVars, creation>>

BearerStep(c) ==
  /\ \/ \E t \in Token : FindAccessToken(c, t)
     \/ \E t \in PatCreation : FindPersonalAccessToken(c, t)
     \/ FindBearerSession(c) \/ FindBearerAccount(c) \/ UseBearer(c)
     \/ RevokeCurrentSession(c)
     \/ \E t \in PatCreation : RevokePersonalAccessToken(c, t)
     \/ BearerFails(c)
  /\ UNCHANGED <<deviceVars, creation>>

CreationStep(c) ==
  /\ \/ \E a \in Account, k \in IdempotencyKey, hash \in {"a", "b"} :
          StartCreation(c, a, k, hash)
     \/ CreateIdempotently(c) \/ CreateThrows(c) \/ RecoverExisting(c)
     \/ FindRacedRecord(c) \/ ReplayPersonalAccessToken(c) \/ CreationFails(c)
  /\ UNCHANGED <<deviceVars, callVars>>

Next ==
  \/ Tick
  \/ \E a \in Account : DisableAccount(a)
  \/ GrantStep
  \/ \E p \in Poll : PollStep(p)
  \/ \E r \in Refresh : RefreshStep(r)
  \/ \E c \in Bearer : BearerStep(c)
  \/ \E c \in PatCreation : CreationStep(c)

Spec == Init /\ [][Next]_vars

-----------------------------------------------------------------------------
(* Every table and every call keeps its type in every interleaving. *)
TypeOK == TablesTypeOK /\ DeviceTypeOK /\ SessionCallsTypeOK /\ CreationTypeOK

SessionsOf(d) == {p \in Poll : poll[p].device = d /\ sessions[p].status # "none"}

(* exchangeDeviceAuthorization: however many polls run at once, fail or are *)
(* repeated, a device code gives one session exactly when it is consumed,   *)
(* on the account that approved it.                                         *)
OneSessionPerGrant ==
  \A d \in Device :
    /\ authorizations[d].status = "consumed" <=> SessionsOf(d) # {}
    /\ Cardinality(SessionsOf(d)) <= 1
    /\ \A p \in SessionsOf(d) : sessions[p].account_id = authorizations[d].account_id

(* approve, deny and expire against one another and against the exchange: a  *)
(* decision is final.  What was denied or expired is never approved, what is *)
(* consumed stays so, and the approving account does not change.             *)
DecisionsAreFinal ==
  [][\A d \in Device :
       LET was == authorizations[d] IN LET is == authorizations'[d] IN
       was.status \notin {"none", "pending"} =>
         /\ \/ is.status = was.status
            \/ was.status = "approved" /\ is.status = "consumed"
         /\ is.account_id = was.account_id]_vars

(* rotateRefreshToken: the refresh tokens of a session are one chain.  Each    *)
(* replaced token names the one that replaced it and no other claims it as its *)
(* parent, and a live session has exactly one that still can be exchanged.     *)
RefreshTokensFormAChain ==
  /\ \A t \in Token : refresh[t].replaced_by # {} =>
       {u \in Token : refresh[u].parent = t} = {refresh[t].replaced_by}
  /\ \A s \in Session : sessions[s].status = "active" =>
       Cardinality({t \in Token : refresh[t].session_id = s /\ refresh[t].status = "active"}) = 1

(* compromiseCliSession and revokeCliSession against rotations in flight: a  *)
(* session that was ended has no token left that works, and gets none later. *)
EndedSessionsHoldNothing ==
  \A t \in Token : \A s \in Session :
    sessions[s].status \in {"revoked", "compromised"} =>
      /\ access[t].session_id = s => access[t].status = "revoked"
      /\ refresh[t].session_id = s => refresh[t].status = "revoked"

(* refreshCliSession: of all the calls that present one refresh token at   *)
(* most one is answered with new tokens, and a call that was told of reuse *)
(* leaves the session ended.                                               *)
ReuseEndsTheSession ==
  /\ \A r, q \in Refresh :
       refreshing[r].response = "tokens" /\ refreshing[q].response = "tokens"
         /\ Presented(r) = Presented(q) => r = q
  /\ \A r \in Refresh : refreshing[r].response = "reuse" =>
       sessions[SessionOf(r)].status # "active"

(* authenticateBearerPrincipal: a call that starts once its credential, its   *)
(* session or its account was revoked or disabled is never admitted, although *)
(* the three are read one after the other.                                    *)
NoAdmissionOnceRevoked ==
  \A c \in Bearer : bearer[c].doomed =>
    bearer[c].pc # "admitted" /\ bearer[c].response \notin {"ok", "revoked"}

Minted(a, k) == {c \in PatCreation :
  creation[c].account = a /\ creation[c].key = k /\ pats[c].status # "none"}

(* createPersonalAccessTokenIdempotently: within the retention an idempotency *)
(* key mints one token, whether its calls overlap, fail after the commit or   *)
(* find the key swept by another call.                                        *)
KeyMintsOnce ==
  \A a \in Account, k \in IdempotencyKey : \A c, d \in Minted(a, k) :
    c = d \/ creation[c].now >= creation[d].now + Retention
          \/ creation[d].now >= creation[c].now + Retention

(* replayPersonalAccessToken: the metadata a repeated call is answered with is *)
(* that of the token minted for the same account, key and request.             *)
ReplayIsOfTheSameRequest ==
  \A c \in PatCreation : creation[c].response = "replayed" =>
    LET t == creation[c].token IN
    /\ t \in Minted(creation[c].account, creation[c].key)
    /\ creation[t].hash = creation[c].hash

-----------------------------------------------------------------------------
Memory == INSTANCE AuthMemory WITH Time <- 0..LastTick

(* The D1 repository takes no step the in-memory one could not take: the      *)
(* guarded statements and the changes() chains of its batches decide exactly  *)
(* what the double used by the tests decides, under every interleaving and    *)
(* although the caller's reads are stale by then.                             *)
AgreesWithMemory == Memory!Spec
=============================================================================
