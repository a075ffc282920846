------------------------------ MODULE AuthStore ------------------------------
(***************************************************************************)
(* The identity tables in D1 and the statements D1AuthDomainRepository and *)
(* D1DeviceApprovalRepository run against them.  A statement is atomic; a  *)
(* batch is one transaction, and its later statements are chained to the   *)
(* first by changes() = 1, so that it does all of its writes or none.      *)
(* Whoever creates a row names it: the session, the access token and the   *)
(* refresh token that come of poll p all have the id p, the two tokens of  *)
(* refresh r have the id r, and the personal access token of creation c    *)
(* has the id c.                                                           *)
(***************************************************************************)
EXTENDS Integers, FiniteSets

CONSTANTS
  Account,            \* ids of accounts
  Device,             \* ids of device authorizations, one per device code
  UserCode,           \* the user codes that may be generated
  Poll,               \* calls of POST /v1/auth/device/token
  Refresh,            \* calls of POST /v1/auth/token/refresh
  PatCreation,        \* calls of POST /v1/tokens
  IdempotencyKey,     \* idempotency keys those calls carry
  DeviceLifetime,     \* DEVICE_AUTHORIZATION_LIFETIME_SECONDS, in ticks
  PollInterval,       \* DEVICE_POLL_INTERVAL_SECONDS, in ticks
  AccessLifetime,     \* ACCESS_TOKEN_LIFETIME_SECONDS, in ticks
  SessionIdle,        \* CLI_SESSION_IDLE_SECONDS, in ticks
  SessionAbsolute,    \* CLI_SESSION_ABSOLUTE_SECONDS, in ticks
  PatLifetime,        \* expires_in of a personal access token, in ticks
  Retention,          \* IDEMPOTENCY_RETENTION_MILLISECONDS, in ticks
  LastTick,           \* bound: the clock stops here
  MaxErrors           \* bound: how many storage calls throw

ASSUME LifetimeAssumption ==
  /\ {DeviceLifetime, PollInterval, AccessLifetime, SessionIdle,
      SessionAbsolute, PatLifetime, Retention} \subseteq Nat \ {0}
  /\ LastTick \in Nat /\ MaxErrors \in Nat
\* {} stands for NULL in every column.
ASSUME CallAssumption == Poll \cap Refresh = {} /\ {} \notin Poll \cup Refresh

Session == Poll                    \* ids of cli_sessions
Token   == Poll \cup Refresh       \* ids of access_tokens and refresh_tokens
Never   == -1                      \* last_polled_at of a row nobody polled

VARIABLES
  accounts,           \* status of each row of accounts
  authorizations,     \* rows of device_authorizations
  sessions,           \* rows of cli_sessions
  access,             \* rows of access_tokens
  refresh,            \* rows of refresh_tokens
  pats,               \* rows of personal_access_tokens
  idempotency,        \* rows of pat_idempotency_records
  clock,              \* the time every call reads when it starts
  errors              \* how many storage calls have thrown so far

grantVars   == <<authorizations>>
sessionVars == <<sessions, access, refresh>>
patVars     == <<pats, idempotency>>
tableVars   == <<accounts, authorizations, sessions, access, refresh, pats, idempotency>>
worldVars   == <<clock, errors>>

AuthorizationRow ==
  [status : {"none", "pending", "approved", "denied", "consumed", "expired"},
   account_id : Account \cup {{}}, user_code : UserCode \cup {{}},
   expires_at : Nat, approved_at : Nat, last_polled_at : Int]
SessionRow ==
  [status : {"none", "active", "revoked", "compromised"},
   account_id : Account \cup {{}}, idle_expires_at : Nat, absolute_expires_at : Nat]
AccessRow ==
  [status : {"none", "active", "revoked"}, session_id : Session \cup {{}},
   expires_at : Nat]
RefreshRow ==
  [status : {"none", "active", "used", "revoked"}, session_id : Session \cup {{}},
   parent : Token \cup {{}}, replaced_by : Token \cup {{}}, expires_at : Nat]
PatRow ==
  [status : {"none", "active", "revoked"}, account_id : Account \cup {{}},
   expires_at : Nat]
IdempotencyRow ==
  [account_id : Account, key : IdempotencyKey, request_hash : {"a", "b"},
   token_id : PatCreation, created_at : Nat, expires_at : Nat]

TablesTypeOK ==
  /\ accounts \in [Account -> {"active", "disabled"}]
  /\ authorizations \in [Device -> AuthorizationRow]
  /\ sessions \in [Session -> SessionRow]
  /\ access \in [Token -> AccessRow]
  /\ refresh \in [Token -> RefreshRow]
  /\ pats \in [PatCreation -> PatRow]
  /\ idempotency \in SUBSET IdempotencyRow
  /\ clock \in Nat /\ errors \in Nat

NoAuthorization == [status |-> "none", account_id |-> {}, user_code |-> {},
                    expires_at |-> 0, approved_at |-> 0, last_polled_at |-> Never]
NoSession == [status |-> "none", account_id |-> {}, idle_expires_at |-> 0,
              absolute_expires_at |-> 0]
NoAccess  == [status |-> "none", session_id |-> {}, expires_at |-> 0]
NoRefresh == [status |-> "none", session_id |-> {}, parent |-> {},
              replaced_by |-> {}, expires_at |-> 0]
NoPat     == [status |-> "none", account_id |-> {}, expires_at |-> 0]

TablesInit ==
  /\ accounts = [a \in Account |-> "active"]
  /\ authorizations = [d \in Device |-> NoAuthorization]
  /\ sessions = [s \in Session |-> NoSession]
  /\ access = [t \in Token |-> NoAccess]
  /\ refresh = [t \in Token |-> NoRefresh]
  /\ pats = [c \in PatCreation |-> NoPat]
  /\ idempotency = {}
  /\ clock = 0 /\ errors = 0

\* A storage call throws.  The clock and the errors change in no statement.
Throws == errors < MaxErrors /\ errors' = errors + 1 /\ UNCHANGED clock
Quiet  == UNCHANGED worldVars

-----------------------------------------------------------------------------
(* device_authorizations *)

UserCodeTaken(u) == \E d \in Device : authorizations[d].user_code = u

InsertAuthorization(d, u, now) ==
  /\ authorizations' = [authorizations EXCEPT ![d] =
       [NoAuthorization EXCEPT !.status = "pending", !.user_code = u,
                               !.expires_at = now + DeviceLifetime]]
  /\ UNCHANGED <<accounts, sessionVars, patVars>>

PollAllowed(d, now) ==
  LET last == authorizations[d].last_polled_at IN
  last = Never \/ last <= now - PollInterval

RecordPoll(d, now) ==
  /\ authorizations' = [authorizations EXCEPT ![d].last_polled_at = now]
  /\ UNCHANGED <<accounts, sessionVars, patVars>>

StillPending(d, now) ==
  authorizations[d].status = "pending" /\ authorizations[d].expires_at > now

MutantDecidable(d, now) ==                  \* status = 'pending' is not asked
  authorizations[d].expires_at > now

\* The WHERE of the browser's two decisions.
Decidable(d, now) == StillPending(d, now)

Approve(d, a, now) ==
  /\ authorizations' = [authorizations EXCEPT
       ![d].status = "approved", ![d].account_id = a, ![d].approved_at = now]
  /\ UNCHANGED <<accounts, sessionVars, patVars>>

Deny(d) ==
  /\ authorizations' = [authorizations EXCEPT ![d].status = "denied"]
  /\ UNCHANGED <<accounts, sessionVars, patVars>>

MutantExpireAuthorization(d) ==             \* WHERE status = 'pending' is gone
  /\ authorizations' = [authorizations EXCEPT ![d].status = "expired"]
  /\ UNCHANGED <<accounts, sessionVars, patVars>>

\* No row is changed unless it is still pending.
ExpireAuthorization(d) ==
  /\ authorizations' = [authorizations EXCEPT ![d].status =
       IF @ = "pending" THEN "expired" ELSE @]
  /\ UNCHANGED <<accounts, sessionVars, patVars>>

MutantExchangeable(d, a, now) ==            \* any status but denied will do
  /\ authorizations[d].status \in {"approved", "consumed"}
  /\ authorizations[d].account_id = a /\ authorizations[d].expires_at > now
  /\ accounts[a] = "active"

\* The WHERE of the first statement of exchangeDeviceAuthorization.
Exchangeable(d, a, now) ==
  /\ authorizations[d].status = "approved"
  /\ authorizations[d].account_id = a /\ authorizations[d].expires_at > now
  /\ accounts[a] = "active"

\* consume, insertSession, insertAccess, insertRefresh
Exchange(d, p, a, approvedAt, now) ==
  /\ authorizations' = [authorizations EXCEPT ![d].status = "consumed"]
  /\ sessions' = [sessions EXCEPT ![p] =
       [status |-> "active", account_id |-> a,
        idle_expires_at |-> approvedAt + SessionIdle,
        absolute_expires_at |-> approvedAt + SessionAbsolute]]
  /\ access' = [access EXCEPT ![p] =
       [status |-> "active", session_id |-> p, expires_at |-> now + AccessLifetime]]
  /\ refresh' = [refresh EXCEPT ![p] =
       [NoRefresh EXCEPT !.status = "active", !.session_id = p,
                         !.expires_at = approvedAt + SessionAbsolute]]
  /\ UNCHANGED <<accounts, patVars>>

-----------------------------------------------------------------------------
(* cli_sessions, access_tokens and refresh_tokens *)

SessionExpired(s, now) ==
  sessions[s].idle_expires_at <= now \/ sessions[s].absolute_expires_at <= now

MutantRotatable(t, now) ==                  \* ended sessions are not left out
  LET s == refresh[t].session_id IN
  /\ refresh[t].status \in {"active", "revoked"} /\ ~SessionExpired(s, now)
  /\ accounts[sessions[s].account_id] = "active"

MutantRotatableTwice(t, now) ==             \* a used token is rotated again
  LET s == refresh[t].session_id IN
  /\ refresh[t].status \in {"active", "used"} /\ sessions[s].status = "active"
  /\ ~SessionExpired(s, now) /\ accounts[sessions[s].account_id] = "active"

\* The WHERE of the first statement of rotateRefreshToken.
Rotatable(t, now) ==
  LET s == refresh[t].session_id IN
  /\ refresh[t].status = "active" /\ sessions[s].status = "active"
  /\ ~SessionExpired(s, now) /\ accounts[sessions[s].account_id] = "active"

\* insertAccess, insertRefresh, consume, updateSession: t is replaced by r.
Rotate(t, r, now) ==
  LET s == refresh[t].session_id IN
  /\ access' = [access EXCEPT ![r] =
       [status |-> "active", session_id |-> s, expires_at |-> now + AccessLifetime]]
  /\ refresh' = [refresh EXCEPT
       ![t].status = "used", ![t].replaced_by = r,
       ![r] = [status |-> "active", session_id |-> s, parent |-> t,
               replaced_by |-> {}, expires_at |-> sessions[s].absolute_expires_at]]
  /\ sessions' = [sessions EXCEPT ![s].idle_expires_at = now + SessionIdle]
  /\ UNCHANGED <<accounts, grantVars, patVars>>

RevokeTokensOf(s) ==
  /\ access' = [t \in Token |-> IF access[t].session_id = s
                                THEN [access[t] EXCEPT !.status = "revoked"]
                                ELSE access[t]]
  /\ refresh' = [t \in Token |-> IF refresh[t].session_id = s
                                 THEN [refresh[t] EXCEPT !.status = "revoked"]
                                 ELSE refresh[t]]

MutantCompromise(s) ==                      \* the token family is forgotten
  /\ sessions' = [sessions EXCEPT ![s].status = "compromised"]
  /\ access' = [t \in Token |-> IF access[t].session_id = s
                                THEN [access[t] EXCEPT !.status = "revoked"]
                                ELSE access[t]]
  /\ UNCHANGED <<accounts, grantVars, refresh, patVars>>

\* token_family_id is the id of the session the family began with.
CompromiseSession(s) ==
  /\ sessions' = [sessions EXCEPT ![s].status = "compromised"]
  /\ RevokeTokensOf(s)
  /\ UNCHANGED <<accounts, grantVars, patVars>>

RevokeSession(s) ==
  /\ sessions' = [sessions EXCEPT ![s].status = "revoked"]
  /\ RevokeTokensOf(s)
  /\ UNCHANGED <<accounts, grantVars, patVars>>

-----------------------------------------------------------------------------
(* personal_access_tokens and pat_idempotency_records *)

\* findPatIdempotencyRecord: the key is unique per account, so that this is
\* one row or none.
LiveRecords(a, k, now) ==
  {i \in idempotency : i.account_id = a /\ i.key = k /\ i.expires_at > now}

Lapsed(now) == {i \in idempotency : i.expires_at <= now}

MutantKeyFree(a, k, now) == TRUE            \* no UNIQUE(account_id, idempotency_key)

\* UNIQUE(account_id, idempotency_key), once the batch has deleted what lapsed.
KeyFree(a, k, now) ==
  \A i \in idempotency \ Lapsed(now) : i.account_id # a \/ i.key # k

MutantInsertPat(c, a, k, hash, now) ==      \* deleteExpiredStatement is gone
  /\ pats' = [pats EXCEPT ![c] =
       [status |-> "active", account_id |-> a, expires_at |-> now + PatLifetime]]
  /\ idempotency' = idempotency \cup
       {[account_id |-> a, key |-> k, request_hash |-> hash, token_id |-> c,
         created_at |-> now, expires_at |-> now + Retention]}
  /\ UNCHANGED <<accounts, grantVars, sessionVars>>

\* deleteExpiredStatement, tokenStatement, idempotencyStatement
InsertPat(c, a, k, hash, now) ==
  /\ pats' = [pats EXCEPT ![c] =
       [status |-> "active", account_id |-> a, expires_at |-> now + PatLifetime]]
  /\ idempotency' = (idempotency \ Lapsed(now)) \cup
       {[account_id |-> a, key |-> k, request_hash |-> hash, token_id |-> c,
         created_at |-> now, expires_at |-> now + Retention]}
  /\ UNCHANGED <<accounts, grantVars, sessionVars>>

RevokePat(c, a) ==
  /\ pats' = [pats EXCEPT ![c].status = IF pats[c].account_id = a THEN "revoked" ELSE @]
  /\ UNCHANGED <<accounts, grantVars, sessionVars, idempotency>>
=============================================================================
