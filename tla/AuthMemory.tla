------------------------------ MODULE AuthMemory ------------------------------
(***************************************************************************)
(* InMemoryAuthDomainRepository, the repository the unit tests run the use *)
(* cases against: each of its methods is one step on its maps, decided and *)
(* applied at once.  It is the reference for the guarded statements and    *)
(* batches of the D1 repository (module AuthStore), which Auth shows to    *)
(* take no step this one could not take.                                   *)
(***************************************************************************)
EXTENDS Integers

CONSTANTS
  Account, Device, UserCode, Poll, Refresh, PatCreation, IdempotencyKey,
  DeviceLifetime, PollInterval, AccessLifetime, SessionIdle,
  SessionAbsolute, PatLifetime, Retention,
  Time                \* the times a call may carry

VARIABLES accounts, authorizations, sessions, access, refresh, pats, idempotency

tableVars == <<accounts, authorizations, sessions, access, refresh, pats, idempotency>>
sessionVars == <<sessions, access, refresh>>
patVars == <<pats, idempotency>>

Token == Poll \cup Refresh
Blank(f, ids) == \A i \in ids : f[i].status = "none"

Init ==
  /\ accounts = [a \in Account |-> "active"]
  /\ Blank(authorizations, Device) /\ Blank(sessions, Poll)
  /\ Blank(access, Token) /\ Blank(refresh, Token) /\ Blank(pats, PatCreation)
  /\ idempotency = {}

\* An account is disabled by an operator.
DisableAccount(a) ==
  accounts' = [accounts EXCEPT ![a] = "disabled"]
  /\ UNCHANGED <<authorizations, sessionVars, patVars>>

SetAuthorization(d, row) ==
  /\ authorizations' = [authorizations EXCEPT ![d] = row]
  /\ UNCHANGED <<accounts, sessionVars, patVars>>

CreateDeviceAuthorization(d, u, now) ==
  /\ authorizations[d].status = "none"
  /\ \A other \in Device : authorizations[other].user_code # u
  /\ SetAuthorization(d, [status |-> "pending", account_id |-> {}, user_code |-> u,
       expires_at |-> now + DeviceLifetime, approved_at |-> 0, last_polled_at |-> -1])

RecordDeviceAuthorizationPoll(d, now, allowedBefore) ==
  /\ authorizations[d].status # "none"
  /\ authorizations[d].last_polled_at # -1 => authorizations[d].last_polled_at <= allowedBefore
  /\ SetAuthorization(d, [authorizations[d] EXCEPT !.last_polled_at = now])

Undecided(d, now) ==
  authorizations[d].status = "pending" /\ authorizations[d].expires_at > now

ApproveDeviceAuthorization(d, a, now) ==
  /\ Undecided(d, now)
  /\ SetAuthorization(d, [authorizations[d] EXCEPT
       !.account_id = a, !.status = "approved", !.approved_at = now])

DenyDeviceAuthorization(d, now) ==
  /\ Undecided(d, now)
  /\ SetAuthorization(d, [authorizations[d] EXCEPT !.status = "denied"])

ExpireDeviceAuthorization(d) ==
  /\ authorizations[d].status = "pending"
  /\ SetAuthorization(d, [authorizations[d] EXCEPT !.status = "expired"])

ExchangeDeviceAuthorization(d, p, now) ==
  LET row == authorizations[d] IN
  /\ row.status = "approved" /\ row.expires_at > now
  /\ accounts[row.account_id] = "active" /\ sessions[p].status = "none"
  /\ sessions' = [sessions EXCEPT ![p] =
       [status |-> "active", account_id |-> row.account_id,
        idle_expires_at |-> row.approved_at + SessionIdle,
        absolute_expires_at |-> row.approved_at + SessionAbsolute]]
  /\ access' = [access EXCEPT ![p] =
       [status |-> "active", session_id |-> p, expires_at |-> now + AccessLifetime]]
  /\ refresh' = [refresh EXCEPT ![p] =
       [status |-> "active", session_id |-> p, parent |-> {}, replaced_by |-> {},
        expires_at |-> row.approved_at + SessionAbsolute]]
  /\ authorizations' = [authorizations EXCEPT ![d].status = "consumed"]
  /\ UNCHANGED <<accounts, patVars>>

RotateRefreshToken(t, r, now) ==
  LET s == refresh[t].session_id IN
  /\ refresh[t].status = "active" /\ refresh[r].status = "none"
  /\ sessions[s].status = "active" /\ accounts[sessions[s].account_id] = "active"
  /\ sessions[s].idle_expires_at > now /\ sessions[s].absolute_expires_at > now
  /\ refresh' = [refresh EXCEPT
       ![t].status = "used", ![t].replaced_by = r,
       ![r] = [status |-> "active", session_id |-> s, parent |-> t,
               replaced_by |-> {}, expires_at |-> sessions[s].absolute_expires_at]]
  /\ access' = [access EXCEPT ![r] =
       [status |-> "active", session_id |-> s, expires_at |-> now + AccessLifetime]]
  /\ sessions' = [sessions EXCEPT ![s].idle_expires_at = now + SessionIdle]
  /\ UNCHANGED <<accounts, authorizations, patVars>>

\* The session and every token of it that is not revoked yet.
EndSession(s, status) ==
  LET Revoked(f) == [t \in Token |-> IF f[t].session_id = s
                                     THEN [f[t] EXCEPT !.status = "revoked"] ELSE f[t]]
  IN /\ sessions[s].status # "none"
     /\ sessions' = [sessions EXCEPT ![s].status = status]
     /\ access' = Revoked(access) /\ refresh' = Revoked(refresh)
     /\ UNCHANGED <<accounts, authorizations, patVars>>

CompromiseCliSession(s) == EndSession(s, "compromised")
RevokeCliSession(s) == EndSession(s, "revoked")

CreatePersonalAccessTokenIdempotently(c, a, k, hash, now) ==
  /\ \A i \in idempotency : ~(i.account_id = a /\ i.key = k /\ i.expires_at > now)
  /\ pats[c].status = "none"
  /\ pats' = [pats EXCEPT ![c] =
       [status |-> "active", account_id |-> a, expires_at |-> now + PatLifetime]]
  /\ idempotency' = {i \in idempotency : i.expires_at > now} \cup
       {[account_id |-> a, key |-> k, request_hash |-> hash, token_id |-> c,
         created_at |-> now, expires_at |-> now + Retention]}
  /\ UNCHANGED <<accounts, authorizations, sessionVars>>

RevokePersonalAccessToken(c, a) ==
  /\ pats[c].status # "none" /\ pats[c].account_id = a
  /\ pats' = [pats EXCEPT ![c].status = "revoked"]
  /\ UNCHANGED <<accounts, authorizations, sessionVars, idempotency>>

Next ==
  \/ \E a \in Account : DisableAccount(a)
  \/ \E d \in Device, u \in UserCode, now \in Time : CreateDeviceAuthorization(d, u, now)
  \/ \E d \in Device, now \in Time :
       \/ RecordDeviceAuthorizationPoll(d, now, now - PollInterval)
       \/ DenyDeviceAuthorization(d, now)
       \/ ExpireDeviceAuthorization(d)
       \/ \E a \in Account : ApproveDeviceAuthorization(d, a, now)
       \/ \E p \in Poll : ExchangeDeviceAuthorization(d, p, now)
  \/ \E t \in Token, r \in Refresh, now \in Time : RotateRefreshToken(t, r, now)
  \/ \E s \in Poll : CompromiseCliSession(s) \/ RevokeCliSession(s)
  \/ \E c \in PatCreation, a \in Account, now \in Time :
       \/ \E k \in IdempotencyKey, hash \in {"a", "b"} :
            CreatePersonalAccessTokenIdempotently(c, a, k, hash, now)
       \/ RevokePersonalAccessToken(c, a)

Spec == Init /\ [][Next]_tableVars
=============================================================================
