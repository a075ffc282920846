--------------------------- MODULE AuthSafetyProofs ---------------------------
(***************************************************************************)
(* What the token repository promises, proved for every number of calls,   *)
(* devices, sessions and keys: one session for each grant, one token for   *)
(* each idempotency key, one chain of refresh tokens for each session, no  *)
(* request admitted on a credential that was dead when it came, and no     *)
(* statement the repository in memory could not have answered alike.       *)
(***************************************************************************)
EXTENDS AuthProofs, FiniteSetTheorems

-----------------------------------------------------------------------------
(***************************************************************************)
(* One session for each device grant, for every number of polls, codes and *)
(* accounts.  A poll that has not come to its exchange has created nothing *)
(* (PollsCreateLate), a session belongs to a code that is consumed on its  *)
(* account (SessionsHaveGrants), and a consumed code has one session       *)
(* (GrantsHaveOneSession); only together are they inductive.               *)
(***************************************************************************)

(* A poll that has not exchanged yet owns no session. *)
PollsCreateLate == \A p \in Poll :
  poll[p].pc \notin {"recheck", "done"} => sessions[p].status = "none"

SessionsHaveGrants == \A p \in Poll : sessions[p].status # "none" =>
  /\ poll[p].device \in Device /\ authorizations[poll[p].device].status = "consumed"
  /\ sessions[p].account_id = authorizations[poll[p].device].account_id

GrantsHaveOneSession == \A d \in Device : authorizations[d].status = "consumed" =>
  \E p \in Poll : SessionsOf(d) = {p}

GrantInv == PollsCreateLate /\ SessionsHaveGrants /\ GrantsHaveOneSession

-----------------------------------------------------------------------------
(* Calls go forward *)

(* The poll reads the row, and goes on with what it read. *)
ReadsRow(p) ==
  /\ poll'[p].pc = "record" /\ poll'[p].now \in 0..clock
  /\ poll'[p].device \in Device /\ authorizations[poll'[p].device].status # "none"
  /\ poll'[p].seen = authorizations[poll'[p].device] /\ UNCHANGED authorizations
KeepsRow(p) ==
  /\ PollRunning(p) /\ poll'[p].now = poll[p].now /\ poll'[p].seen = poll[p].seen
  /\ poll'[p].pc \in {"account", "exchange"} =>
       poll[p].pc \in {"account", "exchange"} \/ poll[p].seen.status = "approved"

PollsMoveOn == \A p \in Poll :
  /\ poll[p].pc \in {"recheck", "done"} => poll'[p].pc \in {"recheck", "done"}
  /\ poll[p].pc # "idle" => poll'[p].device = poll[p].device
  /\ PollRunning(p)' => ReadsRow(p) \/ KeepsRow(p)

LEMMA PollStepMovesOn ==
  ASSUME AuthInv, NEW p \in Poll, PollStep(p)
  PROVE  PollsMoveOn
PROOF
  <1>t. poll \in [Poll -> PollState] /\ PollsFound
    BY DEF AuthInv, TypeOK, DeviceTypeOK
  <1>s. poll[p] \in PollState
    BY <1>t
  <1>o. \A q \in Poll : poll'[q] = poll[q] =>
          (PollRunning(q)' => ReadsRow(q) \/ KeepsRow(q))
    BY DEF PollRunning, KeepsRow
  <1>a. ASSUME PollAnswered(p)
        PROVE  PollsMoveOn
    <2>1. PICK response : PollAnswers(p, response)
      BY <1>a DEF PollAnswered
    <2> DEFINE next == [NoPoll EXCEPT !.pc = "done", !.device = poll[p].device,
                                      !.response = response]
    <2>2. next.pc = "done" /\ next.device = poll[p].device
      BY DEF NoPoll
    <2>3. poll' = [poll EXCEPT ![p] = next]
      BY <2>1 DEF PollAnswers
    <2> HIDE DEF next
    <2>4. poll'[p] = next /\ \A q \in Poll : q # p => poll'[q] = poll[q]
      BY <1>t, <2>3
    <2>5. ~PollRunning(p)'
      BY <2>2, <2>4 DEF PollRunning
    <2> QED
      BY <1>o, <2>2, <2>4, <2>5 DEF PollsMoveOn
  <1>g. ASSUME NEW pc, poll[p].pc \in {"recheck", "done"} => pc \in {"recheck", "done"},
               PollRunning(p), PollGoes(p, pc),
               pc \in {"account", "exchange"} =>
                 poll[p].pc \in {"account", "exchange"} \/ poll[p].seen.status = "approved"
        PROVE  PollsMoveOn
    <2> DEFINE next == [poll[p] EXCEPT !.pc = pc]
    <2>1. /\ next.pc = pc /\ next.device = poll[p].device
          /\ next.now = poll[p].now /\ next.seen = poll[p].seen
      BY <1>s DEF PollState
    <2>2. poll' = [poll EXCEPT ![p] = next]
      BY <1>g DEF PollGoes
    <2> HIDE DEF next
    <2>3. poll'[p] = next /\ \A q \in Poll : q # p => poll'[q] = poll[q]
      BY <1>t, <2>2
    <2>4. KeepsRow(p)
      BY <1>g, <2>1, <2>3 DEF KeepsRow
    <2> QED
      BY <1>g, <1>o, <2>1, <2>3, <2>4 DEF PollsMoveOn
  <1>1. CASE \E d \in Device, now \in 0..clock : FindByDeviceCode(p, d, now)
    <2>1. PICK d \in Device, now \in 0..clock : FindByDeviceCode(p, d, now)
      BY <1>1
    <2> DEFINE found == [NoPoll EXCEPT !.pc = "record", !.device = d,
                                       !.now = now, !.seen = authorizations[d]]
    <2>2. /\ found.pc = "record" /\ found.device = d /\ found.now = now
          /\ found.seen = authorizations[d]
      BY DEF NoPoll
    <2>3. /\ poll' = [poll EXCEPT ![p] = found] /\ authorizations[d].status # "none"
          /\ UNCHANGED authorizations /\ poll[p].pc = "idle"
      BY <2>1 DEF FindByDeviceCode, tableVars
    <2> HIDE DEF found
    <2>4. poll'[p] = found /\ \A q \in Poll : q # p => poll'[q] = poll[q]
      BY <1>t, <2>3
    <2>5. ReadsRow(p)
      BY <2>2, <2>3, <2>4 DEF ReadsRow
    <2> QED
      BY <1>o, <2>3, <2>4, <2>5 DEF PollsMoveOn
  <1>2. CASE RecordDevicePoll(p)
    <2>1. PollAnswered(p) \/ PollGone(p)
      BY <1>2, <1>t, ProceedOutcome DEF RecordDevicePoll, PollRunning, PollAnswered
    <2> QED
      BY <1>2, <2>1, <1>a, <1>g DEF RecordDevicePoll, PollGone, PollRunning
  <1>3. CASE ExpireOnPoll(p)
    BY <1>3, <1>a DEF ExpireOnPoll, PollAnswered
  <1>4. CASE FindApprover(p)
    <2>1. PollAnswers(p, "disabled") \/ PollGoes(p, "exchange")
      BY <1>4 DEF FindApprover
    <2> QED
      BY <1>4, <2>1, <1>a, <1>g DEF FindApprover, PollAnswered, PollRunning
  <1>5. CASE ExchangeForSession(p)
    <2>1. ExchangeRefusal(p) \in {"disabled", "consumed"}
      BY DEF ExchangeRefusal
    <2>2. PollAnswers(p, "tokens") \/ PollAnswers(p, ExchangeRefusal(p))
      BY <1>5 DEF ExchangeForSession
    <2> QED
      BY <2>1, <2>2, <1>a DEF PollAnswered
  <1>6. CASE ExchangeThrows(p)
    BY <1>6, <1>g DEF ExchangeThrows, PollRunning
  <1>7. CASE RecheckConsumed(p)
    <2>1. PollAnswers(p, "consumed") \/ PollAnswers(p, "error")
      BY <1>7 DEF RecheckConsumed
    <2> QED
      BY <2>1, <1>a DEF PollAnswered
  <1>8. CASE PollFails(p)
    BY <1>8, <1>a DEF PollFails, PollAnswered
  <1> QED
    BY <1>1, <1>2, <1>3, <1>4, <1>5, <1>6, <1>7, <1>8 DEF PollStep

LEMMA NextMovesPolls ==
  ASSUME AuthInv, [Next]_vars
  PROVE  PollsMoveOn
PROOF
  <1>1. UNCHANGED poll => PollsMoveOn
    BY DEF PollsMoveOn, KeepsRow, PollRunning
  <1>2. CASE GrantStep
    BY <1>1, <1>2, GrantStepTypes
  <1>3. CASE \E p \in Poll : PollStep(p)
    BY <1>3, PollStepMovesOn
  <1>4. CASE \E r \in Refresh : RefreshStep(r)
    BY <1>1, <1>4, RefreshStepTypes DEF deviceVars
  <1>5. CASE \E c \in Bearer : BearerStep(c)
    BY <1>1, <1>5, BearerStepTypes DEF deviceVars
  <1>6. CASE \E c \in PatCreation : CreationStep(c)
    BY <1>1, <1>6, CreationStepTypes DEF deviceVars
  <1>7. CASE Tick \/ (\E a \in Account : DisableAccount(a)) \/ UNCHANGED vars
    BY <1>1, <1>7 DEF Tick, DisableAccount, vars, deviceVars
  <1> QED
    BY <1>2, <1>3, <1>4, <1>5, <1>6, <1>7 DEF Next

-----------------------------------------------------------------------------
(* Sessions come of exchanges only *)

NoExchange ==
  /\ \A p \in Poll : /\ sessions'[p].status # "none" <=> sessions[p].status # "none"
                     /\ sessions'[p].account_id = sessions[p].account_id
  /\ \A d \in Device :
       authorizations'[d].status = "consumed" <=> authorizations[d].status = "consumed"

LEMMA TableStepExchanges ==
  ASSUME AuthInv, TableStep
  PROVE  NoExchange \/ ExchangeStep
PROOF
  <1>t. /\ authorizations \in [Device -> AuthorizationRow] /\ sessions \in [Session -> SessionRow]
        /\ TokensHaveSessions /\ RowsOK
    BY DEF AuthInv, TypeOK, TablesTypeOK, RowsOK
  <1>1. CASE UNCHANGED tableVars \/ AccountStep \/ PatStep
    BY <1>1 DEF NoExchange, tableVars, AccountStep, PatStep, Mint, InsertPat, sessionVars, grantVars
  <1>2. CASE DecisionStep
    <2>0. UNCHANGED sessions
      BY <1>2, <1>t, CodeKeepsTables
    <2>1. ASSUME NEW e \in Device, NEW a \in Account, NEW now \in Nat,
                 authorizations[e].status = "pending", Approve(e, a, now)
          PROVE  NoExchange
      BY <2>0, <2>1, <1>t DEF Approve, NoExchange, AuthorizationRow
    <2>2. ASSUME NEW e \in Device, authorizations[e].status = "pending", Deny(e)
          PROVE  NoExchange
      BY <2>0, <2>2, <1>t DEF Deny, NoExchange, AuthorizationRow
    <2> QED
      BY <1>2, <2>1, <2>2 DEF DecisionStep, Decidable, StillPending
  <1>3. CASE CodeStep
    <2>0. UNCHANGED sessions
      BY <1>3, <1>t, CodeKeepsTables
    <2>1. ASSUME NEW e \in Device, NEW u \in UserCode, NEW now \in Nat,
                 authorizations[e].status = "none", InsertAuthorization(e, u, now)
          PROVE  NoExchange
      BY <2>0, <2>1, <1>t DEF InsertAuthorization, NoExchange, NoAuthorization
    <2>2. ASSUME NEW e \in Device, NEW now \in Nat, RecordPoll(e, now)
          PROVE  NoExchange
      BY <2>0, <2>2, <1>t DEF RecordPoll, NoExchange, AuthorizationRow
    <2>3. ASSUME NEW e \in Device, ExpireAuthorization(e)
          PROVE  NoExchange
      BY <2>0, <2>3, <1>t DEF ExpireAuthorization, NoExchange, AuthorizationRow
    <2> QED
      BY <1>3, <2>1, <2>2, <2>3 DEF CodeStep
  <1>4. ASSUME NEW s \in Session, NEW row \in SessionRow, UNCHANGED grantVars,
               sessions' = [sessions EXCEPT ![s] = row],
               sessions[s].status # "none", row.status # "none",
               row.account_id = sessions[s].account_id
        PROVE  NoExchange
    BY <1>4, <1>t DEF NoExchange, grantVars, Session
  <1>5. CASE RotationStep
    <2>1. PICK r \in Refresh : /\ Presented(r) \in Token
                               /\ Rotatable(Presented(r), refreshing[r].now)
                               /\ Rotate(Presented(r), r, refreshing[r].now)
                               /\ refreshing[r].now \in Nat
      BY <1>5 DEF RotationStep, AuthInv, TypeOK, SessionCallsTypeOK, RefreshState
    <2> DEFINE s == refresh[Presented(r)].session_id
               row == [sessions[s] EXCEPT !.idle_expires_at = refreshing[r].now + SessionIdle]
    <2>2. sessions[s].status = "active" /\ refresh[Presented(r)].status = "active"
      BY <2>1 DEF Rotatable
    <2>3. s \in Session
      BY <2>1, <2>2, <1>t DEF TokensHaveSessions, Issued
    <2>4. refreshing[r].now + SessionIdle \in Nat
      BY <2>1, LifetimesAreNat
    <2>5. /\ row \in SessionRow /\ row.status = sessions[s].status
          /\ row.account_id = sessions[s].account_id
      BY <2>3, <2>4, <1>t DEF SessionRow
    <2>6. sessions' = [sessions EXCEPT ![s] = row] /\ UNCHANGED grantVars
      BY <2>1 DEF Rotate
    <2> HIDE DEF row, s
    <2> QED
      BY <2>2, <2>3, <2>5, <2>6, <1>4
  <1>6. CASE EndStep
    <2>1. PICK s \in Session, status \in {"revoked", "compromised"} :
            /\ sessions[s].status # "none"
            /\ sessions' = [sessions EXCEPT ![s].status = status] /\ UNCHANGED grantVars
      BY <1>6 DEF EndStep, CompromiseSession, RevokeSession
    <2> DEFINE row == [sessions[s] EXCEPT !.status = status]
    <2>2. /\ row \in SessionRow /\ row.status = status
          /\ row.account_id = sessions[s].account_id
      BY <1>t DEF SessionRow
    <2>3. sessions' = [sessions EXCEPT ![s] = row]
      BY <2>1
    <2> HIDE DEF row
    <2> QED
      BY <2>1, <2>2, <2>3, <1>4
  <1> QED
    BY <1>1, <1>2, <1>3, <1>5, <1>6 DEF TableStep

LEMMA GrantStepByStep ==
  ASSUME AuthInv, GrantInv, TableStep, PollsMoveOn
  PROVE  GrantInv'
PROOF
  <1>t. /\ authorizations \in [Device -> AuthorizationRow] /\ sessions \in [Session -> SessionRow]
        /\ PollsCreateLate /\ SessionsHaveGrants /\ GrantsHaveOneSession
    BY DEF AuthInv, TypeOK, TablesTypeOK, GrantInv
  <1>s. \A p \in Poll : sessions[p].status # "none" => poll[p].pc # "idle"
    BY <1>t DEF PollsCreateLate
  <1>d. \A p \in Poll : sessions[p].status # "none" => poll'[p].device = poll[p].device
    BY <1>s DEF PollsMoveOn
  <1>1. CASE NoExchange
    <2>1. PollsCreateLate'
      BY <1>1, <1>t DEF PollsCreateLate, PollsMoveOn, NoExchange
    <2>2. SessionsHaveGrants'
      <3> SUFFICES ASSUME NEW p \in Poll, sessions'[p].status # "none"
                   PROVE  /\ poll'[p].device \in Device
                          /\ authorizations'[poll'[p].device].status = "consumed"
                          /\ sessions'[p].account_id = authorizations'[poll'[p].device].account_id
        BY DEF SessionsHaveGrants
      <3>1. sessions[p].status # "none" /\ sessions'[p].account_id = sessions[p].account_id
        BY <1>1 DEF NoExchange
      <3>2. /\ poll[p].device \in Device /\ authorizations[poll[p].device].status = "consumed"
            /\ sessions[p].account_id = authorizations[poll[p].device].account_id
        BY <3>1, <1>t DEF SessionsHaveGrants
      <3>3. StaysDecided(poll[p].device)
        BY <3>2, TableStepDecides DEF Decided
      <3> QED
        BY <1>d, <3>1, <3>2, <3>3 DEF StaysDecided
    <2>3. GrantsHaveOneSession'
      <3> SUFFICES ASSUME NEW d \in Device, authorizations'[d].status = "consumed"
                   PROVE  \E p \in Poll : SessionsOf(d)' = {p}
        BY DEF GrantsHaveOneSession
      <3>1. PICK p \in Poll : SessionsOf(d) = {p}
        BY <1>1, <1>t DEF NoExchange, GrantsHaveOneSession
      <3>2. SessionsOf(d)' = SessionsOf(d)
        BY <1>1, <1>d DEF SessionsOf, NoExchange
      <3> QED
        BY <3>1, <3>2
    <2> QED
      BY <2>1, <2>2, <2>3 DEF GrantInv
  <1>2. CASE ExchangeStep
    <2>1. PICK p \in Poll : /\ poll[p].pc = "exchange" /\ poll[p].device \in Device
                            /\ CanExchange(p) /\ ExchangeNow(p)
                            /\ poll'[p].pc \in {"recheck", "done"}
      BY <1>2 DEF ExchangeStep
    <2> DEFINE e == poll[p].device
               a == poll[p].seen.account_id
    <2>2. authorizations[e].status = "approved" /\ authorizations[e].account_id = a
      BY <2>1 DEF CanExchange, Exchangeable
    <2>3. /\ authorizations'[e].status = "consumed" /\ authorizations'[e].account_id = a
          /\ \A d \in Device : d # e => authorizations'[d] = authorizations[d]
      BY <2>1, <2>2, <1>t DEF ExchangeNow, Exchange, AuthorizationRow
    <2>4. /\ sessions'[p].status = "active" /\ sessions'[p].account_id = a
          /\ \A q \in Poll : q # p => sessions'[q] = sessions[q]
      BY <2>1, <1>t DEF ExchangeNow, Exchange, Session
    <2>5. poll'[p].device = e
      BY <2>1 DEF PollsMoveOn
    <2>6. PollsCreateLate'
      BY <2>1, <2>4, <1>t DEF PollsCreateLate, PollsMoveOn
    <2>7. \A q \in Poll : sessions[q].status # "none" => poll[q].device # e
      BY <2>2, <1>t DEF SessionsHaveGrants
    <2>8. SessionsHaveGrants'
      BY <2>1, <2>3, <2>4, <2>5, <2>7, <1>d, <1>t DEF SessionsHaveGrants
    <2>9. ASSUME NEW d \in Device, d = e
          PROVE  SessionsOf(d)' = {p}
      BY <2>4, <2>5, <2>7, <2>9, <1>d DEF SessionsOf
    <2>10. ASSUME NEW d \in Device, d # e
           PROVE  SessionsOf(d)' = SessionsOf(d)
      BY <2>4, <2>5, <2>10, <1>d, <2>1, <1>t DEF SessionsOf, PollsCreateLate
    <2>11. GrantsHaveOneSession'
      <3> SUFFICES ASSUME NEW d \in Device, authorizations'[d].status = "consumed"
                   PROVE  \E q \in Poll : SessionsOf(d)' = {q}
        BY DEF GrantsHaveOneSession
      <3>1. CASE d = e
        BY <2>9, <3>1
      <3>2. CASE d # e
        <4>1. PICK q \in Poll : SessionsOf(d) = {q}
          BY <2>3, <3>2, <1>t DEF GrantsHaveOneSession
        <4> QED
          BY <2>10, <3>2, <4>1
      <3> QED
        BY <3>1, <3>2
    <2> QED
      BY <2>6, <2>8, <2>11 DEF GrantInv
  <1> QED
    BY <1>1, <1>2, TableStepExchanges

LEMMA GrantInvariant == Spec => []GrantInv
PROOF
  <1>1. Init => GrantInv
    BY DEF Init, TablesInit, GrantInv, PollsCreateLate, SessionsHaveGrants, GrantsHaveOneSession,
       NoSession, NoAuthorization, Session
  <1>2. AuthInv /\ GrantInv /\ [Next]_vars => GrantInv'
    BY NextTakesTableStep, NextMovesPolls, GrantStepByStep
  <1> QED
    BY <1>1, <1>2, AuthInvariant, PTL DEF Spec

(* exchangeDeviceAuthorization, for any number of polls that run at once, fail *)
(* after their batch was committed, or are repeated: a device code gives one   *)
(* session exactly when it is consumed, on the account that approved it.       *)
THEOREM OneSessionPerGrantHolds == Spec => []OneSessionPerGrant
PROOF
  <1>1. GrantInv => OneSessionPerGrant
    <2> SUFFICES ASSUME GrantInv, NEW d \in Device
                 PROVE  /\ authorizations[d].status = "consumed" <=> SessionsOf(d) # {}
                        /\ Cardinality(SessionsOf(d)) <= 1
                        /\ \A p \in SessionsOf(d) :
                             sessions[p].account_id = authorizations[d].account_id
      BY DEF OneSessionPerGrant
    <2>1. \A p \in SessionsOf(d) :
            /\ authorizations[d].status = "consumed"
            /\ sessions[p].account_id = authorizations[d].account_id
      BY DEF GrantInv, SessionsHaveGrants, SessionsOf
    <2>2. CASE authorizations[d].status = "consumed"
      <3>1. PICK p \in Poll : SessionsOf(d) = {p}
        BY <2>2 DEF GrantInv, GrantsHaveOneSession
      <3>2. Cardinality(SessionsOf(d)) = 1
        BY <3>1, FS_Singleton
      <3> QED
        BY <2>1, <2>2, <3>1, <3>2
    <2>3. CASE authorizations[d].status # "consumed"
      <3>1. SessionsOf(d) = {}
        BY <2>1, <2>3
      <3> QED
        BY <2>3, <3>1, FS_EmptySet
    <2> QED
      BY <2>2, <2>3
  <1> QED
    BY <1>1, GrantInvariant, PTL

-----------------------------------------------------------------------------
(***************************************************************************)
(* An idempotency key mints one token, for every number of calls, keys and *)
(* accounts and every lifetime, as long as a call is over in less than     *)
(* half the retention.  A record may be swept while a call that has not    *)
(* seen it waits to insert; then the record was written while that call    *)
(* ran (OverlapOrLapsed), and cannot be old enough to be swept before it   *)
(* ends.                                                                   *)
(***************************************************************************)

Exists(c) == pats[c].status # "none"
SameKey(c, d) == creation[c].account = creation[d].account /\ creation[c].key = creation[d].key

CreationsInTime == \A c \in PatCreation : CreationRunning(c) =>
  creation[c].now <= clock /\ clock <= creation[c].now + CallTime

(* A call that has not come to its batch has minted nothing. *)
CreationsMintLate == \A c \in PatCreation :
  creation[c].pc \in {"idle", "insert"} => ~Exists(c)

(* A record is that of the call that minted its token. *)
Names(i) ==
  LET c == i.token_id IN
  /\ c \in PatCreation /\ Exists(c) /\ i.account_id = creation[c].account
  /\ i.key = creation[c].key /\ i.request_hash = creation[c].hash
  /\ i.expires_at = creation[c].now + Retention
RecordsName == \A i \in idempotency : Names(i)
FoundName == \A c \in PatCreation : \A i \in creation[c].found :
  Names(i) /\ i.account_id = creation[c].account /\ i.key = creation[c].key

RecordsKept == \A d \in PatCreation : Exists(d) =>
  (\E i \in idempotency : i.token_id = d) \/ clock >= creation[d].now + Retention

(* A token of the key that a waiting call did not find had lapsed when the *)
(* call started, or was minted after that.                                 *)
OverlapOrLapsed == \A c, d \in PatCreation :
  creation[c].pc = "insert" /\ Exists(d) /\ SameKey(c, d) =>
    \/ creation[c].now >= creation[d].now + Retention
    \/ creation[c].now <= creation[d].now + CallTime

KeyInv ==
  /\ CreationsInTime /\ CreationsMintLate /\ RecordsName /\ FoundName
  /\ RecordsKept /\ OverlapOrLapsed /\ KeyMintsOnce /\ ReplayIsOfTheSameRequest

-----------------------------------------------------------------------------
(* What a step does to a creation *)

SameRequest(c) ==
  /\ creation'[c].account = creation[c].account /\ creation'[c].key = creation[c].key
  /\ creation'[c].hash = creation[c].hash /\ creation'[c].now = creation[c].now
Starts(c) ==
  /\ creation[c].pc = "idle" /\ creation'[c].now = clock
  /\ LiveRecords(creation'[c].account, creation'[c].key, clock) = {}
  /\ \A d \in PatCreation : d # c => creation'[d] = creation[d]
  /\ UNCHANGED <<pats, idempotency, clock>>
Finds(c, i) ==
  /\ i \in idempotency /\ i.account_id = creation'[c].account /\ i.key = creation'[c].key

MovesOn(c) ==
  /\ creation[c].pc \notin {"idle", "insert"} => creation'[c].pc \notin {"idle", "insert"}
  /\ creation[c].pc # "idle" => SameRequest(c)
  /\ creation'[c].pc = "insert" => creation[c].pc = "insert" \/ Starts(c)
  /\ CreationRunning(c)' => CreationRunning(c) \/ creation'[c].now = clock
  /\ \A i \in creation'[c].found :
       Finds(c, i) \/ (i \in creation[c].found /\ SameRequest(c))
  /\ creation'[c].response = "replayed" =>
       \/ creation[c].response = "replayed" /\ SameRequest(c)
          /\ creation'[c].token = creation[c].token
       \/ \E i \in creation[c].found :
            /\ SameRequest(c) /\ i.request_hash = creation[c].hash
            /\ creation'[c].token = i.token_id

LEMMA StaysMovesOn ==
  ASSUME NEW c \in PatCreation, creation'[c] = creation[c]
  PROVE  MovesOn(c)
  BY DEF MovesOn, SameRequest, CreationRunning

LEMMA AnswerMovesOn ==
  ASSUME creation \in [PatCreation -> CreationState], NEW c \in PatCreation, CreationRunning(c),
         NEW response, NEW token, CreationAnswers(c, response, token),
         response = "replayed" => \E i \in creation[c].found :
           i.request_hash = creation[c].hash /\ token = i.token_id
  PROVE  \A d \in PatCreation : MovesOn(d)
PROOF
  <1>1. creation[c] \in CreationState
    OBVIOUS
  <1> DEFINE next == [creation[c] EXCEPT !.pc = "done", !.found = {},
                                         !.response = response, !.token = token]
  <1>2. /\ next.pc = "done" /\ next.found = {} /\ next.response = response
        /\ next.token = token /\ next.account = creation[c].account
        /\ next.key = creation[c].key /\ next.hash = creation[c].hash
        /\ next.now = creation[c].now
    BY <1>1 DEF CreationState
  <1>3. creation' = [creation EXCEPT ![c] = next]
    BY DEF CreationAnswers
  <1> HIDE DEF next
  <1>4. creation'[c] = next /\ \A d \in PatCreation : d # c => creation'[d] = creation[d]
    BY <1>3
  <1>5. MovesOn(c)
    BY <1>2, <1>4 DEF MovesOn, SameRequest, CreationRunning
  <1> QED
    BY <1>4, <1>5, StaysMovesOn

LEMMA GoMovesOn ==
  ASSUME creation \in [PatCreation -> CreationState], NEW c \in PatCreation, CreationRunning(c),
         NEW pc \in {"recover", "reread", "replay"}, NEW found, CreationGoes(c, pc, found),
         \A i \in found : /\ i \in idempotency /\ i.account_id = creation[c].account
                          /\ i.key = creation[c].key
  PROVE  \A d \in PatCreation : MovesOn(d)
PROOF
  <1>1. creation[c] \in CreationState
    OBVIOUS
  <1> DEFINE next == [creation[c] EXCEPT !.pc = pc, !.found = found]
  <1>2. /\ next.pc = pc /\ next.found = found /\ next.response = creation[c].response
        /\ next.token = creation[c].token /\ next.account = creation[c].account
        /\ next.key = creation[c].key /\ next.hash = creation[c].hash
        /\ next.now = creation[c].now
    BY <1>1 DEF CreationState
  <1>3. creation' = [creation EXCEPT ![c] = next]
    BY DEF CreationGoes
  <1> HIDE DEF next
  <1>4. creation'[c] = next /\ \A d \in PatCreation : d # c => creation'[d] = creation[d]
    BY <1>3
  <1>5. MovesOn(c)
    BY <1>2, <1>4 DEF MovesOn, SameRequest, CreationRunning, Finds
  <1> QED
    BY <1>4, <1>5, StaysMovesOn

LEMMA CreationStepMovesOn ==
  ASSUME AuthInv, NEW c \in PatCreation, CreationStep(c)
  PROVE  \A d \in PatCreation : MovesOn(d)
PROOF
  <1>t. creation \in [PatCreation -> CreationState]
    BY DEF AuthInv, TypeOK, CreationTypeOK
  <1>f. \A i \in RecordOf(c) : /\ i \in idempotency /\ i.account_id = creation[c].account
                               /\ i.key = creation[c].key
    BY DEF RecordOf, LiveRecords
  <1>1. CASE \E a \in Account, k \in IdempotencyKey, hash \in {"a", "b"} :
               StartCreation(c, a, k, hash)
    <2>1. PICK a \in Account, k \in IdempotencyKey, hash \in {"a", "b"} :
            StartCreation(c, a, k, hash)
      BY <1>1
    <2> DEFINE found == LiveRecords(a, k, clock)
               pc == IF found = {} THEN "insert" ELSE "replay"
               next == [NoCreation EXCEPT !.pc = pc, !.account = a, !.key = k, !.hash = hash,
                                          !.now = clock, !.found = found]
    <2>2. /\ next.pc = pc /\ next.account = a /\ next.key = k /\ next.now = clock
          /\ next.found = found /\ next.response = ""
      BY DEF NoCreation
    <2>3. /\ creation[c].pc = "idle" /\ creation' = [creation EXCEPT ![c] = next]
          /\ UNCHANGED <<pats, idempotency, clock>>
      BY <2>1 DEF StartCreation, tableVars, Quiet, worldVars
    <2>4. \A i \in found : i \in idempotency /\ i.account_id = a /\ i.key = k
      BY DEF LiveRecords
    <2>5. pc = "insert" => found = {}
      OBVIOUS
    <2> HIDE DEF next, pc
    <2>6. creation'[c] = next /\ \A d \in PatCreation : d # c => creation'[d] = creation[d]
      BY <2>3, <1>t
    <2>7. pc = "insert" => Starts(c)
      BY <2>2, <2>3, <2>5, <2>6 DEF Starts
    <2> HIDE DEF found
    <2>8. MovesOn(c)
      BY <2>2, <2>3, <2>4, <2>6, <2>7 DEF MovesOn, Finds
    <2> QED
      BY <2>6, <2>8, StaysMovesOn
  <1>2. CASE CreateIdempotently(c)
    <2>1. CreationRunning(c)
      BY <1>2 DEF CreateIdempotently, CreationRunning
    <2>2. CreationAnswers(c, "created", c) \/ CreationGoes(c, "recover", {})
      BY <1>2 DEF CreateIdempotently
    <2> QED
      BY <1>t, <2>1, <2>2, AnswerMovesOn, GoMovesOn
  <1>3. CASE CreateThrows(c)
    BY <1>3, <1>t, GoMovesOn DEF CreateThrows, CreationRunning
  <1>4. CASE RecoverExisting(c)
    <2>1. CreationRunning(c)
      BY <1>4 DEF RecoverExisting, CreationRunning
    <2>2. CreationAnswers(c, "error", {}) \/ CreationGoes(c, "reread", {})
      BY <1>4 DEF RecoverExisting
    <2> QED
      BY <1>t, <2>1, <2>2, AnswerMovesOn, GoMovesOn
  <1>5. CASE FindRacedRecord(c)
    <2>1. CreationRunning(c)
      BY <1>5 DEF FindRacedRecord, CreationRunning
    <2>2. CreationAnswers(c, "error", {}) \/ CreationGoes(c, "replay", RecordOf(c))
      BY <1>5 DEF FindRacedRecord
    <2> QED
      BY <1>t, <1>f, <2>1, <2>2, AnswerMovesOn, GoMovesOn
  <1>6. CASE ReplayPersonalAccessToken(c)
    <2>1. CreationRunning(c)
      BY <1>6 DEF ReplayPersonalAccessToken, CreationRunning
    <2>2. PICK i \in creation[c].found :
            \/ CreationAnswers(c, "conflict", {})
            \/ i.request_hash = creation[c].hash /\ CreationAnswers(c, "replayed", i.token_id)
      BY <1>6 DEF ReplayPersonalAccessToken
    <2> QED
      BY <1>t, <2>1, <2>2, AnswerMovesOn
  <1>7. CASE CreationFails(c)
    BY <1>7, <1>t, AnswerMovesOn DEF CreationFails, CreationRunning
  <1> QED
    BY <1>1, <1>2, <1>3, <1>4, <1>5, <1>6, <1>7 DEF CreationStep

(* The clock stands still, or ticks while no call is overdue. *)
ClockMoves ==
  \/ clock' = clock
  \/ /\ clock' = clock + 1 /\ UNCHANGED creation
     /\ \A c \in PatCreation : CreationRunning(c) => InTime(creation[c].now)

LEMMA NextMovesCreations ==
  ASSUME AuthInv, [Next]_vars
  PROVE  ClockMoves /\ \A c \in PatCreation : MovesOn(c)
PROOF
  <1>1. UNCHANGED creation => \A c \in PatCreation : MovesOn(c)
    BY StaysMovesOn
  <1>2. CASE GrantStep
    BY <1>1, <1>2, GrantStepTypes DEF ClockMoves
  <1>3. CASE \E p \in Poll : PollStep(p)
    BY <1>1, <1>3, PollStepTypes DEF ClockMoves
  <1>4. CASE \E r \in Refresh : RefreshStep(r)
    BY <1>1, <1>4, RefreshStepTypes DEF ClockMoves
  <1>5. CASE \E c \in Bearer : BearerStep(c)
    BY <1>1, <1>5, BearerStepTypes DEF ClockMoves
  <1>6. CASE \E c \in PatCreation : CreationStep(c)
    BY <1>6, CreationStepTypes, CreationStepMovesOn DEF ClockMoves
  <1>7. CASE Tick
    BY <1>1, <1>7 DEF Tick, ClockMoves
  <1>8. CASE (\E a \in Account : DisableAccount(a)) \/ UNCHANGED vars
    BY <1>1, <1>8 DEF DisableAccount, vars, worldVars, ClockMoves
  <1> QED
    BY <1>2, <1>3, <1>4, <1>5, <1>6, <1>7, <1>8 DEF Next

(* A step mints nothing, or is the batch of one creation. *)
MintsNothing ==
  /\ \A c \in PatCreation : Exists(c)' <=> Exists(c)
  /\ UNCHANGED idempotency
Mints(c) ==
  /\ creation[c].pc = "insert" /\ CanMint(c) /\ Mint(c)
  /\ creation'[c].pc \in {"recover", "done"}

LEMMA TableStepMints ==
  ASSUME AuthInv, TableStep
  PROVE  MintsNothing \/ \E c \in PatCreation : Mints(c)
PROOF
  <1>t. pats \in [PatCreation -> PatRow] /\ CreationsNamed
    BY DEF AuthInv, TypeOK, TablesTypeOK
  <1>1. UNCHANGED patVars => MintsNothing
    BY DEF patVars, MintsNothing, Exists
  <1>2. CASE UNCHANGED tableVars
    BY <1>1, <1>2 DEF tableVars, patVars
  <1>3. CASE AccountStep \/ DecisionStep \/ CodeStep
    BY <1>1, <1>3 DEF AccountStep, DecisionStep, CodeStep, Approve, Deny, InsertAuthorization,
       RecordPoll, ExpireAuthorization
  <1>4. CASE ExchangeStep \/ RotationStep \/ EndStep
    BY <1>1, <1>4 DEF ExchangeStep, ExchangeNow, Exchange, RotationStep, Rotate, EndStep,
       CompromiseSession, RevokeSession
  <1>5. ASSUME NEW c \in PatCreation, pats[c].status # "none",
               pats' \in {pats, [pats EXCEPT ![c].status = "revoked"]},
               UNCHANGED idempotency
        PROVE  MintsNothing
    BY <1>5, <1>t DEF MintsNothing, Exists, PatRow
  <1>6. CASE PatStep
    BY <1>5, <1>6 DEF PatStep, Mints
  <1> QED
    BY <1>2, <1>3, <1>4, <1>6 DEF TableStep

-----------------------------------------------------------------------------
(* The invariant *)

(* What the batch of a creation leaves. *)
LEMMA MintEffect ==
  ASSUME AuthInv, NEW c \in PatCreation, Mints(c)
  PROVE  /\ Exists(c)' /\ \A d \in PatCreation : d # c => (Exists(d)' <=> Exists(d))
         /\ \E new : /\ idempotency' = (idempotency \ Lapsed(creation[c].now)) \cup {new}
                     /\ new.token_id = c /\ new.account_id = creation[c].account
                     /\ new.key = creation[c].key /\ new.request_hash = creation[c].hash
                     /\ new.expires_at = creation[c].now + Retention
PROOF
  <1>t. pats \in [PatCreation -> PatRow]
    BY DEF AuthInv, TypeOK, TablesTypeOK
  <1> DEFINE new == [account_id |-> creation[c].account, key |-> creation[c].key,
                     request_hash |-> creation[c].hash, token_id |-> c,
                     created_at |-> creation[c].now,
                     expires_at |-> creation[c].now + Retention]
  <1>1. idempotency' = (idempotency \ Lapsed(creation[c].now)) \cup {new}
    BY DEF Mints, Mint, InsertPat
  <1>2. Exists(c)' /\ \A d \in PatCreation : d # c => (Exists(d)' <=> Exists(d))
    BY <1>t DEF Mints, Mint, InsertPat, Exists
  <1>3. /\ new.token_id = c /\ new.account_id = creation[c].account
        /\ new.key = creation[c].key /\ new.request_hash = creation[c].hash
        /\ new.expires_at = creation[c].now + Retention
    OBVIOUS
  <1> HIDE DEF new
  <1> QED
    BY <1>1, <1>2, <1>3

LEMMA InTimeStep ==
  ASSUME AuthInv, CreationsInTime, ClockMoves, \A c \in PatCreation : MovesOn(c)
  PROVE  CreationsInTime'
PROOF
  <1>t. clock \in Nat /\ CallTime \in Nat /\ creation \in [PatCreation -> CreationState]
    BY CallTimeAssumption DEF AuthInv, TypeOK, TablesTypeOK, CreationTypeOK
  <1>n. \A c \in PatCreation : creation[c].now \in Nat
    BY <1>t DEF CreationState
  <1> SUFFICES ASSUME NEW c \in PatCreation, CreationRunning(c)'
               PROVE  creation'[c].now <= clock' /\ clock' <= creation'[c].now + CallTime
    BY DEF CreationsInTime
  <1>1. CASE clock' = clock
    <2>1. CASE CreationRunning(c)
      <3>1. creation'[c].now = creation[c].now
        BY <2>1 DEF MovesOn, SameRequest, CreationRunning
      <3> QED
        BY <1>1, <2>1, <3>1 DEF CreationsInTime
    <2>2. CASE ~CreationRunning(c)
      <3>1. creation'[c].now = clock
        BY <2>2 DEF MovesOn
      <3> QED
        BY <1>1, <1>t, <3>1
    <2> QED
      BY <2>1, <2>2
  <1>2. CASE /\ clock' = clock + 1 /\ UNCHANGED creation
             /\ \A d \in PatCreation : CreationRunning(d) => InTime(creation[d].now)
    <2>1. CreationRunning(c) /\ clock < creation[c].now + CallTime /\ creation[c].now <= clock
      BY <1>2 DEF CreationRunning, InTime, CreationsInTime
    <2> QED
      BY <1>2, <1>t, <1>n, <2>1
  <1> QED
    BY <1>1, <1>2 DEF ClockMoves

(* Once minted, a token names the same request for ever. *)
LEMMA MintedStay ==
  ASSUME CreationsMintLate, \A c \in PatCreation : MovesOn(c),
         MintsNothing \/ (\E c \in PatCreation : Mints(c)), AuthInv
  PROVE  \A c \in PatCreation : Exists(c) => Exists(c)' /\ SameRequest(c)
PROOF
  <1> SUFFICES ASSUME NEW c \in PatCreation, Exists(c)
               PROVE  Exists(c)' /\ SameRequest(c)
    OBVIOUS
  <1>1. SameRequest(c)
    BY DEF CreationsMintLate, MovesOn
  <1>2. Exists(c)'
    BY MintEffect DEF MintsNothing
  <1> QED
    BY <1>1, <1>2

LEMMA NamesStay ==
  ASSUME NEW i, Names(i), \A c \in PatCreation : Exists(c) => Exists(c)' /\ SameRequest(c)
  PROVE  Names(i)'
  BY DEF Names, SameRequest

LEMMA MintLateStep ==
  ASSUME AuthInv, CreationsMintLate, \A c \in PatCreation : MovesOn(c),
         MintsNothing \/ \E c \in PatCreation : Mints(c)
  PROVE  CreationsMintLate'
PROOF
  <1> SUFFICES ASSUME NEW c \in PatCreation, creation'[c].pc \in {"idle", "insert"}
               PROVE  ~Exists(c)'
    BY DEF CreationsMintLate
  <1>1. ~Exists(c)
    BY DEF CreationsMintLate, MovesOn
  <1>2. ASSUME NEW d \in PatCreation, Mints(d) PROVE ~Exists(c)'
    BY <1>1, <1>2, MintEffect DEF Mints
  <1> QED
    BY <1>1, <1>2 DEF MintsNothing

LEMMA NamesStep ==
  ASSUME AuthInv, CreationsMintLate, RecordsName, FoundName,
         \A c \in PatCreation : MovesOn(c),
         MintsNothing \/ \E c \in PatCreation : Mints(c)
  PROVE  RecordsName' /\ FoundName'
PROOF
  <1>m. \A c \in PatCreation : Exists(c) => Exists(c)' /\ SameRequest(c)
    BY MintedStay
  <1>1. RecordsName'
    <2> SUFFICES ASSUME NEW i \in idempotency' PROVE Names(i)'
      BY DEF RecordsName
    <2>1. CASE i \in idempotency
      BY <2>1, <1>m, NamesStay DEF RecordsName
    <2>2. CASE i \notin idempotency
      <3>1. PICK c \in PatCreation : Mints(c)
        BY <2>2 DEF MintsNothing
      <3>2. /\ Exists(c)' /\ i.token_id = c /\ i.account_id = creation[c].account
            /\ i.key = creation[c].key /\ i.request_hash = creation[c].hash
            /\ i.expires_at = creation[c].now + Retention
        BY <2>2, <3>1, MintEffect
      <3>3. SameRequest(c)
        BY <3>1 DEF Mints, MovesOn
      <3> QED
        BY <3>2, <3>3 DEF Names, SameRequest
    <2> QED
      BY <2>1, <2>2
  <1>2. FoundName'
    <2> SUFFICES ASSUME NEW c \in PatCreation, NEW i \in creation'[c].found
                 PROVE  /\ Names(i)' /\ i.account_id = creation'[c].account
                        /\ i.key = creation'[c].key
      BY DEF FoundName
    <2>1. CASE Finds(c, i)
      BY <2>1, <1>m, NamesStay DEF Finds, RecordsName
    <2>2. CASE i \in creation[c].found /\ SameRequest(c)
      BY <2>2, <1>m, NamesStay DEF FoundName, SameRequest
    <2> QED
      BY <2>1, <2>2 DEF MovesOn
  <1> QED
    BY <1>1, <1>2

(* A call that mints finds the record of every earlier token of its key, or *)
(* starts after that record has lapsed.                                     *)
LEMMA MintsApart ==
  ASSUME AuthInv, KeyInv, NEW c \in PatCreation, Mints(c),
         NEW d \in PatCreation, Exists(d), SameKey(c, d)
  PROVE  creation[c].now >= creation[d].now + Retention
PROOF
  <1>t. /\ creation[c].now \in Nat /\ creation[d].now \in Nat /\ clock \in Nat
        /\ CallTime \in Nat /\ Retention \in Nat /\ 2 * CallTime < Retention
    BY LifetimesAreNat, CallTimeAssumption
       DEF AuthInv, TypeOK, TablesTypeOK, CreationTypeOK, CreationState
  <1>1. creation[c].pc = "insert" /\ CreationRunning(c)
    BY DEF Mints, CreationRunning
  <1>2. CASE creation[c].now >= creation[d].now + Retention
    BY <1>2
  <1>3. CASE creation[c].now <= creation[d].now + CallTime
    <2>1. clock <= creation[c].now + CallTime
      BY <1>1 DEF KeyInv, CreationsInTime
    <2>2. ~(clock >= creation[d].now + Retention)
      BY <1>3, <1>t, <2>1
    <2>3. PICK i \in idempotency : i.token_id = d
      BY <2>2 DEF KeyInv, RecordsKept
    <2>4. /\ i.account_id = creation[d].account /\ i.key = creation[d].key
          /\ i.expires_at = creation[d].now + Retention
      BY <2>3 DEF KeyInv, RecordsName, Names
    <2>5. i \in Lapsed(creation[c].now)
      BY <2>3, <2>4 DEF Mints, CanMint, KeyFree, SameKey
    <2>6. i.expires_at <= creation[c].now
      BY <2>5 DEF Lapsed
    <2> QED
      BY <1>t, <2>4, <2>6
  <1> QED
    BY <1>1, <1>2, <1>3 DEF KeyInv, OverlapOrLapsed

LEMMA KeptStep ==
  ASSUME AuthInv, KeyInv, ClockMoves, \A c \in PatCreation : MovesOn(c),
         MintsNothing \/ \E c \in PatCreation : Mints(c)
  PROVE  RecordsKept'
PROOF
  <1>c. clock \in Nat
    BY DEF AuthInv, TypeOK, TablesTypeOK
  <1>d. clock' \in Nat /\ clock' >= clock
    BY <1>c DEF ClockMoves
  <1>n. \A c \in PatCreation : creation[c].now \in Nat
    BY DEF AuthInv, TypeOK, CreationTypeOK, CreationState
  <1>t. /\ clock \in Nat /\ clock' \in Nat /\ clock' >= clock /\ Retention \in Nat
        /\ \A c \in PatCreation : creation[c].now \in Nat
    BY <1>c, <1>d, <1>n, LifetimesAreNat
  <1>m. \A c \in PatCreation : Exists(c) => SameRequest(c)
    BY MintedStay DEF KeyInv
  <1> SUFFICES ASSUME NEW d \in PatCreation, Exists(d)'
               PROVE  \/ \E i \in idempotency' : i.token_id = d
                      \/ clock' >= creation'[d].now + Retention
    BY DEF RecordsKept
  <1>1. CASE MintsNothing
    <2>1. Exists(d) /\ SameRequest(d)
      BY <1>1, <1>m DEF MintsNothing
    <2>2. CASE \E i \in idempotency : i.token_id = d
      BY <1>1, <2>2 DEF MintsNothing
    <2>3. CASE clock >= creation[d].now + Retention
      <3>1. creation'[d].now = creation[d].now
        BY <2>1 DEF SameRequest
      <3> QED
        BY <1>t, <2>3, <3>1
    <2> QED
      BY <2>1, <2>2, <2>3 DEF KeyInv, RecordsKept
  <1>2. ASSUME NEW c \in PatCreation, Mints(c)
        PROVE  \/ \E i \in idempotency' : i.token_id = d
               \/ clock' >= creation'[d].now + Retention
    <2>1. CASE d = c
      BY <1>2, <2>1, MintEffect
    <2>2. CASE d # c
      <3>1. Exists(d) /\ SameRequest(d)
        BY <1>2, <2>2, <1>m, MintEffect
      <3>2. creation'[d].now = creation[d].now
        BY <3>1 DEF SameRequest
      <3>3. CASE clock >= creation[d].now + Retention
        BY <1>t, <3>2, <3>3
      <3>4. CASE \E i \in idempotency : i.token_id = d
        <4>1. PICK i \in idempotency : i.token_id = d
          BY <3>4
        <4>2. CASE i \in Lapsed(creation[c].now)
          <5>1. creation[d].now + Retention <= creation[c].now
            BY <4>1, <4>2 DEF KeyInv, RecordsName, Names, Lapsed
          <5>2. creation[c].now <= clock
            BY <1>2 DEF Mints, CreationRunning, KeyInv, CreationsInTime
          <5>3. clock' >= creation[d].now + Retention
            BY <1>t, <5>1, <5>2
          <5> QED
            BY <3>2, <5>3
        <4>3. CASE i \notin Lapsed(creation[c].now)
          <5>1. i \in idempotency'
            BY <1>2, <4>3, MintEffect
          <5> QED
            BY <4>1, <5>1
        <4> QED
          BY <4>2, <4>3
      <3> QED
        BY <3>1, <3>3, <3>4 DEF KeyInv, RecordsKept
    <2> QED
      BY <2>1, <2>2
  <1> QED
    BY <1>1, <1>2

LEMMA OverlapStep ==
  ASSUME AuthInv, KeyInv, ClockMoves, \A c \in PatCreation : MovesOn(c),
         MintsNothing \/ \E c \in PatCreation : Mints(c)
  PROVE  OverlapOrLapsed'
PROOF
  <1>t. /\ clock \in Nat /\ CallTime \in Nat /\ Retention \in Nat
        /\ \A c \in PatCreation : creation[c].now \in Nat
    BY LifetimesAreNat, CallTimeAssumption
       DEF AuthInv, TypeOK, TablesTypeOK, CreationTypeOK, CreationState
  <1>m. \A c \in PatCreation : Exists(c) => SameRequest(c)
    BY MintedStay DEF KeyInv
  <1>i. \A c \in PatCreation : CreationRunning(c) =>
          creation[c].now <= clock /\ clock <= creation[c].now + CallTime
    BY DEF KeyInv, CreationsInTime
  <1> SUFFICES ASSUME NEW c \in PatCreation, NEW d \in PatCreation,
                      creation'[c].pc = "insert", Exists(d)', SameKey(c, d)'
               PROVE  \/ creation'[c].now >= creation'[d].now + Retention
                      \/ creation'[c].now <= creation'[d].now + CallTime
    BY DEF OverlapOrLapsed
  <1>1. CASE Starts(c)
    <2>1. Exists(d) /\ SameRequest(d)
      BY <1>1, <1>m DEF Starts, Exists
    <2>2. CASE clock >= creation[d].now + Retention
      BY <1>1, <2>1, <2>2 DEF Starts, SameRequest
    <2>3. CASE \E i \in idempotency : i.token_id = d
      <3>1. PICK i \in idempotency : i.token_id = d
        BY <2>3
      <3>2. /\ i.account_id = creation[d].account /\ i.key = creation[d].key
            /\ i.expires_at = creation[d].now + Retention
        BY <3>1 DEF KeyInv, RecordsName, Names
      <3>3. i.account_id = creation'[c].account /\ i.key = creation'[c].key
        BY <2>1, <3>2 DEF SameKey, SameRequest
      <3>4. ~(i.expires_at > clock)
        BY <1>1, <3>3 DEF Starts, LiveRecords
      <3>5. clock >= creation[d].now + Retention
        BY <1>t, <3>2, <3>4
      <3> QED
        BY <1>1, <2>1, <3>5 DEF Starts, SameRequest
    <2> QED
      BY <2>1, <2>2, <2>3 DEF KeyInv, RecordsKept
  <1>2. CASE creation[c].pc = "insert"
    <2>1. SameRequest(c)
      BY <1>2 DEF MovesOn
    <2>2. CASE Exists(d)
      <3>1. SameRequest(d) /\ SameKey(c, d)
        BY <2>1, <2>2, <1>m DEF SameKey, SameRequest
      <3> QED
        BY <1>2, <2>1, <2>2, <3>1 DEF KeyInv, OverlapOrLapsed, SameRequest
    <2>3. CASE ~Exists(d)
      <3>1. Mints(d)
        BY <2>3, MintEffect DEF MintsNothing
      <3>2. CreationRunning(c) /\ CreationRunning(d) /\ SameRequest(d)
        BY <1>2, <3>1 DEF Mints, CreationRunning, MovesOn
      <3>3. creation[c].now <= creation[d].now + CallTime
        BY <1>i, <1>t, <3>2
      <3> QED
        BY <2>1, <3>2, <3>3 DEF SameRequest
    <2> QED
      BY <2>2, <2>3
  <1> QED
    BY <1>1, <1>2 DEF MovesOn

LEMMA OnceStep ==
  ASSUME AuthInv, KeyInv, \A c \in PatCreation : MovesOn(c),
         MintsNothing \/ \E c \in PatCreation : Mints(c)
  PROVE  KeyMintsOnce'
PROOF
  <1>m. \A c \in PatCreation : Exists(c) => SameRequest(c)
    BY MintedStay DEF KeyInv
  <1> DEFINE Apart(c, d) == \/ creation[c].now >= creation[d].now + Retention
                            \/ creation[d].now >= creation[c].now + Retention
  <1> SUFFICES ASSUME NEW a \in Account, NEW k \in IdempotencyKey,
                      NEW c \in PatCreation, NEW d \in PatCreation, c # d,
                      c \in Minted(a, k)', d \in Minted(a, k)'
               PROVE  Apart(c, d)'
    BY DEF KeyMintsOnce, Minted
  <1>s. /\ Exists(c)' /\ Exists(d)' /\ SameKey(c, d)'
        /\ creation'[d].account = a /\ creation'[d].key = k
    BY DEF Minted, Exists, SameKey
  <1>1. CASE Exists(c) /\ Exists(d)
    <2>1. SameRequest(c) /\ SameRequest(d)
      BY <1>1, <1>m
    <2>2. c \in Minted(a, k) /\ d \in Minted(a, k)
      BY <1>1, <1>s, <2>1 DEF SameKey, SameRequest, Minted, Exists
    <2>3. Apart(c, d)
      BY <2>2 DEF KeyInv, KeyMintsOnce
    <2> QED
      BY <2>1, <2>3 DEF SameRequest
  <1>2. CASE ~Exists(c)
    <2>1. Mints(c)
      BY <1>2, <1>s, MintEffect DEF MintsNothing
    <2>2. Exists(d)
      BY <2>1, <1>s, MintEffect
    <2>3. SameRequest(c) /\ SameRequest(d)
      BY <2>1, <2>2, <1>m DEF Mints, MovesOn
    <2>4. SameKey(c, d)
      BY <1>s, <2>3 DEF SameKey, SameRequest
    <2> QED
      BY <2>1, <2>2, <2>3, <2>4, MintsApart DEF SameRequest
  <1>3. CASE ~Exists(d)
    <2>1. Mints(d)
      BY <1>3, <1>s, MintEffect DEF MintsNothing
    <2>2. Exists(c)
      BY <2>1, <1>s, MintEffect
    <2>3. SameRequest(c) /\ SameRequest(d)
      BY <2>1, <2>2, <1>m DEF Mints, MovesOn
    <2>4. SameKey(d, c)
      BY <1>s, <2>3 DEF SameKey, SameRequest
    <2> QED
      BY <2>1, <2>2, <2>3, <2>4, MintsApart DEF SameRequest
  <1> QED
    BY <1>1, <1>2, <1>3

LEMMA ReplayStep ==
  ASSUME AuthInv, KeyInv, \A c \in PatCreation : MovesOn(c),
         MintsNothing \/ \E c \in PatCreation : Mints(c)
  PROVE  ReplayIsOfTheSameRequest'
PROOF
  <1>m. \A c \in PatCreation : Exists(c) => Exists(c)' /\ SameRequest(c)
    BY MintedStay DEF KeyInv
  <1> SUFFICES ASSUME NEW c \in PatCreation, creation'[c].response = "replayed"
               PROVE  LET t == creation'[c].token IN
                      /\ t \in PatCreation /\ pats'[t].status # "none"
                      /\ creation'[t].account = creation'[c].account
                      /\ creation'[t].key = creation'[c].key
                      /\ creation'[t].hash = creation'[c].hash
    BY DEF ReplayIsOfTheSameRequest, Minted
  <1>1. /\ SameRequest(c) /\ creation'[c].token \in PatCreation /\ Exists(creation'[c].token)
        /\ creation[creation'[c].token].account = creation[c].account
        /\ creation[creation'[c].token].key = creation[c].key
        /\ creation[creation'[c].token].hash = creation[c].hash
    <2>1. CASE creation[c].response = "replayed" /\ SameRequest(c)
               /\ creation'[c].token = creation[c].token
      BY <2>1 DEF KeyInv, ReplayIsOfTheSameRequest, Minted, Exists
    <2>2. CASE \E i \in creation[c].found :
                 /\ SameRequest(c) /\ i.request_hash = creation[c].hash
                 /\ creation'[c].token = i.token_id
      BY <2>2 DEF KeyInv, FoundName, Names
    <2> QED
      BY <2>1, <2>2 DEF MovesOn
  <1>2. Exists(creation'[c].token) => pats'[creation'[c].token].status # "none"
    BY <1>1, <1>m DEF Exists
  <1>3. SameRequest(creation'[c].token)
    BY <1>1, <1>m
  <1> QED
    BY <1>1, <1>2, <1>3 DEF SameRequest

LEMMA KeyInvariant == Spec => []KeyInv
PROOF
  <1>1. Init => KeyInv
    <2> SUFFICES ASSUME Init PROVE KeyInv
      OBVIOUS
    <2>1. /\ \A c \in PatCreation : /\ creation[c].pc = "idle" /\ creation[c].found = {}
                                     /\ creation[c].response = "" /\ ~Exists(c)
          /\ idempotency = {}
      BY DEF Init, TablesInit, CreationInit, NoPat, NoCreation, Exists
    <2>2. CreationsInTime /\ CreationsMintLate /\ RecordsName /\ FoundName
      BY <2>1 DEF CreationsInTime, CreationsMintLate, RecordsName, FoundName, CreationRunning
    <2>3. RecordsKept /\ OverlapOrLapsed
      BY <2>1 DEF RecordsKept, OverlapOrLapsed
    <2>4. KeyMintsOnce /\ ReplayIsOfTheSameRequest
      BY <2>1 DEF KeyMintsOnce, ReplayIsOfTheSameRequest, Minted, Exists
    <2> QED
      BY <2>2, <2>3, <2>4 DEF KeyInv
  <1>2. AuthInv /\ KeyInv /\ [Next]_vars => KeyInv'
    <2> SUFFICES ASSUME AuthInv, KeyInv, [Next]_vars PROVE KeyInv'
      OBVIOUS
    <2>1. ClockMoves /\ \A c \in PatCreation : MovesOn(c)
      BY NextMovesCreations
    <2>2. MintsNothing \/ \E c \in PatCreation : Mints(c)
      BY NextTakesTableStep, TableStepMints
    <2>3. CreationsInTime'
      BY <2>1, InTimeStep DEF KeyInv
    <2>4. CreationsMintLate' /\ RecordsName' /\ FoundName'
      BY <2>1, <2>2, MintLateStep, NamesStep DEF KeyInv
    <2>5. RecordsKept' /\ OverlapOrLapsed'
      BY <2>1, <2>2, KeptStep, OverlapStep
    <2>6. KeyMintsOnce' /\ ReplayIsOfTheSameRequest'
      BY <2>1, <2>2, OnceStep, ReplayStep
    <2> QED
      BY <2>3, <2>4, <2>5, <2>6 DEF KeyInv
  <1> QED
    BY <1>1, <1>2, AuthInvariant, PTL DEF Spec

(* createPersonalAccessTokenIdempotently, for any number of calls: within the *)
(* retention an idempotency key mints one token, although the batch of one    *)
(* call sweeps the lapsed records another has yet to look for.                *)
THEOREM KeysMintOnce == Spec => []KeyMintsOnce
PROOF
  <1>1. KeyInv => KeyMintsOnce
    BY DEF KeyInv
  <1> QED
    BY <1>1, KeyInvariant, PTL

(* replayPersonalAccessToken, for any number of calls: a repeated call is only *)
(* ever answered with the token of its own account, key and request.           *)
THEOREM ReplaysMatch == Spec => []ReplayIsOfTheSameRequest
PROOF
  <1>1. KeyInv => ReplayIsOfTheSameRequest
    BY DEF KeyInv
  <1> QED
    BY <1>1, KeyInvariant, PTL

-----------------------------------------------------------------------------
(***************************************************************************)
(* The refresh tokens of a session are one chain, and a token presented    *)
(* twice ends its session, for every number of calls.  A rotation links    *)
(* the presented token to a row that did not exist (RefreshesCreateLate),  *)
(* which is why no link is ever overwritten; the exchange starts a chain   *)
(* with the id of a session that did not exist (GrantInv).                 *)
(***************************************************************************)

Waiting(r) == refreshing[r].pc \in {"idle", "session", "account", "rotate"}

(* A refresh that has not rotated owns no refresh token. *)
RefreshesCreateLate == \A r \in Refresh : Waiting(r) => refresh[r].status = "none"

(* The token of an exchange exists only with its session. *)
FirstTokensHaveSessions == \A p \in Poll :
  refresh[p].status # "none" => sessions[p].status # "none"

EmptyRows == \A t \in Token : refresh[t].status = "none" =>
  refresh[t].parent = {} /\ refresh[t].replaced_by = {} /\ refresh[t].session_id = {}

Linked == \A t, u \in Token : refresh[u].parent = t <=> refresh[t].replaced_by = u

ActiveAreLast == \A t \in Token :
  refresh[t].status = "active" => refresh[t].replaced_by = {}

ActiveOf(s) == {t \in Token : refresh[t].session_id = s /\ refresh[t].status = "active"}
OneActive == \A s \in Session : sessions[s].status = "active" =>
  \E t \in Token : ActiveOf(s) = {t}

(* The answers that were given are still true. *)
AnsweredByLink == \A r \in Refresh : refreshing[r].response = "tokens" =>
  Presented(r) \in Token /\ refresh[Presented(r)].replaced_by = r
ReuseAnswered == \A r \in Refresh : refreshing[r].response = "reuse" =>
  /\ Presented(r) \in Token /\ refresh[Presented(r)].status # "none"
  /\ sessions[SessionOf(r)].status \in {"revoked", "compromised"}

ChainInv ==
  /\ RefreshesCreateLate /\ FirstTokensHaveSessions /\ EmptyRows /\ Linked
  /\ ActiveAreLast /\ OneActive /\ AnsweredByLink /\ ReuseAnswered

-----------------------------------------------------------------------------
(* Refresh calls go forward *)

RotatesNow(r) ==
  /\ Presented(r) \in Token /\ Rotatable(Presented(r), refreshing[r].now)
  /\ Rotate(Presented(r), r, refreshing[r].now)
CompromisesNow(r) ==
  /\ Presented(r) \in Token /\ refresh[Presented(r)].status # "none"
  /\ CompromiseSession(SessionOf(r))

RefreshMovesOn(r) ==
  /\ ~Waiting(r) => ~Waiting(r)'
  /\ refreshing'[r].response = "tokens" =>
       /\ refreshing'[r].token = refreshing[r].token
       /\ refreshing[r].response = "tokens" \/ RotatesNow(r)
  /\ refreshing'[r].response = "reuse" =>
       /\ refreshing'[r].token = refreshing[r].token
       /\ refreshing[r].response = "reuse" \/ CompromisesNow(r)
  /\ RefreshRunning(r)' => \/ RefreshRunning(r) /\ refreshing'[r].now = refreshing[r].now
                           \/ refreshing'[r].now \in {0, clock}

LEMMA StaysRefreshMovesOn ==
  ASSUME NEW r \in Refresh, refreshing'[r] = refreshing[r]
  PROVE  RefreshMovesOn(r)
  BY DEF RefreshMovesOn, Waiting, RefreshRunning

LEMMA RefreshAnswersMovesOn ==
  ASSUME refreshing \in [Refresh -> RefreshState], NEW r \in Refresh,
         NEW response, RefreshAnswers(r, response),
         response = "tokens" => RotatesNow(r), response = "reuse" => CompromisesNow(r)
  PROVE  \A q \in Refresh : RefreshMovesOn(q)
PROOF
  <1>1. refreshing[r] \in RefreshState
    OBVIOUS
  <1> DEFINE next == [refreshing[r] EXCEPT !.pc = "done", !.now = 0, !.response = response]
  <1>2. next.pc = "done" /\ next.response = response /\ next.token = refreshing[r].token
    BY <1>1 DEF RefreshState
  <1>3. refreshing' = [refreshing EXCEPT ![r] = next]
    BY DEF RefreshAnswers
  <1> HIDE DEF next
  <1>4. refreshing'[r] = next /\ \A q \in Refresh : q # r => refreshing'[q] = refreshing[q]
    BY <1>3
  <1>5. RefreshMovesOn(r)
    BY <1>2, <1>4 DEF RefreshMovesOn, Waiting, RefreshRunning
  <1> QED
    BY <1>4, <1>5, StaysRefreshMovesOn

LEMMA RefreshGoesMovesOn ==
  ASSUME refreshing \in [Refresh -> RefreshState], NEW r \in Refresh, NEW pc,
         RefreshGoes(r, pc), RefreshRunning(r), Waiting(r) \/ pc \in {"explain", "compromise"}
  PROVE  \A q \in Refresh : RefreshMovesOn(q)
PROOF
  <1>1. refreshing[r] \in RefreshState
    OBVIOUS
  <1> DEFINE next == [refreshing[r] EXCEPT !.pc = pc]
  <1>2. /\ next.pc = pc /\ next.response = refreshing[r].response
        /\ next.token = refreshing[r].token /\ next.now = refreshing[r].now
    BY <1>1 DEF RefreshState
  <1>3. refreshing' = [refreshing EXCEPT ![r] = next]
    BY DEF RefreshGoes
  <1> HIDE DEF next
  <1>4. refreshing'[r] = next /\ \A q \in Refresh : q # r => refreshing'[q] = refreshing[q]
    BY <1>3
  <1>5. RefreshMovesOn(r)
    BY <1>2, <1>4 DEF RefreshMovesOn, Waiting, RefreshRunning
  <1> QED
    BY <1>4, <1>5, StaysRefreshMovesOn

LEMMA RefreshStepMovesOn ==
  ASSUME AuthInv, NEW r \in Refresh, RefreshStep(r)
  PROVE  \A q \in Refresh : RefreshMovesOn(q)
PROOF
  <1>t. /\ refreshing \in [Refresh -> RefreshState] /\ RefreshesFound /\ clock \in Nat
        /\ refresh \in [Token -> RefreshRow]
    BY DEF AuthInv, TypeOK, TablesTypeOK, SessionCallsTypeOK
  <1>r. RefreshRunning(r) =>
          Presented(r) \in Token /\ refresh[Presented(r)].status \in {"active", "used", "revoked"}
    BY <1>t DEF RefreshesFound, RefreshRow
  <1>1. CASE FindSessionToRefresh(r)
    <2>1. Waiting(r) /\ RefreshRunning(r)
      BY <1>1 DEF FindSessionToRefresh, Waiting, RefreshRunning
    <2>2. \/ RefreshAnswers(r, "session_revoked") \/ RefreshAnswers(r, "session_expired")
          \/ RefreshGoes(r, "account")
      BY <1>1 DEF FindSessionToRefresh
    <2> QED
      BY <1>t, <2>1, <2>2, RefreshAnswersMovesOn, RefreshGoesMovesOn
  <1>2. CASE FindAccountToRefresh(r)
    <2>1. Waiting(r) /\ RefreshRunning(r)
      BY <1>2 DEF FindAccountToRefresh, Waiting, RefreshRunning
    <2>2. RefreshAnswers(r, "disabled") \/ RefreshGoes(r, "rotate")
      BY <1>2 DEF FindAccountToRefresh
    <2> QED
      BY <1>t, <2>1, <2>2, RefreshAnswersMovesOn, RefreshGoesMovesOn
  <1>3. CASE RotateRefreshToken(r)
    <2>1. Waiting(r) /\ RefreshRunning(r) /\ Presented(r) \in Token
      BY <1>3, <1>r DEF RotateRefreshToken, Waiting, RefreshRunning
    <2>2. (RotatesNow(r) /\ RefreshAnswers(r, "tokens")) \/ RefreshGoes(r, "classify")
      BY <1>3, <2>1 DEF RotateRefreshToken, RotatesNow
    <2> QED
      BY <1>t, <2>1, <2>2, RefreshAnswersMovesOn, RefreshGoesMovesOn
  <1>4. CASE ClassifyRotation(r)
    <2>0. RefreshRunning(r)
      BY <1>4 DEF ClassifyRotation, RefreshRunning
    <2>1. \/ RefreshGoes(r, "compromise") \/ RefreshGoes(r, "explain")
          \/ RefreshAnswers(r, "session_revoked")
      <3>1. CASE refresh[Presented(r)].status = "used"
        BY <1>4, <3>1 DEF ClassifyRotation
      <3>2. CASE refresh[Presented(r)].status = "active"
        BY <1>4, <3>2 DEF ClassifyRotation
      <3>3. CASE refresh[Presented(r)].status = "revoked"
        BY <1>4, <3>3 DEF ClassifyRotation
      <3> QED
        BY <1>r, <2>0, <3>1, <3>2, <3>3
    <2> QED
      BY <1>t, <2>0, <2>1, RefreshAnswersMovesOn, RefreshGoesMovesOn
  <1>5. CASE ExplainRotation(r)
    <2>1. PICK response \in {"session_expired", "disabled", "session_revoked"} :
            RefreshAnswers(r, response)
      BY <1>5 DEF ExplainRotation
    <2> QED
      BY <1>t, <2>1, RefreshAnswersMovesOn
  <1>6. CASE CompromiseOnReuse(r)
    <2>1. Presented(r) \in Token /\ refresh[Presented(r)].status # "none"
      BY <1>6, <1>r DEF CompromiseOnReuse, RefreshRunning
    <2>2. CompromisesNow(r) /\ RefreshAnswers(r, "reuse")
      BY <1>6, <2>1 DEF CompromiseOnReuse, CompromisesNow
    <2> QED
      BY <1>t, <2>2, RefreshAnswersMovesOn
  <1>7. CASE \E t \in Token : FindRefreshToken(r, t)
    <2>1. PICK t \in Token : FindRefreshToken(r, t)
      BY <1>7
    <2> DEFINE next == refreshing'[r]
    <2>2. refreshing' = [refreshing EXCEPT ![r] = next] /\ next \in FindOutcomes(t)
      BY <2>1, FindRefreshOutcome
    <2> HIDE DEF next
    <2>3. next.response \notin {"tokens", "reuse"} /\ next.now \in {0, clock}
      BY <1>t, <2>2, FindOutcomesTypes
    <2>4. refreshing'[r] = next /\ \A q \in Refresh : q # r => refreshing'[q] = refreshing[q]
      BY <1>t, <2>2
    <2>5. Waiting(r)
      BY <2>1 DEF FindRefreshToken, Waiting
    <2>6. RefreshMovesOn(r)
      BY <2>3, <2>4, <2>5 DEF RefreshMovesOn
    <2> QED
      BY <2>4, <2>6, StaysRefreshMovesOn
  <1>8. CASE RotateAckLost(r)
    BY <1>8, <1>t, RefreshAnswersMovesOn DEF RotateAckLost
  <1>9. CASE RefreshFails(r)
    BY <1>9, <1>t, RefreshAnswersMovesOn DEF RefreshFails
  <1> QED
    BY <1>1, <1>2, <1>3, <1>4, <1>5, <1>6, <1>7, <1>8, <1>9 DEF RefreshStep, RefreshAdvances

LEMMA NextMovesRefreshes ==
  ASSUME AuthInv, [Next]_vars
  PROVE  \A r \in Refresh : RefreshMovesOn(r)
PROOF
  <1>1. UNCHANGED refreshing => \A r \in Refresh : RefreshMovesOn(r)
    BY StaysRefreshMovesOn
  <1>2. CASE GrantStep
    BY <1>1, <1>2, GrantStepTypes DEF callVars
  <1>3. CASE \E p \in Poll : PollStep(p)
    BY <1>1, <1>3, PollStepTypes DEF callVars
  <1>4. CASE \E r \in Refresh : RefreshStep(r)
    BY <1>4, RefreshStepMovesOn
  <1>5. CASE \E c \in Bearer : BearerStep(c)
    BY <1>1, <1>5, BearerStepTypes
  <1>6. CASE \E c \in PatCreation : CreationStep(c)
    BY <1>1, <1>6, CreationStepTypes DEF callVars
  <1>7. CASE Tick \/ (\E a \in Account : DisableAccount(a)) \/ UNCHANGED vars
    BY <1>1, <1>7 DEF Tick, DisableAccount, vars, callVars
  <1> QED
    BY <1>2, <1>3, <1>4, <1>5, <1>6, <1>7 DEF Next

-----------------------------------------------------------------------------
(* The chain through each statement *)

RefreshesKeep == \A r \in Refresh : RefreshMovesOn(r)

LEMMA ChainTypes ==
  ASSUME AuthInv
  PROVE  /\ sessions \in [Session -> SessionRow] /\ refresh \in [Token -> RefreshRow]
         /\ refreshing \in [Refresh -> RefreshState] /\ {} \notin Token /\ {} \notin Session
         /\ Session = Poll /\ Poll \subseteq Token /\ Refresh \subseteq Token
         /\ TokensHaveSessions
  BY CallAssumption DEF AuthInv, TypeOK, TablesTypeOK, SessionCallsTypeOK, Token, Session

(* The links and the sessions of tokens stay, and ended sessions stay ended. *)
TokensStay ==
  /\ \A t \in Token :
       /\ refresh[t].replaced_by # {} => refresh'[t].replaced_by = refresh[t].replaced_by
       /\ refresh[t].status # "none" =>
            refresh'[t].status # "none" /\ refresh'[t].session_id = refresh[t].session_id
  /\ \A s \in Session : Ended(s) => Ended(s)'

LEMMA AnswersStay ==
  ASSUME AuthInv, ChainInv, RefreshesKeep, TokensStay, Linked'
  PROVE  AnsweredByLink' /\ ReuseAnswered'
PROOF
  <1>t. /\ sessions \in [Session -> SessionRow] /\ refresh \in [Token -> RefreshRow]
        /\ {} \notin Token /\ Refresh \subseteq Token /\ TokensHaveSessions
    BY ChainTypes
  <1>1. AnsweredByLink'
    <2> SUFFICES ASSUME NEW r \in Refresh, refreshing'[r].response = "tokens"
                 PROVE  /\ refreshing'[r].token \in Token
                        /\ refresh'[refreshing'[r].token].replaced_by = r
      BY DEF AnsweredByLink, Presented
    <2> DEFINE t == refreshing[r].token
    <2>1. refreshing'[r].token = t
      BY DEF RefreshesKeep, RefreshMovesOn
    <2>2. CASE refreshing[r].response = "tokens"
      <3>1. t \in Token /\ refresh[t].replaced_by = r
        BY <2>2 DEF ChainInv, AnsweredByLink, Presented
      <3>2. r # {}
        BY <1>t
      <3> QED
        BY <2>1, <3>1, <3>2 DEF TokensStay
    <2>3. CASE RotatesNow(r)
      <3>1. t \in Token /\ r \in Token /\ refresh'[r].parent = t
        BY <2>3, <1>t DEF RotatesNow, Rotate, Presented
      <3>2. refresh'[t].replaced_by = r
        BY <3>1 DEF Linked
      <3> QED
        BY <2>1, <3>1, <3>2
    <2> QED
      BY <2>2, <2>3 DEF RefreshesKeep, RefreshMovesOn
  <1>2. ReuseAnswered'
    <2> SUFFICES ASSUME NEW r \in Refresh, refreshing'[r].response = "reuse"
                 PROVE  LET t == refreshing'[r].token IN
                        /\ t \in Token /\ refresh'[t].status # "none"
                        /\ sessions'[refresh'[t].session_id].status \in {"revoked", "compromised"}
      BY DEF ReuseAnswered, Presented, SessionOf
    <2> DEFINE t == refreshing[r].token
               s == refresh[t].session_id
    <2>1. refreshing'[r].token = t
      BY DEF RefreshesKeep, RefreshMovesOn
    <2>2. t \in Token /\ refresh[t].status # "none"
      BY DEF ChainInv, ReuseAnswered, RefreshesKeep, RefreshMovesOn, CompromisesNow, Presented
    <2>3. s \in Session /\ refresh'[t].session_id = s /\ refresh'[t].status # "none"
      BY <2>2, <1>t DEF TokensStay, TokensHaveSessions, Issued
    <2>4. CASE refreshing[r].response = "reuse"
      <3>1. Ended(s)
        BY <2>4 DEF ChainInv, ReuseAnswered, Presented, SessionOf, Ended
      <3> QED
        BY <2>1, <2>2, <2>3, <3>1 DEF TokensStay, Ended
    <2>5. CASE CompromisesNow(r)
      <3>1. sessions'[s].status = "compromised"
        BY <2>3, <2>5, <1>t DEF CompromisesNow, CompromiseSession, SessionOf, Presented
      <3> QED
        BY <2>1, <2>2, <2>3, <3>1
    <2> QED
      BY <2>4, <2>5 DEF RefreshesKeep, RefreshMovesOn
  <1> QED
    BY <1>1, <1>2

LEMMA ChainUntouched ==
  ASSUME AuthInv, ChainInv, RefreshesKeep, UNCHANGED <<sessions, refresh>>
  PROVE  ChainInv' /\ TokensStay
PROOF
  <1>1. RefreshesCreateLate' /\ FirstTokensHaveSessions' /\ EmptyRows'
    BY DEF ChainInv, RefreshesCreateLate, FirstTokensHaveSessions, EmptyRows, RefreshesKeep,
       RefreshMovesOn
  <1>2. Linked' /\ ActiveAreLast' /\ OneActive'
    BY DEF ChainInv, Linked, ActiveAreLast, OneActive, ActiveOf
  <1>3. TokensStay
    BY DEF TokensStay, Ended
  <1> QED
    BY <1>1, <1>2, <1>3, AnswersStay DEF ChainInv

(* The exchange begins a chain of one token. *)
LEMMA ChainExchange ==
  ASSUME AuthInv, GrantInv, ChainInv, RefreshesKeep, ExchangeStep
  PROVE  ChainInv' /\ TokensStay
PROOF
  <1>t. /\ sessions \in [Session -> SessionRow] /\ refresh \in [Token -> RefreshRow]
        /\ refreshing \in [Refresh -> RefreshState] /\ {} \notin Token /\ {} \notin Session
        /\ Session = Poll /\ Poll \subseteq Token /\ Refresh \subseteq Token
        /\ TokensHaveSessions /\ Poll \cap Refresh = {}
    BY ChainTypes, CallAssumption
  <1>1. PICK p \in Poll : poll[p].pc = "exchange" /\ ExchangeNow(p)
    BY DEF ExchangeStep
  <1>2. sessions[p].status = "none" /\ refresh[p].status = "none"
    BY <1>1 DEF GrantInv, PollsCreateLate, ChainInv, FirstTokensHaveSessions
  <1>3. refresh[p].parent = {} /\ refresh[p].replaced_by = {}
    BY <1>2, <1>t DEF ChainInv, EmptyRows
  <1>4. /\ refresh'[p].status = "active" /\ refresh'[p].session_id = p
        /\ refresh'[p].parent = {} /\ refresh'[p].replaced_by = {}
        /\ \A t \in Token : t # p => refresh'[t] = refresh[t]
    BY <1>1, <1>t DEF ExchangeNow, Exchange, NoRefresh
  <1>5. /\ sessions'[p].status = "active"
        /\ \A s \in Session : s # p => sessions'[s] = sessions[s]
    BY <1>1, <1>t DEF ExchangeNow, Exchange
  <1>6. \A t \in Token : /\ refresh'[t].parent = refresh[t].parent
                         /\ refresh'[t].replaced_by = refresh[t].replaced_by
    BY <1>3, <1>4
  <1>7. RefreshesCreateLate'
    BY <1>4, <1>1, <1>t DEF ChainInv, RefreshesCreateLate, RefreshesKeep, RefreshMovesOn, Waiting
  <1>8. FirstTokensHaveSessions' /\ EmptyRows'
    BY <1>4, <1>5, <1>t DEF ChainInv, FirstTokensHaveSessions, EmptyRows
  <1>9. Linked' /\ ActiveAreLast'
    BY <1>4, <1>6, <1>t DEF ChainInv, Linked, ActiveAreLast
  <1>10. \A t \in Token : refresh[t].status # "none" => refresh[t].session_id # p
    BY <1>2 DEF TokensHaveSessions, Issued, AuthInv
  <1>11. OneActive'
    <2> SUFFICES ASSUME NEW s \in Session, sessions'[s].status = "active"
                 PROVE  \E t \in Token : ActiveOf(s)' = {t}
      BY DEF OneActive
    <2>1. CASE s = p
      <3>1. ActiveOf(s)' = {p}
        BY <2>1, <1>4, <1>10, <1>t DEF ActiveOf
      <3> QED
        BY <3>1, <1>t
    <2>2. CASE s # p
      <3>1. ActiveOf(s)' = ActiveOf(s)
        BY <2>2, <1>2, <1>4, <1>t DEF ActiveOf
      <3>2. sessions[s].status = "active"
        BY <2>2, <1>5
      <3> QED
        BY <3>1, <3>2 DEF ChainInv, OneActive
    <2> QED
      BY <2>1, <2>2
  <1>12. TokensStay
    BY <1>2, <1>4, <1>5, <1>6, <1>t DEF TokensStay, Ended
  <1> QED
    BY <1>7, <1>8, <1>9, <1>11, <1>12, AnswersStay DEF ChainInv

(* A rotation puts a new token at the end of the chain. *)
LEMMA ChainRotation ==
  ASSUME AuthInv, ChainInv, RefreshesKeep, RotationStep
  PROVE  ChainInv' /\ TokensStay
PROOF
  <1>t. /\ sessions \in [Session -> SessionRow] /\ refresh \in [Token -> RefreshRow]
        /\ refreshing \in [Refresh -> RefreshState] /\ {} \notin Token /\ {} \notin Session
        /\ Session = Poll /\ Poll \subseteq Token /\ Refresh \subseteq Token
        /\ TokensHaveSessions /\ Poll \cap Refresh = {}
    BY ChainTypes, CallAssumption
  <1>1. PICK r \in Refresh : /\ refreshing[r].pc = "rotate" /\ Presented(r) \in Token
                             /\ Rotatable(Presented(r), refreshing[r].now)
                             /\ Rotate(Presented(r), r, refreshing[r].now)
                             /\ refreshing'[r].pc = "done"
    BY DEF RotationStep
  <1> DEFINE t == Presented(r)
             mine == refresh[t].session_id
  <1>2. /\ t \in Token /\ r \in Token /\ refresh[t].status = "active"
        /\ sessions[mine].status = "active"
    BY <1>1, <1>t DEF Rotatable
  <1>3. mine \in Session
    BY <1>2, <1>t DEF TokensHaveSessions, Issued
  <1>4. refresh[r].status = "none" /\ r # t
    BY <1>1, <1>2 DEF ChainInv, RefreshesCreateLate, Waiting
  <1>5. refresh[r].parent = {} /\ refresh[r].replaced_by = {} /\ refresh[t].replaced_by = {}
    BY <1>2, <1>4 DEF ChainInv, EmptyRows, ActiveAreLast
  <1>6. /\ refresh'[t].status = "used" /\ refresh'[t].replaced_by = r
        /\ refresh'[t].parent = refresh[t].parent /\ refresh'[t].session_id = mine
    BY <1>1, <1>2, <1>4, <1>t DEF Rotate, RefreshRow
  <1>7. /\ refresh'[r].status = "active" /\ refresh'[r].replaced_by = {}
        /\ refresh'[r].parent = t /\ refresh'[r].session_id = mine
    BY <1>1, <1>2, <1>4, <1>t DEF Rotate
  <1>8. \A u \in Token : u # t /\ u # r => refresh'[u] = refresh[u]
    BY <1>1, <1>t DEF Rotate
  <1>9. \A s \in Session : sessions'[s].status = sessions[s].status
    BY <1>1, <1>3, <1>t DEF Rotate, SessionRow
  <1> HIDE DEF t, mine
  <1>10. RefreshesCreateLate'
    <2> SUFFICES ASSUME NEW q \in Refresh, Waiting(q)' PROVE refresh'[q].status = "none"
      BY DEF RefreshesCreateLate
    <2>1. q # r
      BY <1>1 DEF Waiting
    <2>2. refresh[q].status = "none"
      BY DEF ChainInv, RefreshesCreateLate, RefreshesKeep, RefreshMovesOn
    <2> QED
      BY <2>1, <2>2, <1>2, <1>8, <1>t
  <1>11. FirstTokensHaveSessions'
    BY <1>2, <1>6, <1>8, <1>9, <1>t DEF ChainInv, FirstTokensHaveSessions
  <1>12. EmptyRows' /\ ActiveAreLast'
    BY <1>6, <1>7, <1>8 DEF ChainInv, EmptyRows, ActiveAreLast
  <1>13. Linked'
    <2> SUFFICES ASSUME NEW a \in Token, NEW b \in Token
                 PROVE  refresh'[b].parent = a <=> refresh'[a].replaced_by = b
      BY DEF Linked
    <2>1. refresh[b].parent = a <=> refresh[a].replaced_by = b
      BY DEF ChainInv, Linked
    <2>2. \A u \in Token : u # {}
      BY <1>t
    <2>3. CASE b = r
      BY <2>1, <2>2, <2>3, <1>2, <1>4, <1>5, <1>6, <1>7, <1>8
    <2>4. CASE b # r
      BY <2>1, <2>2, <2>4, <1>2, <1>4, <1>5, <1>6, <1>7, <1>8
    <2> QED
      BY <2>3, <2>4
  <1>14. OneActive'
    <2> SUFFICES ASSUME NEW s \in Session, sessions'[s].status = "active"
                 PROVE  \E u \in Token : ActiveOf(s)' = {u}
      BY DEF OneActive
    <2>1. PICK u \in Token : ActiveOf(s) = {u}
      BY <1>9 DEF ChainInv, OneActive
    <2>2. CASE s = mine
      <3>1. t \in ActiveOf(s)
        BY <2>2, <1>2 DEF ActiveOf, mine
      <3>2. ActiveOf(s) = {t}
        BY <2>1, <3>1
      <3>3. ActiveOf(s)' = {r}
        BY <2>2, <3>2, <1>2, <1>6, <1>7, <1>8 DEF ActiveOf
      <3> QED
        BY <1>2, <3>3
    <2>3. CASE s # mine
      <3>1. ActiveOf(s)' = ActiveOf(s)
        BY <2>3, <1>4, <1>6, <1>7, <1>8 DEF ActiveOf, mine
      <3> QED
        BY <2>1, <3>1
    <2> QED
      BY <2>2, <2>3
  <1>15. TokensStay
    <2>1. ASSUME NEW u \in Token
          PROVE  /\ refresh[u].replaced_by # {} => refresh'[u].replaced_by = refresh[u].replaced_by
                 /\ refresh[u].status # "none" =>
                      refresh'[u].status # "none" /\ refresh'[u].session_id = refresh[u].session_id
      BY <1>4, <1>5, <1>6, <1>8 DEF mine
    <2> QED
      BY <2>1, <1>9 DEF TokensStay, Ended
  <1> QED
    BY <1>10, <1>11, <1>12, <1>13, <1>14, <1>15, AnswersStay DEF ChainInv

(* A session that ends takes no link away. *)
LEMMA ChainEnd ==
  ASSUME AuthInv, ChainInv, RefreshesKeep, EndStep
  PROVE  ChainInv' /\ TokensStay
PROOF
  <1>t. /\ sessions \in [Session -> SessionRow] /\ refresh \in [Token -> RefreshRow]
        /\ {} \notin Token /\ {} \notin Session /\ Session = Poll /\ Poll \subseteq Token
        /\ Refresh \subseteq Token /\ TokensHaveSessions
    BY ChainTypes
  <1>1. PICK e \in Session, status \in {"revoked", "compromised"} :
          /\ sessions' = [sessions EXCEPT ![e].status = status] /\ RevokeTokensOf(e)
    BY DEF EndStep, CompromiseSession, RevokeSession
  <1>2. \A s \in Session : sessions'[s].status = IF s = e THEN status ELSE sessions[s].status
    BY <1>1, <1>t DEF SessionRow
  <1>3. ASSUME NEW t \in Token
        PROVE  /\ refresh'[t].parent = refresh[t].parent
               /\ refresh'[t].replaced_by = refresh[t].replaced_by
               /\ refresh'[t].session_id = refresh[t].session_id
               /\ refresh'[t].status =
                    IF refresh[t].session_id = e THEN "revoked" ELSE refresh[t].status
    <2>1. refresh[t] \in RefreshRow
      BY <1>t
    <2> QED
      BY <1>1, <2>1 DEF RevokeTokensOf, RefreshRow
  <1>4. \A t \in Token : refresh'[t].status = "none" <=> refresh[t].status = "none"
    BY <1>3, <1>t DEF ChainInv, EmptyRows
  <1>5. RefreshesCreateLate'
    BY <1>4, <1>t DEF ChainInv, RefreshesCreateLate, RefreshesKeep, RefreshMovesOn
  <1>6. FirstTokensHaveSessions'
    BY <1>2, <1>4, <1>t DEF ChainInv, FirstTokensHaveSessions
  <1>7. EmptyRows' /\ ActiveAreLast'
    BY <1>3, <1>4 DEF ChainInv, EmptyRows, ActiveAreLast
  <1>8. Linked'
    BY <1>3 DEF ChainInv, Linked
  <1>9. OneActive'
    <2> SUFFICES ASSUME NEW s \in Session, sessions'[s].status = "active"
                 PROVE  \E t \in Token : ActiveOf(s)' = {t}
      BY DEF OneActive
    <2>1. s # e /\ sessions[s].status = "active"
      BY <1>2
    <2>2. ActiveOf(s)' = ActiveOf(s)
      BY <2>1, <1>3 DEF ActiveOf
    <2> QED
      BY <2>1, <2>2 DEF ChainInv, OneActive
  <1>10. TokensStay
    BY <1>2, <1>3, <1>4 DEF TokensStay, Ended
  <1> QED
    BY <1>5, <1>6, <1>7, <1>8, <1>9, <1>10, AnswersStay DEF ChainInv

LEMMA ChainStep ==
  ASSUME AuthInv, GrantInv, ChainInv, RefreshesKeep, TableStep
  PROVE  ChainInv' /\ TokensStay
PROOF
  <1>1. CASE UNCHANGED tableVars
    BY <1>1, ChainUntouched DEF tableVars
  <1>2. CASE AccountStep \/ DecisionStep \/ CodeStep \/ PatStep
    <2>1. RowsOK /\ TokensHaveSessions
      BY DEF AuthInv, TypeOK, TablesTypeOK, RowsOK
    <2>2. UNCHANGED <<sessions, refresh>>
      BY <1>2, <2>1, CodeKeepsTables
    <2> QED
      BY <2>2, ChainUntouched
  <1> QED
    BY <1>1, <1>2, ChainExchange, ChainRotation, ChainEnd DEF TableStep

LEMMA ChainInvariant == Spec => []ChainInv
PROOF
  <1>1. Init => ChainInv
    <2> SUFFICES ASSUME Init PROVE ChainInv
      OBVIOUS
    <2>1. {} \notin Token
      BY CallAssumption DEF Token
    <2>2. \A t \in Token : /\ refresh[t].status = "none" /\ refresh[t].session_id = {}
                          /\ refresh[t].parent = {} /\ refresh[t].replaced_by = {}
      BY DEF Init, TablesInit, NoRefresh
    <2>3. \A s \in Session : sessions[s].status = "none"
      BY DEF Init, TablesInit, NoSession
    <2>4. \A r \in Refresh : refreshing[r].response \notin {"tokens", "reuse"}
      BY DEF Init, SessionCallsInit, NoRefreshCall
    <2>5. Poll \subseteq Token /\ Refresh \subseteq Token
      BY DEF Token
    <2> QED
      BY <2>1, <2>2, <2>3, <2>4, <2>5 DEF ChainInv, RefreshesCreateLate, FirstTokensHaveSessions,
         EmptyRows, Linked, ActiveAreLast, OneActive, AnsweredByLink, ReuseAnswered
  <1>2. AuthInv /\ GrantInv /\ ChainInv /\ [Next]_vars => ChainInv'
    BY NextTakesTableStep, NextMovesRefreshes, ChainStep DEF RefreshesKeep
  <1> QED
    BY <1>1, <1>2, AuthInvariant, GrantInvariant, PTL DEF Spec

(* rotateRefreshToken, for any number of refreshes of any number of sessions:  *)
(* each replaced token names the one that replaced it and no other claims it   *)
(* as its parent, and a live session has exactly one that can be exchanged.    *)
THEOREM RefreshTokensChain == Spec => []RefreshTokensFormAChain
PROOF
  <1>1. AuthInv /\ ChainInv => RefreshTokensFormAChain
    <2> SUFFICES ASSUME AuthInv, ChainInv PROVE RefreshTokensFormAChain
      OBVIOUS
    <2>1. ASSUME NEW t \in Token, refresh[t].replaced_by # {}
          PROVE  {u \in Token : refresh[u].parent = t} = {refresh[t].replaced_by}
      <3>1. refresh[t].replaced_by \in Token
        BY <2>1, ChainTypes DEF RefreshRow
      <3> QED
        BY <3>1 DEF ChainInv, Linked
    <2>2. ASSUME NEW s \in Session, sessions[s].status = "active"
          PROVE  Cardinality({t \in Token : refresh[t].session_id = s
                                          /\ refresh[t].status = "active"}) = 1
      <3>1. PICK t \in Token : ActiveOf(s) = {t}
        BY <2>2 DEF ChainInv, OneActive
      <3>2. Cardinality(ActiveOf(s)) = 1
        BY <3>1, FS_Singleton
      <3> QED
        BY <3>2 DEF ActiveOf
    <2> QED
      BY <2>1, <2>2 DEF RefreshTokensFormAChain
  <1> QED
    BY <1>1, AuthInvariant, ChainInvariant, PTL

(* refreshCliSession, for any number of calls that present the same token:  *)
(* at most one of them is answered with tokens, and a session whose reuse   *)
(* was reported has ended for good.                                         *)
THEOREM ReuseEnds == Spec => []ReuseEndsTheSession
PROOF
  <1>1. AuthInv /\ ChainInv => ReuseEndsTheSession
    BY DEF ChainInv, AnsweredByLink, ReuseAnswered, ReuseEndsTheSession
  <1> QED
    BY <1>1, AuthInvariant, ChainInvariant, PTL

-----------------------------------------------------------------------------
(***************************************************************************)
(* No credential that was dead when a request came is admitted, for every  *)
(* number of requests and every interleaving of their three reads with     *)
(* revocations and disablings.  What killed the credential stays in the    *)
(* tables (AuthorityStays), and the reads that are still to come will meet *)
(* it (Refusing).                                                          *)
(***************************************************************************)

(* Grants, sessions and personal access tokens are of accounts that exist. *)
AccountsNamed ==
  /\ \A d \in Device : authorizations[d].status = "approved" =>
       authorizations[d].account_id \in Account
  /\ \A s \in Session : sessions[s].status # "none" => sessions[s].account_id \in Account
  /\ \A t \in PatCreation : Exists(t) => pats[t].account_id \in Account

(* An access token and its refresh token are created together. *)
TokensPaired == \A t \in Token :
  /\ access[t].session_id = refresh[t].session_id
  /\ access[t].status = "none" <=> refresh[t].status = "none"

(* What a request relies on and no step takes back. *)
AuthorityStays ==
  /\ \A a \in Account : accounts[a] = "disabled" => accounts'[a] = "disabled"
  /\ \A s \in Session : sessions[s].status # "none" =>
       sessions'[s].account_id = sessions[s].account_id
  /\ \A s \in Session : Ended(s) => Ended(s)'
  /\ \A t \in Token : access[t].status # "none" =>
       access'[t].status # "none" /\ access'[t].session_id = access[t].session_id
  /\ \A t \in PatCreation : Exists(t) =>
       Exists(t)' /\ pats'[t].account_id = pats[t].account_id

Disabled(a) == accounts[a] = "disabled"

(* The reads to come will refuse the request. *)
Refusing(c) ==
  /\ bearer[c].pc # "admitted" /\ bearer[c].response \notin {"ok", "revoked"}
  /\ bearer[c].pc = "session" =>
       Ended(AccessSession(c)) \/ Disabled(sessions[AccessSession(c)].account_id)
  /\ bearer[c].pc = "account" => Disabled(BearerAccount(c))

(* A running request presents a credential that was issued. *)
Credential(c) ==
  \/ /\ bearer[c].kind = "access" /\ bearer[c].token \in Token
     /\ access[bearer[c].token].status # "none"
  \/ /\ bearer[c].kind = "pat" /\ bearer[c].token \in PatCreation /\ Exists(bearer[c].token)
     /\ bearer[c].pc # "session"

Safe(c) ==
  /\ BearerRunning(c) => Credential(c)
  /\ bearer[c].doomed => Refusing(c)

BearerInv == AccountsNamed /\ TokensPaired /\ \A c \in Bearer : Safe(c)

-----------------------------------------------------------------------------
(* The tables *)

LEMMA PatsStay ==
  ASSUME AuthInv, KeyInv, AccountsNamed, TableStep
  PROVE  \A t \in PatCreation :
           /\ Exists(t) => Exists(t)' /\ pats'[t].account_id = pats[t].account_id
           /\ Exists(t)' => pats'[t].account_id \in Account
PROOF
  <1>t. /\ pats \in [PatCreation -> PatRow] /\ CreationsNamed /\ CreationsMintLate
        /\ \A t \in PatCreation : Exists(t) => pats[t].account_id \in Account
    BY DEF AuthInv, TypeOK, TablesTypeOK, KeyInv, AccountsNamed
  <1>1. CASE UNCHANGED pats
    BY <1>1, <1>t DEF Exists
  <1>2. ASSUME NEW c \in PatCreation, creation[c].pc = "insert", Mint(c)
        PROVE  \A t \in PatCreation :
                 /\ Exists(t) => Exists(t)' /\ pats'[t].account_id = pats[t].account_id
                 /\ Exists(t)' => pats'[t].account_id \in Account
    <2>1. creation[c].account \in Account
      BY <1>2, <1>t DEF CreationsNamed, CreationRunning
    <2>2. ~Exists(c)
      BY <1>2, <1>t DEF CreationsMintLate
    <2>3. /\ pats'[c].status = "active" /\ pats'[c].account_id = creation[c].account
          /\ \A t \in PatCreation : t # c => pats'[t] = pats[t]
      BY <1>2, <1>t DEF Mint, InsertPat
    <2> QED
      BY <2>1, <2>2, <2>3, <1>t DEF Exists
  <1>3. ASSUME NEW c \in PatCreation, pats[c].status # "none",
               pats' = [pats EXCEPT ![c].status = "revoked"]
        PROVE  \A t \in PatCreation :
                 /\ Exists(t) => Exists(t)' /\ pats'[t].account_id = pats[t].account_id
                 /\ Exists(t)' => pats'[t].account_id \in Account
    <2>1. /\ pats'[c].status = "revoked" /\ pats'[c].account_id = pats[c].account_id
          /\ \A t \in PatCreation : t # c => pats'[t] = pats[t]
      BY <1>3, <1>t DEF PatRow
    <2> QED
      BY <2>1, <1>3, <1>t DEF Exists
  <1>4. CASE PatStep
    BY <1>4, <1>1, <1>2, <1>3 DEF PatStep
  <1>5. CASE AccountStep
    BY <1>5, <1>1 DEF AccountStep, patVars
  <1>6. CASE DecisionStep
    BY <1>6, <1>1 DEF DecisionStep, Approve, Deny, patVars
  <1>7. CASE CodeStep
    BY <1>7, <1>1 DEF CodeStep, InsertAuthorization, RecordPoll, ExpireAuthorization, patVars
  <1>8. CASE ExchangeStep
    BY <1>8, <1>1 DEF ExchangeStep, ExchangeNow, Exchange, patVars
  <1>9. CASE RotationStep
    BY <1>9, <1>1 DEF RotationStep, Rotate, patVars
  <1>10. CASE EndStep
    BY <1>10, <1>1 DEF EndStep, CompromiseSession, RevokeSession, patVars
  <1> QED
    BY <1>1, <1>4, <1>5, <1>6, <1>7, <1>8, <1>9, <1>10 DEF TableStep, tableVars

LEMMA AccountsStay ==
  ASSUME AuthInv, TableStep
  PROVE  \A a \in Account : accounts[a] = "disabled" => accounts'[a] = "disabled"
PROOF
  <1>1. CASE AccountStep
    BY <1>1 DEF AccountStep, AuthInv, TypeOK, TablesTypeOK
  <1>2. CASE DecisionStep
    BY <1>2 DEF DecisionStep, Approve, Deny
  <1>3. CASE CodeStep
    BY <1>3 DEF CodeStep, InsertAuthorization, RecordPoll, ExpireAuthorization
  <1>4. CASE ExchangeStep
    BY <1>4 DEF ExchangeStep, ExchangeNow, Exchange
  <1>5. CASE RotationStep
    BY <1>5 DEF RotationStep, Rotate
  <1>6. CASE EndStep
    BY <1>6 DEF EndStep, CompromiseSession, RevokeSession
  <1>7. CASE PatStep
    BY <1>7 DEF PatStep, Mint, InsertPat
  <1> QED
    BY <1>1, <1>2, <1>3, <1>4, <1>5, <1>6, <1>7 DEF TableStep, tableVars

(* Only an approval writes the account of a grant. *)
LEMMA ApproversNamed ==
  ASSUME AuthInv, AccountsNamed, TableStep, NEW d \in Device,
         authorizations'[d].status = "approved"
  PROVE  authorizations'[d].account_id \in Account
PROOF
  <1>t. /\ authorizations \in [Device -> AuthorizationRow]
        /\ authorizations[d].status = "approved" => authorizations[d].account_id \in Account
    BY DEF AuthInv, TypeOK, TablesTypeOK, AccountsNamed
  <1>1. CASE UNCHANGED authorizations
    BY <1>1, <1>t
  <1>2. CASE AccountStep \/ PatStep
    BY <1>2, <1>1 DEF AccountStep, PatStep, Mint, InsertPat, grantVars
  <1>3. CASE RotationStep \/ EndStep
    BY <1>3, <1>1 DEF RotationStep, EndStep, Rotate, CompromiseSession, RevokeSession, grantVars
  <1>4. CASE ExchangeStep
    <2>1. PICK p \in Poll : poll[p].device \in Device /\ ExchangeNow(p)
      BY <1>4 DEF ExchangeStep
    <2> QED
      BY <2>1, <1>t DEF ExchangeNow, Exchange, AuthorizationRow
  <1>5. CASE DecisionStep
    <2>1. ASSUME NEW e \in Device, NEW a \in Account, NEW now \in Nat, Approve(e, a, now)
          PROVE  authorizations'[d].account_id \in Account
      BY <2>1, <1>t DEF Approve, AuthorizationRow
    <2>2. ASSUME NEW e \in Device, Deny(e)
          PROVE  authorizations'[d].account_id \in Account
      BY <2>2, <1>t DEF Deny, AuthorizationRow
    <2> QED
      BY <1>5, <2>1, <2>2 DEF DecisionStep
  <1>6. CASE CodeStep
    <2>1. ASSUME NEW e \in Device, NEW u \in UserCode, NEW now \in Nat,
                 InsertAuthorization(e, u, now)
          PROVE  authorizations'[d].account_id \in Account
      BY <2>1, <1>t DEF InsertAuthorization, NoAuthorization
    <2>2. ASSUME NEW e \in Device, NEW now \in Nat, RecordPoll(e, now)
          PROVE  authorizations'[d].account_id \in Account
      BY <2>2, <1>t DEF RecordPoll, AuthorizationRow
    <2>3. ASSUME NEW e \in Device, ExpireAuthorization(e)
          PROVE  authorizations'[d].account_id \in Account
      BY <2>3, <1>t DEF ExpireAuthorization, AuthorizationRow
    <2> QED
      BY <1>6, <2>1, <2>2, <2>3 DEF CodeStep
  <1> QED
    BY <1>1, <1>2, <1>3, <1>4, <1>5, <1>6 DEF TableStep, tableVars

LEMMA SessionAccountsStay ==
  ASSUME AuthInv, GrantInv, AccountsNamed, TableStep
  PROVE  \A s \in Session :
           /\ sessions[s].status # "none" => sessions'[s].account_id = sessions[s].account_id
           /\ sessions'[s].status # "none" => sessions'[s].account_id \in Account
PROOF
  <1>t. sessions \in [Session -> SessionRow] /\ Session = Poll
    BY DEF AuthInv, TypeOK, TablesTypeOK, Session
  <1>1. CASE NoExchange
    BY <1>1, <1>t DEF NoExchange, AccountsNamed
  <1>2. CASE ExchangeStep
    <2>1. PICK p \in Poll : /\ poll[p].pc = "exchange" /\ poll[p].device \in Device
                            /\ CanExchange(p) /\ ExchangeNow(p)
      BY <1>2 DEF ExchangeStep
    <2>2. poll[p].seen.account_id \in Account
      BY <2>1 DEF CanExchange, Exchangeable, AccountsNamed
    <2>3. sessions[p].status = "none"
      BY <2>1 DEF GrantInv, PollsCreateLate
    <2>4. /\ sessions'[p].account_id = poll[p].seen.account_id
          /\ \A q \in Poll : q # p => sessions'[q] = sessions[q]
      BY <2>1, <1>t DEF ExchangeNow, Exchange
    <2> QED
      BY <2>2, <2>3, <2>4, <1>t DEF AccountsNamed
  <1> QED
    BY <1>1, <1>2, TableStepExchanges

LEMMA PairsStay ==
  ASSUME AuthInv, ChainInv, TokensPaired, TableStep
  PROVE  TokensPaired'
PROOF
  <1>t. /\ access \in [Token -> AccessRow] /\ refresh \in [Token -> RefreshRow]
        /\ Poll \subseteq Token /\ Refresh \subseteq Token /\ {} \notin Session
        /\ TokensHaveSessions /\ RowsOK
    BY ChainTypes DEF AuthInv, TypeOK, TablesTypeOK, RowsOK
  <1>1. CASE UNCHANGED <<access, refresh>>
    BY <1>1 DEF TokensPaired
  <1>2. CASE AccountStep \/ DecisionStep \/ CodeStep \/ PatStep
    BY <1>1, <1>2, <1>t, CodeKeepsTables
  <1>3. CASE ExchangeStep
    <2>1. PICK p \in Poll : ExchangeNow(p)
      BY <1>3 DEF ExchangeStep
    <2>2. /\ access'[p].status = "active" /\ access'[p].session_id = p
          /\ \A t \in Token : t # p => access'[t] = access[t]
      BY <2>1, <1>t DEF ExchangeNow, Exchange
    <2>3. /\ refresh'[p].status = "active" /\ refresh'[p].session_id = p
          /\ \A t \in Token : t # p => refresh'[t] = refresh[t]
      BY <2>1, <1>t DEF ExchangeNow, Exchange, NoRefresh
    <2> QED
      BY <2>2, <2>3 DEF TokensPaired
  <1>4. CASE RotationStep
    <2>1. PICK r \in Refresh : /\ refreshing[r].pc = "rotate" /\ Presented(r) \in Token
                               /\ Rotatable(Presented(r), refreshing[r].now)
                               /\ Rotate(Presented(r), r, refreshing[r].now)
      BY <1>4 DEF RotationStep
    <2> DEFINE t == Presented(r)
               mine == refresh[t].session_id
    <2>2. t \in Token /\ r \in Token /\ refresh[t].status = "active"
      BY <2>1, <1>t DEF Rotatable
    <2>3. refresh[r].status = "none" /\ r # t
      BY <2>1, <2>2 DEF ChainInv, RefreshesCreateLate, Waiting
    <2>4. /\ access'[r].status = "active" /\ access'[r].session_id = mine
          /\ \A u \in Token : u # r => access'[u] = access[u]
      BY <2>1, <2>2, <1>t DEF Rotate
    <2>5. refresh'[t].status = "used" /\ refresh'[t].session_id = mine
      BY <2>1, <2>2, <2>3, <1>t DEF Rotate, RefreshRow
    <2>6. /\ refresh'[r].status = "active" /\ refresh'[r].session_id = mine
          /\ \A u \in Token : u # r /\ u # t => refresh'[u] = refresh[u]
      BY <2>1, <2>2, <2>3, <1>t DEF Rotate
    <2> HIDE DEF t
    <2> QED
      BY <2>2, <2>3, <2>4, <2>5, <2>6 DEF TokensPaired
  <1>5. CASE EndStep
    <2>1. PICK s \in Session : RevokeTokensOf(s)
      BY <1>5 DEF EndStep, CompromiseSession, RevokeSession
    <2>2. ASSUME NEW t \in Token
          PROVE  /\ access'[t].session_id = refresh'[t].session_id
                 /\ access'[t].status = "none" <=> refresh'[t].status = "none"
      <3>1. access[t] \in AccessRow /\ refresh[t] \in RefreshRow
        BY <1>t
      <3>2. /\ access'[t].session_id = access[t].session_id
            /\ access'[t].status =
                 IF access[t].session_id = s THEN "revoked" ELSE access[t].status
        BY <2>1, <3>1 DEF RevokeTokensOf, AccessRow
      <3>3. /\ refresh'[t].session_id = refresh[t].session_id
            /\ refresh'[t].status =
                 IF refresh[t].session_id = s THEN "revoked" ELSE refresh[t].status
        BY <2>1, <3>1 DEF RevokeTokensOf, RefreshRow
      <3> QED
        BY <3>2, <3>3 DEF TokensPaired
    <2> QED
      BY <2>2 DEF TokensPaired
  <1> QED
    BY <1>1, <1>2, <1>3, <1>4, <1>5 DEF TableStep, tableVars

LEMMA AuthorityThroughStep ==
  ASSUME AuthInv, GrantInv, ChainInv, KeyInv, AccountsNamed, TokensPaired,
         RefreshesKeep, TableStep
  PROVE  AuthorityStays /\ AccountsNamed' /\ TokensPaired'
PROOF
  <1>1. TokensStay
    BY ChainStep
  <1>2. TokensPaired'
    BY PairsStay
  <1>3. \A t \in Token : access[t].status # "none" =>
          access'[t].status # "none" /\ access'[t].session_id = access[t].session_id
    BY <1>1, <1>2 DEF TokensPaired, TokensStay
  <1>4. \A s \in Session : Ended(s) => Ended(s)'
    BY <1>1 DEF TokensStay
  <1>5. AuthorityStays
    BY <1>3, <1>4, AccountsStay, SessionAccountsStay, PatsStay DEF AuthorityStays
  <1>6. AccountsNamed'
    BY ApproversNamed, SessionAccountsStay, PatsStay DEF AccountsNamed
  <1> QED
    BY <1>2, <1>5, <1>6

-----------------------------------------------------------------------------
(* The requests *)

LEMMA SafeStays ==
  ASSUME AuthInv, AccountsNamed, AuthorityStays, NEW c \in Bearer, Safe(c),
         bearer'[c] = bearer[c]
  PROVE  Safe(c)'
PROOF
  <1> DEFINE t == bearer[c].token
             s == access[t].session_id
  <1>1. CASE ~BearerRunning(c)
    <2>1. /\ ~BearerRunning(c)' /\ bearer'[c].pc \notin {"session", "account", "admitted"}
          /\ bearer'[c].doomed = bearer[c].doomed /\ bearer'[c].response = bearer[c].response
      BY <1>1 DEF BearerRunning
    <2> QED
      BY <2>1 DEF Safe, Refusing
  <1>2. CASE BearerRunning(c) /\ bearer[c].kind = "access"
    <2>1. t \in Token /\ access[t].status # "none"
      BY <1>2 DEF Safe, Credential
    <2>2. s \in Session /\ sessions[s].status # "none"
      BY <2>1 DEF AuthInv, TokensHaveSessions, Issued
    <2>3. sessions[s].account_id \in Account /\ sessions'[s].account_id = sessions[s].account_id
      BY <2>2 DEF AccountsNamed, AuthorityStays
    <2>4. access'[t].status # "none" /\ access'[t].session_id = s
      BY <2>1 DEF AuthorityStays
    <2>5. Ended(s) => sessions'[s].status \in {"revoked", "compromised"}
      BY <2>2 DEF AuthorityStays, Ended
    <2>6. Disabled(sessions[s].account_id) => accounts'[sessions[s].account_id] = "disabled"
      BY <2>3 DEF AuthorityStays, Disabled
    <2>7. Credential(c)'
      BY <1>2, <2>1, <2>4 DEF Credential
    <2>8. Refusing(c) => Refusing(c)'
      <3>1. AccessSession(c)' = s /\ AccessSession(c) = s
        BY <2>4 DEF AccessSession
      <3>2. /\ BearerAccount(c) = sessions[s].account_id
            /\ BearerAccount(c)' = sessions[s].account_id
        BY <1>2, <2>3, <3>1 DEF BearerAccount
      <3>3. Ended(AccessSession(c)) => Ended(AccessSession(c))'
        BY <2>5, <3>1 DEF Ended
      <3> QED
        BY <2>3, <2>6, <3>1, <3>2, <3>3 DEF Refusing, Disabled
    <2> QED
      BY <2>7, <2>8 DEF Safe
  <1>3. CASE BearerRunning(c) /\ bearer[c].kind # "access"
    <2>1. bearer[c].kind = "pat" /\ t \in PatCreation /\ Exists(t) /\ bearer[c].pc # "session"
      BY <1>3 DEF Safe, Credential
    <2>2. /\ pats[t].account_id \in Account /\ pats'[t].account_id = pats[t].account_id
          /\ Exists(t)'
      BY <2>1 DEF AccountsNamed, AuthorityStays
    <2>3. Disabled(pats[t].account_id) => accounts'[pats[t].account_id] = "disabled"
      BY <2>2 DEF AuthorityStays, Disabled
    <2>4. Credential(c)'
      BY <2>1, <2>2 DEF Credential, Exists
    <2>5. BearerAccount(c) = pats[t].account_id /\ BearerAccount(c)' = pats[t].account_id
      BY <2>1, <2>2 DEF BearerAccount
    <2>6. Refusing(c) => Refusing(c)'
      BY <2>1, <2>3, <2>5 DEF Refusing, Disabled
    <2> QED
      BY <2>4, <2>6 DEF Safe
  <1> QED
    BY <1>1, <1>2, <1>3

LEMMA AnsweredIsSafe ==
  ASSUME bearer \in [Bearer -> BearerState], NEW c \in Bearer, NEW response,
         BearerAnswers(c, response),
         bearer[c].doomed => response \notin {"ok", "revoked"}
  PROVE  Safe(c)' /\ \A d \in Bearer : d # c => bearer'[d] = bearer[d]
PROOF
  <1>1. bearer[c] \in BearerState
    OBVIOUS
  <1> DEFINE next == [bearer[c] EXCEPT !.pc = "done", !.now = 0, !.response = response]
  <1>2. next.pc = "done" /\ next.response = response /\ next.doomed = bearer[c].doomed
    BY <1>1 DEF BearerState
  <1>3. bearer' = [bearer EXCEPT ![c] = next]
    BY DEF BearerAnswers
  <1> HIDE DEF next
  <1>4. bearer'[c] = next /\ \A d \in Bearer : d # c => bearer'[d] = bearer[d]
    BY <1>3
  <1> QED
    BY <1>2, <1>4 DEF Safe, Refusing, BearerRunning

LEMMA GoesOnFields ==
  ASSUME bearer \in [Bearer -> BearerState], NEW c \in Bearer, NEW pc, BearerGoes(c, pc)
  PROVE  /\ bearer'[c].pc = pc /\ bearer'[c].kind = bearer[c].kind
         /\ bearer'[c].token = bearer[c].token /\ bearer'[c].doomed = bearer[c].doomed
         /\ bearer'[c].response = bearer[c].response
         /\ \A d \in Bearer : d # c => bearer'[d] = bearer[d]
PROOF
  <1>1. bearer[c] \in BearerState
    OBVIOUS
  <1> DEFINE next == [bearer[c] EXCEPT !.pc = pc]
  <1>2. /\ next.pc = pc /\ next.response = bearer[c].response
        /\ next.doomed = bearer[c].doomed /\ next.kind = bearer[c].kind
        /\ next.token = bearer[c].token
    BY <1>1 DEF BearerState
  <1>3. bearer' = [bearer EXCEPT ![c] = next]
    BY DEF BearerGoes
  <1> HIDE DEF next
  <1> QED
    BY <1>2, <1>3

LEMMA BearerStepIsSafe ==
  ASSUME AuthInv, BearerInv, NEW c \in Bearer, BearerStep(c)
  PROVE  Safe(c)' /\ \A d \in Bearer : d # c => bearer'[d] = bearer[d]
PROOF
  <1>t. bearer \in [Bearer -> BearerState] /\ Safe(c) /\ TokensHaveSessions
    BY DEF AuthInv, TypeOK, SessionCallsTypeOK, BearerInv
  <1>1. CASE \E t \in Token : FindAccessToken(c, t)
    <2>1. PICK t \in Token : FindAccessToken(c, t)
      BY <1>1
    <2> DEFINE refused == access[t].status = "revoked" \/ access[t].expires_at <= clock
               s == access[t].session_id
    <2>2. /\ bearer'[c].pc = IF refused THEN "done" ELSE "session"
          /\ bearer'[c].kind = "access" /\ bearer'[c].token = t
          /\ bearer'[c].response = IF refused THEN "refused" ELSE ""
          /\ bearer'[c].doomed = AccessDead(t)
          /\ \A d \in Bearer : d # c => bearer'[d] = bearer[d]
      BY <2>1, <1>t DEF FindAccessToken
    <2>3. access[t].status # "none" /\ UNCHANGED tableVars
      BY <2>1 DEF FindAccessToken
    <2>4. s \in Session /\ sessions[s].status # "none" /\ sessions \in [Session -> SessionRow]
      BY <2>3, <1>t DEF TokensHaveSessions, Issued, AuthInv, TypeOK, TablesTypeOK
    <2>5. sessions[s].status # "active" => Ended(s)
      BY <2>4 DEF SessionRow, Ended
    <2>6. Credential(c)'
      BY <2>2, <2>3 DEF Credential, tableVars
    <2>7. CASE refused
      BY <2>2, <2>6, <2>7 DEF Safe, Refusing
    <2>8. CASE ~refused
      <3>1. AccessDead(t) => Ended(s) \/ Disabled(sessions[s].account_id)
        BY <2>5, <2>8 DEF AccessDead, Disabled
      <3>2. AccessSession(c)' = s
        BY <2>2, <2>3 DEF AccessSession, tableVars
      <3>3. /\ Ended(s) => Ended(AccessSession(c))'
            /\ Disabled(sessions[s].account_id) =>
                 accounts'[sessions'[AccessSession(c)'].account_id] = "disabled"
        BY <2>3, <3>2 DEF Ended, Disabled, tableVars
      <3> QED
        BY <2>2, <2>6, <2>8, <3>1, <3>3 DEF Safe, Refusing, Disabled
    <2> QED
      BY <2>7, <2>8
  <1>2. CASE \E t \in PatCreation : FindPersonalAccessToken(c, t)
    <2>1. PICK t \in PatCreation : FindPersonalAccessToken(c, t)
      BY <1>2
    <2> DEFINE refused == pats[t].status = "revoked" \/ pats[t].expires_at <= clock
    <2>2. /\ bearer'[c].pc = IF refused THEN "done" ELSE "account"
          /\ bearer'[c].kind = "pat" /\ bearer'[c].token = t
          /\ bearer'[c].response = IF refused THEN "refused" ELSE ""
          /\ bearer'[c].doomed = PatDead(t)
          /\ \A d \in Bearer : d # c => bearer'[d] = bearer[d]
      BY <2>1, <1>t DEF FindPersonalAccessToken
    <2>3. pats[t].status # "none" /\ UNCHANGED tableVars
      BY <2>1 DEF FindPersonalAccessToken
    <2>4. Credential(c)'
      BY <2>2, <2>3 DEF Credential, Exists, tableVars
    <2>5. BearerAccount(c)' = pats[t].account_id
      BY <2>2, <2>3 DEF BearerAccount, tableVars
    <2>6. ~refused /\ PatDead(t) => accounts'[pats[t].account_id] = "disabled"
      BY <2>3 DEF PatDead, tableVars
    <2> QED
      BY <2>2, <2>4, <2>5, <2>6 DEF Safe, Refusing, Disabled
  <1>3. CASE FindBearerSession(c)
    <2>0. bearer[c].pc = "session" /\ BearerRunning(c) /\ UNCHANGED tableVars
      BY <1>3 DEF FindBearerSession, BearerRunning
    <2>1. CASE BearerAnswers(c, "refused")
      BY <2>1, <1>t, AnsweredIsSafe
    <2>2. CASE BearerGoes(c, "account") /\ sessions[AccessSession(c)].status = "active"
      <3>1. /\ bearer'[c].pc = "account" /\ bearer'[c].kind = bearer[c].kind
            /\ bearer'[c].token = bearer[c].token /\ bearer'[c].doomed = bearer[c].doomed
            /\ bearer'[c].response = bearer[c].response
            /\ \A d \in Bearer : d # c => bearer'[d] = bearer[d]
        BY <2>2, <1>t, GoesOnFields
      <3>2. bearer[c].kind = "access" /\ Credential(c)
        BY <2>0, <1>t DEF Safe, Credential
      <3>3. Credential(c)'
        BY <2>0, <3>1, <3>2 DEF Credential, tableVars
      <3>4. BearerAccount(c)' = sessions[AccessSession(c)].account_id
        BY <2>0, <3>1, <3>2 DEF BearerAccount, AccessSession, tableVars
      <3>5. bearer[c].doomed => accounts'[sessions[AccessSession(c)].account_id] = "disabled"
        BY <2>0, <2>2, <1>t DEF Safe, Refusing, Ended, Disabled, tableVars
      <3>6. Refusing(c) => bearer'[c].response \notin {"ok", "revoked"}
        BY <3>1 DEF Refusing
      <3> QED
        BY <3>1, <3>3, <3>4, <3>5, <3>6, <1>t DEF Safe, Refusing, Disabled
    <2> QED
      BY <1>3, <2>1, <2>2 DEF FindBearerSession
  <1>4. CASE FindBearerAccount(c)
    <2>0. bearer[c].pc = "account" /\ BearerRunning(c) /\ UNCHANGED tableVars
      BY <1>4 DEF FindBearerAccount, BearerRunning
    <2>1. CASE BearerAnswers(c, "refused")
      BY <2>1, <1>t, AnsweredIsSafe
    <2>2. CASE BearerGoes(c, "admitted") /\ accounts[BearerAccount(c)] # "disabled"
      <3>1. /\ bearer'[c].pc = "admitted" /\ bearer'[c].kind = bearer[c].kind
            /\ bearer'[c].token = bearer[c].token /\ bearer'[c].doomed = bearer[c].doomed
            /\ \A d \in Bearer : d # c => bearer'[d] = bearer[d]
        BY <2>2, <1>t, GoesOnFields
      <3>2. ~bearer[c].doomed
        BY <2>0, <2>2, <1>t DEF Safe, Refusing, Disabled
      <3>3. Credential(c)
        BY <2>0, <1>t DEF Safe
      <3>4. Credential(c)'
        BY <2>0, <3>1, <3>3 DEF Credential, Exists, tableVars
      <3> QED
        BY <3>1, <3>2, <3>4 DEF Safe
    <2> QED
      BY <1>4, <2>1, <2>2 DEF FindBearerAccount
  <1>5. CASE bearer[c].pc = "admitted" /\ \E response : BearerAnswers(c, response)
    <2>1. ~bearer[c].doomed
      BY <1>5, <1>t DEF Safe, Refusing
    <2> QED
      BY <1>5, <2>1, <1>t, AnsweredIsSafe
  <1>6. CASE UseBearer(c) \/ RevokeCurrentSession(c)
    BY <1>5, <1>6 DEF UseBearer, RevokeCurrentSession
  <1>7. CASE \E t \in PatCreation : RevokePersonalAccessToken(c, t)
    BY <1>5, <1>7 DEF RevokePersonalAccessToken
  <1>8. CASE BearerFails(c)
    BY <1>8, <1>t, AnsweredIsSafe DEF BearerFails
  <1> QED
    BY <1>1, <1>2, <1>3, <1>4, <1>6, <1>7, <1>8 DEF BearerStep

LEMMA BearerInvByStep ==
  ASSUME AuthInv, GrantInv, ChainInv, KeyInv, BearerInv, [Next]_vars
  PROVE  BearerInv'
PROOF
  <1>1. TableStep /\ RefreshesKeep
    BY NextTakesTableStep, NextMovesRefreshes DEF RefreshesKeep
  <1>2. AuthorityStays /\ AccountsNamed' /\ TokensPaired'
    BY <1>1, AuthorityThroughStep DEF BearerInv
  <1>3. \A c \in Bearer : bearer'[c] = bearer[c] => Safe(c)'
    BY <1>2, SafeStays DEF BearerInv
  <1>4. CASE \E c \in Bearer : BearerStep(c)
    <2>1. PICK c \in Bearer : BearerStep(c)
      BY <1>4
    <2>2. Safe(c)' /\ \A d \in Bearer : d # c => bearer'[d] = bearer[d]
      BY <2>1, BearerStepIsSafe
    <2>3. \A d \in Bearer : Safe(d)'
      BY <1>3, <2>2
    <2> QED
      BY <1>2, <2>3 DEF BearerInv
  <1>5. CASE UNCHANGED bearer
    BY <1>2, <1>3, <1>5 DEF BearerInv
  <1>6. CASE GrantStep
    BY <1>5, <1>6, GrantStepTypes DEF callVars
  <1>7. CASE \E p \in Poll : PollStep(p)
    BY <1>5, <1>7, PollStepTypes DEF callVars
  <1>8. CASE \E r \in Refresh : RefreshStep(r)
    BY <1>5, <1>8, RefreshStepTypes
  <1>9. CASE \E c \in PatCreation : CreationStep(c)
    BY <1>5, <1>9, CreationStepTypes DEF callVars
  <1>10. CASE Tick \/ (\E a \in Account : DisableAccount(a)) \/ UNCHANGED vars
    BY <1>5, <1>10 DEF Tick, DisableAccount, vars, callVars
  <1> QED
    BY <1>4, <1>6, <1>7, <1>8, <1>9, <1>10 DEF Next

LEMMA BearerInvariant == Spec => []BearerInv
PROOF
  <1>1. Init => BearerInv
    <2> SUFFICES ASSUME Init PROVE BearerInv
      OBVIOUS
    <2>1. AccountsNamed
      BY DEF Init, TablesInit, AccountsNamed, NoAuthorization, NoSession, NoPat, Exists
    <2>2. TokensPaired
      BY DEF Init, TablesInit, TokensPaired, NoAccess, NoRefresh
    <2>3. \A c \in Bearer : bearer[c].pc = "idle" /\ bearer[c].doomed = FALSE
      BY DEF Init, SessionCallsInit, NoBearer
    <2> QED
      BY <2>1, <2>2, <2>3 DEF BearerInv, Safe, BearerRunning
  <1>2. AuthInv /\ GrantInv /\ ChainInv /\ KeyInv /\ BearerInv /\ [Next]_vars => BearerInv'
    BY BearerInvByStep
  <1> QED
    BY <1>1, <1>2, AuthInvariant, GrantInvariant, ChainInvariant, KeyInvariant, PTL DEF Spec

(* authenticateBearerPrincipal, for any number of requests, revocations and  *)
(* disablings: a request whose credential, session or account was dead when  *)
(* it came is never admitted, although the three are read one by one.        *)
THEOREM NoDeadAdmission == Spec => []NoAdmissionOnceRevoked
PROOF
  <1>1. BearerInv => NoAdmissionOnceRevoked
    BY DEF BearerInv, Safe, Refusing, NoAdmissionOnceRevoked
  <1> QED
    BY <1>1, BearerInvariant, PTL

-----------------------------------------------------------------------------
(***************************************************************************)
(* The D1 repository implements the one in memory (AgreesWithMemory), for  *)
(* every number of calls: each statement and each batch is one call of the *)
(* double with the same arguments, or changes no row.  The arguments are   *)
(* what the caller read before: that they still describe the row is what   *)
(* GrantsSeen adds to the invariants above.                                *)
(***************************************************************************)

PollsInTime == \A p \in Poll : PollRunning(p) => poll[p].now <= clock
RefreshesInTime == \A r \in Refresh : RefreshRunning(r) => refreshing[r].now <= clock

(* A code that a poll found is there, and the approval it saw still stands. *)
GrantsSeen == \A p \in Poll : PollRunning(p) =>
  LET row == authorizations[poll[p].device] IN
  /\ row.status # "none"
  /\ poll[p].seen.status = "approved" =>
       row.status \in {"approved", "consumed"} /\ row.approved_at = poll[p].seen.approved_at
  /\ poll[p].pc \in {"account", "exchange"} => poll[p].seen.status = "approved"

SeenInv == clock <= LastTick /\ PollsInTime /\ RefreshesInTime /\ GrantsSeen

(* No statement takes a code away, or changes when it was approved. *)
CodesStay == \A d \in Device :
  /\ authorizations[d].status # "none" => authorizations'[d].status # "none"
  /\ authorizations[d].status \in {"approved", "consumed"} =>
       /\ authorizations'[d].status \in {"approved", "consumed"}
       /\ authorizations'[d].approved_at = authorizations[d].approved_at

(* One row becomes another one. *)
LEMMA CodesStayButOne ==
  ASSUME authorizations \in [Device -> AuthorizationRow], NEW d \in Device, NEW row,
         authorizations' = [authorizations EXCEPT ![d] = row],
         authorizations[d].status # "none" => row.status # "none",
         authorizations[d].status \in {"approved", "consumed"} =>
           /\ row.status \in {"approved", "consumed"}
           /\ row.approved_at = authorizations[d].approved_at
  PROVE  CodesStay
  BY DEF CodesStay

LEMMA TableStepKeepsCodes ==
  ASSUME AuthInv, TableStep
  PROVE  CodesStay
PROOF
  <1>t. authorizations \in [Device -> AuthorizationRow]
    BY DEF AuthInv, TypeOK, TablesTypeOK
  <1>1. CASE UNCHANGED tableVars \/ AccountStep \/ RotationStep \/ EndStep \/ PatStep
    BY <1>1 DEF CodesStay, tableVars, AccountStep, RotationStep, Rotate, EndStep,
       CompromiseSession, RevokeSession, PatStep, Mint, InsertPat, grantVars
  <1>2. CASE DecisionStep
    <2>1. ASSUME NEW d \in Device, NEW a \in Account, NEW now \in Nat,
                 authorizations[d].status = "pending", Approve(d, a, now)
          PROVE  CodesStay
      <3> DEFINE row == [authorizations[d] EXCEPT !.status = "approved", !.account_id = a,
                                                  !.approved_at = now]
      <3>1. row.status = "approved"
        BY <1>t DEF AuthorizationRow
      <3>2. authorizations' = [authorizations EXCEPT ![d] = row]
        BY <2>1 DEF Approve
      <3> HIDE DEF row
      <3> QED
        BY <2>1, <3>1, <3>2, <1>t, CodesStayButOne
    <2>2. ASSUME NEW d \in Device, authorizations[d].status = "pending", Deny(d)
          PROVE  CodesStay
      <3> DEFINE row == [authorizations[d] EXCEPT !.status = "denied"]
      <3>1. row.status = "denied"
        BY <1>t DEF AuthorizationRow
      <3>2. authorizations' = [authorizations EXCEPT ![d] = row]
        BY <2>2 DEF Deny
      <3> HIDE DEF row
      <3> QED
        BY <2>2, <3>1, <3>2, <1>t, CodesStayButOne
    <2> QED
      BY <1>2, <2>1, <2>2 DEF DecisionStep, Decidable, StillPending
  <1>3. CASE CodeStep
    <2>1. ASSUME NEW d \in Device, NEW u \in UserCode, NEW now \in Nat,
                 authorizations[d].status = "none", InsertAuthorization(d, u, now)
          PROVE  CodesStay
      <3> DEFINE row == [NoAuthorization EXCEPT !.status = "pending", !.user_code = u,
                                                !.expires_at = now + DeviceLifetime]
      <3>1. authorizations' = [authorizations EXCEPT ![d] = row]
        BY <2>1 DEF InsertAuthorization
      <3> HIDE DEF row
      <3> QED
        BY <2>1, <3>1, <1>t, CodesStayButOne
    <2>2. ASSUME NEW d \in Device, NEW now \in Nat, RecordPoll(d, now)
          PROVE  CodesStay
      <3> DEFINE row == [authorizations[d] EXCEPT !.last_polled_at = now]
      <3>1. /\ row.status = authorizations[d].status
            /\ row.approved_at = authorizations[d].approved_at
        BY <1>t DEF AuthorizationRow
      <3>2. authorizations' = [authorizations EXCEPT ![d] = row]
        BY <2>2 DEF RecordPoll
      <3> HIDE DEF row
      <3> QED
        BY <3>1, <3>2, <1>t, CodesStayButOne
    <2>3. ASSUME NEW d \in Device, ExpireAuthorization(d)
          PROVE  CodesStay
      <3> DEFINE row == [authorizations[d] EXCEPT !.status =
                           IF @ = "pending" THEN "expired" ELSE @]
      <3>1. /\ row.status = IF authorizations[d].status = "pending" THEN "expired"
                            ELSE authorizations[d].status
            /\ row.approved_at = authorizations[d].approved_at
        BY <1>t DEF AuthorizationRow
      <3>2. authorizations' = [authorizations EXCEPT ![d] = row]
        BY <2>3 DEF ExpireAuthorization
      <3> HIDE DEF row
      <3> QED
        BY <3>1, <3>2, <1>t, CodesStayButOne
    <2> QED
      BY <1>3, <2>1, <2>2, <2>3 DEF CodeStep
  <1>4. CASE ExchangeStep
    <2>1. PICK p \in Poll : poll[p].device \in Device /\ CanExchange(p) /\ ExchangeNow(p)
      BY <1>4 DEF ExchangeStep
    <2> DEFINE d == poll[p].device
               row == [authorizations[d] EXCEPT !.status = "consumed"]
    <2>2. row.status = "consumed" /\ row.approved_at = authorizations[d].approved_at
      BY <2>1, <1>t DEF AuthorizationRow
    <2>3. authorizations' = [authorizations EXCEPT ![d] = row]
      BY <2>1 DEF ExchangeNow, Exchange
    <2> HIDE DEF row
    <2> QED
      BY <2>1, <2>2, <2>3, <1>t, CodesStayButOne
  <1> QED
    BY <1>1, <1>2, <1>3, <1>4 DEF TableStep

LEMMA SeenStep ==
  ASSUME AuthInv, SeenInv, [Next]_vars
  PROVE  SeenInv'
PROOF
  <1>t. /\ clock \in Nat /\ clock' \in Nat /\ LastTick \in Nat
        /\ poll \in [Poll -> PollState] /\ PollsFound
        /\ refreshing \in [Refresh -> RefreshState]
    BY NextTakesTableStep, LifetimeAssumption
       DEF AuthInv, TypeOK, TablesTypeOK, DeviceTypeOK, SessionCallsTypeOK
  <1>m. CodesStay /\ PollsMoveOn /\ \A r \in Refresh : RefreshMovesOn(r)
    BY NextTakesTableStep, TableStepKeepsCodes, NextMovesPolls, NextMovesRefreshes
  <1>1. clock' <= LastTick /\ clock <= clock'
    <2>1. CASE Tick
      BY <2>1, <1>t DEF Tick
    <2>2. CASE clock' = clock
      BY <2>2, <1>t DEF SeenInv
    <2>3. Tick \/ clock' = clock
      BY NextMovesCreations, GrantStepTypes, PollStepTypes, RefreshStepTypes, BearerStepTypes,
         CreationStepTypes DEF Next, DisableAccount, vars, worldVars
    <2> QED
      BY <2>1, <2>2, <2>3
  <1>2. PollsInTime'
    <2> SUFFICES ASSUME NEW p \in Poll, PollRunning(p)'
                 PROVE  poll'[p].now <= clock'
      BY DEF PollsInTime
    <2>1. poll[p].now \in Nat
      BY <1>t DEF PollState
    <2>2. ReadsRow(p) \/ KeepsRow(p)
      BY <1>m DEF PollsMoveOn
    <2> QED
      BY <1>1, <1>t, <2>1, <2>2 DEF ReadsRow, KeepsRow, SeenInv, PollsInTime
  <1>3. RefreshesInTime'
    <2> SUFFICES ASSUME NEW r \in Refresh, RefreshRunning(r)'
                 PROVE  refreshing'[r].now <= clock'
      BY DEF RefreshesInTime
    <2>1. refreshing[r].now \in Nat
      BY <1>t DEF RefreshState
    <2>2. \/ RefreshRunning(r) /\ refreshing'[r].now = refreshing[r].now
          \/ refreshing'[r].now \in {0, clock}
      BY <1>m DEF RefreshMovesOn
    <2> QED
      BY <1>1, <1>t, <2>1, <2>2 DEF SeenInv, RefreshesInTime
  <1>4. GrantsSeen'
    <2> SUFFICES ASSUME NEW p \in Poll, PollRunning(p)'
                 PROVE  LET row == authorizations'[poll'[p].device] IN
                        /\ row.status # "none"
                        /\ poll'[p].seen.status = "approved" =>
                             /\ row.status \in {"approved", "consumed"}
                             /\ row.approved_at = poll'[p].seen.approved_at
                        /\ poll'[p].pc \in {"account", "exchange"} =>
                             poll'[p].seen.status = "approved"
      BY DEF GrantsSeen
    <2>1. CASE ReadsRow(p)
      BY <2>1 DEF ReadsRow
    <2>2. CASE KeepsRow(p)
      <3>1. poll'[p].device = poll[p].device /\ poll[p].device \in Device
        BY <2>2, <1>m, <1>t DEF KeepsRow, PollsMoveOn, PollRunning, PollsFound
      <3> QED
        BY <2>2, <3>1, <1>m DEF KeepsRow, SeenInv, GrantsSeen, CodesStay
    <2> QED
      BY <2>1, <2>2, <1>m DEF PollsMoveOn
  <1> QED
    BY <1>1, <1>2, <1>3, <1>4 DEF SeenInv

LEMMA SeenInvariant == Spec => []SeenInv
PROOF
  <1>1. Init => SeenInv
    <2> SUFFICES ASSUME Init PROVE SeenInv
      OBVIOUS
    <2>1. clock = 0 /\ LastTick \in Nat
      BY LifetimeAssumption DEF Init, TablesInit
    <2>2. /\ \A p \in Poll : ~PollRunning(p)
          /\ \A r \in Refresh : ~RefreshRunning(r)
      BY DEF Init, DeviceInit, SessionCallsInit, NoPoll, NoRefreshCall, PollRunning, RefreshRunning
    <2> QED
      BY <2>1, <2>2 DEF SeenInv, PollsInTime, RefreshesInTime, GrantsSeen
  <1>2. AuthInv /\ SeenInv /\ [Next]_vars => SeenInv'
    BY SeenStep
  <1> QED
    BY <1>1, <1>2, AuthInvariant, PTL DEF Spec

-----------------------------------------------------------------------------
(* The calls of the double *)

MemoryStep == Memory!Next \/ UNCHANGED tableVars

LEMMA MemoryInit == Init => Memory!Init
  BY DEF Init, TablesInit, NoAuthorization, NoSession, NoAccess, NoRefresh, NoPat,
     Memory!Init, Memory!Blank, Session, Token, Memory!Token

LEMMA TimesOfCalls ==
  ASSUME AuthInv, SeenInv
  PROVE  /\ clock \in 0 .. LastTick
         /\ \A p \in Poll : PollRunning(p) => poll[p].now \in 0 .. LastTick
         /\ \A r \in Refresh : RefreshRunning(r) => refreshing[r].now \in 0 .. LastTick
PROOF
  <1>t. /\ clock \in Nat /\ LastTick \in Nat /\ clock <= LastTick
        /\ poll \in [Poll -> PollState] /\ refreshing \in [Refresh -> RefreshState]
    BY LifetimeAssumption DEF AuthInv, TypeOK, TablesTypeOK, DeviceTypeOK, SessionCallsTypeOK, SeenInv
  <1>1. \A p \in Poll : poll[p].now \in Nat
    BY <1>t DEF PollState
  <1>2. \A r \in Refresh : refreshing[r].now \in Nat
    BY <1>t DEF RefreshState
  <1> QED
    BY <1>t, <1>1, <1>2 DEF SeenInv, PollsInTime, RefreshesInTime

LEMMA MemoryApprove ==
  ASSUME AuthInv, NEW d \in Device, NEW a \in Account, NEW now \in 0 .. LastTick,
         StillPending(d, now), Approve(d, a, now)
  PROVE  Memory!Next
PROOF
  <1>t. authorizations \in [Device -> AuthorizationRow]
    BY DEF AuthInv, TypeOK, TablesTypeOK
  <1> DEFINE ours == [authorizations[d] EXCEPT !.status = "approved", !.account_id = a,
                                               !.approved_at = now]
             theirs == [authorizations[d] EXCEPT !.account_id = a, !.status = "approved",
                                                 !.approved_at = now]
  <1>1. ours = theirs
    BY <1>t DEF AuthorizationRow
  <1>2. authorizations' = [authorizations EXCEPT ![d] = ours]
    BY DEF Approve
  <1>3. authorizations' = [authorizations EXCEPT ![d] = theirs]
    BY <1>1, <1>2
  <1>4. Memory!SetAuthorization(d, theirs)
    BY <1>3 DEF Approve, Memory!SetAuthorization, Memory!sessionVars, Memory!patVars,
       sessionVars, patVars
  <1>5. Memory!ApproveDeviceAuthorization(d, a, now)
    BY <1>4 DEF Memory!ApproveDeviceAuthorization, Memory!Undecided, StillPending
  <1> QED
    BY <1>5 DEF Memory!Next

LEMMA MemoryDeny ==
  ASSUME AuthInv, NEW d \in Device, NEW now \in 0 .. LastTick, StillPending(d, now), Deny(d)
  PROVE  Memory!Next
PROOF
  <1>1. Memory!DenyDeviceAuthorization(d, now)
    BY DEF Deny, Memory!DenyDeviceAuthorization, Memory!Undecided, StillPending,
       Memory!SetAuthorization, Memory!sessionVars, Memory!patVars, sessionVars, patVars
  <1> QED
    BY <1>1 DEF Memory!Next

LEMMA MemoryInsertAuthorization ==
  ASSUME NEW d \in Device, NEW u \in UserCode, NEW now \in 0 .. LastTick,
         authorizations[d].status = "none", ~UserCodeTaken(u), InsertAuthorization(d, u, now)
  PROVE  Memory!Next
PROOF
  <1> DEFINE until == now + DeviceLifetime
             ours == [NoAuthorization EXCEPT !.status = "pending", !.user_code = u,
                                             !.expires_at = until]
             theirs == [status |-> "pending", account_id |-> {}, user_code |-> u,
                        expires_at |-> until, approved_at |-> 0, last_polled_at |-> -1]
  <1>1. authorizations' = [authorizations EXCEPT ![d] = ours]
    BY DEF InsertAuthorization
  <1>a. until \in Nat
    BY LifetimesAreNat
  <1> HIDE DEF until
  <1>b. ours \in AuthorizationRow
    BY <1>a, NoRowTypes DEF AuthorizationRow
  <1>c. /\ ours.status = "pending" /\ ours.user_code = u /\ ours.expires_at = until
        /\ ours.account_id = {} /\ ours.approved_at = 0 /\ ours.last_polled_at = -1
    BY DEF NoAuthorization, Never
  <1> HIDE DEF ours
  <1>2. ours = theirs
    BY <1>b, <1>c DEF AuthorizationRow
  <1> HIDE DEF theirs
  <1>3. Memory!SetAuthorization(d, theirs)
    BY <1>1, <1>2 DEF InsertAuthorization, Memory!SetAuthorization,
       Memory!sessionVars, Memory!patVars, sessionVars, patVars
  <1>4. \A other \in Device : authorizations[other].user_code # u
    BY DEF UserCodeTaken
  <1>5. Memory!CreateDeviceAuthorization(d, u, now)
    BY <1>3, <1>4 DEF Memory!CreateDeviceAuthorization, theirs, until
  <1> QED
    BY <1>5 DEF Memory!Next

LEMMA MemoryExpire ==
  ASSUME AuthInv, NEW d \in Device, ExpireAuthorization(d)
  PROVE  MemoryStep
PROOF
  <1>t. authorizations \in [Device -> AuthorizationRow] /\ 0 \in 0 .. LastTick
    BY LifetimeAssumption DEF AuthInv, TypeOK, TablesTypeOK
  <1>1. CASE authorizations[d].status = "pending"
    <2>1. Memory!ExpireDeviceAuthorization(d)
      BY <1>1 DEF ExpireAuthorization, Memory!ExpireDeviceAuthorization,
         Memory!SetAuthorization, Memory!sessionVars, Memory!patVars, sessionVars, patVars
    <2> QED
      BY <2>1, <1>t DEF Memory!Next, MemoryStep
  <1>2. CASE authorizations[d].status # "pending"
    <2> DEFINE row == [authorizations[d] EXCEPT !.status =
                         IF @ = "pending" THEN "expired" ELSE @]
    <2>1. row = authorizations[d]
      BY <1>2, <1>t DEF AuthorizationRow
    <2>2. authorizations' = [authorizations EXCEPT ![d] = row]
      BY DEF ExpireAuthorization
    <2>3. authorizations' = authorizations
      BY <2>1, <2>2, <1>t
    <2> QED
      BY <2>3 DEF ExpireAuthorization, MemoryStep, tableVars, sessionVars, patVars
  <1> QED
    BY <1>1, <1>2

LEMMA MemoryPollRecord ==
  ASSUME NEW d \in Device, NEW now \in 0 .. LastTick,
         authorizations[d].status # "none", PollAllowed(d, now), RecordPoll(d, now)
  PROVE  Memory!Next
PROOF
  <1>1. Memory!RecordDeviceAuthorizationPoll(d, now, now - PollInterval)
    BY DEF PollAllowed, Never, RecordPoll, Memory!RecordDeviceAuthorizationPoll, Memory!SetAuthorization,
       Memory!sessionVars, Memory!patVars, sessionVars, patVars
  <1> QED
    BY <1>1 DEF Memory!Next

LEMMA MemoryExchange ==
  ASSUME AuthInv, GrantInv, SeenInv, NEW p \in Poll, poll[p].pc = "exchange",
         CanExchange(p), ExchangeNow(p)
  PROVE  Memory!Next
PROOF
  <1> DEFINE d == poll[p].device
             now == poll[p].now
             seen == poll[p].seen
             row == authorizations[d]
  <1>1. PollRunning(p) /\ d \in Device /\ now \in 0 .. LastTick
    BY TimesOfCalls DEF AuthInv, PollsFound, PollRunning
  <1>2. row.approved_at = seen.approved_at
    BY <1>1 DEF SeenInv, GrantsSeen
  <1>3. /\ row.status = "approved" /\ row.expires_at > now
        /\ row.account_id = seen.account_id /\ accounts[row.account_id] = "active"
    BY DEF CanExchange, Exchangeable
  <1>4. sessions[p].status = "none"
    BY DEF GrantInv, PollsCreateLate
  <1>5. sessions' = [sessions EXCEPT ![p] =
          [status |-> "active", account_id |-> row.account_id,
           idle_expires_at |-> row.approved_at + SessionIdle,
           absolute_expires_at |-> row.approved_at + SessionAbsolute]]
    BY <1>2, <1>3 DEF ExchangeNow, Exchange
  <1>6. refresh' = [refresh EXCEPT ![p] =
          [status |-> "active", session_id |-> p, parent |-> {}, replaced_by |-> {},
           expires_at |-> row.approved_at + SessionAbsolute]]
    <2> DEFINE until == row.approved_at + SessionAbsolute
               ours == [NoRefresh EXCEPT !.status = "active", !.session_id = p,
                                         !.expires_at = until]
    <2>1. refresh' = [refresh EXCEPT ![p] = ours]
      BY <1>2 DEF ExchangeNow, Exchange
    <2>2. until \in Nat
      BY <1>1, LifetimesAreNat DEF AuthInv, TypeOK, TablesTypeOK, AuthorizationRow
    <2> HIDE DEF until
    <2>3. ours \in RefreshRow
      BY <2>2, NoRowTypes DEF RefreshRow, Session
    <2>4. /\ ours.status = "active" /\ ours.session_id = p /\ ours.expires_at = until
          /\ ours.parent = {} /\ ours.replaced_by = {}
      BY DEF NoRefresh
    <2> HIDE DEF ours
    <2>5. ours = [status |-> "active", session_id |-> p, parent |-> {}, replaced_by |-> {},
                  expires_at |-> until]
      BY <2>3, <2>4 DEF RefreshRow
    <2> QED
      BY <2>1, <2>5 DEF until
  <1>7. /\ authorizations' = [authorizations EXCEPT ![d].status = "consumed"]
        /\ access' = [access EXCEPT ![p] =
             [status |-> "active", session_id |-> p, expires_at |-> now + AccessLifetime]]
        /\ UNCHANGED <<accounts, patVars>>
    BY DEF ExchangeNow, Exchange
  <1>8. Memory!ExchangeDeviceAuthorization(d, p, now)
    BY <1>3, <1>4, <1>5, <1>6, <1>7
       DEF Memory!ExchangeDeviceAuthorization, Memory!patVars, patVars
  <1> QED
    BY <1>1, <1>8 DEF Memory!Next

LEMMA MemoryRotation ==
  ASSUME AuthInv, ChainInv, SeenInv, NEW r \in Refresh, refreshing[r].pc = "rotate",
         Rotatable(Presented(r), refreshing[r].now),
         Rotate(Presented(r), r, refreshing[r].now)
  PROVE  Memory!Next
PROOF
  <1> DEFINE t == Presented(r)
             now == refreshing[r].now
             s == refresh[t].session_id
  <1>1. RefreshRunning(r) /\ t \in Token /\ now \in 0 .. LastTick
    BY TimesOfCalls DEF AuthInv, RefreshesFound, RefreshRunning
  <1>2. refresh[r].status = "none"
    BY DEF ChainInv, RefreshesCreateLate, Waiting
  <1>3. /\ refresh[t].status = "active" /\ sessions[s].status = "active"
        /\ accounts[sessions[s].account_id] = "active" /\ ~SessionExpired(s, now)
    BY DEF Rotatable
  <1>4. /\ s \in Session /\ sessions \in [Session -> SessionRow]
    BY <1>1, <1>3 DEF AuthInv, TokensHaveSessions, Issued, TypeOK, TablesTypeOK
  <1>5. sessions[s].idle_expires_at \in Nat /\ sessions[s].absolute_expires_at \in Nat
    BY <1>4 DEF SessionRow
  <1>6. sessions[s].idle_expires_at > now /\ sessions[s].absolute_expires_at > now
    BY <1>1, <1>3, <1>5 DEF SessionExpired
  <1>7. Memory!RotateRefreshToken(t, r, now)
    BY <1>2, <1>3, <1>6
       DEF Rotate, Memory!RotateRefreshToken, Memory!patVars, grantVars, patVars
  <1> QED
    BY <1>1, <1>7 DEF Memory!Next, Memory!Token, Token

LEMMA MemoryEnd ==
  ASSUME NEW s \in Session, sessions[s].status # "none",
         CompromiseSession(s) \/ RevokeSession(s)
  PROVE  Memory!Next
PROOF
  <1>1. ASSUME NEW status, sessions' = [sessions EXCEPT ![s].status = status],
               RevokeTokensOf(s), UNCHANGED <<accounts, grantVars, patVars>>
        PROVE  Memory!EndSession(s, status)
    BY <1>1 DEF RevokeTokensOf, Memory!EndSession, Memory!Token, Token, Memory!patVars,
       grantVars, patVars
  <1>2. CASE CompromiseSession(s)
    <2>1. Memory!CompromiseCliSession(s)
      BY <1>1, <1>2 DEF CompromiseSession, Memory!CompromiseCliSession
    <2> QED
      BY <2>1 DEF Memory!Next, Session
  <1>3. CASE RevokeSession(s)
    <2>1. Memory!RevokeCliSession(s)
      BY <1>1, <1>3 DEF RevokeSession, Memory!RevokeCliSession
    <2> QED
      BY <2>1 DEF Memory!Next, Session
  <1> QED
    BY <1>2, <1>3

LEMMA MemoryMint ==
  ASSUME AuthInv, KeyInv, SeenInv, NEW c \in PatCreation, creation[c].pc = "insert",
         CanMint(c), Mint(c)
  PROVE  Memory!Next
PROOF
  <1> DEFINE a == creation[c].account
             k == creation[c].key
             hash == creation[c].hash
             now == creation[c].now
  <1>t. /\ creation \in [PatCreation -> CreationState] /\ idempotency \in SUBSET IdempotencyRow
        /\ clock \in 0 .. LastTick
    BY TimesOfCalls DEF AuthInv, TypeOK, TablesTypeOK, CreationTypeOK
  <1>1. CreationRunning(c) /\ a \in Account /\ k \in IdempotencyKey /\ hash \in {"a", "b"}
    BY DEF AuthInv, CreationsNamed, CreationRunning
  <1>2. now \in Nat
    BY <1>t DEF CreationState
  <1>3. now \in 0 .. LastTick
    BY <1>t, <1>1, <1>2, LifetimeAssumption DEF KeyInv, CreationsInTime
  <1>4. pats[c].status = "none"
    BY DEF KeyInv, CreationsMintLate, Exists
  <1>5. \A i \in idempotency : i.expires_at \in Nat
    BY <1>t DEF IdempotencyRow
  <1>6. idempotency \ Lapsed(now) = {i \in idempotency : i.expires_at > now}
    BY <1>2, <1>5 DEF Lapsed
  <1>7. \A i \in idempotency : ~(i.account_id = a /\ i.key = k /\ i.expires_at > now)
    BY <1>6 DEF CanMint, KeyFree
  <1>8. /\ pats' = [pats EXCEPT ![c] =
             [status |-> "active", account_id |-> a, expires_at |-> now + PatLifetime]]
        /\ UNCHANGED <<accounts, grantVars, sessionVars>>
    BY DEF Mint, InsertPat
  <1>9. idempotency' = {i \in idempotency : i.expires_at > now} \cup
          {[account_id |-> a, key |-> k, request_hash |-> hash, token_id |-> c,
            created_at |-> now, expires_at |-> now + Retention]}
    BY <1>6 DEF Mint, InsertPat
  <1>10. Memory!CreatePersonalAccessTokenIdempotently(c, a, k, hash, now)
    BY <1>4, <1>7, <1>8, <1>9
       DEF Memory!CreatePersonalAccessTokenIdempotently, Memory!sessionVars, grantVars, sessionVars
  <1> QED
    BY <1>1, <1>3, <1>10 DEF Memory!Next

LEMMA MemoryRevokePat ==
  ASSUME AuthInv, BearerInv, NEW t \in PatCreation, pats[t].status # "none", NEW a, RevokePat(t, a)
  PROVE  MemoryStep
PROOF
  <1>t. pats \in [PatCreation -> PatRow] /\ 0 \in 0 .. LastTick
    BY LifetimeAssumption DEF AuthInv, TypeOK, TablesTypeOK
  <1>1. CASE pats[t].account_id = a
    <2>1. a \in Account
      BY <1>1 DEF BearerInv, AccountsNamed, Exists
    <2>2. Memory!RevokePersonalAccessToken(t, a)
      BY <1>1 DEF RevokePat, Memory!RevokePersonalAccessToken, Memory!sessionVars,
         grantVars, sessionVars
    <2> QED
      BY <2>1, <2>2, <1>t DEF Memory!Next, MemoryStep
  <1>2. CASE pats[t].account_id # a
    <2> DEFINE row == [pats[t] EXCEPT !.status =
                         IF pats[t].account_id = a THEN "revoked" ELSE @]
    <2>1. row = pats[t]
      BY <1>2, <1>t DEF PatRow
    <2>2. pats' = [pats EXCEPT ![t] = row]
      BY DEF RevokePat
    <2>3. pats' = pats
      BY <2>1, <2>2, <1>t
    <2> QED
      BY <2>3 DEF RevokePat, MemoryStep, tableVars, grantVars, sessionVars
  <1> QED
    BY <1>1, <1>2

-----------------------------------------------------------------------------
(* Every step is a call of the double, or changes no row *)

LEMMA MemoryGrantStep ==
  ASSUME AuthInv, SeenInv, GrantStep
  PROVE  MemoryStep
PROOF
  <1>t. clock \in 0 .. LastTick
    BY TimesOfCalls
  <1>1. CASE \E d \in Device, u \in UserCode : CreateDeviceAuthorization(d, u)
    BY <1>1, <1>t, MemoryInsertAuthorization DEF CreateDeviceAuthorization, MemoryStep
  <1>2. CASE \E b \in Decision : Decide(b)
    <2>1. PICK b \in Decision : Decide(b)
      BY <1>2
    <2>2. decision[b].device \in Device /\ decision[b].account \in Account
      BY <2>1 DEF Decide, AuthInv, DecisionsFound
    <2>3. \/ UNCHANGED tableVars
          \/ /\ StillPending(decision[b].device, clock)
             /\ \/ Approve(decision[b].device, decision[b].account, clock)
                \/ Deny(decision[b].device)
      BY <2>1 DEF Decide, MayDecide, Decidable
    <2> QED
      BY <1>t, <2>2, <2>3, MemoryApprove, MemoryDeny DEF MemoryStep
  <1>3. CASE UNCHANGED tableVars
    BY <1>3 DEF MemoryStep
  <1> QED
    BY <1>1, <1>2, <1>3 DEF GrantStep, AskToSignIn, ShowApprovalPage, SubmitDecision

LEMMA MemoryPollStep ==
  ASSUME AuthInv, GrantInv, SeenInv, NEW p \in Poll, PollStep(p)
  PROVE  MemoryStep
PROOF
  <1>r. PollRunning(p) => /\ poll[p].now \in 0 .. LastTick /\ poll[p].device \in Device
                          /\ authorizations[poll[p].device].status # "none"
    BY TimesOfCalls DEF AuthInv, PollsFound, SeenInv, GrantsSeen
  <1>1. CASE RecordDevicePoll(p)
    BY <1>1, <1>r, MemoryPollRecord DEF RecordDevicePoll, PollRunning, MemoryStep
  <1>2. CASE ExpireOnPoll(p)
    BY <1>2, <1>r, MemoryExpire DEF ExpireOnPoll, PollRunning
  <1>3. CASE ExchangeForSession(p) \/ ExchangeThrows(p)
    BY <1>3, MemoryExchange DEF ExchangeForSession, ExchangeThrows, MemoryStep
  <1>4. CASE UNCHANGED tableVars
    BY <1>4 DEF MemoryStep
  <1> QED
    BY <1>1, <1>2, <1>3, <1>4 DEF PollStep, FindByDeviceCode, FindApprover, RecheckConsumed,
       PollFails

LEMMA MemoryRefreshStep ==
  ASSUME AuthInv, ChainInv, SeenInv, NEW r \in Refresh, RefreshStep(r)
  PROVE  MemoryStep
PROOF
  <1>1. CASE RotateRefreshToken(r) \/ RotateAckLost(r)
    BY <1>1, MemoryRotation DEF RotateRefreshToken, RotateAckLost, MemoryStep
  <1>2. CASE CompromiseOnReuse(r)
    <2>1. Presented(r) \in Token /\ refresh[Presented(r)].status # "none"
      BY <1>2 DEF CompromiseOnReuse, AuthInv, RefreshesFound, RefreshRunning
    <2>2. SessionOf(r) \in Session /\ sessions[SessionOf(r)].status # "none"
      BY <2>1 DEF AuthInv, TokensHaveSessions, Issued, SessionOf
    <2> QED
      BY <1>2, <2>2, MemoryEnd DEF CompromiseOnReuse, MemoryStep
  <1>3. CASE UNCHANGED tableVars
    BY <1>3 DEF MemoryStep
  <1> QED
    BY <1>1, <1>2, <1>3 DEF RefreshStep, RefreshAdvances, FindRefreshToken,
       FindSessionToRefresh, FindAccountToRefresh, ClassifyRotation, ExplainRotation, RefreshFails

LEMMA MemoryBearerStep ==
  ASSUME AuthInv, BearerInv, NEW c \in Bearer, BearerStep(c)
  PROVE  MemoryStep
PROOF
  <1>1. CASE RevokeCurrentSession(c)
    <2>1. bearer[c].token \in Token /\ access[bearer[c].token].status # "none"
      BY <1>1 DEF RevokeCurrentSession, AuthInv, BearersFound, BearerRunning
    <2>2. AccessSession(c) \in Session /\ sessions[AccessSession(c)].status # "none"
      BY <2>1 DEF AuthInv, TokensHaveSessions, Issued, AccessSession
    <2> QED
      BY <1>1, <2>2, MemoryEnd DEF RevokeCurrentSession, MemoryStep
  <1>2. CASE \E t \in PatCreation : RevokePersonalAccessToken(c, t)
    BY <1>2, MemoryRevokePat DEF RevokePersonalAccessToken
  <1>3. CASE UNCHANGED tableVars
    BY <1>3 DEF MemoryStep
  <1> QED
    BY <1>1, <1>2, <1>3 DEF BearerStep, FindAccessToken, FindPersonalAccessToken,
       FindBearerSession, FindBearerAccount, UseBearer, BearerFails

LEMMA MemoryCreationStep ==
  ASSUME AuthInv, KeyInv, SeenInv, NEW c \in PatCreation, CreationStep(c)
  PROVE  MemoryStep
PROOF
  <1>1. CASE CreateIdempotently(c) \/ CreateThrows(c)
    BY <1>1, MemoryMint DEF CreateIdempotently, CreateThrows, MemoryStep
  <1>2. CASE UNCHANGED tableVars
    BY <1>2 DEF MemoryStep
  <1> QED
    BY <1>1, <1>2 DEF CreationStep, StartCreation, RecoverExisting, FindRacedRecord,
       ReplayPersonalAccessToken, CreationFails

LEMMA MemoryTakesTheStep ==
  ASSUME AuthInv, GrantInv, ChainInv, KeyInv, BearerInv, SeenInv, [Next]_vars
  PROVE  MemoryStep
PROOF
  <1>1. CASE \E a \in Account : DisableAccount(a)
    <2>1. PICK a \in Account : DisableAccount(a)
      BY <1>1
    <2>2. Memory!DisableAccount(a)
      BY <2>1 DEF DisableAccount, Memory!DisableAccount, Memory!sessionVars, Memory!patVars,
         sessionVars, patVars
    <2> QED
      BY <2>2 DEF Memory!Next, MemoryStep
  <1>2. CASE Tick \/ UNCHANGED vars
    BY <1>2 DEF Tick, vars, tableVars, MemoryStep
  <1> QED
    BY <1>1, <1>2, MemoryGrantStep, MemoryPollStep, MemoryRefreshStep, MemoryBearerStep,
       MemoryCreationStep DEF Next

(* The guarded statements and changes() chains of D1AuthDomainRepository     *)
(* and D1DeviceApprovalRepository, for any number of calls: whatever their   *)
(* callers read before, they do to the tables what one call of the           *)
(* InMemoryAuthDomainRepository of the unit tests does, or nothing.          *)
THEOREM ImplementsMemory == Spec => AgreesWithMemory
PROOF
  <1>1. Init => Memory!Init
    BY MemoryInit
  <1>2. AuthInv /\ GrantInv /\ ChainInv /\ KeyInv /\ BearerInv /\ SeenInv /\ [Next]_vars
          => [Memory!Next]_(Memory!tableVars)
    BY MemoryTakesTheStep DEF MemoryStep, tableVars, Memory!tableVars
  <1> QED
    BY <1>1, <1>2, AuthInvariant, GrantInvariant, ChainInvariant, KeyInvariant, BearerInvariant,
       SeenInvariant, PTL DEF Spec, AgreesWithMemory, Memory!Spec
=============================================================================
