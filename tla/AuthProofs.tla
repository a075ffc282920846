------------------------------ MODULE AuthProofs ------------------------------
(***************************************************************************)
(* Types of the identity tables and of the calls on them, for every number *)
(* of accounts, codes, calls and keys and every lifetime.  The types alone *)
(* are not inductive: a rotation writes the session its token belongs to,  *)
(* a creation writes the key it was given.  AuthInv adds that a running    *)
(* call has found what it works on and that tokens belong to sessions.     *)
(***************************************************************************)
EXTENDS Auth, TLAPS

(* Whatever token was issued belongs to a session that exists. *)
Issued(token) == token.session_id \in Session /\ sessions[token.session_id].status # "none"
TokensHaveSessions == \A t \in Token :
  /\ access[t].status # "none" => Issued(access[t])
  /\ refresh[t].status # "none" => Issued(refresh[t])

(* A call that is past its first statement has found its row. *)
PollsFound == \A p \in Poll : PollRunning(p) =>
  poll[p].device \in Device /\ poll[p].seen.status # "none"
DecisionsFound == \A b \in Decision : decision[b].pc \in {"page", "decide"} =>
  decision[b].device \in Device /\ decision[b].account \in Account
RefreshesFound == \A r \in Refresh : RefreshRunning(r) =>
  Presented(r) \in Token /\ refresh[Presented(r)].status # "none"
BearersFound == \A c \in Bearer : BearerRunning(c) /\ bearer[c].kind = "access" =>
  bearer[c].token \in Token /\ access[bearer[c].token].status # "none"
CreationsNamed == \A c \in PatCreation : CreationRunning(c) =>
  /\ creation[c].account \in Account /\ creation[c].key \in IdempotencyKey
  /\ creation[c].hash \in {"a", "b"}

AuthInv ==
  /\ TypeOK /\ TokensHaveSessions
  /\ PollsFound /\ DecisionsFound /\ RefreshesFound /\ BearersFound /\ CreationsNamed

(* What a step may do to the tables, whoever takes it. *)
AccountStep ==
  /\ \E a \in Account : accounts' = [accounts EXCEPT ![a] = "disabled"]
  /\ UNCHANGED <<authorizations, sessionVars, patVars>>
DecisionStep ==
  \/ \E d \in Device, a \in Account, now \in Nat : Decidable(d, now) /\ Approve(d, a, now)
  \/ \E d \in Device, now \in Nat : Decidable(d, now) /\ Deny(d)
CodeStep ==
  \/ \E d \in Device, u \in UserCode, now \in Nat :
       authorizations[d].status = "none" /\ InsertAuthorization(d, u, now)
  \/ \E d \in Device, now \in Nat : RecordPoll(d, now)
  \/ \E d \in Device : ExpireAuthorization(d)
ExchangeStep ==
  \E p \in Poll : /\ poll[p].pc = "exchange" /\ poll[p].device \in Device
                  /\ CanExchange(p) /\ ExchangeNow(p) /\ poll'[p].pc \in {"recheck", "done"}
RotationStep ==
  \E r \in Refresh : /\ refreshing[r].pc = "rotate" /\ Presented(r) \in Token
                     /\ Rotatable(Presented(r), refreshing[r].now)
                     /\ Rotate(Presented(r), r, refreshing[r].now)
                     /\ refreshing'[r].pc = "done"
EndStep ==
  \E s \in Session : sessions[s].status # "none" /\ (CompromiseSession(s) \/ RevokeSession(s))
PatStep ==
  \/ \E c \in PatCreation : /\ creation[c].pc = "insert" /\ CanMint(c) /\ Mint(c)
                            /\ creation'[c].pc \in {"recover", "done"}
  \/ \E c \in PatCreation :
       /\ pats[c].status # "none"
       /\ pats' \in {pats, [pats EXCEPT ![c].status = "revoked"]}
       /\ UNCHANGED <<accounts, grantVars, sessionVars, idempotency>>
TableStep ==
  \/ UNCHANGED tableVars \/ AccountStep \/ DecisionStep \/ CodeStep
  \/ ExchangeStep \/ RotationStep \/ EndStep \/ PatStep

RowsOK ==
  /\ accounts \in [Account -> {"active", "disabled"}]
  /\ authorizations \in [Device -> AuthorizationRow]
  /\ sessions \in [Session -> SessionRow]
  /\ access \in [Token -> AccessRow]
  /\ refresh \in [Token -> RefreshRow]
  /\ pats \in [PatCreation -> PatRow]
  /\ idempotency \in SUBSET IdempotencyRow

-----------------------------------------------------------------------------
(* The initial state *)

LEMMA LifetimesAreNat ==
  /\ DeviceLifetime \in Nat /\ PollInterval \in Nat /\ AccessLifetime \in Nat
  /\ SessionIdle \in Nat /\ SessionAbsolute \in Nat /\ PatLifetime \in Nat
  /\ Retention \in Nat
  BY LifetimeAssumption

LEMMA NoRowTypes ==
  /\ NoAuthorization \in AuthorizationRow /\ NoSession \in SessionRow
  /\ NoAccess \in AccessRow /\ NoRefresh \in RefreshRow /\ NoPat \in PatRow
  BY DEF NoAuthorization, NoSession, NoAccess, NoRefresh, NoPat, Never,
     AuthorizationRow, SessionRow, AccessRow, RefreshRow, PatRow

LEMMA NoCallTypes ==
  /\ NoPoll \in PollState /\ NoDecision \in DecisionState
  /\ NoRefreshCall \in RefreshState /\ NoBearer \in BearerState /\ NoCreation \in CreationState
PROOF
  <1>1. NoPoll \in PollState
    BY NoRowTypes DEF NoPoll, PollState
  <1>2. NoDecision \in DecisionState
    BY DEF NoDecision, DecisionState
  <1>3. NoRefreshCall \in RefreshState
    BY DEF NoRefreshCall, RefreshState
  <1>4. NoBearer \in BearerState
    BY DEF NoBearer, BearerState
  <1>5. NoCreation \in CreationState
    BY DEF NoCreation, CreationState
  <1> QED
    BY <1>1, <1>2, <1>3, <1>4, <1>5

LEMMA InitInv == Init => AuthInv
PROOF
  <1> SUFFICES ASSUME Init PROVE AuthInv
    OBVIOUS
  <1>1. TablesTypeOK
    BY NoRowTypes DEF Init, TablesInit, TablesTypeOK
  <1>2. DeviceTypeOK
    <2>1. 0 \in 0 .. CodeAttempts
      BY AttemptAssumption
    <2> QED
      BY <2>1, NoCallTypes DEF Init, DeviceInit, DeviceTypeOK
  <1>3. SessionCallsTypeOK /\ CreationTypeOK
    BY NoCallTypes DEF Init, SessionCallsInit, SessionCallsTypeOK, CreationInit, CreationTypeOK
  <1>4. TokensHaveSessions
    BY DEF Init, TablesInit, TokensHaveSessions, NoAccess, NoRefresh
  <1>5. PollsFound /\ DecisionsFound
    BY DEF Init, DeviceInit, PollsFound, DecisionsFound, PollRunning, NoPoll, NoDecision
  <1>6. RefreshesFound /\ BearersFound /\ CreationsNamed
    BY DEF Init, SessionCallsInit, CreationInit, RefreshesFound, BearersFound, CreationsNamed,
       RefreshRunning, BearerRunning, CreationRunning, NoRefreshCall, NoBearer, NoCreation
  <1> QED
    BY <1>1, <1>2, <1>3, <1>4, <1>5, <1>6 DEF AuthInv, TypeOK

-----------------------------------------------------------------------------
(* Device grants *)

LEMMA PollAnswersTypes ==
  ASSUME poll \in [Poll -> PollState], PollsFound, NEW p \in Poll,
         NEW response \in {"slow_down", "denied", "expired", "consumed", "pending",
                           "disabled", "tokens", "error"},
         PollAnswers(p, response)
  PROVE  poll' \in [Poll -> PollState] /\ PollsFound' /\ poll'[p].pc = "done"
PROOF
  <1>1. poll[p] \in PollState
    OBVIOUS
  <1> DEFINE answered == [NoPoll EXCEPT !.pc = "done", !.device = poll[p].device,
                                        !.response = response]
  <1>2. answered \in PollState /\ answered.pc = "done"
    BY <1>1, NoCallTypes DEF PollState
  <1>3. poll' = [poll EXCEPT ![p] = answered]
    BY DEF PollAnswers
  <1> HIDE DEF answered
  <1> QED
    BY <1>2, <1>3 DEF PollsFound, PollRunning

LEMMA PollGoesTypes ==
  ASSUME poll \in [Poll -> PollState], PollsFound, NEW p \in Poll, PollRunning(p),
         NEW pc \in {"expire", "account", "exchange", "recheck"}, PollGoes(p, pc)
  PROVE  poll' \in [Poll -> PollState] /\ PollsFound' /\ poll'[p].pc = pc
PROOF
  <1>1. poll[p] \in PollState
    OBVIOUS
  <1> DEFINE gone == [poll[p] EXCEPT !.pc = pc]
  <1>2. /\ gone \in PollState /\ gone.pc = pc
        /\ gone.device = poll[p].device /\ gone.seen = poll[p].seen
    BY <1>1 DEF PollState
  <1>3. poll' = [poll EXCEPT ![p] = gone]
    BY DEF PollGoes
  <1> HIDE DEF gone
  <1> QED
    BY <1>2, <1>3 DEF PollsFound, PollRunning

PollAnswered(p) == \E response \in {"slow_down", "denied", "expired", "consumed", "pending",
                                    "disabled", "tokens", "error"} : PollAnswers(p, response)
PollGone(p) == \/ PollGoes(p, "expire")
               \/ poll[p].seen.status = "approved" /\ PollGoes(p, "account")

(* The CASE of Proceed has an arm for every row a running poll can have read. *)
LEMMA ProceedOutcome ==
  ASSUME poll \in [Poll -> PollState], PollsFound, NEW p \in Poll, PollRunning(p), Proceed(p)
  PROVE  PollAnswered(p) \/ PollGone(p)
PROOF
  <1>1. poll[p].seen.status \in {"pending", "approved", "denied", "consumed", "expired"}
    BY DEF PollsFound, PollState, AuthorizationRow
  <1>2. poll[p].seen.expires_at \in Nat /\ poll[p].now \in Nat
    BY DEF PollState, AuthorizationRow
  <1> DEFINE status == poll[p].seen.status
             lapsed == poll[p].seen.expires_at <= poll[p].now
             live   == poll[p].seen.expires_at > poll[p].now
             early  == poll[p].seen.approved_at > poll[p].now
  <1>3. lapsed \in BOOLEAN /\ live = ~lapsed
    BY <1>2
  <1>4. (CASE status \in {"denied", "expired", "consumed"} -> PollAnswers(p, status)
           [] status \in {"pending", "approved"} /\ lapsed -> PollGoes(p, "expire")
           [] status = "pending" /\ live -> PollAnswers(p, "pending")
           [] status = "approved" /\ live ->
                IF early THEN PollAnswers(p, "error") ELSE PollGoes(p, "account"))
    BY DEF Proceed
  <1>5. status \in {"pending", "approved", "denied", "consumed", "expired"}
    BY <1>1
  <1> HIDE DEF status, lapsed, live, early
  <1>6. CASE status \in {"denied", "expired", "consumed"}
    BY <1>4, <1>6 DEF PollAnswered
  <1>7. CASE status \in {"pending", "approved"} /\ lapsed
    BY <1>3, <1>4, <1>7 DEF PollGone
  <1>8. CASE status = "pending" /\ ~lapsed
    BY <1>3, <1>4, <1>8 DEF PollAnswered
  <1>9. CASE status = "approved" /\ ~lapsed
    <2>1. CASE early
      BY <1>3, <1>4, <1>9, <2>1 DEF PollAnswered
    <2>2. CASE ~early
      BY <1>3, <1>4, <1>9, <2>2 DEF PollGone, status
    <2> QED
      BY <2>1, <2>2
  <1> QED
    BY <1>5, <1>6, <1>7, <1>8, <1>9

LEMMA ProceedTypes ==
  ASSUME poll \in [Poll -> PollState], PollsFound, NEW p \in Poll, PollRunning(p), Proceed(p)
  PROVE  poll' \in [Poll -> PollState] /\ PollsFound'
  BY ProceedOutcome, PollAnswersTypes, PollGoesTypes DEF PollAnswered, PollGone

(* Every step of a poll keeps the types and does to the tables what TableStep says. *)
LEMMA PollStepTypes ==
  ASSUME AuthInv, NEW p \in Poll, PollStep(p)
  PROVE  /\ poll' \in [Poll -> PollState] /\ PollsFound'
         /\ TableStep /\ clock' = clock /\ errors' \in Nat
         /\ UNCHANGED <<attempts, decision, callVars, creation>>
PROOF
  <1>t. poll \in [Poll -> PollState] /\ PollsFound /\ errors \in Nat /\ clock \in Nat
        /\ authorizations \in [Device -> AuthorizationRow]
    BY DEF AuthInv, TypeOK, TablesTypeOK, DeviceTypeOK
  <1>u. UNCHANGED <<callVars, creation>>
    BY DEF PollStep
  <1>q. Quiet => clock' = clock /\ errors' \in Nat
    BY <1>t DEF Quiet, worldVars
  <1>w. Throws => clock' = clock /\ errors' \in Nat
    BY <1>t DEF Throws
  <1>n. UNCHANGED tableVars => TableStep
    BY DEF TableStep
  <1>r. ASSUME PollRunning(p) PROVE poll[p].device \in Device /\ poll[p].now \in Nat
    BY <1>t, <1>r DEF PollsFound, PollState
  <1>1. CASE \E d \in Device, now \in 0..clock : FindByDeviceCode(p, d, now)
    <2>1. PICK d \in Device, now \in 0..clock : FindByDeviceCode(p, d, now)
      BY <1>1
    <2>0. now \in Nat
      BY <1>t
    <2> DEFINE found == [NoPoll EXCEPT !.pc = "record", !.device = d,
                                       !.now = now, !.seen = authorizations[d]]
    <2>2. /\ found \in PollState /\ found.pc = "record"
          /\ found.device = d /\ found.seen = authorizations[d]
      BY <1>t, <2>0, NoCallTypes DEF PollState
    <2>3. poll' = [poll EXCEPT ![p] = found] /\ authorizations[d].status # "none"
      BY <2>1 DEF FindByDeviceCode
    <2> HIDE DEF found
    <2>4. poll' \in [Poll -> PollState] /\ PollsFound'
      BY <1>t, <2>2, <2>3 DEF PollsFound, PollRunning
    <2> QED
      BY <1>q, <1>u, <1>n, <2>1, <2>4 DEF FindByDeviceCode, PollOnly
  <1>2. CASE RecordDevicePoll(p)
    <2>1. PollRunning(p)
      BY <1>2 DEF RecordDevicePoll, PollRunning
    <2>2. CASE RecordPoll(poll[p].device, poll[p].now) /\ Proceed(p)
      <3>1. CodeStep
        BY <1>r, <2>1, <2>2 DEF CodeStep
      <3> QED
        BY <1>2, <1>t, <1>q, <1>u, <2>1, <2>2, <3>1, ProceedTypes
           DEF RecordDevicePoll, PollOnly, TableStep
    <2>3. CASE PollAnswers(p, "slow_down") /\ UNCHANGED tableVars
      BY <1>2, <1>t, <1>q, <1>u, <1>n, <2>3, PollAnswersTypes DEF RecordDevicePoll, PollOnly
    <2> QED
      BY <1>2, <2>2, <2>3 DEF RecordDevicePoll
  <1>3. CASE ExpireOnPoll(p)
    <2>1. CodeStep
      BY <1>3, <1>r DEF ExpireOnPoll, PollRunning, CodeStep
    <2> QED
      BY <1>3, <1>t, <1>q, <1>u, <2>1, PollAnswersTypes DEF ExpireOnPoll, PollOnly, TableStep
  <1>4. CASE FindApprover(p)
    BY <1>4, <1>t, <1>q, <1>u, <1>n, PollAnswersTypes, PollGoesTypes
       DEF FindApprover, PollOnly, PollRunning
  <1>5. CASE ExchangeForSession(p)
    <2>1. poll[p].device \in Device
      BY <1>5, <1>r DEF ExchangeForSession, PollRunning
    <2>2. CASE CanExchange(p)
      <3>1. ExchangeNow(p) /\ PollAnswers(p, "tokens") /\ poll[p].pc = "exchange"
        BY <1>5, <2>2 DEF ExchangeForSession
      <3>2. poll'[p].pc = "done"
        BY <1>t, <3>1, PollAnswersTypes
      <3>3. TableStep
        BY <2>1, <2>2, <3>1, <3>2 DEF TableStep, ExchangeStep
      <3> QED
        BY <1>5, <1>t, <1>q, <1>u, <3>1, <3>3, PollAnswersTypes DEF ExchangeForSession, PollOnly
    <2>3. CASE ~CanExchange(p)
      <3>1. ExchangeRefusal(p) \in {"disabled", "consumed"}
        BY DEF ExchangeRefusal
      <3> QED
        BY <1>5, <1>t, <1>q, <1>u, <1>n, <2>3, <3>1, PollAnswersTypes DEF ExchangeForSession, PollOnly
    <2> QED
      BY <2>2, <2>3
  <1>6. CASE ExchangeThrows(p)
    <2>1. poll[p].device \in Device /\ poll[p].pc = "exchange" /\ PollRunning(p)
      BY <1>6, <1>r DEF ExchangeThrows, PollRunning
    <2>2. PollGoes(p, "recheck") /\ poll'[p].pc = "recheck"
      BY <1>6, <1>t, <2>1, PollGoesTypes DEF ExchangeThrows
    <2>3. TableStep
      BY <1>6, <1>n, <2>1, <2>2 DEF ExchangeThrows, TableStep, ExchangeStep
    <2> QED
      BY <1>6, <1>t, <1>w, <1>u, <2>1, <2>3, PollGoesTypes DEF ExchangeThrows
  <1>7. CASE RecheckConsumed(p)
    BY <1>7, <1>t, <1>q, <1>u, <1>n, PollAnswersTypes DEF RecheckConsumed, PollOnly
  <1>8. CASE PollFails(p)
    BY <1>8, <1>t, <1>w, <1>u, <1>n, PollAnswersTypes DEF PollFails
  <1> QED
    BY <1>1, <1>2, <1>3, <1>4, <1>5, <1>6, <1>7, <1>8 DEF PollStep

(* The creation of an authorization, and the visits of the approval page. *)
LEMMA GrantStepTypes ==
  ASSUME AuthInv, GrantStep
  PROVE  /\ attempts' \in [Device -> 0 .. CodeAttempts]
         /\ decision' \in [Decision -> DecisionState] /\ DecisionsFound'
         /\ TableStep /\ clock' = clock /\ errors' = errors
         /\ UNCHANGED <<poll, callVars, creation>>
PROOF
  <1>t. /\ attempts \in [Device -> 0 .. CodeAttempts]
        /\ decision \in [Decision -> DecisionState] /\ DecisionsFound
        /\ clock \in Nat /\ CodeAttempts \in Nat
        /\ authorizations \in [Device -> AuthorizationRow]
    BY AttemptAssumption DEF AuthInv, TypeOK, TablesTypeOK, DeviceTypeOK
  <1>u. UNCHANGED <<callVars, creation>>
    BY DEF GrantStep
  <1>q. Quiet => clock' = clock /\ errors' = errors
    BY DEF Quiet, worldVars
  <1>n. UNCHANGED tableVars => TableStep
    BY DEF TableStep
  <1>1. ASSUME NEW d \in Device, NEW u \in UserCode, CreateDeviceAuthorization(d, u)
        PROVE  /\ attempts' \in [Device -> 0 .. CodeAttempts]
               /\ UNCHANGED <<poll, decision>> /\ TableStep /\ Quiet
    <2>1. attempts[d] + 1 \in 0 .. CodeAttempts
      BY <1>1, <1>t DEF CreateDeviceAuthorization
    <2>2. UNCHANGED <<poll, decision>> /\ Quiet
      BY <1>1 DEF CreateDeviceAuthorization
    <2>3. CASE UserCodeTaken(u)
      <3>1. attempts' = [attempts EXCEPT ![d] = @ + 1] /\ UNCHANGED tableVars
        BY <1>1, <2>3 DEF CreateDeviceAuthorization
      <3> QED
        BY <1>t, <1>n, <2>1, <2>2, <3>1
    <2>4. CASE ~UserCodeTaken(u)
      <3>1. InsertAuthorization(d, u, clock) /\ attempts' = attempts
        BY <1>1, <2>4 DEF CreateDeviceAuthorization
      <3>2. CodeStep
        BY <1>1, <1>t, <3>1 DEF CreateDeviceAuthorization, CodeStep
      <3> QED
        BY <1>t, <2>2, <3>1, <3>2 DEF TableStep
    <2> QED
      BY <2>3, <2>4
  <1>2. ASSUME NEW b \in Decision, NEW d \in Device, NEW pc \in {"signin", "page"},
               NEW a \in Account \cup {{}}, pc = "page" => a \in Account, OpenPage(b, pc, d, a)
        PROVE  decision' \in [Decision -> DecisionState] /\ DecisionsFound'
    <2> DEFINE opened == [NoDecision EXCEPT !.pc = pc, !.device = d, !.account = a,
                                            !.claimed = authorizations[d].expires_at]
    <2>1. authorizations[d].expires_at \in Nat
      BY <1>t DEF AuthorizationRow
    <2>2. /\ opened \in DecisionState /\ opened.pc = pc
          /\ opened.device = d /\ opened.account = a
      BY <2>1 DEF NoDecision, DecisionState
    <2>3. decision' = [decision EXCEPT ![b] = opened]
      BY <1>2 DEF OpenPage
    <2> HIDE DEF opened
    <2> QED
      BY <1>2, <1>t, <2>2, <2>3 DEF DecisionsFound
  <1>3. CASE \E d \in Device, u \in UserCode :
               clock <= GrantBy /\ CreateDeviceAuthorization(d, u)
    BY <1>3, <1>1, <1>t, <1>u, <1>q DEF DecisionsFound
  <1>4. CASE \E b \in Decision, d \in Device : AskToSignIn(b, d)
    BY <1>4, <1>2, <1>t, <1>u, <1>q, <1>n DEF AskToSignIn, DecisionOnly
  <1>5. CASE \E b \in Decision, d \in Device, a \in Account : ShowApprovalPage(b, d, a)
    BY <1>5, <1>2, <1>t, <1>u, <1>q, <1>n DEF ShowApprovalPage, DecisionOnly
  <1>6. CASE \E b \in Decision, verdict \in {"approve", "deny"} : SubmitDecision(b, verdict)
    <2>1. PICK b \in Decision, verdict \in {"approve", "deny"} : SubmitDecision(b, verdict)
      BY <1>6
    <2>2. PICK pc \in {"done", "decide"} :
            decision' = [decision EXCEPT ![b].pc = pc, ![b].verdict = verdict]
      BY <2>1 DEF SubmitDecision
    <2>3. decision[b] \in DecisionState /\ decision[b].pc = "page"
      BY <2>1, <1>t DEF SubmitDecision
    <2> DEFINE next == [decision[b] EXCEPT !.pc = pc, !.verdict = verdict]
    <2>4. /\ next \in DecisionState /\ next.pc = pc
          /\ next.device = decision[b].device /\ next.account = decision[b].account
      BY <2>3 DEF DecisionState
    <2>5. decision' = [decision EXCEPT ![b] = next]
      BY <2>2
    <2> HIDE DEF next
    <2>6. decision' \in [Decision -> DecisionState] /\ DecisionsFound'
      BY <1>t, <2>3, <2>4, <2>5 DEF DecisionsFound
    <2> QED
      BY <2>1, <2>6, <1>t, <1>u, <1>q, <1>n DEF SubmitDecision, DecisionOnly
  <1>7. CASE \E b \in Decision : Decide(b)
    <2>1. PICK b \in Decision : Decide(b)
      BY <1>7
    <2>2. decision[b] \in DecisionState /\ decision[b].pc = "decide"
      BY <2>1, <1>t DEF Decide
    <2>3. decision[b].device \in Device /\ decision[b].account \in Account
      BY <1>t, <2>2 DEF DecisionsFound
    <2> DEFINE next == [decision[b] EXCEPT !.pc = "done"]
    <2>4. next \in DecisionState /\ next.pc = "done"
      BY <2>2 DEF DecisionState
    <2>5. decision' = [decision EXCEPT ![b] = next]
      BY <2>1 DEF Decide, DecisionGoes
    <2> HIDE DEF next
    <2>6. decision' \in [Decision -> DecisionState] /\ DecisionsFound'
      BY <1>t, <2>4, <2>5 DEF DecisionsFound
    <2>7. TableStep
      <3>1. CASE ~MayDecide(b)
        BY <2>1, <3>1, <1>n DEF Decide
      <3>2. CASE MayDecide(b) /\ decision[b].verdict = "approve"
        BY <2>1, <2>3, <3>2, <1>t DEF Decide, MayDecide, DecisionStep, TableStep
      <3>3. CASE MayDecide(b) /\ decision[b].verdict # "approve"
        BY <2>1, <2>3, <3>3, <1>t DEF Decide, MayDecide, DecisionStep, TableStep
      <3> QED
        BY <3>1, <3>2, <3>3
    <2> QED
      BY <2>1, <2>6, <2>7, <1>t, <1>u, <1>q DEF Decide, DecisionOnly
  <1> QED
    BY <1>3, <1>4, <1>5, <1>6, <1>7 DEF GrantStep

-----------------------------------------------------------------------------
(* Refresh calls *)

(* What the next refresh calls need of the tokens as they are now. *)
RefreshesStayFound == \A r \in Refresh : RefreshRunning(r)' =>
  Presented(r)' \in Token /\ refresh[Presented(r)'].status # "none"

LEMMA RefreshAnswersTypes ==
  ASSUME refreshing \in [Refresh -> RefreshState], RefreshesFound, NEW r \in Refresh,
         NEW response \in {"tokens", "reuse", "token_revoked", "token_expired",
                           "session_revoked", "session_expired", "disabled", "error"},
         RefreshAnswers(r, response)
  PROVE  /\ refreshing' \in [Refresh -> RefreshState] /\ RefreshesStayFound
         /\ refreshing'[r].pc = "done"
PROOF
  <1>1. refreshing[r] \in RefreshState
    OBVIOUS
  <1> DEFINE next == [refreshing[r] EXCEPT !.pc = "done", !.now = 0, !.response = response]
  <1>2. next \in RefreshState /\ next.pc = "done"
    BY <1>1 DEF RefreshState
  <1>3. refreshing' = [refreshing EXCEPT ![r] = next]
    BY DEF RefreshAnswers
  <1> HIDE DEF next
  <1> QED
    BY <1>2, <1>3 DEF RefreshesFound, RefreshesStayFound, RefreshRunning, Presented

LEMMA RefreshGoesTypes ==
  ASSUME refreshing \in [Refresh -> RefreshState], RefreshesFound, NEW r \in Refresh,
         RefreshRunning(r),
         NEW pc \in {"account", "rotate", "classify", "explain", "compromise"},
         RefreshGoes(r, pc)
  PROVE  refreshing' \in [Refresh -> RefreshState] /\ RefreshesStayFound
PROOF
  <1>1. refreshing[r] \in RefreshState
    OBVIOUS
  <1> DEFINE next == [refreshing[r] EXCEPT !.pc = pc]
  <1>2. next \in RefreshState /\ next.pc = pc /\ next.token = refreshing[r].token
    BY <1>1 DEF RefreshState
  <1>3. refreshing' = [refreshing EXCEPT ![r] = next]
    BY DEF RefreshGoes
  <1> HIDE DEF next
  <1> QED
    BY <1>2, <1>3 DEF RefreshesFound, RefreshesStayFound, RefreshRunning, Presented

FoundRefresh(t) == [pc |-> "done", token |-> t, now |-> 0, response |-> ""]
FindOutcomes(t) == {[FoundRefresh(t) EXCEPT !.pc = "compromise"],
                    [FoundRefresh(t) EXCEPT !.response = "token_revoked"],
                    [FoundRefresh(t) EXCEPT !.response = "token_expired"],
                    [FoundRefresh(t) EXCEPT !.pc = "session", !.now = clock]}

(* FindRefreshToken has an outcome for each status of the token. *)
LEMMA FindRefreshOutcome ==
  ASSUME AuthInv, NEW r \in Refresh, NEW t \in Token, FindRefreshToken(r, t)
  PROVE  /\ refreshing' = [refreshing EXCEPT ![r] = refreshing'[r]]
         /\ refreshing'[r] \in FindOutcomes(t)
PROOF
  <1>1. refreshing \in [Refresh -> RefreshState] /\ refresh \in [Token -> RefreshRow]
    BY DEF AuthInv, TypeOK, TablesTypeOK, SessionCallsTypeOK
  <1>2. refresh[t].status \in {"active", "used", "revoked"}
    BY <1>1 DEF FindRefreshToken, RefreshRow
  <1>3. CASE refresh[t].status = "used"
    BY <1>1, <1>3 DEF FindRefreshToken, FoundRefresh, FindOutcomes
  <1>4. CASE refresh[t].status = "revoked"
    BY <1>1, <1>4 DEF FindRefreshToken, FoundRefresh, FindOutcomes
  <1>5. CASE refresh[t].status = "active"
    BY <1>1, <1>5 DEF FindRefreshToken, FoundRefresh, FindOutcomes
  <1> QED
    BY <1>2, <1>3, <1>4, <1>5

LEMMA FindOutcomesTypes ==
  ASSUME NEW t \in Token, clock \in Nat, NEW next \in FindOutcomes(t)
  PROVE  /\ next \in RefreshState /\ next.token = t
         /\ next.response \notin {"tokens", "reuse"} /\ next.now \in {0, clock}
PROOF
  <1>1. CASE next = [FoundRefresh(t) EXCEPT !.pc = "compromise"]
    BY <1>1 DEF RefreshState, FoundRefresh
  <1>2. CASE next = [FoundRefresh(t) EXCEPT !.response = "token_revoked"]
    BY <1>2 DEF RefreshState, FoundRefresh
  <1>3. CASE next = [FoundRefresh(t) EXCEPT !.response = "token_expired"]
    BY <1>3 DEF RefreshState, FoundRefresh
  <1>4. CASE next = [FoundRefresh(t) EXCEPT !.pc = "session", !.now = clock]
    BY <1>4 DEF RefreshState, FoundRefresh
  <1> QED
    BY <1>1, <1>2, <1>3, <1>4 DEF FindOutcomes

LEMMA FindRefreshTypes ==
  ASSUME AuthInv, NEW r \in Refresh, NEW t \in Token, FindRefreshToken(r, t)
  PROVE  refreshing' \in [Refresh -> RefreshState] /\ RefreshesStayFound
PROOF
  <1>1. /\ refreshing \in [Refresh -> RefreshState] /\ RefreshesFound
        /\ clock \in Nat /\ refresh[t].status # "none"
    BY DEF AuthInv, TypeOK, TablesTypeOK, SessionCallsTypeOK, FindRefreshToken
  <1> DEFINE next == refreshing'[r]
  <1>2. refreshing' = [refreshing EXCEPT ![r] = next] /\ next \in FindOutcomes(t)
    BY FindRefreshOutcome
  <1> HIDE DEF next
  <1>3. next \in RefreshState /\ next.token = t
    BY <1>1, <1>2, FindOutcomesTypes
  <1> QED
    BY <1>1, <1>2, <1>3
       DEF RefreshesFound, RefreshesStayFound, RefreshRunning, Presented

LEMMA RefreshStepTypes ==
  ASSUME AuthInv, NEW r \in Refresh, RefreshStep(r)
  PROVE  /\ refreshing' \in [Refresh -> RefreshState] /\ RefreshesStayFound
         /\ TableStep /\ clock' = clock /\ errors' \in Nat
         /\ UNCHANGED <<deviceVars, bearer, creation>>
PROOF
  <1>t. /\ refreshing \in [Refresh -> RefreshState] /\ RefreshesFound
        /\ errors \in Nat /\ refresh \in [Token -> RefreshRow] /\ TokensHaveSessions
    BY DEF AuthInv, TypeOK, TablesTypeOK, SessionCallsTypeOK
  <1>u. UNCHANGED <<deviceVars, creation>>
    BY DEF RefreshStep, RefreshAdvances
  <1>q. Quiet => clock' = clock /\ errors' \in Nat
    BY <1>t DEF Quiet, worldVars
  <1>w. Throws => clock' = clock /\ errors' \in Nat
    BY <1>t DEF Throws
  <1>n. UNCHANGED tableVars => TableStep
    BY DEF TableStep
  <1>r. ASSUME RefreshRunning(r)
        PROVE  Presented(r) \in Token /\ refresh[Presented(r)].status \in {"active", "used", "revoked"}
    BY <1>t, <1>r DEF RefreshesFound, RefreshRow
  <1>1. CASE FindSessionToRefresh(r)
    BY <1>1, <1>t, <1>q, <1>u, <1>n, RefreshAnswersTypes, RefreshGoesTypes
       DEF FindSessionToRefresh, RefreshOnly, RefreshRunning
  <1>2. CASE FindAccountToRefresh(r)
    BY <1>2, <1>t, <1>q, <1>u, <1>n, RefreshAnswersTypes, RefreshGoesTypes
       DEF FindAccountToRefresh, RefreshOnly, RefreshRunning
  <1>3. CASE RotateRefreshToken(r)
    <2>1. RefreshRunning(r) /\ refreshing[r].pc = "rotate"
      BY <1>3 DEF RotateRefreshToken, RefreshRunning
    <2>2. CASE Rotatable(Presented(r), refreshing[r].now)
      <3>1. /\ Rotate(Presented(r), r, refreshing[r].now)
            /\ RefreshAnswers(r, "tokens") /\ refreshing'[r].pc = "done"
        BY <1>3, <1>t, <2>2, RefreshAnswersTypes DEF RotateRefreshToken
      <3>2. TableStep
        BY <1>r, <2>1, <2>2, <3>1 DEF TableStep, RotationStep
      <3> QED
        BY <1>3, <1>t, <1>q, <1>u, <3>1, <3>2, RefreshAnswersTypes
           DEF RotateRefreshToken, RefreshOnly
    <2>3. CASE ~Rotatable(Presented(r), refreshing[r].now)
      BY <1>3, <1>t, <1>q, <1>u, <1>n, <2>1, <2>3, RefreshGoesTypes
         DEF RotateRefreshToken, RefreshOnly
    <2> QED
      BY <2>2, <2>3
  <1>4. CASE ClassifyRotation(r)
    <2>1. RefreshRunning(r) /\ UNCHANGED tableVars /\ RefreshOnly
      BY <1>4 DEF ClassifyRotation, RefreshRunning
    <2>2. \/ RefreshGoes(r, "compromise") \/ RefreshGoes(r, "explain")
          \/ RefreshAnswers(r, "session_revoked")
      <3>1. CASE refresh[Presented(r)].status = "used"
        BY <1>4, <3>1 DEF ClassifyRotation
      <3>2. CASE refresh[Presented(r)].status = "active"
        BY <1>4, <3>2 DEF ClassifyRotation
      <3>3. CASE refresh[Presented(r)].status = "revoked"
        BY <1>4, <3>3 DEF ClassifyRotation
      <3> QED
        BY <1>r, <2>1, <3>1, <3>2, <3>3
    <2> QED
      BY <1>t, <1>q, <1>u, <1>n, <2>1, <2>2, RefreshAnswersTypes, RefreshGoesTypes
         DEF RefreshOnly
  <1>5. CASE ExplainRotation(r)
    BY <1>5, <1>t, <1>q, <1>u, <1>n, RefreshAnswersTypes DEF ExplainRotation, RefreshOnly
  <1>6. CASE CompromiseOnReuse(r)
    <2>1. Presented(r) \in Token /\ refresh[Presented(r)].status # "none"
      BY <1>6, <1>r DEF CompromiseOnReuse, RefreshRunning
    <2>2. SessionOf(r) \in Session /\ sessions[SessionOf(r)].status # "none"
      BY <1>t, <2>1 DEF TokensHaveSessions, Issued, SessionOf
    <2>3. TableStep
      BY <1>6, <2>2 DEF CompromiseOnReuse, TableStep, EndStep
    <2> QED
      BY <1>6, <1>t, <1>q, <1>u, <2>3, RefreshAnswersTypes DEF CompromiseOnReuse, RefreshOnly
  <1>7. CASE \E t \in Token : FindRefreshToken(r, t)
    BY <1>7, <1>q, <1>u, <1>n, FindRefreshTypes DEF FindRefreshToken, RefreshOnly
  <1>8. CASE RotateAckLost(r)
    <2>1. RefreshRunning(r) /\ RefreshAnswers(r, "error") /\ refreshing'[r].pc = "done"
      BY <1>8, <1>t, RefreshAnswersTypes DEF RotateAckLost, RefreshRunning
    <2>2. TableStep
      BY <1>8, <1>r, <2>1 DEF RotateAckLost, TableStep, RotationStep
    <2> QED
      BY <1>8, <1>t, <1>w, <1>u, <2>1, <2>2, RefreshAnswersTypes DEF RotateAckLost
  <1>9. CASE RefreshFails(r)
    BY <1>9, <1>t, <1>w, <1>u, <1>n, RefreshAnswersTypes DEF RefreshFails
  <1> QED
    BY <1>1, <1>2, <1>3, <1>4, <1>5, <1>6, <1>7, <1>8, <1>9 DEF RefreshStep, RefreshAdvances

-----------------------------------------------------------------------------
(* Bearer calls *)

(* What the next bearer calls need of the tokens as they are now. *)
BearersStayFound == \A c \in Bearer : BearerRunning(c)' /\ bearer'[c].kind = "access" =>
  bearer'[c].token \in Token /\ access[bearer'[c].token].status # "none"

LEMMA BearerAnswersTypes ==
  ASSUME bearer \in [Bearer -> BearerState], BearersFound, NEW c \in Bearer,
         NEW response \in {"ok", "refused", "revoked", "error"}, BearerAnswers(c, response)
  PROVE  bearer' \in [Bearer -> BearerState] /\ BearersStayFound
PROOF
  <1>1. bearer[c] \in BearerState
    OBVIOUS
  <1> DEFINE next == [bearer[c] EXCEPT !.pc = "done", !.now = 0, !.response = response]
  <1>2. next \in BearerState /\ next.pc = "done"
    BY <1>1 DEF BearerState
  <1>3. bearer' = [bearer EXCEPT ![c] = next]
    BY DEF BearerAnswers
  <1> HIDE DEF next
  <1> QED
    BY <1>2, <1>3 DEF BearersFound, BearersStayFound, BearerRunning

LEMMA BearerGoesTypes ==
  ASSUME bearer \in [Bearer -> BearerState], BearersFound, NEW c \in Bearer,
         BearerRunning(c), NEW pc \in {"account", "admitted"}, BearerGoes(c, pc)
  PROVE  bearer' \in [Bearer -> BearerState] /\ BearersStayFound
PROOF
  <1>1. bearer[c] \in BearerState
    OBVIOUS
  <1> DEFINE next == [bearer[c] EXCEPT !.pc = pc]
  <1>2. /\ next \in BearerState /\ next.pc = pc
        /\ next.kind = bearer[c].kind /\ next.token = bearer[c].token
    BY <1>1 DEF BearerState
  <1>3. bearer' = [bearer EXCEPT ![c] = next]
    BY DEF BearerGoes
  <1> HIDE DEF next
  <1> QED
    BY <1>2, <1>3 DEF BearersFound, BearersStayFound, BearerRunning

LEMMA FindBearerTypes ==
  ASSUME bearer \in [Bearer -> BearerState], BearersFound, NEW c \in Bearer,
         NEW kind \in {"access", "pat"}, NEW token \in Token \cup PatCreation,
         kind = "access" => token \in Token /\ access[token].status # "none",
         NEW pc \in {"done", "session", "account"}, NEW now \in Nat,
         NEW response \in {"", "refused"}, NEW doomed \in BOOLEAN,
         bearer' = [bearer EXCEPT ![c] =
           [pc |-> pc, kind |-> kind, token |-> token, now |-> now,
            response |-> response, doomed |-> doomed]]
  PROVE  bearer' \in [Bearer -> BearerState] /\ BearersStayFound
PROOF
  <1> DEFINE next == [pc |-> pc, kind |-> kind, token |-> token, now |-> now,
                      response |-> response, doomed |-> doomed]
  <1>1. next \in BearerState /\ next.kind = kind /\ next.token = token
    BY DEF BearerState
  <1>2. bearer' = [bearer EXCEPT ![c] = next]
    OBVIOUS
  <1> HIDE DEF next
  <1> QED
    BY <1>1, <1>2 DEF BearersFound, BearersStayFound, BearerRunning

LEMMA BearerStepTypes ==
  ASSUME AuthInv, NEW c \in Bearer, BearerStep(c)
  PROVE  /\ bearer' \in [Bearer -> BearerState] /\ BearersStayFound
         /\ TableStep /\ clock' = clock /\ errors' \in Nat
         /\ UNCHANGED <<deviceVars, refreshing, creation>>
PROOF
  <1>t. /\ bearer \in [Bearer -> BearerState] /\ BearersFound /\ TokensHaveSessions
        /\ errors \in Nat /\ clock \in Nat /\ pats \in [PatCreation -> PatRow]
    BY DEF AuthInv, TypeOK, TablesTypeOK, SessionCallsTypeOK
  <1>u. UNCHANGED <<deviceVars, creation>>
    BY DEF BearerStep
  <1>q. Quiet => clock' = clock /\ errors' \in Nat
    BY <1>t DEF Quiet, worldVars
  <1>w. Throws => clock' = clock /\ errors' \in Nat
    BY <1>t DEF Throws
  <1>n. UNCHANGED tableVars => TableStep
    BY DEF TableStep
  <1>1. CASE \E t \in Token : FindAccessToken(c, t)
    <2>1. PICK t \in Token : FindAccessToken(c, t)
      BY <1>1
    <2> DEFINE refused == access[t].status = "revoked" \/ access[t].expires_at <= clock
               pc == IF refused THEN "done" ELSE "session"
               now == IF refused THEN 0 ELSE clock
               response == IF refused THEN "refused" ELSE ""
               doomed == AccessDead(t)
    <2>2. /\ pc \in {"done", "session", "account"} /\ now \in Nat
          /\ response \in {"", "refused"}
      BY <1>t
    <2>3. doomed \in BOOLEAN
      BY DEF AccessDead
    <2>4. bearer' = [bearer EXCEPT ![c] =
            [pc |-> pc, kind |-> "access", token |-> t, now |-> now,
             response |-> response, doomed |-> doomed]]
      BY <2>1 DEF FindAccessToken
    <2>5. access[t].status # "none" /\ UNCHANGED tableVars /\ BearerOnly
      BY <2>1 DEF FindAccessToken
    <2> HIDE DEF pc, now, response, doomed
    <2>6. bearer' \in [Bearer -> BearerState] /\ BearersStayFound
      BY <1>t, <2>2, <2>3, <2>4, <2>5, FindBearerTypes
    <2> QED
      BY <1>q, <1>u, <1>n, <2>5, <2>6 DEF BearerOnly
  <1>2. CASE \E t \in PatCreation : FindPersonalAccessToken(c, t)
    <2>1. PICK t \in PatCreation : FindPersonalAccessToken(c, t)
      BY <1>2
    <2> DEFINE refused == pats[t].status = "revoked" \/ pats[t].expires_at <= clock
               pc == IF refused THEN "done" ELSE "account"
               now == IF refused THEN 0 ELSE clock
               response == IF refused THEN "refused" ELSE ""
               doomed == PatDead(t)
    <2>2. /\ pc \in {"done", "session", "account"} /\ now \in Nat
          /\ response \in {"", "refused"}
      BY <1>t
    <2>3. doomed \in BOOLEAN
      BY DEF PatDead
    <2>4. bearer' = [bearer EXCEPT ![c] =
            [pc |-> pc, kind |-> "pat", token |-> t, now |-> now,
             response |-> response, doomed |-> doomed]]
      BY <2>1 DEF FindPersonalAccessToken
    <2>5. UNCHANGED tableVars /\ BearerOnly
      BY <2>1 DEF FindPersonalAccessToken
    <2> HIDE DEF pc, now, response, doomed
    <2>6. bearer' \in [Bearer -> BearerState] /\ BearersStayFound
      BY <1>t, <2>2, <2>3, <2>4, FindBearerTypes
    <2> QED
      BY <1>q, <1>u, <1>n, <2>5, <2>6 DEF BearerOnly
  <1>3. CASE FindBearerSession(c)
    BY <1>3, <1>t, <1>q, <1>u, <1>n, BearerAnswersTypes, BearerGoesTypes
       DEF FindBearerSession, BearerOnly, BearerRunning
  <1>4. CASE FindBearerAccount(c)
    BY <1>4, <1>t, <1>q, <1>u, <1>n, BearerAnswersTypes, BearerGoesTypes
       DEF FindBearerAccount, BearerOnly, BearerRunning
  <1>5. CASE UseBearer(c)
    BY <1>5, <1>t, <1>q, <1>u, <1>n, BearerAnswersTypes DEF UseBearer, BearerOnly
  <1>6. CASE RevokeCurrentSession(c)
    <2>1. BearerRunning(c) /\ bearer[c].kind = "access"
      BY <1>6 DEF RevokeCurrentSession, BearerRunning
    <2>2. bearer[c].token \in Token /\ access[bearer[c].token].status # "none"
      BY <1>t, <2>1 DEF BearersFound
    <2>3. AccessSession(c) \in Session /\ sessions[AccessSession(c)].status # "none"
      BY <1>t, <2>2 DEF TokensHaveSessions, Issued, AccessSession
    <2>4. TableStep
      BY <1>6, <2>3 DEF RevokeCurrentSession, TableStep, EndStep
    <2> QED
      BY <1>6, <1>t, <1>q, <1>u, <2>4, BearerAnswersTypes DEF RevokeCurrentSession, BearerOnly
  <1>7. CASE \E t \in PatCreation : RevokePersonalAccessToken(c, t)
    <2>1. PICK t \in PatCreation : RevokePersonalAccessToken(c, t)
      BY <1>7
    <2>2. PICK response \in {"refused", "revoked"} : BearerAnswers(c, response)
      BY <2>1 DEF RevokePersonalAccessToken
    <2>3. pats' \in {pats, [pats EXCEPT ![t].status = "revoked"]}
      BY <1>t, <2>1 DEF RevokePersonalAccessToken, RevokePat, PatRow
    <2>4. TableStep
      BY <2>1, <2>3 DEF RevokePersonalAccessToken, RevokePat, TableStep, PatStep
    <2> QED
      BY <1>t, <1>q, <1>u, <2>1, <2>2, <2>4, BearerAnswersTypes
         DEF RevokePersonalAccessToken, BearerOnly
  <1>8. CASE BearerFails(c)
    BY <1>8, <1>t, <1>w, <1>u, <1>n, BearerAnswersTypes DEF BearerFails
  <1> QED
    BY <1>1, <1>2, <1>3, <1>4, <1>5, <1>6, <1>7, <1>8 DEF BearerStep

-----------------------------------------------------------------------------
(* Token creations *)

LEMMA CreationAnswersTypes ==
  ASSUME creation \in [PatCreation -> CreationState], CreationsNamed, NEW c \in PatCreation,
         NEW response \in {"created", "replayed", "conflict", "error"},
         NEW token \in PatCreation \cup {{}}, CreationAnswers(c, response, token)
  PROVE  /\ creation' \in [PatCreation -> CreationState] /\ CreationsNamed'
         /\ creation'[c].pc = "done"
PROOF
  <1>1. creation[c] \in CreationState
    OBVIOUS
  <1> DEFINE next == [creation[c] EXCEPT !.pc = "done", !.found = {},
                                         !.response = response, !.token = token]
  <1>2. next \in CreationState /\ next.pc = "done"
    BY <1>1 DEF CreationState
  <1>3. creation' = [creation EXCEPT ![c] = next]
    BY DEF CreationAnswers
  <1> HIDE DEF next
  <1> QED
    BY <1>2, <1>3 DEF CreationsNamed, CreationRunning

LEMMA CreationGoesTypes ==
  ASSUME creation \in [PatCreation -> CreationState], CreationsNamed, NEW c \in PatCreation,
         CreationRunning(c), NEW pc \in {"recover", "reread", "replay"},
         NEW found \in SUBSET IdempotencyRow, CreationGoes(c, pc, found)
  PROVE  /\ creation' \in [PatCreation -> CreationState] /\ CreationsNamed'
         /\ creation'[c].pc = pc
PROOF
  <1>1. creation[c] \in CreationState
    OBVIOUS
  <1> DEFINE next == [creation[c] EXCEPT !.pc = pc, !.found = found]
  <1>2. /\ next \in CreationState /\ next.pc = pc /\ next.account = creation[c].account
        /\ next.key = creation[c].key /\ next.hash = creation[c].hash
    BY <1>1 DEF CreationState
  <1>3. creation' = [creation EXCEPT ![c] = next]
    BY DEF CreationGoes
  <1> HIDE DEF next
  <1> QED
    BY <1>2, <1>3 DEF CreationsNamed, CreationRunning

LEMMA CreationStepTypes ==
  ASSUME AuthInv, NEW c \in PatCreation, CreationStep(c)
  PROVE  /\ creation' \in [PatCreation -> CreationState] /\ CreationsNamed'
         /\ TableStep /\ clock' = clock /\ errors' \in Nat
         /\ UNCHANGED <<deviceVars, callVars>>
PROOF
  <1>t. /\ creation \in [PatCreation -> CreationState] /\ CreationsNamed
        /\ errors \in Nat /\ clock \in Nat /\ idempotency \in SUBSET IdempotencyRow
    BY DEF AuthInv, TypeOK, TablesTypeOK, CreationTypeOK
  <1>u. UNCHANGED <<deviceVars, callVars>>
    BY DEF CreationStep
  <1>q. Quiet => clock' = clock /\ errors' \in Nat
    BY <1>t DEF Quiet, worldVars
  <1>w. Throws => clock' = clock /\ errors' \in Nat
    BY <1>t DEF Throws
  <1>n. UNCHANGED tableVars => TableStep
    BY DEF TableStep
  <1>l. \A a, k, now : LiveRecords(a, k, now) \in SUBSET IdempotencyRow
    BY <1>t DEF LiveRecords
  <1>e. {} \in SUBSET IdempotencyRow
    OBVIOUS
  <1>1. CASE \E a \in Account, k \in IdempotencyKey, hash \in {"a", "b"} :
               StartCreation(c, a, k, hash)
    <2>1. PICK a \in Account, k \in IdempotencyKey, hash \in {"a", "b"} :
            StartCreation(c, a, k, hash)
      BY <1>1
    <2> DEFINE found == LiveRecords(a, k, clock)
               pc == IF found = {} THEN "insert" ELSE "replay"
               next == [NoCreation EXCEPT !.pc = pc, !.account = a, !.key = k, !.hash = hash,
                                          !.now = clock, !.found = found]
    <2>2. found \in SUBSET IdempotencyRow /\ pc \in {"insert", "replay"}
      BY <1>l
    <2>3. creation' = [creation EXCEPT ![c] = next] /\ UNCHANGED tableVars /\ Quiet
      BY <2>1 DEF StartCreation
    <2> HIDE DEF found, pc
    <2>4. /\ next \in CreationState /\ next.account = a /\ next.key = k /\ next.hash = hash
      BY <1>t, <2>2 DEF NoCreation, CreationState
    <2> HIDE DEF next
    <2>5. creation' \in [PatCreation -> CreationState] /\ CreationsNamed'
      BY <1>t, <2>3, <2>4 DEF CreationsNamed, CreationRunning
    <2> QED
      BY <1>q, <1>u, <1>n, <2>3, <2>5
  <1>2. CASE CreateIdempotently(c)
    <2>1. CreationRunning(c) /\ Quiet
      BY <1>2 DEF CreateIdempotently, CreationRunning
    <2>2. CASE CanMint(c)
      <3>1. CreationAnswers(c, "created", c) /\ Mint(c) /\ creation[c].pc = "insert"
        BY <1>2, <2>2 DEF CreateIdempotently
      <3>2. creation'[c].pc = "done"
        BY <1>t, <3>1, CreationAnswersTypes
      <3>3. TableStep
        BY <2>2, <3>1, <3>2 DEF TableStep, PatStep
      <3> QED
        BY <1>t, <1>q, <1>u, <2>1, <3>1, <3>3, CreationAnswersTypes
    <2>3. CASE ~CanMint(c)
      <3>1. CreationGoes(c, "recover", {}) /\ UNCHANGED tableVars
        BY <1>2, <2>3 DEF CreateIdempotently
      <3> QED
        BY <1>t, <1>q, <1>u, <1>n, <1>e, <2>1, <3>1, CreationGoesTypes
    <2> QED
      BY <2>2, <2>3
  <1>3. CASE CreateThrows(c)
    <2>1. CreationRunning(c) /\ Throws /\ CreationGoes(c, "recover", {})
      BY <1>3 DEF CreateThrows, CreationRunning
    <2>2. creation'[c].pc = "recover"
      BY <1>t, <1>e, <2>1, CreationGoesTypes
    <2>3. TableStep
      BY <1>3, <1>n, <2>2 DEF CreateThrows, TableStep, PatStep
    <2> QED
      BY <1>t, <1>w, <1>u, <1>e, <2>1, <2>3, CreationGoesTypes
  <1>4. CASE RecoverExisting(c)
    BY <1>4, <1>t, <1>q, <1>u, <1>n, <1>e, CreationAnswersTypes, CreationGoesTypes
       DEF RecoverExisting, CreationRunning
  <1>5. CASE FindRacedRecord(c)
    <2>1. CreationRunning(c) /\ UNCHANGED tableVars /\ Quiet /\ RecordOf(c) \in SUBSET IdempotencyRow
      BY <1>5, <1>l DEF FindRacedRecord, CreationRunning, RecordOf
    <2>2. CreationAnswers(c, "error", {}) \/ CreationGoes(c, "replay", RecordOf(c))
      BY <1>5 DEF FindRacedRecord
    <2> QED
      BY <1>t, <1>q, <1>u, <1>n, <2>1, <2>2, CreationAnswersTypes, CreationGoesTypes
  <1>6. CASE ReplayPersonalAccessToken(c)
    <2>1. PICK i \in creation[c].found :
            CreationAnswers(c, "conflict", {}) \/ CreationAnswers(c, "replayed", i.token_id)
      BY <1>6 DEF ReplayPersonalAccessToken
    <2>2. creation[c].found \in SUBSET IdempotencyRow
      BY <1>t DEF CreationState
    <2>3. i.token_id \in PatCreation
      BY <2>2 DEF IdempotencyRow
    <2> QED
      BY <1>6, <1>t, <1>q, <1>u, <1>n, <2>1, <2>3, CreationAnswersTypes
         DEF ReplayPersonalAccessToken
  <1>7. CASE CreationFails(c)
    BY <1>7, <1>t, <1>w, <1>u, <1>n, CreationAnswersTypes DEF CreationFails
  <1> QED
    BY <1>1, <1>2, <1>3, <1>4, <1>5, <1>6, <1>7 DEF CreationStep

-----------------------------------------------------------------------------
(* The tables *)

(* A statement writes rows of their types, and takes no session and no token *)
(* away; whatever it issues belongs to a session that exists.                *)
TablesKept ==
  /\ RowsOK' /\ TokensHaveSessions'
  /\ \A t \in Token : /\ refresh[t].status # "none" => refresh'[t].status # "none"
                      /\ access[t].status # "none" => access'[t].status # "none"

LEMMA CodeKeepsTables ==
  ASSUME RowsOK, TokensHaveSessions, AccountStep \/ DecisionStep \/ CodeStep \/ PatStep
  PROVE  UNCHANGED <<sessions, access, refresh>>
  BY DEF AccountStep, DecisionStep, CodeStep, PatStep, Approve, Deny, InsertAuthorization,
     RecordPoll, ExpireAuthorization, Mint, InsertPat, sessionVars

LEMMA AccountKeepsRows ==
  ASSUME RowsOK, AccountStep
  PROVE  RowsOK'
  BY DEF RowsOK, AccountStep, sessionVars, patVars

(* The row of one authorization is replaced by another row of the type. *)
LEMMA AuthorizationKeepsRows ==
  ASSUME RowsOK, NEW d \in Device, NEW row \in AuthorizationRow,
         authorizations' = [authorizations EXCEPT ![d] = row],
         UNCHANGED <<accounts, sessionVars, patVars>>
  PROVE  RowsOK'
  BY DEF RowsOK, sessionVars, patVars

LEMMA DecisionKeepsRows ==
  ASSUME RowsOK, DecisionStep
  PROVE  RowsOK'
PROOF
  <1>1. ASSUME NEW d \in Device, NEW a \in Account, NEW now \in Nat, Approve(d, a, now)
        PROVE  RowsOK'
    <2> DEFINE row == [authorizations[d] EXCEPT !.status = "approved", !.account_id = a,
                                                !.approved_at = now]
    <2>1. row \in AuthorizationRow
      BY DEF RowsOK, AuthorizationRow
    <2>2. authorizations' = [authorizations EXCEPT ![d] = row]
      BY <1>1 DEF Approve
    <2> HIDE DEF row
    <2> QED
      BY <1>1, <2>1, <2>2, AuthorizationKeepsRows DEF Approve
  <1>2. ASSUME NEW d \in Device, Deny(d)
        PROVE  RowsOK'
    <2> DEFINE row == [authorizations[d] EXCEPT !.status = "denied"]
    <2>1. row \in AuthorizationRow
      BY DEF RowsOK, AuthorizationRow
    <2>2. authorizations' = [authorizations EXCEPT ![d] = row]
      BY <1>2 DEF Deny
    <2> HIDE DEF row
    <2> QED
      BY <1>2, <2>1, <2>2, AuthorizationKeepsRows DEF Deny
  <1> QED
    BY <1>1, <1>2 DEF DecisionStep

LEMMA CodeKeepsRows ==
  ASSUME RowsOK, CodeStep
  PROVE  RowsOK'
PROOF
  <1>1. ASSUME NEW d \in Device, NEW u \in UserCode, NEW now \in Nat,
               InsertAuthorization(d, u, now)
        PROVE  RowsOK'
    <2> DEFINE row == [NoAuthorization EXCEPT !.status = "pending", !.user_code = u,
                                              !.expires_at = now + DeviceLifetime]
    <2>0. now + DeviceLifetime \in Nat
      BY LifetimesAreNat
    <2>1. row \in AuthorizationRow
      BY <2>0, NoRowTypes DEF AuthorizationRow
    <2>2. authorizations' = [authorizations EXCEPT ![d] = row]
      BY <1>1 DEF InsertAuthorization
    <2> HIDE DEF row
    <2> QED
      BY <1>1, <2>1, <2>2, AuthorizationKeepsRows DEF InsertAuthorization
  <1>2. ASSUME NEW d \in Device, NEW now \in Nat, RecordPoll(d, now)
        PROVE  RowsOK'
    <2> DEFINE row == [authorizations[d] EXCEPT !.last_polled_at = now]
    <2>1. row \in AuthorizationRow
      BY DEF RowsOK, AuthorizationRow
    <2>2. authorizations' = [authorizations EXCEPT ![d] = row]
      BY <1>2 DEF RecordPoll
    <2> HIDE DEF row
    <2> QED
      BY <1>2, <2>1, <2>2, AuthorizationKeepsRows DEF RecordPoll
  <1>3. ASSUME NEW d \in Device, ExpireAuthorization(d)
        PROVE  RowsOK'
    <2> DEFINE row == [authorizations[d] EXCEPT !.status =
                         IF @ = "pending" THEN "expired" ELSE @]
    <2>1. row \in AuthorizationRow
      BY DEF RowsOK, AuthorizationRow
    <2>2. authorizations' = [authorizations EXCEPT ![d] = row]
      BY <1>3 DEF ExpireAuthorization
    <2> HIDE DEF row
    <2> QED
      BY <1>3, <2>1, <2>2, AuthorizationKeepsRows DEF ExpireAuthorization
  <1> QED
    BY <1>1, <1>2, <1>3 DEF CodeStep

LEMMA PatKeepsRows ==
  ASSUME RowsOK, CreationsNamed, creation \in [PatCreation -> CreationState], PatStep
  PROVE  RowsOK'
PROOF
  <1>1. ASSUME NEW c \in PatCreation, creation[c].pc = "insert", Mint(c)
        PROVE  RowsOK'
    <2>1. creation[c].now \in Nat
      BY DEF CreationState
    <2>2. /\ creation[c].account \in Account /\ creation[c].key \in IdempotencyKey
          /\ creation[c].hash \in {"a", "b"}
      BY <1>1 DEF CreationsNamed, CreationRunning
    <2> DEFINE now == creation[c].now
               row == [status |-> "active", account_id |-> creation[c].account,
                       expires_at |-> now + PatLifetime]
               record == [account_id |-> creation[c].account, key |-> creation[c].key,
                          request_hash |-> creation[c].hash, token_id |-> c,
                          created_at |-> now, expires_at |-> now + Retention]
    <2>3. now + PatLifetime \in Nat /\ now + Retention \in Nat
      BY <2>1, LifetimesAreNat
    <2>4. row \in PatRow
      BY <2>2, <2>3 DEF PatRow
    <2>5. record \in IdempotencyRow
      BY <2>1, <2>2, <2>3 DEF IdempotencyRow
    <2>6. /\ pats' = [pats EXCEPT ![c] = row]
          /\ idempotency' = (idempotency \ Lapsed(now)) \cup {record}
          /\ UNCHANGED <<accounts, grantVars, sessionVars>>
      BY <1>1 DEF Mint, InsertPat
    <2> HIDE DEF row, record
    <2> QED
      BY <2>4, <2>5, <2>6 DEF RowsOK, grantVars, sessionVars
  <1>2. ASSUME NEW c \in PatCreation,
               pats' \in {pats, [pats EXCEPT ![c].status = "revoked"]},
               UNCHANGED <<accounts, grantVars, sessionVars, idempotency>>
        PROVE  RowsOK'
    <2> DEFINE row == [pats[c] EXCEPT !.status = "revoked"]
    <2>1. row \in PatRow
      BY DEF RowsOK, PatRow
    <2>2. pats' = pats \/ pats' = [pats EXCEPT ![c] = row]
      BY <1>2
    <2> HIDE DEF row
    <2> QED
      BY <1>2, <2>1, <2>2 DEF RowsOK, grantVars, sessionVars
  <1> QED
    BY <1>1, <1>2 DEF PatStep

(* The batches on sessions and their tokens. *)
LEMMA ExchangeKeepsTables ==
  ASSUME RowsOK, TokensHaveSessions, poll \in [Poll -> PollState], ExchangeStep
  PROVE  TablesKept
PROOF
  <1>1. PICK p \in Poll : poll[p].device \in Device /\ ExchangeNow(p)
    BY DEF ExchangeStep
  <1> DEFINE a == poll[p].seen.account_id
             approvedAt == poll[p].seen.approved_at
             now == poll[p].now
             until == approvedAt + SessionAbsolute
             sessionRow == [status |-> "active", account_id |-> a,
                            idle_expires_at |-> approvedAt + SessionIdle,
                            absolute_expires_at |-> until]
             accessRow == [status |-> "active", session_id |-> p,
                           expires_at |-> now + AccessLifetime]
             refreshRow == [NoRefresh EXCEPT !.status = "active", !.session_id = p,
                                             !.expires_at = until]
             codeRow == [authorizations[poll[p].device] EXCEPT !.status = "consumed"]
  <1>2. poll[p].seen \in AuthorizationRow /\ now \in Nat
    BY DEF PollState
  <1>3. a \in Account \cup {{}} /\ approvedAt \in Nat
    BY <1>2 DEF AuthorizationRow
  <1>4. approvedAt + SessionIdle \in Nat /\ until \in Nat /\ now + AccessLifetime \in Nat
    BY <1>2, <1>3, LifetimesAreNat
  <1>5. /\ authorizations' = [authorizations EXCEPT ![poll[p].device] = codeRow]
        /\ sessions' = [sessions EXCEPT ![p] = sessionRow]
        /\ access' = [access EXCEPT ![p] = accessRow]
        /\ refresh' = [refresh EXCEPT ![p] = refreshRow]
        /\ UNCHANGED <<accounts, patVars>>
    BY <1>1 DEF ExchangeNow, Exchange
  <1>6. codeRow \in AuthorizationRow
    BY <1>1 DEF RowsOK, AuthorizationRow
  <1> HIDE DEF a, approvedAt, now, until
  <1>7. sessionRow \in SessionRow /\ sessionRow.status = "active"
    BY <1>3, <1>4 DEF SessionRow
  <1>8. accessRow \in AccessRow /\ accessRow.status = "active" /\ accessRow.session_id = p
    BY <1>4 DEF AccessRow, Session
  <1>9. refreshRow \in RefreshRow /\ refreshRow.status = "active" /\ refreshRow.session_id = p
    BY <1>4 DEF RefreshRow, NoRefresh, Session
  <1> HIDE DEF sessionRow, accessRow, refreshRow, codeRow
  <1>10. RowsOK'
    BY <1>1, <1>5, <1>6, <1>7, <1>8, <1>9 DEF RowsOK, patVars, Session, Token
  <1>11. \A s \in Session : sessions[s].status # "none" => sessions'[s].status # "none"
    BY <1>5, <1>7 DEF RowsOK
  <1>12. sessions'[p].status # "none" /\ p \in Session
    BY <1>5, <1>7 DEF RowsOK, Session
  <1>13. TokensHaveSessions'
    <2> SUFFICES ASSUME NEW t \in Token
                 PROVE  /\ access'[t].status # "none" => Issued(access[t])'
                        /\ refresh'[t].status # "none" => Issued(refresh[t])'
      BY DEF TokensHaveSessions
    <2>1. CASE t = p
      BY <2>1, <1>5, <1>8, <1>9, <1>12 DEF RowsOK, Issued
    <2>2. CASE t # p
      BY <2>2, <1>5, <1>11 DEF RowsOK, Issued, TokensHaveSessions
    <2> QED
      BY <2>1, <2>2
  <1>14. \A t \in Token : /\ refresh[t].status # "none" => refresh'[t].status # "none"
                          /\ access[t].status # "none" => access'[t].status # "none"
    BY <1>5, <1>8, <1>9 DEF RowsOK
  <1> QED
    BY <1>10, <1>13, <1>14 DEF TablesKept

LEMMA RotationKeepsTables ==
  ASSUME RowsOK, TokensHaveSessions, refreshing \in [Refresh -> RefreshState], RotationStep
  PROVE  TablesKept
PROOF
  <1>1. PICK r \in Refresh : /\ Presented(r) \in Token
                             /\ Rotatable(Presented(r), refreshing[r].now)
                             /\ Rotate(Presented(r), r, refreshing[r].now)
    BY DEF RotationStep
  <1> DEFINE t == Presented(r)
             now == refreshing[r].now
             s == refresh[t].session_id
             sessionRow == [sessions[s] EXCEPT !.idle_expires_at = now + SessionIdle]
             accessRow == [status |-> "active", session_id |-> s,
                           expires_at |-> now + AccessLifetime]
             usedRow == [refresh[t] EXCEPT !.status = "used", !.replaced_by = r]
             refreshRow == [status |-> "active", session_id |-> s, parent |-> t,
                            replaced_by |-> {},
                            expires_at |-> sessions[s].absolute_expires_at]
  <1>2. t \in Token /\ r \in Token /\ now \in Nat
    BY <1>1 DEF RefreshState, Token
  <1>3. refresh[t] \in RefreshRow /\ refresh[t].status = "active"
    BY <1>1, <1>2 DEF RowsOK, Rotatable
  <1>4. s \in Session /\ sessions[s].status # "none"
    BY <1>2, <1>3 DEF TokensHaveSessions, Issued
  <1>5. sessions[s] \in SessionRow
    BY <1>4 DEF RowsOK
  <1>6. now + SessionIdle \in Nat /\ now + AccessLifetime \in Nat
    BY <1>2, LifetimesAreNat
  <1>7. /\ sessions' = [sessions EXCEPT ![s] = sessionRow]
        /\ access' = [access EXCEPT ![r] = accessRow]
        /\ refresh' = [refresh EXCEPT ![t].status = "used", ![t].replaced_by = r,
                                      ![r] = refreshRow]
        /\ UNCHANGED <<accounts, grantVars, patVars>>
    BY <1>1 DEF Rotate
  <1>8. sessionRow \in SessionRow /\ sessionRow.status # "none"
    BY <1>4, <1>5, <1>6 DEF SessionRow
  <1>9. usedRow \in RefreshRow /\ usedRow.status = "used" /\ usedRow.session_id = s
    BY <1>2, <1>3 DEF RefreshRow
  <1>10. /\ refreshRow \in RefreshRow /\ refreshRow.status = "active"
         /\ refreshRow.session_id = s
    BY <1>2, <1>4, <1>5 DEF RefreshRow, SessionRow
  <1>11. accessRow \in AccessRow /\ accessRow.status = "active" /\ accessRow.session_id = s
    BY <1>4, <1>6 DEF AccessRow
  <1>12. refresh' = [u \in Token |-> IF u = r THEN refreshRow
                                     ELSE IF u = t THEN usedRow ELSE refresh[u]]
    BY <1>2, <1>7 DEF RowsOK
  <1> HIDE DEF t, now, s, sessionRow, accessRow, usedRow, refreshRow
  <1>13. RowsOK'
    BY <1>2, <1>4, <1>7, <1>8, <1>9, <1>10, <1>11, <1>12 DEF RowsOK, grantVars, patVars
  <1>14. \A u \in Session : sessions[u].status # "none" => sessions'[u].status # "none"
    BY <1>7, <1>8 DEF RowsOK
  <1>15. TokensHaveSessions'
    <2> SUFFICES ASSUME NEW u \in Token
                 PROVE  /\ access'[u].status # "none" => Issued(access[u])'
                        /\ refresh'[u].status # "none" => Issued(refresh[u])'
      BY DEF TokensHaveSessions
    <2>1. access'[u].status # "none" => Issued(access[u])'
      <3>1. CASE u = r
        BY <3>1, <1>2, <1>4, <1>7, <1>11, <1>14 DEF RowsOK, Issued
      <3>2. CASE u # r
        BY <3>2, <1>7, <1>14 DEF RowsOK, Issued, TokensHaveSessions
      <3> QED
        BY <3>1, <3>2
    <2>2. refresh'[u].status # "none" => Issued(refresh[u])'
      <3>1. CASE u = r
        BY <3>1, <1>4, <1>10, <1>12, <1>14 DEF Issued
      <3>2. CASE u # r /\ u = t
        BY <3>2, <1>4, <1>9, <1>12, <1>14 DEF Issued
      <3>3. CASE u # r /\ u # t
        BY <3>3, <1>12, <1>14 DEF Issued, TokensHaveSessions
      <3> QED
        BY <3>1, <3>2, <3>3
    <2> QED
      BY <2>1, <2>2
  <1>16. \A u \in Token : /\ refresh[u].status # "none" => refresh'[u].status # "none"
                          /\ access[u].status # "none" => access'[u].status # "none"
    BY <1>7, <1>9, <1>10, <1>11, <1>12 DEF RowsOK
  <1> QED
    BY <1>13, <1>15, <1>16 DEF TablesKept

LEMMA EndKeepsTables ==
  ASSUME RowsOK, TokensHaveSessions, EndStep
  PROVE  TablesKept
PROOF
  <1>1. PICK s \in Session, status \in {"revoked", "compromised"} :
          /\ sessions[s].status # "none"
          /\ sessions' = [sessions EXCEPT ![s].status = status]
          /\ RevokeTokensOf(s) /\ UNCHANGED <<accounts, grantVars, patVars>>
    BY DEF EndStep, CompromiseSession, RevokeSession
  <1> DEFINE row == [sessions[s] EXCEPT !.status = status]
  <1>2. row \in SessionRow /\ row.status = status
    BY DEF RowsOK, SessionRow
  <1>3. sessions' = [sessions EXCEPT ![s] = row]
    BY <1>1
  <1> HIDE DEF row
  <1>4. \A t \in Token :
          /\ [access[t] EXCEPT !.status = "revoked"] \in AccessRow
          /\ [refresh[t] EXCEPT !.status = "revoked"] \in RefreshRow
    BY DEF RowsOK, AccessRow, RefreshRow
  <1>5. access' \in [Token -> AccessRow] /\ refresh' \in [Token -> RefreshRow]
    BY <1>1, <1>4 DEF RowsOK, RevokeTokensOf
  <1>6. RowsOK'
    BY <1>1, <1>2, <1>3, <1>5 DEF RowsOK, grantVars, patVars
  <1>7. \A u \in Session : sessions[u].status # "none" => sessions'[u].status # "none"
    BY <1>1, <1>2, <1>3 DEF RowsOK
  <1>8. sessions'[s].status # "none"
    BY <1>2, <1>3 DEF RowsOK
  <1>9. ASSUME NEW t \in Token
        PROVE  /\ access'[t].session_id = access[t].session_id
               /\ refresh'[t].session_id = refresh[t].session_id
               /\ access'[t].status # access[t].status =>
                    access[t].session_id = s /\ access'[t].status = "revoked"
               /\ refresh'[t].status # refresh[t].status =>
                    refresh[t].session_id = s /\ refresh'[t].status = "revoked"
    <2>1. access[t] \in AccessRow /\ refresh[t] \in RefreshRow
      BY DEF RowsOK
    <2> QED
      BY <1>1, <2>1 DEF RevokeTokensOf, AccessRow, RefreshRow
  <1>10. TokensHaveSessions'
    BY <1>7, <1>8, <1>9 DEF TokensHaveSessions, Issued
  <1> QED
    BY <1>6, <1>9, <1>10 DEF TablesKept

LEMMA TableStepKeeps ==
  ASSUME AuthInv, TableStep
  PROVE  TablesKept
PROOF
  <1>1. RowsOK /\ TokensHaveSessions /\ poll \in [Poll -> PollState]
        /\ refreshing \in [Refresh -> RefreshState] /\ CreationsNamed
        /\ creation \in [PatCreation -> CreationState]
    BY DEF AuthInv, TypeOK, TablesTypeOK, DeviceTypeOK, SessionCallsTypeOK, CreationTypeOK, RowsOK
  <1>2. UNCHANGED <<sessions, access, refresh>> /\ RowsOK' => TablesKept
    BY <1>1 DEF TablesKept, TokensHaveSessions, Issued
  <1>3. CASE UNCHANGED tableVars
    BY <1>1, <1>2, <1>3 DEF tableVars, RowsOK
  <1>4. CASE AccountStep \/ DecisionStep \/ CodeStep \/ PatStep
    BY <1>1, <1>2, <1>4, CodeKeepsTables, AccountKeepsRows, DecisionKeepsRows, CodeKeepsRows,
       PatKeepsRows
  <1>5. CASE ExchangeStep
    BY <1>1, <1>5, ExchangeKeepsTables
  <1>6. CASE RotationStep
    BY <1>1, <1>6, RotationKeepsTables
  <1>7. CASE EndStep
    BY <1>1, <1>7, EndKeepsTables
  <1> QED
    BY <1>3, <1>4, <1>5, <1>6, <1>7 DEF TableStep

-----------------------------------------------------------------------------
(* Every step *)

(* A step is one statement of one call, the clock, or an operator. *)
LEMMA NextTakesTableStep ==
  ASSUME AuthInv, [Next]_vars
  PROVE  /\ TableStep /\ clock' \in Nat /\ errors' \in Nat
         /\ DeviceTypeOK' /\ SessionCallsTypeOK' /\ CreationTypeOK'
         /\ PollsFound' /\ DecisionsFound' /\ CreationsNamed'
         /\ RefreshesStayFound /\ BearersStayFound
PROOF
  <1>t. /\ clock \in Nat /\ errors \in Nat
        /\ DeviceTypeOK /\ SessionCallsTypeOK /\ CreationTypeOK
        /\ PollsFound /\ DecisionsFound /\ CreationsNamed
        /\ RefreshesFound /\ BearersFound
    BY DEF AuthInv, TypeOK, TablesTypeOK
  <1>n. UNCHANGED tableVars => TableStep
    BY DEF TableStep
  <1>d. UNCHANGED deviceVars => DeviceTypeOK' /\ PollsFound' /\ DecisionsFound'
    BY <1>t DEF deviceVars, DeviceTypeOK, PollsFound, DecisionsFound, PollRunning
  <1>r. UNCHANGED refreshing =>
          refreshing' \in [Refresh -> RefreshState] /\ RefreshesStayFound
    BY <1>t DEF SessionCallsTypeOK, RefreshesFound, RefreshesStayFound, RefreshRunning, Presented
  <1>b. UNCHANGED bearer => bearer' \in [Bearer -> BearerState] /\ BearersStayFound
    BY <1>t DEF SessionCallsTypeOK, BearersFound, BearersStayFound, BearerRunning
  <1>c. UNCHANGED creation => CreationTypeOK' /\ CreationsNamed'
    BY <1>t DEF CreationTypeOK, CreationsNamed, CreationRunning
  <1>1. CASE Tick
    BY <1>1, <1>t, <1>n, <1>d, <1>r, <1>b, <1>c DEF Tick, callVars, SessionCallsTypeOK
  <1>2. CASE \E a \in Account : DisableAccount(a)
    <2>1. AccountStep /\ UNCHANGED <<worldVars, deviceVars, callVars, creation>>
      BY <1>2 DEF DisableAccount, AccountStep
    <2> QED
      BY <2>1, <1>t, <1>d, <1>r, <1>b, <1>c
         DEF TableStep, worldVars, callVars, SessionCallsTypeOK
  <1>3. CASE GrantStep
    BY <1>3, <1>t, <1>r, <1>b, <1>c, GrantStepTypes
       DEF callVars, SessionCallsTypeOK, DeviceTypeOK, PollsFound, PollRunning
  <1>4. CASE \E p \in Poll : PollStep(p)
    BY <1>4, <1>t, <1>r, <1>b, <1>c, PollStepTypes
       DEF callVars, SessionCallsTypeOK, DeviceTypeOK, DecisionsFound
  <1>5. CASE \E r \in Refresh : RefreshStep(r)
    BY <1>5, <1>t, <1>d, <1>b, <1>c, RefreshStepTypes DEF SessionCallsTypeOK
  <1>6. CASE \E c \in Bearer : BearerStep(c)
    BY <1>6, <1>t, <1>d, <1>r, <1>c, BearerStepTypes DEF SessionCallsTypeOK
  <1>7. CASE \E c \in PatCreation : CreationStep(c)
    BY <1>7, <1>t, <1>d, <1>r, <1>b, CreationStepTypes
       DEF callVars, SessionCallsTypeOK, CreationTypeOK
  <1>8. CASE UNCHANGED vars
    BY <1>8, <1>t, <1>n, <1>d, <1>r, <1>b, <1>c DEF vars, worldVars, callVars, SessionCallsTypeOK
  <1> QED
    BY <1>1, <1>2, <1>3, <1>4, <1>5, <1>6, <1>7, <1>8 DEF Next

LEMMA NextKeepsInv ==
  ASSUME AuthInv, [Next]_vars
  PROVE  AuthInv'
PROOF
  <1>1. /\ TableStep /\ clock' \in Nat /\ errors' \in Nat
        /\ DeviceTypeOK' /\ SessionCallsTypeOK' /\ CreationTypeOK'
        /\ PollsFound' /\ DecisionsFound' /\ CreationsNamed'
        /\ RefreshesStayFound /\ BearersStayFound
    BY NextTakesTableStep
  <1>2. TablesKept
    BY <1>1, TableStepKeeps
  <1>3. TypeOK'
    BY <1>1, <1>2 DEF TypeOK, TablesTypeOK, TablesKept, RowsOK
  <1>4. RefreshesFound' /\ BearersFound'
    BY <1>1, <1>2 DEF RefreshesFound, RefreshesStayFound, BearersFound, BearersStayFound, TablesKept
  <1> QED
    BY <1>1, <1>2, <1>3, <1>4 DEF AuthInv, TablesKept

LEMMA AuthInvariant == Spec => []AuthInv
PROOF
  <1>1. AuthInv /\ [Next]_vars => AuthInv'
    BY NextKeepsInv
  <1> QED
    BY <1>1, InitInv, PTL DEF Spec

(* Every identity table and every call on it keeps its type in every          *)
(* interleaving of device grants, refreshes, bearer calls, token creations,   *)
(* errors and disabled accounts (the tables of D1AuthDomainRepository): a     *)
(* call only ever works on a row it has found.                                *)
THEOREM AuthTypeCorrect == Spec => []TypeOK
PROOF
  <1>1. AuthInv => TypeOK
    BY DEF AuthInv
  <1> QED
    BY <1>1, AuthInvariant, PTL

-----------------------------------------------------------------------------
(* Decisions on a device code *)

Decided(d) == authorizations[d].status \notin {"none", "pending"}
StaysDecided(d) ==
  /\ \/ authorizations'[d].status = authorizations[d].status
     \/ authorizations[d].status = "approved" /\ authorizations'[d].status = "consumed"
  /\ authorizations'[d].account_id = authorizations[d].account_id

LEMMA TableStepDecides ==
  ASSUME AuthInv, TableStep, NEW d \in Device, Decided(d)
  PROVE  StaysDecided(d)
PROOF
  <1>t. authorizations \in [Device -> AuthorizationRow]
    BY DEF AuthInv, TypeOK, TablesTypeOK
  <1>n. authorizations' = authorizations => StaysDecided(d)
    BY DEF StaysDecided
  <1>1. CASE UNCHANGED tableVars \/ AccountStep \/ RotationStep \/ EndStep \/ PatStep
    BY <1>1, <1>n DEF tableVars, AccountStep, RotationStep, Rotate, EndStep, CompromiseSession,
       RevokeSession, PatStep, Mint, InsertPat, grantVars
  <1>2. CASE DecisionStep
    BY <1>2, <1>t DEF DecisionStep, Decidable, StillPending, Approve, Deny, Decided, StaysDecided
  <1>3. CASE CodeStep
    <2>1. ASSUME NEW e \in Device, NEW u \in UserCode, NEW now \in Nat,
                 authorizations[e].status = "none", InsertAuthorization(e, u, now)
          PROVE  StaysDecided(d)
      BY <2>1, <1>t DEF InsertAuthorization, Decided, StaysDecided
    <2>2. ASSUME NEW e \in Device, NEW now \in Nat, RecordPoll(e, now)
          PROVE  StaysDecided(d)
      BY <2>2, <1>t DEF RecordPoll, StaysDecided, AuthorizationRow
    <2>3. ASSUME NEW e \in Device, ExpireAuthorization(e)
          PROVE  StaysDecided(d)
      BY <2>3, <1>t DEF ExpireAuthorization, Decided, StaysDecided, AuthorizationRow
    <2> QED
      BY <1>3, <2>1, <2>2, <2>3 DEF CodeStep
  <1>4. CASE ExchangeStep
    <2>1. PICK p \in Poll : poll[p].device \in Device /\ CanExchange(p) /\ ExchangeNow(p)
      BY <1>4 DEF ExchangeStep
    <2>2. /\ authorizations[poll[p].device].status = "approved"
          /\ authorizations' = [authorizations EXCEPT ![poll[p].device].status = "consumed"]
      BY <2>1 DEF CanExchange, Exchangeable, ExchangeNow, Exchange
    <2> QED
      BY <2>1, <2>2, <1>t DEF StaysDecided, AuthorizationRow
  <1> QED
    BY <1>1, <1>2, <1>3, <1>4 DEF TableStep

(* Once a device code was approved, denied, expired or consumed, no browser   *)
(* decision, poll, expiry or exchange changes that, except that an approved   *)
(* code is consumed, and its account stays (exchangeDeviceAuthorization,      *)
(* approveDeviceAuthorization and denyDeviceAuthorization ask again in their  *)
(* WHERE whatever their callers read).                                        *)
THEOREM DecisionsStand == Spec => DecisionsAreFinal
PROOF
  <1>1. AuthInv /\ [Next]_vars =>
          [\A d \in Device :
             LET was == authorizations[d] IN LET is == authorizations'[d] IN
             was.status \notin {"none", "pending"} =>
               /\ \/ is.status = was.status
                  \/ was.status = "approved" /\ is.status = "consumed"
               /\ is.account_id = was.account_id]_vars
    BY NextTakesTableStep, TableStepDecides DEF Decided, StaysDecided
  <1> QED
    BY <1>1, AuthInvariant, PTL DEF Spec, DecisionsAreFinal

-----------------------------------------------------------------------------
(* What an ended session holds *)

Ended(s) == sessions[s].status \in {"revoked", "compromised"}

LEMMA TableStepEnds ==
  ASSUME AuthInv, EndedSessionsHoldNothing, TableStep
  PROVE  EndedSessionsHoldNothing'
PROOF
  <1>t. /\ sessions \in [Session -> SessionRow] /\ access \in [Token -> AccessRow]
        /\ refresh \in [Token -> RefreshRow] /\ RowsOK /\ TokensHaveSessions
        /\ refreshing \in [Refresh -> RefreshState]
    BY DEF AuthInv, TypeOK, TablesTypeOK, SessionCallsTypeOK, RowsOK
  <1>n. UNCHANGED <<sessions, access, refresh>> => EndedSessionsHoldNothing'
    BY DEF EndedSessionsHoldNothing
  <1>1. CASE UNCHANGED tableVars
    BY <1>1, <1>n DEF tableVars
  <1>2. CASE AccountStep \/ DecisionStep \/ CodeStep \/ PatStep
    BY <1>2, <1>n, <1>t, CodeKeepsTables
  <1> SUFFICES ASSUME NEW t \in Token, NEW s \in Session, Ended(s)',
                      ExchangeStep \/ RotationStep \/ EndStep
               PROVE  /\ access'[t].session_id = s => access'[t].status = "revoked"
                      /\ refresh'[t].session_id = s => refresh'[t].status = "revoked"
    BY <1>1, <1>2 DEF TableStep, EndedSessionsHoldNothing, Ended
  <1>3. CASE ExchangeStep
    <2>1. PICK p \in Poll : ExchangeNow(p)
      BY <1>3 DEF ExchangeStep
    <2>2. sessions'[p].status = "active"
      BY <2>1, <1>t DEF ExchangeNow, Exchange, Session
    <2>3. s # p /\ sessions'[s] = sessions[s]
      BY <2>1, <2>2, <1>t DEF Ended, ExchangeNow, Exchange
    <2>4. CASE t = p
      <3>1. access'[t].session_id = p /\ refresh'[t].session_id = p
        BY <2>1, <2>4, <1>t DEF ExchangeNow, Exchange, NoRefresh
      <3> QED
        BY <2>3, <3>1
    <2>5. CASE t # p
      <3>1. access'[t] = access[t] /\ refresh'[t] = refresh[t]
        BY <2>1, <2>5, <1>t DEF ExchangeNow, Exchange
      <3> QED
        BY <2>3, <3>1 DEF EndedSessionsHoldNothing, Ended
    <2> QED
      BY <2>4, <2>5
  <1>4. CASE RotationStep
    <2>1. PICK r \in Refresh : /\ Presented(r) \in Token
                               /\ Rotatable(Presented(r), refreshing[r].now)
                               /\ Rotate(Presented(r), r, refreshing[r].now)
      BY <1>4 DEF RotationStep
    <2> DEFINE u == Presented(r)
               mine == refresh[u].session_id
    <2>2. sessions[mine].status = "active" /\ refresh[u].status = "active"
      BY <2>1 DEF Rotatable
    <2>3. mine \in Session
      BY <2>1, <2>2, <1>t DEF TokensHaveSessions, Issued
    <2>4. \A v \in Session : sessions'[v].status = sessions[v].status
      BY <2>1, <2>3, <1>t DEF Rotate, SessionRow
    <2>5. s # mine /\ Ended(s)
      BY <2>2, <2>4 DEF Ended
    <2>6. access'[t] = access[t] \/ access'[t].session_id = mine
      BY <2>1, <1>t DEF Rotate
    <2>7. refresh'[t] = refresh[t] \/ refresh'[t].session_id = mine
      BY <2>1, <1>t DEF Rotate, RefreshRow
    <2> QED
      BY <2>5, <2>6, <2>7 DEF EndedSessionsHoldNothing, Ended
  <1>5. CASE EndStep
    <2>1. PICK e \in Session, status \in {"revoked", "compromised"} :
            /\ sessions' = [sessions EXCEPT ![e].status = status] /\ RevokeTokensOf(e)
      BY <1>5 DEF EndStep, CompromiseSession, RevokeSession
    <2>2. access[t] \in AccessRow /\ refresh[t] \in RefreshRow
      BY <1>t
    <2>3. CASE s = e
      BY <2>1, <2>2, <2>3 DEF RevokeTokensOf, AccessRow, RefreshRow
    <2>4. CASE s # e
      <3>1. Ended(s)
        BY <2>1, <2>4, <1>t DEF Ended
      <3> QED
        BY <2>1, <2>2, <2>4, <3>1
           DEF EndedSessionsHoldNothing, Ended, RevokeTokensOf, AccessRow, RefreshRow
    <2> QED
      BY <2>3, <2>4
  <1> QED
    BY <1>3, <1>4, <1>5

(* compromiseCliSession and revokeCliSession: however many refreshes are in  *)
(* flight when a session is ended, no token of it works and none is issued   *)
(* afterwards, because rotateRefreshToken asks for the session again.        *)
THEOREM EndedSessionsStayEmpty == Spec => []EndedSessionsHoldNothing
PROOF
  <1>1. Init => EndedSessionsHoldNothing
    BY DEF Init, TablesInit, EndedSessionsHoldNothing, NoSession
  <1>2. AuthInv /\ EndedSessionsHoldNothing /\ [Next]_vars => EndedSessionsHoldNothing'
    BY NextTakesTableStep, TableStepEnds
  <1> QED
    BY <1>1, <1>2, AuthInvariant, PTL DEF Spec
=============================================================================
