----------------------------- MODULE DeviceGrant -----------------------------
(***************************************************************************)
(* The device authorization grant: createDeviceAuthorization and           *)
(* pollDeviceAuthorizationToken in the API worker, and the page in the web *)
(* worker on which a signed-in user approves or denies.  A poll reads the  *)
(* row once and acts on what it read; the statements that write ask again. *)
(***************************************************************************)
EXTENDS AuthStore

CONSTANTS
  Decision,           \* visits of /device followed by a POST
  CodeAttempts        \* USER_CODE_GENERATION_ATTEMPTS

ASSUME AttemptAssumption == CodeAttempts \in Nat \ {0}

VARIABLES
  attempts,           \* user codes each creation has tried in vain
  poll,               \* the state of each poll
  decision            \* the state of each visit

deviceVars == <<attempts, poll, decision>>

PollState ==
  [pc : {"idle", "record", "expire", "account", "exchange", "recheck", "done"},
   device : Device \cup {{}}, now : Nat, seen : AuthorizationRow,
   response : {"", "slow_down", "denied", "expired", "consumed", "pending",
               "disabled", "tokens", "error"}]
DecisionState ==
  [pc : {"idle", "signin", "page", "decide", "done"}, device : Device \cup {{}},
   claimed : Nat,      \* expires_at in the continuation or the CSRF token
   account : Account \cup {{}}, verdict : {"", "approve", "deny"}]

DeviceTypeOK ==
  /\ attempts \in [Device -> 0..CodeAttempts]
  /\ poll \in [Poll -> PollState]
  /\ decision \in [Decision -> DecisionState]

NoPoll == [pc |-> "idle", device |-> {}, now |-> 0, seen |-> NoAuthorization,
           response |-> ""]
NoDecision == [pc |-> "idle", device |-> {}, claimed |-> 0, account |-> {}, verdict |-> ""]

DeviceInit ==
  /\ attempts = [d \in Device |-> 0]
  /\ poll = [p \in Poll |-> NoPoll]
  /\ decision = [b \in Decision |-> NoDecision]

PollRunning(p) == poll[p].pc \notin {"idle", "done"}
PollGoes(p, pc) == poll' = [poll EXCEPT ![p].pc = pc]
PollAnswers(p, response) ==
  poll' = [poll EXCEPT ![p] = [NoPoll EXCEPT !.pc = "done", !.device = poll[p].device,
                                             !.response = response]]
PollOnly == UNCHANGED <<attempts, decision>> /\ Quiet

-----------------------------------------------------------------------------
(* POST /v1/auth/device/code *)

MutantCreateDeviceAuthorization(d, u) ==    \* the loop has no end
  /\ authorizations[d].status = "none"
  /\ IF UserCodeTaken(u)
     THEN attempts' = [attempts EXCEPT ![d] = @ + 1] /\ UNCHANGED tableVars
     ELSE InsertAuthorization(d, u, clock) /\ UNCHANGED attempts
  /\ UNCHANGED <<poll, decision>> /\ Quiet

\* One round of the loop: INSERT ... ON CONFLICT(user_code_hash) DO NOTHING.
CreateDeviceAuthorization(d, u) ==
  /\ authorizations[d].status = "none" /\ attempts[d] < CodeAttempts
  /\ IF UserCodeTaken(u)
     THEN attempts' = [attempts EXCEPT ![d] = @ + 1] /\ UNCHANGED tableVars
     ELSE InsertAuthorization(d, u, clock) /\ UNCHANGED attempts
  /\ UNCHANGED <<poll, decision>> /\ Quiet

-----------------------------------------------------------------------------
(* POST /v1/auth/device/token *)

\* now is the Date the handler took when the request came in.
FindByDeviceCode(p, d, now) ==
  /\ poll[p].pc = "idle" /\ authorizations[d].status # "none"
  /\ poll' = [poll EXCEPT ![p] = [NoPoll EXCEPT !.pc = "record", !.device = d,
                                   !.now = now, !.seen = authorizations[d]]]
  /\ UNCHANGED tableVars /\ PollOnly

\* What the row read before the poll was recorded says.  A user may have
\* approved after the request came in and before the row was read; the use case
\* takes that for an invalid timestamp.
Proceed(p) ==
  LET seen == poll[p].seen IN
  CASE seen.status \in {"denied", "expired", "consumed"} -> PollAnswers(p, seen.status)
    [] seen.status \in {"pending", "approved"} /\ seen.expires_at <= poll[p].now ->
         PollGoes(p, "expire")
    [] seen.status = "pending" /\ seen.expires_at > poll[p].now ->
         PollAnswers(p, "pending")
    [] seen.status = "approved" /\ seen.expires_at > poll[p].now ->
         IF seen.approved_at > poll[p].now THEN PollAnswers(p, "error")
                                           ELSE PollGoes(p, "account")

RecordDevicePoll(p) ==
  LET d == poll[p].device IN
  /\ poll[p].pc = "record"
  /\ IF PollAllowed(d, poll[p].now)
     THEN RecordPoll(d, poll[p].now) /\ Proceed(p)
     ELSE PollAnswers(p, "slow_down") /\ UNCHANGED tableVars
  /\ PollOnly

ExpireOnPoll(p) ==
  /\ poll[p].pc = "expire"
  /\ ExpireAuthorization(poll[p].device)
  /\ PollAnswers(p, "expired") /\ PollOnly

FindApprover(p) ==
  /\ poll[p].pc = "account"
  /\ IF accounts[poll[p].seen.account_id] = "disabled"
     THEN PollAnswers(p, "disabled") ELSE PollGoes(p, "exchange")
  /\ UNCHANGED tableVars /\ PollOnly

ExchangeNow(p) ==
  Exchange(poll[p].device, p, poll[p].seen.account_id, poll[p].seen.approved_at, poll[p].now)
CanExchange(p) ==
  Exchangeable(poll[p].device, poll[p].seen.account_id, poll[p].now)

\* The last statement of the batch reads the row to explain a refusal.
ExchangeRefusal(p) ==
  LET row == authorizations[poll[p].device]
      a == poll[p].seen.account_id IN
  IF /\ row.status = "approved" /\ row.account_id = a
     /\ row.expires_at > poll[p].now /\ accounts[a] # "active"
  THEN "disabled" ELSE "consumed"

ExchangeForSession(p) ==
  /\ poll[p].pc = "exchange"
  /\ IF CanExchange(p)
     THEN ExchangeNow(p) /\ PollAnswers(p, "tokens")
     ELSE PollAnswers(p, ExchangeRefusal(p)) /\ UNCHANGED tableVars
  /\ PollOnly

\* The batch throws, whether it was committed or not; the row is read again.
ExchangeThrows(p) ==
  /\ poll[p].pc = "exchange" /\ Throws
  /\ (CanExchange(p) /\ ExchangeNow(p)) \/ UNCHANGED tableVars
  /\ PollGoes(p, "recheck") /\ UNCHANGED <<attempts, decision>>

RecheckConsumed(p) ==
  /\ poll[p].pc = "recheck"
  /\ PollAnswers(p, IF authorizations[poll[p].device].status = "consumed"
                    THEN "consumed" ELSE "error")
  /\ UNCHANGED tableVars /\ PollOnly

PollFails(p) ==
  /\ poll[p].pc \in {"record", "expire", "account", "recheck"} /\ Throws
  /\ PollAnswers(p, "error") /\ UNCHANGED <<tableVars, attempts, decision>>

-----------------------------------------------------------------------------
(* GET /device, then POST /device/approve or /device/deny *)

DecisionGoes(b, pc) == decision' = [decision EXCEPT ![b].pc = pc]
DecisionOnly == UNCHANGED <<attempts, poll>> /\ Quiet

\* What the continuation cookie or the CSRF token carries has lapsed.
ClaimExpired(b) == decision[b].claimed <= clock

OpenPage(b, pc, d, a) ==
  decision' = [decision EXCEPT ![b] =
    [NoDecision EXCEPT !.pc = pc, !.device = d, !.account = a,
                       !.claimed = authorizations[d].expires_at]]

\* A visitor who is not signed in gets a continuation cookie instead.
AskToSignIn(b, d) ==
  /\ decision[b].pc = "idle" /\ StillPending(d, clock)
  /\ OpenPage(b, "signin", d, {})
  /\ UNCHANGED tableVars /\ DecisionOnly

\* The page carries a CSRF token.
ShowApprovalPage(b, d, a) ==
  /\ \/ decision[b].pc = "idle"
     \/ decision[b].pc = "signin" /\ decision[b].device = d /\ ~ClaimExpired(b)
  /\ StillPending(d, clock) /\ accounts[a] = "active"
  /\ OpenPage(b, "page", d, a)
  /\ UNCHANGED tableVars /\ DecisionOnly

SubmitDecision(b, verdict) ==
  LET refused == \/ ClaimExpired(b)
                 \/ verdict = "approve" /\ accounts[decision[b].account] = "disabled"
  IN /\ decision[b].pc = "page"
     /\ decision' = [decision EXCEPT ![b].pc = IF refused THEN "done" ELSE "decide",
                                     ![b].verdict = verdict]
     /\ UNCHANGED tableVars /\ DecisionOnly

\* approveDeviceAuthorization and denyDeviceAuthorization, with the time of
\* the statement.
MayDecide(b) ==
  /\ Decidable(decision[b].device, clock)
  /\ decision[b].verdict = "approve" => accounts[decision[b].account] = "active"

Decide(b) ==
  /\ decision[b].pc = "decide"
  /\ IF ~MayDecide(b) THEN UNCHANGED tableVars
     ELSE IF decision[b].verdict = "approve"
     THEN Approve(decision[b].device, decision[b].account, clock)
     ELSE Deny(decision[b].device)
  /\ DecisionGoes(b, "done") /\ DecisionOnly
=============================================================================
