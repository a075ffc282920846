------------------------------- MODULE CliAuth -------------------------------
(***************************************************************************)
(* Several processes of the command line client on one credential: calls   *)
(* of the API that refresh the access token, auth login and auth logout.   *)
(* What they read and write is CredentialStore, under the lock of FileLock;*)
(* the server they talk to is AuthMemory, each request one step of it.     *)
(***************************************************************************)
EXTENDS CredentialStore

CONSTANTS
  First,              \* the session the user is signed in with
  DeviceLifetime, AccessLifetime, SessionIdle, SessionAbsolute,
  RefreshWindow,      \* REFRESH_WINDOW_MILLISECONDS, in ticks
  LastTick            \* bound: the clock stops here

ASSUME FirstAssumption == First \in Session
ASSUME TimeAssumption ==
  /\ {DeviceLifetime, AccessLifetime, SessionIdle, SessionAbsolute,
      RefreshWindow, LastTick} \subseteq Nat
  /\ AccessLifetime > 0 /\ SessionIdle > 0

VARIABLES
  lockFile, waiting, dead,
  sessions, access, refresh,                  \* the server's tables
  accounts, authorizations, pats, idempotency,
  proc,               \* the state of each process
  forgotten,          \* history: sessions the user logged out of or replaced
  clock

Lock == INSTANCE FileLock
Server == INSTANCE AuthMemory WITH
  Account <- {"user"}, Device <- Session, UserCode <- {}, Poll <- Session,
  Refresh <- Process, PatCreation <- {}, IdempotencyKey <- {},
  PollInterval <- 1, PatLifetime <- 1, Retention <- 1,
  Time <- 0..LastTick

lockVars   == <<lockFile, waiting, dead>>
storeVars  == <<keyring, plaintext, call, faults>>
serverVars == <<sessions, access, refresh, accounts, authorizations, pats, idempotency>>
vars == <<lockVars, storeVars, serverVars, proc, forgotten, clock>>

ProcState ==
  [cmd : {"", "call", "logout", "revoke", "login", "insecure"},
   pc : {"idle", "lock", "resolve", "renew", "refresh", "save", "unsaved", "discard",
         "use", "retry", "read", "clear", "clearing", "validate", "persist",
         "persisting", "cleanup", "release", "done", "dead"},
   goal : {"", "resolve", "renew", "read", "clear", "persist"},
   next : {"", "use", "retry", "clear", "cleanup", "done"},
   credential : Credential, using : Token \cup {{}}, displaced : Session \cup {{}}]

NoProc == [cmd |-> "", pc |-> "idle", goal |-> "", next |-> "",
           credential |-> NoCredential, using |-> {}, displaced |-> {}]

CredentialOf(s, t, now) == [session |-> s, token |-> t, expires |-> now + AccessLifetime]

\* The user is signed in, with the credential in either place; the codes of
\* the sessions to come will be approved.
Init ==
  /\ \/ keyring = CredentialOf(First, First, 0) /\ plaintext \in {NoFile, File("invalid", NoCredential)}
     \/ keyring = NoCredential /\ plaintext = File("credential", CredentialOf(First, First, 0))
  /\ call = [p \in Process |-> NoCall]
  /\ faults = [k \in {"crash", "lost", "store"} |-> 0]
  /\ Lock!LockInit
  /\ accounts = [a \in {"user"} |-> "active"] /\ pats = <<>> /\ idempotency = {}
  /\ authorizations = [s \in Session |->
       [status |-> IF s = First THEN "consumed" ELSE "approved", account_id |-> "user",
        expires_at |-> DeviceLifetime, approved_at |-> 0]]
  /\ sessions = [s \in Session |->
       [status |-> IF s = First THEN "active" ELSE "none", account_id |-> "user",
        idle_expires_at |-> SessionIdle, absolute_expires_at |-> SessionAbsolute]]
  /\ access = [t \in Token |-> [status |-> IF t = First THEN "active" ELSE "none",
                                session_id |-> IF t = First THEN First ELSE {},
                                expires_at |-> AccessLifetime]]
  /\ refresh = [t \in Token |-> [status |-> IF t = First THEN "active" ELSE "none",
                                 session_id |-> IF t = First THEN First ELSE {},
                                 parent |-> {}, replaced_by |-> {},
                                 expires_at |-> SessionAbsolute]]
  /\ proc = [p \in Process |-> NoProc]
  /\ forgotten = {}
  /\ clock = 0

Goes(p, pc) == proc' = [proc EXCEPT ![p].pc = pc]
Ends(p) == proc' = [proc EXCEPT ![p] = [NoProc EXCEPT !.pc = "done",
                                                      !.displaced = proc[p].displaced]]
\* To leave the section, and what to do once the lock is released.
Leaves(p, next) == proc' = [proc EXCEPT ![p].pc = "release", ![p].next = next]
Locks(p, goal) ==
  /\ proc' = [proc EXCEPT ![p].pc = "lock", ![p].goal = goal, ![p].next = ""]
  /\ Lock!StartWaiting(p)
StoreOnly == UNCHANGED <<lockVars, serverVars, forgotten, clock>>
LocalOnly == UNCHANGED <<keyring, plaintext, call>>
Ok(p) == call[p].pc = "ok"
Return(p) == call' = [call EXCEPT ![p] = NoCall] /\ UNCHANGED <<keyring, plaintext, faults>>

-----------------------------------------------------------------------------
(* What the server says of an access token *)

Live(s) ==
  /\ sessions[s].status = "active"
  /\ sessions[s].idle_expires_at > clock /\ sessions[s].absolute_expires_at > clock
Usable(t) ==
  /\ access[t].status = "active" /\ access[t].expires_at > clock
  /\ Live(access[t].session_id)
Expired(t) == access[t].status = "active" /\ access[t].expires_at <= clock
Rotates(t) == refresh[t].status = "active" /\ Live(refresh[t].session_id)
\* The refresh token is good, its session is not: session_expired or
\* session_revoked.  Every other refusal is of the token itself.
SessionRefused(t) ==
  /\ refresh[t].status = "active" /\ refresh[t].expires_at > clock
  /\ ~Live(refresh[t].session_id)
Revoke(t) ==
  IF Usable(t) THEN Server!RevokeCliSession(access[t].session_id)
  ELSE UNCHANGED serverVars

-----------------------------------------------------------------------------
(* Commands *)

StartCommand(p, cmd) ==
  /\ proc[p].pc = "idle"
  /\ LET goal == IF cmd = "call" THEN "resolve" ELSE "read" IN
     proc' = [proc EXCEPT ![p].cmd = cmd, ![p].pc = "lock", ![p].goal = goal]
  /\ Lock!StartWaiting(p)
  /\ UNCHANGED <<storeVars, serverVars, forgotten, clock>>

\* The poll that ends the device flow with a new session
StartLogin(p, s, cmd) ==
  /\ proc[p].pc = "idle"
  /\ Server!ExchangeDeviceAuthorization(s, s, clock)
  /\ proc' = [proc EXCEPT ![p].cmd = cmd, ![p].pc = "validate", ![p].using = s,
                          ![p].credential = CredentialOf(s, s, clock)]
  /\ UNCHANGED <<lockVars, storeVars, forgotten, clock>>

ValidateLogin(p) ==
  /\ proc[p].pc = "validate"
  /\ \/ Usable(proc[p].using) /\ Locks(p, "persist") /\ UNCHANGED faults
     \/ /\ (~Usable(proc[p].using) /\ UNCHANGED faults) \/ Fault("lost")
        /\ Goes(p, "cleanup") /\ UNCHANGED lockVars
  /\ LocalOnly /\ UNCHANGED <<serverVars, forgotten, clock>>

\* revokeCliSessionBestEffort for a login that could not be kept
CleanUpLogin(p) ==
  /\ proc[p].pc = "cleanup" /\ Ends(p)
  /\ \/ Revoke(proc[p].using) /\ UNCHANGED faults
     \/ UNCHANGED serverVars /\ Fault("lost")
  /\ LocalOnly /\ UNCHANGED <<lockVars, forgotten, clock>>

-----------------------------------------------------------------------------
(* withLock *)

TakeLock(p) ==
  /\ proc[p].pc = "lock" /\ Lock!OpenLock(p) /\ Goes(p, proc[p].goal)
  /\ UNCHANGED <<storeVars, serverVars, forgotten, clock>>

WaitForLock(p) ==
  /\ proc[p].pc = "lock" /\ (Lock!FindLocked(p) \/ Lock!RemoveStale(p))
  /\ UNCHANGED <<storeVars, serverVars, proc, forgotten, clock>>

GiveUp(p) ==
  /\ proc[p].pc = "lock" /\ Lock!LockTimesOut(p)
  /\ IF proc[p].goal = "persist" THEN Goes(p, "cleanup") ELSE Ends(p)
  /\ UNCHANGED <<storeVars, serverVars, forgotten, clock>>

ReleaseLock(p) ==
  /\ proc[p].pc = "release"
  /\ CASE proc[p].next = "clear" ->
            /\ proc' = [proc EXCEPT ![p].pc = "lock", ![p].goal = "clear", ![p].next = ""]
            /\ lockFile' = {} /\ Lock!WaitGoes(p, "open") /\ UNCHANGED dead
       [] proc[p].next = "done" -> Ends(p) /\ Lock!Release(p)
       [] proc[p].next \in {"use", "retry", "cleanup"} ->
            /\ proc' = [proc EXCEPT ![p].pc = proc[p].next, ![p].next = ""]
            /\ Lock!Release(p)
  /\ UNCHANGED <<storeVars, serverVars, forgotten, clock>>

-----------------------------------------------------------------------------
(* resolveAuthToken, refreshAfterAccessTokenExpired, refreshCredential *)

Resolve(p) ==
  /\ proc[p].pc = "resolve"
  /\ \E seen \in {Visible, NoCredential} :
       /\ Read(seen)
       /\ IF seen = NoCredential THEN Leaves(p, "done")
          ELSE proc' = [proc EXCEPT
                 ![p].credential = seen, ![p].using = seen.token,
                 ![p].pc = IF seen.expires > clock + RefreshWindow
                           THEN "release" ELSE "refresh",
                 ![p].next = IF seen.expires > clock + RefreshWindow THEN "use" ELSE ""]
  /\ UNCHANGED call /\ StoreOnly

MutantRenew(p) ==                     \* the credential is not read again
  /\ proc[p].pc = "renew"
  /\ Goes(p, "refresh")
  /\ UNCHANGED storeVars /\ StoreOnly

Renew(p) ==
  /\ proc[p].pc = "renew"
  /\ \E seen \in {Visible, NoCredential} :
       /\ Read(seen)
       /\ IF seen = NoCredential THEN Leaves(p, "done")
          ELSE IF seen.token # proc[p].using
          THEN proc' = [proc EXCEPT ![p].using = seen.token, ![p].pc = "release",
                                    ![p].next = "retry"]
          ELSE proc' = [proc EXCEPT ![p].credential = seen, ![p].pc = "refresh"]
  /\ UNCHANGED call /\ StoreOnly

\* What POST /v1/auth/token/refresh does with the refresh token.
ServerRefreshes(p) ==
  LET t == proc[p].credential.token IN
  IF Rotates(t) THEN Server!RotateRefreshToken(t, p, clock)
  ELSE IF refresh[t].status = "used"
  THEN Server!CompromiseCliSession(refresh[t].session_id) ELSE UNCHANGED serverVars

Refresh(p) ==
  LET t == proc[p].credential.token
      renewed == CredentialOf(proc[p].credential.session, p, clock) IN
  /\ proc[p].pc = "refresh" /\ ServerRefreshes(p)
  /\ IF Rotates(t)
     THEN /\ proc' = [proc EXCEPT ![p].credential = renewed, ![p].pc = "save"]
          /\ BeginReplace(p, renewed)
     ELSE /\ BeginDelete(p)
          /\ proc' = [proc EXCEPT ![p].pc = "discard", ![p].next =
               IF proc[p].cmd = "revoke" /\ SessionRefused(t) THEN "clear" ELSE "done"]
  /\ UNCHANGED <<lockVars, keyring, plaintext, faults, forgotten, clock>>

\* The request, or its answer, is lost.
RefreshLost(p) ==
  /\ proc[p].pc = "refresh" /\ Fault("lost")
  /\ ServerRefreshes(p) \/ UNCHANGED serverVars
  /\ Leaves(p, "done") /\ LocalOnly /\ UNCHANGED <<lockVars, forgotten, clock>>

MutantSaveReturns(p) ==               \* the rotated session is left alone
  /\ proc[p].pc = "save" /\ Returned(p) /\ Return(p)
  /\ IF Ok(p)
     THEN proc' = [proc EXCEPT ![p].using = p, ![p].pc = "release", ![p].next =
                     IF proc[p].goal = "resolve" THEN "use" ELSE "retry"]
     ELSE Leaves(p, "done")
  /\ StoreOnly

SaveReturns(p) ==
  /\ proc[p].pc = "save" /\ Returned(p) /\ Return(p)
  /\ IF Ok(p)
     THEN proc' = [proc EXCEPT ![p].using = p, ![p].pc = "release", ![p].next =
                     IF proc[p].goal = "resolve" THEN "use" ELSE "retry"]
     ELSE Goes(p, "unsaved")
  /\ StoreOnly

\* The rotated credential could not be kept: revoke its session, delete.
RevokeUnsaved(p) ==
  /\ proc[p].pc = "unsaved" /\ BeginDelete(p)
  /\ proc' = [proc EXCEPT ![p].pc = "discard", ![p].next = "done"]
  /\ \/ Revoke(p) /\ UNCHANGED faults
     \/ UNCHANGED serverVars /\ Fault("lost")
  /\ UNCHANGED <<lockVars, keyring, plaintext, forgotten, clock>>

DiscardReturns(p) ==
  /\ proc[p].pc = "discard" /\ Returned(p) /\ Return(p)
  /\ Goes(p, "release") /\ StoreOnly

-----------------------------------------------------------------------------
(* A request with the access token; for auth logout --revoke the revocation *)

UseToken(p) ==
  LET t == proc[p].using
      revoke == proc[p].cmd = "revoke" IN
  /\ proc[p].pc \in {"use", "retry"}
  /\ IF revoke /\ Usable(t) THEN Server!RevokeCliSession(access[t].session_id)
     ELSE UNCHANGED serverVars
  /\ \/ Expired(t) /\ proc[p].pc = "use" /\ Locks(p, "renew")
     \/ Expired(t) /\ proc[p].pc = "retry" /\ Ends(p) /\ UNCHANGED lockVars
     \/ ~Expired(t) /\ revoke /\ Locks(p, "clear")
     \/ ~Expired(t) /\ ~revoke /\ Ends(p) /\ UNCHANGED lockVars
  /\ UNCHANGED <<storeVars, forgotten, clock>>

UseLost(p) ==
  /\ proc[p].pc \in {"use", "retry"} /\ Fault("lost") /\ Ends(p)
  /\ \/ proc[p].cmd = "revoke" /\ Revoke(proc[p].using)
     \/ UNCHANGED serverVars
  /\ LocalOnly /\ UNCHANGED <<lockVars, forgotten, clock>>

-----------------------------------------------------------------------------
(* authLogout and persistLoginCredential *)

ReadForLogout(p) ==
  /\ proc[p].pc = "read"
  /\ \E seen \in {Visible, NoCredential} :
       /\ Read(seen)
       /\ proc' = [proc EXCEPT ![p].credential = seen, ![p].using = seen.token,
            ![p].pc = "release",
            ![p].next = CASE proc[p].cmd = "logout" -> "clear"
                          [] proc[p].cmd = "revoke" /\ seen # NoCredential -> "use"
                          [] proc[p].cmd = "revoke" /\ seen = NoCredential -> "done"]
  /\ UNCHANGED call /\ StoreOnly

\* What is logged out of is what the store held, whatever the read said.
Clear(p) ==
  /\ proc[p].pc = "clear"
  /\ \E seen \in {Visible, NoCredential} :
       /\ Read(seen)
       /\ IF proc[p].cmd = "logout" \/ seen.session = proc[p].credential.session
          THEN /\ proc' = [proc EXCEPT ![p].pc = "clearing",
                                       ![p].displaced = Visible.session]
               /\ BeginDelete(p)
          ELSE Leaves(p, "done") /\ UNCHANGED call
  /\ StoreOnly

\* The read at the start of a section throws: the command ends with the error,
\* and a login gives up its session.
ReadThrows(p) ==
  /\ proc[p].pc \in {"resolve", "renew", "read", "clear", "persist"} /\ ReadFails
  /\ Leaves(p, IF proc[p].pc = "persist" THEN "cleanup" ELSE "done")
  /\ UNCHANGED call /\ StoreOnly

PersistLogin(p) ==
  /\ proc[p].pc = "persist"
  /\ BeginWrite(p, proc[p].credential, proc[p].cmd = "insecure")
  /\ proc' = [proc EXCEPT ![p].pc = "persisting", ![p].displaced = Visible.session]
  /\ UNCHANGED <<keyring, plaintext, faults>> /\ StoreOnly

\* The call of the store returns to a logout or to a login.
StoreReturns(p) ==
  /\ proc[p].pc \in {"clearing", "persisting"} /\ Returned(p) /\ Return(p)
  /\ Leaves(p, IF proc[p].pc = "persisting" /\ ~Ok(p) THEN "cleanup" ELSE "done")
  /\ forgotten' = forgotten \cup (IF Ok(p) THEN {proc[p].displaced} \cap Session ELSE {})
  /\ UNCHANGED <<lockVars, serverVars, clock>>

-----------------------------------------------------------------------------
StoreStep(p) ==
  /\ KeyringStep(p) \/ KeyringFails(p) \/ FileStep(p) \/ FileFails(p)
  /\ UNCHANGED <<lockVars, serverVars, proc, forgotten, clock>>

\* The process dies and leaves behind what it wrote, its lock included.
Crash(p) ==
  /\ proc[p].pc \notin {"idle", "done", "dead"} /\ Fault("crash")
  /\ proc' = [proc EXCEPT ![p] = [NoProc EXCEPT !.pc = "dead"]]
  /\ call' = [call EXCEPT ![p] = NoCall]
  /\ Lock!Die(p)
  /\ UNCHANGED <<keyring, plaintext, serverVars, forgotten, clock>>

\* A tick is minutes, a process waits for the lock for seconds: what it was
\* issued it keeps or revokes before the clock moves.
Keeping(p) ==
  \/ proc[p].pc \in {"validate", "persist", "persisting", "cleanup", "save",
                    "unsaved", "discard"}
  \/ proc[p].goal = "persist" /\ proc[p].pc = "lock"
  \/ proc[p].next = "cleanup"

Tick ==
  /\ clock < LastTick /\ clock' = clock + 1
  /\ \A p \in Process : ~Keeping(p)
  /\ UNCHANGED <<lockVars, storeVars, serverVars, proc, forgotten>>

Step(p) ==
  \/ \E cmd \in {"call", "logout", "revoke"} : StartCommand(p, cmd)
  \/ \E s \in Session, cmd \in {"login", "insecure"} : StartLogin(p, s, cmd)
  \/ ValidateLogin(p) \/ CleanUpLogin(p)
  \/ TakeLock(p) \/ WaitForLock(p) \/ GiveUp(p) \/ ReleaseLock(p)
  \/ Resolve(p) \/ Renew(p) \/ Refresh(p) \/ RefreshLost(p)
  \/ SaveReturns(p) \/ RevokeUnsaved(p) \/ DiscardReturns(p)
  \/ UseToken(p) \/ UseLost(p)
  \/ ReadForLogout(p) \/ Clear(p) \/ ReadThrows(p) \/ PersistLogin(p) \/ StoreReturns(p)
  \/ StoreStep(p) \/ Crash(p)

Next == Tick \/ \E p \in Process : Step(p)

Spec == Init /\ [][Next]_vars

-----------------------------------------------------------------------------
Holding(p) == waiting[p] = "held"
AtRest == \A p \in Process : proc[p].pc \in {"idle", "done", "dead"}
Undisturbed == faults["crash"] = 0 /\ faults["lost"] = 0

(* FileCredentialLock: while no process has crashed, two are never in their   *)
(* sections at once.  (After a crash two waiting processes may both judge the *)
(* lock stale, and the second removes the lock of the first.)                 *)
LockSharedOnlyAfterACrash ==
  faults["crash"] = 0 =>
    \A p, q \in Process : Holding(p) /\ Holding(q) => p = q

(* Refreshing under the lock against the server's strict reuse detection:    *)
(* the processes of one user never get their own session compromised, unless *)
(* a process crashed or an answer was lost.                                  *)
NoSelfInflictedReuse ==
  Undisturbed => \A s \in Session : sessions[s].status # "compromised"

(* authLogout and the login that replaces: a session that was logged out of   *)
(* or replaced is not what a later read finds, neither through a refresh that *)
(* was under way nor because the keyring or the file could not be emptied.    *)
LoggedOutStaysOut ==
  faults["crash"] = 0 => Visible.session \notin forgotten

(* refreshCredential: once no command runs, a live session was forgotten     *)
(* by the user or its unused refresh token is the one in the store, although *)
(* keyring and file may have failed; no live session is left unmanageable.   *)
SessionsStayManageable ==
  Undisturbed /\ AtRest => \A s \in Session :
    Live(s) /\ (\A p \in Process : proc[p].displaced # s) =>
      Visible.session = s /\ refresh[Visible.token].status = "active"
=============================================================================
