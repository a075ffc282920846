---------------------------- MODULE CliAuthProofs ----------------------------
(***************************************************************************)
(* Any number of processes of the command line client on one credential:   *)
(* the lock, the calls of the store that fail half way, and the server's   *)
(* rotation of refresh tokens.  As long as no process has crashed the      *)
(* lock keeps the sections apart, and everything else rests on that.       *)
(***************************************************************************)
EXTENDS CliAuth, TLAPS

Calm == faults["crash"] = 0

AuthorizationRow ==
  [status : {"approved", "consumed"}, account_id : {"user"}, expires_at : Nat, approved_at : Nat]
SessionRow ==
  [status : {"none", "active", "revoked", "compromised"}, account_id : {"user"},
   idle_expires_at : Nat, absolute_expires_at : Nat]
AccessRow ==
  [status : {"none", "active", "revoked"}, session_id : Session \cup {{}}, expires_at : Nat]
RefreshRow ==
  [status : {"none", "active", "used", "revoked"}, session_id : Session \cup {{}},
   parent : Token \cup {{}}, replaced_by : Token \cup {{}}, expires_at : Nat]
ServerTypeOK ==
  /\ authorizations \in [Session -> AuthorizationRow]
  /\ sessions \in [Session -> SessionRow]
  /\ access \in [Token -> AccessRow]
  /\ refresh \in [Token -> RefreshRow]

CliTypeOK ==
  /\ StoreTypeOK /\ Lock!LockTypeOK /\ ServerTypeOK
  /\ proc \in [Process -> ProcState]
  /\ forgotten \subseteq Session /\ clock \in Nat

LEMMA Constants ==
  /\ {} \notin Process /\ {} \notin Session /\ {} \notin Token /\ Process \cap Session = {}
  /\ First \in Session /\ MaxFaults \in Nat
  /\ AccessLifetime \in Nat /\ AccessLifetime > 0 /\ SessionIdle \in Nat /\ SessionIdle > 0
  /\ SessionAbsolute \in Nat
  /\ RefreshWindow \in Nat /\ LastTick \in Nat /\ DeviceLifetime \in Nat
  BY ProcessAssumption, NullAssumption, FaultAssumption, FirstAssumption, TimeAssumption DEF Token

-----------------------------------------------------------------------------
(* Types *)

LEMMA CredentialTypes ==
  /\ NoCredential \in Credential
  /\ \A s \in Session \cup {{}}, t \in Token, now \in Nat : CredentialOf(s, t, now) \in Credential
  /\ StoreTypeOK => Visible \in Credential
PROOF
  <1>1. NoCredential \in Credential
    BY DEF NoCredential, Credential
  <1>2. \A s \in Session \cup {{}}, t \in Token, now \in Nat : CredentialOf(s, t, now) \in Credential
    BY Constants DEF CredentialOf, Credential
  <1>3. StoreTypeOK => Visible \in Credential
    BY <1>1 DEF StoreTypeOK, Visible
  <1> QED
    BY <1>1, <1>2, <1>3

LEMMA TypeInit == Init => CliTypeOK
PROOF
  <1> SUFFICES ASSUME Init PROVE CliTypeOK
    OBVIOUS
  <1>1. First \in Token /\ First \in Session
    BY Constants DEF Token
  <1>2. StoreTypeOK
    <2>1. CredentialOf(First, First, 0) \in Credential
      BY <1>1, CredentialTypes
    <2>2. keyring \in Credential
      BY <2>1, CredentialTypes DEF Init
    <2>3. plaintext \in [kind : {"none", "invalid", "marker", "credential"}, credential : Credential]
      BY <2>1, CredentialTypes DEF Init, File, NoFile
    <2>4. call \in [Process ->
             [pc : {"idle", "set", "setMasked", "drop", "delete", "plain", "mask",
                    "insecure", "unmask", "erase", "marker", "ok", "thrown"},
              credential : Credential]]
      BY CredentialTypes DEF Init, NoCall
    <2>5. faults \in [{"crash", "lost", "store"} -> 0..MaxFaults]
      BY Constants DEF Init
    <2> QED
      BY <2>2, <2>3, <2>4, <2>5 DEF StoreTypeOK
  <1>3. Lock!LockTypeOK
    BY DEF Init, Lock!LockInit, Lock!LockTypeOK
  <1>4. ServerTypeOK
    <2>1. authorizations \in [Session -> AuthorizationRow]
      BY Constants DEF Init, AuthorizationRow
    <2>2. sessions \in [Session -> SessionRow]
      BY Constants DEF Init, SessionRow
    <2>3. access \in [Token -> AccessRow]
      BY <1>1, Constants DEF Init, AccessRow
    <2>4. refresh \in [Token -> RefreshRow]
      BY <1>1, Constants DEF Init, RefreshRow
    <2> QED
      BY <2>1, <2>2, <2>3, <2>4 DEF ServerTypeOK
  <1>5. proc \in [Process -> ProcState]
    <2>1. NoProc \in ProcState
      BY CredentialTypes DEF NoProc, ProcState
    <2> QED
      BY <2>1 DEF Init
  <1> QED
    BY <1>2, <1>3, <1>4, <1>5 DEF CliTypeOK, Init

(* What a step makes of the process that takes it, field by field. *)
Becomes(p, cmd, pc, goal, next, credential, using, displaced) ==
  /\ proc' \in [Process -> ProcState]
  /\ \A q \in Process \ {p} : proc'[q] = proc[q]
  /\ proc'[p].cmd = cmd /\ proc'[p].pc = pc /\ proc'[p].goal = goal /\ proc'[p].next = next
  /\ proc'[p].credential = credential /\ proc'[p].using = using
  /\ proc'[p].displaced = displaced

LEMMA BecomesRecord ==
  ASSUME CliTypeOK, NEW p \in Process, NEW r \in ProcState, proc' = [proc EXCEPT ![p] = r]
  PROVE  Becomes(p, r.cmd, r.pc, r.goal, r.next, r.credential, r.using, r.displaced)
PROOF
  <1>1. /\ proc' \in [Process -> ProcState] /\ proc'[p] = r
        /\ \A q \in Process \ {p} : proc'[q] = proc[q]
    BY DEF CliTypeOK
  <1> QED
    BY <1>1 DEF Becomes

(* The same process with another pc, goal and next. *)
Turns(p, pc, goal, next) ==
  Becomes(p, proc[p].cmd, pc, goal, next, proc[p].credential, proc[p].using, proc[p].displaced)

LEMMA Turn ==
  ASSUME CliTypeOK, NEW p \in Process
  PROVE  /\ \A pc \in {"cleanup", "refresh", "resolve", "renew", "read", "clear", "persist",
                       "unsaved", "release"} :
              Goes(p, pc) => Turns(p, pc, proc[p].goal, proc[p].next)
         /\ \A next \in {"", "use", "retry", "clear", "cleanup", "done"} :
              Leaves(p, next) => Turns(p, "release", proc[p].goal, next)
         /\ \A goal \in {"renew", "clear", "persist"} :
              Locks(p, goal) => Turns(p, "lock", goal, "") /\ Lock!StartWaiting(p)
         /\ Ends(p) => Becomes(p, "", "done", "", "", NoCredential, {}, proc[p].displaced)
PROOF
  <1>0. proc[p] \in ProcState /\ proc \in [Process -> ProcState]
    BY DEF CliTypeOK
  <1>1. ASSUME NEW pc \in {"cleanup", "refresh", "resolve", "renew", "read", "clear", "persist",
                           "unsaved", "release"}, Goes(p, pc)
        PROVE  Turns(p, pc, proc[p].goal, proc[p].next)
    <2> DEFINE r == [proc[p] EXCEPT !.pc = pc]
    <2>1. proc' = [proc EXCEPT ![p] = r]
      BY <1>0, <1>1 DEF Goes
    <2>2. r \in ProcState
      BY <1>0 DEF ProcState
    <2>3. /\ r.cmd = proc[p].cmd /\ r.pc = pc /\ r.goal = proc[p].goal /\ r.next = proc[p].next
          /\ r.credential = proc[p].credential /\ r.using = proc[p].using
        /\ r.displaced = proc[p].displaced
      BY <1>0 DEF ProcState
    <2> HIDE DEF r
    <2> QED
      BY <2>1, <2>2, <2>3, BecomesRecord DEF Turns
  <1>2. ASSUME NEW next \in {"", "use", "retry", "clear", "cleanup", "done"}, Leaves(p, next)
        PROVE  Turns(p, "release", proc[p].goal, next)
    <2> DEFINE r == [proc[p] EXCEPT !.pc = "release", !.next = next]
    <2>1. proc' = [proc EXCEPT ![p] = r]
      BY <1>0, <1>2 DEF Leaves
    <2>2. r \in ProcState
      BY <1>0 DEF ProcState
    <2>3. /\ r.cmd = proc[p].cmd /\ r.pc = "release" /\ r.goal = proc[p].goal /\ r.next = next
          /\ r.credential = proc[p].credential /\ r.using = proc[p].using
        /\ r.displaced = proc[p].displaced
      BY <1>0 DEF ProcState
    <2> HIDE DEF r
    <2> QED
      BY <2>1, <2>2, <2>3, BecomesRecord DEF Turns
  <1>3. ASSUME NEW goal \in {"renew", "clear", "persist"}, Locks(p, goal)
        PROVE  Turns(p, "lock", goal, "")
    <2> DEFINE r == [proc[p] EXCEPT !.pc = "lock", !.goal = goal, !.next = ""]
    <2>1. proc' = [proc EXCEPT ![p] = r]
      BY <1>0, <1>3 DEF Locks
    <2>2. r \in ProcState
      BY <1>0 DEF ProcState
    <2>3. /\ r.cmd = proc[p].cmd /\ r.pc = "lock" /\ r.goal = goal /\ r.next = ""
          /\ r.credential = proc[p].credential /\ r.using = proc[p].using
        /\ r.displaced = proc[p].displaced
      BY <1>0 DEF ProcState
    <2> HIDE DEF r
    <2> QED
      BY <2>1, <2>2, <2>3, BecomesRecord DEF Turns
  <1>4. ASSUME Ends(p)
        PROVE  Becomes(p, "", "done", "", "", NoCredential, {}, proc[p].displaced)
    <2> DEFINE r == [NoProc EXCEPT !.pc = "done", !.displaced = proc[p].displaced]
    <2>1. proc' = [proc EXCEPT ![p] = r]
      BY <1>0, <1>4 DEF Ends
    <2>2. r \in ProcState
      BY <1>0, CredentialTypes DEF ProcState, NoProc
    <2>3. /\ r.cmd = "" /\ r.pc = "done" /\ r.goal = "" /\ r.next = ""
         /\ r.credential = NoCredential /\ r.using = {} /\ r.displaced = proc[p].displaced
      BY <1>0, CredentialTypes DEF ProcState, NoProc
    <2> HIDE DEF r
    <2> QED
      BY <2>1, <2>2, <2>3, BecomesRecord
  <1> QED
    BY <1>1, <1>2, <1>3, <1>4 DEF Locks

(* The steps that change more of it. *)
LEMMA ToNext ==
  ASSUME CliTypeOK, NEW p \in Process,
         NEW pc \in {"lock", "refresh", "release", "save", "discard", "use", "retry", "cleanup",
                    "clearing", "persisting"},
         NEW next \in {"", "use", "retry", "clear", "cleanup", "done"},
         proc' = [proc EXCEPT ![p].pc = pc, ![p].next = next]
  PROVE  Becomes(p, proc[p].cmd, pc, proc[p].goal, next, proc[p].credential,
                 proc[p].using, proc[p].displaced)
PROOF
  <1>0. proc[p] \in ProcState /\ proc \in [Process -> ProcState]
    BY DEF CliTypeOK
  <1> DEFINE r == [proc[p] EXCEPT !.pc = pc, !.next = next]
  <1>1. proc' = [proc EXCEPT ![p] = r]
    BY <1>0 DEF ProcState
  <1>2. r \in ProcState
    BY <1>0 DEF ProcState
  <1>3. /\ r.cmd = proc[p].cmd /\ r.pc = pc /\ r.goal = proc[p].goal /\ r.next = next
        /\ r.credential = proc[p].credential /\ r.using = proc[p].using
        /\ r.displaced = proc[p].displaced
    BY <1>0 DEF ProcState
  <1> HIDE DEF r
  <1> QED
    BY <1>1, <1>2, <1>3, BecomesRecord

LEMMA ToGoal ==
  ASSUME CliTypeOK, NEW p \in Process,
         NEW goal \in {"renew", "clear", "persist"},
         proc' = [proc EXCEPT ![p].pc = "lock", ![p].goal = goal, ![p].next = ""]
  PROVE  Becomes(p, proc[p].cmd, "lock", goal, "", proc[p].credential,
                 proc[p].using, proc[p].displaced)
PROOF
  <1>0. proc[p] \in ProcState /\ proc \in [Process -> ProcState]
    BY DEF CliTypeOK
  <1> DEFINE r == [proc[p] EXCEPT !.pc = "lock", !.goal = goal, !.next = ""]
  <1>1. proc' = [proc EXCEPT ![p] = r]
    BY <1>0 DEF ProcState
  <1>2. r \in ProcState
    BY <1>0 DEF ProcState
  <1>3. /\ r.cmd = proc[p].cmd /\ r.pc = "lock" /\ r.goal = goal /\ r.next = ""
        /\ r.credential = proc[p].credential /\ r.using = proc[p].using
        /\ r.displaced = proc[p].displaced
    BY <1>0 DEF ProcState
  <1> HIDE DEF r
  <1> QED
    BY <1>1, <1>2, <1>3, BecomesRecord

LEMMA ToUse ==
  ASSUME CliTypeOK, NEW p \in Process,
         NEW next \in {"", "use", "retry", "clear", "cleanup", "done"},
         NEW using \in Token \cup {{}},
         proc' = [proc EXCEPT ![p].using = using, ![p].pc = "release", ![p].next = next]
  PROVE  Becomes(p, proc[p].cmd, "release", proc[p].goal, next, proc[p].credential,
                 using, proc[p].displaced)
PROOF
  <1>0. proc[p] \in ProcState /\ proc \in [Process -> ProcState]
    BY DEF CliTypeOK
  <1> DEFINE r == [proc[p] EXCEPT !.pc = "release", !.next = next, !.using = using]
  <1>1. proc' = [proc EXCEPT ![p] = r]
    BY <1>0 DEF ProcState
  <1>2. r \in ProcState
    BY <1>0 DEF ProcState
  <1>3. /\ r.cmd = proc[p].cmd /\ r.pc = "release" /\ r.goal = proc[p].goal /\ r.next = next
        /\ r.credential = proc[p].credential /\ r.using = using /\ r.displaced = proc[p].displaced
    BY <1>0 DEF ProcState
  <1> HIDE DEF r
  <1> QED
    BY <1>1, <1>2, <1>3, BecomesRecord

LEMMA ToRefresh ==
  ASSUME CliTypeOK, NEW p \in Process,
         NEW credential \in Credential, NEW pc \in {"refresh", "save"},
         proc' = [proc EXCEPT ![p].credential = credential, ![p].pc = pc]
  PROVE  Becomes(p, proc[p].cmd, pc, proc[p].goal, proc[p].next, credential,
                 proc[p].using, proc[p].displaced)
PROOF
  <1>0. proc[p] \in ProcState /\ proc \in [Process -> ProcState]
    BY DEF CliTypeOK
  <1> DEFINE r == [proc[p] EXCEPT !.pc = pc, !.credential = credential]
  <1>1. proc' = [proc EXCEPT ![p] = r]
    BY <1>0 DEF ProcState
  <1>2. r \in ProcState
    BY <1>0 DEF ProcState
  <1>3. /\ r.cmd = proc[p].cmd /\ r.pc = pc /\ r.goal = proc[p].goal /\ r.next = proc[p].next
        /\ r.credential = credential /\ r.using = proc[p].using /\ r.displaced = proc[p].displaced
    BY <1>0 DEF ProcState
  <1> HIDE DEF r
  <1> QED
    BY <1>1, <1>2, <1>3, BecomesRecord

LEMMA ToStore ==
  ASSUME CliTypeOK, NEW p \in Process,
         NEW pc \in {"clearing", "persisting"}, NEW displaced \in Session \cup {{}},
         proc' = [proc EXCEPT ![p].pc = pc, ![p].displaced = displaced]
  PROVE  Becomes(p, proc[p].cmd, pc, proc[p].goal, proc[p].next, proc[p].credential,
                 proc[p].using, displaced)
PROOF
  <1>0. proc[p] \in ProcState /\ proc \in [Process -> ProcState]
    BY DEF CliTypeOK
  <1> DEFINE r == [proc[p] EXCEPT !.pc = pc, !.displaced = displaced]
  <1>1. proc' = [proc EXCEPT ![p] = r]
    BY <1>0 DEF ProcState
  <1>2. r \in ProcState
    BY <1>0 DEF ProcState
  <1>3. /\ r.cmd = proc[p].cmd /\ r.pc = pc /\ r.goal = proc[p].goal /\ r.next = proc[p].next
        /\ r.credential = proc[p].credential /\ r.using = proc[p].using /\ r.displaced = displaced
    BY <1>0 DEF ProcState
  <1> HIDE DEF r
  <1> QED
    BY <1>1, <1>2, <1>3, BecomesRecord

LEMMA Seen ==
  ASSUME CliTypeOK, NEW p \in Process,
         NEW pc \in {"release", "refresh"}, NEW credential \in Credential, NEW using \in Token \cup {{}},
         NEW next \in {"", "use", "retry", "clear", "cleanup", "done"},
         proc' = [proc EXCEPT ![p].credential = credential, ![p].using = using,
                              ![p].pc = pc, ![p].next = next]
  PROVE  Becomes(p, proc[p].cmd, pc, proc[p].goal, next, credential,
                 using, proc[p].displaced)
PROOF
  <1>0. proc[p] \in ProcState /\ proc \in [Process -> ProcState]
    BY DEF CliTypeOK
  <1> DEFINE r == [proc[p] EXCEPT !.pc = pc, !.next = next, !.credential = credential, !.using = using]
  <1>1. proc' = [proc EXCEPT ![p] = r]
    BY <1>0 DEF ProcState
  <1>2. r \in ProcState
    BY <1>0 DEF ProcState
  <1>3. /\ r.cmd = proc[p].cmd /\ r.pc = pc /\ r.goal = proc[p].goal /\ r.next = next
        /\ r.credential = credential /\ r.using = using /\ r.displaced = proc[p].displaced
    BY <1>0 DEF ProcState
  <1> HIDE DEF r
  <1> QED
    BY <1>1, <1>2, <1>3, BecomesRecord

LEMMA ToCommand ==
  ASSUME CliTypeOK, NEW p \in Process,
         NEW cmd \in {"call", "logout", "revoke"}, NEW goal \in {"resolve", "read"},
         proc' = [proc EXCEPT ![p].cmd = cmd, ![p].pc = "lock", ![p].goal = goal]
  PROVE  Becomes(p, cmd, "lock", goal, proc[p].next, proc[p].credential,
                 proc[p].using, proc[p].displaced)
PROOF
  <1>0. proc[p] \in ProcState /\ proc \in [Process -> ProcState]
    BY DEF CliTypeOK
  <1> DEFINE r == [proc[p] EXCEPT !.cmd = cmd, !.pc = "lock", !.goal = goal]
  <1>1. proc' = [proc EXCEPT ![p] = r]
    BY <1>0 DEF ProcState
  <1>2. r \in ProcState
    BY <1>0 DEF ProcState
  <1>3. /\ r.cmd = cmd /\ r.pc = "lock" /\ r.goal = goal /\ r.next = proc[p].next
        /\ r.credential = proc[p].credential /\ r.using = proc[p].using
        /\ r.displaced = proc[p].displaced
    BY <1>0 DEF ProcState
  <1> HIDE DEF r
  <1> QED
    BY <1>1, <1>2, <1>3, BecomesRecord DEF Becomes

LEMMA ToLogin ==
  ASSUME CliTypeOK, NEW p \in Process,
         NEW cmd \in {"login", "insecure"}, NEW credential \in Credential, NEW using \in Token \cup {{}},
         proc' = [proc EXCEPT ![p].cmd = cmd, ![p].pc = "validate", ![p].using = using,
                              ![p].credential = credential]
  PROVE  Becomes(p, cmd, "validate", proc[p].goal, proc[p].next, credential,
                 using, proc[p].displaced)
PROOF
  <1>0. proc[p] \in ProcState /\ proc \in [Process -> ProcState]
    BY DEF CliTypeOK
  <1> DEFINE r == [proc[p] EXCEPT !.cmd = cmd, !.pc = "validate", !.credential = credential, !.using = using]
  <1>1. proc' = [proc EXCEPT ![p] = r]
    BY <1>0 DEF ProcState
  <1>2. r \in ProcState
    BY <1>0 DEF ProcState
  <1>3. /\ r.cmd = cmd /\ r.pc = "validate" /\ r.goal = proc[p].goal /\ r.next = proc[p].next
        /\ r.credential = credential /\ r.using = using /\ r.displaced = proc[p].displaced
    BY <1>0 DEF ProcState
  <1> HIDE DEF r
  <1> QED
    BY <1>1, <1>2, <1>3, BecomesRecord DEF Becomes

(* What an action does to its process, and that it keeps the types. *)
Shape(r) ==
  /\ r.pc = "idle" => r.goal = ""
  /\ r.goal = "read" => r.cmd \in {"logout", "revoke"}
  /\ r.pc = "read" => r.goal = "read"
  /\ r.pc = "lock" => r.goal # ""
  /\ r.pc = "release" => r.next # ""
  /\ r.pc = "discard" => r.next \in {"clear", "done"}
ShapeOK == \A p \in Process : Shape(proc[p])
TypeInv == CliTypeOK /\ ShapeOK

LEMMA ResolveDoes ==
  ASSUME TypeInv, NEW p \in Process, Resolve(p)
  PROVE  /\ proc[p].pc = "resolve" /\ UNCHANGED call /\ StoreOnly
         /\ \E seen \in {Visible, NoCredential} : Read(seen) /\
              \/ seen = NoCredential /\ Turns(p, "release", proc[p].goal, "done")
              \/ /\ seen # NoCredential
                 /\ \E pc \in {"release", "refresh"}, next \in {"use", ""} :
                      /\ pc = "release" <=> next = "use"
                      /\ Becomes(p, proc[p].cmd, pc, proc[p].goal, next, seen, seen.token,
                                 proc[p].displaced)
PROOF
  <1>1. PICK seen \in {Visible, NoCredential} :
          /\ Read(seen)
          /\ IF seen = NoCredential THEN Leaves(p, "done")
             ELSE proc' = [proc EXCEPT
                 ![p].credential = seen, ![p].using = seen.token,
                 ![p].pc = IF seen.expires > clock + RefreshWindow
                           THEN "release" ELSE "refresh",
                 ![p].next = IF seen.expires > clock + RefreshWindow THEN "use" ELSE ""]
    BY DEF Resolve
  <1>2. seen \in Credential
    BY CredentialTypes DEF TypeInv, CliTypeOK
  <1>3. seen.token \in Token \cup {{}}
    BY <1>2 DEF Credential
  <1>4. CASE seen = NoCredential
    BY <1>1, <1>4, Turn DEF TypeInv, Resolve
  <1>5. CASE seen # NoCredential
    <2>1. PICK pc \in {"release", "refresh"} :
            pc = IF seen.expires > clock + RefreshWindow THEN "release" ELSE "refresh"
      OBVIOUS
    <2>2. PICK next \in {"use", ""} :
            next = IF seen.expires > clock + RefreshWindow THEN "use" ELSE ""
      OBVIOUS
    <2>3. proc' = [proc EXCEPT ![p].credential = seen, ![p].using = seen.token,
                               ![p].pc = pc, ![p].next = next]
      BY <1>1, <1>5, <2>1, <2>2
    <2>4. Becomes(p, proc[p].cmd, pc, proc[p].goal, next, seen, seen.token, proc[p].displaced)
      BY <1>2, <1>3, <2>3, Seen DEF TypeInv
    <2>5. pc = "release" <=> next = "use"
      BY <2>1, <2>2
    <2> QED
      BY <1>1, <1>5, <2>4, <2>5 DEF Resolve
  <1> QED
    BY <1>4, <1>5

LEMMA RenewDoes ==
  ASSUME TypeInv, NEW p \in Process, Renew(p)
  PROVE  /\ proc[p].pc = "renew" /\ UNCHANGED call /\ StoreOnly
         /\ \E seen \in {Visible, NoCredential} : Read(seen) /\
              \/ seen = NoCredential /\ Turns(p, "release", proc[p].goal, "done")
              \/ /\ seen # NoCredential
                 /\ Becomes(p, proc[p].cmd, "release", proc[p].goal, "retry", proc[p].credential,
                            seen.token, proc[p].displaced)
              \/ /\ seen # NoCredential
                 /\ Becomes(p, proc[p].cmd, "refresh", proc[p].goal, proc[p].next, seen,
                            proc[p].using, proc[p].displaced)
PROOF
  <1>1. PICK seen \in {Visible, NoCredential} :
          /\ Read(seen)
          /\ IF seen = NoCredential THEN Leaves(p, "done")
             ELSE IF seen.token # proc[p].using
             THEN proc' = [proc EXCEPT ![p].using = seen.token, ![p].pc = "release",
                                       ![p].next = "retry"]
             ELSE proc' = [proc EXCEPT ![p].credential = seen, ![p].pc = "refresh"]
    BY DEF Renew
  <1>2. seen \in Credential
    BY CredentialTypes DEF TypeInv, CliTypeOK
  <1>3. seen.token \in Token \cup {{}}
    BY <1>2 DEF Credential
  <1>4. CASE seen = NoCredential
    BY <1>1, <1>4, Turn DEF TypeInv, Renew
  <1>5. CASE seen # NoCredential /\ seen.token # proc[p].using
    <2>1. proc' = [proc EXCEPT ![p].using = seen.token, ![p].pc = "release", ![p].next = "retry"]
      BY <1>1, <1>5
    <2>2. Becomes(p, proc[p].cmd, "release", proc[p].goal, "retry", proc[p].credential,
                  seen.token, proc[p].displaced)
      BY <1>3, <2>1, ToUse DEF TypeInv
    <2> QED
      BY <1>1, <1>5, <2>2 DEF Renew
  <1>6. CASE seen # NoCredential /\ seen.token = proc[p].using
    <2>1. proc' = [proc EXCEPT ![p].credential = seen, ![p].pc = "refresh"]
      BY <1>1, <1>6
    <2>2. Becomes(p, proc[p].cmd, "refresh", proc[p].goal, proc[p].next, seen,
                  proc[p].using, proc[p].displaced)
      BY <1>2, <2>1, ToRefresh DEF TypeInv
    <2> QED
      BY <1>1, <1>6, <2>2 DEF Renew
  <1> QED
    BY <1>4, <1>5, <1>6

LEMMA RefreshDoes ==
  ASSUME TypeInv, NEW p \in Process, Refresh(p)
  PROVE  /\ proc[p].pc = "refresh" /\ ServerRefreshes(p)
         /\ \/ LET renewed == CredentialOf(proc[p].credential.session, p, clock) IN
               /\ Rotates(proc[p].credential.token) /\ BeginReplace(p, renewed)
               /\ Becomes(p, proc[p].cmd, "save", proc[p].goal, proc[p].next, renewed,
                          proc[p].using, proc[p].displaced)
            \/ /\ ~Rotates(proc[p].credential.token) /\ BeginDelete(p)
               /\ \E next \in {"clear", "done"} : Turns(p, "discard", proc[p].goal, next)
         /\ UNCHANGED <<lockVars, keyring, plaintext, faults, forgotten, clock>>
PROOF
  <1>1. CASE Rotates(proc[p].credential.token)
    <2>1. PICK renewed : renewed = CredentialOf(proc[p].credential.session, p, clock)
      OBVIOUS
    <2>2. renewed \in Credential
      <3>1. proc[p].credential.session \in Session \cup {{}} /\ p \in Token
        BY DEF TypeInv, CliTypeOK, ProcState, Credential, Token
      <3> QED
        BY <2>1, <3>1, CredentialTypes DEF TypeInv, CliTypeOK
    <2>3. proc' = [proc EXCEPT ![p].credential = renewed, ![p].pc = "save"]
      BY <1>1, <2>1 DEF Refresh
    <2>4. Becomes(p, proc[p].cmd, "save", proc[p].goal, proc[p].next, renewed, proc[p].using,
                  proc[p].displaced)
      BY <2>2, <2>3, ToRefresh DEF TypeInv
    <2> QED
      BY <1>1, <2>1, <2>4 DEF Refresh
  <1>2. CASE ~Rotates(proc[p].credential.token)
    <2>1. PICK next \in {"clear", "done"} :
            proc' = [proc EXCEPT ![p].pc = "discard", ![p].next = next]
      BY <1>2 DEF Refresh
    <2> QED
      BY <1>2, <2>1, ToNext DEF TypeInv, Turns, Refresh
  <1> QED
    BY <1>1, <1>2

LEMMA SaveReturnsDoes ==
  ASSUME TypeInv, NEW p \in Process, SaveReturns(p)
  PROVE  /\ proc[p].pc = "save" /\ Returned(p) /\ Return(p) /\ StoreOnly
         /\ \/ /\ Ok(p)
               /\ \E next \in {"use", "retry"} :
                    Becomes(p, proc[p].cmd, "release", proc[p].goal, next, proc[p].credential, p,
                            proc[p].displaced)
            \/ ~Ok(p) /\ Turns(p, "unsaved", proc[p].goal, proc[p].next)
PROOF
  <1>1. CASE Ok(p)
    <2>1. PICK next \in {"use", "retry"} :
            next = IF proc[p].goal = "resolve" THEN "use" ELSE "retry"
      OBVIOUS
    <2>2. proc' = [proc EXCEPT ![p].using = p, ![p].pc = "release", ![p].next = next]
      BY <1>1, <2>1 DEF SaveReturns
    <2>3. p \in Token \cup {{}}
      BY DEF Token
    <2>4. Becomes(p, proc[p].cmd, "release", proc[p].goal, next, proc[p].credential, p,
                  proc[p].displaced)
      BY <2>2, <2>3, ToUse DEF TypeInv
    <2> QED
      BY <1>1, <2>4 DEF SaveReturns
  <1>2. CASE ~Ok(p)
    BY <1>2, Turn DEF TypeInv, SaveReturns
  <1> QED
    BY <1>1, <1>2

LEMMA RevokeUnsavedDoes ==
  ASSUME TypeInv, NEW p \in Process, RevokeUnsaved(p)
  PROVE  /\ proc[p].pc = "unsaved" /\ Turns(p, "discard", proc[p].goal, "done")
         /\ BeginDelete(p) /\ UNCHANGED <<lockVars, keyring, plaintext, forgotten, clock>>
         /\ \/ Revoke(p) /\ UNCHANGED faults
            \/ UNCHANGED serverVars /\ Fault("lost")
  BY ToNext DEF TypeInv, RevokeUnsaved, Turns

LEMMA ReleaseLockDoes ==
  ASSUME TypeInv, NEW p \in Process, ReleaseLock(p)
  PROVE  /\ proc[p].pc = "release" /\ UNCHANGED <<storeVars, serverVars, forgotten, clock>>
         /\ \/ /\ proc[p].next = "clear" /\ Turns(p, "lock", "clear", "")
               /\ lockFile' = {} /\ Lock!WaitGoes(p, "open") /\ UNCHANGED dead
            \/ /\ proc[p].next = "done" /\ Lock!Release(p)
               /\ Becomes(p, "", "done", "", "", NoCredential, {}, proc[p].displaced)
            \/ /\ proc[p].next \in {"use", "retry", "cleanup"} /\ Lock!Release(p)
               /\ Turns(p, proc[p].next, proc[p].goal, "")
PROOF
  <1>1. proc[p].pc = "release" /\ UNCHANGED <<storeVars, serverVars, forgotten, clock>>
    BY DEF ReleaseLock
  <1>2. proc[p].next \in {"clear", "done", "use", "retry", "cleanup"}
    BY <1>1 DEF TypeInv, CliTypeOK, ProcState, ShapeOK, Shape
  <1>3. CASE proc[p].next = "clear"
    <2>1. proc' = [proc EXCEPT ![p].pc = "lock", ![p].goal = "clear", ![p].next = ""]
      BY <1>3 DEF ReleaseLock
    <2>2. Turns(p, "lock", "clear", "")
      BY <2>1, ToGoal DEF TypeInv, Turns
    <2> QED
      BY <1>1, <1>3, <2>2 DEF ReleaseLock
  <1>4. CASE proc[p].next = "done"
    BY <1>1, <1>4, Turn DEF TypeInv, ReleaseLock
  <1>5. ASSUME NEW next \in {"use", "retry", "cleanup"}, proc[p].next = next
        PROVE  Lock!Release(p) /\ Turns(p, proc[p].next, proc[p].goal, "")
    <2>1. proc' = [proc EXCEPT ![p].pc = next, ![p].next = ""]
      BY <1>5 DEF ReleaseLock
    <2>2. Turns(p, next, proc[p].goal, "")
      BY <2>1, ToNext DEF TypeInv, Turns
    <2> QED
      BY <1>5, <2>2 DEF ReleaseLock
  <1> QED
    BY <1>1, <1>2, <1>3, <1>4, <1>5

LEMMA ReadForLogoutDoes ==
  ASSUME TypeInv, NEW p \in Process, ReadForLogout(p)
  PROVE  /\ proc[p].pc = "read" /\ UNCHANGED call /\ StoreOnly
         /\ \E seen \in {Visible, NoCredential}, next \in {"clear", "use", "done"} :
              /\ Read(seen) /\ (next = "use" => seen # NoCredential)
              /\ Becomes(p, proc[p].cmd, "release", proc[p].goal, next, seen, seen.token,
                         proc[p].displaced)
PROOF
  <1>1. PICK seen \in {Visible, NoCredential} :
          /\ Read(seen)
          /\ proc' = [proc EXCEPT ![p].credential = seen, ![p].using = seen.token,
               ![p].pc = "release",
               ![p].next = CASE proc[p].cmd = "logout" -> "clear"
                             [] proc[p].cmd = "revoke" /\ seen # NoCredential -> "use"
                             [] proc[p].cmd = "revoke" /\ seen = NoCredential -> "done"]
    BY DEF ReadForLogout
  <1>2. seen \in Credential
    BY CredentialTypes DEF TypeInv, CliTypeOK
  <1>3. seen.token \in Token \cup {{}}
    BY <1>2 DEF Credential
  <1>4. proc[p].cmd \in {"logout", "revoke"}
    BY DEF TypeInv, ShapeOK, Shape, ReadForLogout
  <1>5. PICK next \in {"clear", "use", "done"} :
          next = CASE proc[p].cmd = "logout" -> "clear"
                   [] proc[p].cmd = "revoke" /\ seen # NoCredential -> "use"
                   [] proc[p].cmd = "revoke" /\ seen = NoCredential -> "done"
    <2>1. CASE proc[p].cmd = "logout"
      BY <2>1
    <2>2. CASE proc[p].cmd = "revoke" /\ seen # NoCredential
      BY <2>2
    <2>3. CASE proc[p].cmd = "revoke" /\ seen = NoCredential
      BY <2>3
    <2> QED
      BY <1>4, <2>1, <2>2, <2>3
  <1>6. proc' = [proc EXCEPT ![p].credential = seen, ![p].using = seen.token,
                             ![p].pc = "release", ![p].next = next]
    BY <1>1, <1>5
  <1>7. Becomes(p, proc[p].cmd, "release", proc[p].goal, next, seen, seen.token, proc[p].displaced)
    BY <1>2, <1>3, <1>6, Seen DEF TypeInv
  <1>8. next = "use" => seen # NoCredential
    BY <1>4, <1>5
  <1> QED
    BY <1>1, <1>7, <1>8 DEF ReadForLogout

LEMMA ClearDoes ==
  ASSUME TypeInv, NEW p \in Process, Clear(p)
  PROVE  /\ proc[p].pc = "clear" /\ StoreOnly
         /\ \E seen \in {Visible, NoCredential} : Read(seen)
         /\ \/ /\ BeginDelete(p)
               /\ Becomes(p, proc[p].cmd, "clearing", proc[p].goal, proc[p].next,
                          proc[p].credential, proc[p].using, Visible.session)
            \/ UNCHANGED call /\ Turns(p, "release", proc[p].goal, "done")
PROOF
  <1>1. Visible.session \in Session \cup {{}}
    BY CredentialTypes DEF TypeInv, CliTypeOK, Credential
  <1>2. CASE BeginDelete(p) /\ proc' = [proc EXCEPT ![p].pc = "clearing",
                                                    ![p].displaced = Visible.session]
    BY <1>1, <1>2, ToStore DEF TypeInv, Clear
  <1>3. CASE Leaves(p, "done") /\ UNCHANGED call
    BY <1>3, Turn DEF TypeInv, Clear
  <1> QED
    BY <1>2, <1>3 DEF Clear

LEMMA PersistLoginDoes ==
  ASSUME TypeInv, NEW p \in Process, PersistLogin(p)
  PROVE  /\ proc[p].pc = "persist" /\ StoreOnly /\ UNCHANGED <<keyring, plaintext, faults>>
         /\ BeginWrite(p, proc[p].credential, proc[p].cmd = "insecure")
         /\ Becomes(p, proc[p].cmd, "persisting", proc[p].goal, proc[p].next,
                    proc[p].credential, proc[p].using, Visible.session)
PROOF
  <1>1. Visible.session \in Session \cup {{}}
    BY CredentialTypes DEF TypeInv, CliTypeOK, Credential
  <1> QED
    BY <1>1, ToStore DEF TypeInv, PersistLogin

LEMMA ReadThrowsDoes ==
  ASSUME TypeInv, NEW p \in Process, ReadThrows(p)
  PROVE  /\ proc[p].pc \in {"resolve", "renew", "read", "clear", "persist"}
         /\ UNCHANGED <<keyring, plaintext, call>> /\ StoreOnly /\ Fault("store")
         /\ \E next \in {"cleanup", "done"} :
              /\ next = "cleanup" <=> proc[p].pc = "persist"
              /\ Turns(p, "release", proc[p].goal, next)
PROOF
  <1>1. PICK next \in {"cleanup", "done"} :
          next = IF proc[p].pc = "persist" THEN "cleanup" ELSE "done"
    OBVIOUS
  <1>2. Turns(p, "release", proc[p].goal, next)
    BY <1>1, Turn DEF TypeInv, ReadThrows
  <1> QED
    BY <1>1, <1>2 DEF ReadThrows, ReadFails

LEMMA StartCommandDoes ==
  ASSUME TypeInv, NEW p \in Process, NEW cmd \in {"call", "logout", "revoke"}, StartCommand(p, cmd)
  PROVE  /\ proc[p].pc = "idle" /\ Lock!StartWaiting(p)
         /\ UNCHANGED <<storeVars, serverVars, forgotten, clock>>
         /\ \E goal \in {"resolve", "read"} :
              /\ goal = "read" => cmd # "call"
              /\ Becomes(p, cmd, "lock", goal, proc[p].next, proc[p].credential, proc[p].using,
                         proc[p].displaced)
PROOF
  <1>1. PICK goal \in {"resolve", "read"} : goal = IF cmd = "call" THEN "resolve" ELSE "read"
    OBVIOUS
  <1>2. proc' = [proc EXCEPT ![p].cmd = cmd, ![p].pc = "lock", ![p].goal = goal]
    BY <1>1 DEF StartCommand
  <1>3. Becomes(p, cmd, "lock", goal, proc[p].next, proc[p].credential, proc[p].using,
                proc[p].displaced)
    BY <1>2, ToCommand DEF TypeInv
  <1> QED
    BY <1>1, <1>3 DEF StartCommand

LEMMA StartLoginDoes ==
  ASSUME TypeInv, NEW p \in Process, NEW s \in Session, NEW cmd \in {"login", "insecure"},
         StartLogin(p, s, cmd)
  PROVE  /\ proc[p].pc = "idle" /\ Server!ExchangeDeviceAuthorization(s, s, clock)
         /\ UNCHANGED <<lockVars, storeVars, forgotten, clock>>
         /\ Becomes(p, cmd, "validate", proc[p].goal, proc[p].next, CredentialOf(s, s, clock), s,
                    proc[p].displaced)
PROOF
  <1>1. PICK credential : credential = CredentialOf(s, s, clock)
    OBVIOUS
  <1>2. credential \in Credential /\ s \in Token \cup {{}}
    BY <1>1, CredentialTypes DEF TypeInv, CliTypeOK, Token
  <1>3. proc' = [proc EXCEPT ![p].cmd = cmd, ![p].pc = "validate", ![p].using = s,
                             ![p].credential = credential]
    BY <1>1 DEF StartLogin
  <1>4. Becomes(p, cmd, "validate", proc[p].goal, proc[p].next, credential, s, proc[p].displaced)
    BY <1>2, <1>3, ToLogin DEF TypeInv
  <1> QED
    BY <1>1, <1>4 DEF StartLogin

-----------------------------------------------------------------------------
(* Every step keeps the types. *)

CallPc == {"idle", "set", "setMasked", "drop", "delete", "plain", "mask",
           "insecure", "unmask", "erase", "marker", "ok", "thrown"}

(* A fault is counted, and only a crash ends the calm. *)
LEMMA FaultCounts ==
  ASSUME StoreTypeOK, NEW kind \in {"crash", "lost", "store"}, Fault(kind)
  PROVE  /\ faults' \in [{"crash", "lost", "store"} -> 0..MaxFaults]
         /\ \A k \in {"crash", "lost", "store"} \ {kind} : faults'[k] = faults[k]
         /\ faults'[kind] > 0
PROOF
  <1>1. \A k \in {"crash", "lost", "store"} : faults[k] \in Nat
    BY Constants DEF StoreTypeOK
  <1>2. faults[kind] + 1 \in 0..MaxFaults
    BY <1>1, Constants DEF Fault
  <1>3. faults' = [faults EXCEPT ![kind] = faults[kind] + 1]
    BY DEF Fault
  <1> QED
    BY <1>1, <1>2, <1>3 DEF StoreTypeOK

(* The call of p becomes c. *)
CallBecomes(p, pc, credential) ==
  /\ call' \in [Process -> [pc : CallPc, credential : Credential]]
  /\ \A q \in Process \ {p} : call'[q] = call[q]
  /\ call'[p].pc = pc /\ call'[p].credential = credential

LEMMA Calling ==
  ASSUME StoreTypeOK, NEW p \in Process, NEW pc \in CallPc
  PROVE  /\ \A credential \in Credential :
              Begin(p, pc, credential) => CallBecomes(p, pc, credential)
         /\ call' = [call EXCEPT ![p] = NoCall] => CallBecomes(p, "idle", NoCredential)
         /\ CallGoes(p, pc) => CallBecomes(p, pc, call[p].credential)
PROOF
  <1>0. /\ call \in [Process -> [pc : CallPc, credential : Credential]]
        /\ call[p] \in [pc : CallPc, credential : Credential]
    BY DEF StoreTypeOK, CallPc
  <1>1. ASSUME NEW c \in [pc : CallPc, credential : Credential], call' = [call EXCEPT ![p] = c]
        PROVE  CallBecomes(p, c.pc, c.credential)
    BY <1>0, <1>1 DEF CallBecomes
  <1>2. ASSUME NEW credential \in Credential, Begin(p, pc, credential)
        PROVE  CallBecomes(p, pc, credential)
    BY <1>0, <1>2 DEF Begin, CallBecomes
  <1>3. ASSUME call' = [call EXCEPT ![p] = NoCall]
        PROVE  CallBecomes(p, "idle", NoCredential)
    BY <1>0, <1>3, CredentialTypes DEF NoCall, CallPc, CallBecomes
  <1>4. ASSUME CallGoes(p, pc)
        PROVE  CallBecomes(p, pc, call[p].credential)
    <2> DEFINE c == [call[p] EXCEPT !.pc = pc]
    <2>1. call' = [call EXCEPT ![p] = c]
      BY <1>0, <1>4 DEF CallGoes
    <2>2. c \in [pc : CallPc, credential : Credential]
      BY <1>0
    <2>3. c.pc = pc /\ c.credential = call[p].credential
      BY <1>0
    <2> HIDE DEF c
    <2> QED
      BY <2>1, <2>2, <2>3, <1>1
  <1> QED
    BY <1>2, <1>3, <1>4

(* One operation of a call of the store, and how the call goes on. *)
Moves(p, from, to) == call[p].pc = from /\ CallBecomes(p, to, call[p].credential)

KeyringMoves(p) ==
  /\ \/ keyring' = call[p].credential /\ (Moves(p, "set", "ok") \/ Moves(p, "setMasked", "unmask"))
     \/ keyring' = NoCredential /\ (Moves(p, "drop", "ok") \/ Moves(p, "delete", "erase"))
  /\ UNCHANGED <<plaintext, faults>>
KeyringKeeps(p) ==
  /\ \/ Moves(p, "set", "plain") \/ Moves(p, "setMasked", "ok")
     \/ Moves(p, "drop", "ok") \/ Moves(p, "delete", "marker")
  /\ UNCHANGED <<keyring, plaintext>> /\ Fault("store")
FileMoves(p) ==
  /\ \/ plaintext' = NoFile /\ (Moves(p, "unmask", "ok") \/ Moves(p, "erase", "ok"))
     \/ plaintext' = File("marker", NoCredential) /\ Moves(p, "marker", "ok")
     \/ /\ plaintext' = File("credential", call[p].credential)
        /\ \/ Moves(p, "plain", "ok") \/ Moves(p, "mask", "setMasked")
           \/ Moves(p, "insecure", "drop")
  /\ UNCHANGED <<keyring, faults>>
FileKeeps(p) ==
  /\ \/ Moves(p, "set", "thrown") \/ Moves(p, "plain", "thrown") \/ Moves(p, "mask", "thrown")
     \/ Moves(p, "insecure", "thrown")
     \/ Moves(p, "unmask", "ok") \/ Moves(p, "erase", "marker") \/ Moves(p, "marker", "thrown")
  /\ UNCHANGED <<keyring, plaintext>> /\ Fault("store")

LEMMA StoreStepDoes ==
  ASSUME StoreTypeOK, NEW p \in Process, StoreStep(p)
  PROVE  /\ KeyringMoves(p) \/ KeyringKeeps(p) \/ FileMoves(p) \/ FileKeeps(p)
         /\ UNCHANGED <<lockVars, serverVars, proc, forgotten, clock>>
PROOF
  <1>0. UNCHANGED <<lockVars, serverVars, proc, forgotten, clock>>
    BY DEF StoreStep
  <1>m. ASSUME NEW pc \in CallPc, CallGoes(p, pc)
        PROVE  CallBecomes(p, pc, call[p].credential)
    BY <1>m, Calling
  <1>1. CASE KeyringStep(p)
    <2>1. /\ call[p].pc \in {"set", "setMasked", "drop", "delete"}
          /\ UNCHANGED <<plaintext, faults>>
      BY <1>1 DEF KeyringStep, AfterKeyring
    <2>2. CASE call[p].pc = "set"
      BY <1>0, <1>1, <1>m, <2>1, <2>2 DEF KeyringStep, AfterKeyring, CallPc, Moves, KeyringMoves
    <2>3. CASE call[p].pc = "setMasked"
      BY <1>0, <1>1, <1>m, <2>1, <2>3 DEF KeyringStep, AfterKeyring, CallPc, Moves, KeyringMoves
    <2>4. CASE call[p].pc = "drop"
      BY <1>0, <1>1, <1>m, <2>1, <2>4 DEF KeyringStep, AfterKeyring, CallPc, Moves, KeyringMoves
    <2>5. CASE call[p].pc = "delete"
      BY <1>0, <1>1, <1>m, <2>1, <2>5 DEF KeyringStep, AfterKeyring, CallPc, Moves, KeyringMoves
    <2> QED
      BY <1>0, <2>1, <2>2, <2>3, <2>4, <2>5
  <1>2. CASE KeyringFails(p)
    <2>1. /\ call[p].pc \in {"set", "setMasked", "drop", "delete"}
          /\ UNCHANGED <<keyring, plaintext>> /\ Fault("store")
      BY <1>2 DEF KeyringFails, AfterKeyringError
    <2>2. CASE call[p].pc = "set"
      BY <1>0, <1>2, <1>m, <2>1, <2>2
        DEF KeyringFails, AfterKeyringError, CallPc, Moves, KeyringKeeps
    <2>3. CASE call[p].pc = "setMasked"
      BY <1>0, <1>2, <1>m, <2>1, <2>3
        DEF KeyringFails, AfterKeyringError, CallPc, Moves, KeyringKeeps
    <2>4. CASE call[p].pc = "drop"
      BY <1>0, <1>2, <1>m, <2>1, <2>4
        DEF KeyringFails, AfterKeyringError, CallPc, Moves, KeyringKeeps
    <2>5. CASE call[p].pc = "delete"
      BY <1>0, <1>2, <1>m, <2>1, <2>5
        DEF KeyringFails, AfterKeyringError, CallPc, Moves, KeyringKeeps
    <2> QED
      BY <1>0, <2>1, <2>2, <2>3, <2>4, <2>5
  <1>3. CASE FileStep(p)
    <2>1. /\ call[p].pc \in {"plain", "mask", "insecure", "unmask", "erase", "marker"}
          /\ UNCHANGED <<keyring, faults>>
      BY <1>3 DEF FileStep, AfterFile
    <2>2. CASE call[p].pc = "plain"
      BY <1>0, <1>3, <1>m, <2>1, <2>2 DEF FileStep, AfterFile, CallPc, Moves, FileMoves
    <2>3. CASE call[p].pc = "mask"
      BY <1>0, <1>3, <1>m, <2>1, <2>3 DEF FileStep, AfterFile, CallPc, Moves, FileMoves
    <2>4. CASE call[p].pc = "insecure"
      BY <1>0, <1>3, <1>m, <2>1, <2>4 DEF FileStep, AfterFile, CallPc, Moves, FileMoves
    <2>5. CASE call[p].pc = "unmask"
      BY <1>0, <1>3, <1>m, <2>1, <2>5 DEF FileStep, AfterFile, CallPc, Moves, FileMoves
    <2>6. CASE call[p].pc = "erase"
      BY <1>0, <1>3, <1>m, <2>1, <2>6 DEF FileStep, AfterFile, CallPc, Moves, FileMoves
    <2>7. CASE call[p].pc = "marker"
      BY <1>0, <1>3, <1>m, <2>1, <2>7 DEF FileStep, AfterFile, CallPc, Moves, FileMoves
    <2> QED
      BY <1>0, <2>1, <2>2, <2>3, <2>4, <2>5, <2>6, <2>7
  <1>4. CASE FileFails(p)
    <2>1. /\ call[p].pc \in {"set", "plain", "mask", "insecure", "unmask", "erase", "marker"}
          /\ UNCHANGED <<keyring, plaintext>> /\ Fault("store")
      BY <1>4 DEF FileFails, AfterFileError
    <2>2. CASE call[p].pc = "plain"
      BY <1>0, <1>4, <1>m, <2>1, <2>2 DEF FileFails, AfterFileError, CallPc, Moves, FileKeeps
    <2>3. CASE call[p].pc = "mask"
      BY <1>0, <1>4, <1>m, <2>1, <2>3 DEF FileFails, AfterFileError, CallPc, Moves, FileKeeps
    <2>4. CASE call[p].pc = "insecure"
      BY <1>0, <1>4, <1>m, <2>1, <2>4 DEF FileFails, AfterFileError, CallPc, Moves, FileKeeps
    <2>5. CASE call[p].pc = "unmask"
      BY <1>0, <1>4, <1>m, <2>1, <2>5 DEF FileFails, AfterFileError, CallPc, Moves, FileKeeps
    <2>6. CASE call[p].pc = "erase"
      BY <1>0, <1>4, <1>m, <2>1, <2>6 DEF FileFails, AfterFileError, CallPc, Moves, FileKeeps
    <2>7. CASE call[p].pc = "marker"
      BY <1>0, <1>4, <1>m, <2>1, <2>7 DEF FileFails, AfterFileError, CallPc, Moves, FileKeeps
    <2>8. CASE call[p].pc = "set"
      BY <1>0, <1>4, <1>m, <2>1, <2>8 DEF FileFails, AfterFileError, CallPc, Moves, FileKeeps
    <2> QED
      BY <1>0, <2>1, <2>2, <2>3, <2>4, <2>5, <2>6, <2>7, <2>8
  <1> QED
    BY <1>1, <1>2, <1>3, <1>4 DEF StoreStep

-----------------------------------------------------------------------------
(* The server's steps, row by row. *)

(* Every token of a session stands as its session does. *)
TokensOK == \A t \in Token :
  LET s == refresh[t].session_id IN
  /\ refresh[t].status = "none" =>
       s = {} /\ access[t].status = "none" /\ access[t].session_id = {}
  /\ t \in Session => s \in {t, {}}
  /\ refresh[t].status # "none" =>
       /\ s \in Session /\ access[t].session_id = s
       /\ sessions[s].status # "none"
       /\ refresh[t].status \in {"active", "used"} <=> sessions[s].status = "active"
       /\ access[t].status = "active" <=> sessions[s].status = "active"

SameSession(s) ==
  /\ sessions'[s].status = sessions[s].status
  /\ sessions'[s].idle_expires_at = sessions[s].idle_expires_at
  /\ sessions'[s].absolute_expires_at = sessions[s].absolute_expires_at
SameToken(t) ==
  /\ access'[t].status = access[t].status /\ access'[t].session_id = access[t].session_id
  /\ access'[t].expires_at = access[t].expires_at
  /\ refresh'[t].status = refresh[t].status /\ refresh'[t].session_id = refresh[t].session_id

Lasts(s) == sessions[s].idle_expires_at > clock /\ sessions[s].absolute_expires_at > clock

Exchanges(s) ==
  /\ sessions[s].status = "none" /\ sessions'[s].status = "active"
  /\ \A o \in Session \ {s} : SameSession(o)
  /\ access'[s].status = "active" /\ access'[s].session_id = s
  /\ access'[s].expires_at = clock + AccessLifetime
  /\ refresh'[s].status = "active" /\ refresh'[s].session_id = s
  /\ \A t \in Token \ {s} : SameToken(t)

Rotation(t, r) ==
  LET s == refresh[t].session_id IN
  /\ refresh[t].status = "active" /\ refresh[r].status = "none"
  /\ sessions[s].status = "active" /\ sessions'[s].status = "active"
  /\ sessions'[s].idle_expires_at > clock' /\ sessions'[s].absolute_expires_at > clock'
  /\ \A o \in Session \ {s} : SameSession(o)
  /\ refresh'[t].status = "used" /\ refresh'[t].session_id = s
  /\ access'[t].status = access[t].status /\ access'[t].session_id = access[t].session_id
  /\ access'[t].expires_at = access[t].expires_at
  /\ refresh'[r].status = "active" /\ refresh'[r].session_id = s
  /\ access'[r].status = "active" /\ access'[r].session_id = s
  /\ access'[r].expires_at = clock + AccessLifetime
  /\ \A o \in Token \ {t, r} : SameToken(o)

EndOf(s, status) ==
  /\ sessions[s].status # "none" /\ sessions'[s].status = status
  /\ sessions'[s].idle_expires_at = sessions[s].idle_expires_at
  /\ sessions'[s].absolute_expires_at = sessions[s].absolute_expires_at
  /\ \A o \in Session \ {s} : SameSession(o)
  /\ \A t \in Token :
       /\ access'[t].session_id = access[t].session_id
       /\ access'[t].expires_at = access[t].expires_at
       /\ refresh'[t].session_id = refresh[t].session_id
       /\ access'[t].status =
            IF access[t].session_id = s THEN "revoked" ELSE access[t].status
       /\ refresh'[t].status =
            IF refresh[t].session_id = s THEN "revoked" ELSE refresh[t].status

LEMMA ExchangeDoes ==
  ASSUME ServerTypeOK, clock \in Nat, NEW s \in Session,
         Server!ExchangeDeviceAuthorization(s, s, clock)
  PROVE  ServerTypeOK' /\ Exchanges(s)
PROOF
  <1>0. s \in Token
    BY DEF Token
  <1>1. authorizations[s] \in AuthorizationRow
    BY DEF ServerTypeOK
  <1> DEFINE row == authorizations[s]
             session == [status |-> "active", account_id |-> row.account_id,
                         idle_expires_at |-> row.approved_at + SessionIdle,
                         absolute_expires_at |-> row.approved_at + SessionAbsolute]
             token == [status |-> "active", session_id |-> s,
                       expires_at |-> clock + AccessLifetime]
             chain == [status |-> "active", session_id |-> s, parent |-> {}, replaced_by |-> {},
                       expires_at |-> row.approved_at + SessionAbsolute]
             used == [row EXCEPT !.status = "consumed"]
  <1>2. /\ sessions[s].status = "none"
        /\ sessions' = [sessions EXCEPT ![s] = session]
        /\ access' = [access EXCEPT ![s] = token]
        /\ refresh' = [refresh EXCEPT ![s] = chain]
        /\ authorizations' = [authorizations EXCEPT ![s] = used]
    BY <1>1 DEF Server!ExchangeDeviceAuthorization, AuthorizationRow, ServerTypeOK
  <1>3. row.approved_at \in Nat /\ row.account_id \in {"user"}
    BY <1>1 DEF AuthorizationRow
  <1>4. session \in SessionRow /\ token \in AccessRow /\ chain \in RefreshRow
    BY <1>3, Constants DEF SessionRow, AccessRow, RefreshRow
  <1>5. used \in AuthorizationRow
    BY <1>1 DEF AuthorizationRow
  <1>6. /\ session.status = "active" /\ token.status = "active" /\ token.session_id = s
        /\ token.expires_at = clock + AccessLifetime
        /\ chain.status = "active" /\ chain.session_id = s
    OBVIOUS
  <1> HIDE DEF session, token, chain, used
  <1>7. ServerTypeOK'
    BY <1>2, <1>4, <1>5 DEF ServerTypeOK
  <1>8. /\ sessions'[s] = session /\ \A o \in Session \ {s} : sessions'[o] = sessions[o]
        /\ access'[s] = token /\ \A t \in Token \ {s} : access'[t] = access[t]
        /\ refresh'[s] = chain /\ \A t \in Token \ {s} : refresh'[t] = refresh[t]
    BY <1>0, <1>2 DEF ServerTypeOK
  <1> QED
    BY <1>2, <1>6, <1>7, <1>8 DEF Exchanges, SameSession, SameToken

LEMMA RotationDoes ==
  ASSUME ServerTypeOK, TokensOK, clock \in Nat, UNCHANGED clock, NEW t \in Token,
         NEW p \in Process, Live(refresh[t].session_id), Server!RotateRefreshToken(t, p, clock)
  PROVE  ServerTypeOK' /\ Rotation(t, p)
PROOF
  <1>0. p \in Token
    BY DEF Token
  <1>1. /\ refresh[t].status = "active" /\ refresh[p].status = "none" /\ t # p
    BY DEF Server!RotateRefreshToken
  <1>2. PICK s \in Session : refresh[t].session_id = s
    BY <1>1 DEF TokensOK
  <1>3. refresh[t] \in RefreshRow /\ sessions[s] \in SessionRow /\ refresh[p] \in RefreshRow
    BY <1>0 DEF ServerTypeOK
  <1> DEFINE used == [refresh[t] EXCEPT !.status = "used", !.replaced_by = p]
             chain == [status |-> "active", session_id |-> s, parent |-> t, replaced_by |-> {},
                       expires_at |-> sessions[s].absolute_expires_at]
             token == [status |-> "active", session_id |-> s,
                       expires_at |-> clock + AccessLifetime]
             session == [sessions[s] EXCEPT !.idle_expires_at = clock + SessionIdle]
  <1>4. refresh' = [refresh EXCEPT ![t] = used, ![p] = chain]
    BY <1>1, <1>2, <1>3 DEF Server!RotateRefreshToken, RefreshRow, ServerTypeOK
  <1>5. /\ access' = [access EXCEPT ![p] = token]
        /\ sessions' = [sessions EXCEPT ![s] = session]
        /\ authorizations' = authorizations
        /\ sessions[s].status = "active"
    BY <1>2, <1>3 DEF Server!RotateRefreshToken, SessionRow, ServerTypeOK
  <1>6. used \in RefreshRow
    BY <1>0, <1>3 DEF RefreshRow
  <1>7. chain \in RefreshRow /\ token \in AccessRow
    BY <1>3, Constants DEF RefreshRow, AccessRow, SessionRow
  <1>8. session \in SessionRow
    BY <1>3, Constants DEF SessionRow
  <1>9. /\ used.status = "used" /\ used.session_id = s
        /\ chain.status = "active" /\ chain.session_id = s
        /\ token.status = "active" /\ token.session_id = s
        /\ token.expires_at = clock + AccessLifetime
        /\ session.status = "active"
    BY <1>2, <1>3, <1>5 DEF RefreshRow, SessionRow
  <1>l. session.idle_expires_at > clock /\ session.absolute_expires_at > clock
    BY <1>2, <1>3, Constants DEF SessionRow, Live
  <1> HIDE DEF used, chain, token, session
  <1>10. ServerTypeOK'
    <2>1. refresh' \in [Token -> RefreshRow]
      BY <1>4, <1>6, <1>7 DEF ServerTypeOK
    <2> QED
      BY <2>1, <1>5, <1>7, <1>8 DEF ServerTypeOK
  <1>11. /\ sessions'[s] = session /\ \A o \in Session \ {s} : sessions'[o] = sessions[o]
         /\ access'[p] = token /\ \A o \in Token \ {p} : access'[o] = access[o]
         /\ refresh'[p] = chain /\ refresh'[t] = used
         /\ \A o \in Token \ {t, p} : refresh'[o] = refresh[o]
    BY <1>0, <1>1, <1>4, <1>5 DEF ServerTypeOK
  <1> QED
    BY <1>1, <1>2, <1>5, <1>9, <1>10, <1>11, <1>l DEF Rotation, SameSession, SameToken, Lasts

LEMMA EndDoes ==
  ASSUME ServerTypeOK, NEW s \in Session, NEW status \in {"revoked", "compromised"},
         Server!EndSession(s, status)
  PROVE  ServerTypeOK' /\ EndOf(s, status)
PROOF
  <1> DEFINE session == [sessions[s] EXCEPT !.status = status]
             accessRow(t) == IF access[t].session_id = s
                             THEN [access[t] EXCEPT !.status = "revoked"] ELSE access[t]
             refreshRow(t) == IF refresh[t].session_id = s
                              THEN [refresh[t] EXCEPT !.status = "revoked"] ELSE refresh[t]
  <1>1. /\ sessions[s].status # "none"
        /\ sessions' = [sessions EXCEPT ![s] = session]
        /\ authorizations' = authorizations
    BY DEF Server!EndSession, ServerTypeOK
  <1>2. access' = [t \in Token |-> accessRow(t)] /\ refresh' = [t \in Token |-> refreshRow(t)]
    BY DEF Server!EndSession, Server!Token, Token
  <1>3. /\ session \in SessionRow /\ session.status = status
        /\ session.idle_expires_at = sessions[s].idle_expires_at
        /\ session.absolute_expires_at = sessions[s].absolute_expires_at
    BY DEF ServerTypeOK, SessionRow
  <1>4. ASSUME NEW t \in Token
        PROVE  /\ accessRow(t) \in AccessRow
               /\ accessRow(t).session_id = access[t].session_id
               /\ accessRow(t).expires_at = access[t].expires_at
               /\ accessRow(t).status =
                    IF access[t].session_id = s THEN "revoked" ELSE access[t].status
    BY DEF ServerTypeOK, AccessRow
  <1>5. ASSUME NEW t \in Token
        PROVE  /\ refreshRow(t) \in RefreshRow
               /\ refreshRow(t).session_id = refresh[t].session_id
               /\ refreshRow(t).status =
                    IF refresh[t].session_id = s THEN "revoked" ELSE refresh[t].status
    BY DEF ServerTypeOK, RefreshRow
  <1> HIDE DEF session, accessRow, refreshRow
  <1>6. ServerTypeOK'
    BY <1>1, <1>2, <1>3, <1>4, <1>5 DEF ServerTypeOK
  <1>7. /\ sessions'[s] = session /\ \A o \in Session \ {s} : sessions'[o] = sessions[o]
        /\ \A t \in Token : access'[t] = accessRow(t) /\ refresh'[t] = refreshRow(t)
    BY <1>1, <1>2 DEF ServerTypeOK
  <1> QED
    BY <1>1, <1>3, <1>4, <1>5, <1>6, <1>7 DEF EndOf, SameSession

(* What the server has issued stays with its session. *)
Grows ==
  /\ \A t \in Token : refresh[t].session_id # {} => refresh'[t].session_id = refresh[t].session_id
  /\ \A s \in Session : sessions[s].status # "none" => sessions'[s].status # "none"

LEMMA ExchangeKeeps ==
  ASSUME ServerTypeOK, TokensOK, NEW s \in Session, Exchanges(s)
  PROVE  TokensOK' /\ Grows
PROOF
  <1>0. s \in Token /\ {} \notin Session
    BY Constants DEF Token
  <1>1. refresh[s].session_id = {}
    BY <1>0 DEF TokensOK, Exchanges
  <1>2. ASSUME NEW t \in Token \ {s}
        PROVE  refresh[t].session_id # s
    BY <1>0, <1>2 DEF TokensOK, Exchanges
  <1>3. Grows
    BY <1>1 DEF Grows, Exchanges, SameSession, SameToken
  <1>4. ASSUME NEW t \in Token \ {s}
        PROVE  LET o == refresh'[t].session_id IN
               /\ refresh'[t].status = "none" =>
                    o = {} /\ access'[t].status = "none" /\ access'[t].session_id = {}
               /\ t \in Session => o \in {t, {}}
               /\ refresh'[t].status # "none" =>
                    /\ o \in Session /\ access'[t].session_id = o
                    /\ sessions'[o].status # "none"
                    /\ refresh'[t].status \in {"active", "used"} <=> sessions'[o].status = "active"
                    /\ access'[t].status = "active" <=> sessions'[o].status = "active"
    <2>1. SameToken(t)
      BY <1>4 DEF Exchanges
    <2>2. refresh[t].status # "none" =>
            /\ refresh[t].session_id \in Session
            /\ sessions'[refresh[t].session_id].status = sessions[refresh[t].session_id].status
      BY <1>2 DEF TokensOK, Exchanges, SameSession
    <2> QED
      BY <2>1, <2>2 DEF TokensOK, SameToken
  <1>5. /\ refresh'[s].status = "active" /\ access'[s].status = "active"
        /\ refresh'[s].session_id = s /\ access'[s].session_id = s
        /\ sessions'[s].status = "active"
    BY DEF Exchanges
  <1> QED
    BY <1>3, <1>4, <1>5 DEF TokensOK

LEMMA RotationKeeps ==
  ASSUME ServerTypeOK, TokensOK, NEW t \in Token, NEW p \in Process, Rotation(t, p)
  PROVE  TokensOK' /\ Grows
PROOF
  <1>0. p \in Token /\ p \notin Session /\ t # p
    BY Constants DEF Token, Rotation
  <1>1. PICK s \in Session : refresh[t].session_id = s
    BY DEF TokensOK, Rotation
  <1>2. refresh[p].session_id = {}
    BY <1>0 DEF TokensOK, Rotation
  <1>3. \A o \in Session : sessions'[o].status = sessions[o].status
    BY <1>1 DEF Rotation, SameSession
  <1>4. Grows
    BY <1>1, <1>2, <1>3 DEF Grows, Rotation, SameToken
  <1>5. ASSUME NEW o \in Token
        PROVE  LET e == refresh'[o].session_id IN
               /\ refresh'[o].status = "none" =>
                    e = {} /\ access'[o].status = "none" /\ access'[o].session_id = {}
               /\ o \in Session => e \in {o, {}}
               /\ refresh'[o].status # "none" =>
                    /\ e \in Session /\ access'[o].session_id = e
                    /\ sessions'[e].status # "none"
                    /\ refresh'[o].status \in {"active", "used"} <=> sessions'[e].status = "active"
                    /\ access'[o].status = "active" <=> sessions'[e].status = "active"
    <2>1. CASE o \notin {t, p}
      <3>1. SameToken(o)
        BY <2>1 DEF Rotation
      <3> QED
        BY <3>1, <1>3 DEF TokensOK, SameToken
    <2>2. CASE o = t
      BY <2>2, <1>1, <1>3 DEF TokensOK, Rotation
    <2>3. CASE o = p
      BY <2>3, <1>0, <1>1, <1>3 DEF Rotation
    <2> QED
      BY <2>1, <2>2, <2>3
  <1> QED
    BY <1>4, <1>5 DEF TokensOK

LEMMA EndKeeps ==
  ASSUME ServerTypeOK, TokensOK, NEW s \in Session, NEW status \in {"revoked", "compromised"},
         EndOf(s, status)
  PROVE  TokensOK' /\ Grows
PROOF
  <1>1. Grows
    BY DEF Grows, EndOf, SameSession
  <1>2. ASSUME NEW o \in Token
        PROVE  LET e == refresh'[o].session_id IN
               /\ refresh'[o].status = "none" =>
                    e = {} /\ access'[o].status = "none" /\ access'[o].session_id = {}
               /\ o \in Session => e \in {o, {}}
               /\ refresh'[o].status # "none" =>
                    /\ e \in Session /\ access'[o].session_id = e
                    /\ sessions'[e].status # "none"
                    /\ refresh'[o].status \in {"active", "used"} <=> sessions'[e].status = "active"
                    /\ access'[o].status = "active" <=> sessions'[e].status = "active"
    <2>1. CASE refresh[o].status = "none"
      <3>1. refresh[o].session_id = {} /\ access[o].session_id = {} /\ {} # s
        BY <2>1, Constants DEF TokensOK
      <3> QED
        BY <2>1, <3>1 DEF TokensOK, EndOf
    <2>2. CASE refresh[o].status # "none" /\ refresh[o].session_id = s
      BY <2>2 DEF TokensOK, EndOf
    <2>3. CASE refresh[o].status # "none" /\ refresh[o].session_id # s
      BY <2>3 DEF TokensOK, EndOf, SameSession
    <2> QED
      BY <2>1, <2>2, <2>3
  <1> QED
    BY <1>1, <1>2 DEF TokensOK

-----------------------------------------------------------------------------
(* Every credential is one the server issued: its token belongs to its     *)
(* session.  A call of the store runs for the process that waits for it.   *)

Genuine(c) ==
  c # NoCredential =>
    c.session \in Session /\ c.token \in Token /\ refresh[c.token].session_id = c.session

(* The process has a login it neither kept nor gave up. *)
Unkept(r) ==
  \/ r.pc \in {"validate", "persist", "persisting", "cleanup"}
  \/ r.pc = "lock" /\ r.goal = "persist"
  \/ r.pc = "release" /\ r.next = "cleanup"

ProcOK(p) ==
  LET r == proc[p] IN
  /\ Shape(r) /\ Genuine(r.credential)
  /\ r.pc = "refresh" => r.credential # NoCredential
  /\ r.pc \in {"save", "unsaved"} => r.credential.token = p /\ r.credential.session \in Session
  /\ Unkept(r) => r.using \in Session /\ r.credential.session = r.using
                  /\ r.credential.token = r.using
  /\ r.pc \in {"use", "retry"} \/ r.next \in {"use", "retry"} => r.using \in Token

CallOK(p) ==
  LET pc == proc[p].pc
      c == call[p] IN
  /\ pc = "save" => c.pc \in {"set", "plain", "ok", "thrown"}
  /\ pc = "persisting" => c.pc \in {"set", "plain", "insecure", "drop", "mask", "setMasked",
                                    "unmask", "ok", "thrown"}
  /\ pc \in {"save", "persisting"} => c.credential = proc[p].credential
  /\ pc \in {"discard", "clearing"} =>
       c.pc \in {"delete", "erase", "marker", "ok", "thrown"} /\ c.credential = NoCredential
  /\ pc \notin {"save", "persisting", "discard", "clearing"} =>
       c.pc = "idle" /\ c.credential = NoCredential

BaseInv ==
  /\ TypeInv /\ TokensOK
  /\ Genuine(keyring) /\ Genuine(plaintext.credential)
  /\ \A p \in Process : ProcOK(p) /\ CallOK(p)

LEMMA BaseInit == Init => BaseInv
PROOF
  <1> SUFFICES ASSUME Init PROVE BaseInv
    OBVIOUS
  <1>1. First \in Token /\ First \in Session /\ {} \notin Token
    BY Constants DEF Token
  <1>2. \A p \in Process : proc[p] = NoProc /\ call[p] = NoCall
    BY DEF Init
  <1>3. TypeInv
    <2>1. Shape(NoProc)
      BY DEF Shape, NoProc
    <2>2. ShapeOK
      BY <1>2, <2>1 DEF ShapeOK
    <2> QED
      BY <2>2, TypeInit DEF TypeInv
  <1>4. \A t \in Token :
          /\ refresh[t].status = IF t = First THEN "active" ELSE "none"
          /\ refresh[t].session_id = IF t = First THEN First ELSE {}
          /\ access[t].status = IF t = First THEN "active" ELSE "none"
          /\ access[t].session_id = IF t = First THEN First ELSE {}
    BY DEF Init
  <1>5. sessions[First].status = "active"
    BY <1>1 DEF Init
  <1>6. TokensOK
    BY <1>1, <1>4, <1>5 DEF TokensOK
  <1>7. Genuine(CredentialOf(First, First, 0)) /\ Genuine(NoCredential)
    BY <1>1, <1>4 DEF Genuine, CredentialOf
  <1>8. Genuine(keyring)
    BY <1>7 DEF Init
  <1>9. Genuine(plaintext.credential)
    BY <1>7 DEF Init, File, NoFile
  <1>10. \A p \in Process : ProcOK(p) /\ CallOK(p)
    <2>1. /\ NoProc.pc = "idle" /\ NoProc.goal = "" /\ NoProc.next = ""
          /\ NoProc.credential = NoCredential
          /\ NoCall.pc = "idle" /\ NoCall.credential = NoCredential
      BY DEF NoProc, NoCall
    <2>2. Shape(NoProc) /\ ~Unkept(NoProc)
      BY DEF Shape, Unkept, NoProc
    <2> QED
      BY <1>2, <1>7, <2>1, <2>2 DEF ProcOK, CallOK
  <1> QED
    BY <1>3, <1>6, <1>8, <1>9, <1>10 DEF BaseInv

(* A genuine credential stays one. *)
LEMMA GenuineStays ==
  ASSUME Grows, NEW c, Genuine(c)
  PROVE  c # NoCredential => c.session \in Session /\ c.token \in Token
                             /\ refresh'[c.token].session_id = c.session
  BY Constants DEF Genuine, Grows

LEMMA VisibleGenuine ==
  ASSUME BaseInv
  PROVE  Genuine(Visible) /\ Genuine(NoCredential)
  BY DEF BaseInv, TypeInv, CliTypeOK, StoreTypeOK, Genuine, Visible

LEMMA ProcKeeps ==
  ASSUME BaseInv, Grows, NEW q \in Process, proc'[q] = proc[q]
  PROVE  ProcOK(q)'
PROOF
  <1>1. ProcOK(q)
    BY DEF BaseInv
  <1>2. Genuine(proc[q].credential)'
    BY <1>1, GenuineStays DEF ProcOK, Genuine
  <1> QED
    BY <1>1, <1>2 DEF ProcOK

LEMMA OthersKeep ==
  ASSUME BaseInv, Grows, NEW q \in Process, proc'[q] = proc[q], call'[q] = call[q]
  PROVE  ProcOK(q)' /\ CallOK(q)'
PROOF
  <1>1. CallOK(q)
    BY DEF BaseInv
  <1> QED
    BY <1>1, ProcKeeps DEF CallOK

ServerFine == ServerTypeOK' /\ TokensOK' /\ Grows
StoreFine == StoreTypeOK' /\ Genuine(keyring)' /\ Genuine(plaintext.credential)'

LEMMA BaseStep ==
  ASSUME BaseInv, NEW p \in Process, ServerFine, StoreFine, Lock!LockTypeOK',
         proc' \in [Process -> ProcState], forgotten' \subseteq Session, clock' \in Nat,
         \A q \in Process \ {p} : proc'[q] = proc[q] /\ call'[q] = call[q],
         ProcOK(p)', CallOK(p)'
  PROVE  BaseInv'
PROOF
  <1>1. \A q \in Process : ProcOK(q)' /\ CallOK(q)'
    BY OthersKeep DEF ServerFine
  <1>2. ShapeOK'
    BY <1>1 DEF ShapeOK, ProcOK
  <1> QED
    BY <1>1, <1>2 DEF BaseInv, TypeInv, CliTypeOK, ServerFine, StoreFine

(* What each part of a step does to its part of the state. *)
LEMMA ServerQuiet ==
  ASSUME BaseInv, UNCHANGED serverVars
  PROVE  ServerFine
PROOF
  <1>1. ServerTypeOK'
    BY DEF BaseInv, TypeInv, CliTypeOK, ServerTypeOK, serverVars
  <1>2. TokensOK'
    BY DEF BaseInv, TokensOK, serverVars
  <1>3. Grows
    BY DEF Grows, serverVars
  <1> QED
    BY <1>1, <1>2, <1>3 DEF ServerFine

LEMMA RevokeDoes ==
  ASSUME BaseInv, NEW t \in Token, Revoke(t)
  PROVE  /\ ServerFine
         /\ \/ UNCHANGED serverVars
            \/ \E s \in Session : /\ access[t].session_id = s /\ sessions[s].status = "active"
                                  /\ EndOf(s, "revoked")
PROOF
  <1>1. CASE Usable(t)
    <2>1. PICK s \in Session : access[t].session_id = s
      BY <1>1 DEF BaseInv, TokensOK, Usable, Live
    <2>2. Server!EndSession(s, "revoked") /\ sessions[s].status = "active"
      BY <1>1, <2>1 DEF Revoke, Server!RevokeCliSession, Usable, Live
    <2>3. ServerTypeOK' /\ EndOf(s, "revoked")
      BY <2>2, EndDoes DEF BaseInv, TypeInv, CliTypeOK
    <2>4. TokensOK' /\ Grows
      BY <2>3, EndKeeps DEF BaseInv, TypeInv, CliTypeOK
    <2> QED
      BY <2>1, <2>2, <2>3, <2>4 DEF ServerFine
  <1>2. CASE ~Usable(t)
    BY <1>2, ServerQuiet DEF Revoke
  <1> QED
    BY <1>1, <1>2

LEMMA ServerRefreshesDoes ==
  ASSUME BaseInv, NEW p \in Process, proc[p].pc = "refresh", ServerRefreshes(p), UNCHANGED clock
  PROVE  LET t == proc[p].credential.token IN
         /\ ServerFine /\ t \in Token
         /\ \/ Rotates(t) /\ Rotation(t, p)
            \/ ~Rotates(t) /\ UNCHANGED serverVars
            \/ /\ ~Rotates(t) /\ refresh[t].status = "used"
               /\ refresh[t].session_id \in Session /\ EndOf(refresh[t].session_id, "compromised")
PROOF
  <1>1. PICK t \in Token : proc[p].credential.token = t
    BY DEF BaseInv, ProcOK, Genuine
  <1>2. CASE Rotates(t)
    <2>1. Server!RotateRefreshToken(t, p, clock)
      BY <1>1, <1>2 DEF ServerRefreshes
    <2>2. ServerTypeOK' /\ Rotation(t, p)
      BY <1>2, <2>1, RotationDoes DEF BaseInv, TypeInv, CliTypeOK, Rotates
    <2>3. TokensOK' /\ Grows
      BY <2>2, RotationKeeps DEF BaseInv, TypeInv, CliTypeOK
    <2> QED
      BY <1>1, <1>2, <2>2, <2>3 DEF ServerFine
  <1>3. CASE ~Rotates(t) /\ refresh[t].status = "used"
    <2>1. PICK s \in Session : refresh[t].session_id = s
      BY <1>3 DEF BaseInv, TokensOK
    <2>2. Server!EndSession(s, "compromised")
      BY <1>1, <1>3, <2>1 DEF ServerRefreshes, Server!CompromiseCliSession
    <2>3. ServerTypeOK' /\ EndOf(s, "compromised")
      BY <2>2, EndDoes DEF BaseInv, TypeInv, CliTypeOK
    <2>4. TokensOK' /\ Grows
      BY <2>3, EndKeeps DEF BaseInv, TypeInv, CliTypeOK
    <2> QED
      BY <1>1, <1>3, <2>1, <2>3, <2>4 DEF ServerFine
  <1>4. CASE ~Rotates(t) /\ refresh[t].status # "used"
    <2>1. UNCHANGED serverVars
      BY <1>1, <1>4 DEF ServerRefreshes
    <2> QED
      BY <1>1, <1>4, <2>1, ServerQuiet
  <1> QED
    BY <1>2, <1>3, <1>4

FaultsOK == UNCHANGED faults \/ \E kind \in {"crash", "lost", "store"} : Fault(kind)

(* The store is not written: only the call of p and the faults may change. *)
LEMMA StoreQuiet ==
  ASSUME BaseInv, Grows, UNCHANGED <<keyring, plaintext>>, FaultsOK, NEW p \in Process,
         \/ UNCHANGED call
         \/ \E pc \in CallPc, credential \in Credential : CallBecomes(p, pc, credential)
  PROVE  StoreFine /\ \A q \in Process \ {p} : call'[q] = call[q]
PROOF
  <1>1. faults' \in [{"crash", "lost", "store"} -> 0..MaxFaults]
    BY FaultCounts DEF FaultsOK, BaseInv, TypeInv, CliTypeOK, StoreTypeOK
  <1>2. call' \in [Process -> [pc : CallPc, credential : Credential]]
    BY DEF CallBecomes, CallPc, BaseInv, TypeInv, CliTypeOK, StoreTypeOK
  <1>3. StoreTypeOK'
    BY <1>1, <1>2 DEF StoreTypeOK, CallPc, BaseInv, TypeInv, CliTypeOK
  <1>4. Genuine(keyring)' /\ Genuine(plaintext.credential)'
    BY GenuineStays DEF BaseInv, Genuine
  <1>5. \A q \in Process \ {p} : call'[q] = call[q]
    BY DEF CallBecomes
  <1> QED
    BY <1>3, <1>4, <1>5 DEF StoreFine

LEMMA LockTypes ==
  ASSUME Lock!LockTypeOK, NEW p \in Process,
         \/ UNCHANGED lockVars
         \/ Lock!StartWaiting(p) \/ Lock!OpenLock(p) \/ Lock!FindLocked(p) \/ Lock!RemoveStale(p)
         \/ Lock!LockTimesOut(p) \/ Lock!Release(p) \/ Lock!Die(p)
         \/ lockFile' = {} /\ Lock!WaitGoes(p, "open") /\ UNCHANGED dead
  PROVE  Lock!LockTypeOK'
  BY DEF Lock!LockTypeOK, lockVars, Lock!WaitGoes, Lock!StartWaiting, Lock!OpenLock,
         Lock!FindLocked, Lock!RemoveStale, Lock!LockTimesOut, Lock!Release, Lock!Die

(* Where a call may stand while its process waits for it. *)
LEMMA MovesOn ==
  ASSUME BaseInv, NEW p \in Process, NEW from, NEW to, Moves(p, from, to),
         UNCHANGED <<serverVars, proc>>,
         <<from, to>> \in {<<"set", "ok">>, <<"setMasked", "unmask">>, <<"drop", "ok">>,
                           <<"delete", "erase">>, <<"set", "plain">>, <<"setMasked", "ok">>,
                           <<"delete", "marker">>, <<"unmask", "ok">>, <<"erase", "ok">>,
                           <<"marker", "ok">>, <<"plain", "ok">>, <<"mask", "setMasked">>,
                           <<"insecure", "drop">>, <<"plain", "thrown">>, <<"mask", "thrown">>,
                           <<"insecure", "thrown">>, <<"erase", "marker">>,
                           <<"marker", "thrown">>, <<"set", "thrown">>}
  PROVE  /\ proc[p].pc \in {"save", "persisting", "discard", "clearing"}
         /\ from \in {"set", "setMasked", "plain", "mask", "insecure"} =>
              call[p].credential = proc[p].credential
         /\ CallOK(p)' /\ ProcOK(p)'
PROOF
  <1>0. CallOK(p) /\ ProcOK(p)
    BY DEF BaseInv
  <1>1. /\ call[p].pc = from /\ call'[p].pc = to /\ call'[p].credential = call[p].credential
        /\ proc'[p] = proc[p]
    BY DEF Moves, CallBecomes
  <1>2. from # "idle" /\ from # "ok" /\ from # "thrown"
    OBVIOUS
  <1>3. proc[p].pc \in {"save", "persisting", "discard", "clearing"}
    BY <1>0, <1>1, <1>2 DEF CallOK
  <1>7. ProcOK(p)'
    BY <1>1, ServerQuiet, ProcKeeps DEF ServerFine
  <1>4. CASE proc[p].pc = "save"
    <2>1. from \in {"set", "plain"}
      BY <1>0, <1>1, <1>2, <1>4 DEF CallOK
    <2>2. to \in {"plain", "ok", "thrown"}
      BY <2>1
    <2>3. CallOK(p)'
      BY <1>0, <1>1, <1>4, <2>2 DEF CallOK
    <2> QED
      BY <1>0, <1>1, <1>4, <1>7, <2>1, <2>3 DEF CallOK
  <1>5. CASE proc[p].pc = "persisting"
    <2>1. from \in {"set", "plain", "insecure", "drop", "mask", "setMasked", "unmask"}
      BY <1>0, <1>1, <1>2, <1>5 DEF CallOK
    <2>2. to \in {"plain", "unmask", "setMasked", "drop", "ok", "thrown"}
      BY <2>1
    <2>3. CallOK(p)'
      BY <1>0, <1>1, <1>5, <2>2 DEF CallOK
    <2> QED
      BY <1>0, <1>1, <1>5, <1>7, <2>1, <2>3 DEF CallOK
  <1>6. CASE proc[p].pc \in {"discard", "clearing"}
    <2>1. from \in {"delete", "erase", "marker"}
      BY <1>0, <1>1, <1>2, <1>6 DEF CallOK
    <2>2. to \in {"erase", "marker", "ok", "thrown"}
      BY <2>1
    <2>3. CallOK(p)'
      BY <1>0, <1>1, <1>6, <2>2 DEF CallOK
    <2> QED
      BY <1>0, <1>1, <1>6, <1>7, <2>1, <2>3 DEF CallOK
  <1> QED
    BY <1>3, <1>4, <1>5, <1>6

LEMMA StoreStepBase ==
  ASSUME BaseInv, NEW p \in Process, StoreStep(p)
  PROVE  BaseInv'
PROOF
  <1>0. StoreTypeOK /\ NoCredential \in Credential
    BY CredentialTypes DEF BaseInv, TypeInv, CliTypeOK
  <1>1. /\ KeyringMoves(p) \/ KeyringKeeps(p) \/ FileMoves(p) \/ FileKeeps(p)
        /\ UNCHANGED <<lockVars, serverVars, proc, forgotten, clock>>
    BY <1>0, StoreStepDoes
  <1>2. ServerFine
    BY <1>1, ServerQuiet
  <1>3. call[p].credential \in Credential /\ ProcOK(p)
    BY <1>0 DEF StoreTypeOK, BaseInv
  <1>4. ASSUME NEW from, NEW to, Moves(p, from, to)
        PROVE  /\ call' \in [Process -> [pc : CallPc, credential : Credential]]
               /\ \A q \in Process \ {p} : call'[q] = call[q]
    BY <1>4 DEF Moves, CallBecomes
  <1>5. CASE KeyringMoves(p)
    <2>1. /\ CallOK(p)' /\ ProcOK(p)'
          /\ call' \in [Process -> [pc : CallPc, credential : Credential]]
          /\ \A q \in Process \ {p} : call'[q] = call[q]
      BY <1>1, <1>4, <1>5, MovesOn DEF KeyringMoves
    <2>2. keyring' \in {NoCredential, proc[p].credential}
      BY <1>1, <1>5, MovesOn DEF KeyringMoves
    <2>3. keyring' \in Credential /\ Genuine(keyring')
      BY <1>0, <1>3, <1>5, <2>2 DEF ProcOK, Genuine, KeyringMoves
    <2>4. StoreFine
      BY <1>0, <1>1, <1>5, <2>1, <2>3
      DEF StoreFine, StoreTypeOK, KeyringMoves, CallPc, Genuine, serverVars, BaseInv
    <2> QED
      BY <1>1, <1>2, <2>1, <2>4, BaseStep, LockTypes DEF BaseInv, TypeInv, CliTypeOK
  <1>6. CASE FileMoves(p)
    <2>1. /\ CallOK(p)' /\ ProcOK(p)'
          /\ call' \in [Process -> [pc : CallPc, credential : Credential]]
          /\ \A q \in Process \ {p} : call'[q] = call[q]
      BY <1>1, <1>4, <1>6, MovesOn DEF FileMoves
    <2>2. \E kind \in {"none", "marker", "credential"},
             credential \in {NoCredential, proc[p].credential} :
            plaintext' = File(kind, credential)
      BY <1>1, <1>6, MovesOn DEF FileMoves, NoFile
    <2>3. proc[p].credential \in Credential
      BY DEF BaseInv, TypeInv, CliTypeOK, ProcState
    <2>4. /\ plaintext' \in [kind : {"none", "invalid", "marker", "credential"},
                             credential : Credential]
          /\ Genuine(plaintext'.credential)
      BY <1>0, <1>3, <2>2, <2>3 DEF ProcOK, Genuine, File
    <2>5. StoreFine
      BY <1>0, <1>1, <1>6, <2>1, <2>4
      DEF StoreFine, StoreTypeOK, FileMoves, CallPc, Genuine, serverVars, BaseInv
    <2> QED
      BY <1>1, <1>2, <2>1, <2>5, BaseStep, LockTypes DEF BaseInv, TypeInv, CliTypeOK
  <1>7. CASE KeyringKeeps(p) \/ FileKeeps(p)
    <2>1. CallOK(p)' /\ ProcOK(p)'
      BY <1>1, <1>7, MovesOn DEF KeyringKeeps, FileKeeps
    <2>2. \E pc \in CallPc, credential \in Credential : CallBecomes(p, pc, credential)
      BY <1>3, <1>7 DEF KeyringKeeps, FileKeeps, Moves, CallPc
    <2>3. FaultsOK /\ UNCHANGED <<keyring, plaintext>>
      BY <1>7 DEF KeyringKeeps, FileKeeps, FaultsOK
    <2>4. StoreFine /\ \A q \in Process \ {p} : call'[q] = call[q]
      BY <1>2, <2>2, <2>3, StoreQuiet DEF ServerFine
    <2> QED
      BY <1>1, <1>2, <2>1, <2>4, BaseStep, LockTypes DEF BaseInv, TypeInv, CliTypeOK
  <1> QED
    BY <1>1, <1>5, <1>6, <1>7

Calling4 == {"save", "persisting", "discard", "clearing"}

(* A step of p outside its calls of the store. *)
LEMMA LocalStep ==
  ASSUME BaseInv, NEW p \in Process, ServerFine, UNCHANGED <<keyring, plaintext, call>>,
         FaultsOK, Lock!LockTypeOK', UNCHANGED <<forgotten, clock>>,
         NEW cmd, NEW pc, NEW goal, NEW next, NEW credential, NEW using, NEW displaced,
         Becomes(p, cmd, pc, goal, next, credential, using, displaced),
         proc[p].pc \notin Calling4, pc \notin Calling4,
         Shape(proc[p])', Genuine(credential),
         pc = "refresh" => credential # NoCredential,
         pc = "unsaved" => credential.token = p /\ credential.session \in Session,
         Unkept(proc[p])' => using \in Session /\ credential.session = using
                             /\ credential.token = using,
         pc \in {"use", "retry"} \/ next \in {"use", "retry"} => using \in Token
  PROVE  BaseInv'
PROOF
  <1>1. StoreFine /\ \A q \in Process \ {p} : call'[q] = call[q]
    BY StoreQuiet DEF ServerFine
  <1>2. /\ proc' \in [Process -> ProcState] /\ \A q \in Process \ {p} : proc'[q] = proc[q]
        /\ proc'[p].pc = pc /\ proc'[p].next = next /\ proc'[p].credential = credential
        /\ proc'[p].using = using
    BY DEF Becomes
  <1>3. CallOK(p)'
    BY <1>2 DEF BaseInv, CallOK, Calling4
  <1>4. Genuine(proc[p].credential)'
    BY <1>2, GenuineStays DEF ServerFine, Genuine
  <1>5. ProcOK(p)'
    BY <1>2, <1>4 DEF ProcOK, Calling4
  <1> QED
    BY <1>1, <1>2, <1>3, <1>5, BaseStep DEF BaseInv, TypeInv, CliTypeOK

LEMMA LocalTurn ==
  ASSUME BaseInv, NEW p \in Process, ServerFine, UNCHANGED <<keyring, plaintext, call>>,
         FaultsOK, Lock!LockTypeOK', UNCHANGED <<forgotten, clock>>,
         NEW pc, NEW goal, NEW next, Turns(p, pc, goal, next),
         proc[p].pc \notin Calling4, pc \notin Calling4 \cup {"refresh", "unsaved", "idle"},
         goal \in {proc[p].goal, "renew", "clear", "persist"},
         pc = "read" => goal = "read", pc = "lock" => goal # "", pc = "release" => next # "",
         pc \in {"cleanup", "persist"} => Unkept(proc[p]),
         pc = "lock" /\ goal = "persist" => Unkept(proc[p]),
         pc = "release" /\ next = "cleanup" => Unkept(proc[p]),
         pc \in {"use", "retry"} \/ next \in {"use", "retry"} =>
           proc[p].pc \in {"use", "retry"} \/ proc[p].next \in {"use", "retry"},
         pc # "validate"
  PROVE  BaseInv'
PROOF
  <1>1. ProcOK(p)
    BY DEF BaseInv
  <1>2. /\ proc'[p].cmd = proc[p].cmd /\ proc'[p].pc = pc /\ proc'[p].goal = goal
        /\ proc'[p].next = next
    BY DEF Turns, Becomes
  <1>3. Shape(proc[p])'
    BY <1>1, <1>2 DEF Shape, ProcOK, Calling4
  <1>4. Unkept(proc[p])' => Unkept(proc[p])
    BY <1>2 DEF Unkept, Calling4
  <1>5. Unkept(proc[p])' => proc[p].using \in Session /\ proc[p].credential.session = proc[p].using
                            /\ proc[p].credential.token = proc[p].using
    BY <1>1, <1>4 DEF ProcOK
  <1>6. pc \in {"use", "retry"} \/ next \in {"use", "retry"} => proc[p].using \in Token
    BY <1>1 DEF ProcOK
  <1>7. Genuine(proc[p].credential)
    BY <1>1 DEF ProcOK
  <1>8. /\ Becomes(p, proc[p].cmd, pc, goal, next, proc[p].credential, proc[p].using,
                    proc[p].displaced)
        /\ pc \notin Calling4 /\ pc # "refresh" /\ pc # "unsaved"
    BY DEF Turns
  <1> QED
    BY <1>3, <1>5, <1>6, <1>7, <1>8, LocalStep

(* The end of a command *)
LEMMA LocalEnd ==
  ASSUME BaseInv, NEW p \in Process, ServerFine, UNCHANGED <<keyring, plaintext, call>>,
         FaultsOK, Lock!LockTypeOK', UNCHANGED <<forgotten, clock>>,
         proc[p].pc \notin Calling4,
         Becomes(p, "", "done", "", "", NoCredential, {}, proc[p].displaced)
  PROVE  BaseInv'
PROOF
  <1>1. Shape(proc[p])' /\ ~Unkept(proc[p])'
    BY DEF Becomes, Shape, Unkept
  <1>2. Genuine(NoCredential) /\ "done" \notin Calling4
    BY DEF Genuine, Calling4
  <1>3. /\ "done" \notin {"refresh", "unsaved", "use", "retry"}
        /\ "" \notin {"use", "retry"}
    OBVIOUS
  <1> QED
    BY <1>1, <1>2, <1>3, LocalStep

LEMMA CommandsKeepBase ==
  ASSUME BaseInv, NEW p \in Process
  PROVE  /\ \A cmd \in {"call", "logout", "revoke"} : StartCommand(p, cmd) => BaseInv'
         /\ \A s \in Session, cmd \in {"login", "insecure"} : StartLogin(p, s, cmd) => BaseInv'
         /\ ValidateLogin(p) => BaseInv'
         /\ CleanUpLogin(p) => BaseInv'
PROOF
  <1>0. /\ TypeInv /\ CliTypeOK /\ ProcOK(p) /\ Lock!LockTypeOK
        /\ \A kind \in {"crash", "lost", "store"} : Fault(kind) => FaultsOK
        /\ UNCHANGED faults => FaultsOK
    BY DEF BaseInv, TypeInv, CliTypeOK, FaultsOK
  <1>1. ASSUME NEW cmd \in {"call", "logout", "revoke"}, StartCommand(p, cmd)
        PROVE  BaseInv'
    <2>1. PICK goal \in {"resolve", "read"} :
            /\ goal = "read" => cmd # "call"
            /\ Becomes(p, cmd, "lock", goal, proc[p].next, proc[p].credential, proc[p].using,
                       proc[p].displaced)
      BY <1>0, <1>1, StartCommandDoes
    <2>2. /\ proc[p].pc = "idle" /\ Lock!StartWaiting(p)
          /\ UNCHANGED <<storeVars, serverVars, forgotten, clock>>
      BY <1>0, <1>1, StartCommandDoes
    <2>3. Shape(proc[p])' /\ ~Unkept(proc[p])'
      BY <2>1 DEF Becomes, Shape, Unkept
    <2>4. Genuine(proc[p].credential) /\ (proc[p].next \in {"use", "retry"} => proc[p].using \in Token)
      BY <1>0 DEF ProcOK
    <2>5. ServerFine /\ FaultsOK /\ Lock!LockTypeOK' /\ UNCHANGED <<keyring, plaintext, call>>
      BY <1>0, <2>2, ServerQuiet, LockTypes DEF storeVars
    <2>6. proc[p].pc \notin Calling4 /\ "lock" \notin Calling4
      BY <2>2 DEF Calling4
    <2> QED
      BY <2>1, <2>2, <2>3, <2>4, <2>5, <2>6, LocalStep
  <1>2. ASSUME NEW s \in Session, NEW cmd \in {"login", "insecure"}, StartLogin(p, s, cmd)
        PROVE  BaseInv'
    <2>1. /\ proc[p].pc = "idle" /\ Server!ExchangeDeviceAuthorization(s, s, clock)
          /\ UNCHANGED <<lockVars, storeVars, forgotten, clock>>
          /\ Becomes(p, cmd, "validate", proc[p].goal, proc[p].next, CredentialOf(s, s, clock), s,
                     proc[p].displaced)
      BY <1>0, <1>2, StartLoginDoes
    <2>2. ServerTypeOK' /\ Exchanges(s)
      BY <1>0, <2>1, ExchangeDoes DEF CliTypeOK
    <2>3. TokensOK' /\ Grows
      BY <1>0, <2>2, ExchangeKeeps DEF BaseInv, CliTypeOK
    <2>4. StoreFine /\ \A q \in Process \ {p} : call'[q] = call[q]
      BY <1>0, <2>1, <2>3, StoreQuiet DEF storeVars
    <2>5. Genuine(CredentialOf(s, s, clock))'
      BY <2>1, <2>2 DEF Genuine, CredentialOf, Exchanges, Token
    <2>6. /\ CredentialOf(s, s, clock).session = s /\ CredentialOf(s, s, clock).token = s
      BY DEF CredentialOf
    <2>7. proc[p].goal = "" /\ (proc[p].next \in {"use", "retry"} => s \in Token)
      BY <1>0, <2>1 DEF ProcOK, Shape, Token
    <2>8. /\ proc'[p].pc = "validate" /\ proc'[p].goal = "" /\ proc'[p].next = proc[p].next
          /\ proc'[p].credential = CredentialOf(s, s, clock)
          /\ proc'[p].using = s
          /\ proc' \in [Process -> ProcState] /\ \A q \in Process \ {p} : proc'[q] = proc[q]
      BY <2>1, <2>7 DEF Becomes
    <2>9. Shape(proc[p])'
      BY <2>8 DEF Shape
    <2>10. Genuine(proc[p].credential)'
      BY <2>1, <2>5, <2>8 DEF CredentialOf
    <2>11. ProcOK(p)'
      BY <2>6, <2>7, <2>8, <2>9, <2>10 DEF ProcOK
    <2>12. CallOK(p)'
      BY <2>1, <2>8 DEF CallOK, BaseInv, storeVars
    <2>13. Lock!LockTypeOK'
      BY <1>0, <2>1, LockTypes
    <2> QED
      BY <1>0, <2>1, <2>2, <2>3, <2>4, <2>8, <2>11, <2>12, <2>13, BaseStep DEF ServerFine, CliTypeOK
  <1>3. ASSUME ValidateLogin(p)
        PROVE  BaseInv'
    <2>1. /\ proc[p].pc = "validate" /\ UNCHANGED <<keyring, plaintext, call>>
          /\ UNCHANGED serverVars /\ UNCHANGED <<forgotten, clock>>
      BY <1>3 DEF ValidateLogin, LocalOnly
    <2>2. Unkept(proc[p]) /\ proc[p].pc \notin Calling4
      BY <2>1 DEF Unkept, Calling4
    <2>3. CASE Locks(p, "persist") /\ UNCHANGED faults
      <3>1. Turns(p, "lock", "persist", "") /\ Lock!StartWaiting(p)
        BY <1>0, <2>3, Turn
      <3>2. ServerFine /\ FaultsOK /\ Lock!LockTypeOK'
        BY <1>0, <2>1, <2>3, <3>1, ServerQuiet, LockTypes
      <3>3. "lock" \notin Calling4 \cup {"refresh", "unsaved", "idle"}
        BY DEF Calling4
      <3> QED
        BY <2>1, <2>2, <3>1, <3>2, <3>3, LocalTurn
    <2>4. CASE Goes(p, "cleanup") /\ UNCHANGED lockVars /\ FaultsOK
      <3>1. Turns(p, "cleanup", proc[p].goal, proc[p].next)
        BY <1>0, <2>4, Turn
      <3>2. ServerFine /\ Lock!LockTypeOK'
        BY <1>0, <2>1, <2>4, ServerQuiet, LockTypes
      <3>3. /\ "cleanup" \notin Calling4 \cup {"refresh", "unsaved", "idle"}
            /\ "cleanup" \notin {"read", "lock", "release", "use", "retry", "validate"}
        BY DEF Calling4
      <3>4. /\ proc[p].goal \in {proc[p].goal, "renew", "clear", "persist"}
            /\ proc[p].next \in {"use", "retry"} => proc[p].next \in {"use", "retry"}
        OBVIOUS
      <3> QED
        BY <2>1, <2>2, <2>4, <3>1, <3>2, <3>3, <3>4, LocalTurn
    <2> QED
      BY <1>0, <1>3, <2>3, <2>4 DEF ValidateLogin
  <1>4. ASSUME CleanUpLogin(p)
        PROVE  BaseInv'
    <2>1. /\ proc[p].pc = "cleanup" /\ Ends(p) /\ UNCHANGED <<keyring, plaintext, call>>
          /\ UNCHANGED lockVars /\ UNCHANGED <<forgotten, clock>> /\ FaultsOK
          /\ Revoke(proc[p].using) \/ UNCHANGED serverVars
      BY <1>0, <1>4 DEF CleanUpLogin, LocalOnly
    <2>2. proc[p].using \in Token
      BY <1>0, <2>1 DEF ProcOK, Unkept, Token
    <2>3. ServerFine /\ Lock!LockTypeOK'
      BY <1>0, <2>1, <2>2, ServerQuiet, RevokeDoes, LockTypes
    <2>4. proc[p].pc \notin Calling4
      BY <2>1 DEF Calling4
    <2> QED
      BY <1>0, <2>1, <2>3, <2>4, Turn, LocalEnd
  <1> QED
    BY <1>1, <1>2, <1>3, <1>4

(* Nothing but the lock, or the clock, moves. *)
LEMMA IdleStep ==
  ASSUME BaseInv, UNCHANGED <<storeVars, serverVars, proc, forgotten>>,
         Lock!LockTypeOK', clock' \in Nat
  PROVE  BaseInv'
PROOF
  <1>1. ServerFine /\ StoreFine
    <2>1. ServerFine
      BY ServerQuiet
    <2>2. StoreTypeOK' /\ Genuine(keyring)' /\ Genuine(plaintext.credential)'
      BY DEF BaseInv, TypeInv, CliTypeOK, StoreTypeOK, storeVars, Genuine, serverVars
    <2> QED
      BY <2>1, <2>2 DEF StoreFine
  <1>2. \A q \in Process : ProcOK(q)' /\ CallOK(q)'
    BY <1>1, OthersKeep DEF ServerFine, storeVars
  <1>3. ShapeOK'
    BY <1>2 DEF ShapeOK, ProcOK
  <1>4. proc' \in [Process -> ProcState] /\ forgotten' \subseteq Session
    BY DEF BaseInv, TypeInv, CliTypeOK
  <1> QED
    BY <1>1, <1>2, <1>3, <1>4 DEF BaseInv, TypeInv, CliTypeOK, ServerFine, StoreFine

LEMMA LockKeepsBase ==
  ASSUME BaseInv, NEW p \in Process
  PROVE  /\ TakeLock(p) => BaseInv'
         /\ WaitForLock(p) => BaseInv'
         /\ GiveUp(p) => BaseInv'
         /\ ReleaseLock(p) => BaseInv'
PROOF
  <1>0. /\ TypeInv /\ CliTypeOK /\ ProcOK(p) /\ Lock!LockTypeOK /\ clock \in Nat
        /\ proc[p] \in ProcState
    BY DEF BaseInv, TypeInv, CliTypeOK
  <1>q. ASSUME UNCHANGED <<storeVars, serverVars, forgotten, clock>>
        PROVE  /\ ServerFine /\ FaultsOK /\ UNCHANGED <<keyring, plaintext, call>>
               /\ UNCHANGED <<forgotten, clock>>
    BY <1>q, ServerQuiet DEF FaultsOK, storeVars
  <1>1. ASSUME TakeLock(p)
        PROVE  BaseInv'
    <2>1. /\ proc[p].pc = "lock" /\ Lock!OpenLock(p) /\ Goes(p, proc[p].goal)
          /\ UNCHANGED <<storeVars, serverVars, forgotten, clock>>
      BY <1>1 DEF TakeLock
    <2>2. PICK goal \in {"resolve", "renew", "read", "clear", "persist"} : proc[p].goal = goal
      BY <1>0, <2>1 DEF ProcOK, Shape, ProcState
    <2>3. Turns(p, goal, goal, proc[p].next)
      BY <1>0, <2>1, <2>2, Turn
    <2>4. Lock!LockTypeOK'
      BY <1>0, <2>1, LockTypes
    <2>5. /\ goal \notin Calling4 \cup {"refresh", "unsaved", "idle"} /\ proc[p].pc \notin Calling4
          /\ goal \notin {"cleanup", "lock", "release", "use", "retry", "validate"}
      BY <2>1 DEF Calling4
    <2>6. goal = "persist" => Unkept(proc[p])
      BY <2>1, <2>2 DEF Unkept
    <2>7. /\ goal \in {proc[p].goal, "renew", "clear", "persist"}
          /\ goal = "read" => goal = "read"
          /\ goal \in {"cleanup", "persist"} => Unkept(proc[p])
      BY <2>2, <2>6
    <2> QED
      BY <1>q, <2>1, <2>3, <2>4, <2>5, <2>7, LocalTurn
  <1>2. ASSUME WaitForLock(p)
        PROVE  BaseInv'
    BY <1>0, <1>2, LockTypes, IdleStep DEF WaitForLock
  <1>3. ASSUME GiveUp(p)
        PROVE  BaseInv'
    <2>1. /\ proc[p].pc = "lock" /\ Lock!LockTimesOut(p)
          /\ UNCHANGED <<storeVars, serverVars, forgotten, clock>>
      BY <1>3 DEF GiveUp
    <2>2. Lock!LockTypeOK' /\ proc[p].pc \notin Calling4
      BY <1>0, <2>1, LockTypes DEF Calling4
    <2>3. CASE proc[p].goal = "persist"
      <3>1. Turns(p, "cleanup", proc[p].goal, proc[p].next)
        BY <1>0, <1>3, <2>3, Turn DEF GiveUp
      <3>2. Unkept(proc[p])
        BY <2>1, <2>3 DEF Unkept
      <3>3. /\ "cleanup" \notin Calling4 \cup {"refresh", "unsaved", "idle"}
            /\ "cleanup" \notin {"read", "lock", "release", "use", "retry", "validate"}
        BY DEF Calling4
      <3>4. /\ proc[p].goal \in {proc[p].goal, "renew", "clear", "persist"}
            /\ proc[p].next \in {"use", "retry"} => proc[p].next \in {"use", "retry"}
        OBVIOUS
      <3> QED
        BY <1>q, <2>1, <2>2, <3>1, <3>2, <3>3, <3>4, LocalTurn
    <2>4. CASE proc[p].goal # "persist"
      <3>1. Becomes(p, "", "done", "", "", NoCredential, {}, proc[p].displaced)
        BY <1>0, <1>3, <2>4, Turn DEF GiveUp
      <3> QED
        BY <1>q, <2>1, <2>2, <3>1, LocalEnd
    <2> QED
      BY <2>3, <2>4
  <1>4. ASSUME ReleaseLock(p)
        PROVE  BaseInv'
    <2>1. proc[p].pc = "release" /\ UNCHANGED <<storeVars, serverVars, forgotten, clock>>
      BY <1>0, <1>4, ReleaseLockDoes
    <2>2. proc[p].pc \notin Calling4
      BY <2>1 DEF Calling4
    <2>3. CASE /\ proc[p].next = "clear" /\ Turns(p, "lock", "clear", "")
               /\ lockFile' = {} /\ Lock!WaitGoes(p, "open") /\ UNCHANGED dead
      <3>1. Lock!LockTypeOK'
        BY <1>0, <2>3, LockTypes
      <3>2. /\ "lock" \notin Calling4 \cup {"refresh", "unsaved", "idle"}
            /\ "lock" \notin {"read", "release", "use", "retry", "validate", "cleanup", "persist"}
            /\ "clear" \in {proc[p].goal, "renew", "clear", "persist"} /\ "clear" # ""
            /\ "clear" # "persist" /\ "" \notin {"use", "retry"}
        BY DEF Calling4
      <3> QED
        BY <1>q, <2>1, <2>2, <2>3, <3>1, <3>2, LocalTurn
    <2>4. CASE /\ proc[p].next = "done" /\ Lock!Release(p)
               /\ Becomes(p, "", "done", "", "", NoCredential, {}, proc[p].displaced)
      <3>1. Lock!LockTypeOK'
        BY <1>0, <2>4, LockTypes
      <3> QED
        BY <1>q, <2>1, <2>2, <2>4, <3>1, LocalEnd
    <2>5. ASSUME NEW next \in {"use", "retry", "cleanup"}, proc[p].next = next,
                 Lock!Release(p), Turns(p, next, proc[p].goal, "")
          PROVE  BaseInv'
      <3>1. Lock!LockTypeOK'
        BY <1>0, <2>5, LockTypes
      <3>2. /\ next \notin Calling4 \cup {"refresh", "unsaved", "idle"}
            /\ next \notin {"read", "release", "lock", "validate", "persist"}
            /\ proc[p].goal \in {proc[p].goal, "renew", "clear", "persist"}
        BY DEF Calling4
      <3>3. next \in {"cleanup", "persist"} => Unkept(proc[p])
        BY <2>1, <2>5 DEF Unkept
      <3>4. next \in {"use", "retry"} \/ "" \in {"use", "retry"} =>
              proc[p].pc \in {"use", "retry"} \/ proc[p].next \in {"use", "retry"}
        BY <2>5
      <3> QED
        BY <1>q, <2>1, <2>2, <2>5, <3>1, <3>2, <3>3, <3>4, LocalTurn
    <2> QED
      BY <1>0, <1>4, <2>3, <2>4, <2>5, ReleaseLockDoes
  <1> QED
    BY <1>1, <1>2, <1>3, <1>4

LEMMA ReadDoes ==
  ASSUME BaseInv, NEW seen \in {Visible, NoCredential}, Read(seen)
  PROVE  /\ FaultsOK /\ UNCHANGED <<keyring, plaintext>> /\ Genuine(seen)
         /\ seen # NoCredential => seen.token \in Token
         /\ seen \in Credential
PROOF
  <1>1. Genuine(seen) /\ (Visible \in Credential) /\ NoCredential \in Credential
    BY VisibleGenuine, CredentialTypes DEF BaseInv, TypeInv, CliTypeOK
  <1> QED
    BY <1>1 DEF Read, FaultsOK, Genuine

LEMMA ReadsKeepBase ==
  ASSUME BaseInv, NEW p \in Process
  PROVE  /\ Resolve(p) => BaseInv'
         /\ Renew(p) => BaseInv'
         /\ ReadForLogout(p) => BaseInv'
PROOF
  <1>0. /\ TypeInv /\ CliTypeOK /\ ProcOK(p) /\ Lock!LockTypeOK
        /\ proc[p] \in ProcState
    BY DEF BaseInv, TypeInv, CliTypeOK
  <1>1. ASSUME UNCHANGED <<lockVars, serverVars, forgotten, clock>>
        PROVE  ServerFine /\ Lock!LockTypeOK' /\ UNCHANGED <<forgotten, clock>>
    BY <1>0, <1>1, ServerQuiet, LockTypes
  <1>2. "release" \notin Calling4 /\ "refresh" \notin Calling4
    BY DEF Calling4
  <1>3. ASSUME NEW next \in {"use", "retry", "clear", "done"}, NEW credential, NEW using,
               Becomes(p, proc[p].cmd, "release", proc[p].goal, next, credential, using,
                       proc[p].displaced)
        PROVE  Shape(proc[p])' /\ ~Unkept(proc[p])'
    BY <1>0, <1>3 DEF Becomes, Shape, Unkept, ProcOK
  <1>4. ASSUME NEW next, NEW credential, NEW using,
               Becomes(p, proc[p].cmd, "refresh", proc[p].goal, next, credential, using,
                       proc[p].displaced)
        PROVE  Shape(proc[p])' /\ ~Unkept(proc[p])'
    BY <1>0, <1>4 DEF Becomes, Shape, Unkept, ProcOK
  <1>5. ASSUME Resolve(p)
        PROVE  BaseInv'
    <2>1. proc[p].pc = "resolve" /\ UNCHANGED call /\ StoreOnly
      BY <1>0, <1>5, ResolveDoes
    <2>2. PICK seen \in {Visible, NoCredential} : Read(seen) /\
              \/ seen = NoCredential /\ Turns(p, "release", proc[p].goal, "done")
              \/ /\ seen # NoCredential
                 /\ \E pc \in {"release", "refresh"}, next \in {"use", ""} :
                      /\ pc = "release" <=> next = "use"
                      /\ Becomes(p, proc[p].cmd, pc, proc[p].goal, next, seen, seen.token,
                                 proc[p].displaced)
      BY <1>0, <1>5, ResolveDoes
    <2>3. ServerFine /\ Lock!LockTypeOK' /\ UNCHANGED <<forgotten, clock>>
      BY <1>1, <2>1 DEF StoreOnly
    <2>4. /\ FaultsOK /\ UNCHANGED <<keyring, plaintext, call>> /\ Genuine(seen)
          /\ seen # NoCredential => seen.token \in Token
      BY <2>1, <2>2, ReadDoes
    <2>5. proc[p].pc \notin Calling4
      BY <2>1 DEF Calling4
    <2>6. CASE Turns(p, "release", proc[p].goal, "done")
      <3>1. Shape(proc[p])' /\ ~Unkept(proc[p])' /\ Genuine(proc[p].credential)
        BY <1>0, <1>3, <2>6 DEF Turns, ProcOK
      <3> QED
        BY <1>2, <2>3, <2>4, <2>5, <2>6, <3>1, LocalStep DEF Turns
    <2>7. ASSUME Becomes(p, proc[p].cmd, "release", proc[p].goal, "use", seen, seen.token,
                         proc[p].displaced), seen # NoCredential
          PROVE  BaseInv'
      <3>1. Shape(proc[p])' /\ ~Unkept(proc[p])'
        BY <1>3, <2>7
      <3> QED
        BY <1>2, <2>3, <2>4, <2>5, <2>7, <3>1, LocalStep
    <2>8. ASSUME Becomes(p, proc[p].cmd, "refresh", proc[p].goal, "", seen, seen.token,
                         proc[p].displaced), seen # NoCredential
          PROVE  BaseInv'
      <3>1. Shape(proc[p])' /\ ~Unkept(proc[p])'
        BY <1>4, <2>8
      <3> QED
        BY <1>2, <2>3, <2>4, <2>5, <2>8, <3>1, LocalStep
    <2> QED
      BY <2>2, <2>6, <2>7, <2>8
  <1>6. ASSUME Renew(p)
        PROVE  BaseInv'
    <2>1. proc[p].pc = "renew" /\ UNCHANGED call /\ StoreOnly
      BY <1>0, <1>6, RenewDoes
    <2>2. PICK seen \in {Visible, NoCredential} : Read(seen) /\
              \/ seen = NoCredential /\ Turns(p, "release", proc[p].goal, "done")
              \/ /\ seen # NoCredential
                 /\ Becomes(p, proc[p].cmd, "release", proc[p].goal, "retry", proc[p].credential,
                            seen.token, proc[p].displaced)
              \/ /\ seen # NoCredential
                 /\ Becomes(p, proc[p].cmd, "refresh", proc[p].goal, proc[p].next, seen,
                            proc[p].using, proc[p].displaced)
      BY <1>0, <1>6, RenewDoes
    <2>3. ServerFine /\ Lock!LockTypeOK' /\ UNCHANGED <<forgotten, clock>>
      BY <1>1, <2>1 DEF StoreOnly
    <2>4. /\ FaultsOK /\ UNCHANGED <<keyring, plaintext, call>> /\ Genuine(seen)
          /\ seen # NoCredential => seen.token \in Token
      BY <2>1, <2>2, ReadDoes
    <2>5. proc[p].pc \notin Calling4 /\ Genuine(proc[p].credential)
      BY <1>0, <2>1 DEF Calling4, ProcOK
    <2>6. CASE Turns(p, "release", proc[p].goal, "done")
      <3>1. Shape(proc[p])' /\ ~Unkept(proc[p])'
        BY <1>0, <1>3, <2>6 DEF Turns
      <3> QED
        BY <1>2, <2>3, <2>4, <2>5, <2>6, <3>1, LocalStep DEF Turns
    <2>7. ASSUME Becomes(p, proc[p].cmd, "release", proc[p].goal, "retry", proc[p].credential,
                         seen.token, proc[p].displaced), seen # NoCredential
          PROVE  BaseInv'
      <3>1. Shape(proc[p])' /\ ~Unkept(proc[p])'
        BY <1>3, <2>7
      <3> QED
        BY <1>2, <2>3, <2>4, <2>5, <2>7, <3>1, LocalStep
    <2>8. ASSUME Becomes(p, proc[p].cmd, "refresh", proc[p].goal, proc[p].next, seen,
                         proc[p].using, proc[p].displaced), seen # NoCredential
          PROVE  BaseInv'
      <3>1. Shape(proc[p])' /\ ~Unkept(proc[p])'
        BY <1>4, <2>8
      <3>2. proc[p].next \in {"use", "retry"} => proc[p].using \in Token
        BY <1>0 DEF ProcOK
      <3> QED
        BY <1>2, <2>3, <2>4, <2>5, <2>8, <3>1, <3>2, LocalStep
    <2> QED
      BY <2>2, <2>6, <2>7, <2>8
  <1>7. ASSUME ReadForLogout(p)
        PROVE  BaseInv'
    <2>1. proc[p].pc = "read" /\ UNCHANGED call /\ StoreOnly
      BY <1>0, <1>7, ReadForLogoutDoes
    <2>2. PICK seen \in {Visible, NoCredential}, next \in {"clear", "use", "done"} :
              /\ Read(seen) /\ (next = "use" => seen # NoCredential)
              /\ Becomes(p, proc[p].cmd, "release", proc[p].goal, next, seen, seen.token,
                         proc[p].displaced)
      BY <1>0, <1>7, ReadForLogoutDoes
    <2>3. ServerFine /\ Lock!LockTypeOK' /\ UNCHANGED <<forgotten, clock>>
      BY <1>1, <2>1 DEF StoreOnly
    <2>4. /\ FaultsOK /\ UNCHANGED <<keyring, plaintext, call>> /\ Genuine(seen)
          /\ next \in {"use", "retry"} => seen.token \in Token
      BY <2>1, <2>2, ReadDoes
    <2>5. proc[p].pc \notin Calling4
      BY <2>1 DEF Calling4
    <2>6. Shape(proc[p])' /\ ~Unkept(proc[p])'
      BY <1>3, <2>2
    <2> QED
      BY <1>2, <2>2, <2>3, <2>4, <2>5, <2>6, LocalStep
  <1> QED
    BY <1>5, <1>6, <1>7

LEMMA UsesKeepBase ==
  ASSUME BaseInv, NEW p \in Process
  PROVE  /\ RefreshLost(p) => BaseInv'
         /\ UseToken(p) => BaseInv'
         /\ UseLost(p) => BaseInv'
PROOF
  <1>0. /\ TypeInv /\ CliTypeOK /\ ProcOK(p) /\ Lock!LockTypeOK
        /\ Fault("lost") => FaultsOK
    BY DEF BaseInv, TypeInv, CliTypeOK, FaultsOK
  <1>1. ASSUME RefreshLost(p)
        PROVE  BaseInv'
    <2>1. /\ proc[p].pc = "refresh" /\ FaultsOK /\ UNCHANGED <<keyring, plaintext, call>>
          /\ ServerRefreshes(p) \/ UNCHANGED serverVars
          /\ Leaves(p, "done") /\ UNCHANGED lockVars /\ UNCHANGED <<forgotten, clock>>
      BY <1>0, <1>1 DEF RefreshLost, LocalOnly
    <2>2. ServerFine /\ Lock!LockTypeOK'
      BY <1>0, <2>1, ServerQuiet, ServerRefreshesDoes, LockTypes
    <2>3. Turns(p, "release", proc[p].goal, "done")
      BY <1>0, <2>1, Turn
    <2>4. /\ "release" \notin Calling4 \cup {"refresh", "unsaved", "idle"}
          /\ "release" \notin {"read", "lock", "cleanup", "use", "retry", "validate", "persist"}
          /\ "done" \notin {"use", "retry", "cleanup", ""}
          /\ proc[p].pc \notin Calling4
          /\ proc[p].goal \in {proc[p].goal, "renew", "clear", "persist"}
      BY <2>1 DEF Calling4
    <2> QED
      BY <2>1, <2>2, <2>3, <2>4, LocalTurn
  <1>2. ASSUME UseToken(p)
        PROVE  BaseInv'
    <2>1. /\ proc[p].pc \in {"use", "retry"} /\ FaultsOK /\ UNCHANGED <<keyring, plaintext, call>>
          /\ UNCHANGED <<forgotten, clock>> /\ proc[p].pc \notin Calling4
          /\ \/ Ends(p) /\ UNCHANGED lockVars
             \/ \E goal \in {"renew", "clear"} : Locks(p, goal)
      BY <1>2 DEF UseToken, FaultsOK, storeVars, Calling4
    <2>2. Revoke(proc[p].using) \/ UNCHANGED serverVars
      BY <1>2 DEF UseToken, Revoke
    <2>3. proc[p].using \in Token
      BY <1>0, <2>1 DEF ProcOK
    <2>4. ServerFine
      BY <2>2, <2>3, ServerQuiet, RevokeDoes
    <2>5. CASE Ends(p) /\ UNCHANGED lockVars
      <3>1. Becomes(p, "", "done", "", "", NoCredential, {}, proc[p].displaced) /\ Lock!LockTypeOK'
        BY <1>0, <2>5, Turn, LockTypes
      <3> QED
        BY <2>1, <2>4, <3>1, LocalEnd
    <2>6. ASSUME NEW goal \in {"renew", "clear"}, Locks(p, goal)
          PROVE  BaseInv'
      <3>1. Turns(p, "lock", goal, "") /\ Lock!LockTypeOK'
        BY <1>0, <2>6, Turn, LockTypes
      <3>2. /\ "lock" \notin Calling4 \cup {"refresh", "unsaved", "idle"}
            /\ "lock" \notin {"read", "release", "use", "retry", "validate", "cleanup", "persist"}
            /\ goal \in {proc[p].goal, "renew", "clear", "persist"} /\ goal # ""
            /\ goal # "persist" /\ "" \notin {"use", "retry"}
        BY DEF Calling4
      <3> QED
        BY <2>1, <2>4, <3>1, <3>2, LocalTurn
    <2> QED
      BY <2>1, <2>5, <2>6
  <1>3. ASSUME UseLost(p)
        PROVE  BaseInv'
    <2>1. /\ proc[p].pc \in {"use", "retry"} /\ FaultsOK /\ UNCHANGED <<keyring, plaintext, call>>
          /\ UNCHANGED <<forgotten, clock>> /\ proc[p].pc \notin Calling4
          /\ Ends(p) /\ UNCHANGED lockVars
          /\ Revoke(proc[p].using) \/ UNCHANGED serverVars
      BY <1>0, <1>3 DEF UseLost, LocalOnly, Calling4
    <2>2. proc[p].using \in Token
      BY <1>0, <2>1 DEF ProcOK
    <2>3. ServerFine /\ Lock!LockTypeOK'
      BY <1>0, <2>1, <2>2, ServerQuiet, RevokeDoes, LockTypes
    <2> QED
      BY <1>0, <2>1, <2>3, Turn, LocalEnd
  <1> QED
    BY <1>1, <1>2, <1>3

(* A step that makes a call of the store, or takes its answer. *)
LEMMA CallStep ==
  ASSUME BaseInv, NEW p \in Process, ServerFine, UNCHANGED <<keyring, plaintext>>, FaultsOK,
         UNCHANGED lockVars, forgotten' \subseteq Session, UNCHANGED clock,
         NEW k \in CallPc, NEW c \in Credential, CallBecomes(p, k, c),
         NEW cmd, NEW pc, NEW goal, NEW next, NEW credential, NEW using, NEW displaced,
         Becomes(p, cmd, pc, goal, next, credential, using, displaced),
         ProcOK(p)', CallOK(p)'
  PROVE  BaseInv'
PROOF
  <1>1. StoreFine /\ \A q \in Process \ {p} : call'[q] = call[q]
    BY StoreQuiet DEF ServerFine
  <1>2. proc' \in [Process -> ProcState] /\ \A q \in Process \ {p} : proc'[q] = proc[q]
    BY DEF Becomes
  <1>3. Lock!LockTypeOK' /\ clock' \in Nat
    BY LockTypes DEF BaseInv, TypeInv, CliTypeOK
  <1> QED
    BY <1>1, <1>2, <1>3, BaseStep

LEMMA RefreshKeepsBase ==
  ASSUME BaseInv, NEW p \in Process
  PROVE  /\ Refresh(p) => BaseInv'
         /\ RevokeUnsaved(p) => BaseInv'
PROOF
  <1>0. /\ TypeInv /\ CliTypeOK /\ ProcOK(p) /\ StoreTypeOK /\ forgotten \subseteq Session
        /\ Fault("lost") => FaultsOK
        /\ UNCHANGED faults => FaultsOK
    BY DEF BaseInv, TypeInv, CliTypeOK, FaultsOK
  <1>1. ASSUME BeginDelete(p)
        PROVE  CallBecomes(p, "delete", NoCredential)
    BY <1>0, <1>1, Calling, CredentialTypes DEF BeginDelete, CallPc
  <1>2. ASSUME ServerFine, BeginDelete(p), NEW next \in {"clear", "done"},
               Turns(p, "discard", proc[p].goal, next), proc[p].pc \in {"refresh", "unsaved"},
               FaultsOK, UNCHANGED <<lockVars, keyring, plaintext, forgotten, clock>>
        PROVE  BaseInv'
    <2>1. /\ Becomes(p, proc[p].cmd, "discard", proc[p].goal, next, proc[p].credential,
                     proc[p].using, proc[p].displaced)
          /\ CallBecomes(p, "delete", NoCredential)
      BY <1>1, <1>2 DEF Turns
    <2>2. /\ proc'[p].cmd = proc[p].cmd /\ proc'[p].pc = "discard" /\ proc'[p].next = next
          /\ proc'[p].goal = proc[p].goal
          /\ proc'[p].credential = proc[p].credential /\ proc'[p].using = proc[p].using
          /\ call'[p].pc = "delete" /\ call'[p].credential = NoCredential
      BY <2>1 DEF Becomes, CallBecomes
    <2>3. Genuine(proc[p].credential)'
      BY <1>0, <1>2, <2>2, GenuineStays DEF ProcOK, Genuine, ServerFine
    <2>4. Shape(proc[p])' /\ ~Unkept(proc[p])'
      BY <1>0, <1>2, <2>2 DEF Shape, Unkept, ProcOK
    <2>5. ProcOK(p)' /\ CallOK(p)'
      BY <1>2, <2>2, <2>3, <2>4 DEF ProcOK, CallOK
    <2>6. "delete" \in CallPc /\ NoCredential \in Credential
      BY CredentialTypes DEF CallPc
    <2> QED
      BY <1>0, <1>2, <2>1, <2>5, <2>6, CallStep
  <1>3. ASSUME Refresh(p)
        PROVE  BaseInv'
    <2>1. /\ proc[p].pc = "refresh" /\ ServerRefreshes(p)
          /\ UNCHANGED <<lockVars, keyring, plaintext, faults, forgotten, clock>>
      BY <1>0, <1>3, RefreshDoes
    <2>2. ServerFine
      BY <2>1, ServerRefreshesDoes
    <2>3. PICK renewed : renewed = CredentialOf(proc[p].credential.session, p, clock)
      OBVIOUS
    <2>4. CASE /\ Rotates(proc[p].credential.token) /\ BeginReplace(p, renewed)
               /\ Becomes(p, proc[p].cmd, "save", proc[p].goal, proc[p].next, renewed,
                          proc[p].using, proc[p].displaced)
      <3>1. /\ renewed.session = proc[p].credential.session /\ renewed.token = p
            /\ renewed.session \in Session
            /\ refresh[proc[p].credential.token].session_id = renewed.session
        BY <1>0, <2>1, <2>3 DEF CredentialOf, ProcOK, Genuine
      <3>2. Rotation(proc[p].credential.token, p)
        BY <2>1, <2>4, ServerRefreshesDoes
      <3>3. refresh'[p].session_id = renewed.session
        BY <3>1, <3>2 DEF Rotation
      <3>4. renewed \in Credential
        BY <1>0, <2>3, <3>1, CredentialTypes DEF Token, CliTypeOK
      <3>5. PICK k \in {"plain", "set"} : CallBecomes(p, k, renewed)
        BY <1>0, <2>4, <3>4, Calling DEF BeginReplace, CallPc
      <3>6. /\ proc'[p].cmd = proc[p].cmd /\ proc'[p].pc = "save" /\ proc'[p].next = proc[p].next
            /\ proc'[p].goal = proc[p].goal
            /\ proc'[p].credential = renewed /\ proc'[p].using = proc[p].using
            /\ call'[p].pc = k /\ call'[p].credential = renewed
        BY <2>4, <3>5 DEF Becomes, CallBecomes
      <3>7. Genuine(proc[p].credential)'
        BY <3>1, <3>3, <3>6 DEF Genuine, Token
      <3>8. Shape(proc[p])' /\ ~Unkept(proc[p])'
        BY <1>0, <3>6 DEF Shape, Unkept, ProcOK
      <3>9. CallOK(p)'
        BY <3>6 DEF CallOK
      <3>10. ProcOK(p)'
        BY <1>0, <3>1, <3>6, <3>7, <3>8 DEF ProcOK
      <3>11. k \in CallPc
        BY DEF CallPc
      <3> QED
        BY <1>0, <2>1, <2>2, <2>4, <3>4, <3>5, <3>9, <3>10, <3>11, CallStep
    <2>5. CASE /\ BeginDelete(p)
               /\ \E next \in {"clear", "done"} : Turns(p, "discard", proc[p].goal, next)
      BY <1>0, <1>2, <2>1, <2>2, <2>5
    <2> QED
      BY <1>0, <1>3, <2>3, <2>4, <2>5, RefreshDoes
  <1>4. ASSUME RevokeUnsaved(p)
        PROVE  BaseInv'
    <2>1. /\ proc[p].pc = "unsaved" /\ Turns(p, "discard", proc[p].goal, "done")
          /\ BeginDelete(p) /\ UNCHANGED <<lockVars, keyring, plaintext, forgotten, clock>>
          /\ FaultsOK /\ (Revoke(p) \/ UNCHANGED serverVars)
      BY <1>0, <1>4, RevokeUnsavedDoes
    <2>2. ServerFine
      BY <2>1, ServerQuiet, RevokeDoes DEF Token
    <2> QED
      BY <1>2, <2>1, <2>2
  <1> QED
    BY <1>3, <1>4

LEMMA CrashDoes ==
  ASSUME TypeInv, NEW p \in Process, Crash(p)
  PROVE  /\ Becomes(p, "", "dead", "", "", NoCredential, {}, {})
         /\ CallBecomes(p, "idle", NoCredential)
         /\ Fault("crash") /\ faults'["crash"] > 0
PROOF
  <1>0. StoreTypeOK /\ CliTypeOK /\ Fault("crash")
    BY DEF TypeInv, CliTypeOK, Crash
  <1> DEFINE r == [NoProc EXCEPT !.pc = "dead"]
  <1>1. proc' = [proc EXCEPT ![p] = r]
    BY DEF Crash
  <1>2. r \in ProcState
    BY CredentialTypes DEF NoProc, ProcState
  <1>3. /\ r.cmd = "" /\ r.pc = "dead" /\ r.goal = "" /\ r.next = ""
        /\ r.credential = NoCredential /\ r.using = {} /\ r.displaced = {}
    BY DEF NoProc
  <1> HIDE DEF r
  <1>4. Becomes(p, "", "dead", "", "", NoCredential, {}, {})
    BY <1>0, <1>1, <1>2, <1>3, BecomesRecord
  <1>5. CallBecomes(p, "idle", NoCredential)
    BY <1>0, Calling DEF Crash, CallPc
  <1> QED
    BY <1>0, <1>4, <1>5, FaultCounts

LEMMA ReturnsKeepBase ==
  ASSUME BaseInv, NEW p \in Process
  PROVE  /\ SaveReturns(p) => BaseInv'
         /\ DiscardReturns(p) => BaseInv'
         /\ StoreReturns(p) => BaseInv'
         /\ Crash(p) => BaseInv'
PROOF
  <1>0. /\ TypeInv /\ CliTypeOK /\ ProcOK(p) /\ StoreTypeOK /\ forgotten \subseteq Session
        /\ UNCHANGED faults => FaultsOK
        /\ "idle" \in CallPc /\ NoCredential \in Credential
    BY CredentialTypes DEF BaseInv, TypeInv, CliTypeOK, FaultsOK, CallPc
  <1>1. ASSUME Return(p)
        PROVE  CallBecomes(p, "idle", NoCredential) /\ FaultsOK /\ UNCHANGED <<keyring, plaintext>>
    BY <1>0, <1>1, Calling DEF Return
  <1>2. ASSUME Return(p), UNCHANGED <<lockVars, serverVars, clock>>, forgotten' \subseteq Session,
               NEW cmd, NEW pc, NEW goal, NEW next, NEW using,
               Becomes(p, cmd, pc, goal, next, proc[p].credential, using, proc[p].displaced),
               pc \in {"unsaved", "release"}, pc = "unsaved" => proc[p].pc = "save",
               Shape(proc[p])',
               Unkept(proc[p])' => Unkept(proc[p]) /\ using = proc[p].using,
               next \in {"use", "retry"} => using \in Token
        PROVE  BaseInv'
    <2>1. /\ proc'[p].pc = pc /\ proc'[p].next = next
          /\ proc'[p].credential = proc[p].credential /\ proc'[p].using = using
          /\ call'[p].pc = "idle" /\ call'[p].credential = NoCredential
      BY <1>1, <1>2 DEF Becomes, CallBecomes
    <2>2. ServerFine
      BY <1>2, ServerQuiet
    <2>3. Genuine(proc[p].credential)'
      BY <1>0, <2>1, <2>2, GenuineStays DEF ProcOK, Genuine, ServerFine
    <2>4. ProcOK(p)'
      BY <1>0, <1>2, <2>1, <2>3 DEF ProcOK
    <2>5. CallOK(p)'
      BY <1>2, <2>1 DEF CallOK
    <2> QED
      BY <1>0, <1>1, <1>2, <2>2, <2>4, <2>5, CallStep
  <1>3. ASSUME SaveReturns(p)
        PROVE  BaseInv'
    <2>1. /\ proc[p].pc = "save" /\ Return(p) /\ UNCHANGED <<lockVars, serverVars, clock>>
          /\ forgotten' \subseteq Session
      BY <1>0, <1>3, SaveReturnsDoes DEF StoreOnly
    <2>2. ASSUME NEW next \in {"use", "retry"},
                 Becomes(p, proc[p].cmd, "release", proc[p].goal, next, proc[p].credential, p,
                         proc[p].displaced)
          PROVE  BaseInv'
      <3>1. Shape(proc[p])' /\ ~Unkept(proc[p])'
        BY <1>0, <2>2 DEF Becomes, Shape, Unkept, ProcOK
      <3>2. p \in Token /\ "release" \in {"unsaved", "release"} /\ "release" # "unsaved"
        BY DEF Token
      <3> QED
        BY <1>2, <2>1, <2>2, <3>1, <3>2
    <2>3. CASE Turns(p, "unsaved", proc[p].goal, proc[p].next)
      <3>1. Becomes(p, proc[p].cmd, "unsaved", proc[p].goal, proc[p].next, proc[p].credential,
                    proc[p].using, proc[p].displaced)
        BY <2>3 DEF Turns
      <3>2. Shape(proc[p])' /\ ~Unkept(proc[p])'
        BY <1>0, <3>1 DEF Becomes, Shape, Unkept, ProcOK
      <3>3. proc[p].next \in {"use", "retry"} => proc[p].using \in Token
        BY <1>0 DEF ProcOK
      <3>4. "unsaved" \in {"unsaved", "release"}
        OBVIOUS
      <3> QED
        BY <1>2, <2>1, <3>1, <3>2, <3>3, <3>4
    <2> QED
      BY <1>0, <1>3, <2>2, <2>3, SaveReturnsDoes
  <1>4. ASSUME DiscardReturns(p)
        PROVE  BaseInv'
    <2>1. /\ proc[p].pc = "discard" /\ Return(p) /\ UNCHANGED <<lockVars, serverVars, clock>>
          /\ forgotten' \subseteq Session
      BY <1>0, <1>4 DEF DiscardReturns, StoreOnly
    <2>2. Becomes(p, proc[p].cmd, "release", proc[p].goal, proc[p].next, proc[p].credential,
                  proc[p].using, proc[p].displaced)
      BY <1>0, <1>4, Turn DEF DiscardReturns, Turns
    <2>3. proc[p].next \in {"clear", "done"}
      BY <1>0, <2>1 DEF ProcOK, Shape
    <2>4. Shape(proc[p])' /\ ~Unkept(proc[p])'
      BY <1>0, <2>2, <2>3 DEF Becomes, Shape, Unkept, ProcOK
    <2>5. "release" \in {"unsaved", "release"} /\ "release" # "unsaved"
          /\ proc[p].next \notin {"use", "retry"}
      BY <2>3
    <2> QED
      BY <1>2, <2>1, <2>2, <2>4, <2>5
  <1>5. ASSUME StoreReturns(p)
        PROVE  BaseInv'
    <2>1. /\ proc[p].pc \in {"clearing", "persisting"} /\ Return(p)
          /\ UNCHANGED <<lockVars, serverVars, clock>>
          /\ forgotten' \subseteq Session
      BY <1>0, <1>5 DEF StoreReturns
    <2>2. PICK next \in {"cleanup", "done"} :
            /\ next = IF proc[p].pc = "persisting" /\ ~Ok(p) THEN "cleanup" ELSE "done"
            /\ Leaves(p, next)
      BY <1>5 DEF StoreReturns
    <2>3. Becomes(p, proc[p].cmd, "release", proc[p].goal, next, proc[p].credential,
                  proc[p].using, proc[p].displaced)
      BY <1>0, <2>2, Turn DEF Turns
    <2>4. Shape(proc[p])'
      BY <1>0, <2>2, <2>3 DEF Becomes, Shape, ProcOK
    <2>5. Unkept(proc[p])' => Unkept(proc[p])
      BY <2>2, <2>3 DEF Becomes, Unkept
    <2>6. "release" \in {"unsaved", "release"} /\ "release" # "unsaved"
          /\ next \notin {"use", "retry"}
      OBVIOUS
    <2> QED
      BY <1>2, <2>1, <2>3, <2>4, <2>5, <2>6
  <1>6. ASSUME Crash(p)
        PROVE  BaseInv'
    <2>1. /\ Becomes(p, "", "dead", "", "", NoCredential, {}, {})
          /\ CallBecomes(p, "idle", NoCredential) /\ Fault("crash")
      BY <1>0, <1>6, CrashDoes
    <2>2. FaultsOK /\ UNCHANGED <<keyring, plaintext>> /\ UNCHANGED serverVars /\ Lock!Die(p)
          /\ forgotten' \subseteq Session /\ clock' = clock
      BY <1>0, <1>6, <2>1 DEF FaultsOK, Crash
    <2>3. /\ proc'[p].pc = "dead" /\ proc'[p].next = "" /\ proc'[p].goal = ""
          /\ proc'[p].credential = NoCredential
          /\ call'[p].pc = "idle" /\ call'[p].credential = NoCredential
          /\ proc' \in [Process -> ProcState] /\ \A q \in Process \ {p} : proc'[q] = proc[q]
      BY <2>1 DEF Becomes, CallBecomes
    <2>4. Shape(proc[p])' /\ ~Unkept(proc[p])' /\ Genuine(proc[p].credential)'
      BY <2>3 DEF Shape, Unkept, Genuine
    <2>5. ProcOK(p)'
      BY <2>3, <2>4 DEF ProcOK
    <2>6. CallOK(p)'
      BY <2>3 DEF CallOK
    <2>7. ServerFine
      BY <2>2, ServerQuiet
    <2>8. StoreFine /\ \A q \in Process \ {p} : call'[q] = call[q]
      BY <1>0, <2>1, <2>2, <2>7, StoreQuiet DEF ServerFine
    <2>9. Lock!LockTypeOK' /\ clock' \in Nat
      BY <1>0, <2>2, LockTypes DEF CliTypeOK
    <2> QED
      BY <2>2, <2>3, <2>5, <2>6, <2>7, <2>8, <2>9, BaseStep
  <1> QED
    BY <1>3, <1>4, <1>5, <1>6

LEMMA WritesKeepBase ==
  ASSUME BaseInv, NEW p \in Process
  PROVE  /\ Clear(p) => BaseInv'
         /\ PersistLogin(p) => BaseInv'
         /\ ReadThrows(p) => BaseInv'
PROOF
  <1>0. /\ TypeInv /\ CliTypeOK /\ ProcOK(p) /\ StoreTypeOK /\ forgotten \subseteq Session
        /\ Lock!LockTypeOK /\ proc[p].credential \in Credential
        /\ UNCHANGED faults => FaultsOK
    BY DEF BaseInv, TypeInv, CliTypeOK, FaultsOK, ProcState
  <1>1. ASSUME UNCHANGED <<lockVars, serverVars, forgotten, clock>>
        PROVE  ServerFine /\ Lock!LockTypeOK' /\ UNCHANGED <<forgotten, clock>>
               /\ forgotten' \subseteq Session
    BY <1>0, <1>1, ServerQuiet, LockTypes
  <1>2. ASSUME Clear(p)
        PROVE  BaseInv'
    <2>1. /\ proc[p].pc = "clear" /\ UNCHANGED <<lockVars, serverVars, forgotten, clock>>
          /\ FaultsOK /\ UNCHANGED <<keyring, plaintext>>
      BY <1>0, <1>2, ClearDoes, ReadDoes DEF StoreOnly
    <2>2. CASE /\ BeginDelete(p)
               /\ Becomes(p, proc[p].cmd, "clearing", proc[p].goal, proc[p].next,
                          proc[p].credential, proc[p].using, Visible.session)
      <3>1. /\ CallBecomes(p, "delete", NoCredential)
            /\ "delete" \in CallPc /\ NoCredential \in Credential
        BY <1>0, <2>2, Calling, CredentialTypes DEF BeginDelete, CallPc
      <3>2. /\ proc'[p].cmd = proc[p].cmd /\ proc'[p].pc = "clearing"
            /\ proc'[p].next = proc[p].next /\ proc'[p].goal = proc[p].goal
            /\ proc'[p].credential = proc[p].credential /\ proc'[p].using = proc[p].using
            /\ call'[p].pc = "delete" /\ call'[p].credential = NoCredential
        BY <2>2, <3>1 DEF Becomes, CallBecomes
      <3>3. Genuine(proc[p].credential)'
        BY <1>0, <1>1, <2>1, <3>2, GenuineStays DEF ProcOK, Genuine, ServerFine
      <3>4. Shape(proc[p])' /\ ~Unkept(proc[p])'
        BY <1>0, <3>2 DEF Shape, Unkept, ProcOK
      <3>5. ProcOK(p)' /\ CallOK(p)'
        BY <1>0, <3>2, <3>3, <3>4 DEF ProcOK, CallOK
      <3> QED
        BY <1>1, <2>1, <2>2, <3>1, <3>5, CallStep
    <2>3. CASE UNCHANGED call /\ Turns(p, "release", proc[p].goal, "done")
      <3>1. /\ "release" \notin Calling4 \cup {"refresh", "unsaved", "idle"}
            /\ "release" \notin {"read", "lock", "cleanup", "use", "retry", "validate", "persist"}
            /\ "done" \notin {"use", "retry", "cleanup", ""}
            /\ proc[p].pc \notin Calling4
            /\ proc[p].goal \in {proc[p].goal, "renew", "clear", "persist"}
        BY <2>1 DEF Calling4
      <3>2. UNCHANGED <<keyring, plaintext, call>>
        BY <2>1, <2>3
      <3> QED
        BY <1>1, <2>1, <2>3, <3>1, <3>2, LocalTurn
    <2> QED
      BY <1>0, <1>2, <2>2, <2>3, ClearDoes
  <1>3. ASSUME PersistLogin(p)
        PROVE  BaseInv'
    <2>1. /\ proc[p].pc = "persist" /\ UNCHANGED <<lockVars, serverVars, forgotten, clock>>
          /\ UNCHANGED <<keyring, plaintext>> /\ FaultsOK
          /\ BeginWrite(p, proc[p].credential, proc[p].cmd = "insecure")
          /\ Becomes(p, proc[p].cmd, "persisting", proc[p].goal, proc[p].next,
                     proc[p].credential, proc[p].using, Visible.session)
      BY <1>0, <1>3, PersistLoginDoes DEF StoreOnly
    <2>2. PICK k \in {"insecure", "mask", "set"} : CallBecomes(p, k, proc[p].credential)
      BY <1>0, <2>1, Calling DEF BeginWrite, CallPc
    <2>3. /\ proc'[p].cmd = proc[p].cmd /\ proc'[p].pc = "persisting"
          /\ proc'[p].next = proc[p].next /\ proc'[p].goal = proc[p].goal
          /\ proc'[p].credential = proc[p].credential /\ proc'[p].using = proc[p].using
          /\ call'[p].pc = k /\ call'[p].credential = proc[p].credential
      BY <2>1, <2>2 DEF Becomes, CallBecomes
    <2>4. Genuine(proc[p].credential)'
      BY <1>0, <1>1, <2>1, <2>3, GenuineStays DEF ProcOK, Genuine, ServerFine
    <2>5. Shape(proc[p])' /\ Unkept(proc[p])
      BY <1>0, <2>1, <2>3 DEF Shape, Unkept, ProcOK
    <2>6. ProcOK(p)'
      BY <1>0, <2>3, <2>4, <2>5 DEF ProcOK
    <2>7. CallOK(p)'
      BY <2>3 DEF CallOK
    <2>8. k \in CallPc
      BY DEF CallPc
    <2> QED
      BY <1>0, <1>1, <2>1, <2>2, <2>6, <2>7, <2>8, CallStep
  <1>4. ASSUME ReadThrows(p)
        PROVE  BaseInv'
    <2>1. /\ proc[p].pc \in {"resolve", "renew", "read", "clear", "persist"}
          /\ UNCHANGED <<lockVars, serverVars, forgotten, clock>>
          /\ UNCHANGED <<keyring, plaintext, call>> /\ FaultsOK
      BY <1>0, <1>4, ReadThrowsDoes DEF StoreOnly, FaultsOK
    <2>2. PICK next \in {"cleanup", "done"} :
            /\ next = "cleanup" <=> proc[p].pc = "persist"
            /\ Turns(p, "release", proc[p].goal, next)
      BY <1>0, <1>4, ReadThrowsDoes
    <2>3. /\ "release" \notin Calling4 \cup {"refresh", "unsaved", "idle"}
          /\ "release" \notin {"read", "lock", "cleanup", "use", "retry", "validate", "persist"}
          /\ next \notin {"use", "retry", ""}
          /\ proc[p].pc \notin Calling4
          /\ proc[p].goal \in {proc[p].goal, "renew", "clear", "persist"}
      BY <2>1 DEF Calling4
    <2>4. next = "cleanup" => Unkept(proc[p])
      BY <2>2 DEF Unkept
    <2> QED
      BY <1>1, <2>1, <2>2, <2>3, <2>4, LocalTurn
  <1> QED
    BY <1>2, <1>3, <1>4

LEMMA BaseNext == BaseInv /\ [Next]_vars => BaseInv'
PROOF
  <1> SUFFICES ASSUME BaseInv, [Next]_vars PROVE BaseInv'
    OBVIOUS
  <1>1. ASSUME NEW p \in Process, Step(p)
        PROVE  BaseInv'
    BY <1>1, CommandsKeepBase, LockKeepsBase, ReadsKeepBase, UsesKeepBase, RefreshKeepsBase,
       ReturnsKeepBase, WritesKeepBase, StoreStepBase DEF Step
  <1>2. CASE Tick
    <2>1. Lock!LockTypeOK' /\ clock' \in Nat
      BY <1>2 DEF Tick, BaseInv, TypeInv, CliTypeOK, Lock!LockTypeOK, lockVars
    <2> QED
      BY <1>2, <2>1, IdleStep DEF Tick
  <1>3. CASE UNCHANGED vars
    <2>1. Lock!LockTypeOK' /\ clock' \in Nat
      BY <1>3 DEF vars, BaseInv, TypeInv, CliTypeOK, Lock!LockTypeOK, lockVars
    <2> QED
      BY <1>3, <2>1, IdleStep DEF vars
  <1> QED
    BY <1>1, <1>2, <1>3 DEF Next

(* What every reachable state is made of: types, genuine credentials, and *)
(* tokens that stand as their session does.                               *)
THEOREM BaseInvHolds == Spec => []BaseInv
  BY BaseInit, BaseNext, PTL DEF Spec

-----------------------------------------------------------------------------
(* The lock.  A process is in a section exactly while it holds the lock;   *)
(* and until a process crashes there is no dead owner, nobody removes a    *)
(* lock it did not create, and the file names whoever holds it.            *)

SectionAt == {"resolve", "renew", "refresh", "save", "unsaved", "discard", "read", "clear",
              "clearing", "persist", "persisting", "release"}
PlaceOK(p) ==
  /\ proc[p].pc \in SectionAt <=> waiting[p] = "held"
  /\ proc[p].pc = "lock" <=> waiting[p] \in {"open", "remove", "pause"}
FileOK ==
  Calm => dead = {} /\ \A p \in Process : waiting[p] # "remove" /\ (Holding(p) => lockFile = p)
LockInv == FileOK /\ \A p \in Process : PlaceOK(p)

LEMMA LockInit == Init => LockInv
PROOF
  <1> SUFFICES ASSUME Init PROVE LockInv
    OBVIOUS
  <1>1. \A p \in Process : proc[p].pc = "idle" /\ waiting[p] = "out"
    BY DEF Init, Lock!LockInit, NoProc
  <1>2. dead = {}
    BY DEF Init, Lock!LockInit
  <1> QED
    BY <1>1, <1>2 DEF LockInv, FileOK, PlaceOK, SectionAt, Holding

LEMMA FaultsCounted ==
  ASSUME [Next]_vars
  PROVE  FaultsOK
PROOF
  <1>1. ASSUME NEW p \in Process, Step(p)
        PROVE  FaultsOK
    <2>1. ASSUME NEW seen, Read(seen)
          PROVE  FaultsOK
      BY <2>1 DEF Read, FaultsOK
    <2>2. CASE StoreStep(p)
      BY <2>2 DEF StoreStep, KeyringStep, KeyringFails, FileStep, FileFails, FaultsOK
    <2>3. CASE \/ \E cmd \in {"call", "logout", "revoke"} : StartCommand(p, cmd)
               \/ \E s \in Session, cmd \in {"login", "insecure"} : StartLogin(p, s, cmd)
               \/ TakeLock(p) \/ WaitForLock(p) \/ GiveUp(p) \/ ReleaseLock(p)
               \/ Refresh(p) \/ UseToken(p)
      BY <2>3 DEF StartCommand, StartLogin, TakeLock, WaitForLock, GiveUp, ReleaseLock,
                  Refresh, UseToken, storeVars, FaultsOK
    <2>4. CASE ValidateLogin(p) \/ CleanUpLogin(p) \/ RefreshLost(p) \/ UseLost(p)
               \/ RevokeUnsaved(p) \/ Crash(p)
      BY <2>4 DEF ValidateLogin, CleanUpLogin, RefreshLost, UseLost, RevokeUnsaved, Crash,
                  FaultsOK
    <2>5. CASE SaveReturns(p) \/ DiscardReturns(p) \/ StoreReturns(p)
      BY <2>5 DEF SaveReturns, DiscardReturns, StoreReturns, Return, FaultsOK
    <2>6. CASE Resolve(p) \/ Renew(p) \/ ReadForLogout(p) \/ Clear(p)
      BY <2>1, <2>6 DEF Resolve, Renew, ReadForLogout, Clear
    <2>7. CASE PersistLogin(p)
      BY <2>7 DEF PersistLogin, FaultsOK
    <2>8. CASE ReadThrows(p)
      BY <2>8 DEF ReadThrows, ReadFails, FaultsOK
    <2> QED
      BY <1>1, <2>2, <2>3, <2>4, <2>5, <2>6, <2>7, <2>8 DEF Step
  <1> QED
    BY <1>1 DEF Next, Tick, vars, storeVars, FaultsOK

(* The calm does not come back, nor do lost answers. *)
LEMMA CalmBefore ==
  ASSUME StoreTypeOK, [Next]_vars
  PROVE  (Calm' => Calm) /\ (Undisturbed' => Undisturbed)
PROOF
  <1>1. ASSUME NEW kind \in {"crash", "lost", "store"}, Fault(kind)
        PROVE  (Calm' => Calm) /\ (Undisturbed' => Undisturbed)
    BY <1>1, FaultCounts DEF Calm, Undisturbed
  <1> QED
    BY <1>1, FaultsCounted DEF FaultsOK, Calm, Undisturbed

(* A step of p that does not touch the lock. *)
LEMMA LockStays ==
  ASSUME LockInv, NEW p \in Process, UNCHANGED lockVars, Calm' => Calm,
         \A q \in Process \ {p} : proc'[q] = proc[q],
         proc'[p].pc \in SectionAt <=> proc[p].pc \in SectionAt,
         proc'[p].pc = "lock" <=> proc[p].pc = "lock"
  PROVE  LockInv'
PROOF
  <1>1. FileOK'
    BY DEF LockInv, FileOK, Holding, lockVars
  <1>2. \A q \in Process : PlaceOK(q)'
    BY DEF LockInv, PlaceOK, lockVars
  <1> QED
    BY <1>1, <1>2 DEF LockInv

(* A step of p that moves its place in withLock. *)
LEMMA LockMoves ==
  ASSUME LockInv, Lock!LockTypeOK, NEW p \in Process, Calm' => Calm,
         \A q \in Process \ {p} : proc'[q] = proc[q],
         NEW w \in {"out", "open", "pause", "held"}, Lock!WaitGoes(p, w), UNCHANGED dead,
         proc'[p].pc \in SectionAt <=> w = "held",
         proc'[p].pc = "lock" <=> w \in {"open", "pause"},
         \/ w # "held" /\ UNCHANGED lockFile
         \/ w # "held" /\ waiting[p] = "held" /\ lockFile' = {}
         \/ w = "held" /\ lockFile = {} /\ lockFile' = p
  PROVE  LockInv'
PROOF
  <1>1. /\ waiting'[p] = w /\ \A q \in Process \ {p} : waiting'[q] = waiting[q]
    BY DEF Lock!LockTypeOK, Lock!WaitGoes
  <1>2. \A q \in Process : PlaceOK(q)'
    BY <1>1 DEF LockInv, PlaceOK
  <1>3. FileOK'
    <2> SUFFICES ASSUME Calm'
                 PROVE  dead' = {} /\ \A q \in Process : waiting'[q] # "remove"
                                        /\ (waiting'[q] = "held" => lockFile' = q)
      BY DEF FileOK, Holding
    <2>1. /\ dead = {}
          /\ \A q \in Process : waiting[q] # "remove" /\ (waiting[q] = "held" => lockFile = q)
      BY DEF LockInv, FileOK, Holding
    <2>2. {} \notin Process
      BY Constants
    <2> QED
      BY <1>1, <2>1, <2>2
  <1> QED
    BY <1>2, <1>3 DEF LockInv

LEMMA LockNext == BaseInv /\ LockInv /\ [Next]_vars => LockInv'
PROOF
  <1> SUFFICES ASSUME BaseInv, LockInv, [Next]_vars PROVE LockInv'
    OBVIOUS
  <1>0. /\ TypeInv /\ CliTypeOK /\ Lock!LockTypeOK
        /\ Calm' => Calm
    BY CalmBefore DEF BaseInv, TypeInv, CliTypeOK
  <1>1. ASSUME UNCHANGED <<lockVars, proc, faults>>
        PROVE  LockInv'
    BY <1>1 DEF LockInv, FileOK, PlaceOK, Holding, Calm, lockVars
  <1>2. ASSUME NEW p \in Process, Step(p)
        PROVE  LockInv'
    <2>0. /\ PlaceOK(p) /\ ProcOK(p) /\ proc[p] \in ProcState
      BY DEF LockInv, BaseInv, TypeInv, CliTypeOK
    <2>t. ASSUME NEW cmd, NEW pc, NEW goal, NEW next, NEW credential, NEW using, NEW displaced,
                 Becomes(p, cmd, pc, goal, next, credential, using, displaced)
          PROVE  proc'[p].pc = pc /\ \A q \in Process \ {p} : proc'[q] = proc[q]
      BY <2>t DEF Becomes
    <2>n. ASSUME NEW pc, NEW goal, NEW next, Turns(p, pc, goal, next)
          PROVE  proc'[p].pc = pc /\ \A q \in Process \ {p} : proc'[q] = proc[q]
      BY <2>n, <2>t DEF Turns
    <2>1. ASSUME NEW cmd \in {"call", "logout", "revoke"}, StartCommand(p, cmd)
          PROVE  LockInv'
      <3>1. /\ proc[p].pc = "idle" /\ Lock!StartWaiting(p) /\ proc'[p].pc = "lock"
            /\ \A q \in Process \ {p} : proc'[q] = proc[q]
        BY <1>0, <2>1, <2>t, StartCommandDoes
      <3> QED
        BY <1>0, <3>1, LockMoves DEF Lock!StartWaiting, SectionAt
    <2>2. ASSUME NEW s \in Session, NEW cmd \in {"login", "insecure"}, StartLogin(p, s, cmd)
          PROVE  LockInv'
      <3>1. /\ proc[p].pc = "idle" /\ UNCHANGED lockVars /\ proc'[p].pc = "validate"
            /\ \A q \in Process \ {p} : proc'[q] = proc[q]
        BY <1>0, <2>2, <2>t, StartLoginDoes
      <3> QED
        BY <1>0, <3>1, LockStays DEF SectionAt
    <2>3. CASE ValidateLogin(p)
      <3>1. CASE Locks(p, "persist")
        <4>1. /\ proc[p].pc = "validate" /\ Lock!StartWaiting(p) /\ proc'[p].pc = "lock"
              /\ \A q \in Process \ {p} : proc'[q] = proc[q]
          BY <1>0, <2>3, <2>n, <3>1, Turn DEF ValidateLogin
        <4> QED
          BY <1>0, <4>1, LockMoves DEF Lock!StartWaiting, SectionAt
      <3>2. CASE Goes(p, "cleanup") /\ UNCHANGED lockVars
        <4>1. /\ proc[p].pc = "validate" /\ proc'[p].pc = "cleanup"
              /\ \A q \in Process \ {p} : proc'[q] = proc[q]
          BY <1>0, <2>3, <2>n, <3>2, Turn DEF ValidateLogin
        <4> QED
          BY <1>0, <3>2, <4>1, LockStays DEF SectionAt
      <3> QED
        BY <2>3, <3>1, <3>2 DEF ValidateLogin
    <2>4. CASE CleanUpLogin(p) \/ UseLost(p)
      <3>1. /\ proc[p].pc \in {"cleanup", "use", "retry"} /\ UNCHANGED lockVars
            /\ proc'[p].pc = "done" /\ \A q \in Process \ {p} : proc'[q] = proc[q]
        BY <1>0, <2>4, <2>t, Turn DEF CleanUpLogin, UseLost
      <3> QED
        BY <1>0, <3>1, LockStays DEF SectionAt
    <2>5. CASE UseToken(p)
      <3>1. CASE Ends(p) /\ UNCHANGED lockVars
        <4>1. /\ proc[p].pc \in {"use", "retry"}
              /\ proc'[p].pc = "done" /\ \A q \in Process \ {p} : proc'[q] = proc[q]
          BY <1>0, <2>5, <2>t, <3>1, Turn DEF UseToken
        <4> QED
          BY <1>0, <3>1, <4>1, LockStays DEF SectionAt
      <3>2. CASE Locks(p, "renew") \/ Locks(p, "clear")
        <4>1. /\ proc[p].pc \in {"use", "retry"} /\ Lock!StartWaiting(p) /\ proc'[p].pc = "lock"
              /\ \A q \in Process \ {p} : proc'[q] = proc[q]
          BY <1>0, <2>5, <2>n, <3>2, Turn DEF UseToken
        <4> QED
          BY <1>0, <4>1, LockMoves DEF Lock!StartWaiting, SectionAt
      <3> QED
        BY <2>5, <3>1, <3>2 DEF UseToken
    <2>6. CASE TakeLock(p)
      <3>1. /\ proc[p].pc = "lock" /\ Lock!OpenLock(p) /\ Goes(p, proc[p].goal)
        BY <2>6 DEF TakeLock
      <3>2. PICK goal \in {"resolve", "renew", "read", "clear", "persist"} : proc[p].goal = goal
        BY <2>0, <3>1 DEF ProcOK, Shape, ProcState
      <3>3. proc'[p].pc = goal /\ \A q \in Process \ {p} : proc'[q] = proc[q]
        BY <1>0, <2>n, <3>1, <3>2, Turn
      <3> QED
        BY <1>0, <3>1, <3>3, LockMoves DEF Lock!OpenLock, SectionAt
    <2>7. CASE WaitForLock(p)
      <3>1. /\ proc' = proc /\ Calm' = Calm
            /\ Lock!FindLocked(p) \/ Lock!RemoveStale(p)
        BY <2>7 DEF WaitForLock, Calm, storeVars
      <3>2. PICK w \in {"pause", "remove"} : Lock!WaitGoes(p, w)
        BY <3>1 DEF Lock!FindLocked, Lock!RemoveStale
      <3>3. /\ waiting[p] \in {"open", "pause", "remove"} /\ waiting'[p] = w
            /\ \A q \in Process \ {p} : waiting'[q] = waiting[q]
        BY <1>0, <3>1, <3>2 DEF Lock!LockTypeOK, Lock!WaitGoes, Lock!FindLocked, Lock!RemoveStale
      <3>4. \A q \in Process : PlaceOK(q)'
        BY <3>1, <3>3 DEF LockInv, PlaceOK
      <3>5. ASSUME Calm
            PROVE  w = "pause" /\ UNCHANGED <<lockFile, dead>>
        <4>1. dead = {} /\ waiting[p] # "remove"
          BY <3>5 DEF LockInv, FileOK
        <4>2. Lock!FindLocked(p) /\ ~Lock!WaitGoes(p, "remove")
          BY <1>0, <3>1, <4>1
          DEF Lock!FindLocked, Lock!RemoveStale, Lock!WaitGoes, Lock!LockTypeOK
        <4> QED
          BY <3>2, <4>2 DEF Lock!FindLocked
      <3>6. FileOK'
        BY <3>1, <3>3, <3>5 DEF LockInv, FileOK, Holding
      <3> QED
        BY <3>4, <3>6 DEF LockInv
    <2>8. CASE GiveUp(p)
      <3>1. /\ proc[p].pc = "lock" /\ Lock!LockTimesOut(p) /\ (Goes(p, "cleanup") \/ Ends(p))
        BY <2>8 DEF GiveUp
      <3>2. proc'[p].pc \in {"cleanup", "done"} /\ \A q \in Process \ {p} : proc'[q] = proc[q]
        BY <1>0, <2>n, <2>t, <3>1, Turn
      <3> QED
        BY <1>0, <3>1, <3>2, LockMoves DEF Lock!LockTimesOut, SectionAt
    <2>9. CASE ReleaseLock(p)
      <3>1. proc[p].pc = "release" /\ waiting[p] = "held"
        BY <1>0, <2>0, <2>9, ReleaseLockDoes DEF PlaceOK, SectionAt
      <3>2. CASE /\ proc[p].next = "clear" /\ Turns(p, "lock", "clear", "")
                 /\ lockFile' = {} /\ Lock!WaitGoes(p, "open") /\ UNCHANGED dead
        <4>1. proc'[p].pc = "lock" /\ \A q \in Process \ {p} : proc'[q] = proc[q]
          BY <2>n, <3>2
        <4> QED
          BY <1>0, <3>1, <3>2, <4>1, LockMoves DEF SectionAt
      <3>3. ASSUME Lock!Release(p), NEW pc \in {"done", "use", "retry", "cleanup"},
                   proc'[p].pc = pc, \A q \in Process \ {p} : proc'[q] = proc[q]
            PROVE  LockInv'
        BY <1>0, <3>1, <3>3, LockMoves DEF Lock!Release, SectionAt
      <3> QED
        BY <1>0, <2>9, <2>n, <2>t, <3>2, <3>3, ReleaseLockDoes
    <2>10. ASSUME UNCHANGED lockVars, proc[p].pc \in SectionAt, NEW pc \in SectionAt,
                  proc'[p].pc = pc, \A q \in Process \ {p} : proc'[q] = proc[q]
           PROVE  LockInv'
      BY <1>0, <2>10, LockStays DEF SectionAt
    <2>11. CASE Resolve(p)
      <3>1. /\ proc[p].pc = "resolve" /\ UNCHANGED lockVars /\ proc'[p].pc \in {"release", "refresh"}
            /\ \A q \in Process \ {p} : proc'[q] = proc[q]
        BY <1>0, <2>11, <2>n, <2>t, ResolveDoes DEF StoreOnly
      <3> QED
        BY <2>10, <3>1 DEF SectionAt
    <2>12. CASE Renew(p)
      <3>1. /\ proc[p].pc = "renew" /\ UNCHANGED lockVars /\ proc'[p].pc \in {"release", "refresh"}
            /\ \A q \in Process \ {p} : proc'[q] = proc[q]
        BY <1>0, <2>12, <2>n, <2>t, RenewDoes DEF StoreOnly
      <3> QED
        BY <2>10, <3>1 DEF SectionAt
    <2>13. CASE Refresh(p)
      <3>1. /\ proc[p].pc = "refresh" /\ UNCHANGED lockVars /\ proc'[p].pc \in {"save", "discard"}
            /\ \A q \in Process \ {p} : proc'[q] = proc[q]
        BY <1>0, <2>13, <2>n, <2>t, RefreshDoes
      <3> QED
        BY <2>10, <3>1 DEF SectionAt
    <2>14. CASE RefreshLost(p)
      <3>1. /\ proc[p].pc = "refresh" /\ UNCHANGED lockVars /\ proc'[p].pc = "release"
            /\ \A q \in Process \ {p} : proc'[q] = proc[q]
        BY <1>0, <2>14, <2>n, Turn DEF RefreshLost
      <3> QED
        BY <2>10, <3>1 DEF SectionAt
    <2>15. CASE SaveReturns(p)
      <3>1. /\ proc[p].pc = "save" /\ UNCHANGED lockVars /\ proc'[p].pc \in {"release", "unsaved"}
            /\ \A q \in Process \ {p} : proc'[q] = proc[q]
        BY <1>0, <2>15, <2>n, <2>t, SaveReturnsDoes DEF StoreOnly
      <3> QED
        BY <2>10, <3>1 DEF SectionAt
    <2>16. CASE RevokeUnsaved(p)
      <3>1. /\ proc[p].pc = "unsaved" /\ UNCHANGED lockVars /\ proc'[p].pc = "discard"
            /\ \A q \in Process \ {p} : proc'[q] = proc[q]
        BY <1>0, <2>16, <2>n, RevokeUnsavedDoes
      <3> QED
        BY <2>10, <3>1 DEF SectionAt
    <2>17. CASE DiscardReturns(p)
      <3>1. /\ proc[p].pc = "discard" /\ UNCHANGED lockVars /\ proc'[p].pc = "release"
            /\ \A q \in Process \ {p} : proc'[q] = proc[q]
        BY <1>0, <2>17, <2>n, Turn DEF DiscardReturns, StoreOnly
      <3> QED
        BY <2>10, <3>1 DEF SectionAt
    <2>18. CASE ReadForLogout(p)
      <3>1. /\ proc[p].pc = "read" /\ UNCHANGED lockVars /\ proc'[p].pc = "release"
            /\ \A q \in Process \ {p} : proc'[q] = proc[q]
        BY <1>0, <2>18, <2>t, ReadForLogoutDoes DEF StoreOnly
      <3> QED
        BY <2>10, <3>1 DEF SectionAt
    <2>19. CASE Clear(p)
      <3>1. /\ proc[p].pc = "clear" /\ UNCHANGED lockVars /\ proc'[p].pc \in {"clearing", "release"}
            /\ \A q \in Process \ {p} : proc'[q] = proc[q]
        BY <1>0, <2>19, <2>n, <2>t, ClearDoes DEF StoreOnly
      <3> QED
        BY <2>10, <3>1 DEF SectionAt
    <2>20. CASE PersistLogin(p)
      <3>1. /\ proc[p].pc = "persist" /\ UNCHANGED lockVars /\ proc'[p].pc = "persisting"
            /\ \A q \in Process \ {p} : proc'[q] = proc[q]
        BY <1>0, <2>20, <2>t, PersistLoginDoes DEF StoreOnly
      <3> QED
        BY <2>10, <3>1 DEF SectionAt
    <2>21. CASE StoreReturns(p)
      <3>1. /\ proc[p].pc \in {"clearing", "persisting"} /\ UNCHANGED lockVars
            /\ proc'[p].pc = "release" /\ \A q \in Process \ {p} : proc'[q] = proc[q]
        BY <1>0, <2>21, <2>n, Turn DEF StoreReturns
      <3> QED
        BY <2>10, <3>1 DEF SectionAt
    <2>24. CASE ReadThrows(p)
      <3>1. /\ proc[p].pc \in {"resolve", "renew", "read", "clear", "persist"}
            /\ UNCHANGED lockVars /\ proc'[p].pc = "release"
            /\ \A q \in Process \ {p} : proc'[q] = proc[q]
        BY <1>0, <2>24, <2>n, ReadThrowsDoes DEF StoreOnly
      <3> QED
        BY <2>10, <3>1 DEF SectionAt
    <2>22. CASE StoreStep(p)
      <3>1. UNCHANGED <<lockVars, proc>>
        BY <2>22 DEF StoreStep
      <3> QED
        BY <1>0, <3>1, LockStays
    <2>23. CASE Crash(p)
      <3>1. /\ faults'["crash"] > 0 /\ proc'[p].pc = "dead"
            /\ \A q \in Process \ {p} : proc'[q] = proc[q]
        BY <1>0, <2>23, <2>t, CrashDoes
      <3>2. waiting'[p] = "out" /\ \A q \in Process \ {p} : waiting'[q] = waiting[q]
        BY <1>0, <2>23 DEF Crash, Lock!Die, Lock!WaitGoes, Lock!LockTypeOK
      <3>3. FileOK'
        BY <3>1 DEF FileOK, Calm
      <3>4. \A q \in Process : PlaceOK(q)'
        BY <3>1, <3>2 DEF LockInv, PlaceOK, SectionAt
      <3> QED
        BY <3>3, <3>4 DEF LockInv
    <2> QED
      BY <1>2, <2>1, <2>2, <2>3, <2>4, <2>5, <2>6, <2>7, <2>8, <2>9, <2>11, <2>12, <2>13, <2>14,
         <2>15, <2>16, <2>17, <2>18, <2>19, <2>20, <2>21, <2>22, <2>23, <2>24 DEF Step
  <1> QED
    BY <1>1, <1>2 DEF Next, Tick, vars, storeVars

(* FileCredentialLock: as long as no process has crashed, at most one of *)
(* them is between taking and releasing credentials.lock.                *)
THEOREM LockSharedOnlyAfterACrashHolds == Spec => []LockSharedOnlyAfterACrash
PROOF
  <1>1. LockInv => LockSharedOnlyAfterACrash
    BY DEF LockInv, FileOK, LockSharedOnlyAfterACrash, Calm
  <1>2. Init => BaseInv /\ LockInv
    BY BaseInit, LockInit
  <1>3. BaseInv /\ LockInv /\ [Next]_vars => (BaseInv /\ LockInv)'
    BY BaseNext, LockNext
  <1> QED
    BY <1>1, <1>2, <1>3, PTL DEF Spec

-----------------------------------------------------------------------------
(* Logging out.  While nobody crashes, a call of the store knows what it   *)
(* has done so far, a session a login has not kept yet is known to nobody  *)
(* else, and what is about to be refreshed is what the store holds.        *)

CallExact(p) ==
  LET c == call[p] IN
  /\ c.pc = "set" => ~Masks
  /\ c.pc \in {"setMasked", "drop", "unmask"} => plaintext = File("credential", c.credential)
  /\ c.pc = "unmask" => keyring = c.credential
  /\ c.pc = "erase" => keyring = NoCredential
  /\ c.pc = "ok" => Visible = c.credential

(* The call has not written the credential anywhere. *)
Fresh(p) ==
  proc[p].pc = "persisting" => call[p].pc \in {"set", "plain", "insecure", "mask", "thrown"}

LoginOK(p) ==
  LET s == proc[p].credential.session IN
  Unkept(proc[p]) =>
    /\ s \notin forgotten
    /\ \A q \in Process \ {p} : proc[q].credential.session # s
    /\ \A q \in Process : proc[q].displaced # s
    /\ Fresh(p) => s # keyring.session /\ s # plaintext.credential.session

RefreshOK(p) ==
  /\ proc[p].pc = "refresh" => proc[p].credential = Visible
  /\ proc[p].pc \in {"save", "unsaved"} => proc[p].credential.session \notin forgotten

Exists(s) == s \in Session => sessions[s].status # "none"

OutInv ==
  Calm =>
    /\ Visible.session \notin forgotten
    /\ \A s \in forgotten : Exists(s)
    /\ \A p \in Process : CallExact(p) /\ LoginOK(p) /\ RefreshOK(p) /\ Exists(proc[p].displaced)

LEMMA OutInit == Init => OutInv
PROOF
  <1> SUFFICES ASSUME Init PROVE OutInv
    OBVIOUS
  <1>1. \A p \in Process : proc[p] = NoProc /\ call[p] = NoCall
    BY DEF Init
  <1>2. /\ NoProc.pc = "idle" /\ NoProc.displaced = {} /\ NoCall.pc = "idle"
        /\ ~Unkept(NoProc)
    BY DEF NoProc, NoCall, Unkept
  <1>3. forgotten = {} /\ {} \notin Session
    BY Constants DEF Init
  <1> QED
    BY <1>1, <1>2, <1>3 DEF OutInv, CallExact, LoginOK, RefreshOK, Exists

(* A genuine credential is of a session that exists. *)
LEMMA GenuineExists ==
  ASSUME BaseInv, NEW c, Genuine(c)
  PROVE  c.session \in Session => c.session = {} \/ sessions[c.session].status # "none"
PROOF
  <1>1. CASE c = NoCredential
    BY <1>1 DEF NoCredential
  <1>2. CASE c # NoCredential
    <2>1. c.token \in Token /\ refresh[c.token].session_id = c.session /\ c.session # {}
      BY <1>2, Constants DEF Genuine
    <2> QED
      BY <2>1 DEF BaseInv, TokensOK
  <1> QED
    BY <1>1, <1>2

LEMMA StoresExist ==
  ASSUME BaseInv
  PROVE  /\ Exists(keyring.session) /\ Exists(plaintext.credential.session)
         /\ Exists(Visible.session)
         /\ \A p \in Process : Exists(proc[p].credential.session)
PROOF
  <1>1. Genuine(keyring) /\ Genuine(plaintext.credential) /\ Genuine(Visible)
    BY VisibleGenuine DEF BaseInv
  <1>2. \A p \in Process : Genuine(proc[p].credential)
    BY DEF BaseInv, ProcOK
  <1> QED
    BY <1>1, <1>2, GenuineExists, Constants DEF Exists

(* While one process is in a section no other is. *)
LEMMA Alone ==
  ASSUME LockInv, Calm, NEW p \in Process, proc[p].pc \in SectionAt
  PROVE  \A q \in Process \ {p} : proc[q].pc \notin SectionAt
  BY DEF LockInv, FileOK, PlaceOK, Holding

(* What is visible is in the keyring or in the file, or nothing is. *)
LEMMA VisibleIs ==
  ASSUME StoreTypeOK
  PROVE  Visible \in {keyring, plaintext.credential, NoCredential}
  BY DEF StoreTypeOK, Visible

LEMMA SameVisible ==
  ASSUME UNCHANGED <<keyring, plaintext>>
  PROVE  Visible' = Visible /\ Masks' = Masks
  BY DEF Visible, Masks

LEMMA ExistsStays ==
  ASSUME Grows, NEW s, Exists(s)
  PROVE  Exists(s)'
  BY DEF Grows, Exists

(* A step of p that writes neither the store nor what was forgotten. *)
LEMMA OutStep ==
  ASSUME BaseInv, LockInv, OutInv, Calm, NEW p \in Process, Grows,
         UNCHANGED <<keyring, plaintext, forgotten>>,
         \A q \in Process \ {p} : proc'[q] = proc[q] /\ call'[q] = call[q],
         \/ proc'[p].credential.session \in {proc[p].credential.session, {}}
         \/ proc[p].pc \in SectionAt /\ proc'[p].credential.session = Visible.session,
         \/ proc'[p].displaced \in {proc[p].displaced, {}}
         \/ proc[p].pc \in SectionAt \ {"persisting"} /\ proc'[p].displaced = Visible.session,
         Unkept(proc[p])' => /\ Unkept(proc[p])
                             /\ proc'[p].credential.session = proc[p].credential.session
                             /\ Fresh(p)' => Fresh(p),
         CallExact(p)', RefreshOK(p)'
  PROVE  OutInv'
PROOF
  <1>1. /\ Visible.session \notin forgotten
        /\ \A s \in forgotten : Exists(s)
        /\ \A q \in Process :
             CallExact(q) /\ LoginOK(q) /\ RefreshOK(q) /\ Exists(proc[q].displaced)
    BY DEF OutInv
  <1>2. Visible' = Visible /\ Masks' = Masks
    BY SameVisible
  <1>3. /\ Visible'.session \notin forgotten'
        /\ \A s \in forgotten' : Exists(s)'
    BY <1>1, <1>2, ExistsStays
  <1>4. \A q \in Process : CallExact(q)' /\ RefreshOK(q)'
    BY <1>1, <1>2 DEF CallExact, RefreshOK
  <1>5. Exists(Visible.session) /\ Exists({})
    BY StoresExist, Constants DEF Exists
  <1>6. \A q \in Process : Exists(proc[q].displaced)'
    BY <1>1, <1>5, ExistsStays
  <1>7. ASSUME NEW q \in Process, Unkept(proc[q]), Fresh(q)
        PROVE  proc[q].credential.session # Visible.session
    <2>1. proc[q].credential.session \in Session
      BY <1>7 DEF BaseInv, ProcOK
    <2>2. /\ proc[q].credential.session # keyring.session
          /\ proc[q].credential.session # plaintext.credential.session
      BY <1>1, <1>7 DEF LoginOK
    <2>3. proc[q].credential.session # NoCredential.session
      BY <2>1, Constants DEF NoCredential
    <2> QED
      BY <2>2, <2>3, VisibleIs DEF BaseInv, TypeInv, CliTypeOK
  <1>8. \A q \in Process : Unkept(proc[q]) => proc[q].credential.session # {}
    <2>1. \A q \in Process : Unkept(proc[q]) => proc[q].credential.session \in Session
      BY DEF BaseInv, ProcOK
    <2> QED
      BY <2>1, Constants
  <1>9. ASSUME NEW q \in Process \ {p}
        PROVE  LoginOK(q)'
    <2> SUFFICES ASSUME Unkept(proc[q]) PROVE LoginOK(q)'
      BY DEF LoginOK
    <2>1. proc[p].pc \in SectionAt => Fresh(q)
      BY <1>9, Alone DEF Fresh, SectionAt
    <2>2. proc'[q] = proc[q] /\ call'[q] = call[q]
      BY <1>9
    <2>3. /\ proc[q].credential.session \notin forgotten
          /\ \A o \in Process \ {q} : proc[o].credential.session # proc[q].credential.session
          /\ \A o \in Process : proc[o].displaced # proc[q].credential.session
          /\ Fresh(q) => /\ proc[q].credential.session # keyring.session
                         /\ proc[q].credential.session # plaintext.credential.session
      BY <1>1 DEF LoginOK
    <2>4. /\ proc'[p].credential.session # proc[q].credential.session
          /\ proc'[p].displaced # proc[q].credential.session
      BY <1>7, <1>8, <1>9, <2>1, <2>3
    <2>5. Fresh(q)' <=> Fresh(q)
      BY <2>2 DEF Fresh
    <2> QED
      BY <2>2, <2>3, <2>4, <2>5 DEF LoginOK
  <1>10. LoginOK(p)'
    <2> SUFFICES ASSUME Unkept(proc[p])' PROVE LoginOK(p)'
      BY DEF LoginOK
    <2>1. /\ Unkept(proc[p]) /\ proc'[p].credential.session = proc[p].credential.session
          /\ Fresh(p)' => Fresh(p)
      OBVIOUS
    <2>2. /\ proc[p].credential.session \notin forgotten
          /\ \A o \in Process \ {p} : proc[o].credential.session # proc[p].credential.session
          /\ \A o \in Process : proc[o].displaced # proc[p].credential.session
          /\ Fresh(p) => /\ proc[p].credential.session # keyring.session
                         /\ proc[p].credential.session # plaintext.credential.session
      BY <1>1, <2>1 DEF LoginOK
    <2>3. proc'[p].displaced # proc[p].credential.session
      <3>1. proc[p].pc # "persisting" => Fresh(p)
        BY DEF Fresh
      <3> QED
        BY <1>7, <1>8, <2>1, <2>2, <3>1
    <2> QED
      BY <2>1, <2>2, <2>3 DEF LoginOK
  <1> QED
    BY <1>3, <1>4, <1>6, <1>9, <1>10 DEF OutInv

(* An operation on the keyring or the file. *)
LEMMA StoreStepExact ==
  ASSUME BaseInv, OutInv, Calm, NEW p \in Process, StoreStep(p)
  PROVE  /\ CallExact(p)' /\ proc[p].pc \in Calling4
         /\ \/ Visible' = Visible /\ keyring' = keyring /\ plaintext' = plaintext
            \/ /\ Visible' \in {Visible, NoCredential} /\ keyring' \in {keyring, NoCredential}
               /\ plaintext'.credential \in {plaintext.credential, NoCredential}
               /\ Visible' = Visible \/ proc[p].pc \in {"discard", "clearing"}
            \/ /\ proc[p].pc \in {"save", "persisting"}
               /\ call'[p].pc \in {"ok", "setMasked", "unmask", "drop"}
               /\ Visible' = proc[p].credential
               /\ keyring' \in {keyring, proc[p].credential, NoCredential}
               /\ plaintext'.credential \in
                    {plaintext.credential, proc[p].credential, NoCredential}
         /\ call'[p].pc \in {"set", "plain", "insecure", "mask", "thrown"} =>
              (proc[p].pc = "persisting" => Fresh(p))
PROOF
  <1>0. /\ StoreTypeOK /\ CallOK(p) /\ CallExact(p)
        /\ call[p].pc # "idle" => proc[p].pc \in Calling4
    BY DEF BaseInv, TypeInv, CliTypeOK, OutInv, CallOK, Calling4
  <1>1. /\ KeyringMoves(p) \/ KeyringKeeps(p) \/ FileMoves(p) \/ FileKeeps(p)
        /\ UNCHANGED <<lockVars, serverVars, proc, forgotten, clock>>
    BY <1>0, StoreStepDoes
  <1>2. ASSUME NEW from, NEW to, Moves(p, from, to)
        PROVE  /\ call[p].pc = from /\ call'[p].pc = to
               /\ call'[p].credential = call[p].credential
    BY <1>2 DEF Moves, CallBecomes
  <1>3. /\ NoFile.kind = "none" /\ NoFile.credential = NoCredential
        /\ \A kind, c : File(kind, c).kind = kind /\ File(kind, c).credential = c
    BY DEF NoFile, File
  <1>4. call[p].pc \in {"set", "setMasked", "plain", "mask", "insecure", "unmask", "drop"} =>
          proc[p].pc \in {"save", "persisting"} /\ call[p].credential = proc[p].credential
    BY <1>0 DEF CallOK, Calling4
  <1>5. call[p].pc \in {"delete", "erase", "marker"} =>
          proc[p].pc \in {"discard", "clearing"} /\ call[p].credential = NoCredential
    BY <1>0 DEF CallOK, Calling4
  <1>6. CASE KeyringMoves(p)
    <2>1. plaintext' = plaintext
      BY <1>6 DEF KeyringMoves
    <2>2. CASE keyring' = call[p].credential /\ Moves(p, "set", "ok")
      <3>1. call[p].pc = "set" /\ call'[p].pc = "ok" /\ call'[p].credential = call[p].credential
        BY <1>2, <2>2
      <3>2. Visible' = call[p].credential
        BY <1>0, <2>1, <2>2, <3>1 DEF Visible, Masks, StoreTypeOK, CallExact
      <3>3. CallExact(p)'
        BY <3>1, <3>2 DEF CallExact
      <3> QED
        BY <1>0, <1>4, <2>1, <2>2, <3>1, <3>2, <3>3
    <2>3. CASE keyring' = call[p].credential /\ Moves(p, "setMasked", "unmask")
      <3>1. call[p].pc = "setMasked" /\ call'[p].pc = "unmask"
            /\ call'[p].credential = call[p].credential
        BY <1>2, <2>3
      <3>2. plaintext = File("credential", call[p].credential)
        BY <1>0, <3>1 DEF CallExact
      <3>3. Visible' = call[p].credential
        BY <1>3, <2>1, <3>2 DEF Visible
      <3>4. CallExact(p)'
        BY <2>1, <2>3, <3>1, <3>2 DEF CallExact
      <3> QED
        BY <1>0, <1>4, <2>1, <2>3, <3>1, <3>3, <3>4
    <2>4. CASE keyring' = NoCredential /\ Moves(p, "drop", "ok")
      <3>1. call[p].pc = "drop" /\ call'[p].pc = "ok" /\ call'[p].credential = call[p].credential
        BY <1>2, <2>4
      <3>2. plaintext = File("credential", call[p].credential)
        BY <1>0, <3>1 DEF CallExact
      <3>3. Visible' = call[p].credential /\ Visible' = Visible
        BY <1>3, <2>1, <3>2 DEF Visible
      <3>4. CallExact(p)'
        BY <3>1, <3>3 DEF CallExact
      <3> QED
        BY <1>0, <1>4, <2>1, <2>4, <3>1, <3>3, <3>4
    <2>5. CASE keyring' = NoCredential /\ Moves(p, "delete", "erase")
      <3>1. call[p].pc = "delete" /\ call'[p].pc = "erase"
        BY <1>2, <2>5
      <3>2. Visible' \in {Visible, NoCredential}
        BY <1>0, <2>1, <2>5 DEF Visible, StoreTypeOK
      <3>3. CallExact(p)'
        BY <2>5, <3>1 DEF CallExact
      <3> QED
        BY <1>0, <1>5, <2>1, <2>5, <3>1, <3>2, <3>3
    <2> QED
      BY <1>6, <2>2, <2>3, <2>4, <2>5 DEF KeyringMoves
  <1>7. CASE FileMoves(p)
    <2>1. keyring' = keyring
      BY <1>7 DEF FileMoves
    <2>2. CASE plaintext' = NoFile /\ Moves(p, "unmask", "ok")
      <3>1. call[p].pc = "unmask" /\ call'[p].pc = "ok" /\ call'[p].credential = call[p].credential
        BY <1>2, <2>2
      <3>2. plaintext = File("credential", call[p].credential) /\ keyring = call[p].credential
        BY <1>0, <3>1 DEF CallExact
      <3>3. Visible' = call[p].credential /\ Visible = call[p].credential
        BY <1>3, <2>1, <2>2, <3>2 DEF Visible
      <3>4. CallExact(p)'
        BY <3>1, <3>3 DEF CallExact
      <3> QED
        BY <1>0, <1>3, <1>4, <2>1, <2>2, <3>1, <3>3, <3>4
    <2>3. CASE plaintext' = NoFile /\ Moves(p, "erase", "ok")
      <3>1. call[p].pc = "erase" /\ call'[p].pc = "ok" /\ call'[p].credential = call[p].credential
        BY <1>2, <2>3
      <3>2. keyring = NoCredential /\ call[p].credential = NoCredential
        BY <1>0, <1>5, <3>1 DEF CallExact
      <3>3. Visible' = NoCredential
        BY <1>3, <2>1, <2>3, <3>2 DEF Visible
      <3>4. CallExact(p)'
        BY <3>1, <3>2, <3>3 DEF CallExact
      <3> QED
        BY <1>0, <1>3, <1>5, <2>1, <2>3, <3>1, <3>3, <3>4
    <2>4. CASE plaintext' = File("marker", NoCredential) /\ Moves(p, "marker", "ok")
      <3>1. call[p].pc = "marker" /\ call'[p].pc = "ok" /\ call'[p].credential = call[p].credential
        BY <1>2, <2>4
      <3>2. call[p].credential = NoCredential
        BY <1>5, <3>1
      <3>3. Visible' = NoCredential
        BY <1>3, <2>4 DEF Visible
      <3>4. CallExact(p)'
        BY <3>1, <3>2, <3>3 DEF CallExact
      <3> QED
        BY <1>0, <1>3, <1>5, <2>1, <2>4, <3>1, <3>3, <3>4
    <2>5. ASSUME plaintext' = File("credential", call[p].credential),
                 NEW from \in {"plain", "mask", "insecure"}, NEW to \in {"ok", "setMasked", "drop"},
                 Moves(p, from, to)
          PROVE  /\ CallExact(p)' /\ call[p].pc = from /\ call'[p].pc = to
                 /\ Visible' = call[p].credential
                 /\ plaintext'.credential = call[p].credential
      <3>1. call[p].pc = from /\ call'[p].pc = to /\ call'[p].credential = call[p].credential
        BY <1>2, <2>5
      <3>2. Visible' = call[p].credential
        BY <1>3, <2>5 DEF Visible
      <3>3. CallExact(p)'
        BY <2>5, <3>1, <3>2 DEF CallExact
      <3> QED
        BY <1>3, <2>5, <3>1, <3>2, <3>3
    <2>6. CASE /\ plaintext' = File("credential", call[p].credential)
               /\ Moves(p, "plain", "ok") \/ Moves(p, "mask", "setMasked")
                  \/ Moves(p, "insecure", "drop")
      <3>1. PICK from \in {"plain", "mask", "insecure"}, to \in {"ok", "setMasked", "drop"} :
              Moves(p, from, to)
        BY <2>6
      <3>2. /\ CallExact(p)' /\ call[p].pc = from /\ call'[p].pc = to
            /\ Visible' = call[p].credential
            /\ plaintext'.credential = call[p].credential
        BY <2>5, <2>6, <3>1
      <3>3. proc[p].pc \in {"save", "persisting"} /\ call[p].credential = proc[p].credential
        BY <1>4, <3>2
      <3>4. proc[p].pc \in Calling4
        BY <3>3 DEF Calling4
      <3> QED
        BY <2>1, <3>2, <3>3, <3>4
    <2> QED
      BY <1>7, <2>2, <2>3, <2>4, <2>6 DEF FileMoves
  <1>8. CASE KeyringKeeps(p) \/ FileKeeps(p)
    <2>1. keyring' = keyring /\ plaintext' = plaintext
      BY <1>8 DEF KeyringKeeps, FileKeeps
    <2>2. Visible' = Visible
      BY <2>1, SameVisible
    <2>3. PICK from, to :
            /\ Moves(p, from, to)
            /\ <<from, to>> \in {<<"set", "plain">>, <<"set", "thrown">>,
                                 <<"setMasked", "ok">>, <<"drop", "ok">>,
                                 <<"delete", "marker">>, <<"plain", "thrown">>,
                                 <<"mask", "thrown">>, <<"insecure", "thrown">>,
                                 <<"unmask", "ok">>, <<"erase", "marker">>,
                                 <<"marker", "thrown">>}
      BY <1>8 DEF KeyringKeeps, FileKeeps
    <2>4. call[p].pc = from /\ call'[p].pc = to /\ call'[p].credential = call[p].credential
      BY <1>2, <2>3
    <2>5. from \in {"setMasked", "drop", "unmask"} => Visible' = call[p].credential
      <3>1. from \in {"setMasked", "drop", "unmask"} =>
              plaintext = File("credential", call[p].credential)
        BY <1>0, <2>4 DEF CallExact
      <3>2. plaintext = File("credential", call[p].credential) => Visible = call[p].credential
        BY <1>3 DEF Visible
      <3> QED
        BY <2>2, <3>1, <3>2
    <2>6. /\ to = "ok" => from \in {"setMasked", "drop", "unmask"}
          /\ to \in {"plain", "ok", "marker", "thrown"}
          /\ from # "idle"
      BY <2>3
    <2>7. CallExact(p)'
      BY <2>4, <2>5, <2>6 DEF CallExact
    <2>8. to \in {"plain", "thrown"} /\ proc[p].pc = "persisting" => Fresh(p)
      <3>1. to \in {"plain", "thrown"} => from \in {"set", "plain", "mask", "insecure", "marker"}
        BY <2>3
      <3> QED
        BY <1>5, <2>4, <3>1 DEF Fresh
    <2> QED
      BY <1>0, <2>1, <2>2, <2>4, <2>6, <2>7, <2>8
  <1> QED
    BY <1>1, <1>6, <1>7, <1>8

(* In a section of p no other process calls the store or keeps a login. *)
LEMMA OthersWait ==
  ASSUME BaseInv, LockInv, Calm, NEW p \in Process, proc[p].pc \in SectionAt,
         NEW q \in Process \ {p}
  PROVE  call[q].pc = "idle" /\ Fresh(q) /\ proc[q].pc \notin SectionAt
PROOF
  <1>1. proc[q].pc \notin SectionAt
    BY Alone
  <1>2. CallOK(q)
    BY DEF BaseInv
  <1> QED
    BY <1>1, <1>2 DEF CallOK, Fresh, SectionAt

LEMMA LoginKnown ==
  ASSUME BaseInv, OutInv, Calm, NEW q \in Process, Unkept(proc[q])
  PROVE  LET s == proc[q].credential.session IN
         /\ s \in Session /\ s \notin forgotten /\ s # {}
         /\ \A o \in Process \ {q} : proc[o].credential.session # s
         /\ \A o \in Process : proc[o].displaced # s
         /\ Fresh(q) => /\ s # keyring.session /\ s # plaintext.credential.session
                        /\ s # Visible.session
PROOF
  <1>1. proc[q].credential.session \in Session
    BY DEF BaseInv, ProcOK
  <1>2. LoginOK(q) /\ proc[q].credential.session # {}
    BY <1>1, Constants DEF OutInv
  <1>3. Fresh(q) => proc[q].credential.session # Visible.session
    BY <1>2, VisibleIs DEF LoginOK, NoCredential, BaseInv, TypeInv, CliTypeOK
  <1> QED
    BY <1>1, <1>2, <1>3 DEF LoginOK

LEMMA OutStoreStep ==
  ASSUME BaseInv, LockInv, OutInv, Calm, NEW p \in Process, StoreStep(p)
  PROVE  OutInv'
PROOF
  <1>0. /\ Visible.session \notin forgotten
        /\ \A s \in forgotten : Exists(s)
        /\ \A q \in Process : RefreshOK(q) /\ Exists(proc[q].displaced)
        /\ ProcOK(p) /\ StoreTypeOK
    BY DEF OutInv, BaseInv, TypeInv, CliTypeOK
  <1>1. /\ UNCHANGED <<serverVars, proc, forgotten>>
        /\ \A q \in Process \ {p} : call'[q] = call[q]
    BY <1>0, StoreStepDoes DEF KeyringMoves, KeyringKeeps, FileMoves, FileKeeps, Moves, CallBecomes
  <1>2. CallExact(p)' /\ proc[p].pc \in Calling4 /\ proc[p].pc \in SectionAt
    BY StoreStepExact DEF Calling4, SectionAt
  <1>3. \A q \in Process \ {p} : call[q].pc = "idle" /\ Fresh(q) /\ proc[q].pc \notin SectionAt
    BY <1>2, OthersWait
  <1>4. \A q \in Process \ {p} : CallExact(q)'
    BY <1>1, <1>3 DEF CallExact
  <1>5. {} \notin forgotten /\ NoCredential.session = {}
    BY Constants DEF BaseInv, TypeInv, CliTypeOK, NoCredential
  <1>6. Visible'.session \notin forgotten
    <2>1. CASE Visible' = proc[p].credential /\ proc[p].pc \in {"save", "persisting"}
      <3>1. CASE proc[p].pc = "save"
        BY <1>0, <2>1, <3>1 DEF RefreshOK
      <3>2. CASE proc[p].pc = "persisting"
        BY <2>1, <3>2, LoginKnown DEF Unkept
      <3> QED
        BY <2>1, <3>1, <3>2
    <2> QED
      BY <1>0, <1>5, <2>1, StoreStepExact
  <1>7. \A q \in Process : RefreshOK(q)'
    <2>1. ASSUME NEW q \in Process
          PROVE  proc[q].pc # "refresh"
      BY <1>2, <1>3 DEF Calling4, SectionAt
    <2> QED
      BY <1>0, <1>1, <2>1 DEF RefreshOK
  <1>9. /\ \A s \in forgotten : Exists(s)'
        /\ \A q \in Process : Exists(proc[q].displaced)'
    BY <1>0, <1>1 DEF Exists, serverVars
  <1>10. ASSUME NEW q \in Process, Unkept(proc[q])
         PROVE  LoginOK(q)'
    <2>1. LET s == proc[q].credential.session IN
          /\ s \in Session /\ s \notin forgotten /\ s # {}
          /\ \A o \in Process \ {q} : proc[o].credential.session # s
          /\ \A o \in Process : proc[o].displaced # s
          /\ Fresh(q) => s # keyring.session /\ s # plaintext.credential.session
      BY <1>10, LoginKnown
    <2>2. ASSUME Fresh(q)'
          PROVE  /\ proc[q].credential.session # keyring'.session
                 /\ proc[q].credential.session # plaintext'.credential.session
      <3>1. CASE q # p
        <4>1. Fresh(q)
          BY <1>3, <3>1
        <4>2. /\ keyring' \in {keyring, proc[p].credential, NoCredential}
              /\ plaintext'.credential \in
                   {plaintext.credential, proc[p].credential, NoCredential}
          BY StoreStepExact
        <4>3. proc[p].credential.session # proc[q].credential.session
          BY <2>1, <3>1
        <4> QED
          BY <1>5, <2>1, <4>1, <4>2, <4>3
      <3>2. CASE q = p
        <4>1. CASE proc[p].pc = "persisting"
          <5>1. call'[p].pc \in {"set", "plain", "insecure", "mask", "thrown"}
            BY <1>1, <2>2, <3>2, <4>1 DEF Fresh
          <5>2. Fresh(p) /\ call'[p].pc \notin {"ok", "setMasked", "unmask", "drop"}
            BY <4>1, <5>1, StoreStepExact
          <5>3. /\ keyring' \in {keyring, NoCredential}
                /\ plaintext'.credential \in {plaintext.credential, NoCredential}
            BY <5>2, StoreStepExact
          <5> QED
            BY <1>5, <2>1, <3>2, <5>2, <5>3
        <4>2. CASE proc[p].pc # "persisting"
          <5>1. ~Unkept(proc[p])
            BY <1>2, <4>2 DEF Unkept, Calling4
          <5> QED
            BY <1>10, <3>2, <5>1
        <4> QED
          BY <4>1, <4>2
      <3> QED
        BY <3>1, <3>2
    <2> QED
      BY <1>1, <2>1, <2>2 DEF LoginOK
  <1>11. \A q \in Process : LoginOK(q)'
    <2>1. \A q \in Process : ~Unkept(proc[q]) => LoginOK(q)'
      BY <1>1 DEF LoginOK
    <2> QED
      BY <1>10, <2>1
  <1> QED
    BY <1>1, <1>2, <1>4, <1>6, <1>7, <1>9, <1>11 DEF OutInv

LEMMA StepGrows ==
  ASSUME BaseInv, NEW p \in Process, Step(p)
  PROVE  Grows
PROOF
  <1>0. TypeInv /\ CliTypeOK /\ ProcOK(p)
    BY DEF BaseInv, TypeInv
  <1>1. ASSUME UNCHANGED serverVars
        PROVE  Grows
    BY <1>1, ServerQuiet DEF ServerFine
  <1>2. ASSUME NEW t \in Token, Revoke(t)
        PROVE  Grows
    BY <1>2, RevokeDoes DEF ServerFine
  <1>3. ASSUME NEW s \in Session, NEW cmd \in {"login", "insecure"}, StartLogin(p, s, cmd)
        PROVE  Grows
    <2>1. Server!ExchangeDeviceAuthorization(s, s, clock)
      BY <1>0, <1>3, StartLoginDoes
    <2>2. Exchanges(s) /\ ServerTypeOK /\ TokensOK
      BY <1>0, <2>1, ExchangeDoes DEF CliTypeOK, BaseInv
    <2> QED
      BY <2>2, ExchangeKeeps
  <1>4. CASE CleanUpLogin(p)
    <2>1. proc[p].using \in Token
      BY <1>0, <1>4 DEF CleanUpLogin, ProcOK, Unkept, Token
    <2> QED
      BY <1>1, <1>2, <1>4, <2>1 DEF CleanUpLogin
  <1>5. CASE UseToken(p) \/ UseLost(p)
    <2>1. proc[p].using \in Token
      BY <1>0, <1>5 DEF UseToken, UseLost, ProcOK
    <2> QED
      BY <1>1, <1>2, <1>5, <2>1 DEF UseToken, UseLost, Revoke
  <1>6. CASE RevokeUnsaved(p)
    BY <1>1, <1>2, <1>6 DEF RevokeUnsaved, Token
  <1>7. CASE Refresh(p) \/ RefreshLost(p)
    BY <1>1, <1>7, ServerRefreshesDoes DEF Refresh, RefreshLost, ServerFine
  <1>8. CASE \/ \E cmd \in {"call", "logout", "revoke"} : StartCommand(p, cmd)
             \/ ValidateLogin(p) \/ TakeLock(p) \/ WaitForLock(p) \/ GiveUp(p) \/ ReleaseLock(p)
             \/ Resolve(p) \/ Renew(p) \/ SaveReturns(p) \/ DiscardReturns(p)
             \/ ReadForLogout(p) \/ Clear(p) \/ PersistLogin(p) \/ StoreReturns(p)
             \/ StoreStep(p) \/ ReadThrows(p) \/ Crash(p)
    BY <1>1, <1>8 DEF StartCommand, ValidateLogin, TakeLock, WaitForLock, GiveUp, ReleaseLock,
       Resolve, Renew, SaveReturns, DiscardReturns, ReadForLogout, Clear, PersistLogin,
       StoreReturns, StoreStep, ReadThrows, Crash, StoreOnly
  <1> QED
    BY <1>3, <1>4, <1>5, <1>6, <1>7, <1>8 DEF Step

(* A step that neither calls the store nor takes up or refreshes a credential. *)
LEMMA OutTurn ==
  ASSUME BaseInv, LockInv, OutInv, Calm, NEW p \in Process, Grows,
         UNCHANGED <<keyring, plaintext, call, forgotten>>, proc[p].pc # "persisting",
         NEW cmd, NEW pc, NEW goal, NEW next, NEW credential, NEW using,
         Becomes(p, cmd, pc, goal, next, credential, using, proc[p].displaced),
         \/ credential = proc[p].credential \/ credential = NoCredential
         \/ credential = Visible /\ proc[p].pc \in SectionAt,
         Unkept(proc[p])' => Unkept(proc[p]) /\ credential = proc[p].credential,
         pc \notin {"save", "unsaved"}, pc = "refresh" => credential = Visible
  PROVE  OutInv'
PROOF
  <1>1. /\ proc'[p].pc = pc /\ proc'[p].credential = credential
        /\ proc'[p].displaced = proc[p].displaced
        /\ \A q \in Process \ {p} : proc'[q] = proc[q] /\ call'[q] = call[q]
    BY DEF Becomes
  <1>2. Visible' = Visible /\ Masks' = Masks
    BY SameVisible
  <1>3. CallExact(p)'
    BY <1>2 DEF OutInv, CallExact
  <1>4. RefreshOK(p)'
    BY <1>1, <1>2 DEF RefreshOK
  <1>5. /\ \/ proc'[p].credential.session \in {proc[p].credential.session, {}}
           \/ proc[p].pc \in SectionAt /\ proc'[p].credential.session = Visible.session
        /\ Fresh(p)
    BY <1>1 DEF NoCredential, Fresh
  <1> QED
    BY <1>1, <1>3, <1>4, <1>5, OutStep

LEMMA OutEnds ==
  ASSUME BaseInv, LockInv, OutInv, Calm, NEW p \in Process, Grows,
         UNCHANGED <<keyring, plaintext, call, forgotten>>, proc[p].pc # "persisting",
         Becomes(p, "", "done", "", "", NoCredential, {}, proc[p].displaced)
  PROVE  OutInv'
PROOF
  <1>1. proc'[p].pc = "done"
    BY DEF Becomes
  <1>2. ~Unkept(proc[p])'
    BY <1>1 DEF Unkept
  <1>3. "done" \notin {"save", "unsaved"} /\ "done" # "refresh"
    OBVIOUS
  <1> QED
    BY <1>2, <1>3, OutTurn

LEMMA OutMoves ==
  ASSUME BaseInv, LockInv, OutInv, Calm, NEW p \in Process, Grows,
         UNCHANGED <<keyring, plaintext, call, forgotten>>, proc[p].pc # "persisting",
         NEW pc, NEW goal, NEW next, Turns(p, pc, goal, next),
         \/ Unkept(proc[p]) /\ pc \in {"lock", "persist", "cleanup"}
         \/ pc \in {"resolve", "renew", "read", "clear", "use", "retry"}
         \/ pc = "lock" /\ goal \in {"renew", "clear"}
         \/ pc = "release" /\ next = "done"
         \/ pc = "release" /\ next = "cleanup" /\ Unkept(proc[p])
  PROVE  OutInv'
PROOF
  <1>1. Becomes(p, proc[p].cmd, pc, goal, next, proc[p].credential, proc[p].using,
                proc[p].displaced)
    BY DEF Turns
  <1>2. proc'[p].pc = pc /\ proc'[p].goal = goal /\ proc'[p].next = next
    BY <1>1 DEF Becomes
  <1>3. /\ Unkept(proc[p])' => Unkept(proc[p])
        /\ pc \notin {"save", "unsaved"} /\ pc # "refresh"
    BY <1>2 DEF Unkept
  <1> QED
    BY <1>1, <1>3, OutTurn

LEMMA CommandsKeepOut ==
  ASSUME BaseInv, LockInv, OutInv, Calm, NEW p \in Process, Grows,
         \/ \E cmd \in {"call", "logout", "revoke"} : StartCommand(p, cmd)
         \/ ValidateLogin(p) \/ CleanUpLogin(p) \/ UseToken(p) \/ UseLost(p)
         \/ TakeLock(p) \/ GiveUp(p) \/ ReleaseLock(p) \/ RefreshLost(p) \/ ReadThrows(p)
  PROVE  OutInv'
PROOF
  <1>0. TypeInv /\ CliTypeOK /\ ProcOK(p) /\ Shape(proc[p]) /\ proc[p] \in ProcState
    BY DEF BaseInv, TypeInv, CliTypeOK, ProcOK
  <1>1. ASSUME NEW cmd \in {"call", "logout", "revoke"}, StartCommand(p, cmd)
        PROVE  OutInv'
    <2>1. /\ proc[p].pc = "idle" /\ UNCHANGED <<keyring, plaintext, call, forgotten>>
          /\ \E goal \in {"resolve", "read"} :
               Becomes(p, cmd, "lock", goal, proc[p].next, proc[p].credential, proc[p].using,
                       proc[p].displaced)
      BY <1>0, <1>1, StartCommandDoes DEF storeVars
    <2>2. PICK goal \in {"resolve", "read"} :
            Becomes(p, cmd, "lock", goal, proc[p].next, proc[p].credential, proc[p].using,
                    proc[p].displaced)
      BY <2>1
    <2>3. proc'[p].pc = "lock" /\ proc'[p].goal = goal
      BY <2>2 DEF Becomes
    <2>4. ~Unkept(proc[p])'
      BY <2>3 DEF Unkept
    <2>5. "lock" \notin {"save", "unsaved"} /\ "lock" # "refresh" /\ proc[p].pc # "persisting"
      BY <2>1
    <2> QED
      BY <2>1, <2>2, <2>4, <2>5, OutTurn
  <1>2. CASE ValidateLogin(p)
    <2>1. proc[p].pc = "validate" /\ UNCHANGED <<keyring, plaintext, call, forgotten>>
      BY <1>2 DEF ValidateLogin, LocalOnly
    <2>2. Turns(p, "lock", "persist", "") \/ Turns(p, "cleanup", proc[p].goal, proc[p].next)
      BY <1>0, <1>2, Turn DEF ValidateLogin
    <2>3. Unkept(proc[p]) /\ proc[p].pc # "persisting"
      BY <2>1 DEF Unkept
    <2>4. "lock" \in {"lock", "persist", "cleanup"} /\ "cleanup" \in {"lock", "persist", "cleanup"}
      OBVIOUS
    <2> QED
      BY <2>1, <2>2, <2>3, <2>4, OutMoves
  <1>3. CASE CleanUpLogin(p) \/ UseLost(p)
    <2>1. /\ proc[p].pc \in {"cleanup", "use", "retry"}
          /\ UNCHANGED <<keyring, plaintext, call, forgotten>> /\ Ends(p)
      BY <1>3 DEF CleanUpLogin, UseLost, LocalOnly
    <2>2. /\ proc[p].pc # "persisting"
          /\ Becomes(p, "", "done", "", "", NoCredential, {}, proc[p].displaced)
      BY <1>0, <2>1, Turn
    <2> QED
      BY <2>1, <2>2, OutEnds
  <1>4. CASE UseToken(p)
    <2>1. /\ proc[p].pc \in {"use", "retry"} /\ UNCHANGED <<keyring, plaintext, call, forgotten>>
          /\ Locks(p, "renew") \/ Locks(p, "clear") \/ Ends(p)
      BY <1>4 DEF UseToken, storeVars
    <2>2. \/ Turns(p, "lock", "renew", "") \/ Turns(p, "lock", "clear", "")
          \/ Becomes(p, "", "done", "", "", NoCredential, {}, proc[p].displaced)
      BY <1>0, <2>1, Turn
    <2>3. /\ proc[p].pc # "persisting"
          /\ "renew" \in {"renew", "clear"} /\ "clear" \in {"renew", "clear"}
      BY <2>1
    <2> QED
      BY <2>1, <2>2, <2>3, OutMoves, OutEnds
  <1>5. CASE TakeLock(p)
    <2>1. /\ proc[p].pc = "lock" /\ UNCHANGED <<keyring, plaintext, call, forgotten>>
          /\ Goes(p, proc[p].goal)
      BY <1>5 DEF TakeLock, storeVars
    <2>2. PICK goal \in {"resolve", "renew", "read", "clear", "persist"} : proc[p].goal = goal
      BY <1>0, <2>1 DEF Shape, ProcState
    <2>3. Turns(p, goal, proc[p].goal, proc[p].next)
      BY <1>0, <2>1, <2>2, Turn
    <2>4. /\ goal = "persist" => Unkept(proc[p]) /\ goal \in {"lock", "persist", "cleanup"}
          /\ goal # "persist" => goal \in {"resolve", "renew", "read", "clear", "use", "retry"}
          /\ proc[p].pc # "persisting"
      BY <2>1, <2>2 DEF Unkept
    <2> QED
      BY <2>1, <2>3, <2>4, OutMoves
  <1>6. CASE GiveUp(p)
    <2>1. /\ proc[p].pc = "lock" /\ UNCHANGED <<keyring, plaintext, call, forgotten>>
          /\ IF proc[p].goal = "persist" THEN Goes(p, "cleanup") ELSE Ends(p)
      BY <1>6 DEF GiveUp, storeVars
    <2>2. CASE proc[p].goal = "persist"
      <3>1. Unkept(proc[p]) /\ Turns(p, "cleanup", proc[p].goal, proc[p].next)
        BY <1>0, <2>1, <2>2, Turn DEF Unkept
      <3>2. "cleanup" \in {"lock", "persist", "cleanup"} /\ proc[p].pc # "persisting"
        BY <2>1
      <3> QED
        BY <2>1, <3>1, <3>2, OutMoves
    <2>3. CASE proc[p].goal # "persist"
      <3>1. /\ proc[p].pc # "persisting"
            /\ Becomes(p, "", "done", "", "", NoCredential, {}, proc[p].displaced)
        BY <1>0, <2>1, <2>3, Turn
      <3> QED
        BY <2>1, <3>1, OutEnds
    <2> QED
      BY <2>2, <2>3
  <1>7. CASE ReleaseLock(p)
    <2>1. /\ proc[p].pc = "release" /\ UNCHANGED <<keyring, plaintext, call, forgotten>>
          /\ \/ Turns(p, "lock", "clear", "")
             \/ Becomes(p, "", "done", "", "", NoCredential, {}, proc[p].displaced)
             \/ /\ proc[p].next \in {"use", "retry", "cleanup"}
                /\ Turns(p, proc[p].next, proc[p].goal, "")
      BY <1>0, <1>7, ReleaseLockDoes DEF storeVars
    <2>2. proc[p].pc # "persisting" /\ "clear" \in {"renew", "clear"}
      BY <2>1
    <2>3. ASSUME proc[p].next \in {"use", "retry", "cleanup"}
          PROVE  \/ proc[p].next \in {"resolve", "renew", "read", "clear", "use", "retry"}
                 \/ Unkept(proc[p]) /\ proc[p].next \in {"lock", "persist", "cleanup"}
      BY <2>1, <2>3 DEF Unkept
    <2> QED
      BY <2>1, <2>2, <2>3, OutMoves, OutEnds
  <1>8. CASE RefreshLost(p)
    <2>1. /\ proc[p].pc = "refresh" /\ UNCHANGED <<keyring, plaintext, call, forgotten>>
          /\ Leaves(p, "done")
      BY <1>8 DEF RefreshLost, LocalOnly
    <2>2. Turns(p, "release", proc[p].goal, "done") /\ proc[p].pc # "persisting"
      BY <1>0, <2>1, Turn
    <2> QED
      BY <2>1, <2>2, OutMoves
  <1>9. CASE ReadThrows(p)
    <2>1. /\ proc[p].pc \in {"resolve", "renew", "read", "clear", "persist"}
          /\ UNCHANGED <<keyring, plaintext, call, forgotten>>
      BY <1>0, <1>9, ReadThrowsDoes DEF StoreOnly
    <2>2. PICK next \in {"cleanup", "done"} :
            /\ next = "cleanup" <=> proc[p].pc = "persist"
            /\ Turns(p, "release", proc[p].goal, next)
      BY <1>0, <1>9, ReadThrowsDoes
    <2>3. proc[p].pc # "persisting" /\ (next = "cleanup" => Unkept(proc[p]))
      BY <2>1, <2>2 DEF Unkept
    <2> QED
      BY <2>1, <2>2, <2>3, OutMoves
  <1> QED
    BY <1>1, <1>2, <1>3, <1>4, <1>5, <1>6, <1>7, <1>8, <1>9

LEMMA ReadsKeepOut ==
  ASSUME BaseInv, LockInv, OutInv, Calm, NEW p \in Process, Grows,
         Resolve(p) \/ Renew(p) \/ ReadForLogout(p)
  PROVE  OutInv'
PROOF
  <1>0. TypeInv /\ CliTypeOK
    BY DEF BaseInv, TypeInv
  <1>1. ASSUME NEW seen \in {Visible, NoCredential}, Read(seen), UNCHANGED call, StoreOnly
        PROVE  UNCHANGED <<keyring, plaintext, call, forgotten>>
    BY <1>1 DEF Read, StoreOnly
  <1>2. ASSUME proc[p].pc \in {"resolve", "renew", "read"},
               UNCHANGED <<keyring, plaintext, call, forgotten>>,
               NEW cmd, NEW pc \in {"release", "refresh"}, NEW goal, NEW next, NEW credential,
               NEW using, next # "cleanup" \/ pc = "refresh",
               Becomes(p, cmd, pc, goal, next, credential, using, proc[p].displaced),
               credential \in {Visible, NoCredential} \/ credential = proc[p].credential,
               pc = "refresh" => credential = Visible
        PROVE  OutInv'
    <2>1. proc'[p].pc = pc /\ proc'[p].next = next
      BY <1>2 DEF Becomes
    <2>2. ~Unkept(proc[p])'
      BY <1>2, <2>1 DEF Unkept
    <2>3. proc[p].pc \in SectionAt /\ proc[p].pc # "persisting"
      BY <1>2 DEF SectionAt
    <2>4. pc \notin {"save", "unsaved"}
      BY <1>2
    <2> QED
      BY <1>2, <2>2, <2>3, <2>4, OutTurn
  <1>3. CASE Resolve(p)
    <2>1. PICK seen \in {Visible, NoCredential} : Read(seen) /\
            \/ seen = NoCredential /\ Turns(p, "release", proc[p].goal, "done")
            \/ /\ seen # NoCredential
               /\ \E pc \in {"release", "refresh"}, next \in {"use", ""} :
                    /\ pc = "release" <=> next = "use"
                    /\ Becomes(p, proc[p].cmd, pc, proc[p].goal, next, seen, seen.token,
                               proc[p].displaced)
      BY <1>0, <1>3, ResolveDoes
    <2>2. proc[p].pc = "resolve" /\ UNCHANGED <<keyring, plaintext, call, forgotten>>
      BY <1>0, <1>1, <1>3, <2>1, ResolveDoes
    <2>3. CASE Turns(p, "release", proc[p].goal, "done")
      BY <1>2, <2>2, <2>3 DEF Turns
    <2>4. ASSUME seen # NoCredential, NEW pc \in {"release", "refresh"}, NEW next \in {"use", ""},
                 Becomes(p, proc[p].cmd, pc, proc[p].goal, next, seen, seen.token,
                         proc[p].displaced)
          PROVE  OutInv'
      <3>1. seen = Visible /\ next # "cleanup"
        BY <2>4
      <3> QED
        BY <1>2, <2>2, <2>4, <3>1
    <2> QED
      BY <2>1, <2>3, <2>4
  <1>4. CASE Renew(p)
    <2>1. PICK seen \in {Visible, NoCredential} : Read(seen) /\
            \/ seen = NoCredential /\ Turns(p, "release", proc[p].goal, "done")
            \/ /\ seen # NoCredential
               /\ Becomes(p, proc[p].cmd, "release", proc[p].goal, "retry", proc[p].credential,
                          seen.token, proc[p].displaced)
            \/ /\ seen # NoCredential
               /\ Becomes(p, proc[p].cmd, "refresh", proc[p].goal, proc[p].next, seen,
                          proc[p].using, proc[p].displaced)
      BY <1>0, <1>4, RenewDoes
    <2>2. proc[p].pc = "renew" /\ UNCHANGED <<keyring, plaintext, call, forgotten>>
      BY <1>0, <1>1, <1>4, <2>1, RenewDoes
    <2>3. CASE Turns(p, "release", proc[p].goal, "done")
      BY <1>2, <2>2, <2>3 DEF Turns
    <2>4. CASE Becomes(p, proc[p].cmd, "release", proc[p].goal, "retry", proc[p].credential,
                       seen.token, proc[p].displaced)
      BY <1>2, <2>2, <2>4
    <2>5. CASE /\ seen # NoCredential
               /\ Becomes(p, proc[p].cmd, "refresh", proc[p].goal, proc[p].next, seen,
                          proc[p].using, proc[p].displaced)
      BY <1>2, <2>2, <2>5
    <2> QED
      BY <2>1, <2>3, <2>4, <2>5
  <1>5. CASE ReadForLogout(p)
    <2>1. PICK seen \in {Visible, NoCredential}, next \in {"clear", "use", "done"} :
            /\ Read(seen)
            /\ Becomes(p, proc[p].cmd, "release", proc[p].goal, next, seen, seen.token,
                       proc[p].displaced)
      BY <1>0, <1>5, ReadForLogoutDoes
    <2>2. proc[p].pc = "read" /\ UNCHANGED <<keyring, plaintext, call, forgotten>>
      BY <1>0, <1>1, <1>5, <2>1, ReadForLogoutDoes
    <2>3. next # "cleanup"
      BY <2>1
    <2> QED
      BY <1>2, <2>1, <2>2, <2>3
  <1> QED
    BY <1>3, <1>4, <1>5

(* A step of p that starts a call of the store, or that takes its answer. *)
LEMMA OutCall ==
  ASSUME BaseInv, LockInv, OutInv, Calm, NEW p \in Process, Grows,
         UNCHANGED <<keyring, plaintext, forgotten>>,
         NEW k, NEW c, CallBecomes(p, k, c),
         k \notin {"setMasked", "drop", "unmask", "erase", "ok"}, k = "set" => ~Masks,
         NEW cmd, NEW pc, NEW goal, NEW next, NEW credential, NEW using, NEW displaced,
         Becomes(p, cmd, pc, goal, next, credential, using, displaced),
         credential.session = proc[p].credential.session,
         \/ displaced = proc[p].displaced
         \/ proc[p].pc \in SectionAt \ {"persisting"} /\ displaced = Visible.session,
         pc \in {"save", "unsaved"} => proc[p].credential.session \notin forgotten,
         pc \notin {"validate", "persist", "cleanup", "lock", "refresh"},
         pc = "persisting" => proc[p].pc = "persist", pc = "release" => next # "cleanup"
  PROVE  OutInv'
PROOF
  <1>1. /\ proc'[p].pc = pc /\ proc'[p].next = next /\ proc'[p].credential = credential
        /\ proc'[p].displaced = displaced /\ call'[p].pc = k
        /\ \A q \in Process \ {p} : proc'[q] = proc[q] /\ call'[q] = call[q]
    BY DEF Becomes, CallBecomes
  <1>2. Visible' = Visible /\ Masks' = Masks
    BY SameVisible
  <1>3. CallExact(p)'
    BY <1>1, <1>2 DEF CallExact
  <1>4. RefreshOK(p)'
    BY <1>1 DEF RefreshOK
  <1>5. Unkept(proc[p])' => Unkept(proc[p]) /\ Fresh(p)
    BY <1>1 DEF Unkept, Fresh
  <1> QED
    BY <1>1, <1>3, <1>4, <1>5, OutStep

LEMMA CallsKeepOut ==
  ASSUME BaseInv, LockInv, OutInv, Calm, NEW p \in Process, Grows,
         \/ Refresh(p) \/ SaveReturns(p) \/ RevokeUnsaved(p) \/ DiscardReturns(p)
         \/ Clear(p) \/ PersistLogin(p)
  PROVE  OutInv'
PROOF
  <1>0. /\ TypeInv /\ CliTypeOK /\ ProcOK(p) /\ StoreTypeOK /\ RefreshOK(p)
        /\ proc[p].credential \in Credential /\ Visible.session \notin forgotten
    BY DEF BaseInv, TypeInv, CliTypeOK, ProcState, OutInv
  <1>1. /\ BeginDelete(p) => CallBecomes(p, "delete", NoCredential)
        /\ Return(p) => CallBecomes(p, "idle", NoCredential) /\ UNCHANGED <<keyring, plaintext>>
        /\ "delete" \notin {"setMasked", "drop", "unmask", "erase", "ok"} /\ "delete" # "set"
        /\ "idle" \notin {"setMasked", "drop", "unmask", "erase", "ok"} /\ "idle" # "set"
    BY <1>0, Calling, CredentialTypes DEF BeginDelete, Return, CallPc
  <1>2. CASE Refresh(p)
    <2>1. /\ proc[p].pc = "refresh" /\ UNCHANGED <<keyring, plaintext, forgotten>>
          /\ proc[p].credential.session \notin forgotten
      BY <1>0, <1>2, RefreshDoes DEF RefreshOK
    <2>2. PICK renewed : renewed = CredentialOf(proc[p].credential.session, p, clock)
      OBVIOUS
    <2>3. CASE /\ BeginReplace(p, renewed)
               /\ Becomes(p, proc[p].cmd, "save", proc[p].goal, proc[p].next, renewed,
                          proc[p].using, proc[p].displaced)
      <3>1. renewed.session = proc[p].credential.session /\ renewed \in Credential
        BY <1>0, <2>1, <2>2, CredentialTypes DEF CredentialOf, ProcOK, Genuine, Token, CliTypeOK
      <3>2. PICK k \in {"plain", "set"} : CallBecomes(p, k, renewed) /\ (k = "set" => ~Masks)
        BY <1>0, <2>3, <3>1, Calling DEF BeginReplace, CallPc
      <3>3. /\ k \notin {"setMasked", "drop", "unmask", "erase", "ok"}
            /\ "save" \notin {"validate", "persist", "cleanup", "lock", "refresh", "persisting"}
        BY <3>2
      <3> QED
        BY <2>1, <2>3, <3>1, <3>2, <3>3, OutCall
    <2>4. ASSUME BeginDelete(p), NEW next \in {"clear", "done"},
                 Turns(p, "discard", proc[p].goal, next)
          PROVE  OutInv'
      <3>1. "discard" \notin {"validate", "persist", "cleanup", "lock", "refresh", "persisting"}
            /\ "discard" \notin {"save", "unsaved"} /\ "discard" # "release"
        OBVIOUS
      <3> QED
        BY <1>1, <2>1, <2>4, <3>1, OutCall DEF Turns
    <2> QED
      BY <1>0, <1>2, <2>2, <2>3, <2>4, RefreshDoes
  <1>3. CASE SaveReturns(p)
    <2>1. /\ proc[p].pc = "save" /\ Return(p) /\ UNCHANGED forgotten
          /\ UNCHANGED <<keyring, plaintext, forgotten>>
          /\ proc[p].credential.session \notin forgotten
      BY <1>0, <1>1, <1>3, SaveReturnsDoes DEF RefreshOK, StoreOnly
    <2>2. ASSUME NEW next \in {"use", "retry"},
                 Becomes(p, proc[p].cmd, "release", proc[p].goal, next, proc[p].credential, p,
                         proc[p].displaced)
          PROVE  OutInv'
      <3>1. /\ next # "cleanup" /\ "release" \notin {"save", "unsaved", "persisting"}
            /\ "release" \notin {"validate", "persist", "cleanup", "lock", "refresh"}
        OBVIOUS
      <3> QED
        BY <1>1, <2>1, <2>2, <3>1, OutCall
    <2>3. CASE Turns(p, "unsaved", proc[p].goal, proc[p].next)
      <3>1. "unsaved" \notin {"validate", "persist", "cleanup", "lock", "refresh",
                             "persisting", "release"}
        OBVIOUS
      <3> QED
        BY <1>1, <2>1, <2>3, <3>1, OutCall DEF Turns
    <2> QED
      BY <1>0, <1>3, <2>2, <2>3, SaveReturnsDoes
  <1>4. CASE RevokeUnsaved(p)
    <2>1. /\ Turns(p, "discard", proc[p].goal, "done") /\ BeginDelete(p)
          /\ UNCHANGED <<keyring, plaintext, forgotten>>
          /\ "discard" \notin {"validate", "persist", "cleanup", "lock", "refresh", "persisting"}
            /\ "discard" \notin {"save", "unsaved"} /\ "discard" # "release"
      BY <1>0, <1>4, RevokeUnsavedDoes
    <2> QED
      BY <1>1, <2>1, OutCall DEF Turns
  <1>5. CASE DiscardReturns(p)
    <2>1. /\ proc[p].pc = "discard" /\ Return(p) /\ UNCHANGED <<keyring, plaintext, forgotten>>
      BY <1>1, <1>5 DEF DiscardReturns, StoreOnly
    <2>2. Turns(p, "release", proc[p].goal, proc[p].next)
      BY <1>0, <1>5, Turn DEF DiscardReturns
    <2>3. /\ proc[p].next # "cleanup" /\ "release" \notin {"save", "unsaved", "persisting"}
          /\ "release" \notin {"validate", "persist", "cleanup", "lock", "refresh"}
      BY <1>0, <2>1 DEF ProcOK, Shape
    <2> QED
      BY <1>1, <2>1, <2>2, <2>3, OutCall DEF Turns
  <1>6. CASE Clear(p)
    <2>1. /\ proc[p].pc = "clear" /\ UNCHANGED <<keyring, plaintext, forgotten>>
          /\ proc[p].pc \in SectionAt \ {"persisting"}
      BY <1>0, <1>6, ClearDoes, ReadDoes DEF StoreOnly, SectionAt
    <2>2. CASE /\ BeginDelete(p)
               /\ Becomes(p, proc[p].cmd, "clearing", proc[p].goal, proc[p].next,
                          proc[p].credential, proc[p].using, Visible.session)
      <3>1. "clearing" \notin {"validate", "persist", "cleanup", "lock", "refresh", "persisting"}
            /\ "clearing" \notin {"save", "unsaved"} /\ "clearing" # "release"
        OBVIOUS
      <3> QED
        BY <1>1, <2>1, <2>2, <3>1, OutCall
    <2>3. CASE UNCHANGED call /\ Turns(p, "release", proc[p].goal, "done")
      <3>1. UNCHANGED <<keyring, plaintext, call, forgotten>> /\ proc[p].pc # "persisting"
        BY <2>1, <2>3
      <3> QED
        BY <2>3, <3>1, OutMoves
    <2> QED
      BY <1>0, <1>6, <2>2, <2>3, ClearDoes
  <1>7. CASE PersistLogin(p)
    <2>1. /\ proc[p].pc = "persist" /\ UNCHANGED <<keyring, plaintext, forgotten>>
          /\ proc[p].pc \in SectionAt \ {"persisting"}
          /\ BeginWrite(p, proc[p].credential, proc[p].cmd = "insecure")
          /\ Becomes(p, proc[p].cmd, "persisting", proc[p].goal, proc[p].next,
                     proc[p].credential, proc[p].using, Visible.session)
      BY <1>0, <1>7, PersistLoginDoes DEF StoreOnly, SectionAt
    <2>2. PICK k \in {"insecure", "mask", "set"} :
            CallBecomes(p, k, proc[p].credential) /\ (k = "set" => ~Masks)
      BY <1>0, <2>1, Calling DEF BeginWrite, CallPc
    <2>3. /\ k \notin {"setMasked", "drop", "unmask", "erase", "ok"}
          /\ "persisting" \notin {"validate", "persist", "cleanup", "lock", "refresh",
                                  "save", "unsaved", "release"}
      BY <2>2
    <2> QED
      BY <2>1, <2>2, <2>3, OutCall
  <1> QED
    BY <1>2, <1>3, <1>4, <1>5, <1>6, <1>7

(* The store has answered a logout or a login. *)
LEMMA StoreReturnsKeepsOut ==
  ASSUME BaseInv, LockInv, OutInv, Calm, NEW p \in Process, StoreReturns(p)
  PROVE  OutInv'
PROOF
  <1>0. /\ TypeInv /\ CliTypeOK /\ ProcOK(p) /\ CallOK(p) /\ StoreTypeOK
        /\ CallExact(p) /\ LoginOK(p) /\ Exists(proc[p].displaced)
        /\ Visible.session \notin forgotten /\ \A s \in forgotten : Exists(s)
        /\ \A q \in Process :
             CallExact(q) /\ LoginOK(q) /\ RefreshOK(q) /\ Exists(proc[q].displaced)
    BY DEF BaseInv, TypeInv, CliTypeOK, OutInv
  <1>1. /\ proc[p].pc \in {"clearing", "persisting"} /\ call[p].pc \in {"ok", "thrown"}
        /\ Return(p) /\ UNCHANGED <<serverVars, keyring, plaintext>>
        /\ Ok(p) <=> call[p].pc = "ok"
        /\ forgotten' = forgotten \cup (IF Ok(p) THEN {proc[p].displaced} \cap Session ELSE {})
    BY DEF StoreReturns, Returned, Return, Ok
  <1>2. /\ call'[p].pc = "idle"
        /\ \A q \in Process \ {p} : call'[q] = call[q]
    <2>1. CallBecomes(p, "idle", NoCredential)
      BY <1>0, <1>1, Calling DEF Return, CallPc
    <2> QED
      BY <2>1 DEF CallBecomes
  <1>3. /\ proc'[p].pc = "release" /\ proc'[p].credential = proc[p].credential
        /\ proc'[p].next = (IF proc[p].pc = "persisting" /\ ~Ok(p) THEN "cleanup" ELSE "done")
        /\ proc'[p].displaced = proc[p].displaced
        /\ \A q \in Process \ {p} : proc'[q] = proc[q]
    <2>1. PICK next \in {"cleanup", "done"} :
            /\ next = IF proc[p].pc = "persisting" /\ ~Ok(p) THEN "cleanup" ELSE "done"
            /\ Leaves(p, next)
      BY DEF StoreReturns
    <2> QED
      BY <1>0, <2>1, Turn DEF Turns, Becomes
  <1>4. Visible' = Visible /\ Masks' = Masks
    BY <1>1, SameVisible
  <1>5. Visible'.session \notin forgotten'
    <2>1. CASE ~Ok(p)
      BY <1>0, <1>1, <1>4, <2>1
    <2>2. CASE Ok(p) /\ proc[p].pc = "clearing"
      <3>1. Visible = NoCredential
        BY <1>0, <1>1, <2>2 DEF CallExact, CallOK
      <3> QED
        BY <1>1, <1>4, <3>1, <1>0, Constants DEF NoCredential, CliTypeOK
    <2>3. CASE Ok(p) /\ proc[p].pc = "persisting"
      <3>1. Visible = proc[p].credential
        BY <1>0, <1>1, <2>3 DEF CallExact, CallOK
      <3>2. proc[p].credential.session # proc[p].displaced
        BY <2>3, LoginKnown DEF Unkept
      <3> QED
        BY <1>0, <1>1, <1>4, <3>1, <3>2
    <2> QED
      BY <1>1, <2>1, <2>2, <2>3
  <1>6. \A s : Exists(s)' <=> Exists(s)
    BY <1>1 DEF Exists, serverVars
  <1>7. /\ \A s \in forgotten' : Exists(s)'
        /\ \A q \in Process : Exists(proc[q].displaced)'
    <2>1. \A q \in Process : proc'[q].displaced = proc[q].displaced
      BY <1>3
    <2> QED
      BY <1>0, <1>1, <1>6, <2>1 DEF Exists
  <1>8. \A q \in Process : CallExact(q)'
    BY <1>0, <1>1, <1>2, <1>4 DEF CallExact
  <1>9. \A q \in Process : RefreshOK(q)'
    <2>1. RefreshOK(p)'
      BY <1>3 DEF RefreshOK
    <2>2. ASSUME NEW q \in Process \ {p}
          PROVE  RefreshOK(q)'
      <3>1. proc[q].pc \notin {"refresh", "save", "unsaved"}
        BY <1>1, <2>2, Alone DEF SectionAt
      <3> QED
        BY <1>3, <3>1 DEF RefreshOK
    <2> QED
      BY <2>1, <2>2
  <1>10. ASSUME NEW q \in Process, Unkept(proc[q])'
         PROVE  LoginOK(q)'
    <2>1. Unkept(proc[q])
      BY <1>1, <1>3, <1>10 DEF Unkept
    <2> DEFINE s == proc[q].credential.session
    <2>2. /\ s \in Session /\ s \notin forgotten
          /\ \A o \in Process \ {q} : proc[o].credential.session # s
          /\ \A o \in Process : proc[o].displaced # s
          /\ Fresh(q) => s # keyring.session /\ s # plaintext.credential.session
      BY <2>1, LoginKnown
    <2>3. s \notin forgotten'
      BY <1>1, <2>2
    <2>4. Fresh(q)
      <3>1. CASE q = p
        <4>1. proc[p].pc = "persisting" /\ ~Ok(p)
          BY <1>1, <1>3, <1>10, <3>1 DEF Unkept
        <4> QED
          BY <1>1, <3>1, <4>1 DEF Fresh
      <3>2. CASE q # p
        BY <1>1, <3>2, OthersWait DEF SectionAt
      <3> QED
        BY <3>1, <3>2
    <2>5. \A o \in Process : /\ proc'[o].credential = proc[o].credential
                             /\ proc'[o].displaced = proc[o].displaced
      BY <1>3
    <2> QED
      BY <1>1, <2>2, <2>3, <2>4, <2>5 DEF LoginOK
  <1>11. \A q \in Process : LoginOK(q)'
    BY <1>10 DEF LoginOK
  <1> QED
    BY <1>5, <1>7, <1>8, <1>9, <1>11 DEF OutInv

(* The session of a login is one nobody has had. *)
LEMMA StartLoginKeepsOut ==
  ASSUME BaseInv, LockInv, OutInv, Calm, NEW p \in Process, NEW s \in Session,
         NEW cmd \in {"login", "insecure"}, StartLogin(p, s, cmd)
  PROVE  OutInv'
PROOF
  <1>0. /\ TypeInv /\ CliTypeOK /\ StoreTypeOK
        /\ Visible.session \notin forgotten /\ \A o \in forgotten : Exists(o)
        /\ \A q \in Process :
             CallExact(q) /\ LoginOK(q) /\ RefreshOK(q) /\ Exists(proc[q].displaced)
    BY DEF BaseInv, TypeInv, CliTypeOK, OutInv
  <1>1. /\ proc[p].pc = "idle" /\ Server!ExchangeDeviceAuthorization(s, s, clock)
        /\ UNCHANGED <<storeVars, forgotten>>
        /\ Becomes(p, cmd, "validate", proc[p].goal, proc[p].next, CredentialOf(s, s, clock), s,
                   proc[p].displaced)
    BY <1>0, StartLoginDoes
  <1>2. Exchanges(s) /\ ~Exists(s)
    BY <1>0, <1>1, ExchangeDoes DEF CliTypeOK, Exchanges, Exists
  <1>3. Grows
    BY <1>2, ExchangeKeeps, <1>0 DEF BaseInv, CliTypeOK
  <1>4. /\ proc'[p].pc = "validate" /\ proc'[p].credential.session = s
        /\ proc'[p].displaced = proc[p].displaced
        /\ \A q \in Process \ {p} : proc'[q] = proc[q]
        /\ UNCHANGED <<keyring, plaintext, call, forgotten>>
    BY <1>1 DEF Becomes, storeVars, CredentialOf
  <1>5. Visible' = Visible /\ Masks' = Masks
    BY <1>4, SameVisible
  <1>6. /\ s # keyring.session /\ s # plaintext.credential.session /\ s \notin forgotten
        /\ \A q \in Process : proc[q].credential.session # s /\ proc[q].displaced # s
    BY <1>0, <1>2, StoresExist
  <1>7. /\ \A o \in forgotten' : Exists(o)'
        /\ \A q \in Process : Exists(proc[q].displaced)'
    <2>1. \A q \in Process : proc'[q].displaced = proc[q].displaced
      BY <1>4
    <2> QED
      BY <1>0, <1>3, <1>4, <2>1, ExistsStays
  <1>8. \A q \in Process : CallExact(q)' /\ RefreshOK(q)'
    BY <1>0, <1>4, <1>5 DEF CallExact, RefreshOK
  <1>9. LoginOK(p)'
    BY <1>4, <1>6 DEF LoginOK
  <1>10. ASSUME NEW q \in Process \ {p}
         PROVE  LoginOK(q)'
    <2>1. Fresh(q)' <=> Fresh(q)
      BY <1>4, <1>10 DEF Fresh
    <2>2. \A o \in Process : proc'[o].displaced = proc[o].displaced
      BY <1>4
    <2>3. \A o \in Process \ {p} : proc'[o].credential = proc[o].credential
      BY <1>4
    <2> QED
      BY <1>0, <1>4, <1>6, <1>10, <2>1, <2>2, <2>3 DEF LoginOK
  <1> QED
    BY <1>0, <1>4, <1>5, <1>7, <1>8, <1>9, <1>10 DEF OutInv

LEMMA OutNext == BaseInv /\ LockInv /\ OutInv /\ [Next]_vars => OutInv'
PROOF
  <1> SUFFICES ASSUME BaseInv, LockInv, OutInv, [Next]_vars, Calm' PROVE OutInv'
    BY DEF OutInv
  <1>0. Calm /\ TypeInv /\ CliTypeOK
    BY CalmBefore DEF BaseInv, TypeInv, CliTypeOK
  <1>1. ASSUME UNCHANGED <<proc, storeVars, serverVars, forgotten>>
        PROVE  OutInv'
    <2>1. Visible' = Visible /\ Masks' = Masks
      BY <1>1, SameVisible DEF storeVars
    <2>2. \A q \in Process : CallExact(q)' /\ LoginOK(q)' /\ RefreshOK(q)'
      BY <1>0, <1>1, <2>1 DEF OutInv, CallExact, LoginOK, RefreshOK, Fresh, Unkept, storeVars
    <2> QED
      BY <1>0, <1>1, <2>1, <2>2 DEF OutInv, Exists, serverVars
  <1>2. ASSUME NEW p \in Process, Step(p)
        PROVE  OutInv'
    <2>1. Grows
      BY <1>2, StepGrows
    <2>2. CASE Crash(p)
      <3>1. faults'["crash"] > 0
        BY <1>0, <2>2, CrashDoes
      <3> QED
        BY <3>1 DEF Calm
    <2>3. CASE WaitForLock(p)
      BY <1>1, <2>3 DEF WaitForLock
    <2>4. CASE \E s \in Session, cmd \in {"login", "insecure"} : StartLogin(p, s, cmd)
      BY <1>0, <2>4, StartLoginKeepsOut
    <2>5. CASE StoreStep(p) \/ StoreReturns(p)
      BY <1>0, <2>5, OutStoreStep, StoreReturnsKeepsOut
    <2>6. CASE \/ Refresh(p) \/ SaveReturns(p) \/ RevokeUnsaved(p) \/ DiscardReturns(p)
               \/ Clear(p) \/ PersistLogin(p)
      BY <1>0, <2>1, <2>6, CallsKeepOut
    <2>7. CASE Resolve(p) \/ Renew(p) \/ ReadForLogout(p)
      BY <1>0, <2>1, <2>7, ReadsKeepOut
    <2>8. CASE \/ \E cmd \in {"call", "logout", "revoke"} : StartCommand(p, cmd)
               \/ ValidateLogin(p) \/ CleanUpLogin(p) \/ UseToken(p) \/ UseLost(p)
               \/ TakeLock(p) \/ GiveUp(p) \/ ReleaseLock(p) \/ RefreshLost(p)
               \/ ReadThrows(p)
      BY <1>0, <2>1, <2>8, CommandsKeepOut
    <2> QED
      BY <1>2, <2>2, <2>3, <2>4, <2>5, <2>6, <2>7, <2>8 DEF Step
  <1> QED
    BY <1>1, <1>2 DEF Next, Tick, vars

(* authLogout and the login that replaces: as long as no process has crashed, *)
(* whatever fails and whatever else runs, a session that was logged out of or *)
(* replaced is never again what the store shows.                              *)
THEOREM LoggedOutStaysOutHolds == Spec => []LoggedOutStaysOut
PROOF
  <1>1. OutInv => LoggedOutStaysOut
    BY DEF OutInv, LoggedOutStaysOut, Calm
  <1>2. Init => BaseInv /\ LockInv /\ OutInv
    BY BaseInit, LockInit, OutInit
  <1>3. BaseInv /\ LockInv /\ OutInv /\ [Next]_vars => (BaseInv /\ LockInv /\ OutInv)'
    BY BaseNext, LockNext, OutNext
  <1> QED
    BY <1>1, <1>2, <1>3, PTL DEF Spec

-----------------------------------------------------------------------------
(* Who has what.  What a process was issued and has not saved or given up   *)
(* is still good, the session it rotated too; what a command displaces it displaces in its last section.*)

Issued(r) == Unkept(r) \/ r.pc \in {"save", "unsaved"}
DisplacedOK(r) ==
  r.displaced # {} =>
    \/ r.pc \in {"clearing", "persisting", "cleanup", "done"}
    \/ r.pc = "release" /\ r.next \in {"done", "cleanup"}
InTime(p) == Issued(proc[p]) => access[proc[p].credential.token].expires_at > clock
Lasting(p) == proc[p].pc \in {"save", "unsaved"} => Lasts(proc[p].credential.session)
DueInv == \A p \in Process : DisplacedOK(proc[p]) /\ InTime(p) /\ Lasting(p)

(* What a step of p does to its own state: it is issued nothing. *)
Turned(p) ==
  /\ \A q \in Process \ {p} : proc'[q] = proc[q]
  /\ DisplacedOK(proc[p]) =>
       /\ DisplacedOK(proc[p])'
       /\ proc[p].displaced # {} /\ proc'[p].pc # "dead" =>
            proc'[p].displaced = proc[p].displaced
  /\ Issued(proc[p])' => Issued(proc[p]) /\ proc'[p].credential = proc[p].credential
  /\ proc'[p].pc \in {"save", "unsaved"} => proc[p].pc \in {"save", "unsaved"}

(* And nothing is taken from it, nor does it end up in a call of the store. *)
Settled(p) ==
  /\ proc'[p].pc \notin {"save", "unsaved", "discard", "clearing", "persisting", "dead"}
  /\ proc[p].pc \notin {"save", "unsaved"}
  /\ Issued(proc[p]) => Issued(proc[p])'

Quiet(p) ==
  \/ \E cmd \in {"call", "logout", "revoke"} : StartCommand(p, cmd)
  \/ ValidateLogin(p) \/ TakeLock(p) \/ WaitForLock(p) \/ GiveUp(p) \/ ReleaseLock(p)
  \/ Resolve(p) \/ Renew(p) \/ ReadForLogout(p) \/ ReadThrows(p) \/ DiscardReturns(p)
  \/ UseToken(p)
  \/ StoreReturns(p) /\ ~(proc[p].pc = "persisting" /\ Ok(p))

LEMMA QuietTurns ==
  ASSUME BaseInv, NEW p \in Process, Quiet(p)
  PROVE  Turned(p) /\ Settled(p)
PROOF
  <1>0. /\ TypeInv /\ CliTypeOK /\ ProcOK(p) /\ Shape(proc[p]) /\ proc[p] \in ProcState
    BY DEF BaseInv, TypeInv, CliTypeOK, ProcOK
  <1>e. ASSUME Ends(p), ~Issued(proc[p])
        PROVE  Turned(p) /\ Settled(p)
    <2>1. Becomes(p, "", "done", "", "", NoCredential, {}, proc[p].displaced)
      BY <1>0, <1>e, Turn
    <2>2. /\ proc'[p].pc = "done" /\ proc'[p].displaced = proc[p].displaced
          /\ \A q \in Process \ {p} : proc'[q] = proc[q]
      BY <2>1 DEF Becomes
    <2> QED
      BY <1>e, <2>2 DEF Turned, Settled, DisplacedOK, Issued, Unkept
  <1>1. ASSUME NEW cmd \in {"call", "logout", "revoke"}, StartCommand(p, cmd)
        PROVE  Turned(p) /\ Settled(p)
    <2>1. PICK goal \in {"resolve", "read"} :
            Becomes(p, cmd, "lock", goal, proc[p].next, proc[p].credential, proc[p].using,
                    proc[p].displaced)
      BY <1>0, <1>1, StartCommandDoes
    <2>2. proc[p].pc = "idle"
      BY <1>0, <1>1, StartCommandDoes
    <2>3. /\ proc'[p].pc = "lock" /\ proc'[p].goal = goal /\ proc'[p].displaced = proc[p].displaced
          /\ \A q \in Process \ {p} : proc'[q] = proc[q]
      BY <2>1 DEF Becomes
    <2> QED
      BY <2>2, <2>3 DEF Turned, Settled, DisplacedOK, Issued, Unkept
  <1>2. CASE ValidateLogin(p)
    <2>1. proc[p].pc = "validate"
      BY <1>2 DEF ValidateLogin
    <2>2. Turns(p, "lock", "persist", "") \/ Turns(p, "cleanup", proc[p].goal, proc[p].next)
      BY <1>0, <1>2, Turn DEF ValidateLogin
    <2>3. /\ \/ proc'[p].pc = "lock" /\ proc'[p].goal = "persist"
             \/ proc'[p].pc = "cleanup"
          /\ proc'[p].credential = proc[p].credential
          /\ proc'[p].displaced = proc[p].displaced
          /\ \A q \in Process \ {p} : proc'[q] = proc[q]
      BY <2>2 DEF Turns, Becomes
    <2> QED
      BY <2>1, <2>3 DEF Turned, Settled, DisplacedOK, Issued, Unkept
  <1>4. CASE TakeLock(p)
    <2>1. proc[p].pc = "lock" /\ Goes(p, proc[p].goal)
      BY <1>4 DEF TakeLock
    <2>2. PICK goal \in {"resolve", "renew", "read", "clear", "persist"} : proc[p].goal = goal
      BY <1>0, <2>1 DEF Shape, ProcState
    <2>3. Turns(p, goal, proc[p].goal, proc[p].next)
      BY <1>0, <2>1, <2>2, Turn
    <2>4. /\ proc'[p].pc = goal /\ proc'[p].credential = proc[p].credential
          /\ proc'[p].displaced = proc[p].displaced
          /\ \A q \in Process \ {p} : proc'[q] = proc[q]
      BY <2>3 DEF Turns, Becomes
    <2> QED
      BY <2>1, <2>2, <2>4 DEF Turned, Settled, DisplacedOK, Issued, Unkept
  <1>5. CASE GiveUp(p)
    <2>1. /\ proc[p].pc = "lock"
          /\ IF proc[p].goal = "persist" THEN Goes(p, "cleanup") ELSE Ends(p)
      BY <1>5 DEF GiveUp
    <2>2. CASE proc[p].goal = "persist"
      <3>1. Turns(p, "cleanup", proc[p].goal, proc[p].next)
        BY <1>0, <2>1, <2>2, Turn
      <3>2. /\ proc'[p].pc = "cleanup" /\ proc'[p].credential = proc[p].credential
            /\ proc'[p].displaced = proc[p].displaced
            /\ \A q \in Process \ {p} : proc'[q] = proc[q]
        BY <3>1 DEF Turns, Becomes
      <3> QED
        BY <2>1, <2>2, <3>2 DEF Turned, Settled, DisplacedOK, Issued, Unkept
    <2> QED
      BY <1>e, <2>1, <2>2 DEF Issued, Unkept
  <1>6. CASE ReleaseLock(p)
    <2>1. /\ proc[p].pc = "release"
          /\ \/ proc[p].next = "clear" /\ Turns(p, "lock", "clear", "")
             \/ /\ proc[p].next = "done"
                /\ Becomes(p, "", "done", "", "", NoCredential, {}, proc[p].displaced)
             \/ /\ proc[p].next \in {"use", "retry", "cleanup"}
                /\ Turns(p, proc[p].next, proc[p].goal, "")
      BY <1>0, <1>6, ReleaseLockDoes
    <2>2. CASE proc[p].next = "clear" /\ Turns(p, "lock", "clear", "")
      <3>1. /\ proc'[p].pc = "lock" /\ proc'[p].goal = "clear"
            /\ proc'[p].displaced = proc[p].displaced
            /\ \A q \in Process \ {p} : proc'[q] = proc[q]
        BY <2>2 DEF Turns, Becomes
      <3> QED
        BY <2>1, <2>2, <3>1 DEF Turned, Settled, DisplacedOK, Issued, Unkept
    <2>3. CASE /\ proc[p].next = "done"
               /\ Becomes(p, "", "done", "", "", NoCredential, {}, proc[p].displaced)
      <3>1. /\ proc'[p].pc = "done" /\ proc'[p].displaced = proc[p].displaced
            /\ \A q \in Process \ {p} : proc'[q] = proc[q]
        BY <2>3 DEF Becomes
      <3> QED
        BY <2>1, <2>3, <3>1 DEF Turned, Settled, DisplacedOK, Issued, Unkept
    <2>4. CASE /\ proc[p].next \in {"use", "retry", "cleanup"}
               /\ Turns(p, proc[p].next, proc[p].goal, "")
      <3>1. /\ proc'[p].pc = proc[p].next /\ proc'[p].credential = proc[p].credential
            /\ proc'[p].displaced = proc[p].displaced
            /\ \A q \in Process \ {p} : proc'[q] = proc[q]
        BY <2>4 DEF Turns, Becomes
      <3> QED
        BY <2>1, <2>4, <3>1 DEF Turned, Settled, DisplacedOK, Issued, Unkept
    <2> QED
      BY <2>1, <2>2, <2>3, <2>4
  <1>7. ASSUME proc[p].pc \in {"resolve", "renew", "read"},
               proc'[p].pc \in {"release", "refresh"},
               proc'[p].next # "cleanup" \/ proc'[p].pc = "refresh",
               proc'[p].displaced = proc[p].displaced,
               \A q \in Process \ {p} : proc'[q] = proc[q]
        PROVE  Turned(p) /\ Settled(p)
    BY <1>7 DEF Turned, Settled, DisplacedOK, Issued, Unkept
  <1>8. CASE Resolve(p)
    <2>1. \/ Turns(p, "release", proc[p].goal, "done")
          \/ \E seen : \E pc \in {"release", "refresh"}, next \in {"use", ""} :
               Becomes(p, proc[p].cmd, pc, proc[p].goal, next, seen, seen.token,
                       proc[p].displaced)
      BY <1>0, <1>8, ResolveDoes
    <2>2. proc[p].pc = "resolve"
      BY <1>0, <1>8, ResolveDoes
    <2>3. /\ proc'[p].pc \in {"release", "refresh"} /\ proc'[p].next # "cleanup"
          /\ proc'[p].displaced = proc[p].displaced
          /\ \A q \in Process \ {p} : proc'[q] = proc[q]
      BY <2>1 DEF Turns, Becomes
    <2> QED
      BY <1>7, <2>2, <2>3
  <1>9. CASE Renew(p)
    <2>1. \/ Turns(p, "release", proc[p].goal, "done")
          \/ \E seen : Becomes(p, proc[p].cmd, "release", proc[p].goal, "retry",
                               proc[p].credential, seen.token, proc[p].displaced)
          \/ \E seen : Becomes(p, proc[p].cmd, "refresh", proc[p].goal, proc[p].next, seen,
                               proc[p].using, proc[p].displaced)
      BY <1>0, <1>9, RenewDoes
    <2>2. proc[p].pc = "renew"
      BY <1>0, <1>9, RenewDoes
    <2>3. /\ \/ proc'[p].pc = "release" /\ proc'[p].next # "cleanup"
             \/ proc'[p].pc = "refresh"
          /\ proc'[p].displaced = proc[p].displaced
          /\ \A q \in Process \ {p} : proc'[q] = proc[q]
      BY <2>1 DEF Turns, Becomes
    <2> QED
      BY <1>7, <2>2, <2>3
  <1>10. CASE ReadForLogout(p)
    <2>1. PICK seen \in {Visible, NoCredential}, next \in {"clear", "use", "done"} :
            Becomes(p, proc[p].cmd, "release", proc[p].goal, next, seen, seen.token,
                    proc[p].displaced)
      BY <1>0, <1>10, ReadForLogoutDoes
    <2>2. proc[p].pc = "read"
      BY <1>0, <1>10, ReadForLogoutDoes
    <2>3. /\ proc'[p].pc = "release" /\ proc'[p].next # "cleanup"
          /\ proc'[p].displaced = proc[p].displaced
          /\ \A q \in Process \ {p} : proc'[q] = proc[q]
      BY <2>1 DEF Becomes
    <2> QED
      BY <1>7, <2>2, <2>3
  <1>15. CASE DiscardReturns(p)
    <2>1. /\ proc[p].pc = "discard" /\ proc[p].next \in {"clear", "done"}
          /\ Turns(p, "release", proc[p].goal, proc[p].next)
      BY <1>0, <1>15, Turn DEF DiscardReturns, Shape
    <2>2. /\ proc'[p].pc = "release" /\ proc'[p].next = proc[p].next
          /\ proc'[p].displaced = proc[p].displaced
          /\ \A q \in Process \ {p} : proc'[q] = proc[q]
      BY <2>1 DEF Turns, Becomes
    <2> QED
      BY <2>1, <2>2 DEF Turned, Settled, DisplacedOK, Issued, Unkept
  <1>16. CASE UseToken(p)
    <2>1. /\ proc[p].pc \in {"use", "retry"}
          /\ Locks(p, "renew") \/ Locks(p, "clear") \/ Ends(p)
      BY <1>16 DEF UseToken
    <2>2. CASE Locks(p, "renew") \/ Locks(p, "clear")
      <3>1. Turns(p, "lock", "renew", "") \/ Turns(p, "lock", "clear", "")
        BY <1>0, <2>2, Turn
      <3>2. /\ proc'[p].pc = "lock" /\ proc'[p].goal \in {"renew", "clear"}
            /\ proc'[p].displaced = proc[p].displaced
            /\ \A q \in Process \ {p} : proc'[q] = proc[q]
        BY <3>1 DEF Turns, Becomes
      <3> QED
        BY <2>1, <3>2 DEF Turned, Settled, DisplacedOK, Issued, Unkept
    <2> QED
      BY <1>e, <2>1, <2>2 DEF Issued, Unkept
  <1>19. CASE StoreReturns(p) /\ ~(proc[p].pc = "persisting" /\ Ok(p))
    <2>1. proc[p].pc \in {"clearing", "persisting"}
      BY <1>19 DEF StoreReturns
    <2>2. PICK next \in {"cleanup", "done"} :
            /\ next = IF proc[p].pc = "persisting" /\ ~Ok(p) THEN "cleanup" ELSE "done"
            /\ Leaves(p, next)
      BY <1>19 DEF StoreReturns
    <2>3. Turns(p, "release", proc[p].goal, next)
      BY <1>0, <2>2, Turn
    <2>4. /\ proc'[p].pc = "release" /\ proc'[p].next = next
          /\ proc'[p].credential = proc[p].credential
          /\ proc'[p].displaced = proc[p].displaced
          /\ \A q \in Process \ {p} : proc'[q] = proc[q]
      BY <2>3 DEF Turns, Becomes
    <2> QED
      BY <1>19, <2>1, <2>2, <2>4 DEF Turned, Settled, DisplacedOK, Issued, Unkept
  <1>20. CASE WaitForLock(p)
    <2>1. proc' = proc /\ proc[p].pc = "lock"
      BY <1>20 DEF WaitForLock
    <2> QED
      BY <2>1 DEF Turned, Settled, DisplacedOK, Issued, Unkept
  <1>21. CASE ReadThrows(p)
    <2>1. proc[p].pc \in {"resolve", "renew", "read", "clear", "persist"}
      BY <1>0, <1>21, ReadThrowsDoes
    <2>2. PICK next \in {"cleanup", "done"} :
            /\ next = "cleanup" <=> proc[p].pc = "persist"
            /\ Turns(p, "release", proc[p].goal, next)
      BY <1>0, <1>21, ReadThrowsDoes
    <2>3. /\ proc'[p].pc = "release" /\ proc'[p].next = next
          /\ proc'[p].credential = proc[p].credential
          /\ proc'[p].displaced = proc[p].displaced
          /\ \A q \in Process \ {p} : proc'[q] = proc[q]
      BY <2>2 DEF Turns, Becomes
    <2> QED
      BY <2>1, <2>2, <2>3 DEF Turned, Settled, DisplacedOK, Issued, Unkept
  <1> QED
    BY <1>1, <1>2, <1>4, <1>5, <1>6, <1>8, <1>9, <1>10, <1>15, <1>16, <1>19, <1>20, <1>21
       DEF Quiet

LEMMA StepTurns ==
  ASSUME BaseInv, NEW p \in Process, Step(p)
  PROVE  \/ Turned(p)
         \/ \E s \in Session, cmd \in {"login", "insecure"} : StartLogin(p, s, cmd)
         \/ Refresh(p) /\ Rotates(proc[p].credential.token)
PROOF
  <1>0. /\ TypeInv /\ CliTypeOK /\ ProcOK(p) /\ Shape(proc[p]) /\ proc[p] \in ProcState
    BY DEF BaseInv, TypeInv, CliTypeOK, ProcOK
  <1>e. ASSUME Ends(p)
        PROVE  Turned(p)
    <2>1. Becomes(p, "", "done", "", "", NoCredential, {}, proc[p].displaced)
      BY <1>0, <1>e, Turn
    <2>2. /\ proc'[p].pc = "done" /\ proc'[p].displaced = proc[p].displaced
          /\ \A q \in Process \ {p} : proc'[q] = proc[q]
      BY <2>1 DEF Becomes
    <2> QED
      BY <2>2 DEF Turned, DisplacedOK, Issued, Unkept
  <1>1. CASE Quiet(p)
    BY <1>1, QuietTurns
  <1>3. CASE CleanUpLogin(p) \/ UseLost(p)
    BY <1>3, <1>e DEF CleanUpLogin, UseLost
  <1>11. CASE Refresh(p) /\ ~Rotates(proc[p].credential.token)
    <2>1. /\ proc[p].pc = "refresh"
          /\ \E next \in {"clear", "done"} : Turns(p, "discard", proc[p].goal, next)
      BY <1>0, <1>11, RefreshDoes
    <2>2. /\ proc'[p].pc = "discard" /\ proc'[p].displaced = proc[p].displaced
          /\ \A q \in Process \ {p} : proc'[q] = proc[q]
      BY <2>1 DEF Turns, Becomes
    <2> QED
      BY <2>1, <2>2 DEF Turned, DisplacedOK, Issued, Unkept
  <1>12. CASE RefreshLost(p)
    <2>1. proc[p].pc = "refresh" /\ Turns(p, "release", proc[p].goal, "done")
      BY <1>0, <1>12, Turn DEF RefreshLost
    <2>2. /\ proc'[p].pc = "release" /\ proc'[p].next = "done"
          /\ \A q \in Process \ {p} : proc'[q] = proc[q]
      BY <2>1 DEF Turns, Becomes
    <2> QED
      BY <2>1, <2>2 DEF Turned, DisplacedOK, Issued, Unkept
  <1>13. CASE SaveReturns(p)
    <2>1. /\ proc[p].pc = "save"
          /\ \/ \E next \in {"use", "retry"} :
                  Becomes(p, proc[p].cmd, "release", proc[p].goal, next, proc[p].credential, p,
                          proc[p].displaced)
             \/ Turns(p, "unsaved", proc[p].goal, proc[p].next)
      BY <1>0, <1>13, SaveReturnsDoes
    <2>2. /\ \/ proc'[p].pc = "release" /\ proc'[p].next # "cleanup"
             \/ proc'[p].pc = "unsaved"
          /\ proc'[p].displaced = proc[p].displaced /\ proc'[p].credential = proc[p].credential
          /\ \A q \in Process \ {p} : proc'[q] = proc[q]
      BY <2>1 DEF Turns, Becomes
    <2> QED
      BY <2>1, <2>2 DEF Turned, DisplacedOK, Issued, Unkept
  <1>14. CASE RevokeUnsaved(p)
    <2>1. proc[p].pc = "unsaved" /\ Turns(p, "discard", proc[p].goal, "done")
      BY <1>0, <1>14, RevokeUnsavedDoes
    <2>2. /\ proc'[p].pc = "discard" /\ proc'[p].displaced = proc[p].displaced
          /\ \A q \in Process \ {p} : proc'[q] = proc[q]
      BY <2>1 DEF Turns, Becomes
    <2> QED
      BY <2>1, <2>2 DEF Turned, DisplacedOK, Issued, Unkept
  <1>17. CASE Clear(p)
    <2>1. /\ proc[p].pc = "clear"
          /\ \/ Becomes(p, proc[p].cmd, "clearing", proc[p].goal, proc[p].next,
                        proc[p].credential, proc[p].using, Visible.session)
             \/ Turns(p, "release", proc[p].goal, "done")
      BY <1>0, <1>17, ClearDoes
    <2>2. /\ \/ proc'[p].pc = "clearing"
             \/ proc'[p].pc = "release" /\ proc'[p].next = "done"
          /\ \A q \in Process \ {p} : proc'[q] = proc[q]
      BY <2>1 DEF Turns, Becomes
    <2> QED
      BY <2>1, <2>2 DEF Turned, DisplacedOK, Issued, Unkept
  <1>18. CASE PersistLogin(p)
    <2>1. /\ proc[p].pc = "persist"
          /\ Becomes(p, proc[p].cmd, "persisting", proc[p].goal, proc[p].next,
                     proc[p].credential, proc[p].using, Visible.session)
      BY <1>0, <1>18, PersistLoginDoes
    <2>2. /\ proc'[p].pc = "persisting" /\ proc'[p].credential = proc[p].credential
          /\ \A q \in Process \ {p} : proc'[q] = proc[q]
      BY <2>1 DEF Becomes
    <2> QED
      BY <2>1, <2>2 DEF Turned, DisplacedOK, Issued, Unkept
  <1>19. CASE StoreReturns(p)
    <2>1. proc[p].pc \in {"clearing", "persisting"}
      BY <1>19 DEF StoreReturns
    <2>2. PICK next \in {"cleanup", "done"} :
            /\ next = IF proc[p].pc = "persisting" /\ ~Ok(p) THEN "cleanup" ELSE "done"
            /\ Leaves(p, next)
      BY <1>19 DEF StoreReturns
    <2>3. Turns(p, "release", proc[p].goal, next)
      BY <1>0, <2>2, Turn
    <2>4. /\ proc'[p].pc = "release" /\ proc'[p].next = next
          /\ proc'[p].credential = proc[p].credential
          /\ proc'[p].displaced = proc[p].displaced
          /\ \A q \in Process \ {p} : proc'[q] = proc[q]
      BY <2>3 DEF Turns, Becomes
    <2> QED
      BY <2>1, <2>2, <2>4 DEF Turned, DisplacedOK, Issued, Unkept
  <1>20. CASE StoreStep(p) \/ WaitForLock(p)
    <2>1. proc' = proc
      BY <1>20 DEF StoreStep, WaitForLock
    <2> QED
      BY <2>1 DEF Turned, DisplacedOK, Issued, Unkept
  <1>21. CASE Crash(p)
    <2>1. Becomes(p, "", "dead", "", "", NoCredential, {}, {})
      BY <1>0, <1>21, CrashDoes
    <2>2. /\ proc'[p].pc = "dead" /\ proc'[p].displaced = {}
          /\ \A q \in Process \ {p} : proc'[q] = proc[q]
      BY <2>1 DEF Becomes
    <2> QED
      BY <2>2 DEF Turned, DisplacedOK, Issued, Unkept
  <1> QED
    BY <1>1, <1>3, <1>11, <1>12, <1>13, <1>14, <1>17, <1>18, <1>19, <1>20, <1>21 DEF Step, Quiet

(* The server issues nothing, it at most ends a session. *)
Ebbs(status) ==
  /\ \A s \in Session :
       /\ SameSession(s) \/ sessions'[s].status = status
       /\ sessions'[s].idle_expires_at = sessions[s].idle_expires_at
       /\ sessions'[s].absolute_expires_at = sessions[s].absolute_expires_at
  /\ \A t \in Token :
       /\ access'[t].expires_at = access[t].expires_at
       /\ refresh'[t].session_id = refresh[t].session_id
       /\ refresh'[t].status \in {refresh[t].status, "revoked"}

LEMMA EndEbbs ==
  ASSUME BaseInv, NEW s \in Session, NEW status, EndOf(s, status)
  PROVE  Ebbs(status)
  BY DEF EndOf, Ebbs, SameSession

LEMMA StillEbbs ==
  ASSUME UNCHANGED serverVars, NEW status
  PROVE  Ebbs(status)
  BY DEF serverVars, Ebbs, SameSession

LEMMA StepServer ==
  ASSUME BaseInv, NEW p \in Process, Step(p)
  PROVE  \/ Ebbs("revoked")
         \/ \E s \in Session, cmd \in {"login", "insecure"} : StartLogin(p, s, cmd) /\ Exchanges(s)
         \/ /\ Refresh(p) \/ RefreshLost(p)
            /\ LET t == proc[p].credential.token IN
               \/ Rotates(t) /\ Rotation(t, p)
               \/ ~Rotates(t) /\ refresh[t].status = "used" /\ Ebbs("compromised")
PROOF
  <1>0. TypeInv /\ CliTypeOK /\ ProcOK(p)
    BY DEF BaseInv, TypeInv
  <1>1. ASSUME UNCHANGED serverVars
        PROVE  Ebbs("revoked")
    BY <1>1, StillEbbs
  <1>2. ASSUME NEW t \in Token, Revoke(t)
        PROVE  Ebbs("revoked")
    BY <1>1, <1>2, RevokeDoes, EndEbbs
  <1>3. ASSUME NEW s \in Session, NEW cmd \in {"login", "insecure"}, StartLogin(p, s, cmd)
        PROVE  Exchanges(s)
    <2>1. Server!ExchangeDeviceAuthorization(s, s, clock)
      BY <1>0, <1>3, StartLoginDoes
    <2> QED
      BY <1>0, <2>1, ExchangeDoes DEF CliTypeOK
  <1>4. CASE CleanUpLogin(p)
    <2>1. proc[p].using \in Token
      BY <1>0, <1>4 DEF CleanUpLogin, ProcOK, Unkept, Token
    <2> QED
      BY <1>1, <1>2, <1>4, <2>1 DEF CleanUpLogin
  <1>5. CASE UseToken(p) \/ UseLost(p)
    <2>1. proc[p].using \in Token
      BY <1>0, <1>5 DEF UseToken, UseLost, ProcOK
    <2> QED
      BY <1>1, <1>2, <1>5, <2>1 DEF UseToken, UseLost, Revoke
  <1>6. CASE RevokeUnsaved(p)
    BY <1>1, <1>2, <1>6 DEF RevokeUnsaved, Token
  <1>7. CASE Refresh(p) \/ RefreshLost(p)
    <2>1. /\ proc[p].pc = "refresh"
          /\ ServerRefreshes(p) \/ UNCHANGED serverVars
          /\ UNCHANGED clock
      BY <1>7 DEF Refresh, RefreshLost
    <2> QED
      BY <1>1, <1>7, <2>1, ServerRefreshesDoes, EndEbbs
  <1>8. CASE \/ \E cmd \in {"call", "logout", "revoke"} : StartCommand(p, cmd)
             \/ ValidateLogin(p) \/ TakeLock(p) \/ WaitForLock(p) \/ GiveUp(p) \/ ReleaseLock(p)
             \/ Resolve(p) \/ Renew(p) \/ SaveReturns(p) \/ DiscardReturns(p)
             \/ ReadForLogout(p) \/ Clear(p) \/ PersistLogin(p) \/ StoreReturns(p)
             \/ StoreStep(p) \/ ReadThrows(p) \/ Crash(p)
    BY <1>1, <1>8 DEF StartCommand, ValidateLogin, TakeLock, WaitForLock, GiveUp, ReleaseLock,
       Resolve, Renew, SaveReturns, DiscardReturns, ReadForLogout, Clear, PersistLogin,
       StoreReturns, StoreStep, ReadThrows, Crash, StoreOnly
  <1> QED
    BY <1>3, <1>4, <1>5, <1>6, <1>7, <1>8 DEF Step

(* The tokens of a process are ones the server has issued. *)
LEMMA IssuedKnown ==
  ASSUME BaseInv, NEW q \in Process, Issued(proc[q])
  PROVE  LET c == proc[q].credential IN
         /\ c.session \in Session /\ c.token \in Token /\ c # NoCredential
         /\ refresh[c.token].session_id = c.session /\ refresh[c.token].status # "none"
         /\ access[c.token].session_id = c.session /\ sessions[c.session].status # "none"
PROOF
  <1>1. proc[q].credential.session \in Session
    BY DEF BaseInv, ProcOK, Issued
  <1>2. proc[q].credential # NoCredential
    BY <1>1, Constants DEF NoCredential
  <1>3. /\ proc[q].credential.token \in Token
        /\ refresh[proc[q].credential.token].session_id = proc[q].credential.session
    BY <1>2 DEF BaseInv, ProcOK, Genuine
  <1> QED
    BY <1>1, <1>2, <1>3, Constants DEF BaseInv, TokensOK

LEMMA DueInit == Init => DueInv
PROOF
  <1> SUFFICES ASSUME Init PROVE DueInv
    OBVIOUS
  <1>1. \A p \in Process : proc[p].pc = "idle" /\ proc[p].displaced = {}
    BY DEF Init, NoProc
  <1> QED
    BY <1>1 DEF DueInv, DisplacedOK, InTime, Lasting, Issued, Unkept

LEMMA DueNext == BaseInv /\ DueInv /\ [Next]_vars => DueInv'
PROOF
  <1> SUFFICES ASSUME BaseInv, DueInv, [Next]_vars PROVE DueInv'
    OBVIOUS
  <1>0. TypeInv /\ CliTypeOK /\ ServerTypeOK /\ TokensOK
    BY DEF BaseInv, TypeInv, CliTypeOK
  <1>1. CASE Tick
    <2>1. \A p \in Process : ~Issued(proc[p])
      BY <1>1 DEF Tick, Keeping, Issued, Unkept
    <2> QED
      BY <1>1, <2>1 DEF Tick, DueInv, InTime, Lasting, Issued
  <1>2. CASE UNCHANGED vars
    BY <1>2 DEF vars, serverVars, DueInv, InTime, Lasting, Lasts
  <1>3. ASSUME NEW p \in Process, Step(p)
        PROVE  DueInv'
    <2>0. clock' = clock
      BY <1>3 DEF Step, StartCommand, StartLogin, ValidateLogin, CleanUpLogin, TakeLock, WaitForLock,
         GiveUp, ReleaseLock, Resolve, Renew, Refresh, RefreshLost, SaveReturns, RevokeUnsaved,
         DiscardReturns, UseToken, UseLost, ReadForLogout, Clear, PersistLogin, StoreReturns,
         StoreStep, ReadThrows, Crash, StoreOnly
    <2>l. \A s \in Session : sessions[s].status # "none" /\ Lasts(s) => Lasts(s)'
      <3>1. ASSUME Ebbs("revoked") \/ Ebbs("compromised")
            PROVE  \A s \in Session : Lasts(s) => Lasts(s)'
        BY <2>0, <3>1 DEF Ebbs, Lasts
      <3>2. ASSUME NEW o \in Session, Exchanges(o)
            PROVE  \A s \in Session : sessions[s].status # "none" /\ Lasts(s) => Lasts(s)'
        BY <2>0, <3>2 DEF Exchanges, SameSession, Lasts
      <3>3. ASSUME NEW t, Rotation(t, p)
            PROVE  \A s \in Session : Lasts(s) => Lasts(s)'
        BY <2>0, <3>3 DEF Rotation, SameSession, Lasts
      <3> QED
        BY <1>3, <3>1, <3>2, <3>3, StepServer
    <2>k. ASSUME NEW q \in Process,
                 proc'[q].pc \in {"save", "unsaved"} =>
                   /\ proc[q].pc \in {"save", "unsaved"}
                   /\ proc'[q].credential = proc[q].credential
          PROVE  Lasting(q)'
      <3> SUFFICES ASSUME proc'[q].pc \in {"save", "unsaved"} PROVE Lasting(q)'
        BY DEF Lasting
      <3>1. Issued(proc[q]) /\ Lasts(proc[q].credential.session)
        BY <2>k DEF Issued, DueInv, Lasting
      <3>2. PICK s \in Session : s = proc[q].credential.session
        BY <3>1, IssuedKnown
      <3>3. sessions[s].status # "none"
        BY <3>1, <3>2, IssuedKnown
      <3>4. Lasts(s)'
        BY <2>l, <3>1, <3>2, <3>3
      <3>5. proc'[q].credential.session = s
        BY <2>k, <3>2
      <3> QED
        BY <3>4, <3>5 DEF Lasting, Lasts
    <2>1. ASSUME Turned(p),
                 \A q \in Process : Issued(proc[q]) =>
                   access'[proc[q].credential.token].expires_at
                     = access[proc[q].credential.token].expires_at
          PROVE  DueInv'
      <3>1. ASSUME NEW q \in Process
            PROVE  Lasting(q)'
        <4>1. proc'[q].pc \in {"save", "unsaved"} =>
                /\ proc[q].pc \in {"save", "unsaved"}
                /\ proc'[q].credential = proc[q].credential
          BY <2>1, <3>1 DEF Turned, Issued
        <4> QED
          BY <2>k, <4>1
      <3>2. \A q \in Process : DisplacedOK(proc[q])'
        BY <2>1 DEF Turned, DueInv
      <3>3. \A q \in Process : Issued(proc[q])' =>
              access'[proc'[q].credential.token].expires_at > clock'
        BY <2>0, <2>1 DEF Turned, DueInv, InTime
      <3> QED
        BY <3>1, <3>2, <3>3 DEF DueInv, InTime
    <2>2. ASSUME NEW r \in Token, refresh[r].status = "none",
                 access'[r].expires_at = clock + AccessLifetime,
                 \A t \in Token \ {r} :
                   access'[t].expires_at = access[t].expires_at
          PROVE  \A q \in Process : Issued(proc[q]) =>
                   access'[proc[q].credential.token].expires_at
                     = access[proc[q].credential.token].expires_at
      BY <2>2, IssuedKnown
    <2>3. ASSUME NEW r \in Token, refresh[r].status = "none",
                 access'[r].expires_at = clock + AccessLifetime,
                 \A t \in Token \ {r} :
                   access'[t].expires_at = access[t].expires_at,
                 \A q \in Process \ {p} : proc'[q] = proc[q],
                 proc'[p].credential.token = r, DisplacedOK(proc[p])', Lasting(p)'
          PROVE  DueInv'
      <3>1. clock + AccessLifetime > clock
        BY <1>0, Constants DEF CliTypeOK
      <3>2. InTime(p)'
        BY <2>0, <2>3, <3>1 DEF InTime
      <3>3. ASSUME NEW q \in Process \ {p}
            PROVE  DisplacedOK(proc[q])' /\ InTime(q)' /\ Lasting(q)'
        <4>1. /\ DisplacedOK(proc[q])'
              /\ Issued(proc[q])' => access'[proc'[q].credential.token].expires_at > clock'
          BY <2>0, <2>2, <2>3, <3>3 DEF DueInv, InTime
        <4>2. Lasting(q)'
          BY <2>3, <2>k, <3>3
        <4> QED
          BY <4>1, <4>2 DEF InTime
      <3> QED
        BY <2>3, <3>2, <3>3 DEF DueInv
    <2>4. ASSUME NEW s \in Session, Exchanges(s)
          PROVE  /\ s \in Token /\ refresh[s].status = "none"
                 /\ access'[s].expires_at = clock + AccessLifetime
                 /\ \A t \in Token \ {s} :
                      access'[t].expires_at = access[t].expires_at
      <3>1. s \in Token /\ s # {}
        BY Constants DEF Token
      <3>2. refresh[s].status = "none"
        <4>1. refresh[s].status # "none" =>
                /\ refresh[s].session_id \in Session /\ refresh[s].session_id \in {s, {}}
                /\ sessions[refresh[s].session_id].status # "none"
          BY <1>0, <3>1 DEF TokensOK
        <4> QED
          BY <2>4, <4>1, Constants DEF Exchanges
      <3> QED
        BY <2>4, <3>1, <3>2 DEF Exchanges, SameToken
    <2>5. ASSUME NEW t \in Token, Rotation(t, p)
          PROVE  /\ p \in Token /\ refresh[p].status = "none"
                 /\ access'[p].expires_at = clock + AccessLifetime
                 /\ \A o \in Token \ {p} :
                      access'[o].expires_at = access[o].expires_at
      BY <2>5 DEF Token, Rotation, SameToken
    <2>6. CASE Turned(p)
      <3>1. proc[p].pc = "refresh" => proc[p].credential.token \in Token
        BY DEF BaseInv, ProcOK, Genuine
      <3>2. Refresh(p) \/ RefreshLost(p) => proc[p].pc = "refresh"
        BY DEF Refresh, RefreshLost
      <3>3. \A q \in Process : Issued(proc[q]) =>
              access'[proc[q].credential.token].expires_at
                = access[proc[q].credential.token].expires_at
        <4>1. CASE Ebbs("revoked") \/ Ebbs("compromised")
          BY <4>1, IssuedKnown DEF Ebbs
        <4>2. ASSUME NEW s \in Session, Exchanges(s)
              PROVE  \A q \in Process : Issued(proc[q]) =>
                       access'[proc[q].credential.token].expires_at
                         = access[proc[q].credential.token].expires_at
          BY <2>2, <2>4, <4>2
        <4>3. CASE /\ proc[p].credential.token \in Token
                   /\ Rotation(proc[p].credential.token, p)
          BY <2>2, <2>5, <4>3
        <4> QED
          BY <1>3, <3>1, <3>2, <4>1, <4>2, <4>3, StepServer
      <3> QED
        BY <2>1, <2>6, <3>3
    <2>7. ASSUME NEW s \in Session, NEW cmd \in {"login", "insecure"}, StartLogin(p, s, cmd)
          PROVE  DueInv'
      <3>1. /\ proc[p].pc = "idle" /\ Server!ExchangeDeviceAuthorization(s, s, clock)
            /\ Becomes(p, cmd, "validate", proc[p].goal, proc[p].next, CredentialOf(s, s, clock), s,
                       proc[p].displaced)
        BY <1>0, <2>7, StartLoginDoes
      <3>2. /\ proc'[p].displaced = proc[p].displaced /\ proc'[p].credential.token = s
            /\ \A q \in Process \ {p} : proc'[q] = proc[q]
        BY <3>1 DEF Becomes, CredentialOf
      <3>3. Exchanges(s)
        BY <1>0, <3>1, ExchangeDoes DEF CliTypeOK
      <3>4. DisplacedOK(proc[p])' /\ Lasting(p)'
        BY <3>1, <3>2 DEF DueInv, DisplacedOK, Lasting, Becomes
      <3> QED
        BY <2>3, <2>4, <3>2, <3>3, <3>4
    <2>8. CASE Refresh(p) /\ Rotates(proc[p].credential.token)
      <3>1. /\ proc[p].pc = "refresh" /\ ServerRefreshes(p)
            /\ Becomes(p, proc[p].cmd, "save", proc[p].goal, proc[p].next,
                       CredentialOf(proc[p].credential.session, p, clock),
                       proc[p].using, proc[p].displaced)
        BY <1>0, <2>8, RefreshDoes
      <3>2. /\ proc'[p].displaced = proc[p].displaced /\ proc'[p].credential.token = p
            /\ \A q \in Process \ {p} : proc'[q] = proc[q]
        BY <3>1 DEF Becomes, CredentialOf
      <3>3. /\ proc[p].credential.token \in Token
            /\ Rotation(proc[p].credential.token, p)
        BY <2>0, <2>8, <3>1, ServerRefreshesDoes
      <3>4. DisplacedOK(proc[p])'
        BY <3>1, <3>2 DEF DueInv, DisplacedOK
      <3>5. /\ proc'[p].credential.session = proc[p].credential.session
            /\ refresh[proc[p].credential.token].session_id = proc[p].credential.session
        <4>1. Genuine(proc[p].credential) /\ proc[p].credential # NoCredential
          BY <3>1 DEF BaseInv, ProcOK
        <4> QED
          BY <3>1, <4>1 DEF Becomes, CredentialOf, Genuine
      <3>6. Lasting(p)'
        <4>1. PICK s : s = proc[p].credential.session
          OBVIOUS
        <4>2. Lasts(s)' /\ proc'[p].credential.session = s
          BY <3>3, <3>5, <4>1 DEF Rotation, Lasts
        <4> QED
          BY <4>2 DEF Lasting, Lasts
      <3> QED
        BY <2>3, <2>5, <3>2, <3>3, <3>4, <3>6
    <2> QED
      BY <1>3, <2>6, <2>7, <2>8, StepTurns
  <1> QED
    BY <1>1, <1>2, <1>3 DEF Next

(* While nothing is lost and nobody crashes: what a process was issued has  *)
(* not been refreshed, a token that was used up stays visible only until it *)
(* is replaced, and every live session is in somebody's hands.              *)

Kept(s) == Visible.session = s /\ refresh[Visible.token].status = "active"
VisibleUsed == Visible # NoCredential /\ refresh[Visible.token].status = "used"
HandOver(p) ==
  /\ Issued(proc[p]) => refresh[proc[p].credential.token].status # "used"
  /\ proc[p].pc \in {"save", "unsaved"} => Visible.session = proc[p].credential.session
  /\ proc[p].pc = "clearing" => Visible.session \in {proc[p].displaced, {}}
  /\ proc[p].pc = "persisting" =>
       Visible.session \in {proc[p].displaced, proc[p].credential.session}
  /\ proc[p].pc = "discard" => \A s \in Session : Live(s) => ~Kept(s)
Owned(s) ==
  \/ Kept(s) \/ \E p \in Process : proc[p].displaced = s
  \/ \E p \in Process : Issued(proc[p]) /\ proc[p].credential.session = s
HoldInv ==
  Undisturbed =>
    /\ \A p \in Process : HandOver(p)
    /\ \A s \in Session : sessions[s].status # "compromised"
    /\ VisibleUsed => \E p \in Process : proc[p].pc \in {"save", "unsaved"}
    /\ \A s \in Session : Live(s) => Owned(s)

LEMMA HoldInit == Init => HoldInv
PROOF
  <1> SUFFICES ASSUME Init PROVE HoldInv
    OBVIOUS
  <1>1. \A p \in Process : proc[p].pc = "idle"
    BY DEF Init, NoProc
  <1>2. \A p \in Process : HandOver(p)
    BY <1>1 DEF HandOver, Issued, Unkept
  <1>3. Visible = CredentialOf(First, First, 0)
    BY DEF Init, Visible, NoFile, File
  <1>4. Visible.session = First /\ Visible.token = First /\ First \in Token
    BY <1>3, Constants DEF CredentialOf, Token
  <1>5. refresh[First].status = "active"
    BY <1>4 DEF Init
  <1>6. \A s \in Session : sessions[s].status = IF s = First THEN "active" ELSE "none"
    BY DEF Init
  <1>7. \A s \in Session : Live(s) => Kept(s)
    BY <1>4, <1>5, <1>6 DEF Live, Kept
  <1> QED
    BY <1>2, <1>4, <1>5, <1>6, <1>7 DEF HoldInv, VisibleUsed, Owned

(* What is visible is known to the server. *)
LEMMA VisibleKnown ==
  ASSUME BaseInv, Visible.session # {}
  PROVE  /\ Visible # NoCredential /\ Visible.token \in Token /\ Visible.session \in Session
         /\ refresh[Visible.token].session_id = Visible.session
         /\ refresh[Visible.token].status # "none"
         /\ sessions[Visible.session].status # "none"
PROOF
  <1>1. Visible # NoCredential
    BY DEF NoCredential
  <1>2. Genuine(Visible)
    BY VisibleGenuine
  <1> QED
    BY <1>1, <1>2, Constants DEF Genuine, BaseInv, TokensOK

(* A session that lives on has its tokens as they were. *)
LEMMA EbbKeeps ==
  ASSUME TokensOK', NEW status \in {"revoked", "compromised"}, Ebbs(status), UNCHANGED clock,
         NEW s \in Session, Live(s)'
  PROVE  /\ Live(s)
         /\ \A t \in Token : refresh[t].session_id = s => refresh'[t].status = refresh[t].status
PROOF
  <1>1. sessions'[s].status = "active" /\ SameSession(s)
    BY DEF Live, Ebbs
  <1>2. Live(s)
    BY <1>1 DEF Live, SameSession
  <1>3. ASSUME NEW t \in Token, refresh[t].session_id = s
        PROVE  refresh'[t].status = refresh[t].status
    <2>1. refresh'[t].session_id = s /\ refresh'[t].status \in {refresh[t].status, "revoked"}
      BY <1>3 DEF Ebbs
    <2>2. refresh'[t].status # "revoked"
      <3>1. refresh'[t].status = "revoked" => sessions'[s].status # "active"
        BY <2>1 DEF TokensOK
      <3> QED
        BY <1>1, <3>1
    <2> QED
      BY <2>1, <2>2
  <1> QED
    BY <1>2, <1>3

(* A step of p that leaves the store alone and is issued nothing. *)
LEMMA HoldStep ==
  ASSUME BaseInv, TokensOK', DueInv, HoldInv, Undisturbed, NEW p \in Process, Turned(p),
         Ebbs("revoked"), UNCHANGED <<keyring, plaintext, clock>>, proc'[p].pc # "dead",
         HandOver(p)',
         Issued(proc[p]) /\ ~Issued(proc[p])' =>
           \A s \in Session : s = proc[p].credential.session /\ Live(s)' => Kept(s)',
         proc[p].pc \in {"save", "unsaved"} /\ proc'[p].pc \notin {"save", "unsaved"} =>
           ~VisibleUsed'
  PROVE  HoldInv'
PROOF
  <1>0. /\ \A q \in Process : HandOver(q)
        /\ \A s \in Session : sessions[s].status # "compromised"
        /\ VisibleUsed => \E q \in Process : proc[q].pc \in {"save", "unsaved"}
        /\ \A s \in Session : Live(s) => Owned(s)
        /\ \A q \in Process \ {p} : proc'[q] = proc[q]
    BY DEF HoldInv, Turned
  <1>1. Visible' = Visible
    BY SameVisible
  <1>2. ASSUME NEW s \in Session, Live(s)'
        PROVE  /\ Live(s) /\ (Kept(s)' <=> Kept(s))
    <2>1. /\ Live(s)
          /\ \A t \in Token : refresh[t].session_id = s => refresh'[t].status = refresh[t].status
      BY <1>2, EbbKeeps
    <2>2. Visible.session = s => Visible.token \in Token /\ refresh[Visible.token].session_id = s
      BY VisibleKnown, Constants
    <2> QED
      BY <1>1, <2>1, <2>2 DEF Kept
  <1>3. ASSUME NEW q \in Process \ {p}
        PROVE  HandOver(q)'
    <2>1. Issued(proc[q]) => refresh'[proc[q].credential.token].status # "used"
      BY <1>0, <1>3, IssuedKnown DEF HandOver, Ebbs
    <2>2. proc[q].pc = "discard" => \A s \in Session : Live(s)' => ~Kept(s)'
      BY <1>0, <1>2 DEF HandOver
    <2>3. proc'[q] = proc[q] /\ HandOver(q)
      BY <1>0, <1>3
    <2> QED
      BY <1>1, <2>1, <2>2, <2>3 DEF HandOver
  <1>4. \A s \in Session : sessions'[s].status # "compromised"
    BY <1>0 DEF Ebbs, SameSession
  <1>5. VisibleUsed' => \E q \in Process : proc'[q].pc \in {"save", "unsaved"}
    <2>1. VisibleUsed' => VisibleUsed
      <3>1. Visible # NoCredential => Visible.token \in Token
        BY VisibleGenuine DEF Genuine
      <3> QED
        BY <1>1, <3>1 DEF VisibleUsed, Ebbs
    <2> SUFFICES ASSUME VisibleUsed' PROVE \E q \in Process : proc'[q].pc \in {"save", "unsaved"}
      OBVIOUS
    <2>2. PICK q \in Process : proc[q].pc \in {"save", "unsaved"}
      BY <1>0, <2>1
    <2> QED
      BY <1>0, <2>2
  <1>6. ASSUME NEW s \in Session, Live(s)'
        PROVE  Owned(s)'
    <2>1. Owned(s)
      BY <1>0, <1>2, <1>6
    <2>2. CASE Kept(s)
      BY <1>2, <1>6, <2>2 DEF Owned
    <2>3. ASSUME NEW q \in Process, proc[q].displaced = s
          PROVE  Owned(s)'
      <3>1. proc'[q].displaced = s
        BY <1>0, <2>3, Constants DEF Turned, DueInv
      <3> QED
        BY <3>1 DEF Owned
    <2>4. ASSUME NEW q \in Process, Issued(proc[q]), proc[q].credential.session = s
          PROVE  Owned(s)'
      <3>1. CASE q # p
        BY <1>0, <2>4, <3>1 DEF Owned
      <3>2. CASE q = p /\ Issued(proc[p])'
        <4>1. proc'[p].credential.session = s
          BY <2>4, <3>2 DEF Turned
        <4> QED
          BY <3>2, <4>1 DEF Owned
      <3>3. CASE q = p /\ ~Issued(proc[p])'
        BY <1>6, <2>4, <3>3 DEF Owned
      <3> QED
        BY <3>1, <3>2, <3>3
    <2> QED
      BY <2>1, <2>2, <2>3, <2>4 DEF Owned
  <1> QED
    BY <1>0, <1>3, <1>4, <1>5, <1>6 DEF HoldInv

LEMMA HoldQuiet ==
  ASSUME BaseInv, TokensOK', DueInv, HoldInv, Undisturbed, NEW p \in Process, Turned(p),
         Settled(p), Ebbs("revoked"), UNCHANGED <<keyring, plaintext, clock>>,
         proc'[p].pc # "dead"
  PROVE  HoldInv'
PROOF
  <1>1. HandOver(p)
    BY DEF HoldInv
  <1>2. Issued(proc[p])' => refresh'[proc'[p].credential.token].status # "used"
    BY <1>1, IssuedKnown DEF Turned, HandOver, Ebbs
  <1>3. HandOver(p)'
    BY <1>2 DEF HandOver, Settled
  <1> QED
    BY <1>3, HoldStep DEF Settled

(* What was issued and is still good can be revoked. *)
LEMMA RevokeEnds ==
  ASSUME BaseInv, NEW s \in Session, NEW t \in Token, refresh[t].session_id = s,
         access[t].expires_at > clock, Revoke(t), UNCHANGED clock
  PROVE  /\ ~Live(s)' /\ (Lasts(s) => sessions'[s].status # "active")
         /\ Ebbs("revoked")
PROOF
  <1>1. access[t].session_id = s /\ (access[t].status = "active" <=> sessions[s].status = "active")
    BY Constants DEF BaseInv, TokensOK
  <1>2. CASE UNCHANGED serverVars
    <2>1. ~Live(s) \/ Usable(t)
      BY <1>1 DEF Usable, Live
    <2>2. Usable(t) => sessions'[s].status # "active"
      <3> SUFFICES ASSUME Usable(t) PROVE sessions'[s].status # "active"
        OBVIOUS
      <3>1. sessions[s].status = "active"
        BY <1>1 DEF Usable, Live
      <3>2. Server!RevokeCliSession(s)
        BY <1>1 DEF Revoke
      <3>3. Server!EndSession(s, "revoked")
        BY <3>1, <3>2 DEF Server!RevokeCliSession
      <3> QED
        BY <3>3, EndDoes DEF EndOf, BaseInv, TypeInv, CliTypeOK
    <2> QED
      BY <1>2, <2>1, <2>2, StillEbbs DEF serverVars, Live, Lasts
  <1>3. ASSUME NEW o \in Session, access[t].session_id = o, EndOf(o, "revoked")
        PROVE  sessions'[s].status # "active" /\ Ebbs("revoked")
    BY <1>1, <1>3, EndEbbs DEF EndOf
  <1> QED
    BY <1>2, <1>3, RevokeDoes DEF Live

(* A step that is neither a login nor a rotation. *)
LEMMA PlainStep ==
  ASSUME BaseInv, NEW p \in Process, Step(p), proc[p].pc \notin {"idle", "refresh"}
  PROVE  Turned(p) /\ Ebbs("revoked")
PROOF
  <1>1. ASSUME NEW s \in Session, NEW cmd \in {"login", "insecure"}
        PROVE  ~StartLogin(p, s, cmd)
    BY DEF StartLogin
  <1>2. ~Refresh(p) /\ ~RefreshLost(p)
    BY DEF Refresh, RefreshLost
  <1> QED
    BY <1>1, <1>2, StepTurns, StepServer

LEMMA NothingLost ==
  ASSUME BaseInv, Undisturbed'
  PROVE  ~Fault("lost") /\ ~Fault("crash")
PROOF
  <1>1. ASSUME NEW kind \in {"crash", "lost", "store"}, Fault(kind)
        PROVE  faults'[kind] > 0
    BY <1>1, FaultCounts DEF BaseInv, TypeInv, CliTypeOK
  <1> QED
    BY <1>1 DEF Undisturbed

(* What a process was issued and has saved is what is kept. *)
LEMMA SavedIsKept ==
  ASSUME BaseInv, OutInv, HoldInv, Undisturbed, NEW p \in Process, Issued(proc[p]),
         proc[p].pc \in {"save", "persisting"}, Ok(p), UNCHANGED <<keyring, plaintext, serverVars>>
  PROVE  /\ ~VisibleUsed'
         /\ \A s \in Session : s = proc[p].credential.session /\ Live(s)' => Kept(s)'
PROOF
  <1>1. Calm /\ CallExact(p) /\ HandOver(p) /\ CallOK(p)
    BY DEF Undisturbed, Calm, OutInv, HoldInv, BaseInv
  <1>2. Visible = proc[p].credential
    BY <1>1 DEF CallExact, CallOK, Ok
  <1>3. Visible' = Visible
    BY SameVisible
  <1>4. refresh[Visible.token].status # "used"
    BY <1>1, <1>2 DEF HandOver
  <1>5. /\ Visible.token \in Token /\ refresh[Visible.token].session_id = Visible.session
        /\ refresh[Visible.token].status # "none"
    BY <1>2, IssuedKnown
  <1>6. ASSUME NEW s \in Session, s = Visible.session, sessions[s].status = "active"
        PROVE  refresh[Visible.token].status = "active"
    BY <1>4, <1>5, <1>6 DEF BaseInv, TokensOK
  <1> QED
    BY <1>2, <1>3, <1>4, <1>6 DEF VisibleUsed, Kept, Live, serverVars

LEMMA HoldReturns ==
  ASSUME BaseInv, TokensOK', OutInv, DueInv, HoldInv, Undisturbed, Undisturbed', UNCHANGED clock,
         NEW p \in Process, Step(p),
         \/ CleanUpLogin(p) \/ SaveReturns(p) \/ RevokeUnsaved(p)
         \/ StoreReturns(p) /\ proc[p].pc = "persisting" /\ Ok(p)
  PROVE  HoldInv'
PROOF
  <1>0. /\ TypeInv /\ CliTypeOK /\ ProcOK(p) /\ HandOver(p) /\ InTime(p)
    BY DEF BaseInv, TypeInv, HoldInv, DueInv
  <1>1. CASE CleanUpLogin(p)
    <2>1. /\ proc[p].pc = "cleanup" /\ Ends(p) /\ UNCHANGED <<keyring, plaintext>>
          /\ Revoke(proc[p].using)
      BY <1>1, NothingLost DEF CleanUpLogin, LocalOnly
    <2>2. Issued(proc[p]) /\ proc[p].using = proc[p].credential.token
      BY <1>0, <2>1 DEF Issued, Unkept, ProcOK
    <2>3. PICK s \in Session : s = proc[p].credential.session
      BY <2>2, IssuedKnown
    <2>4. PICK t \in Token : t = proc[p].credential.token
      BY <2>2, IssuedKnown
    <2>5. refresh[t].session_id = s /\ access[t].expires_at > clock /\ Revoke(t)
      BY <1>0, <2>1, <2>2, <2>3, <2>4, IssuedKnown DEF InTime
    <2>6. ~Live(s)'
      BY <2>5, RevokeEnds
    <2>7. proc'[p].pc = "done"
      BY <1>0, <2>1, Turn DEF Becomes
    <2>8. HandOver(p)'
      BY <2>7 DEF HandOver, Issued, Unkept
    <2>9. Turned(p) /\ Ebbs("revoked")
      BY <2>1, PlainStep
    <2> QED
      BY <2>1, <2>3, <2>6, <2>7, <2>8, <2>9, HoldStep
  <1>2. CASE SaveReturns(p)
    <2>1. /\ proc[p].pc = "save" /\ UNCHANGED <<keyring, plaintext, serverVars>>
          /\ \/ /\ Ok(p)
                /\ \E next \in {"use", "retry"} :
                     Becomes(p, proc[p].cmd, "release", proc[p].goal, next, proc[p].credential, p,
                             proc[p].displaced)
             \/ ~Ok(p) /\ Turns(p, "unsaved", proc[p].goal, proc[p].next)
      BY <1>0, <1>2, SaveReturnsDoes DEF Return, StoreOnly
    <2>2. Turned(p) /\ Ebbs("revoked")
      BY <2>1, PlainStep
    <2>3. CASE Ok(p)
      <3>1. proc'[p].pc = "release" /\ proc'[p].next \in {"use", "retry"}
        BY <2>1, <2>3 DEF Becomes
      <3>2. HandOver(p)'
        BY <3>1 DEF HandOver, Issued, Unkept
      <3>3. Issued(proc[p])
        BY <2>1 DEF Issued
      <3>4. /\ ~VisibleUsed'
            /\ \A s \in Session : s = proc[p].credential.session /\ Live(s)' => Kept(s)'
        BY <2>1, <2>3, <3>3, SavedIsKept
      <3> QED
        BY <2>1, <2>2, <3>1, <3>2, <3>4, HoldStep
    <2>4. CASE ~Ok(p)
      <3>1. /\ proc'[p].pc = "unsaved" /\ proc'[p].credential = proc[p].credential
        BY <2>1, <2>4 DEF Turns, Becomes
      <3>2. Visible' = Visible
        BY <2>1, SameVisible
      <3>3. HandOver(p)' /\ Issued(proc[p])'
        BY <1>0, <2>1, <3>1, <3>2 DEF HandOver, Issued, serverVars
      <3> QED
        BY <2>1, <2>2, <3>1, <3>3, HoldStep
    <2> QED
      BY <2>3, <2>4
  <1>3. CASE RevokeUnsaved(p)
    <2>1. /\ proc[p].pc = "unsaved" /\ Turns(p, "discard", proc[p].goal, "done")
          /\ UNCHANGED <<keyring, plaintext>> /\ Revoke(p)
      BY <1>0, <1>3, RevokeUnsavedDoes, NothingLost
    <2>2. Issued(proc[p]) /\ proc[p].credential.token = p /\ p \in Token
      BY <1>0, <2>1 DEF Issued, ProcOK, Token
    <2>3. PICK s \in Session : s = proc[p].credential.session
      BY <2>2, IssuedKnown
    <2>4. refresh[p].session_id = s /\ access[p].expires_at > clock
      BY <1>0, <2>2, <2>3, IssuedKnown DEF InTime
    <2>5. sessions'[s].status # "active"
      <3>1. Lasts(s)
        BY <2>1, <2>3 DEF DueInv, Lasting
      <3> QED
        BY <2>1, <2>2, <2>4, <3>1, RevokeEnds
    <2>6. Visible' = Visible /\ Visible.session = s
      BY <1>0, <2>1, <2>3, SameVisible DEF HandOver
    <2>7. ~VisibleUsed'
      <3>1. /\ Visible.token \in Token /\ refresh[Visible.token].session_id = s
        BY <2>6, VisibleKnown, Constants
      <3>2. Turned(p) /\ Ebbs("revoked")
        BY <2>1, PlainStep
      <3>3. refresh'[Visible.token].session_id = s
        BY <3>1, <3>2 DEF Ebbs
      <3> QED
        BY <2>5, <2>6, <3>1, <3>3 DEF VisibleUsed, TokensOK
    <2>8. proc'[p].pc = "discard"
      BY <2>1 DEF Turns, Becomes
    <2>9. HandOver(p)'
      BY <2>5, <2>6, <2>8 DEF HandOver, Issued, Unkept, Kept, Live
    <2>10. Turned(p) /\ Ebbs("revoked")
      BY <2>1, PlainStep
    <2> QED
      BY <2>1, <2>3, <2>5, <2>7, <2>8, <2>9, <2>10, HoldStep DEF Live
  <1>4. CASE StoreReturns(p) /\ proc[p].pc = "persisting" /\ Ok(p)
    <2>1. UNCHANGED <<keyring, plaintext, serverVars>> /\ Leaves(p, "done")
      BY <1>4 DEF StoreReturns, Return
    <2>2. Turned(p) /\ Ebbs("revoked")
      BY <1>4, PlainStep
    <2>3. proc'[p].pc = "release" /\ proc'[p].next = "done"
      BY <1>0, <2>1, Turn DEF Turns, Becomes
    <2>4. HandOver(p)' /\ Issued(proc[p])
      BY <1>4, <2>3 DEF HandOver, Issued, Unkept
    <2>5. \A s \in Session : s = proc[p].credential.session /\ Live(s)' => Kept(s)'
      BY <1>4, <2>1, <2>4, SavedIsKept
    <2> QED
      BY <1>4, <2>1, <2>2, <2>3, <2>4, <2>5, HoldStep
  <1> QED
    BY <1>1, <1>2, <1>3, <1>4

LEMMA HoldCalls ==
  ASSUME BaseInv, TokensOK', LockInv, OutInv, DueInv, HoldInv, Undisturbed, Undisturbed',
         UNCHANGED clock, NEW p \in Process, Step(p),
         \/ Clear(p) \/ PersistLogin(p)
         \/ (Refresh(p) /\ ~Rotates(proc[p].credential.token))
  PROVE  HoldInv'
PROOF
  <1>0. /\ TypeInv /\ CliTypeOK /\ ProcOK(p) /\ HandOver(p)
    BY DEF BaseInv, TypeInv, HoldInv
  <1>1. CASE Clear(p)
    <2>1. /\ proc[p].pc = "clear" /\ UNCHANGED <<keyring, plaintext>>
          /\ \/ Becomes(p, proc[p].cmd, "clearing", proc[p].goal, proc[p].next,
                        proc[p].credential, proc[p].using, Visible.session)
             \/ Turns(p, "release", proc[p].goal, "done")
      BY <1>0, <1>1, ClearDoes, ReadDoes
    <2>2. /\ \/ proc'[p].pc = "clearing" /\ proc'[p].displaced = Visible.session
             \/ proc'[p].pc = "release" /\ proc'[p].next = "done"
      BY <2>1 DEF Turns, Becomes
    <2>3. Visible' = Visible
      BY <2>1, SameVisible
    <2>4. HandOver(p)' /\ ~Issued(proc[p])
      BY <2>1, <2>2, <2>3 DEF HandOver, Issued, Unkept
    <2>5. Turned(p) /\ Ebbs("revoked")
      BY <2>1, PlainStep
    <2> QED
      BY <2>1, <2>2, <2>4, <2>5, HoldStep
  <1>2. CASE PersistLogin(p)
    <2>1. /\ proc[p].pc = "persist" /\ UNCHANGED <<keyring, plaintext, serverVars>>
          /\ Becomes(p, proc[p].cmd, "persisting", proc[p].goal, proc[p].next,
                     proc[p].credential, proc[p].using, Visible.session)
      BY <1>0, <1>2, PersistLoginDoes DEF StoreOnly
    <2>2. /\ proc'[p].pc = "persisting" /\ proc'[p].displaced = Visible.session
          /\ proc'[p].credential = proc[p].credential
      BY <2>1 DEF Becomes
    <2>3. Visible' = Visible
      BY <2>1, SameVisible
    <2>4. HandOver(p)' /\ Issued(proc[p])'
      BY <1>0, <2>1, <2>2, <2>3 DEF HandOver, Issued, Unkept, serverVars
    <2>5. Turned(p) /\ Ebbs("revoked")
      BY <2>1, PlainStep
    <2> QED
      BY <2>1, <2>2, <2>4, <2>5, HoldStep
  <1>3. CASE Refresh(p) /\ ~Rotates(proc[p].credential.token)
    <2>1. /\ proc[p].pc = "refresh" /\ UNCHANGED <<keyring, plaintext>>
          /\ \E next \in {"clear", "done"} : Turns(p, "discard", proc[p].goal, next)
      BY <1>0, <1>3, RefreshDoes
    <2>2. proc[p].credential = Visible /\ Visible # NoCredential
      BY <1>0, <2>1 DEF OutInv, RefreshOK, Undisturbed, Calm, ProcOK
    <2>3. PICK t \in Token : t = Visible.token
      BY <2>2, VisibleGenuine DEF Genuine
    <2>4. refresh[t].status # "used"
      <3>1. \A q \in Process : proc[q].pc \notin {"save", "unsaved"}
        BY <2>1, Alone DEF SectionAt, Undisturbed, Calm
      <3> QED
        BY <2>2, <2>3, <3>1 DEF HoldInv, VisibleUsed
    <2>5. Turned(p) /\ Ebbs("revoked")
      <3>1. \A s \in Session, cmd \in {"login", "insecure"} : ~StartLogin(p, s, cmd)
        BY <2>1 DEF StartLogin
      <3>2. ~Rotates(t)
        BY <1>3, <2>2, <2>3
      <3>3. Turned(p)
        BY <1>3, <3>1, StepTurns
      <3> QED
        BY <2>2, <2>3, <2>4, <3>1, <3>2, <3>3, StepServer
    <2>6. Visible' = Visible
      BY <2>1, SameVisible
    <2>7. ASSUME NEW s \in Session, Live(s)', Kept(s)'
          PROVE  FALSE
      <3>1. Visible.session = s /\ refresh'[t].status = "active"
        BY <2>3, <2>6, <2>7 DEF Kept
      <3>2. refresh[t].session_id = s /\ access[t].session_id = s
        BY <2>3, <3>1, VisibleKnown, Constants DEF BaseInv, TokensOK
      <3>3. Live(s) /\ refresh[t].status = "active"
        BY <2>5, <2>7, <3>1, <3>2, EbbKeeps
      <3>4. Rotates(t)
        BY <3>2, <3>3 DEF Rotates
      <3> QED
        BY <1>3, <2>2, <2>3, <3>4
    <2>8. proc'[p].pc = "discard"
      BY <2>1 DEF Turns, Becomes
    <2>9. HandOver(p)' /\ ~Issued(proc[p])
      BY <2>1, <2>7, <2>8 DEF HandOver, Issued, Unkept
    <2> QED
      BY <2>1, <2>5, <2>8, <2>9, HoldStep
  <1> QED
    BY <1>1, <1>2, <1>3

(* The refresh token is rotated: the old one is visible and used up, the    *)
(* new one is in the hands of p.                                            *)
LEMMA HoldRotates ==
  ASSUME BaseInv, LockInv, OutInv, DueInv, HoldInv, Undisturbed, UNCHANGED clock,
         NEW p \in Process, Refresh(p), Rotates(proc[p].credential.token)
  PROVE  HoldInv'
PROOF
  <1>0. /\ TypeInv /\ CliTypeOK /\ ProcOK(p) /\ Calm
        /\ \A q \in Process : HandOver(q) /\ LoginOK(q) /\ RefreshOK(q)
        /\ \A s \in Session : sessions[s].status # "compromised"
        /\ \A s \in Session : Live(s) => Owned(s)
    BY DEF BaseInv, TypeInv, HoldInv, OutInv, Undisturbed, Calm
  <1>1. /\ proc[p].pc = "refresh" /\ ServerRefreshes(p) /\ UNCHANGED <<keyring, plaintext>>
        /\ Becomes(p, proc[p].cmd, "save", proc[p].goal, proc[p].next,
                   CredentialOf(proc[p].credential.session, p, clock),
                   proc[p].using, proc[p].displaced)
    BY <1>0, RefreshDoes
  <1>2. proc[p].credential = Visible /\ Visible # NoCredential
    BY <1>0, <1>1 DEF RefreshOK, ProcOK
  <1>3. PICK t \in Token, o \in Session : t = Visible.token /\ o = Visible.session
    BY <1>2, VisibleGenuine DEF Genuine
  <1>4. Rotation(t, p) /\ refresh[t].session_id = o
    BY <1>1, <1>2, <1>3, ServerRefreshesDoes, VisibleGenuine DEF Genuine
  <1>5. /\ proc'[p].pc = "save" /\ proc'[p].credential.session = o
        /\ proc'[p].credential.token = p /\ proc'[p].displaced = proc[p].displaced
        /\ \A q \in Process \ {p} : proc'[q] = proc[q]
    BY <1>1, <1>2, <1>3 DEF Becomes, CredentialOf
  <1>6. Visible' = Visible
    BY <1>1, SameVisible
  <1>7. HandOver(p)'
    BY <1>3, <1>4, <1>5, <1>6 DEF HandOver, Rotation, Issued
  <1>8. ASSUME NEW q \in Process \ {p}
        PROVE  HandOver(q)'
    <2>1. proc[q].pc \notin SectionAt
      BY <1>0, <1>1, Alone DEF SectionAt
    <2>2. ASSUME Issued(proc[q])
          PROVE  refresh'[proc[q].credential.token].status # "used"
      <3>1. proc[q].credential.session # o
        BY <1>0, <1>2, <1>3, <2>1, <2>2 DEF Issued, LoginOK, SectionAt
      <3>2. /\ proc[q].credential.token \in Token
            /\ refresh[proc[q].credential.token].session_id = proc[q].credential.session
            /\ refresh[proc[q].credential.token].status # "none"
            /\ refresh[proc[q].credential.token].status # "used"
        BY <1>0, <2>2, IssuedKnown DEF HandOver
      <3> QED
        BY <1>4, <3>1, <3>2 DEF Rotation, SameToken
    <2> QED
      BY <1>5, <2>1, <2>2 DEF HandOver, SectionAt
  <1>9. \A s \in Session : sessions'[s].status # "compromised"
    BY <1>0, <1>4 DEF Rotation, SameSession
  <1>10. ASSUME NEW s \in Session, Live(s)'
         PROVE  Owned(s)'
    <2>1. CASE s = o
      BY <1>5, <2>1 DEF Owned, Issued
    <2>2. CASE s # o
      <3>1. Live(s)
        BY <1>4, <1>10, <2>2 DEF Live, Rotation, SameSession
      <3>2. Owned(s) /\ ~Kept(s)
        BY <1>0, <1>3, <2>2, <3>1 DEF Kept
      <3>3. ~Issued(proc[p])
        BY <1>1 DEF Issued, Unkept
      <3> QED
        BY <1>5, <3>2, <3>3 DEF Owned
    <2> QED
      BY <2>1, <2>2
  <1> QED
    BY <1>5, <1>7, <1>8, <1>9, <1>10 DEF HoldInv

LEMMA HoldStarts ==
  ASSUME BaseInv, OutInv, DueInv, HoldInv, Undisturbed, UNCHANGED clock, NEW p \in Process,
         NEW s \in Session, NEW cmd \in {"login", "insecure"}, StartLogin(p, s, cmd)
  PROVE  HoldInv'
PROOF
  <1>0. /\ TypeInv /\ CliTypeOK /\ TokensOK
        /\ \A q \in Process : HandOver(q)
        /\ \A o \in Session : sessions[o].status # "compromised"
        /\ VisibleUsed => \E q \in Process : proc[q].pc \in {"save", "unsaved"}
        /\ \A o \in Session : Live(o) => Owned(o)
    BY DEF BaseInv, TypeInv, HoldInv
  <1>1. /\ proc[p].pc = "idle" /\ Server!ExchangeDeviceAuthorization(s, s, clock)
        /\ UNCHANGED <<keyring, plaintext>>
        /\ Becomes(p, cmd, "validate", proc[p].goal, proc[p].next, CredentialOf(s, s, clock), s,
                   proc[p].displaced)
    BY <1>0, StartLoginDoes DEF storeVars
  <1>2. Exchanges(s)
    BY <1>0, <1>1, ExchangeDoes DEF CliTypeOK
  <1>3. /\ proc'[p].pc = "validate" /\ proc'[p].credential.session = s
        /\ proc'[p].credential.token = s /\ proc'[p].displaced = proc[p].displaced
        /\ \A q \in Process \ {p} : proc'[q] = proc[q]
    BY <1>1 DEF Becomes, CredentialOf
  <1>4. Visible' = Visible
    BY <1>1, SameVisible
  <1>5. Visible.session # s /\ (Visible # NoCredential => Visible.token \in Token)
    BY <1>2, VisibleKnown, Constants, VisibleGenuine DEF Exchanges, Genuine
  <1>6. ASSUME NEW t \in Token, NEW o \in Session, refresh[t].session_id = o,
               sessions[o].status # "none"
        PROVE  refresh'[t].status = refresh[t].status
    <2>1. t # s
      BY <1>0, <1>2, <1>6, Constants DEF TokensOK, Exchanges
    <2> QED
      BY <1>2, <2>1 DEF Exchanges, SameToken
  <1>7. Visible # NoCredential => refresh'[Visible.token].status = refresh[Visible.token].status
    <2> SUFFICES ASSUME Visible # NoCredential
                 PROVE  refresh'[Visible.token].status = refresh[Visible.token].status
      OBVIOUS
    <2>1. Visible.session \in Session
      BY VisibleGenuine DEF Genuine
    <2> QED
      BY <1>6, <2>1, VisibleKnown, Constants
  <1>8. \A o \in Session : Kept(o)' <=> Kept(o)
    <2>1. ASSUME NEW o \in Session, Visible.session = o
          PROVE  Visible # NoCredential
      BY <2>1, VisibleKnown, Constants
    <2> QED
      BY <1>4, <1>7, <2>1 DEF Kept
  <1>9. \A o \in Session \ {s} : Live(o)' => Live(o)
    BY <1>2 DEF Live, Exchanges, SameSession
  <1>10. HandOver(p)'
    BY <1>2, <1>3 DEF HandOver, Exchanges, Issued
  <1>11. ASSUME NEW q \in Process \ {p}
         PROVE  HandOver(q)'
    <2>1. Issued(proc[q]) => refresh'[proc[q].credential.token].status # "used"
      BY <1>0, <1>6, IssuedKnown DEF HandOver
    <2>2. ~Kept(s)
      BY <1>5 DEF Kept
    <2>3. proc'[q] = proc[q] /\ HandOver(q)
      BY <1>0, <1>3
    <2> QED
      BY <1>4, <1>8, <1>9, <2>1, <2>2, <2>3 DEF HandOver
  <1>12. \A o \in Session : sessions'[o].status # "compromised"
    BY <1>0, <1>2 DEF Exchanges, SameSession
  <1>13. VisibleUsed' => \E q \in Process : proc'[q].pc \in {"save", "unsaved"}
    BY <1>0, <1>1, <1>3, <1>4, <1>7 DEF VisibleUsed
  <1>14. ASSUME NEW o \in Session, Live(o)'
         PROVE  Owned(o)'
    <2>1. CASE o = s
      BY <1>3, <2>1 DEF Owned, Issued, Unkept
    <2>2. CASE o # s
      <3>1. Owned(o) /\ ~Issued(proc[p])
        BY <1>0, <1>1, <1>9, <1>14, <2>2 DEF Issued, Unkept
      <3> QED
        BY <1>3, <1>8, <3>1 DEF Owned
    <2> QED
      BY <2>1, <2>2
  <1> QED
    BY <1>10, <1>11, <1>12, <1>13, <1>14 DEF HoldInv

LEMMA HoldStoreStep ==
  ASSUME BaseInv, LockInv, OutInv, HoldInv, Undisturbed, NEW p \in Process, StoreStep(p)
  PROVE  HoldInv'
PROOF
  <1>0. /\ Calm /\ {} \notin Session /\ NoCredential.session = {}
        /\ \A q \in Process : HandOver(q)
        /\ \A s \in Session : sessions[s].status # "compromised"
        /\ VisibleUsed => \E q \in Process : proc[q].pc \in {"save", "unsaved"}
        /\ \A s \in Session : Live(s) => Owned(s)
    BY Constants DEF HoldInv, Undisturbed, Calm, NoCredential
  <1>1. UNCHANGED <<serverVars, proc, clock>>
    BY DEF StoreStep
  <1>2. /\ proc[p].pc \in {"save", "persisting", "discard", "clearing"}
        /\ \/ Visible' = Visible
           \/ Visible' = NoCredential /\ proc[p].pc \in {"discard", "clearing"}
           \/ Visible' = proc[p].credential /\ proc[p].pc \in {"save", "persisting"}
    BY <1>0, StoreStepExact, SameVisible DEF Calling4
  <1>3. \A s \in Session : Live(s)' <=> Live(s)
    BY <1>1 DEF Live, serverVars
  <1>4. HandOver(p)'
    BY <1>0, <1>1, <1>2, <1>3 DEF HandOver, Kept, serverVars
  <1>5. ASSUME NEW q \in Process \ {p}
        PROVE  HandOver(q)'
    <2>1. proc[q].pc \notin {"save", "unsaved", "clearing", "persisting", "discard"}
      BY <1>0, <1>2, OthersWait DEF SectionAt
    <2> QED
      BY <1>0, <1>1, <2>1 DEF HandOver, serverVars
  <1>6. VisibleUsed' => VisibleUsed
    <2>1. proc[p].pc \in {"save", "persisting"} =>
            refresh[proc[p].credential.token].status # "used"
      BY <1>0 DEF HandOver, Issued, Unkept
    <2> QED
      BY <1>1, <1>2, <2>1 DEF VisibleUsed, serverVars
  <1>7. ASSUME NEW s \in Session, Live(s)
        PROVE  Owned(s)'
    <2>1. ASSUME Kept(s)
          PROVE  Owned(s)'
      <3>1. CASE Visible' = Visible
        BY <1>1, <2>1, <3>1 DEF Owned, Kept, serverVars
      <3>2. CASE Visible' = NoCredential /\ proc[p].pc \in {"discard", "clearing"}
        <4>1. proc[p].pc = "clearing" /\ proc[p].displaced = s
          BY <1>0, <1>7, <2>1, <3>2 DEF HandOver, Kept
        <4> QED
          BY <1>1, <4>1 DEF Owned
      <3>3. CASE proc[p].pc \in {"save", "persisting"}
        <4>1. proc[p].displaced = s \/ proc[p].credential.session = s
          BY <1>0, <2>1, <3>3 DEF HandOver, Kept
        <4>2. Issued(proc[p])
          BY <3>3 DEF Issued, Unkept
        <4> QED
          BY <1>1, <4>1, <4>2 DEF Owned
      <3> QED
        BY <1>2, <3>1, <3>2, <3>3
    <2> QED
      BY <1>0, <1>1, <1>7, <2>1 DEF Owned
  <1> QED
    BY <1>0, <1>1, <1>3, <1>4, <1>5, <1>6, <1>7 DEF HoldInv, serverVars

LEMMA HoldNext == BaseInv /\ LockInv /\ OutInv /\ DueInv /\ HoldInv /\ [Next]_vars => HoldInv'
PROOF
  <1> SUFFICES ASSUME BaseInv, LockInv, OutInv, DueInv, HoldInv, [Next]_vars, Undisturbed'
               PROVE  HoldInv'
    BY DEF HoldInv
  <1>0. Undisturbed /\ TypeInv /\ CliTypeOK /\ TokensOK'
    BY CalmBefore, BaseNext DEF BaseInv, TypeInv, CliTypeOK
  <1>1. ASSUME UNCHANGED <<proc, keyring, plaintext, serverVars>>, clock' \in {clock, clock + 1}
        PROVE  HoldInv'
    <2>1. Visible' = Visible
      BY <1>1, SameVisible
    <2>2. ASSUME NEW s \in Session, Live(s)'
          PROVE  Live(s)
      <3>1. /\ sessions[s].idle_expires_at \in Nat /\ sessions[s].absolute_expires_at \in Nat
            /\ clock \in Nat
        BY <1>0 DEF CliTypeOK, ServerTypeOK, SessionRow
      <3> QED
        BY <1>1, <2>2, <3>1 DEF Live, serverVars
    <2>3. \A q \in Process : HandOver(q)'
      BY <1>0, <1>1, <2>1, <2>2 DEF HoldInv, HandOver, Kept, serverVars
    <2>4. \A s \in Session : Live(s)' => Owned(s)'
      BY <1>0, <1>1, <2>1, <2>2 DEF HoldInv, Owned, Kept, serverVars
    <2> QED
      BY <1>0, <1>1, <2>1, <2>3, <2>4 DEF HoldInv, VisibleUsed, serverVars
  <1>2. CASE Tick \/ UNCHANGED vars
    BY <1>1, <1>2 DEF Tick, vars, storeVars
  <1>3. ASSUME NEW p \in Process, Step(p)
        PROVE  HoldInv'
    <2>0. ~Fault("lost") /\ ~Fault("crash")
      BY NothingLost
    <2>1. UNCHANGED clock
      BY <1>3 DEF Step, StartCommand, StartLogin, ValidateLogin, CleanUpLogin, TakeLock, WaitForLock,
         GiveUp, ReleaseLock, Resolve, Renew, Refresh, RefreshLost, SaveReturns, RevokeUnsaved,
         DiscardReturns, UseToken, UseLost, ReadForLogout, Clear, PersistLogin, StoreReturns,
         StoreStep, ReadThrows, Crash, StoreOnly
    <2>2. CASE Quiet(p)
      <3>1. Turned(p) /\ Settled(p)
        BY <2>2, QuietTurns
      <3>2. UNCHANGED <<keyring, plaintext>>
        BY <2>2 DEF Quiet, StartCommand, ValidateLogin, TakeLock, WaitForLock, GiveUp, ReleaseLock,
           Resolve, Renew, ReadForLogout, DiscardReturns, UseToken, StoreReturns, Return, Read,
           ReadThrows, ReadFails, LocalOnly, storeVars
      <3>3. proc[p].pc # "refresh" /\ ~Refresh(p) /\ ~RefreshLost(p)
        BY <2>2 DEF Quiet, StartCommand, ValidateLogin, TakeLock, WaitForLock, GiveUp, ReleaseLock,
           Resolve, Renew, ReadForLogout, DiscardReturns, UseToken, StoreReturns, ReadThrows,
           Refresh, RefreshLost
      <3>4. CASE \E s \in Session, cmd \in {"login", "insecure"} : StartLogin(p, s, cmd)
        BY <1>0, <2>1, <3>4, HoldStarts
      <3>5. CASE Ebbs("revoked")
        <4>1. proc'[p].pc # "dead"
          BY <3>1 DEF Settled
        <4> QED
          BY <1>0, <2>1, <3>1, <3>2, <3>5, <4>1, HoldQuiet
      <3> QED
        BY <1>3, <3>3, <3>4, <3>5, StepServer
    <2>3. CASE \/ CleanUpLogin(p) \/ SaveReturns(p) \/ RevokeUnsaved(p)
               \/ StoreReturns(p) /\ proc[p].pc = "persisting" /\ Ok(p)
      BY <1>0, <1>3, <2>1, <2>3, HoldReturns
    <2>4. CASE Clear(p) \/ PersistLogin(p) \/ Refresh(p)
      <3>1. CASE \/ Clear(p) \/ PersistLogin(p)
                   \/ (Refresh(p) /\ ~Rotates(proc[p].credential.token))
        BY <1>0, <1>3, <2>1, <3>1, HoldCalls
      <3>2. CASE Refresh(p) /\ Rotates(proc[p].credential.token)
        BY <1>0, <2>1, <3>2, HoldRotates
      <3> QED
        BY <2>4, <3>1, <3>2
    <2>5. CASE \E s \in Session, cmd \in {"login", "insecure"} : StartLogin(p, s, cmd)
      BY <1>0, <2>1, <2>5, HoldStarts
    <2>6. CASE StoreStep(p)
      BY <1>0, <2>6, HoldStoreStep
    <2>7. ~UseLost(p) /\ ~RefreshLost(p) /\ ~Crash(p)
      BY <2>0 DEF UseLost, RefreshLost, Crash
    <2> QED
      BY <1>3, <2>2, <2>3, <2>4, <2>5, <2>6, <2>7 DEF Step, Quiet
  <1> QED
    BY <1>2, <1>3 DEF Next

LEMMA AllInv == Spec => [](BaseInv /\ LockInv /\ OutInv /\ DueInv /\ HoldInv)
PROOF
  <1> DEFINE All == BaseInv /\ LockInv /\ OutInv /\ DueInv /\ HoldInv
  <1>1. Init => All
    BY BaseInit, LockInit, OutInit, DueInit, HoldInit
  <1>2. All /\ [Next]_vars => All'
    BY BaseNext, LockNext, OutNext, DueNext, HoldNext
  <1> QED
    BY <1>1, <1>2, PTL DEF Spec

(* Refreshing under the lock against strict reuse detection: while no process *)
(* crashes and no answer is lost, the processes of one user never present a   *)
(* refresh token that was used before, and no session is compromised.         *)
THEOREM NoSelfInflictedReuseHolds == Spec => []NoSelfInflictedReuse
PROOF
  <1>1. HoldInv => NoSelfInflictedReuse
    BY DEF HoldInv, NoSelfInflictedReuse
  <1> QED
    BY <1>1, AllInv, PTL

(* refreshCredential and the logins: once no command runs, a live session was *)
(* displaced by a command of the user, or its unused refresh token is the one *)
(* in the store, whatever the keyring and the file did.                       *)
THEOREM SessionsStayManageableHolds == Spec => []SessionsStayManageable
PROOF
  <1>1. ASSUME HoldInv, Undisturbed, AtRest, NEW s \in Session, Live(s),
               \A p \in Process : proc[p].displaced # s
        PROVE  Kept(s)
    <2>1. \A p \in Process : ~Issued(proc[p])
      BY <1>1 DEF AtRest, Issued, Unkept
    <2> QED
      BY <1>1, <2>1 DEF HoldInv, Owned
  <1>2. HoldInv => SessionsStayManageable
    BY <1>1 DEF SessionsStayManageable, Kept
  <1> QED
    BY <1>2, AllInv, PTL
=============================================================================
