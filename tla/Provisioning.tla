----------------------------- MODULE Provisioning -----------------------------
(***************************************************************************)
(* The sign-in of a browser: Better Auth finds or creates its user with    *)
(* the provider's account, in a D1 without transactions, and before it     *)
(* stores the session provisionBrowserSession finds or creates the domain  *)
(* account, the identity of the provider's subject and the mapping of the  *)
(* user.  A sign-in is a browser with a subject that tries again and again.*)
(***************************************************************************)
EXTENDS Integers, FiniteSets

CONSTANTS
  SignIn,             \* browsers that sign in
  Subject,            \* provider subjects
  Email,
  SubjectOf, EmailOf, \* whose browser it is, and the address the provider tells
  User, Account,      \* ids to be generated
  None, Unread,       \* no row, and not read yet
  MaxFaults,
  MaxRemovals         \* users removed by hand

ASSUME ProvisioningAssumption ==
  /\ SubjectOf \in [SignIn -> Subject] /\ EmailOf \in [Subject -> Email]
  /\ {MaxFaults, MaxRemovals} \subseteq Nat
  /\ None \notin User \cup Account \cup Subject /\ Unread \notin Account \cup {None}

VARIABLES
  users,              \* Better Auth: "user" rows by id, with their age
  link,               \* "account": the subject of each user
  sessions,           \* "session": users with a browser session
  accounts,           \* the domain's accounts
  identity,           \* identities: the account of each subject
  mapping,            \* better_auth_account_mappings: the user of each account
  browser,            \* where each sign-in stands
  faults, removals,
  crossed             \* a user was removed while it was signing in

rows == <<users, link, sessions>>
domain == <<accounts, identity, mapping>>
vars == <<rows, domain, browser, faults, removals, crossed>>

UserRow == [email : Email, age : {"new", "old"}]
ASSUME RowAssumption == None \notin UserRow
Browser ==
  [pc : {"idle", "link", "email", "orphan", "user", "account", "undo", "profile", "read", "decide", "session"},
   user : User \cup {None}, retried : BOOLEAN,
   mapped : Account \cup {None, Unread}, identified : Account \cup {None, Unread}]
Idle == [pc |-> "idle", user |-> None, retried |-> FALSE, mapped |-> Unread, identified |-> Unread]

TypeOK ==
  /\ users \in [User -> UserRow \cup {None}]
  /\ link \in [User -> Subject \cup {None}]
  /\ sessions \subseteq User
  /\ accounts \subseteq Account
  /\ identity \in [Subject -> Account \cup {None}]
  /\ mapping \in [Account -> User \cup {None}]
  /\ browser \in [SignIn -> Browser]
  /\ faults \in 0 .. MaxFaults /\ removals \in 0 .. MaxRemovals /\ crossed \in BOOLEAN

Init ==
  /\ users = [u \in User |-> None] /\ link = [u \in User |-> None]
  /\ sessions = {} /\ accounts = {}
  /\ identity = [p \in Subject |-> None] /\ mapping = [a \in Account |-> None]
  /\ browser = [s \in SignIn |-> Idle]
  /\ faults = 0 /\ removals = 0 /\ crossed = FALSE

Exists(u) == users[u] # None
At(s, pc) == browser[s].pc = pc
Goes(s, pc) == browser' = [browser EXCEPT ![s].pc = pc]
GoesWith(s, pc, u) == browser' = [browser EXCEPT ![s].pc = pc, ![s].user = u]
Gives(s) == browser' = [browser EXCEPT ![s] = Idle]
Still == UNCHANGED <<faults, removals, crossed>>

Delete(u) ==                          \* the rows of the user go with it
  /\ users' = [users EXCEPT ![u] = None] /\ link' = [link EXCEPT ![u] = None]
  /\ sessions' = sessions \ {u}

(***************************************************************************)
(* Better Auth's part of the callback.                                     *)
(***************************************************************************)
Begin(s) == At(s, "idle") /\ Goes(s, "link") /\ UNCHANGED <<rows, domain>> /\ Still

FindLink(s) ==
  /\ At(s, "link")
  /\ LET found == {u \in User : link[u] = SubjectOf[s]} IN
       IF found = {} THEN Goes(s, "email") ELSE \E u \in found : GoesWith(s, "profile", u)
  /\ UNCHANGED <<rows, domain>> /\ Still

\* Another user's address refuses the sign-in, unless it is old enough to be a leftover.
FindByEmail(s) ==
  /\ At(s, "email")
  /\ LET found == {u \in User : Exists(u) /\ users[u].email = EmailOf[SubjectOf[s]]} IN
       IF found = {} THEN Goes(s, "user")
       ELSE \E u \in found :
              IF users[u].age = "old" THEN GoesWith(s, "orphan", u) ELSE Gives(s)
  /\ UNCHANGED <<rows, domain>> /\ Still

MutantKeepOrphan(s) == At(s, "orphan") /\ Gives(s) /\ UNCHANGED <<rows, domain>> /\ Still

\* one conditional DELETE; no row deleted leaves the record found, and refuses
DeleteOrphan(s) ==
  /\ At(s, "orphan")
  /\ LET u == browser[s].user IN
       IF Exists(u) /\ link[u] = None /\ u \notin sessions
       THEN Delete(u) /\ GoesWith(s, "user", None) ELSE Gives(s) /\ UNCHANGED rows
  /\ UNCHANGED domain /\ Still

\* ids are generated: which unused one is taken makes no difference
Unused == {u \in User : ~Exists(u) /\ (\A a \in Account : mapping[a] # u)
                        /\ \A s \in SignIn : browser[s].user # u}
CreateUser(s) ==
  /\ At(s, "user")
  /\ IF \E u \in User : Exists(u) /\ users[u].email = EmailOf[SubjectOf[s]]
     THEN Gives(s) /\ UNCHANGED users
     ELSE /\ Unused # {}
          /\ LET u == CHOOSE v \in Unused : TRUE IN
            /\ users' = [users EXCEPT ![u] = [email |-> EmailOf[SubjectOf[s]], age |-> "new"]]
            /\ GoesWith(s, "account", u)
  /\ UNCHANGED <<link, sessions, domain>> /\ Still

CreateAccount(s) ==
  /\ At(s, "account")
  /\ IF Exists(browser[s].user)
     THEN link' = [link EXCEPT ![browser[s].user] = SubjectOf[s]] /\ Goes(s, "profile")
     ELSE Goes(s, "undo") /\ UNCHANGED link
  /\ UNCHANGED <<users, sessions, domain>> /\ Still

CreateAccountFails(s) ==
  /\ At(s, "account") /\ faults < MaxFaults
  /\ faults' = faults + 1 /\ Goes(s, "undo") /\ UNCHANGED <<rows, domain, removals, crossed>>

\* the compensation of the adapter
Compensate(s) ==
  /\ At(s, "undo")
  /\ Delete(browser[s].user) /\ Gives(s) /\ UNCHANGED domain /\ Still

(***************************************************************************)
(* provisionBrowserSession, called before the session is stored.           *)
(***************************************************************************)
ReadProfile(s) ==
  /\ At(s, "profile")
  /\ Goes(s, IF Exists(browser[s].user) /\ link[browser[s].user] # None THEN "read" ELSE "session")
  /\ UNCHANGED <<rows, domain>> /\ Still

MappedTo(u) == {a \in Account : mapping[a] = u}
Read(s) ==
  /\ At(s, "read")
  /\ \/ /\ browser[s].mapped = Unread
        /\ LET found == MappedTo(browser[s].user) IN
             browser' = [browser EXCEPT ![s].mapped = IF found = {} THEN None ELSE CHOOSE a \in found : TRUE]
     \/ /\ browser[s].identified = Unread
        /\ browser' = [browser EXCEPT ![s].identified = identity[SubjectOf[s]]]
     \/ /\ Unread \notin {browser[s].mapped, browser[s].identified}
        /\ Goes(s, "decide")
  /\ UNCHANGED <<rows, domain>> /\ Still

\* a UNIQUE constraint failed: everything is read again, once
Retries(s) ==
  IF browser[s].retried THEN Gives(s)
  ELSE browser' = [browser EXCEPT ![s] = [Idle EXCEPT !.pc = "read", !.user = browser[s].user, !.retried = TRUE]]

Found(s) == <<browser[s].mapped # None, browser[s].identified # None>>

Resolve(s) ==                         \* both are there
  /\ At(s, "decide") /\ Found(s) = <<TRUE, TRUE>>
  /\ IF browser[s].mapped = browser[s].identified THEN Goes(s, "session") ELSE Gives(s)
  /\ UNCHANGED <<rows, domain>> /\ Still

CreateIdentity(s) ==
  /\ At(s, "decide") /\ Found(s) = <<TRUE, FALSE>>
  /\ IF identity[SubjectOf[s]] = None
     THEN identity' = [identity EXCEPT ![SubjectOf[s]] = browser[s].mapped] /\ Goes(s, "session")
     ELSE Retries(s) /\ UNCHANGED identity
  /\ UNCHANGED <<rows, accounts, mapping>> /\ Still

MutantRebind(s) ==                    \* ON CONFLICT(account_id) DO NOTHING
  LET a == browser[s].identified IN
  /\ At(s, "decide") /\ Found(s) = <<FALSE, TRUE>>
  /\ IF MappedTo(browser[s].user) \subseteq {a}
     THEN /\ mapping' = [mapping EXCEPT ![a] = IF @ = None THEN browser[s].user ELSE @]
          /\ Goes(s, "session")
     ELSE Retries(s) /\ UNCHANGED mapping
  /\ UNCHANGED <<rows, accounts, identity>> /\ Still

Rebind(s) ==
  LET a == browser[s].identified IN
  /\ At(s, "decide") /\ Found(s) = <<FALSE, TRUE>>
  /\ IF MappedTo(browser[s].user) \subseteq {a}
     THEN mapping' = [mapping EXCEPT ![a] = browser[s].user] /\ Goes(s, "session")
     ELSE Retries(s) /\ UNCHANGED mapping
  /\ UNCHANGED <<rows, accounts, identity>> /\ Still

\* generated as well: there always is another one
NewAccount == CHOOSE a \in Account : a \notin accounts
MutantCreateInitial(s) ==             \* the three inserts are no batch
  /\ At(s, "decide") /\ Found(s) = <<FALSE, FALSE>>
  /\ LET a == NewAccount IN
       /\ accounts' = accounts \cup {a}
       /\ IF identity[SubjectOf[s]] = None /\ MappedTo(browser[s].user) = {}
          THEN /\ identity' = [identity EXCEPT ![SubjectOf[s]] = a]
               /\ mapping' = [mapping EXCEPT ![a] = browser[s].user]
               /\ Goes(s, "session")
          ELSE Retries(s) /\ UNCHANGED <<identity, mapping>>
  /\ UNCHANGED rows /\ Still

CreateInitial(s) ==
  /\ At(s, "decide") /\ Found(s) = <<FALSE, FALSE>>
  /\ IF identity[SubjectOf[s]] = None /\ MappedTo(browser[s].user) = {}
     THEN LET a == NewAccount IN
            /\ accounts # Account
            /\ accounts' = accounts \cup {a}
            /\ identity' = [identity EXCEPT ![SubjectOf[s]] = a]
            /\ mapping' = [mapping EXCEPT ![a] = browser[s].user]
            /\ Goes(s, "session")
     ELSE Retries(s) /\ UNCHANGED domain
  /\ UNCHANGED rows /\ Still

\* the session refers to the user
StoreSession(s) ==
  /\ At(s, "session")
  /\ sessions' = sessions \cup {u \in {browser[s].user} : Exists(u)}
  /\ Gives(s) /\ UNCHANGED <<users, link, domain>> /\ Still

(***************************************************************************)
(* A call fails or the isolate is lost: nothing cleans up after the sign-in*)
(* except the compensation of a failed insert.  Sessions end, leftovers    *)
(* grow old, and a user may be removed by hand.  A sign-in that creates a  *)
(* user inserts its account within the grace period.                       *)
(***************************************************************************)
Dies(s) ==
  /\ ~At(s, "idle") /\ faults < MaxFaults
  /\ faults' = faults + 1 /\ Gives(s) /\ UNCHANGED <<rows, domain, removals, crossed>>

EndSession(u) ==
  /\ u \in sessions /\ sessions' = sessions \ {u}
  /\ UNCHANGED <<users, link, domain, browser>> /\ Still

GrowOld(u) ==
  /\ Exists(u) /\ users[u].age = "new"
  /\ \A s \in SignIn : browser[s].user = u => browser[s].pc \notin {"account", "undo"}
  /\ users' = [users EXCEPT ![u].age = "old"]
  /\ UNCHANGED <<link, sessions, domain, browser>> /\ Still

RemoveUser(u) ==
  /\ Exists(u) /\ removals < MaxRemovals /\ removals' = removals + 1
  /\ crossed' = (crossed \/ \E s \in SignIn : browser[s].user = u)
  /\ Delete(u) /\ UNCHANGED <<domain, browser, faults>>

Step(s) ==
  \/ FindLink(s) \/ FindByEmail(s) \/ DeleteOrphan(s) \/ CreateUser(s)
  \/ CreateAccount(s) \/ Compensate(s)
  \/ ReadProfile(s) \/ Read(s) \/ Resolve(s) \/ CreateIdentity(s) \/ Rebind(s) \/ CreateInitial(s)
  \/ StoreSession(s)

Next ==
  \/ \E s \in SignIn : Begin(s) \/ Step(s) \/ CreateAccountFails(s) \/ Dies(s)
  \/ \E u \in User : EndSession(u) \/ GrowOld(u) \/ RemoveUser(u)

Spec == Init /\ [][Next]_vars

\* A handler runs on, a refused user tries again, and time passes.
Fairness ==
  /\ \A s \in SignIn : WF_vars(Begin(s) \/ Step(s))
  /\ \A u \in User : WF_vars(GrowOld(u))
FairSpec == Spec /\ Fairness

(***************************************************************************)
(* However sign-ins of one person overlap or break off, every account has  *)
(* its identity, and no two subjects come to share an account, be their    *)
(* addresses equal.                                                        *)
(***************************************************************************)
OneAccountPerSubject ==
  /\ \A a \in accounts : \E p \in Subject : identity[p] = a
  /\ \A p, q \in Subject : identity[p] = identity[q] => p = q \/ identity[p] = None

(***************************************************************************)
(* A browser session is stored only when the domain account is there: its  *)
(* user's subject has an identity with an account, which is mapped to this *)
(* very user, unless somebody removed a user in the middle of a sign-in.   *)
(***************************************************************************)
SessionsAreProvisioned ==
  \A u \in sessions :
    /\ link[u] # None /\ identity[link[u]] \in accounts
    /\ ~crossed => mapping[identity[link[u]]] = u

(***************************************************************************)
(* No failure locks an address out: whatever a broken sign-in leaves       *)
(* behind, somebody with that address is signed in again and again.        *)
(***************************************************************************)
NobodyIsLockedOut ==
  \A e \in Email : []<>(\E u \in sessions : users[u].email = e)
=============================================================================
