-------------------------- MODULE ProvisioningProofs --------------------------
(***************************************************************************)
(* The sign-ins of any number of browsers and persons, over a database     *)
(* without transactions: a subject has one account, and a session has its  *)
(* account.  What makes it work is that a user is of one subject, whoever  *)
(* says so (OneSubject): the row it is linked to, the browsers that sign   *)
(* in with it, or the account that is mapped to it.                        *)
(***************************************************************************)
EXTENDS Provisioning, TLAPS

Claims(u, p) ==
  \/ link[u] = p
  \/ \E s \in SignIn : browser[s].user = u /\ ~At(s, "orphan") /\ SubjectOf[s] = p
  \/ identity[p] # None /\ mapping[identity[p]] = u
OneSubject == \A u \in User, p, q \in Subject : Claims(u, p) /\ Claims(u, q) => p = q

(* The rows: an address has one user, a linked user has its subject's        *)
(* address, and a mapping or an identity names an account that exists.       *)
Named ==
  /\ \A a \in Account : mapping[a] # None => a \in accounts
  /\ \A p \in Subject : identity[p] # None => identity[p] \in accounts
AddressesUnique == \A u, v \in User :
  Exists(u) /\ Exists(v) /\ users[u].email = users[v].email => u = v
Linked == \A u \in User : link[u] # None => Exists(u) /\ users[u].email = EmailOf[link[u]]

(* Where a sign-in stands: it holds a user it is creating, or one it found. *)
CreatingAt == {"account", "undo"}
SigningAt  == {"profile", "read", "decide", "session"}
Creating(s) == browser[s].pc \in CreatingAt
Signing(s)  == browser[s].pc \in SigningAt

(* Nobody else knows of a user that is being created. *)
CreatedAlone == \A s \in SignIn : Creating(s) =>
  LET u == browser[s].user IN
  /\ u \in User /\ link[u] = None
  /\ \A a \in Account : mapping[a] # u
  /\ \A t \in SignIn \ {s} : browser[t].user # u
  /\ Exists(u) => users[u].email = EmailOf[SubjectOf[s]] /\ users[u].age = "new"

(* A user that is signed in is linked to the subject, unless it was removed. *)
SignedWith == \A s \in SignIn : Signing(s) =>
  LET u == browser[s].user IN
  /\ u \in User
  /\ Exists(u) => link[u] = SubjectOf[s]
  /\ ~crossed => Exists(u)

(* What a sign-in has read of the domain still holds when it acts on it. *)
Provisioned(u, p) == identity[p] # None /\ (~crossed => mapping[identity[p]] = u)
Informed(s, b) ==
  /\ b.mapped \in Account =>
       /\ b.pc \in SigningAt /\ identity[SubjectOf[s]] = b.mapped
       /\ ~crossed => mapping[b.mapped] = b.user
  /\ b.identified \in Account =>
       b.pc \in SigningAt /\ identity[SubjectOf[s]] = b.identified
  /\ b.pc = "decide" => Unread \notin {b.mapped, b.identified}
  /\ b.pc = "session" /\ Exists(b.user) => Provisioned(b.user, SubjectOf[s])
  /\ b.pc = "orphan" => b.user \in User
ReadsHold == \A s \in SignIn : Informed(s, browser[s])

RowsOK == Named /\ AddressesUnique /\ Linked /\ OneAccountPerSubject /\ SessionsAreProvisioned
ProvisioningInv ==
  TypeOK /\ RowsOK /\ OneSubject /\ CreatedAlone /\ SignedWith /\ ReadsHold

LEMMA Constants ==
  /\ \A s \in SignIn : SubjectOf[s] \in Subject
  /\ \A p \in Subject : EmailOf[p] \in Email
  /\ None \notin User /\ None \notin Account /\ None \notin Subject
  /\ Unread \notin Account /\ Unread # None /\ None \notin UserRow
  /\ MaxFaults \in Nat /\ MaxRemovals \in Nat
  BY ProvisioningAssumption, RowAssumption

LEMMA ProvisioningInvInit == Init => ProvisioningInv
PROOF
  <1> SUFFICES ASSUME Init PROVE ProvisioningInv
    OBVIOUS
  <1>1. /\ \A u \in User : users[u] = None /\ link[u] = None
        /\ \A p \in Subject : identity[p] = None
        /\ \A a \in Account : mapping[a] = None
        /\ sessions = {} /\ accounts = {}
        /\ \A s \in SignIn : browser[s] = Idle
    BY DEF Init
  <1>2. /\ Idle.pc = "idle" /\ Idle.user = None /\ Idle.mapped = Unread /\ Idle.identified = Unread
        /\ Idle \in Browser
    BY DEF Idle, Browser
  <1>3. TypeOK
    <2>1. browser \in [SignIn -> Browser]
      BY <1>2 DEF Init
    <2>2. faults \in 0 .. MaxFaults /\ removals \in 0 .. MaxRemovals
      BY Constants DEF Init
    <2> QED
      BY <2>1, <2>2 DEF Init, TypeOK
  <1>4. RowsOK
    BY <1>1 DEF RowsOK, Named, AddressesUnique, Linked, OneAccountPerSubject,
                SessionsAreProvisioned, Exists
  <1>5. OneSubject
    BY <1>1, <1>2, Constants DEF OneSubject, Claims
  <1>6. CreatedAlone /\ SignedWith
    BY <1>1, <1>2 DEF CreatedAlone, SignedWith, Creating, Signing, CreatingAt, SigningAt
  <1>7. ReadsHold
    BY <1>1, <1>2, Constants DEF ReadsHold, Informed
  <1> QED
    BY <1>3, <1>4, <1>5, <1>6, <1>7 DEF ProvisioningInv

-----------------------------------------------------------------------------
(* A sign-in that moves on and writes nothing *)

(* It keeps its user, finds one by its link, meets an old one with its       *)
(* address, or holds none.                                                   *)
Follows(s, b) ==
  \/ /\ b.user = browser[s].user /\ ~At(s, "orphan") /\ b.pc # "orphan"
     /\ b.pc \in CreatingAt => Creating(s)
     /\ b.pc \in SigningAt => Signing(s)
  \/ b.pc = "profile" /\ b.user \in User /\ link[b.user] = SubjectOf[s]
  \/ b.pc = "orphan" /\ b.user \in User /\ users[b.user].age = "old" /\ Exists(b.user)
  \/ b.pc \notin CreatingAt \cup SigningAt \cup {"orphan"} /\ b.user = None

Moves(s, b) ==
  browser'[s] = b /\ \A t \in SignIn \ {s} : browser'[t] = browser[t]

LEMMA Walks ==
  ASSUME ProvisioningInv, NEW s \in SignIn, NEW b, Moves(s, b), TypeOK',
         UNCHANGED <<users, link, domain, crossed>>, SessionsAreProvisioned',
         Informed(s, b), Follows(s, b)
  PROVE  ProvisioningInv'
PROOF
  <1>1. RowsOK'
    BY DEF ProvisioningInv, RowsOK, Named, AddressesUnique, Linked, OneAccountPerSubject,
           Exists, domain
  <1>2. \A u \in User, p \in Subject : Claims(u, p)' => Claims(u, p)
    BY Constants DEF Claims, Moves, Follows, domain, At, SigningAt, CreatingAt
  <1>3. OneSubject'
    BY <1>2 DEF ProvisioningInv, OneSubject
  <1>4. CreatedAlone'
    <2>1. ASSUME NEW t \in SignIn, Creating(t)'
          PROVE  /\ Creating(t) /\ browser'[t].user = browser[t].user
                 /\ \A x \in SignIn \ {t} : browser'[x].user # browser[t].user
      BY <2>1, Constants DEF ProvisioningInv, CreatedAlone, Moves, Follows, Creating, CreatingAt, SigningAt
    <2> QED
      BY <2>1 DEF ProvisioningInv, CreatedAlone, Exists, domain
  <1>5. SignedWith'
    <2>1. ASSUME NEW t \in SignIn, Signing(t)'
          PROVE  \/ Signing(t) /\ browser'[t].user = browser[t].user
                 \/ browser'[t].user \in User /\ link[browser'[t].user] = SubjectOf[t]
      BY <2>1 DEF Moves, Follows, Signing, CreatingAt, SigningAt
    <2>2. \A u \in User : link[u] # None => Exists(u)
      BY DEF ProvisioningInv, RowsOK, Linked
    <2> QED
      BY <2>1, <2>2, Constants DEF ProvisioningInv, SignedWith, Exists, domain
  <1>6. ReadsHold'
    BY DEF ProvisioningInv, ReadsHold, Informed, Moves, Provisioned, Exists, domain
  <1> QED
    BY <1>1, <1>3, <1>4, <1>5, <1>6 DEF ProvisioningInv

-----------------------------------------------------------------------------
(* Types *)

BrowserAt(s, b) == browser' = [browser EXCEPT ![s] = b]

LEMMA BrowserMoves ==
  ASSUME TypeOK, NEW s \in SignIn, NEW b \in Browser, BrowserAt(s, b)
  PROVE  Moves(s, b) /\ browser' \in [SignIn -> Browser]
  BY DEF TypeOK, BrowserAt, Moves

(* What a sign-in becomes, as a whole record. *)
LEMMA Becomes ==
  ASSUME TypeOK, NEW s \in SignIn
  PROVE  /\ Idle \in Browser
         /\ Gives(s) => BrowserAt(s, Idle)
         /\ \A pc \in {"link", "email", "orphan", "user", "account", "undo", "profile", "read",
                       "decide", "session"} :
              /\ Goes(s, pc) =>
                   BrowserAt(s, [browser[s] EXCEPT !.pc = pc])
              /\ [browser[s] EXCEPT !.pc = pc] \in Browser
              /\ \A u \in User \cup {None} :
                   /\ GoesWith(s, pc, u) =>
                        BrowserAt(s, [browser[s] EXCEPT !.pc = pc, !.user = u])
                   /\ [browser[s] EXCEPT !.pc = pc, !.user = u] \in Browser
         /\ LET again == [Idle EXCEPT !.pc = "read", !.user = browser[s].user, !.retried = TRUE]
            IN  again \in Browser /\ (Retries(s) => BrowserAt(s, again) \/ BrowserAt(s, Idle))
  BY Constants DEF TypeOK, Idle, Browser, Gives, Goes, GoesWith, Retries, BrowserAt

Free == UNCHANGED <<rows, domain, removals, crossed>> /\ faults' \in 0 .. MaxFaults

LEMMA WalksTo ==
  ASSUME ProvisioningInv, NEW s \in SignIn, NEW b \in Browser, BrowserAt(s, b), Free,
         Informed(s, b), Follows(s, b)
  PROVE  ProvisioningInv'
PROOF
  <1>1. Moves(s, b) /\ browser' \in [SignIn -> Browser]
    BY BrowserMoves DEF ProvisioningInv
  <1>2. TypeOK'
    BY <1>1 DEF ProvisioningInv, TypeOK, Free, rows, domain
  <1>3. SessionsAreProvisioned'
    BY DEF ProvisioningInv, RowsOK, SessionsAreProvisioned, Free, rows, domain
  <1> QED
    BY <1>1, <1>2, <1>3, Walks DEF Free, rows

LEMMA GivesUp ==
  ASSUME ProvisioningInv, NEW s \in SignIn, Gives(s), Free
  PROVE  ProvisioningInv'
PROOF
  <1>1. Idle \in Browser /\ BrowserAt(s, Idle)
    BY Becomes DEF ProvisioningInv
  <1>2. Informed(s, Idle) /\ Follows(s, Idle)
    BY Constants DEF Idle, Informed, Follows, CreatingAt, SigningAt
  <1> QED
    BY <1>1, <1>2, WalksTo

LEMMA ReadsAgain ==
  ASSUME ProvisioningInv, NEW s \in SignIn, At(s, "decide"), Retries(s), Free
  PROVE  ProvisioningInv'
PROOF
  <1> DEFINE again == [Idle EXCEPT !.pc = "read", !.user = browser[s].user, !.retried = TRUE]
  <1>1. again \in Browser /\ (BrowserAt(s, again) \/ Gives(s))
    BY Becomes DEF ProvisioningInv, Retries, BrowserAt
  <1>2. /\ again.pc = "read" /\ again.user = browser[s].user
        /\ again.mapped = Unread /\ again.identified = Unread
    BY DEF Idle
  <1> HIDE DEF again
  <1>3. Informed(s, again) /\ Follows(s, again)
    BY <1>2, Constants DEF Informed, Follows, CreatingAt, SigningAt, Signing, At
  <1> QED
    BY <1>1, <1>3, WalksTo, GivesUp

LEMMA FreeSteps ==
  ASSUME ProvisioningInv, UNCHANGED <<rows, domain>>
  PROVE  /\ Still => Free
         /\ faults < MaxFaults /\ faults' = faults + 1 /\ UNCHANGED <<removals, crossed>> => Free
  BY Constants DEF ProvisioningInv, TypeOK, Still, Free

(* A sign-in that goes on, with its user or with another. *)
Places == {"link", "email", "orphan", "user", "account", "undo", "profile", "read", "decide",
           "session"}

LEMMA GoesOn ==
  ASSUME ProvisioningInv, NEW s \in SignIn, Free, NEW pc \in Places, NEW u \in User \cup {None},
         (Goes(s, pc) /\ u = browser[s].user) \/ GoesWith(s, pc, u),
         Signing(s) => pc \in SigningAt /\ u = browser[s].user,
         pc = "decide" => Unread \notin {browser[s].mapped, browser[s].identified},
         pc = "session" /\ Exists(u) => Provisioned(u, SubjectOf[s]),
         \/ /\ u = browser[s].user /\ ~At(s, "orphan") /\ pc # "orphan"
            /\ pc \in CreatingAt => Creating(s)
            /\ pc \in SigningAt => Signing(s)
         \/ pc = "profile" /\ u \in User /\ link[u] = SubjectOf[s]
         \/ pc = "orphan" /\ u \in User /\ users[u].age = "old" /\ Exists(u)
         \/ pc \notin CreatingAt \cup SigningAt \cup {"orphan"} /\ u = None
  PROVE  ProvisioningInv'
PROOF
  <1> DEFINE b == [browser[s] EXCEPT !.pc = pc, !.user = u]
  <1>0. browser[s] \in Browser /\ Informed(s, browser[s])
    BY DEF ProvisioningInv, TypeOK, ReadsHold
  <1>1. BrowserAt(s, b) /\ b \in Browser
    <2>1. CASE GoesWith(s, pc, u)
      BY <2>1, Becomes DEF ProvisioningInv, Places
    <2>2. CASE Goes(s, pc) /\ u = browser[s].user
      <3>1. b = [browser[s] EXCEPT !.pc = pc]
        BY <1>0, <2>2 DEF Browser
      <3> HIDE DEF b
      <3> QED
        BY <2>2, <3>1, Becomes DEF ProvisioningInv, Places
    <2> QED
      BY <2>1, <2>2
  <1>2. /\ b.pc = pc /\ b.user = u
        /\ b.mapped = browser[s].mapped /\ b.identified = browser[s].identified
    BY <1>0 DEF Browser
  <1> HIDE DEF b
  <1>3. Informed(s, b)
    BY <1>0, <1>2 DEF Informed, Signing
  <1>4. Follows(s, b)
    BY <1>2 DEF Follows
  <1> QED
    BY <1>1, <1>3, <1>4, WalksTo

(* The same with the user it has. *)
LEMMA StaysWith ==
  ASSUME ProvisioningInv, NEW s \in SignIn, Free, NEW pc \in Places \ {"orphan"}, Goes(s, pc),
         ~At(s, "orphan"),
         Signing(s) <=> pc \in SigningAt,
         pc \in CreatingAt => Creating(s),
         pc = "decide" => Unread \notin {browser[s].mapped, browser[s].identified},
         pc = "session" /\ Exists(browser[s].user) => Provisioned(browser[s].user, SubjectOf[s])
  PROVE  ProvisioningInv'
PROOF
  <1>1. PICK u \in User \cup {None} : u = browser[s].user
    BY DEF ProvisioningInv, TypeOK, Browser
  <1> QED
    BY <1>1, GoesOn

LEMMA BeginOK ==
  ASSUME ProvisioningInv, NEW s \in SignIn, Begin(s)
  PROVE  ProvisioningInv'
PROOF
  <1>1. Goes(s, "link") /\ At(s, "idle") /\ Free
    BY FreeSteps DEF Begin
  <1> QED
    BY <1>1, StaysWith DEF At, Places, Signing, SigningAt, CreatingAt

LEMMA FindLinkOK ==
  ASSUME ProvisioningInv, NEW s \in SignIn, FindLink(s)
  PROVE  ProvisioningInv'
PROOF
  <1>1. Free /\ At(s, "link")
    BY FreeSteps DEF FindLink
  <1>2. CASE Goes(s, "email")
    BY <1>1, <1>2, StaysWith DEF At, Places, Signing, SigningAt, CreatingAt
  <1>3. ASSUME NEW u \in User, link[u] = SubjectOf[s], GoesWith(s, "profile", u)
        PROVE  ProvisioningInv'
    <2>1. ~Signing(s) /\ "profile" \in Places
      BY <1>1 DEF At, Places, Signing, SigningAt
    <2> QED
      BY <1>1, <1>3, <2>1, GoesOn
  <1> QED
    BY <1>2, <1>3 DEF FindLink

LEMMA FindByEmailOK ==
  ASSUME ProvisioningInv, NEW s \in SignIn, FindByEmail(s)
  PROVE  ProvisioningInv'
PROOF
  <1>1. Free /\ At(s, "email")
    BY FreeSteps DEF FindByEmail
  <1>2. CASE Goes(s, "user")
    BY <1>1, <1>2, StaysWith DEF At, Places, Signing, SigningAt, CreatingAt
  <1>3. ASSUME NEW u \in User, Exists(u), users[u].age = "old", GoesWith(s, "orphan", u)
        PROVE  ProvisioningInv'
    <2>1. ~Signing(s) /\ "orphan" \in Places
      BY <1>1 DEF At, Places, Signing, SigningAt
    <2> QED
      BY <1>1, <1>3, <2>1, GoesOn
  <1> QED
    BY <1>1, <1>2, <1>3, GivesUp DEF FindByEmail

LEMMA ReadProfileOK ==
  ASSUME ProvisioningInv, NEW s \in SignIn, ReadProfile(s)
  PROVE  ProvisioningInv'
PROOF
  <1>1. Free /\ At(s, "profile")
    BY FreeSteps DEF ReadProfile
  <1>2. Exists(browser[s].user) => link[browser[s].user] = SubjectOf[s]
    BY <1>1 DEF ProvisioningInv, SignedWith, Signing, SigningAt, At
  <1>3. PICK pc \in {"read", "session"} :
          Goes(s, pc) /\ (pc = "session" => ~Exists(browser[s].user))
    BY <1>2, Constants DEF ReadProfile
  <1> QED
    BY <1>1, <1>3, StaysWith DEF At, Places, Signing, SigningAt, CreatingAt

LEMMA ResolveOK ==
  ASSUME ProvisioningInv, NEW s \in SignIn, Resolve(s)
  PROVE  ProvisioningInv'
PROOF
  <1>1. Free /\ At(s, "decide")
    BY FreeSteps DEF Resolve
  <1>2. CASE Goes(s, "session") /\ browser[s].mapped = browser[s].identified
    <2>1. browser[s] \in Browser /\ Informed(s, browser[s])
      BY DEF ProvisioningInv, TypeOK, ReadsHold
    <2>2. browser[s].mapped \in Account
      BY <1>1, <2>1 DEF Resolve, Found, Informed, At, Browser
    <2>3. Provisioned(browser[s].user, SubjectOf[s])
      BY <2>1, <2>2, Constants DEF Informed, Provisioned
    <2> QED
      BY <1>1, <1>2, <2>3, StaysWith DEF At, Places, Signing, SigningAt, CreatingAt
  <1> QED
    BY <1>1, <1>2, GivesUp DEF Resolve

(* The account that is mapped to the user a sign-in holds is its subject's. *)
LEMMA MappedAccount ==
  ASSUME ProvisioningInv, NEW s \in SignIn, Signing(s), NEW a \in Account,
         mapping[a] = browser[s].user
  PROVE  identity[SubjectOf[s]] = a
PROOF
  <1>1. browser[s].user \in User /\ ~At(s, "orphan")
    BY DEF ProvisioningInv, SignedWith, Signing, SigningAt, At
  <1>2. a \in accounts
    BY <1>1, Constants DEF ProvisioningInv, RowsOK, Named
  <1>3. PICK p \in Subject : identity[p] = a
    BY <1>2 DEF ProvisioningInv, RowsOK, OneAccountPerSubject
  <1>4. Claims(browser[s].user, p) /\ Claims(browser[s].user, SubjectOf[s])
    BY <1>1, <1>3, Constants DEF Claims
  <1>5. p = SubjectOf[s]
    BY <1>1, <1>4, Constants DEF ProvisioningInv, OneSubject
  <1> QED
    BY <1>3, <1>5

(* A sign-in that takes note of a row and stays where it is. *)
LEMMA Notes ==
  ASSUME ProvisioningInv, NEW s \in SignIn, At(s, "read"), Free,
         NEW m \in Account \cup {None, Unread}, NEW i \in Account \cup {None, Unread},
         BrowserAt(s, [browser[s] EXCEPT !.mapped = m, !.identified = i]),
         m \in Account => mapping[m] = browser[s].user \/ m = browser[s].mapped,
         i \in Account => identity[SubjectOf[s]] = i
  PROVE  ProvisioningInv'
PROOF
  <1> DEFINE b == [browser[s] EXCEPT !.mapped = m, !.identified = i]
  <1>0. browser[s] \in Browser /\ Informed(s, browser[s])
    BY DEF ProvisioningInv, TypeOK, ReadsHold
  <1>1. BrowserAt(s, b) /\ b \in Browser
    BY <1>0 DEF Browser
  <1>2. /\ b.pc = "read" /\ b.user = browser[s].user
        /\ b.mapped = m /\ b.identified = i
    BY <1>0 DEF Browser, At
  <1> HIDE DEF b
  <1>3. m \in Account => identity[SubjectOf[s]] = m /\ (~crossed => mapping[m] = browser[s].user)
    BY <1>0, MappedAccount DEF Informed, At, Signing, SigningAt
  <1>4. Informed(s, b)
    BY <1>2, <1>3 DEF Informed, SigningAt
  <1>5. Follows(s, b)
    BY <1>2 DEF Follows, At, Signing, SigningAt, CreatingAt
  <1> QED
    BY <1>1, <1>4, <1>5, WalksTo

LEMMA ReadOK ==
  ASSUME ProvisioningInv, NEW s \in SignIn, Read(s)
  PROVE  ProvisioningInv'
PROOF
  <1>1. Free /\ At(s, "read") /\ browser[s] \in Browser /\ Informed(s, browser[s])
    BY FreeSteps DEF Read, ProvisioningInv, TypeOK, ReadsHold
  <1>2. ASSUME NEW m \in Account \cup {None}, m \in Account => mapping[m] = browser[s].user,
               browser' = [browser EXCEPT ![s].mapped = m]
        PROVE  ProvisioningInv'
    <2>1. PICK i \in Account \cup {None, Unread} : i = browser[s].identified
      BY <1>1 DEF Browser
    <2>2. BrowserAt(s, [browser[s] EXCEPT !.mapped = m, !.identified = i])
      BY <1>1, <1>2, <2>1 DEF BrowserAt, Browser
    <2>3. i \in Account => identity[SubjectOf[s]] = i
      BY <1>1, <2>1 DEF Informed
    <2> QED
      BY <1>1, <1>2, <2>2, <2>3, Notes
  <1>3. ASSUME NEW i \in Account \cup {None}, i = identity[SubjectOf[s]],
               browser' = [browser EXCEPT ![s].identified = i]
        PROVE  ProvisioningInv'
    <2>1. PICK m \in Account \cup {None, Unread} : m = browser[s].mapped
      BY <1>1 DEF Browser
    <2>2. BrowserAt(s, [browser[s] EXCEPT !.mapped = m, !.identified = i])
      BY <1>1, <1>3, <2>1 DEF BrowserAt, Browser
    <2> QED
      BY <1>1, <1>3, <2>1, <2>2, Notes
  <1>4. CASE Unread \notin {browser[s].mapped, browser[s].identified} /\ Goes(s, "decide")
    BY <1>1, <1>4, StaysWith DEF At, Places, Signing, SigningAt, CreatingAt
  <1>5. ASSUME NEW found, found = MappedTo(browser[s].user),
               browser' = [browser EXCEPT ![s].mapped =
                             IF found = {} THEN None ELSE CHOOSE a \in found : TRUE]
        PROVE  ProvisioningInv'
    <2>1. PICK m : m = IF found = {} THEN None ELSE CHOOSE a \in found : TRUE
      OBVIOUS
    <2>2. m \in Account \cup {None} /\ (m \in Account => mapping[m] = browser[s].user)
      <3>1. CASE found = {}
        BY <2>1, <3>1, Constants
      <3>2. CASE found # {}
        <4>1. m \in found
          BY <2>1, <3>2
        <4> QED
          BY <4>1, <1>5 DEF MappedTo
      <3> QED
        BY <3>1, <3>2
    <2> QED
      BY <1>2, <1>5, <2>1, <2>2
  <1>6. identity[SubjectOf[s]] \in Account \cup {None}
    BY Constants DEF ProvisioningInv, TypeOK
  <1> QED
    BY <1>3, <1>4, <1>5, <1>6 DEF Read

LEMMA CreateAccountFailsOK ==
  ASSUME ProvisioningInv, NEW s \in SignIn, CreateAccountFails(s)
  PROVE  ProvisioningInv'
PROOF
  <1>1. Goes(s, "undo") /\ At(s, "account") /\ Free
    BY FreeSteps DEF CreateAccountFails
  <1> QED
    BY <1>1, StaysWith DEF At, Places, Signing, SigningAt, Creating, CreatingAt

LEMMA DiesOK ==
  ASSUME ProvisioningInv, NEW s \in SignIn, Dies(s)
  PROVE  ProvisioningInv'
PROOF
  <1>1. Gives(s) /\ Free
    BY FreeSteps DEF Dies
  <1> QED
    BY <1>1, GivesUp

(* Where the mapping of its user is found, the subject has an identity: the *)
(* sign-in that meets no identity reads everything again.                   *)
LEMMA CreateIdentityOK ==
  ASSUME ProvisioningInv, NEW s \in SignIn, CreateIdentity(s)
  PROVE  ProvisioningInv'
PROOF
  <1>1. At(s, "decide") /\ browser[s] \in Browser /\ Informed(s, browser[s])
    BY DEF CreateIdentity, ProvisioningInv, TypeOK, ReadsHold
  <1>2. browser[s].mapped # None /\ browser[s].mapped # Unread
    BY <1>1 DEF CreateIdentity, Found, Informed, At
  <1>3. identity[SubjectOf[s]] # None
    BY <1>1, <1>2 DEF Informed, Browser
  <1>4. Retries(s) /\ UNCHANGED <<rows, domain>> /\ Still
    BY <1>3 DEF CreateIdentity, domain
  <1> QED
    BY <1>1, <1>4, FreeSteps, ReadsAgain

-----------------------------------------------------------------------------
(* A user is deleted *)

Rests(b) ==
  /\ b.pc \in {"idle", "user"} /\ b.user = None
  /\ b.mapped \notin Account /\ b.identified \notin Account

(* Who signs in with the user may only lose it when it is removed by hand. *)
LEMMA Removal ==
  ASSUME ProvisioningInv, TypeOK', NEW u \in User, Delete(u), UNCHANGED domain,
         crossed => crossed',
         \A t \in SignIn : browser'[t] = browser[t] \/ Rests(browser'[t]),
         ~crossed' => \A t \in SignIn : Signing(t) => browser[t].user # u
  PROVE  ProvisioningInv'
PROOF
  <1>1. /\ \A v \in User \ {u} : users'[v] = users[v] /\ link'[v] = link[v]
        /\ users'[u] = None /\ link'[u] = None /\ sessions' = sessions \ {u}
        /\ identity' = identity /\ mapping' = mapping /\ accounts' = accounts
    BY DEF Delete, domain, ProvisioningInv, TypeOK
  <1>2. \A v \in User : Exists(v)' => Exists(v) /\ v # u
    BY <1>1 DEF Exists
  <1>3. RowsOK'
    <2>1. Named' /\ OneAccountPerSubject'
      BY <1>1 DEF ProvisioningInv, RowsOK, Named, OneAccountPerSubject
    <2>2. AddressesUnique' /\ Linked'
      BY <1>1, <1>2 DEF ProvisioningInv, RowsOK, AddressesUnique, Linked, Exists
    <2>3. SessionsAreProvisioned'
      BY <1>1 DEF ProvisioningInv, TypeOK, RowsOK, SessionsAreProvisioned
    <2> QED
      BY <2>1, <2>2, <2>3 DEF RowsOK
  <1>4. OneSubject'
    <2>1. \A v \in User, p \in Subject : Claims(v, p)' => Claims(v, p)
      BY <1>1, Constants DEF Claims, At, Rests
    <2> QED
      BY <2>1 DEF ProvisioningInv, OneSubject
  <1>5. CreatedAlone'
    <2>1. ASSUME NEW t \in SignIn, Creating(t)'
          PROVE  /\ Creating(t) /\ browser'[t].user = browser[t].user /\ browser[t].user \in User
                 /\ \A x \in SignIn \ {t} : browser'[x].user # browser[t].user
      BY <2>1, Constants DEF ProvisioningInv, CreatedAlone, Creating, CreatingAt, Rests
    <2> QED
      BY <1>1, <1>2, <2>1 DEF ProvisioningInv, CreatedAlone, Exists
  <1>6. SignedWith'
    <2>1. ASSUME NEW t \in SignIn, Signing(t)'
          PROVE  Signing(t) /\ browser'[t].user = browser[t].user /\ browser[t].user \in User
      BY <2>1 DEF ProvisioningInv, SignedWith, Signing, SigningAt, Rests
    <2> QED
      BY <1>1, <1>2, <2>1 DEF ProvisioningInv, SignedWith, Exists
  <1>7. ReadsHold'
    <2> SUFFICES ASSUME NEW t \in SignIn PROVE Informed(t, browser[t])'
      BY DEF ReadsHold
    <2>1. CASE Rests(browser'[t])
      BY <2>1 DEF Rests, Informed
    <2>2. CASE browser'[t] = browser[t]
      <3>1. browser'[t].pc = "session" => browser[t].user \in User
        BY <2>2 DEF ProvisioningInv, SignedWith, Signing, SigningAt
      <3> QED
        BY <1>1, <1>2, <2>2, <3>1 DEF ProvisioningInv, ReadsHold, Informed, Provisioned
    <2> QED
      BY <2>1, <2>2
  <1> QED
    BY <1>3, <1>4, <1>5, <1>6, <1>7 DEF ProvisioningInv

LEMMA DeleteTypes ==
  ASSUME TypeOK, NEW u \in User, Delete(u)
  PROVE  /\ users' \in [User -> UserRow \cup {None}] /\ link' \in [User -> Subject \cup {None}]
         /\ sessions' \subseteq User
  BY DEF TypeOK, Delete

LEMMA DeleteOrphanOK ==
  ASSUME ProvisioningInv, NEW s \in SignIn, DeleteOrphan(s)
  PROVE  ProvisioningInv'
PROOF
  <1>1. At(s, "orphan") /\ Informed(s, browser[s]) /\ browser[s] \in Browser
    BY DEF DeleteOrphan, ProvisioningInv, TypeOK, ReadsHold
  <1>2. PICK u \in User : u = browser[s].user
    BY <1>1 DEF Informed, At
  <1>3. CASE Gives(s) /\ UNCHANGED rows
    BY <1>3, FreeSteps, GivesUp DEF DeleteOrphan
  <1>4. CASE /\ Exists(u) /\ link[u] = None /\ u \notin sessions
             /\ Delete(u) /\ GoesWith(s, "user", None)
    <2> DEFINE b == [browser[s] EXCEPT !.pc = "user", !.user = None]
    <2>1. BrowserAt(s, b) /\ b \in Browser
      BY <1>4, Becomes DEF ProvisioningInv
    <2>2. /\ b.pc = "user" /\ b.user = None
          /\ b.mapped = browser[s].mapped /\ b.identified = browser[s].identified
      BY <1>1 DEF Browser
    <2> HIDE DEF b
    <2>3. Moves(s, b) /\ browser' \in [SignIn -> Browser]
      BY <2>1, BrowserMoves DEF ProvisioningInv
    <2>4. Rests(b)
      BY <1>1, <2>2 DEF Rests, Informed, At, SigningAt
    <2>5. TypeOK'
      BY <1>4, <2>3, DeleteTypes DEF ProvisioningInv, TypeOK, DeleteOrphan, domain, Still
    <2>6. \A t \in SignIn : Signing(t) => browser[t].user # u
      BY <1>4, Constants DEF ProvisioningInv, SignedWith
    <2> QED
      BY <1>4, <2>3, <2>4, <2>5, <2>6, Removal DEF DeleteOrphan, Still, Moves
  <1> QED
    BY <1>2, <1>3, <1>4 DEF DeleteOrphan

LEMMA CompensateOK ==
  ASSUME ProvisioningInv, NEW s \in SignIn, Compensate(s)
  PROVE  ProvisioningInv'
PROOF
  <1>1. Creating(s) /\ ~Signing(s)
    BY DEF Compensate, At, Creating, CreatingAt, Signing, SigningAt
  <1>2. PICK u \in User : u = browser[s].user
    BY <1>1 DEF ProvisioningInv, CreatedAlone
  <1>3. \A t \in SignIn : Signing(t) => browser[t].user # u
    BY <1>1, <1>2 DEF ProvisioningInv, CreatedAlone
  <1>4. Moves(s, Idle) /\ browser' \in [SignIn -> Browser]
    BY Becomes, BrowserMoves DEF ProvisioningInv, Compensate
  <1>5. Rests(Idle)
    BY Constants DEF Rests, Idle
  <1>6. TypeOK'
    BY <1>2, <1>4, DeleteTypes DEF ProvisioningInv, TypeOK, Compensate, domain, Still
  <1> QED
    BY <1>2, <1>3, <1>4, <1>5, <1>6, Removal DEF Compensate, Still, Moves

LEMMA RemoveUserOK ==
  ASSUME ProvisioningInv, NEW u \in User, RemoveUser(u)
  PROVE  ProvisioningInv'
PROOF
  <1>1. removals' \in 0 .. MaxRemovals
    BY Constants DEF ProvisioningInv, TypeOK, RemoveUser
  <1>2. crossed' \in BOOLEAN /\ (crossed => crossed')
    BY DEF ProvisioningInv, TypeOK, RemoveUser
  <1>3. TypeOK'
    BY <1>1, <1>2, DeleteTypes DEF ProvisioningInv, TypeOK, RemoveUser, domain
  <1>4. ~crossed' => \A t \in SignIn : browser[t].user # u
    BY DEF RemoveUser
  <1> QED
    BY <1>2, <1>3, <1>4, Removal DEF RemoveUser

-----------------------------------------------------------------------------
(* Sessions, and the age of a user *)

LEMMA StoreSessionOK ==
  ASSUME ProvisioningInv, NEW s \in SignIn, StoreSession(s)
  PROVE  ProvisioningInv'
PROOF
  <1>1. Signing(s) /\ browser[s].pc = "session"
    BY DEF StoreSession, At, Signing, SigningAt
  <1>2. PICK u \in User : u = browser[s].user
    BY <1>1 DEF ProvisioningInv, SignedWith
  <1>3. Exists(u) =>
          /\ link[u] = SubjectOf[s] /\ identity[link[u]] \in accounts
          /\ ~crossed => mapping[identity[link[u]]] = u
    <2>1. Exists(u) => link[u] = SubjectOf[s] /\ Provisioned(u, SubjectOf[s])
      BY <1>1, <1>2 DEF ProvisioningInv, SignedWith, ReadsHold, Informed
    <2> QED
      BY <2>1, Constants DEF Provisioned, ProvisioningInv, RowsOK, Named
  <1>4. Moves(s, Idle) /\ browser' \in [SignIn -> Browser]
    BY Becomes, BrowserMoves DEF ProvisioningInv, StoreSession
  <1>5. TypeOK'
    BY <1>2, <1>4 DEF ProvisioningInv, TypeOK, StoreSession, domain, Still
  <1>6. SessionsAreProvisioned'
    BY <1>2, <1>3, Constants
       DEF ProvisioningInv, RowsOK, SessionsAreProvisioned, StoreSession, domain, Still
  <1>7. Informed(s, Idle) /\ Follows(s, Idle)
    BY Constants DEF Idle, Informed, Follows, CreatingAt, SigningAt
  <1> QED
    BY <1>4, <1>5, <1>6, <1>7, Walks DEF StoreSession, Still

(* Nothing but the sessions and the ages of users changes. *)
LEMMA Ages ==
  ASSUME ProvisioningInv, TypeOK', UNCHANGED <<link, domain, browser, crossed>>,
         sessions' \subseteq sessions,
         \A u \in User : Exists(u)' <=> Exists(u),
         \A u \in User : Exists(u) => users'[u].email = users[u].email,
         \A s \in SignIn, u \in User :
           Creating(s) /\ browser[s].user = u => users'[u] = users[u]
  PROVE  ProvisioningInv'
PROOF
  <1>1. RowsOK'
    <2>1. Named' /\ OneAccountPerSubject' /\ SessionsAreProvisioned'
      BY DEF ProvisioningInv, RowsOK, Named, OneAccountPerSubject, SessionsAreProvisioned, domain
    <2>2. AddressesUnique' /\ Linked'
      BY DEF ProvisioningInv, RowsOK, AddressesUnique, Linked
    <2> QED
      BY <2>1, <2>2 DEF RowsOK
  <1>2. OneSubject'
    BY DEF ProvisioningInv, OneSubject, Claims, domain, At
  <1>3. CreatedAlone'
    BY DEF ProvisioningInv, CreatedAlone, Creating, domain
  <1>4. SignedWith'
    BY DEF ProvisioningInv, SignedWith, Signing
  <1>5. ReadsHold'
    <2> SUFFICES ASSUME NEW s \in SignIn PROVE Informed(s, browser[s])'
      BY DEF ReadsHold
    <2>1. browser[s].pc = "session" => browser[s].user \in User
      BY DEF ProvisioningInv, SignedWith, Signing, SigningAt
    <2> QED
      BY <2>1 DEF ProvisioningInv, ReadsHold, Informed, Provisioned, domain
  <1> QED
    BY <1>1, <1>2, <1>3, <1>4, <1>5 DEF ProvisioningInv

LEMMA EndSessionOK ==
  ASSUME ProvisioningInv, NEW u \in User, EndSession(u)
  PROVE  ProvisioningInv'
PROOF
  <1>1. TypeOK'
    BY DEF ProvisioningInv, TypeOK, EndSession, domain, Still
  <1> QED
    BY <1>1, Ages DEF EndSession, Still, Exists

LEMMA GrowOldOK ==
  ASSUME ProvisioningInv, NEW u \in User, GrowOld(u)
  PROVE  ProvisioningInv'
PROOF
  <1>1. users[u] \in UserRow
    BY DEF ProvisioningInv, TypeOK, GrowOld, Exists
  <1>2. /\ users' \in [User -> UserRow \cup {None}]
        /\ users'[u].email = users[u].email /\ users'[u] # None
        /\ \A v \in User \ {u} : users'[v] = users[v]
    <2>1. [users[u] EXCEPT !.age = "old"] \in UserRow
      BY <1>1 DEF UserRow
    <2>2. [users[u] EXCEPT !.age = "old"].email = users[u].email
      BY <1>1 DEF UserRow
    <2>3. users \in [User -> UserRow \cup {None}]
      BY DEF ProvisioningInv, TypeOK
    <2> QED
      BY <2>1, <2>2, <2>3, Constants DEF GrowOld
  <1>3. TypeOK'
    BY <1>2 DEF ProvisioningInv, TypeOK, GrowOld, domain, Still
  <1>4. \A s \in SignIn, v \in User : Creating(s) /\ browser[s].user = v => users'[v] = users[v]
    BY <1>2 DEF GrowOld, Creating, CreatingAt
  <1>5. \A v \in User : /\ Exists(v)' <=> Exists(v)
                        /\ users'[v].email = users[v].email
    BY <1>2 DEF GrowOld, Exists
  <1> QED
    BY <1>3, <1>4, <1>5, Ages DEF GrowOld, Still

-----------------------------------------------------------------------------
(* A user is created, and linked to its subject *)

LEMMA CreatesUser ==
  ASSUME ProvisioningInv, TypeOK', NEW s \in SignIn, At(s, "user"),
         NEW u \in User, ~Exists(u), \A a \in Account : mapping[a] # u,
         \A t \in SignIn : browser[t].user # u,
         \A v \in User : ~(Exists(v) /\ users[v].email = EmailOf[SubjectOf[s]]),
         users'[u].email = EmailOf[SubjectOf[s]], users'[u].age = "new",
         \A v \in User \ {u} : users'[v] = users[v],
         UNCHANGED <<link, sessions, domain, crossed>>,
         NEW b, Moves(s, b), b.pc = "account", b.user = u,
         b.mapped \notin Account, b.identified \notin Account
  PROVE  ProvisioningInv'
PROOF
  <1>1. link[u] = None
    BY DEF ProvisioningInv, RowsOK, Linked
  <1>2. \A v \in User \ {u} : Exists(v)' <=> Exists(v)
    BY DEF Exists
  <1>3. RowsOK'
    <2>1. Named' /\ OneAccountPerSubject' /\ SessionsAreProvisioned'
      BY DEF ProvisioningInv, RowsOK, Named, OneAccountPerSubject, SessionsAreProvisioned, domain
    <2>2. AddressesUnique' /\ Linked'
      BY <1>1, <1>2 DEF ProvisioningInv, RowsOK, AddressesUnique, Linked
    <2> QED
      BY <2>1, <2>2 DEF RowsOK
  <1>4. OneSubject'
    <2>1. ASSUME NEW v \in User \ {u}, NEW p \in Subject, Claims(v, p)' PROVE Claims(v, p)
      BY <2>1 DEF Claims, Moves, At, domain
    <2>2. ASSUME NEW p \in Subject, Claims(u, p)' PROVE p = SubjectOf[s]
      BY <1>1, <2>2, Constants DEF Claims, Moves, domain, ProvisioningInv, TypeOK
    <2> QED
      BY <2>1, <2>2 DEF ProvisioningInv, OneSubject
  <1>5. CreatedAlone'
    <2>1. ASSUME NEW t \in SignIn \ {s}, Creating(t)'
          PROVE  /\ Creating(t) /\ browser'[t].user = browser[t].user
                 /\ browser[t].user \in User \ {u}
                 /\ \A x \in SignIn \ {t} : browser'[x].user # browser[t].user
      BY <2>1 DEF ProvisioningInv, CreatedAlone, Moves, Creating
    <2>2. \A t \in SignIn \ {s} : browser'[t].user # u
      BY DEF Moves
    <2> QED
      BY <1>1, <1>2, <2>1, <2>2 DEF ProvisioningInv, CreatedAlone, Moves, domain
  <1>6. SignedWith'
    <2>1. ASSUME NEW t \in SignIn, Signing(t)'
          PROVE  Signing(t) /\ browser'[t].user = browser[t].user
      BY <2>1 DEF Moves, Signing, SigningAt
    <2> QED
      BY <1>2, <2>1 DEF ProvisioningInv, SignedWith
  <1>7. ReadsHold'
    <2> SUFFICES ASSUME NEW t \in SignIn PROVE Informed(t, browser[t])'
      BY DEF ReadsHold
    <2>1. CASE t = s
      BY <2>1 DEF Informed, Moves
    <2>2. CASE t # s
      <3>1. browser[t].pc = "session" => browser[t].user \in User \ {u}
        BY DEF ProvisioningInv, SignedWith, Signing, SigningAt
      <3> QED
        BY <1>2, <2>2, <3>1 DEF ProvisioningInv, ReadsHold, Informed, Provisioned, Moves, domain
    <2> QED
      BY <2>1, <2>2
  <1> QED
    BY <1>3, <1>4, <1>5, <1>6, <1>7 DEF ProvisioningInv

LEMMA CreateUserOK ==
  ASSUME ProvisioningInv, NEW s \in SignIn, CreateUser(s)
  PROVE  ProvisioningInv'
PROOF
  <1>1. At(s, "user") /\ browser[s] \in Browser /\ Informed(s, browser[s])
    BY DEF CreateUser, ProvisioningInv, TypeOK, ReadsHold
  <1>2. CASE Gives(s) /\ UNCHANGED users
    BY <1>2, FreeSteps, GivesUp DEF CreateUser, rows
  <1>3. CASE ~(Gives(s) /\ UNCHANGED users)
    <2> DEFINE email == EmailOf[SubjectOf[s]]
               user == [email |-> email, age |-> "new"]
    <2>1. PICK u : u = CHOOSE v \in Unused : TRUE
      OBVIOUS
    <2>2. /\ Unused # {} /\ users' = [users EXCEPT ![u] = user] /\ GoesWith(s, "account", u)
          /\ \A v \in User : ~(Exists(v) /\ users[v].email = email)
      BY <1>3, <2>1 DEF CreateUser
    <2>3. u \in Unused
      BY <2>1, <2>2
    <2>4. /\ u \in User /\ ~Exists(u) /\ \A a \in Account : mapping[a] # u
          /\ \A t \in SignIn : browser[t].user # u
      BY <2>3 DEF Unused
    <2>5. user \in UserRow /\ user.email = email /\ user.age = "new"
      BY Constants DEF UserRow
    <2> HIDE DEF user
    <2>6. /\ users' \in [User -> UserRow \cup {None}] /\ users'[u] = user
          /\ \A v \in User \ {u} : users'[v] = users[v]
      BY <2>2, <2>4, <2>5 DEF ProvisioningInv, TypeOK
    <2> DEFINE b == [browser[s] EXCEPT !.pc = "account", !.user = u]
    <2>7. BrowserAt(s, b) /\ b \in Browser
      BY <2>2, <2>4, Becomes DEF ProvisioningInv
    <2>8. /\ b.pc = "account" /\ b.user = u
          /\ b.mapped = browser[s].mapped /\ b.identified = browser[s].identified
      BY <1>1 DEF Browser
    <2> HIDE DEF b
    <2>9. Moves(s, b) /\ browser' \in [SignIn -> Browser]
      BY <2>7, BrowserMoves DEF ProvisioningInv
    <2>10. b.mapped \notin Account /\ b.identified \notin Account
      BY <1>1, <2>8 DEF Informed, At, SigningAt
    <2>11. TypeOK'
      BY <2>6, <2>9 DEF ProvisioningInv, TypeOK, CreateUser, domain, Still
    <2>12. UNCHANGED <<link, sessions, domain, crossed>>
      BY DEF CreateUser, Still
    <2> QED
      BY <1>1, <2>2, <2>4, <2>5, <2>6, <2>8, <2>9, <2>10, <2>11, <2>12, CreatesUser
  <1> QED
    BY <1>2, <1>3

LEMMA LinksUser ==
  ASSUME ProvisioningInv, TypeOK', NEW s \in SignIn, At(s, "account"),
         NEW u \in User, u = browser[s].user, Exists(u),
         link'[u] = SubjectOf[s], \A v \in User \ {u} : link'[v] = link[v],
         UNCHANGED <<users, sessions, domain, crossed>>,
         NEW b, Moves(s, b), b.pc = "profile", b.user = u,
         b.mapped \notin Account, b.identified \notin Account
  PROVE  ProvisioningInv'
PROOF
  <1>1. Creating(s)
    BY DEF At, Creating, CreatingAt
  <1>2. /\ link[u] = None /\ users[u].email = EmailOf[SubjectOf[s]]
        /\ \A t \in SignIn \ {s} : browser[t].user # u
    BY <1>1 DEF ProvisioningInv, CreatedAlone
  <1>3. RowsOK'
    <2>1. Named' /\ OneAccountPerSubject'
      BY DEF ProvisioningInv, RowsOK, Named, OneAccountPerSubject, domain
    <2>2. AddressesUnique' /\ Linked'
      BY <1>2 DEF ProvisioningInv, RowsOK, AddressesUnique, Linked, Exists
    <2>3. u \notin sessions
      BY <1>2 DEF ProvisioningInv, RowsOK, SessionsAreProvisioned
    <2>4. SessionsAreProvisioned'
      BY <2>3 DEF ProvisioningInv, RowsOK, SessionsAreProvisioned, domain, TypeOK
    <2> QED
      BY <2>1, <2>2, <2>4 DEF RowsOK
  <1>4. OneSubject'
    <2>1. Claims(u, SubjectOf[s])
      BY DEF Claims, At
    <2>2. ASSUME NEW v \in User, NEW p \in Subject, Claims(v, p)' PROVE Claims(v, p)
      BY <2>1, <2>2 DEF Claims, Moves, At, domain
    <2> QED
      BY <2>2 DEF ProvisioningInv, OneSubject
  <1>5. CreatedAlone'
    <2>1. ASSUME NEW t \in SignIn, Creating(t)'
          PROVE  Creating(t) /\ t # s /\ browser'[t].user = browser[t].user
      BY <2>1 DEF Moves, Creating, CreatingAt
    <2>2. \A t \in SignIn : browser'[t].user = browser[t].user
      BY DEF Moves
    <2> QED
      BY <1>2, <2>1, <2>2 DEF ProvisioningInv, CreatedAlone, domain, Exists
  <1>6. SignedWith'
    <2>1. ASSUME NEW t \in SignIn \ {s}, Signing(t)'
          PROVE  /\ Signing(t) /\ browser'[t].user = browser[t].user
                 /\ browser[t].user \in User \ {u}
      BY <1>2, <2>1 DEF ProvisioningInv, SignedWith, Moves, Signing
    <2> QED
      BY <2>1 DEF ProvisioningInv, SignedWith, Moves, Exists
  <1>7. ReadsHold'
    BY DEF ProvisioningInv, ReadsHold, Informed, Provisioned, Moves, domain, Exists
  <1> QED
    BY <1>3, <1>4, <1>5, <1>6, <1>7 DEF ProvisioningInv

LEMMA CreateAccountOK ==
  ASSUME ProvisioningInv, NEW s \in SignIn, CreateAccount(s)
  PROVE  ProvisioningInv'
PROOF
  <1>1. At(s, "account") /\ browser[s] \in Browser /\ Informed(s, browser[s])
    BY DEF CreateAccount, ProvisioningInv, TypeOK, ReadsHold
  <1>2. CASE Goes(s, "undo") /\ UNCHANGED link
    <2>1. Free
      BY <1>2, FreeSteps DEF CreateAccount, rows
    <2> QED
      BY <1>1, <1>2, <2>1, StaysWith DEF At, Places, Signing, SigningAt, Creating, CreatingAt
  <1>3. CASE /\ Exists(browser[s].user) /\ Goes(s, "profile")
             /\ link' = [link EXCEPT ![browser[s].user] = SubjectOf[s]]
    <2>1. PICK u \in User : u = browser[s].user
      BY <1>1 DEF ProvisioningInv, CreatedAlone, Creating, CreatingAt, At
    <2> DEFINE b == [browser[s] EXCEPT !.pc = "profile"]
    <2>2. BrowserAt(s, b) /\ b \in Browser
      BY <1>3, Becomes DEF ProvisioningInv
    <2>3. /\ b.pc = "profile" /\ b.user = u
          /\ b.mapped = browser[s].mapped /\ b.identified = browser[s].identified
      BY <1>1, <2>1 DEF Browser
    <2> HIDE DEF b
    <2>4. Moves(s, b) /\ browser' \in [SignIn -> Browser]
      BY <2>2, BrowserMoves DEF ProvisioningInv
    <2>5. b.mapped \notin Account /\ b.identified \notin Account
      BY <1>1, <2>3 DEF Informed, At, SigningAt
    <2>6. /\ link' \in [User -> Subject \cup {None}] /\ link'[u] = SubjectOf[s]
          /\ \A v \in User \ {u} : link'[v] = link[v]
      BY <1>3, <2>1, Constants DEF ProvisioningInv, TypeOK
    <2>7. TypeOK'
      BY <2>4, <2>6 DEF ProvisioningInv, TypeOK, CreateAccount, domain, Still
    <2>8. UNCHANGED <<users, sessions, domain, crossed>>
      BY DEF CreateAccount, Still
    <2> QED
      BY <1>1, <1>3, <2>1, <2>3, <2>4, <2>5, <2>6, <2>7, <2>8, LinksUser
  <1> QED
    BY <1>2, <1>3 DEF CreateAccount

-----------------------------------------------------------------------------
(* The domain account of a sign-in that decides *)

(* While no user is removed, nobody but the user it holds has its subject. *)
LEMMA SameUser ==
  ASSUME ProvisioningInv, ~crossed, NEW s \in SignIn, Signing(s),
         NEW v \in User, link[v] = SubjectOf[s]
  PROVE  v = browser[s].user
PROOF
  <1>1. PICK u \in User : u = browser[s].user
    BY DEF ProvisioningInv, SignedWith
  <1>2. Exists(u) /\ link[u] = SubjectOf[s]
    BY <1>1 DEF ProvisioningInv, SignedWith
  <1>3. Exists(v) /\ users[v].email = EmailOf[SubjectOf[s]] /\ users[u].email = EmailOf[SubjectOf[s]]
    BY <1>2, Constants DEF ProvisioningInv, RowsOK, Linked
  <1> QED
    BY <1>1, <1>2, <1>3 DEF ProvisioningInv, RowsOK, AddressesUnique

(* The account of its subject is mapped to the user of a sign-in. *)
LEMMA Maps ==
  ASSUME ProvisioningInv, TypeOK', NEW s \in SignIn, Signing(s),
         NEW u \in User, u = browser[s].user, NEW a \in Account,
         accounts \subseteq accounts', a \in accounts',
         accounts' \subseteq accounts \cup {a},
         identity'[SubjectOf[s]] = a,
         \A p \in Subject \ {SubjectOf[s]} : identity'[p] = identity[p] /\ identity[p] # a,
         identity[SubjectOf[s]] \in {a, None},
         mapping'[a] = u, \A x \in Account \ {a} : mapping'[x] = mapping[x],
         UNCHANGED <<rows, crossed>>,
         NEW b, Moves(s, b), b.pc = "session", b.user = u,
         b.mapped \notin Account, b.identified \in Account => b.identified = a
  PROVE  ProvisioningInv'
PROOF
  <1> DEFINE p0 == SubjectOf[s]
  <1>0. p0 \in Subject /\ ~At(s, "orphan")
    BY Constants DEF Signing, SigningAt, At
  <1>1. \A p \in Subject : identity[p] # None => identity'[p] = identity[p]
    BY <1>0
  <1>2. \A v \in User : ~crossed /\ link[v] = p0 => v = u
    BY SameUser
  <1>3. Named'
    BY <1>0, Constants DEF ProvisioningInv, RowsOK, Named
  <1>4. OneAccountPerSubject'
    <2>1. \A x \in accounts' : \E p \in Subject : identity'[p] = x
      <3> SUFFICES ASSUME NEW x \in accounts' PROVE \E p \in Subject : identity'[p] = x
        OBVIOUS
      <3>1. CASE x = a
        BY <1>0, <3>1
      <3>2. CASE x # a
        <4>1. PICK p \in Subject : identity[p] = x
          BY <3>2 DEF ProvisioningInv, RowsOK, OneAccountPerSubject
        <4>2. x # None
          BY Constants DEF TypeOK
        <4> QED
          BY <1>1, <4>1, <4>2
      <3> QED
        BY <3>1, <3>2
    <2>2. \A p, q \in Subject : identity'[p] = identity'[q] => p = q \/ identity'[p] = None
      BY DEF ProvisioningInv, RowsOK, OneAccountPerSubject
    <2> QED
      BY <2>1, <2>2 DEF OneAccountPerSubject
  <1>5. SessionsAreProvisioned'
    <2> SUFFICES ASSUME NEW v \in sessions
                 PROVE  /\ link[v] # None /\ identity'[link[v]] \in accounts'
                        /\ ~crossed => mapping'[identity'[link[v]]] = v
      BY DEF SessionsAreProvisioned, rows
    <2>1. /\ link[v] # None /\ identity[link[v]] \in accounts
          /\ ~crossed => mapping[identity[link[v]]] = v
          /\ v \in User /\ link[v] \in Subject /\ identity[link[v]] \in Account
      BY DEF ProvisioningInv, RowsOK, SessionsAreProvisioned, TypeOK
    <2>2. CASE link[v] = p0
      BY <1>2, <2>1, <2>2
    <2>3. CASE link[v] # p0
      BY <2>1, <2>3
    <2> QED
      BY <2>1, <2>2, <2>3
  <1>6. RowsOK'
    BY <1>3, <1>4, <1>5 DEF ProvisioningInv, RowsOK, AddressesUnique, Linked, Exists, rows
  <1>7. OneSubject'
    <2>1. Claims(u, p0)
      BY <1>0 DEF Claims
    <2>2. ASSUME NEW v \in User, NEW p \in Subject, Claims(v, p)' PROVE Claims(v, p)
      <3>1. CASE identity'[p] # None /\ mapping'[identity'[p]] = v
        <4>1. CASE p = p0
          BY <2>1, <3>1, <4>1
        <4>2. CASE p # p0
          BY <3>1, <4>2 DEF Claims, ProvisioningInv, TypeOK
        <4> QED
          BY <4>1, <4>2
      <3>2. CASE ~(identity'[p] # None /\ mapping'[identity'[p]] = v)
        BY <1>0, <2>2, <3>2 DEF Claims, Moves, At, rows
      <3> QED
        BY <3>1, <3>2
    <2> QED
      BY <2>2 DEF ProvisioningInv, OneSubject
  <1>8. CreatedAlone'
    <2>1. ASSUME NEW t \in SignIn, Creating(t)'
          PROVE  Creating(t) /\ t # s
      BY <2>1 DEF Moves, Creating, CreatingAt
    <2>2. \A t \in SignIn : browser'[t].user = browser[t].user
      BY DEF Moves
    <2>3. \A t \in SignIn : Creating(t) /\ t # s => browser[t].user # u
      BY DEF ProvisioningInv, CreatedAlone
    <2> QED
      BY <2>1, <2>2, <2>3 DEF ProvisioningInv, CreatedAlone, Exists, rows
  <1>9. SignedWith'
    <2>1. \A t \in SignIn : Signing(t)' => Signing(t) /\ browser'[t].user = browser[t].user
      BY DEF Moves, Signing
    <2> QED
      BY <2>1 DEF ProvisioningInv, SignedWith, Exists, rows
  <1>10. ReadsHold'
    <2> SUFFICES ASSUME NEW t \in SignIn PROVE Informed(t, browser[t])'
      BY DEF ReadsHold
    <2>1. CASE t = s
      BY <1>0, <2>1, Constants DEF Moves, Informed, Provisioned, SigningAt
    <2>2. CASE t # s
      <3>0. PICK c : c = browser[t]
        OBVIOUS
      <3>1. Informed(t, c) /\ browser'[t] = c /\ SubjectOf[t] \in Subject
        BY <2>2, <3>0, Constants DEF ProvisioningInv, ReadsHold, Moves
      <3>2. ASSUME ~crossed, SubjectOf[t] = p0, c.pc \in SigningAt
            PROVE  c.user = u
        <4>1. Signing(t)
          BY <3>0, <3>2 DEF Signing
        <4>2. PICK v \in User : v = c.user
          BY <3>0, <4>1 DEF ProvisioningInv, SignedWith
        <4>3. link[v] = SubjectOf[t]
          BY <3>0, <3>2, <4>1, <4>2 DEF ProvisioningInv, SignedWith
        <4> QED
          BY <1>2, <3>2, <4>2, <4>3
      <3>3. c.mapped \in Account =>
              /\ c.pc \in SigningAt /\ identity'[SubjectOf[t]] = c.mapped
              /\ ~crossed => mapping'[c.mapped] = c.user
        <4> SUFFICES ASSUME c.mapped \in Account
                     PROVE  /\ c.pc \in SigningAt /\ identity'[SubjectOf[t]] = c.mapped
                            /\ ~crossed => mapping'[c.mapped] = c.user
          OBVIOUS
        <4>1. /\ c.pc \in SigningAt /\ identity[SubjectOf[t]] = c.mapped
              /\ ~crossed => mapping[c.mapped] = c.user
          BY <3>1 DEF Informed
        <4>2. identity'[SubjectOf[t]] = c.mapped
          BY <1>1, <3>1, <4>1, Constants
        <4>3. c.mapped = a => SubjectOf[t] = p0
          BY <3>1, <4>1
        <4> QED
          BY <3>2, <4>1, <4>2, <4>3
      <3>4. c.identified \in Account =>
              c.pc \in SigningAt /\ identity'[SubjectOf[t]] = c.identified
        BY <1>1, <3>1, Constants DEF Informed
      <3>5. c.pc = "session" /\ Exists(c.user)' => Provisioned(c.user, SubjectOf[t])'
        <4> SUFFICES ASSUME c.pc = "session", Exists(c.user)
                     PROVE  /\ identity'[SubjectOf[t]] # None
                            /\ ~crossed => mapping'[identity'[SubjectOf[t]]] = c.user
          BY DEF Exists, rows, Provisioned
        <4>1. /\ identity[SubjectOf[t]] # None
              /\ ~crossed => mapping[identity[SubjectOf[t]]] = c.user
          BY <3>1 DEF Informed, Provisioned
        <4>2. identity'[SubjectOf[t]] = identity[SubjectOf[t]] /\ identity[SubjectOf[t]] \in Account
          BY <1>1, <3>1, <4>1 DEF ProvisioningInv, TypeOK
        <4>3. identity[SubjectOf[t]] = a => SubjectOf[t] = p0
          BY <3>1
        <4> QED
          BY <3>2, <4>1, <4>2, <4>3 DEF SigningAt
      <3>6. /\ c.pc = "decide" => Unread \notin {c.mapped, c.identified}
            /\ c.pc = "orphan" => c.user \in User
        BY <3>1 DEF Informed
      <3> QED
        BY <3>1, <3>3, <3>4, <3>5, <3>6 DEF Informed
    <2> QED
      BY <2>1, <2>2
  <1> QED
    BY <1>6, <1>7, <1>8, <1>9, <1>10 DEF ProvisioningInv

LEMMA RebindOK ==
  ASSUME ProvisioningInv, NEW s \in SignIn, Rebind(s)
  PROVE  ProvisioningInv'
PROOF
  <1>1. At(s, "decide") /\ browser[s] \in Browser /\ Informed(s, browser[s]) /\ Signing(s)
    BY DEF Rebind, ProvisioningInv, TypeOK, ReadsHold, At, Signing, SigningAt
  <1>2. PICK a : a = browser[s].identified
    OBVIOUS
  <1>3. a \in Account /\ browser[s].mapped = None /\ identity[SubjectOf[s]] = a
    BY <1>1, <1>2 DEF Rebind, Found, Informed, At, Browser
  <1>4. PICK u \in User : u = browser[s].user
    BY <1>1 DEF ProvisioningInv, SignedWith
  <1>5. CASE Retries(s) /\ UNCHANGED mapping
    <2>1. Free
      BY <1>5, FreeSteps DEF Rebind, domain
    <2> QED
      BY <1>1, <1>5, <2>1, ReadsAgain
  <1>6. CASE mapping' = [mapping EXCEPT ![a] = browser[s].user] /\ Goes(s, "session")
    <2> DEFINE b == [browser[s] EXCEPT !.pc = "session"]
    <2>1. BrowserAt(s, b) /\ b \in Browser
      BY <1>6, Becomes DEF ProvisioningInv
    <2>2. /\ b.pc = "session" /\ b.user = u
          /\ b.mapped = None /\ b.identified = a
      BY <1>1, <1>2, <1>3, <1>4 DEF Browser
    <2> HIDE DEF b
    <2>3. Moves(s, b) /\ browser' \in [SignIn -> Browser]
      BY <2>1, BrowserMoves DEF ProvisioningInv
    <2>4. /\ mapping' \in [Account -> User \cup {None}] /\ mapping'[a] = u
          /\ \A x \in Account \ {a} : mapping'[x] = mapping[x]
      BY <1>3, <1>4, <1>6 DEF ProvisioningInv, TypeOK
    <2>5. TypeOK'
      BY <2>3, <2>4 DEF ProvisioningInv, TypeOK, Rebind, rows, Still
    <2>6. a \in accounts /\ \A p \in Subject \ {SubjectOf[s]} : identity[p] # a
      BY <1>3, Constants DEF ProvisioningInv, RowsOK, Named, OneAccountPerSubject
    <2>7. UNCHANGED <<rows, accounts, identity, crossed>>
      BY DEF Rebind, Still
    <2> QED
      BY <1>1, <1>3, <1>4, <2>2, <2>3, <2>4, <2>5, <2>6, <2>7, Constants, Maps
  <1> QED
    BY <1>2, <1>5, <1>6 DEF Rebind

LEMMA CreateInitialOK ==
  ASSUME ProvisioningInv, NEW s \in SignIn, CreateInitial(s)
  PROVE  ProvisioningInv'
PROOF
  <1>1. At(s, "decide") /\ browser[s] \in Browser /\ Signing(s)
    BY DEF CreateInitial, ProvisioningInv, TypeOK, At, Signing, SigningAt
  <1>2. browser[s].mapped = None /\ browser[s].identified = None
    BY DEF CreateInitial, Found
  <1>3. PICK u \in User : u = browser[s].user
    BY <1>1 DEF ProvisioningInv, SignedWith
  <1>4. PICK a : a = NewAccount
    OBVIOUS
  <1>5. CASE Retries(s) /\ UNCHANGED domain
    <2>1. Free
      BY <1>5, FreeSteps DEF CreateInitial
    <2> QED
      BY <1>1, <1>5, <2>1, ReadsAgain
  <1>6. CASE /\ identity[SubjectOf[s]] = None /\ accounts # Account
             /\ accounts' = accounts \cup {a}
             /\ identity' = [identity EXCEPT ![SubjectOf[s]] = a]
             /\ mapping' = [mapping EXCEPT ![a] = browser[s].user]
             /\ Goes(s, "session")
    <2> DEFINE b == [browser[s] EXCEPT !.pc = "session"]
    <2>1. BrowserAt(s, b) /\ b \in Browser
      BY <1>6, Becomes DEF ProvisioningInv
    <2>2. /\ b.pc = "session" /\ b.user = u
          /\ b.mapped = None /\ b.identified = None
      BY <1>1, <1>2, <1>3 DEF Browser
    <2> HIDE DEF b
    <2>3. Moves(s, b) /\ browser' \in [SignIn -> Browser]
      BY <2>1, BrowserMoves DEF ProvisioningInv
    <2>4. accounts \subseteq Account
      BY DEF ProvisioningInv, TypeOK
    <2>5. a \in Account /\ a \notin accounts
      <3>1. \E x \in Account : x \notin accounts
        BY <1>6, <2>4
      <3> QED
        BY <1>4, <3>1 DEF NewAccount
    <2>6. /\ mapping' \in [Account -> User \cup {None}] /\ mapping'[a] = u
          /\ \A x \in Account \ {a} : mapping'[x] = mapping[x]
      BY <1>3, <1>6, <2>5 DEF ProvisioningInv, TypeOK
    <2>7. /\ identity' \in [Subject -> Account \cup {None}] /\ identity'[SubjectOf[s]] = a
          /\ \A p \in Subject \ {SubjectOf[s]} : identity'[p] = identity[p]
      BY <1>6, <2>5, Constants DEF ProvisioningInv, TypeOK
    <2>8. TypeOK'
      BY <1>6, <2>3, <2>5, <2>6, <2>7 DEF ProvisioningInv, TypeOK, CreateInitial, rows, Still
    <2>9. \A p \in Subject : identity[p] # a
      BY <2>5, Constants DEF ProvisioningInv, RowsOK, Named
    <2>10. accounts \subseteq accounts' /\ a \in accounts' /\ accounts' \subseteq accounts \cup {a}
      BY <1>6
    <2>11. UNCHANGED <<rows, crossed>>
      BY DEF CreateInitial, Still
    <2> QED
      BY <1>1, <1>3, <1>6, <2>2, <2>3, <2>5, <2>6, <2>7, <2>8, <2>9, <2>10, <2>11, Constants, Maps
  <1> QED
    BY <1>4, <1>5, <1>6 DEF CreateInitial

-----------------------------------------------------------------------------
(* The theorems *)

LEMMA ProvisioningInvNext == ProvisioningInv /\ [Next]_vars => ProvisioningInv'
PROOF
  <1> SUFFICES ASSUME ProvisioningInv, [Next]_vars PROVE ProvisioningInv'
    OBVIOUS
  <1>1. ASSUME NEW s \in SignIn, Step(s) PROVE ProvisioningInv'
    BY <1>1, FindLinkOK, FindByEmailOK, DeleteOrphanOK, CreateUserOK, CreateAccountOK, CompensateOK,
       ReadProfileOK, ReadOK, ResolveOK, CreateIdentityOK, RebindOK, CreateInitialOK, StoreSessionOK
       DEF Step
  <1>2. ASSUME NEW s \in SignIn, Begin(s) \/ CreateAccountFails(s) \/ Dies(s) PROVE ProvisioningInv'
    BY <1>2, BeginOK, CreateAccountFailsOK, DiesOK
  <1>3. ASSUME NEW u \in User, EndSession(u) \/ GrowOld(u) \/ RemoveUser(u) PROVE ProvisioningInv'
    BY <1>3, EndSessionOK, GrowOldOK, RemoveUserOK
  <1>4. CASE UNCHANGED vars
    <2>1. UNCHANGED <<users, link, sessions, accounts, identity, mapping, browser, crossed>>
      BY <1>4 DEF vars, rows, domain
    <2>2. TypeOK'
      BY <1>4 DEF ProvisioningInv, TypeOK, vars, rows, domain
    <2> QED
      BY <2>1, <2>2, Ages DEF Exists, domain
  <1> QED
    BY <1>1, <1>2, <1>3, <1>4 DEF Next

(* The invariant behind both: what each sign-in has found, made and still    *)
(* owes, against the rows of users, links, accounts and identities.          *)
THEOREM ProvisioningInvHolds == Spec => []ProvisioningInv
PROOF
  <1> QED
    BY ProvisioningInvInit, ProvisioningInvNext, PTL DEF Spec

(* However the sign-ins overlap, fail or die, and whoever is removed by hand: *)
(* every account keeps its identity, and no two subjects share an account.    *)
THEOREM OneAccountPerSubjectHolds == Spec => []OneAccountPerSubject
PROOF
  <1>1. ProvisioningInv => OneAccountPerSubject
    BY DEF ProvisioningInv, RowsOK
  <1> QED
    BY <1>1, ProvisioningInvHolds, PTL

(* A browser session is stored with its domain account in place, mapped to    *)
(* its user as long as no user was removed in the middle of a sign-in.        *)
THEOREM SessionsAreProvisionedHolds == Spec => []SessionsAreProvisioned
PROOF
  <1>1. ProvisioningInv => SessionsAreProvisioned
    BY DEF ProvisioningInv, RowsOK
  <1> QED
    BY <1>1, ProvisioningInvHolds, PTL
=============================================================================
