-------------------------- MODULE EventFlowProofs --------------------------
(***************************************************************************)
(* Followers of an endpoint, any number of them, over any number of events *)
(* and connections: no connection sends an event twice, and no cursor      *)
(* passes an event that was neither printed nor given up.  What FoldLeft   *)
(* and the list of events compute comes first, then the invariant, then    *)
(* what each operation makes of one connection, then the steps.            *)
(***************************************************************************)
EXTENDS EventFlow, FiniteSetTheorems, WellFoundedInduction, TLAPS

(* Induction up to n, over a set instead of a predicate. *)
LEMMA UpTo ==
  ASSUME NEW n \in Nat, NEW G, 0 \in G, \A k \in 1 .. n : k - 1 \in G => k \in G
  PROVE  \A k \in 0 .. n : k \in G
PROOF
  <1> DEFINE T == (0 .. n) \ G
  <1>1. SUFFICES ASSUME T # {} PROVE FALSE
    OBVIOUS
  <1>2. PICK m \in T : \A k \in T : ~(<<k, m>> \in OpToRel(<, Nat))
    <2>1. T \subseteq Nat
      OBVIOUS
    <2> QED
      BY <1>1, <2>1, NatLessThanWellFounded, WFMin
  <1>3. m \in 1 .. n
    <2>1. m \in 0 .. n /\ m \notin G
      BY <1>2
    <2>2. m # 0
      BY <2>1
    <2> QED
      BY <2>1, <2>2
  <1>4. m - 1 \in 0 .. n /\ m - 1 < m
    BY <1>3
  <1>5. <<m - 1, m>> \in OpToRel(<, Nat)
    BY <1>3, <1>4 DEF OpToRel
  <1>6. m - 1 \in G
    BY <1>2, <1>4, <1>5
  <1> QED
    BY <1>2, <1>3, <1>6

-----------------------------------------------------------------------------
(* flushBuffered: what FoldLeft makes of Pass, one message after the other *)

Folding(c, s, g, n) ==
  g = [T \in SUBSET (1 .. n) |-> IF T = {} THEN c ELSE Pass(g[T \ {Max(T)}], s[Max(T)])]

LEMMA MaxIn ==
  ASSUME NEW n \in Nat, NEW T \in SUBSET (1 .. n), T # {}
  PROVE  /\ Max(T) \in T /\ \A k \in T : k <= Max(T)
         /\ T \ {Max(T)} \in SUBSET (1 .. (n - 1))
PROOF
  <1> DEFINE G == {k \in 0 .. n : (\E x \in T : x > n - k) =>
                                     \E x \in T : \A y \in T : x >= y}
  <1>1. 0 \in G
    OBVIOUS
  <1>2. ASSUME NEW k \in 1 .. n, k - 1 \in G PROVE k \in G
    <2>1. CASE \E x \in T : x > n - (k - 1)
      BY <1>2, <2>1 DEF G
    <2>2. CASE ~\E x \in T : x > n - (k - 1)
      <3>1. ASSUME NEW x \in T, x > n - k
            PROVE  \A y \in T : x >= y
        <4> TAKE y \in T
        <4>1. x \in 1 .. n /\ y \in 1 .. n /\ ~(y > n - (k - 1))
          BY <2>2
        <4> QED
          BY <3>1, <4>1
      <3> QED
        BY <3>1
    <2> QED
      BY <2>1, <2>2
  <1>3. n \in G
    <2> HIDE DEF G
    <2> QED
      BY <1>1, <1>2, UpTo
  <1>4. \E x \in T : \A y \in T : x >= y
    <2>1. PICK x \in T : x \in 1 .. n
      OBVIOUS
    <2>2. x > n - n
      BY <2>1
    <2> QED
      BY <1>3, <2>2
  <1>5. Max(T) \in T /\ \A y \in T : Max(T) >= y
    BY <1>4 DEF Max
  <1>6. Max(T) \in 1 .. n /\ \A y \in T : y \in 1 .. n
    BY <1>5
  <1>7. \A k \in T : k <= Max(T)
    BY <1>5, <1>6
  <1>8. \A k \in T \ {Max(T)} : k \in 1 .. (n - 1)
    BY <1>5, <1>6, <1>7
  <1> QED
    BY <1>5, <1>7, <1>8

LEMMA FoldExists ==
  ASSUME NEW c, NEW s, NEW n \in Nat
  PROVE  \E g : Folding(c, s, g, n)
PROOF
  <1> DEFINE G == {k \in 0 .. n : \E g : Folding(c, s, g, k)}
  <1>1. 0 \in G
    <2> DEFINE g == [T \in SUBSET (1 .. 0) |-> c]
    <2>1. Folding(c, s, g, 0)
      <3>1. SUBSET (1 .. 0) = {{}}
        OBVIOUS
      <3> QED
        BY <3>1 DEF Folding
    <2> QED
      BY <2>1
  <1>2. ASSUME NEW k \in 1 .. n, k - 1 \in G PROVE k \in G
    <2>1. PICK g : Folding(c, s, g, k - 1)
      BY <1>2
    <2> DEFINE h == [T \in SUBSET (1 .. k) |->
                       IF T = {} THEN c ELSE Pass(g[T \ {Max(T)}], s[Max(T)])]
    <2>2. ASSUME NEW U \in SUBSET (1 .. (k - 1)) PROVE h[U] = g[U]
      <3>1. U \in SUBSET (1 .. k)
        OBVIOUS
      <3>2. g[U] = IF U = {} THEN c ELSE Pass(g[U \ {Max(U)}], s[Max(U)])
        BY <2>1 DEF Folding
      <3> QED
        BY <3>1, <3>2
    <2>3. ASSUME NEW T \in SUBSET (1 .. k), T # {}
          PROVE  h[T \ {Max(T)}] = g[T \ {Max(T)}]
      <3>1. T \ {Max(T)} \in SUBSET (1 .. (k - 1))
        BY <2>3, MaxIn
      <3> QED
        BY <2>2, <3>1
    <2>4. h = [T \in SUBSET (1 .. k) |->
                 IF T = {} THEN c ELSE Pass(h[T \ {Max(T)}], s[Max(T)])]
      BY <2>3
    <2>5. Folding(c, s, h, k)
      BY <2>4 DEF Folding
    <2> QED
      BY <2>5
  <1>3. n \in G
    <2> HIDE DEF G
    <2> QED
      BY <1>1, <1>2, UpTo
  <1> QED
    BY <1>3

(* The connection after the first k messages of s. *)
Passed(c, s, k) == (CHOOSE g : Folding(c, s, g, Len(s)))[1 .. k]

LEMMA FoldPasses ==
  ASSUME NEW c, NEW s \in Seq(Event)
  PROVE  /\ FoldLeft(Pass, c, s) = Passed(c, s, Len(s))
         /\ Passed(c, s, 0) = c
         /\ \A k \in 1 .. Len(s) : Passed(c, s, k) = Pass(Passed(c, s, k - 1), s[k])
PROOF
  <1> DEFINE n == Len(s)
             g == CHOOSE f : Folding(c, s, f, Len(s))
  <1>1. n \in Nat /\ DOMAIN s = 1 .. n
    OBVIOUS
  <1>2. Folding(c, s, g, n)
    BY <1>1, FoldExists
  <1>3. FoldLeft(Pass, c, s) = Passed(c, s, n)
    BY <1>1 DEF FoldLeft, MapThenFoldSet, Folding, Passed
  <1>4. Passed(c, s, 0) = c
    <2>1. 1 .. 0 = {} /\ {} \in SUBSET (1 .. n)
      OBVIOUS
    <2> QED
      BY <1>2, <2>1 DEF Folding, Passed
  <1>5. ASSUME NEW k \in 1 .. n
        PROVE  Passed(c, s, k) = Pass(Passed(c, s, k - 1), s[k])
    <2> DEFINE T == 1 .. k
    <2>1. /\ T \in SUBSET (1 .. n) /\ T # {} /\ k \in T
          /\ \A j \in T : j <= k
      <3>1. \A j \in 1 .. k : j \in 1 .. n /\ j <= k
        BY <1>1
      <3> QED
        BY <3>1
    <2>2. Max(T) = k
      <3>1. Max(T) \in T /\ \A j \in T : j <= Max(T)
        BY <1>1, <2>1, MaxIn
      <3> QED
        BY <2>1, <3>1
    <2>3. T \ {k} = 1 .. (k - 1)
      OBVIOUS
    <2>4. g[T] = Pass(g[T \ {Max(T)}], s[Max(T)])
      BY <1>2, <2>1 DEF Folding
    <2> QED
      BY <2>2, <2>3, <2>4 DEF Passed
  <1> QED
    BY <1>3, <1>4, <1>5

(* What was sent is what counts as delivered, each event once. *)
Tidy(c) == c.delivered = ToSet(c.sent) /\ IsInjective(c.sent)
Before(q, i) == {q[l] : l \in 1 .. (i - 1)}
SameBut(c, d) ==
  /\ d.state = c.state /\ d.catchUp = c.catchUp /\ d.after = c.after /\ d.page = c.page
  /\ d.loaded = c.loaded /\ d.buffering = c.buffering /\ d.buffered = c.buffered
  /\ d.read = c.read

LEMMA PassDoes ==
  ASSUME NEW c \in Connection, NEW e \in Event, Tidy(c)
  PROVE  /\ Pass(c, e) \in Connection /\ SameBut(c, Pass(c, e)) /\ Tidy(Pass(c, e))
         /\ Pass(c, e).delivered = c.delivered \cup {e}
         /\ IF e \in c.delivered THEN Pass(c, e) = c ELSE Pass(c, e).sent = Append(c.sent, e)
PROOF
  <1>1. CASE e \in c.delivered
    <2>1. Pass(c, e) = c
      BY <1>1 DEF Pass
    <2> QED
      BY <1>1, <2>1 DEF SameBut
  <1>2. CASE e \notin c.delivered
    <2> DEFINE d == [c EXCEPT !.delivered = @ \cup {e}, !.sent = Append(@, e)]
    <2>1. Pass(c, e) = d
      BY <1>2 DEF Pass
    <2>2. /\ d \in Connection /\ SameBut(c, d) /\ d.delivered = c.delivered \cup {e}
          /\ d.sent = Append(c.sent, e) /\ c.sent \in Seq(Event)
      <3>1. c.sent \in Seq(Event) /\ c.delivered \in SUBSET Event
        BY DEF Connection
      <3>2. Append(c.sent, e) \in Seq(Event) /\ c.delivered \cup {e} \in SUBSET Event
        BY <3>1
      <3>3. d \in Connection
        BY <3>2 DEF Connection
      <3>4. SameBut(c, d) /\ d.delivered = c.delivered \cup {e} /\ d.sent = Append(c.sent, e)
        BY DEF Connection, SameBut
      <3> QED
        BY <3>1, <3>3, <3>4
    <2> HIDE DEF d
    <2>3. ToSet(Append(c.sent, e)) = ToSet(c.sent) \cup {e}
      BY <2>2 DEF ToSet
    <2>4. IsInjective(Append(c.sent, e))
      <3>1. ASSUME NEW a \in 1 .. Len(c.sent) + 1, NEW b \in 1 .. Len(c.sent) + 1,
                   Append(c.sent, e)[a] = Append(c.sent, e)[b], a < b
            PROVE  FALSE
        <4>1. CASE b = Len(c.sent) + 1
          <5>1. a \in DOMAIN c.sent /\ c.sent[a] = e
            BY <2>2, <3>1, <4>1
          <5> QED
            BY <1>2, <5>1 DEF Tidy, ToSet
        <4>2. CASE b # Len(c.sent) + 1
          <5>1. a \in DOMAIN c.sent /\ b \in DOMAIN c.sent /\ c.sent[a] = c.sent[b]
            BY <2>2, <3>1, <4>2
          <5> QED
            BY <3>1, <5>1 DEF Tidy, IsInjective
        <4> QED
          BY <4>1, <4>2
      <3>2. DOMAIN Append(c.sent, e) = 1 .. Len(c.sent) + 1 /\ Len(c.sent) \in Nat
        BY <2>2
      <3>3. \A a, b \in 1 .. Len(c.sent) + 1 :
              Append(c.sent, e)[a] = Append(c.sent, e)[b] => ~(a < b) /\ ~(b < a)
        BY <3>1
      <3> QED
        BY <3>2, <3>3 DEF IsInjective
    <2> QED
      BY <1>2, <2>1, <2>2, <2>3, <2>4 DEF Tidy
  <1> QED
    BY <1>1, <1>2

(* After k messages of s each is delivered, and each event newly sent comes  *)
(* after whatever stands before it in s.                                     *)
Grown(c, s, k, d) ==
  /\ d \in Connection /\ SameBut(c, d) /\ Tidy(d)
  /\ d.delivered = c.delivered \cup Before(s, k + 1)
  /\ Len(c.sent) <= Len(d.sent) /\ \A i \in 1 .. Len(c.sent) : d.sent[i] = c.sent[i]
  /\ \A i \in (Len(c.sent) + 1) .. Len(d.sent) :
       \E j \in 1 .. k : d.sent[i] = s[j] /\ Before(s, j) \subseteq c.delivered \cup Before(d.sent, i)

LEMMA GrownStep ==
  ASSUME NEW c \in Connection, NEW s \in Seq(Event), NEW k \in 1 .. Len(s), NEW b, NEW d,
         Grown(c, s, k - 1, b), d = Pass(b, s[k])
  PROVE  Grown(c, s, k, d)
PROOF
  <1>1. s[k] \in Event /\ Len(c.sent) \in Nat
    BY DEF Connection
  <1>2. b \in Connection /\ Tidy(b)
    BY DEF Grown
  <1>3. /\ d \in Connection /\ SameBut(b, d) /\ Tidy(d) /\ d.delivered = b.delivered \cup {s[k]}
        /\ IF s[k] \in b.delivered THEN d = b ELSE d.sent = Append(b.sent, s[k])
    BY <1>1, <1>2, PassDoes
  <1>4. Before(s, k + 1) = Before(s, (k - 1) + 1) \cup {s[k]}
    <2>1. 1 .. ((k + 1) - 1) = 1 .. (((k - 1) + 1) - 1) \cup {k}
      OBVIOUS
    <2> QED
      BY <2>1 DEF Before
  <1>5. SameBut(c, d)
    BY <1>3 DEF Grown, SameBut
  <1>6. d.delivered = c.delivered \cup Before(s, k + 1)
    BY <1>3, <1>4 DEF Grown
  <1>7. CASE s[k] \in b.delivered
    <2>1. d = b
      BY <1>3, <1>7
    <2>2. \A i \in (Len(c.sent) + 1) .. Len(d.sent) :
            \E j \in 1 .. k :
              d.sent[i] = s[j] /\ Before(s, j) \subseteq c.delivered \cup Before(d.sent, i)
      BY <2>1, 1 .. (k - 1) \subseteq 1 .. k DEF Grown
    <2>3. Len(c.sent) <= Len(d.sent) /\ \A i \in 1 .. Len(c.sent) : d.sent[i] = c.sent[i]
      BY <2>1 DEF Grown
    <2> QED
      BY <1>3, <1>5, <1>6, <2>2, <2>3 DEF Grown
  <1>8. CASE s[k] \notin b.delivered
    <2>1. /\ d.sent = Append(b.sent, s[k]) /\ b.sent \in Seq(Event) /\ Len(b.sent) \in Nat
          /\ Len(c.sent) <= Len(b.sent)
      <3>1. d.sent = Append(b.sent, s[k])
        BY <1>3, <1>8
      <3>2. b.sent \in Seq(Event)
        BY <1>2 DEF Connection
      <3>3. Len(c.sent) <= Len(b.sent)
        BY DEF Grown
      <3> QED
        BY <3>1, <3>2, <3>3
    <2>2. /\ Len(d.sent) = Len(b.sent) + 1 /\ d.sent[Len(b.sent) + 1] = s[k]
          /\ \A i \in 1 .. Len(b.sent) : d.sent[i] = b.sent[i]
      BY <1>1, <2>1
    <2>3. Before(s, k) \subseteq c.delivered \cup Before(d.sent, Len(d.sent))
      <3>1. Before(s, k) \subseteq ToSet(b.sent)
        BY DEF Grown, Tidy, Before
      <3>2. Len(d.sent) - 1 = Len(b.sent) /\ DOMAIN b.sent = 1 .. Len(b.sent)
        BY <2>1, <2>2
      <3>3. Before(d.sent, Len(d.sent)) = ToSet(b.sent)
        BY <2>2, <3>2 DEF Before, ToSet
      <3> QED
        BY <3>1, <3>3
    <2>4. ASSUME NEW i \in (Len(c.sent) + 1) .. Len(b.sent)
          PROVE  \E j \in 1 .. k : /\ d.sent[i] = s[j]
                                   /\ Before(s, j) \subseteq c.delivered \cup Before(d.sent, i)
      <3>1. PICK j \in 1 .. (k - 1) : /\ b.sent[i] = s[j]
                                      /\ Before(s, j) \subseteq c.delivered \cup Before(b.sent, i)
        BY DEF Grown
      <3>2. i \in 1 .. Len(b.sent) /\ j \in 1 .. k
        BY <1>1, <2>1
      <3>3. \A l \in 1 .. (i - 1) : d.sent[l] = b.sent[l]
        BY <2>1, <2>2, <3>2
      <3>4. Before(d.sent, i) = Before(b.sent, i)
        BY <3>3 DEF Before
      <3> QED
        BY <2>2, <3>1, <3>2, <3>4
    <2>5. Len(c.sent) <= Len(d.sent) /\ \A i \in 1 .. Len(c.sent) : d.sent[i] = c.sent[i]
      <3>1. \A i \in 1 .. Len(c.sent) : i \in 1 .. Len(b.sent) /\ b.sent[i] = c.sent[i]
        BY <1>1, <2>1 DEF Grown
      <3> QED
        BY <1>1, <2>1, <2>2, <3>1
    <2>6. \A i \in (Len(c.sent) + 1) .. Len(d.sent) :
            \E j \in 1 .. k : /\ d.sent[i] = s[j]
                              /\ Before(s, j) \subseteq c.delivered \cup Before(d.sent, i)
      <3> TAKE i \in (Len(c.sent) + 1) .. Len(d.sent)
      <3>1. CASE i = Len(d.sent)
        BY <2>2, <2>3, <3>1
      <3>2. CASE i # Len(d.sent)
        <4>1. i \in (Len(c.sent) + 1) .. Len(b.sent)
          BY <1>1, <2>1, <2>2, <3>2
        <4> QED
          BY <2>4, <4>1
      <3> QED
        BY <3>1, <3>2
    <2> QED
      BY <1>3, <1>5, <1>6, <2>5, <2>6 DEF Grown
  <1> QED
    BY <1>7, <1>8

LEMMA FlushGrows ==
  ASSUME NEW c \in Connection, NEW s \in Seq(Event), Tidy(c)
  PROVE  Grown(c, s, Len(s), FoldLeft(Pass, c, s))
PROOF
  <1> DEFINE G == {k \in 0 .. Len(s) : Grown(c, s, k, Passed(c, s, k))}
  <1>0. Len(s) \in Nat /\ Len(c.sent) \in Nat
    BY DEF Connection
  <1>1. 0 \in G
    <2>1. Before(s, 0 + 1) = {} /\ (Len(c.sent) + 1) .. Len(c.sent) = {}
      BY <1>0 DEF Before
    <2>2. Grown(c, s, 0, c)
      BY <1>0, <2>1 DEF Grown, SameBut
    <2>3. Passed(c, s, 0) = c
      BY FoldPasses
    <2> QED
      BY <1>0, <2>2, <2>3
  <1>2. ASSUME NEW k \in 1 .. Len(s), k - 1 \in G PROVE k \in G
    <2>1. Passed(c, s, k) = Pass(Passed(c, s, k - 1), s[k])
      BY FoldPasses
    <2>2. Grown(c, s, k - 1, Passed(c, s, k - 1))
      BY <1>2
    <2>3. Grown(c, s, k, Passed(c, s, k))
      BY <2>1, <2>2, GrownStep
    <2> QED
      BY <1>0, <2>3
  <1>3. Len(s) \in G
    <2>1. \A k \in 1 .. Len(s) : k - 1 \in G => k \in G
      BY <1>2
    <2> HIDE DEF G
    <2>2. \A k \in 0 .. Len(s) : k \in G
      BY <1>0, <1>1, <2>1, UpTo
    <2>3. Len(s) \in 0 .. Len(s)
      BY <1>0
    <2> QED
      BY <2>2, <2>3
  <1> QED
    BY <1>3, FoldPasses

-----------------------------------------------------------------------------
(* Sequences of events in an order that owes nothing: whatever comes before *)
(* an event is in the past, or stands before it.                            *)

Ordered(q, past) ==
  \A i \in DOMAIN q : \A e \in Event : e < q[i] => e \in past \cup Before(q, i)

LEMMA OrderedAppend ==
  ASSUME NEW q \in Seq(Event), NEW past, Ordered(q, past), NEW e \in Event,
         \A d \in Event : d < e => d \in past \cup ToSet(q)
  PROVE  Ordered(Append(q, e), past)
PROOF
  <1>1. /\ DOMAIN Append(q, e) = 1 .. (Len(q) + 1) /\ Append(q, e)[Len(q) + 1] = e
        /\ \A i \in 1 .. Len(q) : Append(q, e)[i] = q[i]
        /\ DOMAIN q = 1 .. Len(q) /\ Len(q) \in Nat
    OBVIOUS
  <1>2. ASSUME NEW i \in 1 .. Len(q)
        PROVE  Before(Append(q, e), i) = Before(q, i)
    <2>1. \A l \in 1 .. (i - 1) : Append(q, e)[l] = q[l]
      BY <1>1
    <2> QED
      BY <2>1 DEF Before
  <1>3. Before(Append(q, e), Len(q) + 1) = ToSet(q)
    <2>1. (Len(q) + 1) - 1 = Len(q)
      BY <1>1
    <2> QED
      BY <1>1, <2>1 DEF Before, ToSet
  <1>4. ASSUME NEW i \in 1 .. (Len(q) + 1), NEW d \in Event, d < Append(q, e)[i]
        PROVE  d \in past \cup Before(Append(q, e), i)
    <2>1. CASE i = Len(q) + 1
      BY <1>1, <1>3, <1>4, <2>1
    <2>2. CASE i # Len(q) + 1
      <3>1. i \in 1 .. Len(q)
        BY <1>1, <2>2
      <3> QED
        BY <1>1, <1>2, <1>4, <3>1 DEF Ordered
    <2> QED
      BY <2>1, <2>2
  <1> QED
    BY <1>1, <1>4 DEF Ordered

LEMMA OrderedHead ==
  ASSUME NEW q \in Seq(Event), NEW past, Ordered(q, past), q # <<>>
  PROVE  /\ Head(q) \in Event /\ Tail(q) \in Seq(Event)
         /\ ToSet(q) = {Head(q)} \cup ToSet(Tail(q))
         /\ \A d \in Event : d < Head(q) => d \in past
         /\ Ordered(Tail(q), past \cup {Head(q)})
PROOF
  <1>1. /\ Len(q) \in Nat \ {0} /\ DOMAIN q = 1 .. Len(q) /\ Head(q) = q[1] /\ Head(q) \in Event
        /\ Tail(q) \in Seq(Event) /\ Len(Tail(q)) = Len(q) - 1
        /\ DOMAIN Tail(q) = 1 .. (Len(q) - 1)
        /\ \A i \in 1 .. (Len(q) - 1) : Tail(q)[i] = q[i + 1]
    OBVIOUS
  <1>2. ToSet(q) = {Head(q)} \cup ToSet(Tail(q))
    <2>1. ASSUME NEW i \in 1 .. Len(q), i # 1
          PROVE  q[i] \in ToSet(Tail(q))
      <3>1. i - 1 \in 1 .. (Len(q) - 1) /\ (i - 1) + 1 = i
        BY <1>1, <2>1
      <3>2. q[i] = Tail(q)[i - 1] /\ i - 1 \in DOMAIN Tail(q)
        BY <1>1, <3>1
      <3> QED
        BY <3>2 DEF ToSet
    <2>2. ASSUME NEW i \in 1 .. (Len(q) - 1)
          PROVE  Tail(q)[i] \in ToSet(q)
      <3>1. i + 1 \in DOMAIN q /\ Tail(q)[i] = q[i + 1]
        BY <1>1
      <3> QED
        BY <3>1 DEF ToSet
    <2>3. Head(q) \in ToSet(q)
      BY <1>1 DEF ToSet
    <2>4. \A x \in ToSet(q) : x = Head(q) \/ x \in ToSet(Tail(q))
      BY <1>1, <2>1 DEF ToSet
    <2>5. \A x \in ToSet(Tail(q)) : x \in ToSet(q)
      BY <1>1, <2>2 DEF ToSet
    <2> QED
      BY <2>3, <2>4, <2>5
  <1>3. \A d \in Event : d < Head(q) => d \in past
    <2>1. 1 \in DOMAIN q /\ Before(q, 1) = {}
      BY <1>1 DEF Before
    <2> QED
      BY <1>1, <2>1 DEF Ordered
  <1>4. ASSUME NEW i \in 1 .. (Len(q) - 1), NEW d \in Event, d < Tail(q)[i]
        PROVE  d \in past \cup {Head(q)} \cup Before(Tail(q), i)
    <2>1. i + 1 \in DOMAIN q /\ Tail(q)[i] = q[i + 1]
      BY <1>1
    <2>2. d \in past \cup Before(q, i + 1)
      BY <1>4, <2>1 DEF Ordered
    <2>3. ASSUME NEW l \in 1 .. ((i + 1) - 1), l # 1
          PROVE  q[l] \in Before(Tail(q), i)
      <3>1. l - 1 \in 1 .. (i - 1) /\ l - 1 \in 1 .. (Len(q) - 1) /\ (l - 1) + 1 = l
        BY <1>1, <2>3
      <3>2. q[l] = Tail(q)[l - 1]
        BY <1>1, <3>1
      <3> QED
        BY <3>1, <3>2 DEF Before
    <2>4. \A x \in Before(q, i + 1) : x = Head(q) \/ x \in Before(Tail(q), i)
      BY <1>1, <2>3 DEF Before
    <2> QED
      BY <2>2, <2>4
  <1> QED
    BY <1>1, <1>2, <1>3, <1>4 DEF Ordered

LEMMA OrderedFlush ==
  ASSUME NEW c \in Connection, NEW d, Tidy(c), NEW past,
         Grown(c, c.buffered, Len(c.buffered), d),
         Ordered(c.sent, past), Ordered(c.buffered, past \cup ToSet(c.sent))
  PROVE  Ordered(d.sent, past) /\ ToSet(d.sent) = ToSet(c.sent) \cup ToSet(c.buffered)
PROOF
  <1>1. /\ c.sent \in Seq(Event) /\ d.sent \in Seq(Event) /\ c.buffered \in Seq(Event)
        /\ Len(c.sent) \in Nat /\ Len(d.sent) \in Nat
        /\ DOMAIN c.sent = 1 .. Len(c.sent) /\ DOMAIN d.sent = 1 .. Len(d.sent)
        /\ DOMAIN c.buffered = 1 .. Len(c.buffered) /\ Len(c.buffered) \in Nat
    BY DEF Connection, Grown
  <1>2. ToSet(d.sent) = ToSet(c.sent) \cup ToSet(c.buffered)
    <2>1. Before(c.buffered, Len(c.buffered) + 1) = ToSet(c.buffered)
      <3>1. (Len(c.buffered) + 1) - 1 = Len(c.buffered)
        BY <1>1
      <3> QED
        BY <1>1, <3>1 DEF Before, ToSet
    <2> QED
      BY <2>1 DEF Grown, Tidy
  <1>3. ASSUME NEW i \in 1 .. Len(d.sent), NEW e \in Event, e < d.sent[i]
        PROVE  e \in past \cup Before(d.sent, i)
    <2>1. CASE i \in 1 .. Len(c.sent)
      <3>1. d.sent[i] = c.sent[i] /\ \A l \in 1 .. (i - 1) : d.sent[l] = c.sent[l]
        BY <1>1, <2>1 DEF Grown
      <3>2. Before(d.sent, i) = Before(c.sent, i)
        BY <3>1 DEF Before
      <3>3. e \in past \cup Before(c.sent, i)
        BY <1>1, <1>3, <2>1, <3>1 DEF Ordered
      <3> QED
        BY <3>2, <3>3
    <2>2. CASE i \notin 1 .. Len(c.sent)
      <3>1. i \in (Len(c.sent) + 1) .. Len(d.sent)
        BY <1>1, <2>2
      <3>2. PICK j \in 1 .. Len(c.buffered) :
              /\ d.sent[i] = c.buffered[j]
              /\ Before(c.buffered, j) \subseteq c.delivered \cup Before(d.sent, i)
        BY <3>1 DEF Grown
      <3>3. e \in past \cup ToSet(c.sent) \cup Before(c.buffered, j)
        BY <1>1, <1>3, <3>2 DEF Ordered
      <3>4. ToSet(c.sent) \subseteq Before(d.sent, i)
        <4>1. \A l \in 1 .. Len(c.sent) : l \in 1 .. (i - 1) /\ d.sent[l] = c.sent[l]
          BY <1>1, <3>1 DEF Grown
        <4> QED
          BY <1>1, <4>1 DEF ToSet, Before
      <3> QED
        BY <3>2, <3>3, <3>4 DEF Tidy
    <2> QED
      BY <2>1, <2>2
  <1> QED
    BY <1>1, <1>2, <1>3 DEF Ordered

-----------------------------------------------------------------------------
(* The list of events: Ascending puts a set of events in order, and a page   *)
(* is the beginning of that order or, newest first, its end.                 *)

Rank(S, e) == Cardinality({d \in S : d <= e})

LEMMA Events == IsFiniteSet(Event) /\ Event \subseteq Nat \ {0}
PROOF
  <1>1. MaxEvents \in Nat
    BY FeedAssumption
  <1> QED
    BY <1>1, FS_Interval DEF Event

LEMMA RankIs ==
  ASSUME NEW S \in SUBSET Event
  PROVE  /\ IsFiniteSet(S) /\ Cardinality(S) \in Nat
         /\ \A e \in S : Rank(S, e) \in 1 .. Cardinality(S)
         /\ \A d, e \in S : d < e => Rank(S, d) < Rank(S, e)
PROOF
  <1>1. IsFiniteSet(S)
    BY Events, FS_Subset
  <1>2. ASSUME NEW e \in S
        PROVE  /\ IsFiniteSet({d \in S : d <= e})
               /\ Rank(S, e) \in Nat /\ Rank(S, e) <= Cardinality(S) /\ Rank(S, e) # 0
    <2> DEFINE R == {d \in S : d <= e}
    <2>1. R \in SUBSET S /\ e \in R
      BY DEF Event
    <2>2. IsFiniteSet(R) /\ Cardinality(R) <= Cardinality(S)
      BY <1>1, <2>1, FS_Subset
    <2>3. Cardinality(R) \in Nat
      BY <2>2, FS_CardinalityType
    <2>4. Cardinality(R) # 0
      BY <2>1, <2>2, FS_EmptySet
    <2> QED
      BY <2>2, <2>3, <2>4 DEF Rank
  <1>3. ASSUME NEW d \in S, NEW e \in S, d < e
        PROVE  Rank(S, d) < Rank(S, e)
    <2> DEFINE Q == {x \in S : x <= d}
               R == {x \in S : x <= e}
    <2>0. d \in Nat /\ e \in Nat /\ \A x \in S : x \in Nat
      BY Events
    <2>1. Q \in SUBSET R /\ e \in R /\ e \notin Q
      <3>1. \A x \in S : x <= d => x <= e
        BY <1>3, <2>0
      <3>2. e <= e /\ ~(e <= d)
        BY <1>3, <2>0
      <3> QED
        BY <3>1, <3>2
    <2>2. IsFiniteSet(R)
      BY <1>2
    <2>3. Cardinality(Q) <= Cardinality(R) /\ Cardinality(Q) # Cardinality(R)
      BY <2>1, <2>2, FS_Subset
    <2>4. Rank(S, d) \in Nat /\ Rank(S, e) \in Nat
      BY <1>2
    <2> QED
      BY <2>3, <2>4 DEF Rank
  <1>4. Cardinality(S) \in Nat
    BY <1>1, FS_CardinalityType
  <1>5. ASSUME NEW e \in S
        PROVE  Rank(S, e) \in 1 .. Cardinality(S)
    <2>1. Rank(S, e) \in Nat /\ Rank(S, e) <= Cardinality(S) /\ Rank(S, e) # 0
      BY <1>2
    <2> QED
      BY <1>4, <2>1
  <1>6. \A d, e \in S : d < e => Rank(S, d) < Rank(S, e)
    BY <1>3
  <1> QED
    BY <1>1, <1>4, <1>5, <1>6

LEMMA RankTaken ==
  ASSUME NEW S \in SUBSET Event, NEW i \in 1 .. Cardinality(S)
  PROVE  \E e \in S : Rank(S, e) = i
PROOF
  <1>1. SUFFICES ASSUME \A e \in S : Rank(S, e) # i PROVE FALSE
    OBVIOUS
  <1> DEFINE n == Cardinality(S)
             T == (1 .. n) \ {i}
             f == [e \in S |-> Rank(S, e)]
  <1>2. IsFiniteSet(S) /\ n \in Nat
    BY RankIs
  <1>3. IsFiniteSet(1 .. n) /\ Cardinality(1 .. n) = n
    BY <1>2, FS_Interval
  <1>4. IsFiniteSet(T) /\ Cardinality(T) = n - 1
    BY <1>3, FS_RemoveElement
  <1>5. f \in [S -> T]
    BY <1>1, RankIs
  <1>6. Cardinality(T) < Cardinality(S)
    BY <1>2, <1>4
  <1>7. PICK x, y \in S : x # y /\ f[x] = f[y]
    <2> HIDE DEF T, f
    <2> QED
      BY <1>2, <1>4, <1>5, <1>6, FS_PigeonHole
  <1>8. x < y \/ y < x
    BY <1>7 DEF Event
  <1>9. Rank(S, x) \in Nat /\ Rank(S, y) \in Nat /\ Rank(S, x) = Rank(S, y)
    BY <1>7, RankIs
  <1> QED
    BY <1>8, <1>9, RankIs

LEMMA AscendingIs ==
  ASSUME NEW S \in SUBSET Event
  PROVE  /\ Ascending(S) \in Seq(S) /\ Ascending(S) \in Seq(Event)
         /\ Len(Ascending(S)) = Cardinality(S) /\ Cardinality(S) \in Nat
         /\ \A i, j \in 1 .. Cardinality(S) : i < j => Ascending(S)[i] < Ascending(S)[j]
         /\ \A e \in S : \E i \in 1 .. Cardinality(S) : Ascending(S)[i] = e
PROOF
  <1>1. Cardinality(S) \in Nat
    BY RankIs
  <1>2. ASSUME NEW i \in 1 .. Cardinality(S)
        PROVE  Ascending(S)[i] \in S /\ Rank(S, Ascending(S)[i]) = i
    <2>1. \E e \in S : Cardinality({d \in S : d <= e}) = i
      BY RankTaken DEF Rank
    <2>2. Ascending(S)[i] = CHOOSE e \in S : Cardinality({d \in S : d <= e}) = i
      BY DEF Ascending
    <2> QED
      BY <2>1, <2>2 DEF Rank
  <1>3. DOMAIN Ascending(S) = 1 .. Cardinality(S)
    BY DEF Ascending
  <1>4. Ascending(S) \in [1 .. Cardinality(S) -> S]
    <2>1. Ascending(S) = [i \in 1 .. Cardinality(S) |-> Ascending(S)[i]]
      BY DEF Ascending
    <2> QED
      BY <1>2, <2>1
  <1>5. Ascending(S) \in Seq(S) /\ Len(Ascending(S)) = Cardinality(S)
    BY <1>1, <1>4
  <1>6. Ascending(S) \in Seq(Event)
    <2>1. Ascending(S) \in [1 .. Cardinality(S) -> Event]
      BY <1>4
    <2> QED
      BY <1>1, <2>1
  <1>7. ASSUME NEW i \in 1 .. Cardinality(S), NEW j \in 1 .. Cardinality(S), i < j
        PROVE  Ascending(S)[i] < Ascending(S)[j]
    <2> DEFINE a == Ascending(S)[i]
               b == Ascending(S)[j]
    <2>1. a \in S /\ b \in S /\ Rank(S, a) = i /\ Rank(S, b) = j
      BY <1>2
    <2> HIDE DEF a, b
    <2>2. ~(b < a) /\ a # b
      BY <1>7, <2>1, RankIs
    <2>3. a < b
      BY <2>1, <2>2 DEF Event
    <2> QED
      BY <2>3 DEF a, b
  <1>8. ASSUME NEW e \in S
        PROVE  \E i \in 1 .. Cardinality(S) : Ascending(S)[i] = e
    <2> DEFINE i == Rank(S, e)
               a == Ascending(S)[i]
    <2>1. i \in 1 .. Cardinality(S)
      BY RankIs
    <2>2. a \in S /\ Rank(S, a) = Rank(S, e)
      BY <1>2, <2>1
    <2> HIDE DEF a
    <2>3. ~(a < e) /\ ~(e < a)
      BY <2>1, <2>2, RankIs
    <2>4. a = e
      BY <2>2, <2>3 DEF Event
    <2> QED
      BY <2>1, <2>4 DEF a
  <1> QED
    BY <1>1, <1>5, <1>6, <1>7, <1>8

LEMMA PageIs ==
  ASSUME NEW S, NEW s \in Seq(S), NEW limit \in Nat
  PROVE  /\ Page(s, limit) \in Seq(S)
         /\ Len(Page(s, limit)) = IF limit < Len(s) THEN limit ELSE Len(s)
         /\ \A i \in 1 .. Len(Page(s, limit)) : Page(s, limit)[i] = s[i]
PROOF
  <1> DEFINE m == IF limit < Len(s) THEN limit ELSE Len(s)
  <1>1. m \in Nat /\ m <= Len(s)
    OBVIOUS
  <1>2. /\ SubSeq(s, 1, m) \in Seq(S) /\ Len(SubSeq(s, 1, m)) = m
        /\ \A i \in 1 .. m : SubSeq(s, 1, m)[i] = s[i]
    <2> HIDE DEF m
    <2> QED
      BY <1>1
  <1> QED
    BY <1>2 DEF Page

LEMMA ListAfterIs ==
  ASSUME NEW cursor, NEW limit \in Nat \ {0}
  PROVE  LET S == {e \in Event : Row(e) /\ Row(cursor) /\ e > cursor}
             q == ListAfter(cursor, limit) IN
         /\ q \in Seq(Event) /\ ToSet(q) \subseteq S /\ Ordered(q, Event \ S)
         /\ \A e \in S : e \in ToSet(q) \/ (Len(q) = limit /\ e > Last(q))
PROOF
  <1> DEFINE S == {e \in Event : Row(e) /\ Row(cursor) /\ e > cursor}
             n == Cardinality(S)
             s == Ascending(S)
             q == ListAfter(cursor, limit)
  <1>1. S \in SUBSET Event /\ Event \subseteq Nat
    BY Events
  <1>2. q = Page(s, limit)
    BY DEF ListAfter
  <1> HIDE DEF S, q
  <1>3. /\ s \in Seq(S) /\ s \in Seq(Event) /\ Len(s) = n /\ n \in Nat
        /\ \A i, j \in 1 .. n : i < j => s[i] < s[j]
        /\ \A e \in S : \E i \in 1 .. n : s[i] = e
        /\ \A i \in 1 .. n : s[i] \in S /\ s[i] \in Nat
    <2>1. /\ s \in Seq(S) /\ s \in Seq(Event) /\ Len(s) = n /\ n \in Nat
          /\ \A i, j \in 1 .. n : i < j => s[i] < s[j]
          /\ \A e \in S : \E i \in 1 .. n : s[i] = e
      BY <1>1, AscendingIs
    <2> HIDE DEF s, n
    <2>2. \A i \in 1 .. n : s[i] \in S
      BY <2>1
    <2> QED
      BY <1>1, <2>1, <2>2
  <1> HIDE DEF s, n
  <1>4. /\ q \in Seq(S) /\ q \in Seq(Event) /\ Len(q) \in Nat /\ DOMAIN q = 1 .. Len(q)
        /\ Len(q) = IF limit < n THEN limit ELSE n
        /\ \A i \in 1 .. Len(q) : i \in 1 .. n /\ q[i] = s[i]
    <2>1. /\ q \in Seq(S) /\ q \in Seq(Event)
          /\ Len(q) = IF limit < n THEN limit ELSE n
          /\ \A i \in 1 .. Len(q) : q[i] = s[i]
      BY <1>2, <1>3, PageIs
    <2> QED
      BY <1>3, <2>1
  <1>5. ToSet(q) \subseteq S
    BY <1>3, <1>4 DEF ToSet
  <1>6. ASSUME NEW i \in 1 .. Len(q), NEW e \in Event, e < q[i], e \in S
        PROVE  e \in Before(q, i)
    <2>1. PICK k \in 1 .. n : s[k] = e
      BY <1>3, <1>6
    <2>2. i \in 1 .. n /\ q[i] = s[i] /\ s[i] \in Nat /\ e \in Nat
      BY <1>1, <1>3, <1>4
    <2>3. ~(i < k) /\ i # k
      BY <1>3, <1>6, <2>1, <2>2
    <2>4. k \in 1 .. (i - 1) /\ k \in 1 .. Len(q)
      BY <1>4, <2>2, <2>3
    <2> QED
      BY <1>4, <2>1, <2>4 DEF Before
  <1>7. Ordered(q, Event \ S)
    BY <1>4, <1>6 DEF Ordered
  <1>8. ASSUME NEW e \in S, e \notin ToSet(q)
        PROVE  Len(q) = limit /\ e > Last(q)
    <2>1. PICK k \in 1 .. n : s[k] = e
      BY <1>3
    <2>2. k \notin 1 .. Len(q)
      BY <1>4, <1>8, <2>1 DEF ToSet
    <2>3. Len(q) = limit /\ Len(q) < k /\ Len(q) \in 1 .. n
      BY <1>3, <1>4, <2>2
    <2>4. Last(q) = s[Len(q)] /\ s[Len(q)] < s[k]
      BY <1>3, <1>4, <2>3 DEF Last
    <2> QED
      BY <1>3, <2>1, <2>3, <2>4
  <1> QED
    BY <1>4, <1>5, <1>7, <1>8 DEF S, q

LEMMA ListNewestIs ==
  ASSUME NEW limit \in Nat \ {0}
  PROVE  LET S == {e \in Event : Row(e)}
             r == ListNewest(limit)
             q == Reverse(r) IN
         /\ r \in Seq(Event) /\ q \in Seq(Event) /\ ToSet(r) \subseteq S /\ ToSet(q) \subseteq S
         /\ r # <<>> => r[1] \in S
         /\ Ordered(q, (Event \ S) \cup {e \in S : Len(r) = limit /\ e < Last(r)})
PROOF
  <1> DEFINE S == {e \in Event : Row(e)}
             n == Cardinality(S)
             s == Ascending(S)
             t == Reverse(s)
             r == ListNewest(limit)
             m == Len(r)
             q == Reverse(r)
  <1>1. S \in SUBSET Event /\ Event \subseteq Nat
    BY Events
  <1>2. r = Page(t, limit)
    BY DEF ListNewest
  <1> HIDE DEF S, r
  <1>3. /\ s \in Seq(S) /\ Len(s) = n /\ n \in Nat
        /\ \A i, j \in 1 .. n : i < j => s[i] < s[j]
        /\ \A e \in S : \E i \in 1 .. n : s[i] = e
        /\ \A i \in 1 .. n : s[i] \in S /\ s[i] \in Nat
    <2>1. /\ s \in Seq(S) /\ s \in Seq(Event) /\ Len(s) = n /\ n \in Nat
          /\ \A i, j \in 1 .. n : i < j => s[i] < s[j]
          /\ \A e \in S : \E i \in 1 .. n : s[i] = e
      BY <1>1, AscendingIs
    <2> HIDE DEF s, n
    <2>2. \A i \in 1 .. n : s[i] \in S
      BY <2>1
    <2> QED
      BY <1>1, <2>1, <2>2
  <1> HIDE DEF s, n
  <1>4. /\ t \in Seq(S) /\ Len(t) = n
        /\ \A i \in 1 .. n : t[i] = s[(n - i) + 1] /\ (n - i) + 1 \in 1 .. n
    <2>1. t = [i \in 1 .. n |-> s[(n - i) + 1]] /\ \A i \in 1 .. n : (n - i) + 1 \in 1 .. n
      BY <1>3 DEF Reverse
    <2>2. t \in [1 .. n -> S]
      BY <1>3, <2>1
    <2> QED
      BY <1>3, <2>1, <2>2
  <1> HIDE DEF t
  <1>5. /\ r \in Seq(S) /\ m \in Nat /\ m = IF limit < n THEN limit ELSE n
        /\ \A i \in 1 .. m : i \in 1 .. n /\ r[i] = s[(n - i) + 1]
    <2>1. /\ r \in Seq(S) /\ m = IF limit < n THEN limit ELSE n
          /\ \A i \in 1 .. m : r[i] = t[i]
      BY <1>2, <1>4, PageIs
    <2> HIDE DEF m
    <2>2. m \in Nat /\ m <= n
      BY <1>3, <2>1
    <2>3. ASSUME NEW i \in 1 .. m
          PROVE  i \in 1 .. n /\ r[i] = s[(n - i) + 1]
      <3>1. i \in 1 .. n
        BY <1>3, <2>2
      <3> QED
        BY <1>4, <2>1, <3>1
    <2> QED
      BY <2>1, <2>2, <2>3
  <1>6. /\ q \in Seq(S) /\ Len(q) = m
        /\ \A i \in 1 .. m : q[i] = s[(n - m) + i] /\ (n - m) + i \in 1 .. n
    <2>1. q = [i \in 1 .. m |-> r[(m - i) + 1]]
      BY DEF Reverse
    <2>2. ASSUME NEW i \in 1 .. m
          PROVE  r[(m - i) + 1] = s[(n - m) + i] /\ (n - m) + i \in 1 .. n
      <3> HIDE DEF m
      <3>0. m \in Nat /\ n \in Nat /\ m <= n
        BY <1>3, <1>5
      <3>1. /\ (m - i) + 1 \in 1 .. m /\ (n - ((m - i) + 1)) + 1 = (n - m) + i
            /\ (n - m) + i \in 1 .. n
        BY <3>0
      <3>2. r[(m - i) + 1] = s[(n - ((m - i) + 1)) + 1]
        BY <1>5, <3>1
      <3> QED
        BY <3>1, <3>2
    <2>3. q \in [1 .. m -> S]
      BY <1>3, <2>1, <2>2
    <2>4. \A i \in 1 .. m : q[i] = r[(m - i) + 1]
      BY <2>1
    <2> HIDE DEF m, q
    <2>5. q \in Seq(S) /\ Len(q) = m
      BY <1>5, <2>3
    <2> QED
      BY <2>2, <2>4, <2>5
  <1> HIDE DEF q, m
  <1>7. ASSUME NEW i \in 1 .. m, NEW e \in S, e < q[i], e \notin Before(q, i)
        PROVE  m = limit /\ e < Last(r)
    <2>1. PICK k \in 1 .. n : s[k] = e
      BY <1>3
    <2>2. (n - m) + i \in 1 .. n /\ q[i] = s[(n - m) + i] /\ e \in Nat /\ n - m \in Nat
      <3>1. m \in Nat /\ n \in Nat /\ m <= n
        BY <1>3, <1>5
      <3> QED
        BY <1>1, <1>6, <3>1
    <2>3. k < (n - m) + i
      <3>1. ~((n - m) + i < k) /\ (n - m) + i # k
        BY <1>3, <1>7, <2>1, <2>2
      <3> QED
        BY <2>2, <3>1
    <2>4. k <= n - m
      <3>1. SUFFICES ASSUME k > n - m PROVE FALSE
        BY <1>3, <1>5
      <3> DEFINE j == k - (n - m)
      <3>2. j \in 1 .. (i - 1) /\ j \in 1 .. m /\ (n - m) + j = k
        BY <1>3, <1>5, <2>2, <2>3, <3>1
      <3>3. q[j] = e
        BY <1>6, <2>1, <3>2
      <3> QED
        BY <1>7, <3>2, <3>3 DEF Before
    <2>5. m = limit /\ m \in 1 .. n /\ (n - m) + 1 \in 1 .. n /\ k < (n - m) + 1
      BY <1>3, <1>5, <2>2, <2>4
    <2>6. Last(r) = s[(n - m) + 1]
      BY <1>5, <2>5 DEF Last, m
    <2> QED
      BY <1>3, <2>1, <2>5, <2>6
  <1>8. Ordered(q, (Event \ S) \cup {e \in S : m = limit /\ e < Last(r)})
    <2>1. DOMAIN q = 1 .. m
      BY <1>6
    <2> QED
      BY <1>7, <2>1 DEF Ordered
  <1>9. r \in Seq(Event) /\ q \in Seq(Event)
    <2>1. r \in [1 .. m -> S] /\ q \in [1 .. m -> S]
      BY <1>5, <1>6 DEF m
    <2>2. r \in [1 .. m -> Event] /\ q \in [1 .. m -> Event]
      BY <1>1, <2>1
    <2> QED
      BY <1>5, <2>2
  <1>10. ToSet(r) \subseteq S /\ ToSet(q) \subseteq S /\ (r # <<>> => r[1] \in S)
    BY <1>5, <1>6 DEF ToSet
  <1> QED
    BY <1>8, <1>9, <1>10 DEF S, r, m, q

-----------------------------------------------------------------------------
(* The inductive invariant.  For one follower it relates connection c and    *)
(* member m to four sets of events: ins, those inserted; given, those the    *)
(* follower is owed no more; done, those whose request is over; and spared,  *)
(* those whose publication will not reach the member.                        *)

\* what the connection will still list, and what it holds
Listed(c) == {e \in Event : c.catchUp = "list" /\ e > c.after}
Fore(c) == ToSet(c.sent) \cup ToSet(c.page)
Kept(c) == Fore(c) \cup ToSet(c.buffered)
Carried(c, m) == Kept(c) \cup ToSet(m.wire)

Shape(c, m, ins, done) ==
  /\ c \in Connection /\ m \in Member
  /\ IF c.state = "open" THEN m.sequence > 0 /\ Tidy(c) ELSE m = NoMember
  /\ IsInjective(c.sent)
  /\ Carried(c, m) \subseteq ins /\ m.handed \subseteq done
  /\ c.catchUp \in {"list", "send"} <=> c.buffering
  /\ c.page # <<>> => c.catchUp = "send"
  /\ c.buffered # <<>> => c.buffering

\* whatever comes before an event is given, or stands before it on the way
InOrder(c, m, given) ==
  /\ Ordered(c.sent, given)
  /\ Ordered(c.page, given \cup ToSet(c.sent))
  /\ Ordered(c.buffered, given \cup Listed(c) \cup Fore(c))
  /\ Ordered(m.wire, given \cup Listed(c) \cup Kept(c))
  /\ c.catchUp = "list" => \A e \in Event : e <= c.after => e \in given
  /\ c.read <= Len(c.sent) /\ \A i \in 1 .. c.read : c.sent[i] \in given

\* a connection has, or will list, what is not going to be published to it
Spares(c, m, given, spared) ==
  c.state = "open" => spared \subseteq given \cup Listed(c) \cup Carried(c, m)

Good(c, m, ins, given, done, spared) ==
  Shape(c, m, ins, done) /\ InOrder(c, m, given) /\ Spares(c, m, given, spared)

CliGood(p, ins, given) ==
  /\ p \in Process /\ ToSet(p.page) \subseteq ins /\ Ordered(p.page, given)
  /\ \A e \in Event : e <= p.cursor => e \in given

Given(f) ==
  {e \in Event : e <= since[f] \/ e \in cli[f].printed \/ <<f, e>> \in excused \/ held[e] = "gone"}
Done == {e \in Event : request[e].pc = "done"}
Spared(sequence) ==
  {e \in Event : \/ request[e].pc = "done"
                 \/ /\ request[e].pc = "publish" /\ request[e].upTo # NoLimit
                    /\ request[e].upTo < sequence}

FeedOK ==
  /\ \A d, e \in Event : d < e /\ e \in Inserted => d \in Inserted
  /\ \A e \in Event : request[e].pc = "idle" <=> e \notin Inserted
FollowerOK(f) ==
  /\ Good(conn[f], member[f], Inserted, Given(f), Done, Spared(member[f].sequence))
  /\ CliGood(cli[f], Inserted, Given(f))
  /\ member[f].sequence <= top /\ since[f] \in Inserted \cup {NoEvent}

FlowInv == TypeOK /\ FeedOK /\ \A f \in Follower : FollowerOK(f)

LEMMA OrderedGrows ==
  ASSUME NEW q, NEW past, NEW ins, NEW new, Ordered(q, past), ToSet(q) \subseteq ins,
         \A d, e \in Event : d < e /\ e \in ins => d \in ins, ins \subseteq Event,
         \A e \in ins : e \in past => e \in new
  PROVE  Ordered(q, new)
PROOF
  <1> SUFFICES ASSUME NEW i \in DOMAIN q, NEW e \in Event, e < q[i]
               PROVE  e \in new \cup Before(q, i)
    BY DEF Ordered
  <1>1. q[i] \in ins
    BY DEF ToSet
  <1>2. e \in ins
    BY <1>1
  <1> QED
    BY <1>2 DEF Ordered

LEMMA NothingIn ==
  ASSUME NEW q \in Seq(Event), q = <<>>, NEW past
  PROVE  ToSet(q) = {} /\ IsInjective(q) /\ Ordered(q, past)
PROOF
  <1>1. DOMAIN q = {}
    OBVIOUS
  <1> QED
    BY <1>1 DEF ToSet, IsInjective, Ordered

LEMMA AppendSet ==
  ASSUME NEW q \in Seq(Event), NEW e \in Event
  PROVE  Append(q, e) \in Seq(Event) /\ ToSet(Append(q, e)) = ToSet(q) \cup {e}
PROOF
  <1>1. ToSet(Append(q, e)) = ToSet(q) \cup {e}
    <2>1. /\ DOMAIN Append(q, e) = 1 .. (Len(q) + 1) /\ Append(q, e)[Len(q) + 1] = e
          /\ \A i \in 1 .. Len(q) : Append(q, e)[i] = q[i]
          /\ DOMAIN q = 1 .. Len(q) /\ Len(q) \in Nat
      OBVIOUS
    <2>2. 1 .. (Len(q) + 1) = 1 .. Len(q) \cup {Len(q) + 1}
      BY <2>1
    <2> QED
      BY <2>1, <2>2 DEF ToSet
  <1>2. Append(q, e) \in Seq(Event)
    OBVIOUS
  <1> QED
    BY <1>1, <1>2

(* A connection that nothing happens to stays good while the sets grow. *)
LEMMA GoodGrows ==
  ASSUME NEW c, NEW m, NEW ins, NEW given, NEW done, NEW spared,
         Good(c, m, ins, given, done, spared),
         NEW ins2, NEW given2, NEW done2, NEW spared2,
         ins \subseteq ins2, given \subseteq given2, done \subseteq done2,
         c.state = "open" => spared2 \subseteq spared \cup given2 \cup Listed(c) \cup Carried(c, m)
  PROVE  Good(c, m, ins2, given2, done2, spared2)
PROOF
  <1>1. Shape(c, m, ins2, done2)
    BY DEF Good, Shape
  <1>2. \A q, past, new : Ordered(q, past) /\ past \subseteq new => Ordered(q, new)
    BY DEF Ordered
  <1>3. /\ Ordered(c.sent, given) /\ Ordered(c.page, given \cup ToSet(c.sent))
        /\ Ordered(c.buffered, given \cup Listed(c) \cup Fore(c))
        /\ Ordered(m.wire, given \cup Listed(c) \cup Kept(c))
    BY DEF Good, InOrder
  <1>4. /\ Ordered(c.sent, given2) /\ Ordered(c.page, given2 \cup ToSet(c.sent))
        /\ Ordered(c.buffered, given2 \cup Listed(c) \cup Fore(c))
        /\ Ordered(m.wire, given2 \cup Listed(c) \cup Kept(c))
    <2>1. Ordered(c.sent, given2)
      BY <1>2, <1>3
    <2>2. Ordered(c.page, given2 \cup ToSet(c.sent))
      BY <1>2, <1>3
    <2>3. given \cup Listed(c) \cup Fore(c) \subseteq given2 \cup Listed(c) \cup Fore(c)
      OBVIOUS
    <2>4. Ordered(c.buffered, given2 \cup Listed(c) \cup Fore(c))
      BY <1>2, <1>3, <2>3
    <2>5. given \cup Listed(c) \cup Kept(c) \subseteq given2 \cup Listed(c) \cup Kept(c)
      OBVIOUS
    <2>6. Ordered(m.wire, given2 \cup Listed(c) \cup Kept(c))
      BY <1>2, <1>3, <2>5
    <2> QED
      BY <2>1, <2>2, <2>4, <2>6
  <1>5. InOrder(c, m, given2)
    BY <1>4 DEF Good, InOrder
  <1>6. Spares(c, m, given2, spared2)
    BY DEF Good, Spares
  <1> QED
    BY <1>1, <1>5, <1>6 DEF Good

-----------------------------------------------------------------------------
(* What each operation makes of a good connection. *)

Begun(ins) == ins \subseteq Event /\ \A d, e \in Event : d < e /\ e \in ins => d \in ins

(* The fields of a good connection, for the lemmas below. *)
LEMMA GoodFields ==
  ASSUME NEW c, NEW m, NEW ins, NEW given, NEW done, NEW spared,
         Good(c, m, ins, given, done, spared)
  PROVE  /\ c \in Connection /\ m \in Member
         /\ c.sent \in Seq(Event) /\ c.page \in Seq(Event) /\ c.buffered \in Seq(Event)
         /\ m.wire \in Seq(Event) /\ m.sequence \in Nat /\ m.handed \in SUBSET Event
         /\ Carried(c, m) = ToSet(c.sent) \cup ToSet(c.page) \cup ToSet(c.buffered) \cup ToSet(m.wire)
         /\ Kept(c) = ToSet(c.sent) \cup ToSet(c.page) \cup ToSet(c.buffered)
         /\ Fore(c) = ToSet(c.sent) \cup ToSet(c.page)
PROOF
  <1>1. c \in Connection /\ m \in Member
    BY DEF Good, Shape
  <1>2. /\ c.sent \in Seq(Event) /\ c.page \in Seq(Event) /\ c.buffered \in Seq(Event)
        /\ m.wire \in Seq(Event) /\ m.sequence \in Nat /\ m.handed \in SUBSET Event
    BY <1>1 DEF Connection, Member
  <1> QED
    BY <1>1, <1>2 DEF Carried, Kept, Fore

(* ListCatchUp: page q is next, and nothing else is left to list. *)
LEMMA ListGood ==
  ASSUME NEW c, NEW m, NEW ins, NEW given, NEW done, NEW spared,
         Good(c, m, ins, given, done, spared), Begun(ins), spared \subseteq ins,
         c.state = "open", c.catchUp = "list",
         NEW q \in Seq(Event), ToSet(q) \subseteq ins,
         NEW new, given \subseteq new, Ordered(q, new),
         \A e \in ins : e > c.after => e \in new \cup ToSet(q)
  PROVE  Good([c EXCEPT !.catchUp = "send", !.page = q], m, ins, new, done, spared)
PROOF
  <1> DEFINE d == [c EXCEPT !.catchUp = "send", !.page = q]
  <1>1. c \in Connection /\ m \in Member
    BY GoodFields
  <1>2. /\ d \in Connection /\ d.catchUp = "send" /\ d.page = q
        /\ d.state = c.state /\ d.buffering = c.buffering /\ d.buffered = c.buffered
        /\ d.delivered = c.delivered /\ d.sent = c.sent /\ d.read = c.read
    BY <1>1 DEF Connection
  <1> HIDE DEF d
  <1>3. c.page = <<>>
    BY DEF Good, Shape
  <1>4. ToSet(c.page) = {}
    BY <1>3, NothingIn, GoodFields
  <1>5. Listed(d) = {}
    BY <1>2 DEF Listed
  <1>6. \A e \in ins : e \in Listed(c) => e \in new \cup ToSet(q)
    BY DEF Listed
  <1>7. Shape(d, m, ins, done)
    <2>1. Carried(d, m) \subseteq ins
      BY <1>2 DEF Good, Shape, Carried, Kept, Fore
    <2>2. Tidy(d) /\ c.buffering
      BY <1>2 DEF Good, Shape, Tidy
    <2> QED
      BY <1>2, <2>1, <2>2 DEF Good, Shape
  <1>8. InOrder(d, m, new)
    <2>1. Ordered(d.sent, new)
      BY <1>2 DEF Good, InOrder, Ordered
    <2>2. Ordered(d.page, new \cup ToSet(d.sent))
      BY <1>2 DEF Ordered
    <2>3. Ordered(d.buffered, new \cup Listed(d) \cup Fore(d))
      <3> DEFINE past == given \cup Listed(c) \cup Fore(c)
                 then == new \cup Listed(d) \cup Fore(d)
      <3>1. Ordered(c.buffered, past) /\ ToSet(c.buffered) \subseteq ins
        BY DEF Good, InOrder, Shape, Carried, Kept
      <3>2. \A e \in ins : e \in past => e \in then
        BY <1>2, <1>4, <1>6 DEF Fore
      <3> HIDE DEF past, then
      <3>3. Ordered(c.buffered, then)
        BY <3>1, <3>2, OrderedGrows DEF Begun
      <3> QED
        BY <1>2, <3>3 DEF then
    <2>4. Ordered(m.wire, new \cup Listed(d) \cup Kept(d))
      <3> DEFINE past == given \cup Listed(c) \cup Kept(c)
                 then == new \cup Listed(d) \cup Kept(d)
      <3>1. Ordered(m.wire, past) /\ ToSet(m.wire) \subseteq ins
        BY DEF Good, InOrder, Shape, Carried
      <3>2. \A e \in ins : e \in past => e \in then
        BY <1>2, <1>4, <1>6 DEF Kept, Fore
      <3> HIDE DEF past, then
      <3>3. Ordered(m.wire, then)
        BY <3>1, <3>2, OrderedGrows DEF Begun
      <3> QED
        BY <3>3 DEF then
    <2>5. d.read <= Len(d.sent) /\ \A i \in 1 .. d.read : d.sent[i] \in new
      BY <1>2 DEF Good, InOrder
    <2> QED
      BY <1>2, <2>1, <2>2, <2>3, <2>4, <2>5 DEF InOrder
  <1>9. Spares(d, m, new, spared)
    <2>1. spared \subseteq given \cup Listed(c) \cup Carried(c, m)
      BY DEF Good, Spares
    <2>2. Carried(d, m) = Carried(c, m) \cup ToSet(q)
      BY <1>2, <1>4 DEF Carried, Kept, Fore
    <2> QED
      BY <1>6, <2>1, <2>2 DEF Spares
  <1> QED
    BY <1>7, <1>8, <1>9 DEF Good, d

LEMMA LoadGood ==
  ASSUME NEW c, NEW m, NEW ins, NEW given, NEW done, NEW spared,
         Good(c, m, ins, given, done, spared), NEW loaded \in SUBSET Event
  PROVE  Good([c EXCEPT !.loaded = loaded], m, ins, given, done, spared)
PROOF
  <1> DEFINE d == [c EXCEPT !.loaded = loaded]
  <1>1. c \in Connection
    BY GoodFields
  <1>2. /\ d \in Connection /\ d.state = c.state /\ d.catchUp = c.catchUp /\ d.after = c.after
        /\ d.page = c.page /\ d.buffering = c.buffering /\ d.buffered = c.buffered
        /\ d.delivered = c.delivered /\ d.sent = c.sent /\ d.read = c.read
    BY <1>1 DEF Connection
  <1> HIDE DEF d
  <1>3. Listed(d) = Listed(c) /\ Fore(d) = Fore(c) /\ Kept(d) = Kept(c) /\ Carried(d, m) = Carried(c, m)
    BY <1>2 DEF Listed, Fore, Kept, Carried
  <1>4. Shape(d, m, ins, done)
    BY <1>2, <1>3 DEF Good, Shape, Tidy
  <1>5. InOrder(d, m, given)
    BY <1>2, <1>3 DEF Good, InOrder
  <1>6. Spares(d, m, given, spared)
    BY <1>2, <1>3 DEF Good, Spares
  <1> QED
    BY <1>4, <1>5, <1>6 DEF Good, d

(* CatchUpSend: the page's head moves to what was sent. *)
LEMMA SendGood ==
  ASSUME NEW c, NEW m, NEW ins, NEW given, NEW done, NEW spared,
         Good(c, m, ins, given, done, spared),
         c.state = "open", c.catchUp = "send", c.page # <<>>,
         NEW loaded \in SUBSET Event
  PROVE  Good([Pass(c, Head(c.page)) EXCEPT !.page = Tail(@), !.loaded = loaded], m, ins, given, done, spared)
PROOF
  <1> DEFINE e == Head(c.page)
             b == Pass(c, e)
             d == [b EXCEPT !.page = Tail(@), !.loaded = loaded]
  <1>1. c \in Connection /\ m \in Member /\ c.sent \in Seq(Event) /\ c.page \in Seq(Event)
    BY GoodFields
  <1>2. Ordered(c.page, given \cup ToSet(c.sent)) /\ Ordered(c.sent, given)
    BY DEF Good, InOrder
  <1>3. /\ e \in Event /\ Tail(c.page) \in Seq(Event) /\ ToSet(c.page) = {e} \cup ToSet(Tail(c.page))
        /\ \A x \in Event : x < e => x \in given \cup ToSet(c.sent)
        /\ Ordered(Tail(c.page), (given \cup ToSet(c.sent)) \cup {e})
    BY <1>1, <1>2, OrderedHead
  <1>4. Tidy(c)
    BY DEF Good, Shape
  <1> HIDE DEF e
  <1>5. /\ b \in Connection /\ SameBut(c, b) /\ Tidy(b) /\ b.delivered = c.delivered \cup {e}
        /\ IF e \in c.delivered THEN b = c ELSE b.sent = Append(c.sent, e)
    BY <1>1, <1>3, <1>4, PassDoes
  <1> HIDE DEF b
  <1>6. /\ d \in Connection /\ d.state = c.state /\ d.catchUp = c.catchUp /\ d.after = c.after
        /\ d.page = Tail(c.page) /\ d.buffering = c.buffering /\ d.buffered = c.buffered
        /\ d.delivered = b.delivered /\ d.sent = b.sent /\ d.read = c.read
    <2>1. b.page = c.page
      BY <1>5 DEF SameBut
    <2> QED
      BY <1>3, <1>5, <2>1 DEF Connection, SameBut
  <1> HIDE DEF d
  <1>7. ToSet(d.sent) = ToSet(c.sent) \cup {e}
    BY <1>4, <1>5, <1>6 DEF Tidy
  <1>8. Fore(d) = Fore(c) /\ Kept(d) = Kept(c) /\ Carried(d, m) = Carried(c, m) /\ Listed(d) = Listed(c)
    BY <1>3, <1>6, <1>7 DEF Fore, Kept, Carried, Listed
  <1>9. Shape(d, m, ins, done)
    <2>1. Tidy(d)
      BY <1>5, <1>6 DEF Tidy
    <2> QED
      BY <1>6, <1>8, <2>1 DEF Good, Shape, Tidy
  <1>10. Ordered(d.sent, given)
    <2>1. CASE e \in c.delivered
      BY <1>2, <1>5, <1>6, <2>1
    <2>2. CASE e \notin c.delivered
      <3>1. Ordered(Append(c.sent, e), given)
        BY <1>1, <1>2, <1>3, OrderedAppend
      <3> QED
        BY <1>5, <1>6, <2>2, <3>1
    <2> QED
      BY <2>1, <2>2
  <1>11. Ordered(d.page, given \cup ToSet(d.sent))
    <2>1. (given \cup ToSet(c.sent)) \cup {e} = given \cup ToSet(d.sent)
      BY <1>7
    <2> QED
      BY <1>3, <1>6, <2>1
  <1>12. d.read <= Len(d.sent) /\ \A i \in 1 .. d.read : d.sent[i] \in given
    <2>1. c.read <= Len(c.sent) /\ (\A i \in 1 .. c.read : c.sent[i] \in given) /\ c.read \in Nat
      BY <1>1 DEF Good, InOrder, Connection
    <2>2. CASE e \in c.delivered
      BY <1>5, <1>6, <2>1, <2>2
    <2>3. CASE e \notin c.delivered
      <3>1. d.sent = Append(c.sent, e) /\ d.read = c.read
        BY <1>5, <1>6, <2>3
      <3>2. /\ Len(Append(c.sent, e)) = Len(c.sent) + 1 /\ Len(c.sent) \in Nat
            /\ \A i \in 1 .. Len(c.sent) : Append(c.sent, e)[i] = c.sent[i]
        BY <1>1, <1>3
      <3> QED
        BY <2>1, <3>1, <3>2
    <2> QED
      BY <2>2, <2>3
  <1>13. InOrder(d, m, given)
    BY <1>6, <1>8, <1>10, <1>11, <1>12 DEF Good, InOrder
  <1>14. Spares(d, m, given, spared)
    BY <1>6, <1>8 DEF Good, Spares
  <1> QED
    BY <1>9, <1>13, <1>14 DEF Good, d, b, e

(* CatchUpFlush: the catch-up is over, and the buffer behind what was sent. *)
LEMMA FlushGood ==
  ASSUME NEW c, NEW m, NEW ins, NEW given, NEW done, NEW spared,
         Good(c, m, ins, given, done, spared),
         c.state = "open", c.catchUp = "send", c.page = <<>>
  PROVE  Good([FoldLeft(Pass, c, c.buffered) EXCEPT
                 !.catchUp = "done", !.buffering = FALSE, !.buffered = <<>>],
              m, ins, given, done, spared)
PROOF
  <1> DEFINE b == FoldLeft(Pass, c, c.buffered)
             d == [b EXCEPT !.catchUp = "done", !.buffering = FALSE, !.buffered = <<>>]
  <1>1. /\ c \in Connection /\ m \in Member /\ c.sent \in Seq(Event) /\ c.page \in Seq(Event)
        /\ c.buffered \in Seq(Event)
    BY GoodFields
  <1>2. Tidy(c)
    BY DEF Good, Shape
  <1>3. Grown(c, c.buffered, Len(c.buffered), b)
    BY <1>1, <1>2, FlushGrows
  <1> HIDE DEF b
  <1>4. ToSet(c.page) = {} /\ Listed(c) = {}
    BY <1>1, NothingIn DEF Listed
  <1>5. Ordered(c.sent, given) /\ Ordered(c.buffered, given \cup ToSet(c.sent))
    <2>1. given \cup Listed(c) \cup Fore(c) = given \cup ToSet(c.sent)
      BY <1>4 DEF Fore
    <2> QED
      BY <2>1 DEF Good, InOrder
  <1>6. Ordered(b.sent, given) /\ ToSet(b.sent) = ToSet(c.sent) \cup ToSet(c.buffered)
    BY <1>1, <1>2, <1>3, <1>5, OrderedFlush
  <1>7. b \in Connection /\ SameBut(c, b) /\ Tidy(b)
    BY <1>3 DEF Grown
  <1>8. /\ d \in Connection /\ d.state = c.state /\ d.catchUp = "done" /\ d.page = <<>>
        /\ d.buffering = FALSE /\ d.buffered = <<>>
        /\ d.delivered = b.delivered /\ d.sent = b.sent /\ d.read = c.read
    <2>1. <<>> \in Seq(Event)
      OBVIOUS
    <2> QED
      BY <1>7, <2>1 DEF Connection, SameBut
  <1> HIDE DEF d
  <1>9. ToSet(d.page) = {} /\ ToSet(d.buffered) = {}
    BY <1>8, NothingIn DEF Connection
  <1>10. Fore(d) = Kept(c) /\ Kept(d) = Kept(c) /\ Carried(d, m) = Carried(c, m) /\ Listed(d) = {}
    BY <1>4, <1>6, <1>8, <1>9 DEF Fore, Kept, Carried, Listed
  <1>11. Shape(d, m, ins, done)
    <2>1. Tidy(d)
      BY <1>7, <1>8 DEF Tidy
    <2> QED
      BY <1>8, <1>10, <2>1 DEF Good, Shape, Tidy
  <1>12. d.read <= Len(d.sent) /\ \A i \in 1 .. d.read : d.sent[i] \in given
    <2>1. /\ c.read <= Len(c.sent) /\ (\A i \in 1 .. c.read : c.sent[i] \in given) /\ c.read \in Nat
          /\ Len(c.sent) \in Nat /\ Len(b.sent) \in Nat
      BY <1>1, <1>7 DEF Good, InOrder, Connection
    <2>2. Len(c.sent) <= Len(b.sent) /\ \A i \in 1 .. Len(c.sent) : b.sent[i] = c.sent[i]
      BY <1>3 DEF Grown
    <2> QED
      BY <1>8, <2>1, <2>2
  <1>13. InOrder(d, m, given)
    <2>1. /\ Ordered(d.page, given \cup ToSet(d.sent))
          /\ Ordered(d.buffered, given \cup Listed(d) \cup Fore(d))
      <3>1. DOMAIN d.page = {} /\ DOMAIN d.buffered = {}
        BY <1>8
      <3> QED
        BY <3>1 DEF Ordered
    <2>2. Ordered(m.wire, given \cup Listed(d) \cup Kept(d))
      BY <1>4, <1>10 DEF Good, InOrder
    <2> QED
      BY <1>6, <1>8, <1>12, <2>1, <2>2 DEF InOrder
  <1>14. Spares(d, m, given, spared)
    BY <1>4, <1>8, <1>10 DEF Good, Spares
  <1> QED
    BY <1>11, <1>13, <1>14 DEF Good, d, b

(* Pump: the head of the wire moves to the buffer while there is one. *)
LEMMA BufferGood ==
  ASSUME NEW c, NEW m, NEW ins, NEW given, NEW done, NEW spared,
         Good(c, m, ins, given, done, spared),
         c.state = "open", m.wire # <<>>, c.buffering
  PROVE  Good([c EXCEPT !.buffered = Append(@, Head(m.wire))], [m EXCEPT !.wire = Tail(@)],
              ins, given, done, spared)
PROOF
  <1> DEFINE e == Head(m.wire)
             d == [c EXCEPT !.buffered = Append(@, e)]
             n == [m EXCEPT !.wire = Tail(@)]
             past == given \cup Listed(c) \cup Fore(c)
  <1>1. /\ c \in Connection /\ m \in Member /\ c.buffered \in Seq(Event) /\ m.wire \in Seq(Event)
        /\ Kept(c) = Fore(c) \cup ToSet(c.buffered)
    BY GoodFields
  <1>2. Ordered(c.buffered, past) /\ Ordered(m.wire, given \cup Listed(c) \cup Kept(c))
    BY DEF Good, InOrder
  <1>3. /\ e \in Event /\ Tail(m.wire) \in Seq(Event) /\ ToSet(m.wire) = {e} \cup ToSet(Tail(m.wire))
        /\ \A x \in Event : x < e => x \in given \cup Listed(c) \cup Kept(c)
        /\ Ordered(Tail(m.wire), (given \cup Listed(c) \cup Kept(c)) \cup {e})
    BY <1>1, <1>2, OrderedHead
  <1>4. \A x \in Event : x < e => x \in past \cup ToSet(c.buffered)
    BY <1>1, <1>3
  <1> HIDE DEF e, past
  <1>5. /\ Append(c.buffered, e) \in Seq(Event) /\ Ordered(Append(c.buffered, e), past)
        /\ ToSet(Append(c.buffered, e)) = ToSet(c.buffered) \cup {e}
    BY <1>1, <1>2, <1>3, <1>4, OrderedAppend, AppendSet
  <1>6. /\ d \in Connection /\ d.state = c.state /\ d.catchUp = c.catchUp /\ d.after = c.after
        /\ d.page = c.page /\ d.buffering = c.buffering /\ d.buffered = Append(c.buffered, e)
        /\ d.delivered = c.delivered /\ d.sent = c.sent /\ d.read = c.read
    BY <1>1, <1>5 DEF Connection
  <1>7. /\ n \in Member /\ n.sequence = m.sequence /\ n.handed = m.handed
        /\ n.wire = Tail(m.wire)
    BY <1>1, <1>3 DEF Member
  <1> HIDE DEF d, n
  <1>8. /\ Fore(d) = Fore(c) /\ Kept(d) = Kept(c) \cup {e} /\ Carried(d, n) = Carried(c, m)
        /\ Listed(d) = Listed(c)
    BY <1>3, <1>5, <1>6, <1>7 DEF Fore, Kept, Carried, Listed
  <1>9. Shape(d, n, ins, done)
    BY <1>6, <1>7, <1>8 DEF Good, Shape, Tidy
  <1>10. InOrder(d, n, given)
    <2>1. Ordered(d.buffered, given \cup Listed(d) \cup Fore(d))
      BY <1>5, <1>6, <1>8 DEF past
    <2>2. Ordered(n.wire, given \cup Listed(d) \cup Kept(d))
      <3>1. (given \cup Listed(c) \cup Kept(c)) \cup {e} = given \cup Listed(d) \cup Kept(d)
        BY <1>8
      <3> QED
        BY <1>3, <1>7, <3>1
    <2> QED
      BY <1>6, <2>1, <2>2 DEF Good, InOrder
  <1>11. Spares(d, n, given, spared)
    BY <1>6, <1>8 DEF Good, Spares
  <1> QED
    BY <1>9, <1>10, <1>11 DEF Good, d, n, e

(* Pump without a buffer: the message is passed on. *)
LEMMA PassGood ==
  ASSUME NEW c, NEW m, NEW ins, NEW given, NEW done, NEW spared,
         Good(c, m, ins, given, done, spared),
         c.state = "open", m.wire # <<>>, ~c.buffering
  PROVE  Good(Pass(c, Head(m.wire)), [m EXCEPT !.wire = Tail(@)], ins, given, done, spared)
PROOF
  <1> DEFINE e == Head(m.wire)
             d == Pass(c, e)
             n == [m EXCEPT !.wire = Tail(@)]
  <1>1. /\ c \in Connection /\ m \in Member /\ c.sent \in Seq(Event) /\ c.page \in Seq(Event)
        /\ c.buffered \in Seq(Event) /\ m.wire \in Seq(Event)
    BY GoodFields
  <1>2. Tidy(c) /\ c.page = <<>> /\ c.buffered = <<>> /\ c.catchUp # "list"
    BY DEF Good, Shape
  <1>3. ToSet(c.page) = {} /\ ToSet(c.buffered) = {} /\ Listed(c) = {}
    BY <1>1, <1>2, NothingIn DEF Listed
  <1>4. Ordered(c.sent, given) /\ Ordered(m.wire, given \cup ToSet(c.sent))
    <2>1. given \cup Listed(c) \cup Kept(c) = given \cup ToSet(c.sent)
      BY <1>3 DEF Kept, Fore
    <2> QED
      BY <2>1 DEF Good, InOrder
  <1>5. /\ e \in Event /\ Tail(m.wire) \in Seq(Event) /\ ToSet(m.wire) = {e} \cup ToSet(Tail(m.wire))
        /\ \A x \in Event : x < e => x \in given \cup ToSet(c.sent)
        /\ Ordered(Tail(m.wire), (given \cup ToSet(c.sent)) \cup {e})
    BY <1>1, <1>4, OrderedHead
  <1> HIDE DEF e
  <1>6. /\ d \in Connection /\ SameBut(c, d) /\ Tidy(d) /\ d.delivered = c.delivered \cup {e}
        /\ IF e \in c.delivered THEN d = c ELSE d.sent = Append(c.sent, e)
    BY <1>1, <1>2, <1>5, PassDoes
  <1> HIDE DEF d
  <1>7. /\ d.state = c.state /\ d.catchUp = c.catchUp /\ d.page = c.page /\ d.buffering = c.buffering
        /\ d.buffered = c.buffered /\ d.read = c.read /\ d.after = c.after
    BY <1>6 DEF SameBut
  <1>8. /\ n \in Member /\ n.sequence = m.sequence /\ n.handed = m.handed
        /\ n.wire = Tail(m.wire)
    BY <1>1, <1>5 DEF Member
  <1> HIDE DEF n
  <1>9. ToSet(d.sent) = ToSet(c.sent) \cup {e}
    BY <1>2, <1>6 DEF Tidy
  <1>10. /\ Fore(d) = ToSet(d.sent) /\ Kept(d) = ToSet(d.sent) /\ Listed(d) = {}
         /\ Carried(d, n) = Carried(c, m)
    BY <1>3, <1>5, <1>7, <1>8, <1>9 DEF Fore, Kept, Carried, Listed
  <1>11. Shape(d, n, ins, done)
    BY <1>6, <1>7, <1>8, <1>10 DEF Good, Shape, Tidy
  <1>12. Ordered(d.sent, given)
    <2>1. CASE e \in c.delivered
      BY <1>4, <1>6, <2>1
    <2>2. CASE e \notin c.delivered
      <3>1. Ordered(Append(c.sent, e), given)
        BY <1>1, <1>4, <1>5, OrderedAppend
      <3> QED
        BY <1>6, <2>2, <3>1
    <2> QED
      BY <2>1, <2>2
  <1>13. d.read <= Len(d.sent) /\ \A i \in 1 .. d.read : d.sent[i] \in given
    <2>1. c.read <= Len(c.sent) /\ (\A i \in 1 .. c.read : c.sent[i] \in given) /\ c.read \in Nat
      BY <1>1 DEF Good, InOrder, Connection
    <2>2. CASE e \in c.delivered
      BY <1>6, <1>7, <2>1, <2>2
    <2>3. CASE e \notin c.delivered
      <3>1. d.sent = Append(c.sent, e)
        BY <1>6, <2>3
      <3>2. /\ Len(Append(c.sent, e)) = Len(c.sent) + 1 /\ Len(c.sent) \in Nat
            /\ \A i \in 1 .. Len(c.sent) : Append(c.sent, e)[i] = c.sent[i]
        BY <1>1, <1>5
      <3> QED
        BY <1>7, <2>1, <3>1, <3>2
    <2> QED
      BY <2>2, <2>3
  <1>14. InOrder(d, n, given)
    <2>1. Ordered(d.page, given \cup ToSet(d.sent)) /\ Ordered(d.buffered, given \cup Listed(d) \cup Fore(d))
      <3>1. d.page = <<>> /\ d.buffered = <<>>
        BY <1>2, <1>7
      <3>2. DOMAIN d.page = {} /\ DOMAIN d.buffered = {}
        BY <3>1
      <3> QED
        BY <3>2 DEF Ordered
    <2>2. Ordered(n.wire, given \cup Listed(d) \cup Kept(d))
      <3>1. (given \cup ToSet(c.sent)) \cup {e} = given \cup Listed(d) \cup Kept(d)
        BY <1>9, <1>10
      <3> QED
        BY <1>5, <1>8, <3>1
    <2> QED
      BY <1>2, <1>7, <1>12, <1>13, <2>1, <2>2 DEF InOrder
  <1>15. Spares(d, n, given, spared)
    BY <1>3, <1>7, <1>10 DEF Good, Spares
  <1> QED
    BY <1>11, <1>14, <1>15 DEF Good, d, n, e

(* Publish: an event arrives behind whatever the member was handed before. *)
LEMMA HandGood ==
  ASSUME NEW c, NEW m, NEW ins, NEW given, NEW done, NEW spared,
         Good(c, m, ins, given, done, spared), c.state = "open",
         NEW new, given \subseteq new, NEW e \in Event, e \in ins,
         \A d \in Event : d < e => d \in new \cup Listed(c) \cup Carried(c, m)
  PROVE  Good(c, [m EXCEPT !.handed = @ \cup {e}, !.wire = Append(@, e)],
              ins, new, done \cup {e}, spared \cup {e})
PROOF
  <1> DEFINE n == [m EXCEPT !.handed = @ \cup {e}, !.wire = Append(@, e)]
             past == new \cup Listed(c) \cup Kept(c)
  <1>1. m \in Member /\ m.wire \in Seq(Event) /\ Carried(c, m) = Kept(c) \cup ToSet(m.wire)
    BY GoodFields
  <1>2. Good(c, m, ins, new, done \cup {e}, spared)
    BY GoodGrows
  <1>3. Ordered(m.wire, past) /\ \A d \in Event : d < e => d \in past \cup ToSet(m.wire)
    BY <1>1, <1>2 DEF Good, InOrder
  <1> HIDE DEF past
  <1>4. /\ Append(m.wire, e) \in Seq(Event) /\ Ordered(Append(m.wire, e), past)
        /\ ToSet(Append(m.wire, e)) = ToSet(m.wire) \cup {e}
    BY <1>1, <1>3, OrderedAppend, AppendSet
  <1>5. /\ n \in Member /\ n.sequence = m.sequence /\ n.handed = m.handed \cup {e}
        /\ n.wire = Append(m.wire, e)
    BY <1>1, <1>4 DEF Member
  <1> HIDE DEF n
  <1>6. Carried(c, n) = Carried(c, m) \cup {e}
    BY <1>4, <1>5 DEF Carried
  <1>7. Shape(c, n, ins, done \cup {e})
    BY <1>2, <1>5, <1>6 DEF Good, Shape
  <1>8. InOrder(c, n, new)
    BY <1>2, <1>4, <1>5 DEF Good, InOrder, past
  <1>9. Spares(c, n, new, spared \cup {e})
    BY <1>2, <1>6 DEF Good, Spares
  <1> QED
    BY <1>7, <1>8, <1>9 DEF Good, n

(* A connection that is not open holds nothing but what can still be read. *)
LEMMA ShutGood ==
  ASSUME NEW c \in Connection, c.state # "open", c.catchUp = "none", ~c.buffering,
         c.page = <<>>, c.buffered = <<>>,
         NEW ins, NEW given, NEW done, NEW spared,
         IsInjective(c.sent), ToSet(c.sent) \subseteq ins, Ordered(c.sent, given),
         c.read <= Len(c.sent), \A i \in 1 .. c.read : c.sent[i] \in given
  PROVE  Good(c, NoMember, ins, given, done, spared)
PROOF
  <1> DEFINE m == NoMember
  <1>1. m \in Member /\ m.sequence = 0 /\ m.handed = {} /\ m.wire = <<>> /\ m.wire \in Seq(Event)
    BY DEF NoMember, Member
  <1>2. c.page \in Seq(Event) /\ c.buffered \in Seq(Event)
    BY DEF Connection
  <1> HIDE DEF m
  <1>3. ToSet(c.page) = {} /\ ToSet(c.buffered) = {} /\ ToSet(m.wire) = {}
    BY <1>1, <1>2, NothingIn
  <1>4. Carried(c, m) \subseteq ins
    BY <1>3 DEF Carried, Kept, Fore
  <1>5. Shape(c, m, ins, done)
    BY <1>1, <1>4 DEF Shape, m
  <1>6. /\ Ordered(c.page, given \cup ToSet(c.sent))
        /\ Ordered(c.buffered, given \cup Listed(c) \cup Fore(c))
        /\ Ordered(m.wire, given \cup Listed(c) \cup Kept(c))
    <2>1. DOMAIN c.page = {} /\ DOMAIN c.buffered = {} /\ DOMAIN m.wire = {}
      BY <1>1
    <2> QED
      BY <2>1 DEF Ordered
  <1>7. InOrder(c, m, given)
    BY <1>6 DEF InOrder
  <1>8. Spares(c, m, given, spared)
    BY DEF Spares
  <1> QED
    BY <1>5, <1>7, <1>8 DEF Good, m

LEMMA NoConnectionIs ==
  /\ NoConnection \in Connection /\ NoConnection.sent = <<>> /\ NoConnection.page = <<>>
  /\ NoConnection.buffered = <<>> /\ NoConnection.catchUp = "none"
  /\ NoConnection.buffering = FALSE /\ NoConnection.read = 0
PROOF
  <1>1. <<>> \in Seq(Event)
    OBVIOUS
  <1> QED
    BY <1>1 DEF NoConnection, Connection

LEMMA NoConnectionGood ==
  ASSUME NEW state \in {"none", "broken"}, NEW ins, NEW given, NEW done, NEW spared
  PROVE  Good([NoConnection EXCEPT !.state = state], NoMember, ins, given, done, spared)
PROOF
  <1> DEFINE c == [NoConnection EXCEPT !.state = state]
  <1>1. /\ c \in Connection /\ c.state = state /\ c.catchUp = "none" /\ c.buffering = FALSE
        /\ c.page = <<>> /\ c.buffered = <<>> /\ c.sent = <<>> /\ c.read = 0 /\ c.sent \in Seq(Event)
    <2>1. <<>> \in Seq(Event)
      OBVIOUS
    <2> QED
      BY <2>1, NoConnectionIs DEF Connection
  <1> HIDE DEF c
  <1>2. ToSet(c.sent) = {} /\ IsInjective(c.sent) /\ Ordered(c.sent, given)
    BY <1>1, NothingIn
  <1>3. c.read <= Len(c.sent) /\ \A i \in 1 .. c.read : c.sent[i] \in given
    <2>1. Len(c.sent) = 0 /\ 1 .. c.read = {}
      BY <1>1
    <2> QED
      BY <1>1, <2>1
  <1>4. c.state # "open" /\ ToSet(c.sent) \subseteq ins
    BY <1>1, <1>2
  <1> QED
    BY <1>1, <1>2, <1>3, <1>4, ShutGood DEF c

(* Over: the end of a connection. *)
EndedOf(c) == [NoConnection EXCEPT !.state = "ended", !.sent = c.sent, !.read = c.read]

LEMMA EndedGood ==
  ASSUME NEW c, NEW m, NEW ins, NEW given, NEW done, NEW spared,
         Good(c, m, ins, given, done, spared), NEW any
  PROVE  Good(EndedOf(c), NoMember, ins, given, done, any)
PROOF
  <1> DEFINE d == EndedOf(c)
  <1>1. c \in Connection /\ c.sent \in Seq(Event) /\ c.read \in Nat
    BY GoodFields DEF Connection
  <1>2. /\ d \in Connection /\ d.state = "ended" /\ d.catchUp = "none" /\ d.buffering = FALSE
        /\ d.page = <<>> /\ d.buffered = <<>> /\ d.sent = c.sent /\ d.read = c.read
    BY <1>1, NoConnectionIs DEF Connection, EndedOf
  <1> HIDE DEF d
  <1>3. /\ IsInjective(c.sent) /\ ToSet(c.sent) \subseteq ins /\ Ordered(c.sent, given)
        /\ c.read <= Len(c.sent) /\ \A i \in 1 .. c.read : c.sent[i] \in given
    BY DEF Good, Shape, InOrder, Carried, Kept, Fore
  <1> QED
    BY <1>2, <1>3, ShutGood DEF d

(* Subscribe: the new connection lists what comes after the cursor. *)
Opened(cursor) ==
  [NoConnection EXCEPT
     !.state = "open", !.after = cursor, !.buffering = cursor # NoEvent,
     !.catchUp = IF cursor = NoEvent THEN "none" ELSE "list"]

LEMMA OpenGood ==
  ASSUME NEW cursor \in Event \cup {NoEvent}, NEW sequence \in Nat, sequence > 0,
         NEW ins, NEW given, NEW done, NEW spared, Begun(ins), spared \subseteq ins,
         \A e \in Event : e <= cursor => e \in given,
         cursor = NoEvent => ins \subseteq given
  PROVE  Good(Opened(cursor), [NoMember EXCEPT !.sequence = sequence], ins, given, done, spared)
PROOF
  <1> DEFINE c == Opened(cursor)
             m == [NoMember EXCEPT !.sequence = sequence]
  <1>1. <<>> \in Seq(Event)
    OBVIOUS
  <1>2. /\ c \in Connection /\ c.state = "open" /\ c.after = cursor
        /\ c.catchUp = IF cursor = NoEvent THEN "none" ELSE "list"
        /\ c.buffering = (cursor # NoEvent) /\ c.sent = <<>> /\ c.page = <<>> /\ c.buffered = <<>>
        /\ c.delivered = {} /\ c.read = 0
    BY <1>1 DEF NoConnection, Connection, Opened
  <1>3. m \in Member /\ m.sequence = sequence /\ m.handed = {} /\ m.wire = <<>>
    BY <1>1 DEF NoMember, Member
  <1> HIDE DEF c, m
  <1>4. /\ c.sent \in Seq(Event) /\ c.page \in Seq(Event) /\ c.buffered \in Seq(Event)
        /\ m.wire \in Seq(Event)
    BY <1>1, <1>2, <1>3
  <1>5. ToSet(c.sent) = {} /\ ToSet(c.page) = {} /\ ToSet(c.buffered) = {} /\ ToSet(m.wire) = {}
    BY <1>2, <1>3, <1>4, NothingIn
  <1>6. IsInjective(c.sent)
    BY <1>2, <1>4, NothingIn
  <1>7. Shape(c, m, ins, done)
    <2>1. Carried(c, m) = {}
      BY <1>5 DEF Carried, Kept, Fore
    <2>2. c.buffering <=> cursor # NoEvent
      BY <1>2
    <2>3. c.catchUp \in {"list", "send"} <=> c.buffering
      BY <1>2, <2>2
    <2>4. Tidy(c)
      BY <1>2, <1>5, <1>6 DEF Tidy
    <2> QED
      BY <1>2, <1>3, <1>6, <2>1, <2>3, <2>4 DEF Shape
  <1>8. InOrder(c, m, given)
    <2>1. /\ Ordered(c.sent, given) /\ Ordered(c.page, given \cup ToSet(c.sent))
          /\ Ordered(c.buffered, given \cup Listed(c) \cup Fore(c))
          /\ Ordered(m.wire, given \cup Listed(c) \cup Kept(c))
      <3>1. DOMAIN c.sent = {} /\ DOMAIN c.page = {} /\ DOMAIN c.buffered = {} /\ DOMAIN m.wire = {}
        BY <1>2, <1>3
      <3> QED
        BY <3>1 DEF Ordered
    <2>2. c.read <= Len(c.sent) /\ 1 .. c.read = {}
      BY <1>2
    <2> QED
      BY <1>2, <2>1, <2>2 DEF InOrder
  <1>9. Spares(c, m, given, spared)
    <2>1. CASE cursor = NoEvent
      BY <2>1 DEF Spares
    <2>2. CASE cursor # NoEvent
      <3>1. \A e \in Event : e \in given \/ e > cursor
        BY DEF Event, NoEvent
      <3>2. \A e \in spared : e \in given \/ e \in Listed(c)
        BY <1>2, <2>2, <3>1 DEF Listed, Begun
      <3> QED
        BY <3>2 DEF Spares
    <2> QED
      BY <2>1, <2>2
  <1> QED
    BY <1>7, <1>8, <1>9 DEF Good, c, m

(* Read: the client prints the next event, which then counts as given. *)
LEMMA ReadGood ==
  ASSUME NEW c, NEW m, NEW ins, NEW given, NEW done, NEW spared,
         Good(c, m, ins, given, done, spared), c.read < Len(c.sent)
  PROVE  /\ c.sent[c.read + 1] \in Event /\ c.sent[c.read + 1] \in ins
         /\ \A d \in Event : d < c.sent[c.read + 1] => d \in given
         /\ Good([c EXCEPT !.read = @ + 1], m, ins, given \cup {c.sent[c.read + 1]}, done, spared)
PROOF
  <1> DEFINE e == c.sent[c.read + 1]
             new == given \cup {e}
             d == [c EXCEPT !.read = @ + 1]
  <1>1. c \in Connection /\ c.sent \in Seq(Event) /\ c.read \in Nat /\ Len(c.sent) \in Nat
    BY GoodFields DEF Connection
  <1>2. c.read + 1 \in 1 .. Len(c.sent) /\ DOMAIN c.sent = 1 .. Len(c.sent)
    BY <1>1
  <1>3. e \in Event /\ e \in ToSet(c.sent)
    BY <1>1, <1>2 DEF ToSet
  <1>4. ToSet(c.sent) \subseteq ins
    BY DEF Good, Shape, Carried, Kept, Fore
  <1>5. Before(c.sent, c.read + 1) \subseteq given
    <2>1. (c.read + 1) - 1 = c.read
      BY <1>1
    <2> QED
      BY <2>1 DEF Good, InOrder, Before
  <1>6. \A x \in Event : x < e => x \in given
    BY <1>2, <1>5 DEF Good, InOrder, Ordered
  <1>7. Good(c, m, ins, new, done, spared)
    BY GoodGrows
  <1> HIDE DEF e, new
  <1>8. /\ d \in Connection /\ d.state = c.state /\ d.catchUp = c.catchUp /\ d.after = c.after
        /\ d.page = c.page /\ d.buffering = c.buffering /\ d.buffered = c.buffered
        /\ d.delivered = c.delivered /\ d.sent = c.sent /\ d.read = c.read + 1
    <2> DEFINE next == c.read + 1
    <2>1. next \in Nat
      BY <1>1
    <2> HIDE DEF next
    <2>2. d = [c EXCEPT !.read = next]
      BY DEF next
    <2> HIDE DEF d
    <2>3. /\ d \in Connection /\ d.state = c.state /\ d.catchUp = c.catchUp /\ d.after = c.after
          /\ d.page = c.page /\ d.buffering = c.buffering /\ d.buffered = c.buffered
          /\ d.delivered = c.delivered /\ d.sent = c.sent /\ d.read = next
      BY <1>1, <2>1, <2>2 DEF Connection
    <2> QED
      BY <2>3 DEF next
  <1> HIDE DEF d
  <1>9. Listed(d) = Listed(c) /\ Fore(d) = Fore(c) /\ Kept(d) = Kept(c) /\ Carried(d, m) = Carried(c, m)
    BY <1>8 DEF Listed, Fore, Kept, Carried
  <1>10. Shape(d, m, ins, done)
    BY <1>7, <1>8, <1>9 DEF Good, Shape, Tidy
  <1>11. InOrder(d, m, new)
    <2>1. \A i \in 1 .. d.read : d.sent[i] \in new
      <3>1. \A i \in 1 .. d.read : i \in 1 .. c.read \/ i = c.read + 1
        BY <1>1, <1>8
      <3>2. \A i \in 1 .. c.read : c.sent[i] \in given
        BY DEF Good, InOrder
      <3>3. c.sent[c.read + 1] \in new
        BY DEF new, e
      <3> QED
        BY <1>8, <3>1, <3>2, <3>3 DEF new
    <2>2. d.read <= Len(d.sent)
      BY <1>2, <1>8
    <2> QED
      BY <1>7, <1>8, <1>9, <2>1, <2>2 DEF Good, InOrder
  <1>12. Spares(d, m, new, spared)
    BY <1>7, <1>8, <1>9 DEF Good, Spares
  <1>13. Good(d, m, ins, new, done, spared)
    BY <1>10, <1>11, <1>12 DEF Good
  <1> QED
    BY <1>3, <1>4, <1>6, <1>13 DEF d, e, new

-----------------------------------------------------------------------------
(* Steps that concern one follower, or only the feed. *)

LEMMA FeedIs ==
  ASSUME FlowInv
  PROVE  /\ Begun(Inserted) /\ Done \subseteq Inserted
         /\ \A sequence : Spared(sequence) \subseteq Inserted
         /\ Newest \in Inserted \cup {NoEvent} /\ \A e \in Inserted : e <= Newest
PROOF
  <1>1. Begun(Inserted)
    BY DEF FlowInv, FeedOK, Begun, Inserted
  <1>2. Done \subseteq Inserted /\ \A sequence : Spared(sequence) \subseteq Inserted
    <2>1. \A e \in Event : request[e].pc = "idle" <=> e \notin Inserted
      BY DEF FlowInv, FeedOK
    <2> QED
      BY <2>1 DEF Done, Spared
  <1>3. Newest \in Inserted \cup {NoEvent} /\ \A e \in Inserted : e <= Newest
    <2>1. CASE Inserted = {}
      BY <2>1 DEF Newest
    <2>2. CASE Inserted # {}
      <3>1. Inserted \in SUBSET (1 .. MaxEvents) /\ MaxEvents \in Nat
        BY FeedAssumption DEF Inserted, Event
      <3>2. \E e \in Inserted : \A d \in Inserted : d <= e
        BY <2>2, <3>1, MaxIn
      <3> QED
        BY <2>2, <3>2 DEF Newest
    <2> QED
      BY <2>1, <2>2
  <1> QED
    BY <1>1, <1>2, <1>3

(* What the invariant says of one follower. *)
LEMMA FollowerIs ==
  ASSUME FlowInv, NEW f \in Follower
  PROVE  /\ Good(conn[f], member[f], Inserted, Given(f), Done, Spared(member[f].sequence))
         /\ CliGood(cli[f], Inserted, Given(f))
         /\ member[f].sequence <= top /\ since[f] \in Inserted \cup {NoEvent}
         /\ conn[f] \in Connection /\ member[f] \in Member /\ cli[f] \in Process
         /\ since[f] \in Nat /\ top \in Nat /\ member[f].sequence \in Nat
         /\ faults \in 0 .. MaxFaults /\ excused \in SUBSET (Follower \X Event)
PROOF
  <1>1. FollowerOK(f)
    BY DEF FlowInv
  <1>2. conn[f] \in Connection /\ member[f] \in Member /\ cli[f] \in Process
    BY DEF FlowInv, TypeOK, StreamTypeOK, CliTypeOK
  <1>3. since[f] \in Nat /\ top \in Nat
    BY DEF FlowInv, TypeOK, FlowTypeOK, StreamTypeOK, Event, NoEvent
  <1>4. member[f].sequence \in Nat
    BY <1>2 DEF Member
  <1>5. faults \in 0 .. MaxFaults /\ excused \in SUBSET (Follower \X Event)
    BY DEF FlowInv, TypeOK, FlowTypeOK, FeedTypeOK
  <1> QED
    BY <1>1, <1>2, <1>3, <1>4, <1>5 DEF FollowerOK

(* The follower's connection, member, process and time become c, m, p and s. *)
Own(f, c, m, p, s) ==
  /\ conn' = [conn EXCEPT ![f] = c] /\ member' = [member EXCEPT ![f] = m]
  /\ cli' = [cli EXCEPT ![f] = p] /\ since' = [since EXCEPT ![f] = s]
  /\ excused \subseteq excused' /\ excused' \subseteq Follower \X Event
  /\ held' = held /\ request' = request /\ faults' \in 0 .. MaxFaults /\ top' \in Nat
  /\ \A g \in Follower \ {f} : member[g].sequence <= top'

LEMMA OwnGiven ==
  ASSUME FlowInv, NEW f \in Follower, NEW c, NEW m, NEW p, NEW s, Own(f, c, m, p, s),
         s \in Nat, since[f] <= s, cli[f].printed \subseteq p.printed
  PROVE  /\ Given(f) \subseteq Given(f)'
         /\ \A e \in Event : e <= s \/ e \in p.printed \/ <<f, e>> \in excused' => e \in Given(f)'
PROOF
  <1>1. since'[f] = s /\ cli'[f] = p /\ held' = held /\ excused \subseteq excused'
    BY DEF Own, FlowInv, TypeOK, FlowTypeOK, CliTypeOK
  <1>2. \A e \in Event : e <= since[f] => e <= s
    <2>1. since[f] \in Nat
      BY FollowerIs
    <2> QED
      BY <2>1, Events
  <1> QED
    BY <1>1, <1>2 DEF Given

LEMMA StaysOK ==
  ASSUME FlowInv, NEW f \in Follower,
         since'[f] = since[f], cli'[f] = cli[f], conn'[f] = conn[f], member'[f] = member[f],
         excused \subseteq excused', Inserted \subseteq Inserted', Done \subseteq Done',
         \A e \in Event : held[e] = "gone" => held'[e] = "gone",
         member[f].sequence <= top',
         Open(f) => Spared(member[f].sequence)' \subseteq
           Spared(member[f].sequence) \cup Given(f)' \cup Listed(conn[f]) \cup Carried(conn[f], member[f])
  PROVE  FollowerOK(f)'
PROOF
  <1>1. Given(f) \subseteq Given(f)'
    BY DEF Given
  <1> DEFINE given == Given(f)'
             ins == Inserted'
             done == Done'
             spared == Spared(member[f].sequence)'
  <1> HIDE DEF given, ins, done, spared
  <1>2. /\ Given(f) \subseteq given /\ Inserted \subseteq ins /\ Done \subseteq done
        /\ conn[f].state = "open" => spared \subseteq
             Spared(member[f].sequence) \cup given \cup Listed(conn[f]) \cup Carried(conn[f], member[f])
    BY <1>1 DEF given, ins, done, spared, Open
  <1>3. Good(conn[f], member[f], ins, given, done, spared)
    BY <1>2, FollowerIs, GoodGrows
  <1>4. CliGood(cli[f], ins, given)
    <2>1. CliGood(cli[f], Inserted, Given(f))
      BY FollowerIs
    <2> QED
      BY <1>2, <2>1 DEF CliGood, Ordered
  <1>5. since[f] \in ins \cup {NoEvent}
    BY <1>2, FollowerIs
  <1> QED
    BY <1>3, <1>4, <1>5 DEF FollowerOK, given, ins, done, spared

LEMMA OwnStep ==
  ASSUME FlowInv, NEW f \in Follower, NEW c, NEW m, NEW p, NEW s, Own(f, c, m, p, s),
         s \in Inserted \cup {NoEvent}, m.sequence <= top',
         Good(c, m, Inserted, Given(f)', Done, Spared(m.sequence)),
         CliGood(p, Inserted, Given(f)')
  PROVE  FlowInv'
PROOF
  <1>1. c \in Connection /\ m \in Member /\ p \in Process
    BY DEF CliGood, Good, Shape
  <1>2. /\ conn \in [Follower -> Connection] /\ member \in [Follower -> Member]
        /\ cli \in [Follower -> Process] /\ since \in [Follower -> Event \cup {NoEvent}]
        /\ held \in [Event -> {"no", "whole", "row", "gone"}]
    BY DEF FlowInv, TypeOK, FlowTypeOK, CliTypeOK, StreamTypeOK, FeedTypeOK
  <1>3. /\ conn' = [conn EXCEPT ![f] = c] /\ member' = [member EXCEPT ![f] = m]
        /\ cli' = [cli EXCEPT ![f] = p] /\ since' = [since EXCEPT ![f] = s]
        /\ excused \subseteq excused' /\ excused' \subseteq Follower \X Event
        /\ held' = held /\ request' = request /\ faults' \in 0 .. MaxFaults /\ top' \in Nat
        /\ \A g \in Follower \ {f} : member[g].sequence <= top'
    BY DEF Own
  <1>4. conn'[f] = c /\ member'[f] = m /\ cli'[f] = p /\ since'[f] = s
    BY <1>2, <1>3
  <1>5. Inserted' = Inserted /\ Done' = Done
    BY <1>3 DEF Inserted, Done
  <1>6. TypeOK'
    <2>1. s \in Event \cup {NoEvent}
      BY DEF Inserted
    <2>2. FeedTypeOK'
      BY <1>3 DEF FlowInv, TypeOK, FeedTypeOK
    <2>3. StreamTypeOK'
      BY <1>1, <1>2, <1>3 DEF StreamTypeOK
    <2>4. CliTypeOK'
      BY <1>1, <1>2, <1>3 DEF CliTypeOK
    <2>5. FlowTypeOK'
      BY <1>2, <1>3, <2>1 DEF FlowTypeOK
    <2> QED
      BY <2>2, <2>3, <2>4, <2>5 DEF TypeOK
  <1>7. FeedOK'
    BY <1>3, <1>5 DEF FlowInv, FeedOK
  <1>8. FollowerOK(f)'
    <2>1. Spared(member[f].sequence)' = Spared(m.sequence)
      BY <1>3, <1>4 DEF Spared
    <2>2. since'[f] \in Inserted' \cup {NoEvent} /\ member'[f].sequence <= top'
      BY <1>4, <1>5
    <2> QED
      BY <1>4, <1>5, <2>1, <2>2 DEF FollowerOK
  <1>9. ASSUME NEW g \in Follower, g # f
        PROVE  FollowerOK(g)'
    <2>1. conn'[g] = conn[g] /\ member'[g] = member[g] /\ cli'[g] = cli[g] /\ since'[g] = since[g]
      BY <1>2, <1>3, <1>9
    <2>2. Spared(member[g].sequence)' = Spared(member[g].sequence)
      BY <1>3, <2>1 DEF Spared
    <2> QED
      BY <1>3, <1>5, <1>9, <2>1, <2>2, StaysOK
  <1> QED
    BY <1>6, <1>7, <1>8, <1>9 DEF FlowInv

LEMMA Unmoved ==
  ASSUME FlowInv, NEW f \in Follower
  PROVE  /\ conn = [conn EXCEPT ![f] = conn[f]] /\ member = [member EXCEPT ![f] = member[f]]
         /\ cli = [cli EXCEPT ![f] = cli[f]] /\ since = [since EXCEPT ![f] = since[f]]
         /\ \A g \in Follower : member[g].sequence <= top
PROOF
  <1>1. /\ conn \in [Follower -> Connection] /\ member \in [Follower -> Member]
        /\ cli \in [Follower -> Process] /\ since \in [Follower -> Event \cup {NoEvent}]
    BY DEF FlowInv, TypeOK, FlowTypeOK, CliTypeOK, StreamTypeOK
  <1>2. \A g \in Follower : member[g].sequence <= top
    BY FollowerIs
  <1> QED
    BY <1>1, <1>2

(* Steps of the connection alone. *)
LEMMA StreamStep ==
  ASSUME FlowInv, NEW f \in Follower, NEW c, NEW m,
         conn' = [conn EXCEPT ![f] = c], member' = [member EXCEPT ![f] = m],
         UNCHANGED <<held, request, top, cli, since>>, faults' \in 0 .. MaxFaults,
         excused \subseteq excused', excused' \subseteq Follower \X Event,
         m.sequence <= top,
         Given(f) \subseteq Given(f)' =>
           Good(c, m, Inserted, Given(f)', Done, Spared(m.sequence))
  PROVE  FlowInv'
PROOF
  <1>1. Own(f, c, m, cli[f], since[f])
    BY FollowerIs, Unmoved DEF Own
  <1>2. Given(f) \subseteq Given(f)'
    BY DEF Given
  <1>3. CliGood(cli[f], Inserted, Given(f)')
    <2> DEFINE given == Given(f)'
    <2>1. CliGood(cli[f], Inserted, Given(f)) /\ Given(f) \subseteq given
      BY <1>2, FollowerIs
    <2> HIDE DEF given
    <2>2. CliGood(cli[f], Inserted, given)
      BY <2>1 DEF CliGood, Ordered
    <2> QED
      BY <2>2 DEF given
  <1>4. since[f] \in Inserted \cup {NoEvent} /\ m.sequence <= top'
    BY FollowerIs
  <1> QED
    BY <1>1, <1>2, <1>3, <1>4, OwnStep

(* Steps of the process alone. *)
LEMMA CliStep ==
  ASSUME FlowInv, NEW f \in Follower, NEW p, NEW s,
         cli' = [cli EXCEPT ![f] = p], since' = [since EXCEPT ![f] = s],
         UNCHANGED <<held, request, streamVars>>, faults' \in 0 .. MaxFaults,
         excused \subseteq excused', excused' \subseteq Follower \X Event,
         s \in Inserted \cup {NoEvent}, since[f] <= s, cli[f].printed \subseteq p.printed,
         Given(f) \subseteq Given(f)' => CliGood(p, Inserted, Given(f)')
  PROVE  FlowInv'
PROOF
  <1>1. conn' = conn /\ member' = member /\ top' = top
    BY DEF streamVars
  <1>2. Own(f, conn[f], member[f], p, s)
    BY <1>1, FollowerIs, Unmoved DEF Own
  <1>3. s \in Nat
    BY DEF Inserted, Event, NoEvent
  <1>4. Given(f) \subseteq Given(f)'
    BY <1>2, <1>3, OwnGiven
  <1>5. Good(conn[f], member[f], Inserted, Given(f)', Done, Spared(member[f].sequence))
    <2> DEFINE given == Given(f)'
    <2>1. Given(f) \subseteq given
      BY <1>4
    <2> HIDE DEF given
    <2>2. Good(conn[f], member[f], Inserted, given, Done, Spared(member[f].sequence))
      BY <2>1, FollowerIs, GoodGrows
    <2> QED
      BY <2>2 DEF given
  <1>6. member[f].sequence <= top'
    BY <1>1, FollowerIs
  <1> QED
    BY <1>2, <1>4, <1>5, <1>6, OwnStep

-----------------------------------------------------------------------------
(* The connection's steps. *)

LEMMA ListStepInv ==
  ASSUME FlowInv, NEW f \in Follower, ListStep(f)
  PROVE  FlowInv'
PROOF
  <1> DEFINE after == conn[f].after
             q == ListAfter(after, CatchUpLimit)
             c == [conn[f] EXCEPT !.catchUp = "send", !.page = q]
             blind == Blind(f, after) \cup BehindPage(f, q, CatchUpLimit)
             S == {e \in Event : Row(e) /\ Row(after) /\ e > after}
  <1>1. /\ conn[f].state = "open" /\ conn[f].catchUp = "list" /\ conn' = [conn EXCEPT ![f] = c]
        /\ UNCHANGED <<held, request, faults, top, member, cli, since>> /\ excused' = excused \cup blind
    BY DEF ListStep, ListCatchUp, Open, ConnBecomes, feedVars, Excuse
  <1>2. /\ q \in Seq(Event) /\ ToSet(q) \subseteq S /\ Ordered(q, Event \ S)
        /\ \A e \in S : e \in ToSet(q) \/ (Len(q) = CatchUpLimit /\ e > Last(q))
    <2>1. CatchUpLimit \in Nat \ {0}
      BY StreamAssumption
    <2> QED
      BY <2>1, ListAfterIs
  <1> HIDE DEF c, q
  <1>3. Inserted \subseteq Event /\ S \subseteq Inserted /\ Begun(Inserted)
    BY FeedIs DEF Inserted, Row
  <1>4. blind \subseteq Follower \X Event
    BY <1>3 DEF Blind, BehindPage
  <1>5. ASSUME Given(f) \subseteq Given(f)'
        PROVE  Good(c, member[f], Inserted, Given(f)', Done, Spared(member[f].sequence))
    <2> DEFINE new == Given(f)'
    <2>1. \A e \in Inserted : <<f, e>> \in blind => e \in new
      BY <1>1, <1>3 DEF Given
    <2>2. \A e \in Inserted : held[e] = "gone" => e \in new
      BY <1>1, <1>3 DEF Given
    <2>3. \A e \in Inserted : e > after => e \in new \cup ToSet(q)
      <3> TAKE e \in Inserted
      <3> HAVE e > after
      <3>1. CASE ~Row(after)
        <4>1. <<f, e>> \in blind
          BY <3>1 DEF Blind
        <4> QED
          BY <2>1, <4>1
      <3>2. CASE Row(after) /\ ~Row(e)
        <4>1. held[e] = "gone"
          BY <3>2 DEF Inserted, Row, FlowInv, TypeOK, FeedTypeOK
        <4> QED
          BY <2>2, <4>1
      <3>3. CASE Row(after) /\ Row(e)
        <4>1. e \in S
          BY <1>3, <3>3
        <4>2. CASE e \in ToSet(q)
          BY <4>2
        <4>3. CASE Len(q) = CatchUpLimit /\ e > Last(q)
          <5>1. <<f, e>> \in blind
            BY <4>3 DEF BehindPage
          <5> QED
            BY <2>1, <5>1
        <4> QED
          BY <1>2, <4>1, <4>2, <4>3
      <3> QED
        BY <3>1, <3>2, <3>3
    <2>4. Ordered(q, new)
      <3>1. ASSUME NEW e \in Inserted, e \notin S, NEW d \in S PROVE e \in new
        <4>1. CASE ~Row(e)
          <5>1. held[e] = "gone"
            BY <4>1 DEF Inserted, Row, FlowInv, TypeOK, FeedTypeOK
          <5> QED
            BY <2>2, <5>1
        <4>2. CASE Row(e)
          <5>1. e <= after
            <6>1. Row(after) /\ ~(e > after)
              BY <1>3, <3>1, <4>2
            <6>2. e \in Nat /\ after \in Nat
              BY <1>3, FollowerIs DEF Connection, Event, NoEvent
            <6> QED
              BY <6>1, <6>2
          <5>2. e \in Given(f)
            BY <1>1, <1>3, <5>1, FollowerIs DEF Good, InOrder
          <5> QED
            BY <1>5, <5>2
        <4> QED
          BY <4>1, <4>2
      <3>2. CASE S = {}
        BY <1>2, <3>2 DEF Ordered, ToSet
      <3>3. CASE S # {}
        <4> HIDE DEF S, new
        <4>1. \A e \in Inserted : e \in Event \ S => e \in new
          BY <3>1, <3>3
        <4>2. ToSet(q) \subseteq Inserted
          BY <1>2, <1>3
        <4> QED
          BY <1>2, <1>3, <4>1, <4>2, OrderedGrows DEF Begun
      <3> QED
        BY <3>2, <3>3
    <2> HIDE DEF new
    <2>5. ToSet(q) \subseteq Inserted /\ Spared(member[f].sequence) \subseteq Inserted
      BY <1>2, <1>3, FeedIs
    <2>6. Good(c, member[f], Inserted, new, Done, Spared(member[f].sequence))
      <3>1. Given(f) \subseteq new
        BY <1>5 DEF new
      <3> QED
        BY <1>1, <1>2, <1>3, <2>3, <2>4, <2>5, <3>1, FollowerIs, ListGood DEF c
    <2> QED
      BY <2>6 DEF new
  <1>6. /\ member' = [member EXCEPT ![f] = member[f]] /\ member[f].sequence <= top
        /\ faults' \in 0 .. MaxFaults /\ excused \subseteq excused' /\ excused' \subseteq Follower \X Event
    BY <1>1, <1>4, Unmoved, FollowerIs
  <1> HIDE DEF blind
  <1> QED
    BY <1>1, <1>5, <1>6, StreamStep

(* A step of the connection that excuses nothing. *)
LEMMA PlainStreamStep ==
  ASSUME FlowInv, NEW f \in Follower, NEW c, NEW m,
         conn' = [conn EXCEPT ![f] = c], member' = [member EXCEPT ![f] = m],
         UNCHANGED <<held, request, top, cli, since, excused>>, faults' \in 0 .. MaxFaults,
         m.sequence <= top,
         Good(c, m, Inserted, Given(f), Done, Spared(m.sequence))
  PROVE  FlowInv'
PROOF
  <1>1. Given(f)' = Given(f)
    BY DEF Given
  <1>2. excused \subseteq excused' /\ excused' \subseteq Follower \X Event
    BY FollowerIs
  <1> QED
    BY <1>1, <1>2, StreamStep

LEMMA LoadPayloadInv ==
  ASSUME FlowInv, NEW f \in Follower, LoadPayload(f), UNCHANGED cli, Follows
  PROVE  FlowInv'
PROOF
  <1>1. PICK e \in Loading(f) : ConnBecomes(f, [conn[f] EXCEPT !.loaded = @ \cup {e}])
    BY DEF LoadPayload
  <1> DEFINE loaded == conn[f].loaded \cup {e}
             c == [conn[f] EXCEPT !.loaded = loaded]
  <1>2. UNCHANGED <<held, request, faults, top, member, cli, since, excused>>
    BY DEF LoadPayload, feedVars, Follows
  <1>3. loaded \in SUBSET Event
    <2>1. conn[f].page \in Seq(Event) /\ conn[f].loaded \in SUBSET Event /\ CatchUpWindow \in Nat
      BY FollowerIs, StreamAssumption DEF Connection
    <2> DEFINE q == Page(conn[f].page, CatchUpWindow)
    <2>2. q \in Seq(Event)
      BY <2>1, PageIs
    <2> HIDE DEF q
    <2>3. ToSet(q) \subseteq Event
      BY <2>2 DEF ToSet
    <2> QED
      BY <2>1, <2>3 DEF Loading, q
  <1>4. conn' = [conn EXCEPT ![f] = c]
    BY <1>1 DEF ConnBecomes
  <1> HIDE DEF loaded
  <1>5. Good(c, member[f], Inserted, Given(f), Done, Spared(member[f].sequence))
    BY <1>3, FollowerIs, LoadGood
  <1>6. member' = [member EXCEPT ![f] = member[f]] /\ member[f].sequence <= top /\ faults' \in 0 .. MaxFaults
    BY <1>2, Unmoved, FollowerIs
  <1> HIDE DEF c
  <1> QED
    BY <1>2, <1>4, <1>5, <1>6, PlainStreamStep

LEMMA CatchUpSendInv ==
  ASSUME FlowInv, NEW f \in Follower, CatchUpSend(f), UNCHANGED cli, Follows
  PROVE  FlowInv'
PROOF
  <1> DEFINE e == Head(conn[f].page)
             b == Pass(conn[f], e)
             loaded == b.loaded \ {e}
             c == [b EXCEPT !.page = Tail(@), !.loaded = loaded]
  <1>1. /\ conn[f].state = "open" /\ conn[f].catchUp = "send" /\ conn[f].page # <<>>
        /\ conn' = [conn EXCEPT ![f] = [b EXCEPT !.page = Tail(@), !.loaded = @ \ {e}]]
        /\ UNCHANGED <<held, request, faults, top, member, cli, since, excused>>
    BY DEF CatchUpSend, Open, ConnBecomes, feedVars, Follows
  <1>2. conn[f] \in Connection /\ conn[f].page \in Seq(Event) /\ Tidy(conn[f])
    BY <1>1, FollowerIs DEF Good, Shape, Connection
  <1>3. e \in Event
    BY <1>1, <1>2
  <1> HIDE DEF e
  <1>4. b \in Connection
    BY <1>2, <1>3, PassDoes
  <1>5. conn' = [conn EXCEPT ![f] = c]
    BY <1>1
  <1>6. loaded \in SUBSET Event
    BY <1>4 DEF Connection
  <1> HIDE DEF loaded
  <1>7. Good(c, member[f], Inserted, Given(f), Done, Spared(member[f].sequence))
    BY <1>1, <1>6, FollowerIs, SendGood DEF e
  <1>8. member' = [member EXCEPT ![f] = member[f]] /\ member[f].sequence <= top /\ faults' \in 0 .. MaxFaults
    BY <1>1, Unmoved, FollowerIs
  <1> HIDE DEF c
  <1> QED
    BY <1>1, <1>5, <1>7, <1>8, PlainStreamStep

LEMMA CatchUpFlushInv ==
  ASSUME FlowInv, NEW f \in Follower, CatchUpFlush(f), UNCHANGED cli, Follows
  PROVE  FlowInv'
PROOF
  <1> DEFINE c == [FoldLeft(Pass, conn[f], conn[f].buffered) EXCEPT
                     !.catchUp = "done", !.buffering = FALSE, !.buffered = <<>>]
  <1>1. /\ conn[f].state = "open" /\ conn[f].catchUp = "send" /\ conn[f].page = <<>>
        /\ conn' = [conn EXCEPT ![f] = c]
        /\ UNCHANGED <<held, request, faults, top, member, cli, since, excused>>
    BY DEF CatchUpFlush, Open, ConnBecomes, feedVars, Follows
  <1>2. Good(c, member[f], Inserted, Given(f), Done, Spared(member[f].sequence))
    BY <1>1, FollowerIs, FlushGood
  <1>3. member' = [member EXCEPT ![f] = member[f]] /\ member[f].sequence <= top /\ faults' \in 0 .. MaxFaults
    BY <1>1, Unmoved, FollowerIs
  <1> HIDE DEF c
  <1> QED
    BY <1>1, <1>2, <1>3, PlainStreamStep

LEMMA PumpInv ==
  ASSUME FlowInv, NEW f \in Follower, PumpStep(f)
  PROVE  FlowInv'
PROOF
  <1> DEFINE e == Head(member[f].wire)
             m == [member[f] EXCEPT !.wire = Tail(@)]
             c == IF conn[f].buffering THEN [conn[f] EXCEPT !.buffered = Append(@, e)]
                  ELSE Pass(conn[f], e)
  <1>1. /\ conn[f].state = "open" /\ member[f].wire # <<>>
        /\ conn' = [conn EXCEPT ![f] = c] /\ member' = [member EXCEPT ![f] = m]
        /\ UNCHANGED <<held, request, faults, top, cli, since, excused>>
    BY DEF PumpStep, Pump, Open, ConnBecomes, MemberBecomes, feedVars, Follows
  <1>2. m.sequence = member[f].sequence
    BY FollowerIs DEF Member
  <1>3. Good(c, m, Inserted, Given(f), Done, Spared(member[f].sequence))
    <2>1. CASE conn[f].buffering
      BY <1>1, <2>1, FollowerIs, BufferGood
    <2>2. CASE ~conn[f].buffering
      BY <1>1, <2>2, FollowerIs, PassGood
    <2> QED
      BY <2>1, <2>2
  <1>4. m.sequence <= top /\ faults' \in 0 .. MaxFaults
    BY <1>1, <1>2, FollowerIs
  <1> HIDE DEF c, m
  <1> QED
    BY <1>1, <1>2, <1>3, <1>4, PlainStreamStep

(* The ends of a connection. *)
LEMMA OverGood ==
  ASSUME FlowInv, NEW f \in Follower, NEW state \in {"ended", "broken"}, NEW any
  PROVE  Good(Over(f, state), NoMember, Inserted, Given(f), Done, any)
PROOF
  <1>1. Good(conn[f], member[f], Inserted, Given(f), Done, Spared(member[f].sequence))
    BY FollowerIs
  <1>2. CASE state = "broken"
    <2>1. Over(f, state) = [NoConnection EXCEPT !.state = "broken"]
      BY <1>2 DEF Over
    <2> QED
      BY <2>1, NoConnectionGood
  <1>3. CASE state = "ended"
    <2>1. Over(f, state) = EndedOf(conn[f])
      BY <1>3 DEF Over, EndedOf
    <2> QED
      BY <1>1, <2>1, EndedGood
  <1> QED
    BY <1>2, <1>3

LEMMA EndsInv ==
  ASSUME FlowInv, NEW f \in Follower, NEW state \in {"ended", "broken"},
         ConnBecomes(f, Over(f, state)), MemberBecomes(f, NoMember),
         UNCHANGED <<held, request, top, cli>>, Follows, faults' \in 0 .. MaxFaults
  PROVE  FlowInv'
PROOF
  <1> DEFINE c == Over(f, state)
  <1>1. conn' = [conn EXCEPT ![f] = c] /\ member' = [member EXCEPT ![f] = NoMember]
    BY DEF ConnBecomes, MemberBecomes
  <1>2. NoMember.sequence <= top
    BY FollowerIs DEF NoMember
  <1>3. Good(c, NoMember, Inserted, Given(f), Done, Spared(NoMember.sequence))
    BY OverGood
  <1> HIDE DEF c
  <1> QED
    BY <1>1, <1>2, <1>3, PlainStreamStep DEF Follows

LEMMA FaultIs ==
  ASSUME FlowInv, Fault
  PROVE  faults' \in 0 .. MaxFaults
PROOF
  <1>1. faults \in 0 .. MaxFaults /\ MaxFaults \in Nat
    BY FeedAssumption DEF FlowInv, TypeOK, FeedTypeOK
  <1> QED
    BY <1>1 DEF Fault

LEMMA StreamEndsInv ==
  ASSUME FlowInv, NEW f \in Follower, UNCHANGED cli, Follows,
         PayloadMissing(f) \/ CatchUpFails(f) \/ Expire(f) \/ Disconnect(f)
  PROVE  FlowInv'
PROOF
  <1>1. CASE PayloadMissing(f)
    <2>1. Close(f) /\ UNCHANGED faults
      BY <1>1 DEF PayloadMissing
    <2>2. faults' \in 0 .. MaxFaults
      BY <2>1, FollowerIs
    <2> QED
      BY <2>1, <2>2, EndsInv DEF Close
  <1>2. CASE CatchUpFails(f) \/ Expire(f)
    <2>1. Close(f) /\ faults' \in 0 .. MaxFaults
      BY <1>2, FaultIs DEF CatchUpFails, Expire
    <2> QED
      BY <2>1, EndsInv DEF Close
  <1>3. CASE Disconnect(f)
    <2>1. faults' \in 0 .. MaxFaults
      BY <1>3, FaultIs DEF Disconnect
    <2> QED
      BY <1>3, <2>1, EndsInv DEF Disconnect
  <1> QED
    BY <1>1, <1>2, <1>3

-----------------------------------------------------------------------------
(* The process's steps. *)

LEMMA GoesGood ==
  ASSUME NEW p, NEW ins, NEW given, CliGood(p, ins, given), NEW new, given \subseteq new,
         NEW pc \in {"connect", "read", "begin", "print", "sleep", "poll", "stopped"}
  PROVE  CliGood([p EXCEPT !.pc = pc], ins, new) /\ [p EXCEPT !.pc = pc].printed = p.printed
PROOF
  <1> DEFINE q == [p EXCEPT !.pc = pc]
  <1>1. p \in Process
    BY DEF CliGood
  <1>2. q \in Process /\ q.page = p.page /\ q.cursor = p.cursor /\ q.printed = p.printed
    BY <1>1 DEF Process
  <1> HIDE DEF q
  <1>3. CliGood(q, ins, new)
    BY <1>2 DEF CliGood, Ordered
  <1> QED
    BY <1>2, <1>3 DEF q

(* A step that moves only the process's place. *)
LEMMA GoesInv ==
  ASSUME FlowInv, NEW f \in Follower,
         NEW pc \in {"connect", "read", "begin", "print", "sleep", "poll", "stopped"}, Goes(f, pc),
         UNCHANGED <<held, request, streamVars>>, Follows, faults' \in 0 .. MaxFaults
  PROVE  FlowInv'
PROOF
  <1> DEFINE p == [cli[f] EXCEPT !.pc = pc]
  <1>1. cli' = [cli EXCEPT ![f] = p]
    BY DEF Goes, Becomes
  <1>2. /\ since' = [since EXCEPT ![f] = since[f]] /\ since[f] \in Inserted \cup {NoEvent}
        /\ since[f] <= since[f] /\ excused \subseteq excused' /\ excused' \subseteq Follower \X Event
    BY Unmoved, FollowerIs DEF Follows
  <1>3. cli[f].printed \subseteq p.printed
    BY GoesGood, FollowerIs
  <1>4. ASSUME Given(f) \subseteq Given(f)'
        PROVE  CliGood(p, Inserted, Given(f)')
    <2> DEFINE new == Given(f)'
    <2>1. Given(f) \subseteq new
      BY <1>4
    <2> HIDE DEF new
    <2>2. CliGood(p, Inserted, new)
      BY <2>1, FollowerIs, GoesGood
    <2> QED
      BY <2>2 DEF new
  <1> HIDE DEF p
  <1> QED
    BY <1>1, <1>2, <1>3, <1>4, CliStep

LEMMA PlacesInv ==
  ASSUME FlowInv, NEW f \in Follower, Follows,
         Wake(f) \/ ConnectFails(f) \/ Refused(f)
  PROVE  FlowInv'
PROOF
  <1>1. CASE Wake(f)
    <2>1. faults' \in 0 .. MaxFaults /\ UNCHANGED <<held, request, streamVars>>
      BY <1>1, FollowerIs DEF Wake, feedVars
    <2> DEFINE pc == IF cli[f].command = "stream" THEN "connect" ELSE "poll"
    <2>2. Goes(f, pc) /\ pc \in {"connect", "poll"}
      BY <1>1 DEF Wake
    <2> HIDE DEF pc
    <2> QED
      BY <2>1, <2>2, GoesInv
  <1>2. CASE ConnectFails(f)
    <2>1. Goes(f, "sleep") /\ UNCHANGED <<held, request, streamVars>> /\ faults' \in 0 .. MaxFaults
      BY <1>2, FaultIs DEF ConnectFails
    <2> QED
      BY <2>1, GoesInv
  <1>3. CASE Refused(f)
    <2>1. Goes(f, "stopped") /\ UNCHANGED <<held, request, streamVars>> /\ faults' \in 0 .. MaxFaults
      BY <1>3, FaultIs DEF Refused
    <2> QED
      BY <2>1, GoesInv
  <1> QED
    BY <1>1, <1>2, <1>3

LEMMA ConnectInv ==
  ASSUME FlowInv, NEW f \in Follower, ConnectStep(f)
  PROVE  FlowInv'
PROOF
  <1> DEFINE cursor == cli[f].cursor
             n == top'
             c == Opened(cursor)
             m == [NoMember EXCEPT !.sequence = n]
             p == [cli[f] EXCEPT !.pc = "read"]
             s == IF cursor = NoEvent THEN Newest ELSE since[f]
  <1>1. /\ conn' = [conn EXCEPT ![f] = c] /\ member' = [member EXCEPT ![f] = m]
        /\ cli' = [cli EXCEPT ![f] = p] /\ since' = [since EXCEPT ![f] = s]
        /\ UNCHANGED <<held, request, faults, excused>>
    BY DEF ConnectStep, Connect, Subscribe, MemberBecomes, ConnBecomes, Goes, Becomes, feedVars, Opened
  <1>2. top' = IF Pending THEN top + 1 ELSE IF Subscribed = {} THEN 1 ELSE top
    BY DEF ConnectStep, Connect, Subscribe
  <1>3. n \in Nat /\ n > 0 /\ \A g \in Follower : member[g].sequence <= n
    <2>1. top \in Nat /\ \A g \in Follower : member[g].sequence <= top /\ member[g].sequence \in Nat
      BY FollowerIs
    <2>2. CASE Pending
      BY <1>2, <2>1, <2>2
    <2>3. CASE ~Pending /\ Subscribed = {}
      <3>1. \A g \in Follower : ~(member[g].sequence > 0)
        BY <2>3 DEF Subscribed
      <3> QED
        BY <1>2, <2>1, <2>3, <3>1
    <2>4. CASE ~Pending /\ Subscribed # {}
      <3>1. PICK g \in Follower : member[g].sequence > 0
        BY <2>4 DEF Subscribed
      <3> QED
        BY <1>2, <2>1, <2>4, <3>1
    <2> QED
      BY <2>2, <2>3, <2>4
  <1> HIDE DEF n
  <1>4. s \in Inserted \cup {NoEvent} /\ since[f] <= s /\ s \in Nat
    <2>1. since[f] \in Inserted \cup {NoEvent} /\ since[f] \in Nat
      BY FollowerIs
    <2>2. Newest \in Inserted \cup {NoEvent} /\ (\A e \in Inserted : e <= Newest) /\ Inserted \subseteq Nat
      BY FeedIs, Events DEF Inserted
    <2>3. since[f] <= Newest /\ Newest \in Nat
      BY <2>1, <2>2 DEF NoEvent
    <2> QED
      BY <2>1, <2>2, <2>3
  <1>5. Own(f, c, m, p, s)
    BY <1>1, <1>3, FollowerIs DEF Own, n
  <1>6. CliGood(p, Inserted, Given(f)) /\ p.printed = cli[f].printed
    BY FollowerIs, GoesGood
  <1> DEFINE new == Given(f)'
  <1>7. Given(f) \subseteq new /\ \A e \in Event : e <= s => e \in new
    BY <1>4, <1>5, <1>6, OwnGiven
  <1> HIDE DEF new
  <1>8. CliGood(p, Inserted, new)
    BY <1>6, <1>7 DEF CliGood, Ordered
  <1>9. Good(c, m, Inserted, new, Done, Spared(n))
    <2>1. cursor \in Event \cup {NoEvent}
      BY FollowerIs DEF Process
    <2>2. \A e \in Event : e <= cursor => e \in new
      BY <1>7, FollowerIs DEF CliGood
    <2>3. cursor = NoEvent => Inserted \subseteq new
      BY <1>7, FeedIs DEF Inserted
    <2>4. Begun(Inserted) /\ Spared(n) \subseteq Inserted
      BY FeedIs
    <2> HIDE DEF cursor, c
    <2>5. Good(Opened(cursor), m, Inserted, new, Done, Spared(n))
      BY <1>3, <2>1, <2>2, <2>3, <2>4, OpenGood
    <2> QED
      BY <2>5 DEF c
  <1>10. m.sequence = n /\ m.sequence <= top'
    BY <1>3 DEF NoMember, n
  <1> HIDE DEF c, m, p, s
  <1> QED
    BY <1>4, <1>5, <1>8, <1>9, <1>10, OwnStep DEF new

(* Printing an event moves the cursor to it. *)
LEMMA PrintsGood ==
  ASSUME NEW p, NEW ins, NEW given, CliGood(p, ins, given), NEW new, given \subseteq new,
         NEW e \in Event, e \in new, \A d \in Event : d < e => d \in given
  PROVE  CliGood(Prints(p, e), ins, new) /\ Prints(p, e).printed = p.printed \cup {e}
PROOF
  <1> DEFINE q == Prints(p, e)
  <1>1. p \in Process
    BY DEF CliGood
  <1>2. q \in Process /\ q.page = p.page /\ q.cursor = e /\ q.printed = p.printed \cup {e}
    BY <1>1 DEF Process, Prints
  <1> HIDE DEF q
  <1>3. \A d \in Event : d <= e => d \in new
    BY DEF Event
  <1>4. ToSet(q.page) \subseteq ins /\ Ordered(q.page, new)
    BY <1>2 DEF CliGood, Ordered
  <1>5. CliGood(q, ins, new)
    BY <1>2, <1>3, <1>4 DEF CliGood
  <1> QED
    BY <1>2, <1>5 DEF q

LEMMA ReadInv ==
  ASSUME FlowInv, NEW f \in Follower, Read(f), Follows
  PROVE  FlowInv'
PROOF
  <1> DEFINE e == conn[f].sent[conn[f].read + 1]
             c == [conn[f] EXCEPT !.read = @ + 1]
             p == Prints(cli[f], e)
             new == Given(f)'
  <1>1. /\ conn[f].read < Len(conn[f].sent)
        /\ conn' = [conn EXCEPT ![f] = c] /\ cli' = [cli EXCEPT ![f] = p]
        /\ UNCHANGED <<held, request, faults, top, member, since, excused>>
    BY DEF Read, ConnBecomes, Becomes, feedVars, Follows
  <1>2. /\ e \in Event /\ e \in Inserted /\ \A d \in Event : d < e => d \in Given(f)
        /\ Good(c, member[f], Inserted, Given(f) \cup {e}, Done, Spared(member[f].sequence))
    BY <1>1, FollowerIs, ReadGood
  <1> HIDE DEF e, c
  <1>3. Own(f, c, member[f], p, since[f])
    BY <1>1, Unmoved, FollowerIs DEF Own
  <1>4. p.printed = cli[f].printed \cup {e}
    BY FollowerIs DEF Prints, Process
  <1> HIDE DEF p
  <1>5. Given(f) \subseteq new /\ e \in new
    <2>1. since[f] \in Nat /\ since[f] <= since[f] /\ cli[f].printed \subseteq p.printed /\ e \in p.printed
      BY <1>4, FollowerIs
    <2> QED
      BY <1>2, <1>3, <2>1, OwnGiven
  <1> HIDE DEF new
  <1>6. CliGood(p, Inserted, new)
    BY <1>2, <1>5, FollowerIs, PrintsGood DEF p
  <1>7. Good(c, member[f], Inserted, new, Done, Spared(member[f].sequence))
    <2> DEFINE given == Given(f) \cup {e}
    <2>1. given \subseteq new
      BY <1>5
    <2>2. Good(c, member[f], Inserted, given, Done, Spared(member[f].sequence))
      BY <1>2
    <2> HIDE DEF given
    <2> QED
      BY <2>1, <2>2, GoodGrows
  <1>8. since[f] \in Inserted \cup {NoEvent} /\ member[f].sequence <= top'
    BY <1>1, FollowerIs
  <1> QED
    BY <1>3, <1>6, <1>7, <1>8, OwnStep DEF new

LEMMA ReadEndsInv ==
  ASSUME FlowInv, NEW f \in Follower, ReadEnds(f), Follows
  PROVE  FlowInv'
PROOF
  <1> DEFINE p == [cli[f] EXCEPT !.pc = "sleep"]
             c == NoConnection
  <1>1. /\ conn' = [conn EXCEPT ![f] = c] /\ cli' = [cli EXCEPT ![f] = p] /\ conn[f].state # "open"
        /\ UNCHANGED <<held, request, faults, top, member, since, excused>>
    BY DEF ReadEnds, ConnBecomes, Goes, Becomes, feedVars, Follows
  <1>2. member[f] = NoMember
    BY <1>1, FollowerIs DEF Good, Shape
  <1>3. Own(f, c, NoMember, p, since[f])
    BY <1>1, <1>2, Unmoved, FollowerIs DEF Own
  <1> DEFINE new == Given(f)'
  <1>4. CliGood(p, Inserted, Given(f)) /\ p.printed = cli[f].printed
    BY FollowerIs, GoesGood
  <1>5. Given(f) \subseteq new
    <2>1. since[f] \in Nat /\ since[f] <= since[f] /\ cli[f].printed \subseteq p.printed
      BY <1>4, FollowerIs
    <2> QED
      BY <1>3, <2>1, OwnGiven
  <1> HIDE DEF new, p
  <1>6. CliGood(p, Inserted, new)
    BY <1>4, <1>5 DEF CliGood, Ordered
  <1>7. Good(c, NoMember, Inserted, new, Done, Spared(NoMember.sequence))
    <2>1. c \in Connection /\ c.state = "none"
      BY NoConnectionIs DEF NoConnection
    <2>2. c = [c EXCEPT !.state = "none"]
      <3> HIDE DEF c
      <3> QED
        BY <2>1 DEF Connection
    <2> QED
      BY <2>2, NoConnectionGood
  <1>8. since[f] \in Inserted \cup {NoEvent} /\ NoMember.sequence <= top'
    BY <1>1, FollowerIs DEF NoMember
  <1> HIDE DEF c
  <1> QED
    BY <1>3, <1>6, <1>7, <1>8, OwnStep DEF new

LEMMA BeginInv ==
  ASSUME FlowInv, NEW f \in Follower, BeginStep(f)
  PROVE  FlowInv'
PROOF
  <1> DEFINE last == cli[f].last
             q == Reverse(ListNewest(last))
             first == IF ListNewest(1) = <<>> THEN NoEvent ELSE ListNewest(1)[1]
             p == IF last > 0 THEN [cli[f] EXCEPT !.page = q, !.pc = "print"]
                  ELSE [cli[f] EXCEPT !.pc = "poll", !.cursor = first]
  <1>1. /\ cli' = [cli EXCEPT ![f] = p] /\ since' = [since EXCEPT ![f] = Newest]
        /\ UNCHANGED <<held, request, faults, streamVars, excused>>
    BY DEF BeginStep, Begin, Lists, Becomes, feedVars
  <1>2. cli[f] \in Process /\ last \in Nat /\ since[f] \in Nat
    BY FollowerIs, CliAssumption DEF Process
  <1>3. /\ Newest \in Inserted \cup {NoEvent} /\ Newest \in Nat /\ since[f] <= Newest
        /\ \A e \in Inserted : e <= Newest
    <2>1. /\ Newest \in Inserted \cup {NoEvent} /\ (\A e \in Inserted : e <= Newest)
          /\ Inserted \subseteq Nat /\ since[f] \in Inserted \cup {NoEvent}
      BY FeedIs, FollowerIs, Events DEF Inserted
    <2>2. Newest \in Nat
      BY <2>1 DEF NoEvent
    <2>3. since[f] <= Newest
      BY <1>2, <2>1, <2>2 DEF NoEvent
    <2> QED
      BY <2>1, <2>2, <2>3
  <1>4. \A e \in Event : Row(e) => e \in Inserted
    BY DEF Row, Inserted
  <1>5. first \in Inserted \cup {NoEvent}
    <2>1. ListNewest(1) # <<>> => ListNewest(1)[1] \in {e \in Event : Row(e)}
      <3>1. 1 \in Nat \ {0}
        OBVIOUS
      <3> QED
        BY <3>1, ListNewestIs
    <2> QED
      BY <1>4, <2>1
  <1>6. last > 0 => q \in Seq(Event) /\ ToSet(q) \subseteq Inserted
    <2>1. ASSUME last > 0
          PROVE  q \in Seq(Event) /\ ToSet(q) \subseteq {e \in Event : Row(e)}
      <3>1. last \in Nat \ {0}
        BY <1>2, <2>1
      <3> HIDE DEF last
      <3> QED
        BY <3>1, ListNewestIs
    <2> QED
      BY <1>4, <2>1
  <1> HIDE DEF q, first, last
  <1>7. p.printed = cli[f].printed
    BY <1>2 DEF Process
  <1>8. ASSUME Given(f) \subseteq Given(f)'
        PROVE  CliGood(p, Inserted, Given(f)')
    <2> DEFINE new == Given(f)'
    <2>1. since'[f] = Newest
      BY <1>1 DEF FlowInv, TypeOK, FlowTypeOK
    <2>2. Inserted \subseteq new
      BY <1>3, <2>1 DEF Given, Inserted
    <2>3. Given(f) \subseteq new
      BY <1>8
    <2> HIDE DEF new
    <2>4. CliGood(cli[f], Inserted, Given(f)) /\ Begun(Inserted)
      BY FollowerIs, FeedIs
    <2>5. CASE last > 0
      <3> DEFINE r == [cli[f] EXCEPT !.page = q, !.pc = "print"]
      <3>1. r \in Process /\ r.page = q /\ r.cursor = cli[f].cursor
        BY <1>2, <1>6, <2>5 DEF Process
      <3> HIDE DEF r
      <3>2. Ordered(q, new)
        <4> SUFFICES ASSUME NEW i \in DOMAIN q, NEW e \in Event, e < q[i]
                     PROVE  e \in new
          BY DEF Ordered
        <4>1. q[i] \in Inserted
          BY <1>6, <2>5 DEF ToSet
        <4> QED
          BY <2>2, <2>4, <4>1 DEF Begun
      <3>3. CliGood(r, Inserted, new)
        BY <1>6, <2>3, <2>4, <2>5, <3>1, <3>2 DEF CliGood
      <3> QED
        BY <2>5, <3>3 DEF r, new
    <2>6. CASE ~(last > 0)
      <3> DEFINE r == [cli[f] EXCEPT !.pc = "poll", !.cursor = first]
      <3>1. r \in Process /\ r.page = cli[f].page /\ r.cursor = first
        BY <1>2, <1>5 DEF Process, Inserted
      <3> HIDE DEF r
      <3>2. \A e \in Event : e <= first => e \in new
        <4> SUFFICES ASSUME NEW e \in Event, e <= first PROVE e \in Inserted
          BY <2>2
        <4>1. CASE first = NoEvent
          BY <4>1 DEF Event, NoEvent
        <4>2. CASE first \in Inserted
          <5>1. e = first \/ e < first
            BY <4>2 DEF Event, Inserted
          <5> QED
            BY <2>4, <4>2, <5>1 DEF Begun
        <4> QED
          BY <1>5, <4>1, <4>2
      <3>3. CliGood(r, Inserted, new)
        BY <2>3, <2>4, <3>1, <3>2 DEF CliGood, Ordered
      <3> QED
        BY <2>6, <3>3 DEF r, new
    <2> QED
      BY <2>5, <2>6
  <1>9. /\ faults' \in 0 .. MaxFaults /\ excused \subseteq excused' /\ excused' \subseteq Follower \X Event
        /\ UNCHANGED <<held, request, streamVars>> /\ cli[f].printed \subseteq p.printed
    BY <1>1, <1>7, FollowerIs
  <1> HIDE DEF p
  <1> QED
    BY <1>1, <1>3, <1>8, <1>9, CliStep

LEMMA PollInv ==
  ASSUME FlowInv, NEW f \in Follower, PollStep(f)
  PROVE  FlowInv'
PROOF
  <1> DEFINE cursor == cli[f].cursor
             r == ListNewest(ListLimit)
             q == IF cursor = NoEvent THEN Reverse(r) ELSE ListAfter(cursor, ListLimit)
             p == [cli[f] EXCEPT !.page = q, !.pc = "print"]
             blind == IF cursor = NoEvent THEN BeforePage(f, r, ListLimit) ELSE Blind(f, cursor)
             S == {e \in Event : Row(e)}
             A == {e \in Event : Row(e) /\ Row(cursor) /\ e > cursor}
  <1>1. /\ cli' = [cli EXCEPT ![f] = p] /\ UNCHANGED <<held, request, faults, streamVars, since>>
        /\ excused' = excused \cup blind
    BY DEF PollStep, Poll, Lists, ListEvents, Becomes, feedVars, Excuse
  <1>2. cli[f] \in Process /\ CliGood(cli[f], Inserted, Given(f)) /\ Begun(Inserted)
    BY FollowerIs, FeedIs
  <1>3. S \subseteq Inserted /\ A \subseteq Inserted /\ Inserted \subseteq Event
    BY DEF Row, Inserted
  <1>4. ListLimit \in Nat \ {0}
    BY CliAssumption
  <1>5. blind \subseteq Follower \X Event
    BY <1>3 DEF Blind, BeforePage
  <1>6. /\ cursor = NoEvent => /\ q \in Seq(Event) /\ ToSet(q) \subseteq S
                               /\ Ordered(q, (Event \ S) \cup {e \in S : Len(r) = ListLimit /\ e < Last(r)})
        /\ cursor # NoEvent => q \in Seq(Event) /\ ToSet(q) \subseteq A /\ Ordered(q, Event \ A)
    <2>1. CASE cursor = NoEvent
      <3>1. q = Reverse(r)
        BY <2>1
      <3> QED
        BY <1>4, <2>1, <3>1, ListNewestIs
    <2>2. CASE cursor # NoEvent
      <3>1. q = ListAfter(cursor, ListLimit)
        BY <2>2
      <3> HIDE DEF q, cursor
      <3> QED
        BY <1>4, <2>2, <3>1, ListAfterIs
    <2> QED
      BY <2>1, <2>2
  <1> HIDE DEF q, r
  <1>7. q \in Seq(Event) /\ ToSet(q) \subseteq Inserted
    BY <1>3, <1>6
  <1>8. p \in Process /\ p.page = q /\ p.cursor = cursor /\ p.printed = cli[f].printed
    BY <1>2, <1>7 DEF Process
  <1>9. ASSUME Given(f) \subseteq Given(f)'
        PROVE  CliGood(p, Inserted, Given(f)')
    <2> DEFINE new == Given(f)'
    <2>1. \A e \in Inserted : <<f, e>> \in blind \/ held[e] = "gone" => e \in new
      BY <1>1, <1>3 DEF Given
    <2>2. \A e \in Inserted : Row(e) \/ held[e] = "gone"
      BY DEF Inserted, Row, FlowInv, TypeOK, FeedTypeOK
    <2>3. Given(f) \subseteq new
      BY <1>9
    <2> HIDE DEF new
    <2>4. Ordered(q, new)
      <3>1. CASE cursor = NoEvent
        <4> DEFINE past == (Event \ S) \cup {e \in S : Len(r) = ListLimit /\ e < Last(r)}
        <4>1. \A e \in Inserted : e \in past => e \in new
          <5> TAKE e \in Inserted
          <5>1. CASE e \notin S
            BY <1>3, <2>1, <2>2, <5>1
          <5>2. CASE Len(r) = ListLimit /\ e < Last(r)
            <6>1. <<f, e>> \in blind
              BY <3>1, <5>2 DEF BeforePage
            <6> QED
              BY <2>1, <6>1
          <5> QED
            BY <5>1, <5>2
        <4>2. Ordered(q, past)
          BY <1>6, <3>1
        <4> HIDE DEF past
        <4> QED
          BY <1>2, <1>7, <4>1, <4>2, OrderedGrows DEF Begun
      <3>2. CASE cursor # NoEvent
        <4> SUFFICES ASSUME NEW i \in DOMAIN q, NEW e \in Event, e < q[i]
                     PROVE  e \in new \cup Before(q, i)
          BY DEF Ordered
        <4>1. q[i] \in A /\ q[i] \in Inserted
          BY <1>3, <1>6, <3>2 DEF ToSet
        <4>2. e \in Inserted /\ Row(cursor)
          BY <1>2, <4>1 DEF Begun
        <4>3. CASE e \in A
          BY <1>6, <3>2, <4>3 DEF Ordered
        <4>4. CASE ~Row(e)
          BY <2>1, <2>2, <4>2, <4>4
        <4>5. CASE ~(e > cursor)
          <5>1. e <= cursor
            BY <1>2, <4>5 DEF Process, Event, NoEvent
          <5> QED
            BY <1>2, <2>3, <5>1 DEF CliGood
        <4> QED
          BY <4>2, <4>3, <4>4, <4>5
      <3> QED
        BY <3>1, <3>2
    <2> HIDE DEF p
    <2>5. \A e \in Event : e <= p.cursor => e \in new
      BY <1>2, <1>8, <2>3 DEF CliGood
    <2>6. CliGood(p, Inserted, new)
      BY <1>7, <1>8, <2>4, <2>5 DEF CliGood
    <2> QED
      BY <2>6 DEF new
  <1>10. /\ faults' \in 0 .. MaxFaults /\ excused \subseteq excused' /\ excused' \subseteq Follower \X Event
         /\ UNCHANGED <<held, request, streamVars>> /\ cli[f].printed \subseteq p.printed
         /\ since' = [since EXCEPT ![f] = since[f]] /\ since[f] \in Inserted \cup {NoEvent}
         /\ since[f] <= since[f]
    BY <1>1, <1>5, <1>8, FollowerIs, Unmoved
  <1> HIDE DEF p, blind
  <1> QED
    BY <1>1, <1>9, <1>10, CliStep

LEMMA PrintNextInv ==
  ASSUME FlowInv, NEW f \in Follower, PrintNext(f), Follows
  PROVE  FlowInv'
PROOF
  <1>0. faults' \in 0 .. MaxFaults /\ UNCHANGED <<held, request, streamVars>>
    BY FollowerIs DEF PrintNext, feedVars
  <1>1. CASE cli[f].page = <<>>
    <2>1. Goes(f, "sleep")
      BY <1>1 DEF PrintNext
    <2> QED
      BY <1>0, <2>1, GoesInv
  <1>2. CASE cli[f].page # <<>>
    <2> DEFINE e == Head(cli[f].page)
               fetched == cli[f].command = "tail" \/ DetailFound(e)
               p == IF fetched THEN [Prints(cli[f], e) EXCEPT !.page = Tail(@)]
                    ELSE [cli[f] EXCEPT !.pc = "stopped", !.printed = @ \cup {e}]
    <2>1. cli' = [cli EXCEPT ![f] = p]
      BY <1>2 DEF PrintNext, Becomes
    <2>2. /\ cli[f] \in Process /\ cli[f].page \in Seq(Event) /\ ToSet(cli[f].page) \subseteq Inserted
          /\ Ordered(cli[f].page, Given(f)) /\ \A x \in Event : x <= cli[f].cursor => x \in Given(f)
      BY FollowerIs DEF CliGood, Process
    <2>3. /\ e \in Event /\ Tail(cli[f].page) \in Seq(Event)
          /\ ToSet(cli[f].page) = {e} \cup ToSet(Tail(cli[f].page))
          /\ \A x \in Event : x < e => x \in Given(f)
          /\ Ordered(Tail(cli[f].page), Given(f) \cup {e})
      BY <1>2, <2>2, OrderedHead
    <2> HIDE DEF e, fetched
    <2>4. p.printed = cli[f].printed \cup {e}
      <3>1. CASE fetched
        BY <2>2, <2>3, <3>1 DEF Prints, Process
      <3>2. CASE ~fetched
        BY <2>2, <3>2 DEF Process
      <3> QED
        BY <3>1, <3>2
    <2>5. ASSUME Given(f) \subseteq Given(f)'
          PROVE  CliGood(p, Inserted, Given(f)')
      <3> DEFINE new == Given(f)'
      <3>1. cli'[f] = p
        BY <2>1 DEF FlowInv, TypeOK, CliTypeOK
      <3>2. e \in new
        <4> HIDE DEF p
        <4> QED
          BY <2>3, <2>4, <3>1 DEF Given
      <3>3. Given(f) \subseteq new
        BY <2>5
      <3> HIDE DEF new
      <3>4. CASE fetched
        <4> DEFINE b == Prints(cli[f], e)
                   d == [b EXCEPT !.page = Tail(@)]
        <4>1. CliGood(b, Inserted, new)
          BY <2>2, <2>3, <3>2, <3>3, FollowerIs, PrintsGood
        <4>2. b \in Process /\ b.page = cli[f].page /\ b.cursor = e
          BY <2>2, <2>3 DEF Prints, Process
        <4> HIDE DEF b
        <4>3. d \in Process /\ d.page = Tail(cli[f].page) /\ d.cursor = b.cursor
          BY <2>3, <4>2 DEF Process
        <4> HIDE DEF d
        <4>4. Ordered(d.page, new)
          <5>1. Given(f) \cup {e} \subseteq new
            BY <3>2, <3>3
          <5> QED
            BY <2>3, <4>3, <5>1 DEF Ordered
        <4>5. CliGood(d, Inserted, new)
          BY <2>2, <2>3, <4>1, <4>3, <4>4 DEF CliGood
        <4> QED
          BY <3>4, <4>5 DEF d, b, new
      <3>5. CASE ~fetched
        <4> DEFINE d == [cli[f] EXCEPT !.pc = "stopped", !.printed = @ \cup {e}]
        <4>1. d \in Process /\ d.page = cli[f].page /\ d.cursor = cli[f].cursor
          BY <2>2, <2>3 DEF Process
        <4> HIDE DEF d
        <4>2. CliGood(d, Inserted, new)
          BY <2>2, <3>3, <4>1 DEF CliGood, Ordered
        <4> QED
          BY <3>5, <4>2 DEF d, new
      <3> QED
        BY <3>4, <3>5
    <2>6. /\ excused \subseteq excused' /\ excused' \subseteq Follower \X Event
          /\ cli[f].printed \subseteq p.printed
          /\ since' = [since EXCEPT ![f] = since[f]] /\ since[f] \in Inserted \cup {NoEvent}
          /\ since[f] <= since[f]
      BY <2>4, FollowerIs, Unmoved DEF Follows
    <2> HIDE DEF p
    <2> QED
      BY <1>0, <2>1, <2>5, <2>6, CliStep
  <1> QED
    BY <1>1, <1>2

-----------------------------------------------------------------------------
(* The feed's steps. *)

LEMMA FeedStep ==
  ASSUME FlowInv, UNCHANGED <<streamVars, cli, since>>, FeedTypeOK', FeedOK',
         excused \subseteq excused', excused' \subseteq Follower \X Event,
         Inserted \subseteq Inserted', Done \subseteq Done',
         \A e \in Event : held[e] = "gone" => held'[e] = "gone",
         \A f \in Follower : Open(f) => Spared(member[f].sequence)' \subseteq
           Spared(member[f].sequence) \cup Given(f)' \cup Listed(conn[f]) \cup Carried(conn[f], member[f])
  PROVE  FlowInv'
PROOF
  <1>1. conn' = conn /\ member' = member /\ top' = top
    BY DEF streamVars
  <1>2. TypeOK'
    BY <1>1 DEF FlowInv, TypeOK, StreamTypeOK, CliTypeOK, FlowTypeOK
  <1>3. ASSUME NEW f \in Follower PROVE FollowerOK(f)'
    <2>1. member[f].sequence <= top'
      BY <1>1, FollowerIs
    <2> QED
      BY <1>1, <2>1, StaysOK
  <1> QED
    BY <1>2, <1>3 DEF FlowInv

(* The request of one event goes on from probe or publish. *)
LEMMA RequestStep ==
  ASSUME FlowInv, UNCHANGED <<held, streamVars, cli, since>>, faults' \in 0 .. MaxFaults,
         excused \subseteq excused', excused' \subseteq Follower \X Event,
         NEW e \in Event, Publishing(e), NEW pc \in {"publish", "done"}, NEW n \in Nat \cup {NoLimit},
         RequestGoes(e, pc, n),
         \A f \in Follower : Open(f) =>
           \/ e \in Given(f)' \cup Listed(conn[f]) \cup Carried(conn[f], member[f])
           \/ pc = "publish" /\ (n = NoLimit \/ member[f].sequence <= n)
  PROVE  FlowInv'
PROOF
  <1>1. /\ held \in [Event -> {"no", "whole", "row", "gone"}]
        /\ request \in [Event -> [pc : {"idle", "probe", "publish", "done"}, upTo : Nat \cup {NoLimit}]]
        /\ FeedOK
    BY DEF FlowInv, TypeOK, FeedTypeOK
  <1>2. request' = [request EXCEPT ![e] = [pc |-> pc, upTo |-> n]]
    BY DEF RequestGoes
  <1>3. /\ request' \in [Event -> [pc : {"idle", "probe", "publish", "done"}, upTo : Nat \cup {NoLimit}]]
        /\ request'[e].pc = pc /\ request'[e].upTo = n
        /\ \A d \in Event : d # e => request'[d] = request[d]
    BY <1>1, <1>2
  <1>4. request[e].pc \in {"probe", "publish"}
    BY DEF Publishing
  <1>5. FeedTypeOK'
    BY <1>1, <1>3 DEF FeedTypeOK
  <1>6. Inserted' = Inserted
    BY DEF Inserted
  <1>7. FeedOK'
    <2>1. \A d \in Event : request'[d].pc = "idle" <=> request[d].pc = "idle"
      BY <1>3, <1>4
    <2> QED
      BY <1>1, <1>6, <2>1 DEF FeedOK
  <1>8. Done \subseteq Done'
    BY <1>3, <1>4 DEF Done
  <1>9. ASSUME NEW f \in Follower, Open(f)
        PROVE  Spared(member[f].sequence)' \subseteq
                 Spared(member[f].sequence) \cup Given(f)' \cup Listed(conn[f]) \cup Carried(conn[f], member[f])
    <2>0. member' = member
      BY DEF streamVars
    <2> DEFINE given == Given(f)' \cup Listed(conn[f]) \cup Carried(conn[f], member[f])
    <2>1. e \in given \/ (pc = "publish" /\ (n = NoLimit \/ member[f].sequence <= n))
      BY <1>9
    <2> HIDE DEF given
    <2>2. member[f].sequence \in Nat
      BY FollowerIs
    <2>3. ASSUME NEW d \in Event, d \in Spared(member[f].sequence)'
          PROVE  d \in Spared(member[f].sequence) \cup given
      <3>1. \/ request'[d].pc = "done"
            \/ request'[d].pc = "publish" /\ request'[d].upTo # NoLimit /\ request'[d].upTo < member[f].sequence
        BY <2>0, <2>3 DEF Spared
      <3>2. CASE d # e
        BY <1>3, <3>1, <3>2 DEF Spared
      <3>3. CASE d = e /\ e \notin given
        <4>1. pc = "publish" /\ n # NoLimit /\ n < member[f].sequence
          BY <1>3, <2>1, <3>1, <3>3
        <4>2. member[f].sequence <= n /\ n \in Nat
          BY <2>1, <3>3, <4>1
        <4> QED
          BY <2>2, <4>1, <4>2
      <3> QED
        BY <3>2, <3>3
    <2> QED
      BY <2>3 DEF Spared, given
  <1>10. \A d \in Event : held[d] = "gone" => held'[d] = "gone"
    OBVIOUS
  <1>11. Inserted \subseteq Inserted'
    BY <1>6
  <1> QED
    BY <1>5, <1>7, <1>8, <1>9, <1>10, <1>11, FeedStep

LEMMA InsertInv ==
  ASSUME FlowInv, NEW e \in Event, Insert(e), UNCHANGED <<streamVars, cli>>, Follows
  PROVE  FlowInv'
PROOF
  <1>1. /\ held \in [Event -> {"no", "whole", "row", "gone"}]
        /\ request \in [Event -> [pc : {"idle", "probe", "publish", "done"}, upTo : Nat \cup {NoLimit}]]
        /\ FeedOK /\ faults \in 0 .. MaxFaults
    BY DEF FlowInv, TypeOK, FeedTypeOK
  <1>2. /\ e = Newest + 1 /\ held' = [held EXCEPT ![e] = "whole"]
        /\ request' = [request EXCEPT ![e] = [pc |-> "probe", upTo |-> 0]]
        /\ UNCHANGED <<faults, since, excused>>
    BY DEF Insert, RequestGoes, Follows
  <1>3. /\ Newest \in Inserted \cup {NoEvent} /\ (\A d \in Inserted : d <= Newest)
        /\ Begun(Inserted) /\ Inserted \subseteq Nat /\ Newest \in Nat
    <2>1. /\ Newest \in Inserted \cup {NoEvent} /\ (\A d \in Inserted : d <= Newest)
          /\ Begun(Inserted)
      BY FeedIs
    <2>2. Inserted \subseteq Nat
      BY Events DEF Inserted
    <2>3. Newest \in Nat
      BY <2>1, <2>2 DEF NoEvent
    <2> QED
      BY <2>1, <2>2, <2>3
  <1>4. e \notin Inserted /\ held[e] = "no" /\ request[e].pc = "idle"
    <2>1. e \notin Inserted
      BY <1>2, <1>3
    <2> QED
      BY <1>1, <2>1 DEF Inserted, FeedOK
  <1>5. Inserted' = Inserted \cup {e}
    BY <1>1, <1>2 DEF Inserted
  <1>6. /\ request' \in [Event -> [pc : {"idle", "probe", "publish", "done"}, upTo : Nat \cup {NoLimit}]]
        /\ request'[e].pc = "probe" /\ \A d \in Event : d # e => request'[d] = request[d]
    BY <1>1, <1>2
  <1>7. FeedTypeOK'
    BY <1>1, <1>2, <1>6 DEF FeedTypeOK
  <1>8. FeedOK'
    <2>1. ASSUME NEW d \in Event, d < e PROVE d \in Inserted
      <3>1. d \in Nat \ {0} /\ d <= Newest
        BY <1>2, <1>3, <2>1, Events
      <3>2. Newest \in Inserted /\ Newest \in Event
        BY <1>3, <3>1 DEF NoEvent, Inserted
      <3>3. d = Newest \/ d < Newest
        BY <1>3, <3>1
      <3> QED
        BY <1>3, <3>2, <3>3 DEF Begun
    <2>2. \A d, x \in Event : d < x /\ x \in Inserted' => d \in Inserted'
      BY <1>3, <1>5, <2>1 DEF Begun
    <2>3. \A d \in Event : request'[d].pc = "idle" <=> d \notin Inserted'
      BY <1>1, <1>5, <1>6 DEF FeedOK
    <2> QED
      BY <2>2, <2>3 DEF FeedOK
  <1>9. Done \subseteq Done'
    BY <1>4, <1>6 DEF Done
  <1>10. \A f \in Follower : Spared(member[f].sequence)' \subseteq Spared(member[f].sequence)
    BY <1>4, <1>6 DEF Spared, streamVars
  <1>11. /\ \A d \in Event : held[d] = "gone" => held'[d] = "gone"
         /\ Inserted \subseteq Inserted' /\ excused \subseteq excused' /\ excused' \subseteq Follower \X Event
    BY <1>1, <1>2, <1>4, <1>5 DEF FlowInv, TypeOK, FlowTypeOK
  <1> QED
    BY <1>2, <1>7, <1>8, <1>9, <1>10, <1>11, FeedStep

LEMMA RemoveInv ==
  ASSUME FlowInv, NEW e \in Event, RemoveObjects(e) \/ RemoveRow(e),
         UNCHANGED <<streamVars, cli>>, Follows
  PROVE  FlowInv'
PROOF
  <1>1. held \in [Event -> {"no", "whole", "row", "gone"}] /\ FeedTypeOK
    BY DEF FlowInv, TypeOK, FeedTypeOK
  <1>2. PICK h \in {"row", "gone"} : held' = [held EXCEPT ![e] = h]
    BY DEF RemoveObjects, RemoveRow
  <1>3. held[e] \in {"whole", "row"} /\ UNCHANGED <<request, faults, since, excused>>
    BY DEF RemoveObjects, RemoveRow, Follows
  <1>4. held' \in [Event -> {"no", "whole", "row", "gone"}] /\ FeedTypeOK'
    BY <1>1, <1>2, <1>3 DEF FeedTypeOK
  <1>5. Inserted' = Inserted /\ \A d \in Event : held[d] = "gone" => held'[d] = "gone"
    BY <1>1, <1>2, <1>3 DEF Inserted
  <1>6. FeedOK'
    BY <1>3, <1>5 DEF FlowInv, FeedOK
  <1>7. Done' = Done /\ \A f \in Follower : Spared(member[f].sequence)' = Spared(member[f].sequence)
    BY <1>3 DEF Done, Spared, streamVars
  <1>8. excused \subseteq excused' /\ excused' \subseteq Follower \X Event
    BY <1>3 DEF FlowInv, TypeOK, FlowTypeOK
  <1>9. Inserted \subseteq Inserted' /\ Done \subseteq Done'
    BY <1>5, <1>7
  <1> QED
    BY <1>3, <1>4, <1>5, <1>6, <1>7, <1>8, <1>9, FeedStep

(* A connection that has caught up with an event owes it no publication. *)
LEMMA CaughtUpIs ==
  ASSUME FlowInv, NEW f \in Follower, Open(f), NEW e \in Event, CaughtUp(f, e)
  PROVE  e \in Given(f) \cup Listed(conn[f]) \cup Carried(conn[f], member[f])
PROOF
  <1>1. conn[f] \in Connection /\ Tidy(conn[f])
    BY FollowerIs DEF Good, Shape, Open
  <1>2. CASE e \in ToSet(conn[f].page) \cup conn[f].delivered
    BY <1>1, <1>2 DEF Tidy, Carried, Kept, Fore
  <1>3. CASE conn[f].catchUp = "list" /\ e > conn[f].after
    BY <1>3 DEF Listed
  <1>4. CASE conn[f].catchUp = "list" /\ ~(e > conn[f].after)
    <2>1. e <= conn[f].after
      BY <1>1, <1>4 DEF Connection, Event, NoEvent
    <2> QED
      BY <1>4, <2>1, FollowerIs DEF Good, InOrder
  <1> QED
    BY <1>2, <1>3, <1>4 DEF CaughtUp

LEMMA OpenIs ==
  ASSUME FlowInv, NEW f \in Follower
  PROVE  Open(f) <=> f \in Subscribed
PROOF
  <1>1. IF Open(f) THEN member[f].sequence > 0 ELSE member[f] = NoMember
    BY FollowerIs DEF Good, Shape, Open
  <1>2. NoMember.sequence = 0
    BY DEF NoMember
  <1> QED
    BY <1>1, <1>2 DEF Subscribed

LEMMA ProbesInv ==
  ASSUME FlowInv, NEW e \in Event, UNCHANGED <<streamVars, cli>>, Follows,
         Probe(e) \/ ProbeFails(e)
  PROVE  FlowInv'
PROOF
  <1>1. /\ UNCHANGED <<held, since, excused>> /\ excused \subseteq excused'
        /\ excused' \subseteq Follower \X Event /\ Publishing(e) /\ faults' \in 0 .. MaxFaults
    <2>1. faults' \in 0 .. MaxFaults
      BY FaultIs DEF Probe, ProbeFails, FlowInv, TypeOK, FeedTypeOK
    <2>2. excused \subseteq Follower \X Event
      BY DEF FlowInv, TypeOK, FlowTypeOK
    <2> QED
      BY <2>1, <2>2 DEF Probe, ProbeFails, Follows, Publishing
  <1>2. CASE Probe(e) /\ Subscribed = {}
    <2>1. RequestGoes(e, "done", 0)
      BY <1>2 DEF Probe
    <2>2. \A f \in Follower : ~Open(f)
      BY <1>2, OpenIs
    <2>3. 0 \in Nat \cup {NoLimit} /\ "done" \in {"publish", "done"}
      OBVIOUS
    <2> QED
      BY <1>1, <2>1, <2>2, <2>3, RequestStep
  <1>3. CASE Probe(e) /\ Subscribed # {}
    <2>1. RequestGoes(e, "publish", top)
      BY <1>3 DEF Probe
    <2>2. top \in Nat \cup {NoLimit} /\ "publish" \in {"publish", "done"}
      BY DEF FlowInv, TypeOK, StreamTypeOK
    <2>3. \A f \in Follower : member[f].sequence <= top
      BY FollowerIs
    <2> QED
      BY <1>1, <2>1, <2>2, <2>3, RequestStep
  <1>4. CASE ProbeFails(e)
    <2>1. RequestGoes(e, "publish", NoLimit)
      BY <1>4 DEF ProbeFails
    <2>2. NoLimit \in Nat \cup {NoLimit} /\ "publish" \in {"publish", "done"}
      OBVIOUS
    <2> QED
      BY <1>1, <2>1, <2>2, RequestStep
  <1> QED
    BY <1>2, <1>3, <1>4

LEMMA PublishFailsInv ==
  ASSUME FlowInv, NEW e \in Event, PublishFailsStep(e)
  PROVE  FlowInv'
PROOF
  <1>1. /\ UNCHANGED <<held, since, cli, streamVars>> /\ RequestGoes(e, "done", 0) /\ Publishing(e)
        /\ excused' = excused \cup Unpublished(e) /\ faults' \in 0 .. MaxFaults
    BY FaultIs DEF PublishFailsStep, PublishFails, Excuse, Publishing
  <1>2. excused \subseteq excused' /\ excused' \subseteq Follower \X Event
    BY <1>1 DEF Unpublished, FlowInv, TypeOK, FlowTypeOK
  <1>3. ASSUME NEW f \in Follower, Open(f)
        PROVE  e \in Given(f)' \cup Listed(conn[f]) \cup Carried(conn[f], member[f])
    <2>1. CASE CaughtUp(f, e)
      <3>1. Given(f) \subseteq Given(f)'
        BY <1>1, <1>2 DEF Given
      <3> QED
        BY <1>3, <2>1, <3>1, CaughtUpIs
    <2>2. CASE ~CaughtUp(f, e)
      <3>1. <<f, e>> \in Unpublished(e)
        BY <1>3, <2>2, OpenIs DEF Unpublished
      <3> QED
        BY <1>1, <3>1 DEF Given
    <2> QED
      BY <2>1, <2>2
  <1>4. 0 \in Nat \cup {NoLimit} /\ "done" \in {"publish", "done"}
    OBVIOUS
  <1> QED
    BY <1>1, <1>2, <1>3, <1>4, RequestStep

LEMMA PublishInv ==
  ASSUME FlowInv, NEW e \in Event, PublishStep(e)
  PROVE  FlowInv'
PROOF
  <1> DEFINE Handed(f) == [member[f] EXCEPT !.handed = @ \cup {e}, !.wire = Append(@, e)]
  <1>1. /\ held \in [Event -> {"no", "whole", "row", "gone"}]
        /\ request \in [Event -> [pc : {"idle", "probe", "publish", "done"}, upTo : Nat \cup {NoLimit}]]
        /\ FeedOK /\ faults \in 0 .. MaxFaults
    BY DEF FlowInv, TypeOK, FeedTypeOK
  <1>2. /\ request[e].pc = "publish" /\ request' = [request EXCEPT ![e] = [pc |-> "done", upTo |-> 0]]
        /\ member' = [f \in Follower |-> IF ~Reaches(e, f) THEN member[f] ELSE Handed(f)]
        /\ UNCHANGED <<held, faults, top, conn, cli, since>> /\ excused' = excused \cup Overtaken(e)
    BY DEF PublishStep, Publish, RequestGoes, Excuse
  <1>3. /\ request' \in [Event -> [pc : {"idle", "probe", "publish", "done"}, upTo : Nat \cup {NoLimit}]]
        /\ request'[e].pc = "done" /\ \A d \in Event : d # e => request'[d] = request[d]
    BY <1>1, <1>2
  <1>4. /\ excused \subseteq excused' /\ excused' \subseteq Follower \X Event
    BY <1>2 DEF Overtaken, FlowInv, TypeOK, FlowTypeOK
  <1>5. Inserted' = Inserted /\ e \in Inserted
    BY <1>1, <1>2 DEF Inserted, FeedOK
  <1>6. Done' = Done \cup {e} /\ e \notin Done
    BY <1>2, <1>3 DEF Done
  <1>7. FeedOK'
    <2>1. \A d \in Event : request'[d].pc = "idle" <=> request[d].pc = "idle"
      BY <1>2, <1>3
    <2> QED
      BY <1>1, <1>5, <2>1 DEF FeedOK
  <1>8. ASSUME NEW sequence
        PROVE  {d \in Event : \/ request'[d].pc = "done"
                              \/ /\ request'[d].pc = "publish" /\ request'[d].upTo # NoLimit
                                 /\ request'[d].upTo < sequence}
                 = Spared(sequence) \cup {e}
    <2>1. \A d \in Event : d # e => request'[d] = request[d]
      BY <1>3
    <2> QED
      BY <1>3, <2>1 DEF Spared
  <1>9. ASSUME NEW f \in Follower
        PROVE  Given(f) \subseteq Given(f)' /\ \A d \in Event : <<f, d>> \in excused' => d \in Given(f)'
    BY <1>2, <1>4 DEF Given
  <1>10. ASSUME NEW f \in Follower, ~Reaches(e, f)
         PROVE  FollowerOK(f)'
    <2>1. member'[f] = member[f]
      BY <1>2, <1>10
    <2>2. Spared(member[f].sequence)' = Spared(member[f].sequence) \cup {e}
      BY <1>8, <2>1 DEF Spared
    <2>3. Open(f) => e \in Spared(member[f].sequence)
      <3> SUFFICES ASSUME Open(f) PROVE e \in Spared(member[f].sequence)
        OBVIOUS
      <3>1. f \in Subscribed
        BY OpenIs
      <3>2. e \notin member[f].handed
        BY <1>6, FollowerIs DEF Good, Shape
      <3>3. request[e].upTo # NoLimit /\ ~(member[f].sequence <= request[e].upTo)
        BY <1>10, <3>1, <3>2 DEF Reaches
      <3>4. request[e].upTo \in Nat /\ member[f].sequence \in Nat
        BY <1>1, <3>3, FollowerIs
      <3>5. request[e].upTo < member[f].sequence
        BY <3>3, <3>4
      <3> QED
        BY <1>2, <3>3, <3>5 DEF Spared
    <2>4. Open(f) => Spared(member[f].sequence)' \subseteq
            Spared(member[f].sequence) \cup Given(f)' \cup Listed(conn[f]) \cup Carried(conn[f], member[f])
      BY <2>2, <2>3
    <2>5. member[f].sequence <= top'
      BY <1>2, FollowerIs
    <2>6. \A d \in Event : held[d] = "gone" => held'[d] = "gone"
      BY <1>2
    <2>7. Inserted \subseteq Inserted' /\ Done \subseteq Done'
      BY <1>5, <1>6
    <2> QED
      BY <1>2, <1>4, <2>1, <2>4, <2>5, <2>6, <2>7, StaysOK
  <1>11. ASSUME NEW f \in Follower, Reaches(e, f)
         PROVE  FollowerOK(f)'
    <2> DEFINE new == Given(f)'
               m == Handed(f)
    <2>1. Open(f) /\ conn[f].state = "open"
      BY <1>11, OpenIs DEF Reaches, Open
    <2>2. Given(f) \subseteq new /\ \A d \in Event : <<f, d>> \in excused' => d \in new
      BY <1>9
    <2> HIDE DEF new
    <2>3. \A d \in Event : d < e => d \in new \cup Listed(conn[f]) \cup Carried(conn[f], member[f])
      <3> TAKE d \in Event
      <3> HAVE d < e
      <3>1. d \in Inserted
        BY <1>5, FeedIs DEF Begun
      <3>2. request[d].pc \in {"probe", "publish", "done"}
        BY <1>1, <3>1 DEF FeedOK
      <3>3. CASE request[d].pc = "done"
        <4>1. d \in Spared(member[f].sequence)
          BY <3>3 DEF Spared
        <4> QED
          BY <2>1, <2>2, <4>1, FollowerIs DEF Good, Spares
      <3>4. CASE Publishing(d) /\ ~CaughtUp(f, d)
        <4>1. <<f, d>> \in Overtaken(e)
          BY <1>11, <3>4 DEF Overtaken
        <4> QED
          BY <1>2, <2>2, <4>1
      <3>5. CASE CaughtUp(f, d)
        BY <2>1, <2>2, <3>5, CaughtUpIs
      <3> QED
        BY <3>2, <3>3, <3>4, <3>5 DEF Publishing
    <2>4. Good(conn[f], m, Inserted, new, Done \cup {e}, Spared(member[f].sequence) \cup {e})
      BY <1>5, <2>1, <2>2, <2>3, FollowerIs, HandGood
    <2>5. m.sequence = member[f].sequence /\ member'[f] = m
      BY <1>2, <1>11, FollowerIs DEF Member
    <2> HIDE DEF m
    <2>6. Spared(member[f].sequence)' = Spared(member[f].sequence) \cup {e}
      <3>1. member'[f].sequence = member[f].sequence
        BY <2>5
      <3> QED
        BY <1>8, <3>1 DEF Spared
    <2>7. CliGood(cli[f], Inserted, new)
      BY <2>2, FollowerIs DEF CliGood, Ordered
    <2>8. member'[f].sequence <= top' /\ since'[f] \in Inserted' \cup {NoEvent}
      BY <1>2, <1>5, <2>5, FollowerIs
    <2>9. Good(conn[f], member[f], Inserted, Given(f), Done, Spared(member[f].sequence))'
      BY <1>2, <1>5, <1>6, <2>4, <2>5, <2>6 DEF new
    <2>10. CliGood(cli[f], Inserted, Given(f))'
      BY <1>2, <1>5, <2>7 DEF new
    <2> QED
      BY <2>8, <2>9, <2>10 DEF FollowerOK
  <1>12. \A f \in Follower : FollowerOK(f)'
    BY <1>10, <1>11
  <1>13. TypeOK'
    <2>1. FeedTypeOK'
      BY <1>1, <1>2, <1>3 DEF FeedTypeOK
    <2>2. \A f \in Follower : member'[f] \in Member
      BY <1>12 DEF FollowerOK, Good, Shape
    <2>3. member' \in [Follower -> Member]
      <3>1. member' = [f \in Follower |-> member'[f]]
        BY <1>2
      <3> QED
        BY <2>2, <3>1
    <2>4. StreamTypeOK'
      BY <1>2, <2>3 DEF FlowInv, TypeOK, StreamTypeOK
    <2>5. CliTypeOK' /\ FlowTypeOK'
      BY <1>2, <1>4 DEF FlowInv, TypeOK, CliTypeOK, FlowTypeOK
    <2> QED
      BY <2>1, <2>4, <2>5 DEF TypeOK
  <1> QED
    BY <1>7, <1>12, <1>13 DEF FlowInv

LEMMA RestartInv ==
  ASSUME FlowInv, Restart, UNCHANGED cli, Follows
  PROVE  FlowInv'
PROOF
  <1>1. PICK state \in {"ended", "broken"} :
          conn' = [f \in Follower |-> IF Open(f) THEN Over(f, state) ELSE conn[f]]
    BY DEF Restart
  <1>2. /\ member' = [f \in Follower |-> NoMember] /\ top' = 0 /\ faults' \in 0 .. MaxFaults
        /\ UNCHANGED <<held, request, cli, since, excused>>
    BY FaultIs DEF Restart, Follows
  <1>3. NoMember.sequence = 0
    BY DEF NoMember
  <1>4. /\ Inserted' = Inserted /\ Done' = Done
        /\ \A f \in Follower : Given(f)' = Given(f)
    BY <1>2 DEF Inserted, Done, Given
  <1>5. ASSUME NEW f \in Follower
        PROVE  Good(conn'[f], NoMember, Inserted, Given(f), Done, Spared(NoMember.sequence))
    <2>1. CASE Open(f)
      <3>1. conn'[f] = Over(f, state)
        BY <1>1, <2>1
      <3> QED
        BY <3>1, OverGood
    <2>2. CASE ~Open(f)
      <3>1. conn'[f] = conn[f]
        BY <1>1, <2>2
      <3>2. member[f] = NoMember
        BY <2>2, FollowerIs DEF Good, Shape, Open
      <3>3. Good(conn[f], NoMember, Inserted, Given(f), Done, Spared(NoMember.sequence))
        BY <3>2, FollowerIs
      <3> QED
        BY <3>1, <3>3
    <2> QED
      BY <2>1, <2>2
  <1>6. ASSUME NEW f \in Follower
        PROVE  FollowerOK(f)'
    <2>1. member'[f] = NoMember /\ member'[f].sequence <= top'
      BY <1>2, <1>3
    <2>2. Spared(member[f].sequence)' = Spared(NoMember.sequence)
      BY <1>2, <2>1 DEF Spared
    <2>3. Good(conn[f], member[f], Inserted, Given(f), Done, Spared(member[f].sequence))'
      BY <1>4, <1>5, <2>1, <2>2
    <2>4. CliGood(cli[f], Inserted, Given(f))' /\ since'[f] \in Inserted' \cup {NoEvent}
      <3>1. CliGood(cli[f], Inserted, Given(f)) /\ since[f] \in Inserted \cup {NoEvent}
        BY FollowerIs
      <3> QED
        BY <1>2, <1>4, <3>1
    <2> QED
      BY <2>1, <2>3, <2>4 DEF FollowerOK
  <1>7. TypeOK'
    <2>1. \A f \in Follower : conn'[f] \in Connection /\ NoMember \in Member
      BY <1>5 DEF Good, Shape
    <2>2. conn' \in [Follower -> Connection] /\ member' \in [Follower -> Member]
      <3>1. conn' = [f \in Follower |-> conn'[f]]
        BY <1>1
      <3> QED
        BY <1>2, <2>1, <3>1
    <2>3. FeedTypeOK' /\ StreamTypeOK' /\ CliTypeOK' /\ FlowTypeOK'
      BY <1>2, <2>2 DEF FlowInv, TypeOK, FeedTypeOK, StreamTypeOK, CliTypeOK, FlowTypeOK
    <2> QED
      BY <2>3 DEF TypeOK
  <1>8. FeedOK'
    BY <1>2, <1>4 DEF FlowInv, FeedOK
  <1> QED
    BY <1>6, <1>7, <1>8 DEF FlowInv

LEMMA InitInv == Init => FlowInv
PROOF
  <1> SUFFICES ASSUME Init PROVE FlowInv
    OBVIOUS
  <1>1. /\ held = [e \in Event |-> "no"] /\ request = [e \in Event |-> [pc |-> "idle", upTo |-> 0]]
        /\ faults = 0 /\ top = 0 /\ member = [f \in Follower |-> NoMember]
        /\ conn = [f \in Follower |-> NoConnection]
        /\ since = [f \in Follower |-> NoEvent] /\ excused = {}
    BY DEF Init, FeedInit, StreamInit
  <1>2. cli \in [Follower -> Process]
        /\ \A f \in Follower : cli[f].page = <<>> /\ cli[f].cursor = NoEvent
    <2>1. <<>> \in Seq(Event)
      OBVIOUS
    <2>2. ASSUME NEW p \in [command : Command, last : LastCount, pc : {"connect", "begin"},
                            cursor : {NoEvent}, page : {<<>>}, printed : {{}}]
          PROVE  p \in Process /\ p.page = <<>> /\ p.cursor = NoEvent
      BY <2>1 DEF Process
    <2> QED
      BY <2>2 DEF Init, CliInit
  <1>3. Inserted = {}
    BY <1>1 DEF Inserted
  <1>4. FeedOK
    BY <1>1, <1>3 DEF FeedOK
  <1>5. NoMember \in Member /\ NoMember.sequence = 0
    <2>1. <<>> \in Seq(Event)
      OBVIOUS
    <2> QED
      BY <2>1 DEF NoMember, Member
  <1>6. TypeOK
    <2>1. FeedTypeOK
      <3>1. MaxFaults \in Nat
        BY FeedAssumption
      <3> QED
        BY <1>1, <3>1 DEF FeedTypeOK
    <2>2. StreamTypeOK
      BY <1>1, <1>5, NoConnectionIs DEF StreamTypeOK
    <2>3. CliTypeOK /\ FlowTypeOK
      BY <1>1, <1>2 DEF CliTypeOK, FlowTypeOK
    <2> QED
      BY <2>1, <2>2, <2>3 DEF TypeOK
  <1>7. ASSUME NEW f \in Follower
        PROVE  FollowerOK(f)
    <2>1. Good(conn[f], member[f], Inserted, Given(f), Done, Spared(member[f].sequence))
      <3>1. conn[f] = [NoConnection EXCEPT !.state = "none"] /\ member[f] = NoMember
        <4>1. NoConnection = [NoConnection EXCEPT !.state = "none"]
          <5>1. NoConnection \in Connection /\ NoConnection.state = "none"
            BY NoConnectionIs DEF NoConnection
          <5> QED
            BY <5>1 DEF Connection
        <4> QED
          BY <1>1, <4>1
      <3> QED
        BY <3>1, NoConnectionGood
    <2>2. CliGood(cli[f], Inserted, Given(f))
      <3>1. cli[f] \in Process /\ cli[f].page = <<>> /\ cli[f].cursor = NoEvent /\ DOMAIN cli[f].page = {}
        BY <1>2
      <3>2. ToSet(cli[f].page) = {} /\ Ordered(cli[f].page, Given(f))
        BY <3>1 DEF ToSet, Ordered
      <3>3. \A e \in Event : ~(e <= cli[f].cursor)
        BY <3>1 DEF Event, NoEvent
      <3> QED
        BY <3>1, <3>2, <3>3 DEF CliGood
    <2>3. member[f].sequence <= top /\ since[f] \in Inserted \cup {NoEvent}
      BY <1>1, <1>5
    <2> QED
      BY <2>1, <2>2, <2>3 DEF FollowerOK
  <1> QED
    BY <1>4, <1>6, <1>7 DEF FlowInv

LEMMA StutterInv ==
  ASSUME FlowInv, UNCHANGED vars
  PROVE  FlowInv'
PROOF
  <1>1. /\ UNCHANGED <<held, request, faults, top, member, conn, cli, since, excused>>
    BY DEF vars, feedVars, streamVars
  <1>2. TypeOK' /\ FeedOK'
    BY <1>1 DEF FlowInv, TypeOK, FeedTypeOK, StreamTypeOK, CliTypeOK, FlowTypeOK, FeedOK, Inserted
  <1>3. ASSUME NEW f \in Follower PROVE FollowerOK(f)'
    <2>1. FollowerOK(f)
      BY DEF FlowInv
    <2>2. /\ Inserted' = Inserted /\ Given(f)' = Given(f) /\ Done' = Done
          /\ Spared(member[f].sequence)' = Spared(member[f].sequence)
      BY <1>1 DEF Inserted, Given, Done, Spared
    <2> QED
      BY <1>1, <2>1, <2>2 DEF FollowerOK
  <1> QED
    BY <1>2, <1>3 DEF FlowInv

LEMMA NextInv ==
  ASSUME FlowInv, [Next]_vars
  PROVE  FlowInv'
PROOF
  <1>1. CASE UNCHANGED vars
    BY <1>1, StutterInv
  <1>2. ASSUME NEW e \in Event,
               \/ (Insert(e) \/ ProbeFails(e) \/ RemoveObjects(e)) /\ UNCHANGED <<streamVars, cli>> /\ Follows
               \/ RemoveRowStep(e) \/ ProbeStep(e) \/ PublishStep(e) \/ PublishFailsStep(e)
        PROVE  FlowInv'
    <2>1. CASE Insert(e) /\ UNCHANGED <<streamVars, cli>> /\ Follows
      BY <2>1, InsertInv
    <2>2. CASE ProbeFails(e) /\ UNCHANGED <<streamVars, cli>> /\ Follows
      BY <2>2, ProbesInv
    <2>3. CASE RemoveObjects(e) /\ UNCHANGED <<streamVars, cli>> /\ Follows
      BY <2>3, RemoveInv
    <2>4. CASE RemoveRowStep(e)
      BY <2>4, RemoveInv DEF RemoveRowStep
    <2>5. CASE ProbeStep(e)
      <3>1. Probe(e) /\ UNCHANGED <<streamVars, cli>> /\ Follows
        BY <2>5 DEF ProbeStep, Probe, streamVars
      <3> QED
        BY <3>1, ProbesInv
    <2>6. CASE PublishStep(e)
      BY <2>6, PublishInv
    <2>7. CASE PublishFailsStep(e)
      BY <2>7, PublishFailsInv
    <2> QED
      BY <1>2, <2>1, <2>2, <2>3, <2>4, <2>5, <2>6, <2>7
  <1>3. CASE Restart /\ UNCHANGED cli /\ Follows
    BY <1>3, RestartInv
  <1>4. ASSUME NEW f \in Follower,
               \/ ListStep(f) \/ CatchUpStep(f) \/ PumpStep(f)
               \/ ConnectStep(f) \/ BeginStep(f) \/ PollStep(f) \/ ProcessStep(f)
               \/ Misfortune(f)
        PROVE  FlowInv'
    <2>1. CASE ListStep(f)
      BY <2>1, ListStepInv
    <2>2. CASE CatchUpStep(f)
      BY <2>2, LoadPayloadInv, CatchUpSendInv, CatchUpFlushInv, StreamEndsInv DEF CatchUpStep
    <2>3. CASE PumpStep(f)
      BY <2>3, PumpInv
    <2>4. CASE ConnectStep(f)
      BY <2>4, ConnectInv
    <2>5. CASE BeginStep(f)
      BY <2>5, BeginInv
    <2>6. CASE PollStep(f)
      BY <2>6, PollInv
    <2>7. CASE ProcessStep(f)
      BY <2>7, ReadInv, ReadEndsInv, PlacesInv, PrintNextInv DEF ProcessStep
    <2>8. CASE Misfortune(f)
      BY <2>8, StreamEndsInv, PlacesInv DEF Misfortune
    <2> QED
      BY <1>4, <2>1, <2>2, <2>3, <2>4, <2>5, <2>6, <2>7, <2>8
  <1> QED
    BY <1>1, <1>2, <1>3, <1>4 DEF Next

(* The invariant holds of every behaviour. *)
THEOREM FlowInvHolds == Spec => []FlowInv
PROOF
  <1>1. FlowInv /\ [Next]_vars => FlowInv'
    BY NextInv
  <1> QED
    BY <1>1, InitInv, PTL DEF Spec

(* Every value has its type, for any number of followers and events. *)
THEOREM FlowTypeOKHolds == Spec => []TypeOK
PROOF
  <1>1. FlowInv => TypeOK
    BY DEF FlowInv
  <1> QED
    BY <1>1, FlowInvHolds, PTL

(* No connection sends an event twice (send, flushBuffered and the pump of     *)
(* openEventStream), whatever overlap catch-up, buffer and live messages have. *)
THEOREM SentOncePerConnectionHolds == Spec => []SentOncePerConnection
PROOF
  <1>1. FlowInv => SentOncePerConnection
    BY FollowerIs DEF Good, Shape, SentOncePerConnection
  <1> QED
    BY <1>1, FlowInvHolds, PTL

(* A follower's cursor (Last-Event-ID of events stream, the list's cursor of   *)
(* events tail) passes no event of its time that was neither printed nor given *)
(* up nor removed, in any order of inserts, publications, catch-ups, lost      *)
(* connections and restarts of the object.                                     *)
THEOREM GapsHaveACauseHolds == Spec => []GapsHaveACause
PROOF
  <1>1. ASSUME FlowInv PROVE GapsHaveACause
    <2> SUFFICES ASSUME NEW f \in Follower, NEW e \in Event, since[f] < e, e < cli[f].cursor
                 PROVE  e \in cli[f].printed \/ <<f, e>> \in excused \/ ~Row(e)
      BY DEF GapsHaveACause
    <2>1. e <= cli[f].cursor /\ ~(e <= since[f])
      BY <1>1, FollowerIs DEF Process, Event, NoEvent
    <2>2. e \in Given(f)
      BY <1>1, <2>1, FollowerIs DEF CliGood
    <2> QED
      BY <2>1, <2>2 DEF Given, Row
  <1> QED
    BY <1>1, FlowInvHolds, PTL
=============================================================================
