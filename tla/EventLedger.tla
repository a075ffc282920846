----------------------------- MODULE EventLedger -----------------------------
(***************************************************************************)
(* What Barestash promises about captured events, with no stores, handlers *)
(* or clocks: an endpoint opens once; it may lapse (reach its expiry) or   *)
(* be closed by its owner; events are accepted until it is closed; an      *)
(* accepted event is kept at least until the endpoint lapses or is closed, *)
(* or, unless the endpoint is limited, the event itself has aged; an       *)
(* endpoint vanishes only when nothing is kept for it; a limited endpoint  *)
(* never keeps more events than the limit.                                 *)
(***************************************************************************)
EXTENDS Naturals, FiniteSets

CONSTANTS Endpoint, Request, Limited, MaxKept

VARIABLES life, kept, aged

ledgerVars == <<life, kept, aged>>

KeptFor(e) == {k \in kept : k[2] = e}
Accepting(e) == life[e] \in {"open", "lapsed"}
Discarding(e) == life[e] \in {"lapsed", "closed"}
Ageing(A) == {k \in A : k[2] \notin Limited}

Init == life = [e \in Endpoint |-> "none"] /\ kept = {} /\ aged = {}

Open(e) ==
  life[e] = "none" /\ life' = [life EXCEPT ![e] = "open"] /\ UNCHANGED <<kept, aged>>

\* Time passes: some open endpoints reach their expiry, some events their age.
Lapse(S, A) ==
  /\ \A e \in S : life[e] = "open"
  /\ life' = [e \in Endpoint |-> IF e \in S THEN "lapsed" ELSE life[e]]
  /\ aged' = aged \cup A /\ UNCHANGED kept

Close(e) ==
  Accepting(e) /\ life' = [life EXCEPT ![e] = "closed"] /\ UNCHANGED <<kept, aged>>

\* A new event may be old already: it was received before it is accepted.
Accept(r, e) ==
  /\ Accepting(e)
  /\ \A k \in kept : k[1] # r
  /\ e \in Limited => Cardinality(KeptFor(e)) < MaxKept
  /\ kept' = kept \cup {<<r, e>>}
  /\ \E A \in SUBSET Ageing({<<r, e>>}) : aged' = aged \cup A
  /\ UNCHANGED life

Discard(D) ==
  /\ \A k \in D : Discarding(k[2]) \/ k \in aged
  /\ kept' = kept \ D /\ aged' = aged \ D
  /\ UNCHANGED life

Vanish(e) ==
  /\ Discarding(e) /\ KeptFor(e) = {}
  /\ life' = [life EXCEPT ![e] = "gone"]
  /\ UNCHANGED <<kept, aged>>

Next ==
  \/ \E e \in Endpoint : Open(e) \/ Close(e) \/ Vanish(e)
  \/ \E S \in SUBSET Endpoint, A \in SUBSET Ageing(kept) : Lapse(S, A)
  \/ \E r \in Request, e \in Endpoint : Accept(r, e)
  \/ \E D \in SUBSET kept : Discard(D)

Spec == Init /\ [][Next]_ledgerVars
=============================================================================
