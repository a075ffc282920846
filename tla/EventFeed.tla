------------------------------ MODULE EventFeed ------------------------------
(***************************************************************************)
(* The events of one endpoint as its readers find them: the rows of D1 in  *)
(* the order of their sequence, the objects of R2, and the request of each *)
(* event from its INSERT to the publication to the endpoint's stream.      *)
(* Events are named by their sequence: event n is the nth row inserted.    *)
(***************************************************************************)
EXTENDS Integers, Sequences, SequencesExt

CONSTANTS
  MaxEvents,          \* events that arrive
  MaxLive,            \* requests of these events under way at once
  MaxRemovals,        \* events that retention or a deletion removes
  MaxFaults           \* failed calls and lost connections, of all modules

ASSUME FeedAssumption == {MaxEvents, MaxLive, MaxRemovals, MaxFaults} \subseteq Nat

Event == 1 .. MaxEvents
NoEvent == 0
NoLimit == -1         \* a publication whose presence read failed

VARIABLES
  held,               \* what is kept of each event: nothing yet, row and objects, the row, nothing
  request,            \* each event's request after its INSERT
  faults              \* how many faults happened

feedVars == <<held, request, faults>>

FeedTypeOK ==
  /\ held \in [Event -> {"no", "whole", "row", "gone"}]
  /\ request \in [Event -> [pc : {"idle", "probe", "publish", "done"}, upTo : Nat \cup {NoLimit}]]
  /\ faults \in 0 .. MaxFaults

FeedInit ==
  /\ held = [e \in Event |-> "no"]
  /\ request = [e \in Event |-> [pc |-> "idle", upTo |-> 0]]
  /\ faults = 0

Row(e) == held[e] \in {"whole", "row"}
Inserted == {e \in Event : held[e] # "no"}
Newest == IF Inserted = {} THEN NoEvent ELSE CHOOSE e \in Inserted : \A d \in Inserted : d <= e
Publishing(e) == request[e].pc \in {"probe", "publish"}

Fault == faults < MaxFaults /\ faults' = faults + 1

(***************************************************************************)
(* listEventsForEndpoint: after a cursor the oldest rows first, and none   *)
(* when the cursor has no row any more; without one the newest first.      *)
(***************************************************************************)
Ascending(S) ==
  [i \in 1 .. Cardinality(S) |-> CHOOSE e \in S : Cardinality({d \in S : d <= e}) = i]
Page(s, limit) == SubSeq(s, 1, IF limit < Len(s) THEN limit ELSE Len(s))

ListAfter(cursor, limit) ==
  Page(Ascending({e \in Event : Row(e) /\ Row(cursor) /\ e > cursor}), limit)
ListNewest(limit) == Page(Reverse(Ascending({e \in Event : Row(e)})), limit)

(***************************************************************************)
(* The request of an event.                                                *)
(***************************************************************************)
RequestGoes(e, pc, upTo) == request' = [request EXCEPT ![e] = [pc |-> pc, upTo |-> upTo]]

\* recordMetadata inserts the row; the objects were put before
Insert(e) ==
  /\ e = Newest + 1
  /\ Cardinality({d \in Event : Publishing(d)}) < MaxLive
  /\ held' = [held EXCEPT ![e] = "whole"]
  /\ RequestGoes(e, "probe", 0)
  /\ UNCHANGED faults

ProbeFails(e) ==
  /\ request[e].pc = "probe" /\ Fault
  /\ RequestGoes(e, "publish", NoLimit)
  /\ UNCHANGED held

\* publish rejects, or the request ends with its isolate: nobody publishes again
PublishFails(e) ==
  /\ request[e].pc = "publish" /\ Fault
  /\ RequestGoes(e, "done", 0)
  /\ UNCHANGED held

\* Retention and deletion: the objects go first, then the row.  A deletion does not
\* ask whether the event's request is still publishing.
RemoveObjects(e) ==
  /\ held[e] = "whole"
  /\ Cardinality({d \in Event : held[d] \in {"row", "gone"}}) < MaxRemovals
  /\ held' = [held EXCEPT ![e] = "row"] /\ UNCHANGED <<request, faults>>
RemoveRow(e) ==
  /\ held[e] = "row"
  /\ held' = [held EXCEPT ![e] = "gone"] /\ UNCHANGED <<request, faults>>
=============================================================================
