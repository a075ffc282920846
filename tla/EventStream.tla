----------------------------- MODULE EventStream -----------------------------
(***************************************************************************)
(* The live side: the Durable Object of the endpoint (EndpointStream) with *)
(* its subscribers, and per follower one connection of the Worker          *)
(* (DurableObjectEventStreamCoordinator and openEventStream): a pump that  *)
(* moves messages from the object to the client or, while the catch-up is  *)
(* read from D1 and R2, to a buffer.  A member is a subscriber of the      *)
(* object with the stream between object and Worker.                       *)
(***************************************************************************)
EXTENDS EventFeed

CONSTANTS
  Follower,
  CatchUpLimit,       \* MAX_EVENT_LIST_LIMIT
  CatchUpWindow,      \* MAX_CONCURRENT_CATCH_UP_EVENTS
  MaxTop              \* subscriptions while one publication is pending

ASSUME StreamAssumption == {CatchUpLimit, CatchUpWindow, MaxTop} \subseteq Nat \ {0}

VARIABLES
  top,                \* #maxSubscriberSequence
  member,             \* each follower's subscriber; sequence 0: not subscribed
  conn                \* each follower's connection

streamVars == <<top, member, conn>>

Member == [sequence : Nat, handed : SUBSET Event, wire : Seq(Event)]
NoMember == [sequence |-> 0, handed |-> {}, wire |-> <<>>]

Connection ==
  [state : {"none", "open", "ended", "broken"}, catchUp : {"none", "list", "send", "done"},
   after : Event \cup {NoEvent}, page : Seq(Event), loaded : SUBSET Event, buffering : BOOLEAN, buffered : Seq(Event),
   delivered : SUBSET Event, sent : Seq(Event), read : Nat]
NoConnection ==
  [state |-> "none", catchUp |-> "none", after |-> NoEvent, page |-> <<>>, loaded |-> {},
   buffering |-> FALSE, buffered |-> <<>>, delivered |-> {}, sent |-> <<>>, read |-> 0]

StreamTypeOK ==
  /\ top \in Nat
  /\ member \in [Follower -> Member]
  /\ conn \in [Follower -> Connection]

StreamInit ==
  /\ top = 0
  /\ member = [f \in Follower |-> NoMember]
  /\ conn = [f \in Follower |-> NoConnection]

Subscribed == {f \in Follower : member[f].sequence > 0}
Open(f) == conn[f].state = "open"
ConnBecomes(f, c) == conn' = [conn EXCEPT ![f] = c]
MemberBecomes(f, m) == member' = [member EXCEPT ![f] = m]

\* Once over, all that counts of a connection is what the client can still read.
Over(f, state) ==
  IF state = "broken" THEN [NoConnection EXCEPT !.state = "broken"]
  ELSE [NoConnection EXCEPT !.state = "ended", !.sent = conn[f].sent, !.read = conn[f].read]

(***************************************************************************)
(* The object: /subscribers and /publish.                                  *)
(***************************************************************************)
Probe(e) ==
  /\ request[e].pc = "probe"
  /\ IF Subscribed = {} THEN RequestGoes(e, "done", 0) ELSE RequestGoes(e, "publish", top)
  /\ UNCHANGED <<held, faults, streamVars>>

Reaches(e, f) ==
  /\ f \in Subscribed
  /\ request[e].upTo = NoLimit \/ member[f].sequence <= request[e].upTo
  /\ e \notin member[f].handed

Publish(e) ==
  /\ request[e].pc = "publish"
  /\ member' = [f \in Follower |->
       IF ~Reaches(e, f) THEN member[f]
       ELSE [member[f] EXCEPT !.handed = @ \cup {e}, !.wire = Append(@, e)]]
  /\ RequestGoes(e, "done", 0)
  /\ UNCHANGED <<held, faults, top, conn>>

\* The object is replaced: its memory starts anew, the streams it served end or fail.
Restart ==
  /\ Fault
  /\ top' = 0
  /\ member' = [f \in Follower |-> NoMember]
  /\ \E state \in {"ended", "broken"} :
       conn' = [f \in Follower |-> IF Open(f) THEN Over(f, state) ELSE conn[f]]
  /\ UNCHANGED <<held, request>>

(***************************************************************************)
(* openEventStream: subscribe first, then read the catch-up.               *)
(***************************************************************************)
\* A sequence is only ever compared with what a pending publication holds: with
\* none pending the count need not go on, which keeps it finite.
Pending == \E e \in Event : request[e].pc = "publish"
Subscribe(f, cursor) ==
  /\ Pending => top < MaxTop
  /\ top' = IF Pending THEN top + 1 ELSE IF Subscribed = {} THEN 1 ELSE top
  /\ MemberBecomes(f, [NoMember EXCEPT !.sequence = top'])
  /\ ConnBecomes(f, [NoConnection EXCEPT
       !.state = "open", !.after = cursor,
       !.buffering = cursor # NoEvent,
       !.catchUp = IF cursor = NoEvent THEN "none" ELSE "list"])

\* closeSubscription: what was sent can still be read
Close(f) ==
  /\ ConnBecomes(f, Over(f, "ended"))
  /\ MemberBecomes(f, NoMember)
  /\ UNCHANGED <<top, request, held>>

ListCatchUp(f) ==
  /\ Open(f) /\ conn[f].catchUp = "list"
  /\ ConnBecomes(f, [conn[f] EXCEPT
       !.catchUp = "send", !.page = ListAfter(conn[f].after, CatchUpLimit)])
  /\ UNCHANGED <<feedVars, top, member>>

\* send, flushBuffered and the pump pass an event on once per connection
Pass(c, e) ==
  IF e \in c.delivered THEN c ELSE [c EXCEPT !.delivered = @ \cup {e}, !.sent = Append(@, e)]

\* The payloads in the window are loaded at once and sent in the page's order.
Loading(f) == ToSet(Page(conn[f].page, CatchUpWindow)) \ conn[f].loaded
LoadPayload(f) ==
  /\ Open(f) /\ conn[f].catchUp = "send"
  /\ \E e \in Loading(f) :
       held[e] = "whole" /\ ConnBecomes(f, [conn[f] EXCEPT !.loaded = @ \cup {e}])
  /\ UNCHANGED <<feedVars, top, member>>

CatchUpSend(f) ==
  /\ Open(f) /\ conn[f].catchUp = "send" /\ conn[f].page # <<>>
  /\ Head(conn[f].page) \in conn[f].loaded
  /\ LET e == Head(conn[f].page) IN
       ConnBecomes(f, [Pass(conn[f], e) EXCEPT !.page = Tail(@), !.loaded = @ \ {e}])
  /\ UNCHANGED <<feedVars, top, member>>

\* a payload that cannot be loaded ends the catch-up, before those in front of it are sent
PayloadMissing(f) ==
  /\ Open(f) /\ conn[f].catchUp = "send"
  /\ \E e \in Loading(f) : held[e] # "whole"
  /\ Close(f) /\ UNCHANGED faults
CatchUpFails(f) ==
  /\ Open(f) /\ conn[f].catchUp \in {"list", "send"}
  /\ Fault /\ Close(f)

MutantCatchUpFlush(f) ==              \* the buffer is sent without looking at deliveredIds
  /\ Open(f) /\ conn[f].catchUp = "send" /\ conn[f].page = <<>>
  /\ ConnBecomes(f, [conn[f] EXCEPT
       !.catchUp = "done", !.buffering = FALSE, !.buffered = <<>>, !.sent = @ \o conn[f].buffered])
  /\ UNCHANGED <<feedVars, top, member>>

CatchUpFlush(f) ==
  /\ Open(f) /\ conn[f].catchUp = "send" /\ conn[f].page = <<>>
  /\ ConnBecomes(f, [FoldLeft(Pass, conn[f], conn[f].buffered) EXCEPT
       !.catchUp = "done", !.buffering = FALSE, !.buffered = <<>>])
  /\ UNCHANGED <<feedVars, top, member>>

MutantPump(f) ==                      \* live messages do not wait for the catch-up
  /\ Open(f) /\ member[f].wire # <<>>
  /\ MemberBecomes(f, [member[f] EXCEPT !.wire = Tail(@)])
  /\ ConnBecomes(f, Pass(conn[f], Head(member[f].wire)))
  /\ UNCHANGED <<feedVars, top>>

Pump(f) ==
  /\ Open(f) /\ member[f].wire # <<>>
  /\ MemberBecomes(f, [member[f] EXCEPT !.wire = Tail(@)])
  /\ LET e == Head(member[f].wire) IN
       ConnBecomes(f, IF conn[f].buffering THEN [conn[f] EXCEPT !.buffered = Append(@, e)]
                      ELSE Pass(conn[f], e))
  /\ UNCHANGED <<feedVars, top>>

\* the hour of an authenticated stream is over
Expire(f) == Open(f) /\ Fault /\ Close(f)

\* The connection between Worker and client is lost; the Worker cancels its part.
Disconnect(f) ==
  /\ conn[f].state \in {"open", "ended"} /\ Fault
  /\ ConnBecomes(f, Over(f, "broken"))
  /\ MemberBecomes(f, NoMember)
  /\ UNCHANGED <<top, request, held>>
=============================================================================
