------------------------------ MODULE CliEvents ------------------------------
(***************************************************************************)
(* The commands of the CLI that follow an endpoint: events stream, which   *)
(* reads a connection and opens the next one at its Last-Event-ID, and     *)
(* events tail, which polls the list of events after its cursor.           *)
(***************************************************************************)
EXTENDS EventStream

CONSTANTS
  Command,            \* "stream", "tail", and "tail_body" for tail --headers or --body
  LastCount,          \* the values of --last
  ListLimit           \* DEFAULT_EVENT_LIST_LIMIT

ASSUME CliAssumption ==
  /\ Command \subseteq {"stream", "tail", "tail_body"}
  /\ LastCount \subseteq Nat /\ ListLimit \in Nat \ {0}

VARIABLES
  cli                 \* each follower's process

Process ==
  [command : Command, last : LastCount, pc : {"connect", "read", "begin", "print", "sleep", "poll", "stopped"},
   cursor : Event \cup {NoEvent}, page : Seq(Event), printed : SUBSET Event]

CliTypeOK == cli \in [Follower -> Process]

CliInit ==
  cli \in [Follower ->
    {p \in [command : Command, last : LastCount, pc : {"connect", "begin"},
            cursor : {NoEvent}, page : {<<>>}, printed : {{}}] :
       /\ p.pc = "connect" <=> p.command = "stream"
       /\ p.command = "stream" => p.last = 0}]

At(f, pc) == cli[f].pc = pc
Becomes(f, p) == cli' = [cli EXCEPT ![f] = p]
Goes(f, pc) == Becomes(f, [cli[f] EXCEPT !.pc = pc])
Prints(p, e) == [p EXCEPT !.cursor = e, !.printed = @ \cup {e}]

(***************************************************************************)
(* streamEvents and consumeEventStream.                                    *)
(***************************************************************************)
MutantConnect(f) ==                   \* without Last-Event-ID
  /\ At(f, "connect")
  /\ Subscribe(f, NoEvent) /\ Goes(f, "read") /\ UNCHANGED feedVars

Connect(f) ==
  /\ At(f, "connect")
  /\ Subscribe(f, cli[f].cursor) /\ Goes(f, "read") /\ UNCHANGED feedVars

ConnectFails(f) ==
  /\ At(f, "connect") /\ Fault
  /\ Goes(f, "sleep") /\ UNCHANGED <<held, request, streamVars>>

Read(f) ==
  /\ At(f, "read") /\ conn[f].state \in {"open", "ended"} /\ conn[f].read < Len(conn[f].sent)
  /\ ConnBecomes(f, [conn[f] EXCEPT !.read = @ + 1])
  /\ Becomes(f, Prints(cli[f], conn[f].sent[conn[f].read + 1]))
  /\ UNCHANGED <<feedVars, top, member>>

\* the end of the stream, or EventStreamConnectionError
ReadEnds(f) ==
  /\ At(f, "read")
  /\ \/ conn[f].state = "ended" /\ conn[f].read = Len(conn[f].sent)
     \/ conn[f].state = "broken"
  /\ ConnBecomes(f, NoConnection)
  /\ Goes(f, "sleep")
  /\ UNCHANGED <<feedVars, top, member>>

Wake(f) ==
  /\ At(f, "sleep")
  /\ Goes(f, IF cli[f].command = "stream" THEN "connect" ELSE "poll")
  /\ UNCHANGED <<feedVars, streamVars>>

(***************************************************************************)
(* tailEvents.  The page of the list is printed event by event; with       *)
(* --headers or --body each is fetched again, row and objects.             *)
(***************************************************************************)
ListEvents(cursor) ==
  IF cursor = NoEvent THEN ListNewest(ListLimit) ELSE ListAfter(cursor, ListLimit)
DetailFound(e) == Row(e) /\ held[e] # "row"     \* the row, then the objects

Lists(f, page, pc) ==
  /\ Becomes(f, [cli[f] EXCEPT !.page = page, !.pc = pc])
  /\ UNCHANGED <<feedVars, streamVars>>

Begin(f) ==
  /\ At(f, "begin")
  /\ IF cli[f].last > 0
     THEN Lists(f, Reverse(ListNewest(cli[f].last)), "print")
     ELSE /\ Becomes(f, [cli[f] EXCEPT !.pc = "poll",
               !.cursor = IF ListNewest(1) = <<>> THEN NoEvent ELSE ListNewest(1)[1]])
          /\ UNCHANGED <<feedVars, streamVars>>

Poll(f) ==
  /\ At(f, "poll")
  /\ LET cursor == cli[f].cursor IN
       Lists(f, IF cursor = NoEvent THEN Reverse(ListEvents(cursor)) ELSE ListEvents(cursor), "print")

PrintNext(f) ==
  /\ At(f, "print")
  /\ IF cli[f].page = <<>> THEN Goes(f, "sleep")
     ELSE LET e == Head(cli[f].page)
              fetched == cli[f].command = "tail" \/ DetailFound(e) IN
          Becomes(f, IF fetched THEN [Prints(cli[f], e) EXCEPT !.page = Tail(@)]
                     ELSE [cli[f] EXCEPT !.pc = "stopped", !.printed = @ \cup {e}])
  /\ UNCHANGED <<feedVars, streamVars>>

\* The API refuses: the endpoint is gone, expired or another's, the rate limit is
\* reached, a read or the subscription failed: the command ends, and tail also when
\* the call itself fails.
Asks(f) ==
  \/ At(f, "connect") \/ At(f, "begin") \/ At(f, "poll")
  \/ At(f, "print") /\ cli[f].command = "tail_body" /\ cli[f].page # <<>>
Refused(f) ==
  /\ Asks(f) /\ Fault
  /\ Goes(f, "stopped") /\ UNCHANGED <<held, request, streamVars>>
=============================================================================
