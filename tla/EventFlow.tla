------------------------------ MODULE EventFlow ------------------------------
(***************************************************************************)
(* From the INSERT of an event to the terminal of those who follow its     *)
(* endpoint.  Two history variables say what a follower is owed: since is  *)
(* the newest event when its command, or its first connection, began;      *)
(* excused holds the pairs <<follower, event>> that the design gives up.   *)
(***************************************************************************)
EXTENDS CliEvents

VARIABLES since, excused

vars == <<feedVars, streamVars, cli, since, excused>>

FlowTypeOK ==
  /\ since \in [Follower -> Event \cup {NoEvent}]
  /\ excused \subseteq Follower \X Event

Init ==
  /\ FeedInit /\ StreamInit /\ CliInit
  /\ since = [f \in Follower |-> NoEvent]
  /\ excused = {}

Follows == UNCHANGED <<since, excused>>
Excuse(S) == excused' = excused \cup S /\ UNCHANGED since

\* the connection's catch-up has sent the event, or will
CaughtUp(f, e) ==
  conn[f].catchUp = "list" \/ e \in ToSet(conn[f].page) \cup conn[f].delivered

(***************************************************************************)
(* What is given up: an event whose publication another one of a later row *)
(* overtakes, one whose publication fails, what lies behind the page of a  *)
(* catch-up or of a tail's first poll, and what follows a cursor whose row *)
(* is gone.                                                                *)
(***************************************************************************)
Overtaken(e) ==
  {p \in Follower \X Event :
     Reaches(e, p[1]) /\ p[2] < e /\ Publishing(p[2]) /\ ~CaughtUp(p[1], p[2])}
Unpublished(e) == {p \in Follower \X {e} : p[1] \in Subscribed /\ ~CaughtUp(p[1], e)}
Blind(f, cursor) == {p \in {f} \X Inserted : ~Row(cursor) /\ p[2] > cursor}
BehindPage(f, page, limit) == {p \in {f} \X Inserted : Len(page) = limit /\ p[2] > Last(page)}
BeforePage(f, page, limit) == {p \in {f} \X Inserted : Len(page) = limit /\ p[2] < Last(page)}

PublishStep(e) == Publish(e) /\ Excuse(Overtaken(e)) /\ UNCHANGED cli
PublishFailsStep(e) == PublishFails(e) /\ Excuse(Unpublished(e)) /\ UNCHANGED <<streamVars, cli>>
ListStep(f) ==
  LET after == conn[f].after IN
  /\ ListCatchUp(f) /\ UNCHANGED cli
  /\ Excuse(Blind(f, after) \cup BehindPage(f, ListAfter(after, CatchUpLimit), CatchUpLimit))
PollStep(f) ==
  LET cursor == cli[f].cursor IN
  /\ Poll(f)
  /\ Excuse(IF cursor = NoEvent THEN BeforePage(f, ListNewest(ListLimit), ListLimit)
            ELSE Blind(f, cursor))
BeginStep(f) == Begin(f) /\ since' = [since EXCEPT ![f] = Newest] /\ UNCHANGED excused
ConnectStep(f) ==
  /\ Connect(f)
  /\ since' = [since EXCEPT ![f] = IF cli[f].cursor = NoEvent THEN Newest ELSE @]
  /\ UNCHANGED excused

RemoveRowStep(e) == RemoveRow(e) /\ UNCHANGED <<streamVars, cli>> /\ Follows
ProbeStep(e) == Probe(e) /\ UNCHANGED cli /\ Follows
PumpStep(f) == Pump(f) /\ UNCHANGED cli /\ Follows
CatchUpStep(f) ==
  (LoadPayload(f) \/ CatchUpSend(f) \/ CatchUpFlush(f) \/ PayloadMissing(f)) /\ UNCHANGED cli /\ Follows
ProcessStep(f) == (Read(f) \/ ReadEnds(f) \/ Wake(f) \/ PrintNext(f)) /\ Follows
Misfortune(f) ==
  \/ (CatchUpFails(f) \/ Expire(f) \/ Disconnect(f)) /\ UNCHANGED cli /\ Follows
  \/ (ConnectFails(f) \/ Refused(f)) /\ Follows

Next ==
  \/ \E e \in Event :
       \/ (Insert(e) \/ ProbeFails(e) \/ RemoveObjects(e)) /\ UNCHANGED <<streamVars, cli>> /\ Follows
       \/ RemoveRowStep(e) \/ ProbeStep(e) \/ PublishStep(e) \/ PublishFailsStep(e)
  \/ Restart /\ UNCHANGED cli /\ Follows
  \/ \E f \in Follower :
       \/ ListStep(f) \/ CatchUpStep(f) \/ PumpStep(f)
       \/ ConnectStep(f) \/ BeginStep(f) \/ PollStep(f) \/ ProcessStep(f)
       \/ Misfortune(f)

Spec == Init /\ [][Next]_vars

(***************************************************************************)
(* Requests run on, the Worker reads its streams, a command that sleeps    *)
(* wakes up, and a deletion that took the objects comes back for the row;  *)
(* faults and new events owe nothing.                                      *)
(***************************************************************************)
Fairness ==
  /\ \A e \in Event : WF_vars(ProbeStep(e) \/ PublishStep(e)) /\ WF_vars(RemoveRowStep(e))
  /\ \A f \in Follower :
       /\ WF_vars(ListStep(f) \/ CatchUpStep(f))
       /\ WF_vars(PumpStep(f))
       /\ WF_vars(ConnectStep(f) \/ BeginStep(f) \/ PollStep(f) \/ ProcessStep(f))
FairSpec == Spec /\ Fairness

TypeOK == FeedTypeOK /\ StreamTypeOK /\ CliTypeOK /\ FlowTypeOK

(***************************************************************************)
(* No connection sends an event twice, although the catch-up, the buffer   *)
(* and the live messages overlap.                                          *)
(***************************************************************************)
SentOncePerConnection == \A f \in Follower : IsInjective(conn[f].sent)

(***************************************************************************)
(* A follower's cursor passes no event of its time that it has not printed *)
(* unless the design gives that event up: nothing slips through between    *)
(* catch-up and live messages, or between two connections.                 *)
(***************************************************************************)
GapsHaveACause ==
  \A f \in Follower : \A e \in Event :
    since[f] < e /\ e < cli[f].cursor =>
      e \in cli[f].printed \/ <<f, e>> \in excused \/ ~Row(e)

(***************************************************************************)
(* Whoever follows the endpoint gets every event of its time, however      *)
(* often the connection is lost, the object restarted or the catch-up      *)
(* broken off; unless the event is given up or removed, the command has    *)
(* stopped, or a stream without cursor lost its connection and began anew. *)
(***************************************************************************)
EverythingArrives ==
  \A f \in Follower : []<>
    (At(f, "stopped") \/ \A e \in Event :
       held[e] = "whole" => e \in cli[f].printed \/ e <= since[f] \/ <<f, e>> \in excused)
=============================================================================
