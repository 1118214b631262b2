---------------------------- MODULE RoomRegister ----------------------------
(***************************************************************************)
(* What the room programs promise their editors: one register per space,   *)
(* changed by compare-and-set on its revision, that survives restarts, and *)
(* of which only committed values are ever sent out.  An update takes      *)
(* effect once or not at all.                                              *)
(***************************************************************************)
EXTENDS Integers

CONSTANTS Rooms, Contents, Empty, Revisions, Clients

VARIABLES
    value,   \* the current record of each room
    past,    \* the records that are or were current
    told,    \* the records sent to a client
    asked    \* the updates that have neither taken effect nor been given up

vars == <<value, past, told, asked>>

Record == [revision : Revisions, content : Contents \cup {Empty}]
Update == [client : Clients, room : Rooms, expected : Revisions, content : Contents]
Unset == [revision |-> 0, content |-> Empty]

Init ==
    /\ value = [r \in Rooms |-> Unset]
    /\ past = [r \in Rooms |-> {Unset}]
    /\ told = [r \in Rooms |-> {}]
    /\ asked = {}

Submit(u) ==
    /\ asked' = asked \cup {u}
    /\ UNCHANGED <<value, past, told>>

\* An update whose serverRevision is the current one takes effect.
Commit(u) ==
    LET new == [revision |-> u.expected + 1, content |-> u.content] IN
    /\ u \in asked
    /\ value[u.room].revision = u.expected
    /\ value' = [value EXCEPT ![u.room] = new]
    /\ past' = [past EXCEPT ![u.room] = @ \cup {new}]
    /\ asked' = asked \ {u}
    /\ UNCHANGED told

\* Updates are refused, fail to be saved, or die with the process.
GiveUp ==
    /\ asked' \subseteq asked
    /\ UNCHANGED <<value, past, told>>

\* A client is sent a record, maybe one that is no longer current.
Announce(r, v) ==
    /\ v \in past[r]
    /\ told' = [told EXCEPT ![r] = @ \cup {v}]
    /\ UNCHANGED <<value, past, asked>>

Next ==
    \/ \E u \in Update : Submit(u) \/ Commit(u)
    \/ GiveUp
    \/ \E r \in Rooms, v \in Record : Announce(r, v)

Spec == Init /\ [][Next]_vars
=============================================================================
