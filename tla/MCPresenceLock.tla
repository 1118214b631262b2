--------------------------- MODULE MCPresenceLock ---------------------------
(* Presence with a line for its lock, and an observer that watches the room *)
(* to the end.                                                              *)
EXTENDS MCPresence

CONSTANT Observer

\* A constraint on the steps of clients: the observer joins once, keeps its
\* connection and sends nothing else, so that the handlers of the other sockets
\* contend for the lock.  No fairness is assumed of the steps it excludes.
ObserverStays ==
    /\ conn'[Observer] \in {"new", "opening", "up"}
    /\ \A t \in Tasks : by[t] # Observer /\ by'[t] = Observer =>
         /\ req'[t].op = "join" /\ room[Observer] = NoRoom
         /\ \A u \in Tasks : by[u] # Observer
=============================================================================
