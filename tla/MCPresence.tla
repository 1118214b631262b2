----------------------------- MODULE MCPresence -----------------------------
(* Instances of Presence for TLC: which events the clients send in each.    *)
EXTENDS Presence, TLC

CONSTANTS R1, R2, BadRoom, T1, W1, W2

Perms == Permutations(Sockets) \cup Permutations(Tasks)

\* Duplicate tabs before an observer: the token comes with the user data.
TabRequests ==
    {JoinSpace(R1, 0, KeepToken), LeaveSpace(R1, 0), SetUserData(TRUE, T1)}

\* Navigation between two rooms, with the generations of a modern client, the
\* legacy form, an invalid room, and two signatures over the first nonce.
NavigationRequests ==
    {JoinSpace(R1, 0, KeepToken), JoinSpace(R1, 1, KeepToken),
     JoinSpace(R2, 1, KeepToken), JoinSpace(R2, 2, KeepToken),
     JoinSpace(BadRoom, 2, KeepToken), LeaveSpace(R1, 1),
     AuthWith(W1), AuthWith(W2)}

\* Moves, walks and authentication of members, of different browsers or
\* duplicate tabs that supersede one another.  A move with a number is one
\* without that may be refused.
TrafficRequests ==
    {JoinSpace(R1, 0, KeepToken), JoinSpace(R1, 0, T1), MoveTo(0), GotoTarget, AuthWith(W1)}

\* Writers of the lock (joins, leaves, lost connections) and its readers (chat,
\* moves and the motion loop).
LockRequests ==
    {JoinSpace(R1, 0, KeepToken), LeaveSpace(R1, 0), ChatMessage, MoveTo(1), GotoTarget}

\* A constraint on the steps of clients in the traffic instance: one connection
\* stays; only members of a room send anything but joins (they may be
\* superseded, or gone, by the time the handler runs), and one signature is
\* enough.
MembersAct ==
    /\ \E s \in Sockets : conn'[s] \notin {"closing", "closed"}
    /\ \A s \in Sockets : conn[s] = "opening" => conn'[s] = "up"
    /\ \A t \in Tasks : pc[t] = "idle" /\ pc'[t] \in {"move", "goto", "auth"} =>
        /\ room[by'[t]] # NoRoom
        /\ pc'[t] = "auth" => \A s \in Sockets : wallet[s] = NoWallet

\* The token of a join that has yet to use it; nothing else in the requests of
\* the traffic instance goes beyond what pc says.
Asked(t) == IF pc[t] \in {"claim", "detach", "validate", "commit"} THEN req[t].token ELSE NoToken

\* What the handlers read, and the invariants of the traffic instance: not
\* told, who and newest, which no guard and no other variable depends on there.
TrafficView ==
    <<conn, record, joined, lock, pc, by, [t \in Tasks |-> Asked(t)], here, dups, num,
      batch, shown, overtaken>>
=============================================================================
