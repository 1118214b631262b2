--------------------------- MODULE MCRoomPrograms ---------------------------
(* Instances of RoomPrograms for TLC.                                       *)
EXTENDS RoomPrograms, TLC

Perms == Permutations(Sockets) \cup Permutations(Tasks) \cup Permutations(Contents)
=============================================================================
