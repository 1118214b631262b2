--------------------------- MODULE MCSpaceAccess ----------------------------
(* Instances of SpaceAccess for TLC. *)
EXTENDS SpaceAccess, TLC

CONSTANTS W1, W2

Perms == Permutations(Tasks)

\* One wallet is sometimes an editor of the other one.
Appointed == {{}, {W2}}
=============================================================================
