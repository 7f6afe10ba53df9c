---------------------------- MODULE MCUserAccess ----------------------------
(* A browser that moves between two addresses and an SSH connection. *)
EXTENDS UserAccess, TLC

CONSTANTS ip1, ip2

Symmetry == Permutations({ip1, ip2})
=============================================================================
