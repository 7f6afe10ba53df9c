---------------------------- MODULE MCNodeAccess ----------------------------
(* A node with a token and a node without, for TLC. *)
EXTENDS NodeAccess, TLC

CONSTANTS n1, n2, t1, u1

AllForN1 == [t \in Tokens |-> n1]
ByU1     == [r \in Requests |-> u1]
OnN1     == [r \in Requests |-> n1]
Twins    == Permutations(Verifiers)
=============================================================================
