--------------------------- MODULE MCMuxSessions ---------------------------
(* MuxSessions with one node that dials up to three times, for TLC. *)
EXTENDS MuxSessions

CONSTANTS n1

ThreeDials == 1..3
AllOfN1 == [c \in ThreeDials |-> n1]
=============================================================================
