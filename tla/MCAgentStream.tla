--------------------------- MODULE MCAgentStream ---------------------------
(* AgentStream with named sessions and senders, for TLC. *)
EXTENDS AgentStream

CONSTANTS s1, s2, x1, x2, x3
=============================================================================
