----------------------------- MODULE MCSSHRelay -----------------------------
(* SSH connections of ssh-proxy, for TLC. *)
EXTENDS SSHRelay, TLC

Alike == Permutations(Clients)
=============================================================================
