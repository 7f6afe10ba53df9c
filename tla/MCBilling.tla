------------------------------ MODULE MCBilling ------------------------------
(* Billing of one user with an instance and a recharge, for TLC. *)
EXTENDS Billing, TLC

CONSTANTS u1, i1, w1, w2, r1

OwnedByU1  == [i \in Instances |-> u1]
OneGpu     == [i \in Instances |-> 1]
OneRate    == 1 :> 2
ForU1      == [r \in Requests |-> u1]
OneMinute  == [r \in Requests |-> 2]
=============================================================================
