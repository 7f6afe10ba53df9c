--------------------------- MODULE MCControlPlane ---------------------------
(* Small instances of ControlPlane for TLC. *)
EXTENDS ControlPlane

CONSTANTS n1, s1, s2, i1, i2, c1, c2, d1, r1

OneNode   == {n1}
TwoSlots  == {s1, s2}
SameNode  == [s \in TwoSlots |-> n1]
OneGpu    == [s \in TwoSlots |-> 1]
S1First   == [s \in TwoSlots |-> IF s = s1 THEN 0 ELSE 1]
OnlyS1    == {s1}
S1Node    == [s \in OnlyS1 |-> n1]
S1Gpu     == [s \in OnlyS1 |-> 1]
S1Rank    == [s \in OnlyS1 |-> 0]
=============================================================================
