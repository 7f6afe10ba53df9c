---------------------------- MODULE MCVMHandler ----------------------------
(* VMHandler with named messages, and for every property a run of the system *)
(* in which all faults happen but the ones the property excepts.             *)
EXTENDS VMHandler

CONSTANTS c, d1, d2

Excepted == {{}, {"lookup", "remove"}, {"lookup", "remove", "restart"},
             {"rollback", "lookup", "remove", "restart"}, {"lookup", "xml", "reset", "restart"}}

AllBut == {FaultKinds \ S : S \in Excepted}
=============================================================================
