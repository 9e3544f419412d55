----------------------------- MODULE MCDiscovery -----------------------------
(* An instance of Discovery for TLC: three tasks that make every call. *)
EXTENDS Discovery

CONSTANTS i1, i2, t1, t2, t3

EveryCall == AllCalls
=============================================================================
