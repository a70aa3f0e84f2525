------------------------------ MODULE MCBooks ------------------------------
(* Constants for the runs over Books. *)
EXTENDS Books

CONSTANTS p1, p2, r1, r2, r3, k1, k2

TwoProcesses  == {p1, p2}
TwoRequests   == {r1, r2}
OneKey        == [r \in Requests |-> k1]
Charged       == [r \in Requests |-> IF r = r1 THEN 1 ELSE 2]
=============================================================================
