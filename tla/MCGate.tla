------------------------------- MODULE MCGate -------------------------------
(* The gate for TLC: interchangeable requests and a limit the operator may *)
(* move in both directions.                                                *)
EXTENDS Gate, TLC

CONSTANTS r1, r2, r3

ThreeRequests == {r1, r2, r3}
OnlyOne       == {1}
OneOrTwo      == 1..2
Interchangeable == Permutations(Requests)
=============================================================================
