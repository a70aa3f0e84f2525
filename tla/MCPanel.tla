------------------------------ MODULE MCPanel ------------------------------
(* A handful of requests from the phone itself and over the tunnel. *)
EXTENDS Panel, TLC

CONSTANTS r1, r2, r3, r4, r5, p1, p2

Four == {r1, r2, r3, r4}
Two  == {p1, p2}
Alike == Permutations(Requests) \union Permutations(Passwords)
=============================================================================
