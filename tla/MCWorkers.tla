------------------------------ MODULE MCWorkers ------------------------------
(***************************************************************************)
(* The parts of Workers on small instances: four requests that fill a      *)
(* channel of two, three tasks that want two vocabularies, three relays,   *)
(* two keepers.                                                            *)
(***************************************************************************)
EXTENDS Workers

CONSTANTS r1, r2, r3, r4, t1, t2, t3, en, cjk, k1, k2

MCRequests == {r1, r2, r3, r4}
MCTasks    == {t1, t2, t3}
MCNames    == {en, cjk}
MCRelays   == 1..3
MCKeepers  == {k1, k2}
==============================================================================
