------------------------------ MODULE MCRequest ------------------------------
(* Small instances of Request: a stream, a whole answer and an embedding of *)
(* one key, over a backend that is retried once and a fallback that is not. *)
EXTENDS Request, TLC

CONSTANTS r1, r2, r3, b1, b2, b3

MCKindOf == r1 :> "stream" @@ r2 :> "json" @@ r3 :> "embed"
Streams  == [r \in Requests |-> "stream"]
Failover == <<b1, b2, b3>>
OneRoute == <<b1>>
MCMax    == b1 :> 2 @@ b2 :> 1 @@ b3 :> 1
=============================================================================
