----------------------------- MODULE MCSettings -----------------------------
(* Two browsers over two client keys. *)
EXTENDS Settings, TLC

CONSTANTS e1, e2, b1, b2, s1, s2

TwoEditors  == {e1, e2}
TwoSecrets  == {s1, s2}
Alike       == Permutations(Editors) \union Permutations(Backends)
                 \union Permutations(Secrets)
=============================================================================
