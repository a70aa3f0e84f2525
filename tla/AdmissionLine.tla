---------------------------- MODULE AdmissionLine ----------------------------
(***************************************************************************)
(* What relay/gate.rs promises its callers, without saying how: slots,     *)
(* the callers that hold one, and a bounded line served strictly in the    *)
(* order it was joined.  Module Gate implements it.                        *)
(***************************************************************************)
EXTENDS Integers, SequencesExt

CONSTANTS Callers, Places

VARIABLES
  free,      \* slots nobody holds
  running,   \* callers that hold a slot
  line       \* callers waiting for one, oldest first

lineVars == <<free, running, line>>

Init ==
  /\ free \in Nat \ {0}
  /\ running = {}
  /\ line = <<>>

\* The first k callers of the line take the slot they waited for.
Serve(k, others) ==
  /\ running' = others \union {line[i] : i \in 1..k}
  /\ line' = SubSeq(line, k + 1, Len(line))

(* A free slot goes to a newcomer only when nobody waits. *)
Take(c) ==
  /\ c \notin running
  /\ line = <<>>
  /\ free > 0
  /\ free' = free - 1
  /\ running' = running \union {c}
  /\ UNCHANGED line

Join(c) ==
  /\ c \notin running \union ToSet(line)
  /\ free = 0
  /\ Len(line) < Places
  /\ line' = Append(line, c)
  /\ UNCHANGED <<free, running>>

(* A caller gives up waiting: the order of the others is untouched. *)
Leave(c) ==
  /\ \E i \in DOMAIN line : line[i] = c /\ line' = RemoveAt(line, i)
  /\ UNCHANGED <<free, running>>

(* A slot given back goes to the head of the line, if there is one. *)
Done(c) ==
  /\ c \in running
  /\ IF line = <<>>
     THEN free' = free + 1 /\ Serve(0, running \ {c})
     ELSE free' = free /\ Serve(1, running \ {c})

(* New slots serve the line first. *)
Grow ==
  \E k \in 0..Len(line) :
    /\ Serve(k, running)
    /\ free' \in Nat
    /\ IF k < Len(line) THEN free' = free ELSE free' >= free

(* Only free slots are ever taken away. *)
Shrink ==
  /\ free' \in Nat
  /\ free' < free
  /\ UNCHANGED <<running, line>>

Next ==
  \/ \E c \in Callers : Take(c) \/ Join(c) \/ Leave(c) \/ Done(c)
  \/ Grow
  \/ Shrink

Spec == Init /\ [][Next]_lineVars
=============================================================================
