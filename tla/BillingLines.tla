---------------------------- MODULE BillingLines ----------------------------
(***************************************************************************)
(* What the billing of store/invoice.rs promises, with no invoices in it:  *)
(* the ledger only grows, and each key draws lines across it.  A new line  *)
(* is drawn at the ledger's end, past every other line of the key; only    *)
(* the last line can be taken back.  What lies between two lines next to   *)
(* each other is one invoice, what lies past the last one is unbilled.     *)
(***************************************************************************)
EXTENDS Naturals

CONSTANT Clients

VARIABLES
  rows,         \* how many rows the ledger has
  lines         \* the positions at which each client's lines are drawn

Init == rows = 0 /\ lines = [c \in Clients |-> {}]

Grow ==
  /\ rows' > rows
  /\ rows' \in Nat
  /\ UNCHANGED lines

Draw(c) ==
  /\ \A n \in lines[c] : n < rows
  /\ rows > 0
  /\ lines' = [lines EXCEPT ![c] = @ \union {rows}]
  /\ UNCHANGED rows

TakeBack(c) ==
  /\ \E last \in lines[c] :
       /\ \A n \in lines[c] : n <= last
       /\ lines' = [lines EXCEPT ![c] = @ \ {last}]
  /\ UNCHANGED rows

Next == Grow \/ \E c \in Clients : Draw(c) \/ TakeBack(c)

Spec == Init /\ [][Next]_<<rows, lines>>
=============================================================================
