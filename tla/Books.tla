------------------------------- MODULE Books -------------------------------
(***************************************************************************)
(* The accounts: the store's channel and writer task (store/mod.rs), the   *)
(* hash-chained usage ledger (store/ledger.rs), the invoices drawn over it *)
(* (store/invoice.rs), and the three sends by which a request reaches them *)
(* (relay/handler.rs).                                                     *)
(*                                                                         *)
(* SHA-256 is taken to be injective, so the hash of a ledger row is its    *)
(* position, and position 0 is GENESIS.  Figures are small numbers: a      *)
(* prompt is booked at `Booked` tokens and settled at any smaller one, and *)
(* the money of a request is its settled tokens.                           *)
(***************************************************************************)
EXTENDS Integers, Sequences, SequencesExt, FiniteSetsExt

CONSTANTS
  Procs,        \* relay processes, one after the other or overlapping
  Requests,
  Keys,
  KeyOf,        \* the client key of each request
  Nobody,       \* no process, and no request
  Overlap,      \* may two processes have the store open, as in a rotation?
  Unvoids,      \* does an operator take an invoice out of `void` again?
  Capacity,     \* places in the writer's channel
  Batch,        \* WRITE_BATCH
  Booked,       \* tokens a prompt is first booked at
  Charge,       \* tokens each request is settled at
  Minimum,      \* billing.minimumUsd
  MaxFailures,  \* bound: crashes and failed transactions together
  MaxInvoices   \* bound

ASSUME BooksAssumption ==
  /\ KeyOf \in [Requests -> Keys]
  /\ Charge \in [Requests -> 1..Booked]
  /\ Nobody \notin Procs /\ Nobody \notin Requests
  /\ Overlap \in BOOLEAN /\ Unvoids \in BOOLEAN
  /\ {Capacity, Batch, Booked} \subseteq Nat \ {0}
  /\ {Minimum, MaxFailures, MaxInvoices} \subseteq Nat

VARIABLES
  \* the requests
  pc,           \* how far each request is
  at,           \* the process that serves it
  \* each process
  open,         \* the processes that have the store open
  queue,        \* the channel to the writer task
  batch,        \* what the writer has taken out and not committed: the
                \* requests whose detail row it holds,
  entries,      \* its ledger entries in their order,
  acks,         \* and whether a flush waits to be answered
  head,         \* prev_hash in the writer's memory
  flush,        \* a Store::flush: "no", "asked" or "acked"
  \* the database
  ledger,       \* table usage_ledger
  details,      \* table requests
  invoices,     \* table invoices
  \* the world
  failures,
  \* history
  lost,         \* ledger entries refused, discarded or gone with a process
  due           \* what a flush has to see written

request == <<pc, at>>
taken   == <<batch, entries, acks>>
process == <<open, queue, taken, head, flush>>
base    == <<ledger, details, invoices>>
history == <<lost, due>>
vars    == <<request, process, base, failures, history>>

Marker  == [kind |-> "flush", of |-> Nobody, booked |-> FALSE]
Entry   == [kind : {"input", "final"}, of : Requests, booked : BOOLEAN]
Message == Entry \union [kind : {"detail"}, of : Requests, booked : {TRUE}]
                 \union {Marker}
\* Every query reads a paid invoice as it reads an issued one.
Statuses == {"issued", "void"}

\* A row as its columns; `prev` is prev_hash.
Row == [of : Requests, phase : {"input", "final"}, requests : 0..1,
        tokens : -Booked..Booked, cost : 0..Booked, prev : Nat]
Invoice == [key : Keys, from : Nat, to : Nat, total : Nat, status : Statuses,
            seal : Keys \X Nat \X Nat \X Nat]

TypeOK ==
  /\ pc \in [Requests -> {"new", "booked", "closing", "over"}]
  /\ at \in [Requests -> Procs \union {Nobody}]
  /\ open \subseteq Procs
  /\ queue \in [Procs -> Seq(Message)]
  /\ \A p \in Procs : Len(queue[p]) <= Capacity
  /\ batch \in [Procs -> SUBSET Requests]
  /\ entries \in [Procs -> Seq(Entry)]
  /\ acks \in [Procs -> BOOLEAN]
  /\ head \in [Procs -> Nat]
  /\ flush \in [Procs -> {"no", "asked", "acked"}]
  /\ ledger \in Seq(Row)
  /\ details \subseteq Requests
  /\ invoices \in Seq(Invoice)
  /\ failures \in 0..MaxFailures
  /\ lost \subseteq Entry
  /\ due \in [Procs -> SUBSET Message]

Init ==
  /\ pc = [r \in Requests |-> "new"]
  /\ at = [r \in Requests |-> Nobody]
  /\ open = {}
  /\ queue = [p \in Procs |-> <<>>]
  /\ batch = [p \in Procs |-> {}]
  /\ entries = [p \in Procs |-> <<>>]
  /\ acks = [p \in Procs |-> FALSE]
  /\ head = [p \in Procs |-> 0]
  /\ flush = [p \in Procs |-> "no"]
  /\ ledger = <<>>
  /\ details = {}
  /\ invoices = <<>>
  /\ failures = 0
  /\ lost = {}
  /\ due = [p \in Procs |-> {}]

-----------------------------------------------------------------------------
(* The process: Store::open and the two ways to end. *)

\* last_ledger_hash: what the newest row hashes to.
LastHash == Len(ledger)

Open(p) ==
  /\ p \notin open
  /\ Overlap \/ open = {}
  /\ open' = open \union {p}
  /\ head' = [head EXCEPT ![p] = LastHash]
  /\ UNCHANGED <<request, queue, taken, flush, base, failures, history>>

Detail(r) == [kind |-> "detail", of |-> r, booked |-> TRUE]

Unwritten(p) == (ToSet(queue[p]) \ {Marker}) \union ToSet(entries[p])
                  \union {Detail(r) : r \in batch[p]}

Lose(ms) == lost' = lost \union {m \in ms : m.kind \in {"input", "final"}}

\* batch.clear(), entries.clear(), acks.drain(..)
Clear(p) ==
  /\ batch' = [batch EXCEPT ![p] = {}]
  /\ entries' = [entries EXCEPT ![p] = <<>>]
  /\ acks' = [acks EXCEPT ![p] = FALSE]

\* Everything in memory goes, the futures of its requests with it.
Die(p) ==
  /\ open' = open \ {p}
  /\ queue' = [queue EXCEPT ![p] = <<>>]
  /\ Clear(p)
  /\ flush' = [flush EXCEPT ![p] = "no"]
  /\ due' = [due EXCEPT ![p] = {}]
  /\ head' = [head EXCEPT ![p] = 0]
  /\ Lose(Unwritten(p))
  /\ pc' = [r \in Requests |-> IF at[r] = p THEN "over" ELSE pc[r]]
  /\ UNCHANGED <<at, base>>

Crash(p) ==
  /\ p \in open
  /\ failures < MaxFailures
  /\ failures' = failures + 1
  /\ Die(p)

Exit(p) ==
  /\ flush[p] = "acked"
  /\ Die(p)
  /\ UNCHANGED failures

-----------------------------------------------------------------------------
(* The request: the sends of relay/handler.rs. *)

\* Store::insert and Store::ledger: try_send, and a full channel drops.
TrySend(p, m) ==
  IF Len(queue[p]) < Capacity
  THEN queue' = [queue EXCEPT ![p] = Append(@, m)] /\ UNCHANGED lost
  ELSE Lose({m}) /\ UNCHANGED queue

\* ledger_input, once the backend has answered with its headers.
LedgerInput(r, p) ==
  /\ pc[r] = "new"
  /\ p \in open
  /\ pc' = [pc EXCEPT ![r] = "booked"]
  /\ at' = [at EXCEPT ![r] = p]
  /\ TrySend(p, [kind |-> "input", of |-> r, booked |-> TRUE])
  /\ UNCHANGED <<open, taken, head, flush, base, failures, due>>

\* finish, first half: ledger_final.  A request that never reached a backend
\* has no input row and settles at what was counted.
Finish(r, p) ==
  /\ \/ pc[r] = "new" /\ p \in open
     \/ pc[r] = "booked" /\ at[r] = p
  /\ pc' = [pc EXCEPT ![r] = "closing"]
  /\ at' = [at EXCEPT ![r] = p]
  /\ TrySend(p, [kind |-> "final", of |-> r, booked |-> pc[r] = "booked"])
  /\ UNCHANGED <<open, taken, head, flush, base, failures, due>>

\* finish, second half: the detail row.
Insert(r) ==
  /\ pc[r] = "closing"
  /\ pc' = [pc EXCEPT ![r] = "over"]
  /\ TrySend(at[r], Detail(r))
  /\ UNCHANGED <<at, open, taken, head, flush, base, failures, due>>

\* The caller of a buffered answer hangs up: the handler's future is dropped
\* at an await, and nothing after it runs.
HangUp(r) ==
  /\ pc[r] = "booked"
  /\ pc' = [pc EXCEPT ![r] = "over"]
  /\ UNCHANGED <<at, process, base, failures, history>>

-----------------------------------------------------------------------------
(* The writer task. *)

\* Flush markers do not count against WRITE_BATCH.
Loaded(p) == Cardinality(batch[p]) + Len(entries[p])

\* Each message goes to the vector of its kind.
Push(p, m) ==
  /\ batch' = [batch EXCEPT ![p] = IF m.kind = "detail" THEN @ \union {m.of} ELSE @]
  /\ entries' = [entries EXCEPT ![p] = IF m \in Entry THEN Append(@, m) ELSE @]
  /\ acks' = [acks EXCEPT ![p] = @ \/ m = Marker]

\* Faulty: a flush is answered when the writer reads it, before the commit.
TakeAnswering(p) ==
  /\ queue[p] # <<>>
  /\ Loaded(p) < Batch
  /\ queue' = [queue EXCEPT ![p] = Tail(@)]
  /\ Push(p, Head(queue[p]))
  /\ flush' = IF Head(queue[p]) = Marker THEN [flush EXCEPT ![p] = "acked"] ELSE flush
  /\ UNCHANGED <<request, open, head, base, failures, history>>

Take(p) ==
  /\ queue[p] # <<>>
  /\ Loaded(p) < Batch
  /\ queue' = [queue EXCEPT ![p] = Tail(@)]
  /\ Push(p, Head(queue[p]))
  /\ UNCHANGED <<request, open, head, flush, base, failures, history>>

\* Faulty: the closing row forgets what the input row said.
RowForgetful(m, prev) ==
  IF m.kind = "input"
  THEN [of |-> m.of, phase |-> "input", requests |-> 1, tokens |-> Booked,
        cost |-> 0, prev |-> prev]
  ELSE [of |-> m.of, phase |-> "final", requests |-> IF m.booked THEN 0 ELSE 1,
        tokens |-> Charge[m.of], cost |-> Charge[m.of], prev |-> prev]

\* ledger_input's and ledger_final's figures.  A settled prompt is a
\* correction to the booked one when there is an input row.
RowOf(m, prev) ==
  IF m.kind = "input"
  THEN [of |-> m.of, phase |-> "input", requests |-> 1, tokens |-> Booked,
        cost |-> 0, prev |-> prev]
  ELSE [of |-> m.of, phase |-> "final",
        requests |-> IF m.booked THEN 0 ELSE 1,
        tokens |-> IF m.booked THEN Charge[m.of] - Booked ELSE Charge[m.of],
        cost |-> Charge[m.of], prev |-> prev]

\* Each row is hashed over the one appended before it.
Chained(ms, prev) ==
  [i \in DOMAIN ms |-> RowOf(ms[i], IF i = 1 THEN prev ELSE Len(ledger) + i - 1)]

\* The vectors are cleared and the flush in them is answered, whatever came
\* of the batch.
AnswerFlush(p) ==
  /\ Clear(p)
  /\ flush' = IF acks[p] THEN [flush EXCEPT ![p] = "acked"] ELSE flush

\* The writer stops draining when the channel is empty or the batch is full.
Writing(p) ==
  /\ Loaded(p) > 0 \/ acks[p]
  /\ queue[p] = <<>> \/ Loaded(p) = Batch

\* write_batch in one transaction.
Commit(p) ==
  /\ Writing(p)
  /\ ledger' = ledger \o Chained(entries[p], head[p])
  /\ head' = [head EXCEPT ![p] = IF entries[p] = <<>> THEN @
                                 ELSE Len(ledger) + Len(entries[p])]
  /\ details' = details \union batch[p]
  /\ AnswerFlush(p)
  /\ UNCHANGED <<request, open, queue, invoices, failures, history>>

\* Faulty: the head moves on over rows that were never appended.
CommitFailsAhead(p) ==
  /\ Writing(p)
  /\ Loaded(p) > 0
  /\ failures < MaxFailures
  /\ failures' = failures + 1
  /\ Lose(ToSet(entries[p]))
  /\ head' = [head EXCEPT ![p] = Len(ledger) + Len(entries[p])]
  /\ AnswerFlush(p)
  /\ UNCHANGED <<request, open, queue, base, due>>

\* The transaction fails (SQLITE_BUSY past its timeout, a full disk): the
\* batch is logged and discarded, and the head stays.
CommitFails(p) ==
  /\ Writing(p)
  /\ Loaded(p) > 0
  /\ failures < MaxFailures
  /\ failures' = failures + 1
  /\ Lose(ToSet(entries[p]))
  /\ AnswerFlush(p)
  /\ UNCHANGED <<request, open, queue, head, base, due>>

\* Store::flush waits for room in the channel; the shutdown path awaits it.
AskFlush(p) ==
  /\ p \in open
  /\ flush[p] = "no"
  /\ Len(queue[p]) < Capacity
  /\ flush' = [flush EXCEPT ![p] = "asked"]
  /\ due' = [due EXCEPT ![p] = Unwritten(p)]
  /\ queue' = [queue EXCEPT ![p] = Append(@, Marker)]
  /\ UNCHANGED <<request, open, taken, head, base, failures, lost>>

-----------------------------------------------------------------------------
(* Invoices, on the admin connection. *)

Standing(k) == {i \in DOMAIN invoices : invoices[i].key = k /\ invoices[i].status # "void"}

\* Faulty: a voided invoice keeps its period.
CursorPastVoid(k) ==
  Max({0} \union {invoices[i].to : i \in {j \in DOMAIN invoices : invoices[j].key = k}})

\* billing_cursor: the line the newest standing invoice drew.
Cursor(k) == Max({0} \union {invoices[i].to : i \in Standing(k)})

\* usage_between: from_seq exclusive, to_seq inclusive.
Lines(k, from, to) == {n \in from + 1 .. to : KeyOf[ledger[n].of] = k}

Total(S)   == SumFunctionOnSet([n \in DOMAIN ledger |-> ledger[n].cost], S)
Counted(S) == SumFunctionOnSet([n \in DOMAIN ledger |-> ledger[n].requests], S)

\* The rows since the last line, up to the newest one there is.
Owing(k) == Lines(k, Cursor(k), Len(ledger))

\* NothingToBill and BelowMinimum.
Skipped(k, force) ==
  \/ Len(ledger) <= Cursor(k)
  \/ ~force /\ Counted(Owing(k)) = 0 /\ Total(Owing(k)) = 0
  \/ ~force /\ Total(Owing(k)) < Minimum

\* canonical, hash: what an invoice's content_hash is taken over.
Canonical(i) == <<i.key, i.from, i.to, i.total>>

Bill(k) ==
  LET i == [key |-> k, from |-> Cursor(k), to |-> Len(ledger),
            total |-> Total(Owing(k)), status |-> "issued", seal |-> <<>>]
  IN  [i EXCEPT !.seal = Canonical(i)]

\* issue, in an IMMEDIATE transaction.
Issue(k, force) ==
  /\ open # {}
  /\ Len(invoices) < MaxInvoices
  /\ ~Skipped(k, force)
  /\ invoices' = Append(invoices, Bill(k))
  /\ UNCHANGED <<request, process, ledger, details, failures, history>>

\* The operator's button, which may force; the billing cycle, which never
\* does, and whose calendar may pick any moment.
IssueInvoice(k) == \E force \in BOOLEAN : Issue(k, force)
BillingCycle(k) == Issue(k, FALSE)

\* Faulty: any invoice may be voided.
MayVoidAny(i) == i \in DOMAIN invoices

\* refuse_a_void_that_would_orphan_a_period
MayVoid(i) == invoices[i].to = Cursor(invoices[i].key)

\* set_status
SetStatus(i, status) ==
  /\ open # {}
  /\ invoices[i].status = "void" => status = "void" \/ Unvoids
  /\ status = "void" /\ invoices[i].status # "void" => MayVoid(i)
  /\ invoices' = [invoices EXCEPT ![i].status = status]
  /\ UNCHANGED <<request, process, ledger, details, failures, history>>

Next ==
  \/ \E p \in Procs : Open(p) \/ Crash(p) \/ Exit(p) \/ Take(p) \/ Commit(p)
                        \/ CommitFails(p) \/ AskFlush(p)
  \/ \E r \in Requests, p \in Procs : LedgerInput(r, p) \/ Finish(r, p)
  \/ \E r \in Requests : Insert(r) \/ HangUp(r)
  \/ \E k \in Keys : IssueInvoice(k) \/ BillingCycle(k)
  \/ \E i \in DOMAIN invoices, status \in Statuses : SetStatus(i, status)

Spec == Init /\ [][Next]_vars

-----------------------------------------------------------------------------
\* verify: the rows in their order, each to be hashed over the one before,
\* up to the first that is not.
Verified == {n \in DOMAIN ledger : \A m \in 1..n : ledger[m].prev = m - 1}

(* ledger::verify succeeds: every row is hashed over the row before it,    *)
(* through failed batches, crashes and restarts.                           *)
ChainVerifies == Verified = DOMAIN ledger

\* The processes that would hash their next row over an older one.
Behind == {p \in open : head[p] # LastHash}

(* However many have the store open: no row is hashed over one that came   *)
(* after it; a row is hashed over another than the last only as the first  *)
(* of a batch, and by a process that was behind; and a process falls       *)
(* behind only when another one, beside it, writes.                        *)
ChainsBack == \A n \in DOMAIN ledger : ledger[n].prev < n
BreaksOnlyBehindAnother ==
  [][/\ \A n \in DOMAIN ledger' \ DOMAIN ledger :
          \/ ledger'[n].prev = n - 1
          \/ n = Len(ledger) + 1 /\ \E p \in Behind : ledger'[n].prev = head[p]
     /\ \A p \in Behind' \ Behind : \E q \in open \ {p} :
          /\ entries[q] # <<>>
          /\ ledger' = ledger \o Chained(entries[q], head[q])]_vars

(* "the range an invoice covers and the range that comes after it never    *)
(* overlap by a row": of the rows of a key, each one up to its line is on  *)
(* exactly one invoice that stands, and the ones past it on none.          *)
BilledOnce ==
  \A k \in Keys : \A n \in DOMAIN ledger :
    KeyOf[ledger[n].of] = k =>
      Cardinality({i \in Standing(k) : n \in invoices[i].from + 1 .. invoices[i].to})
        = IF n <= Cursor(k) THEN 1 ELSE 0

(* "The money does not come back -- it disappears": what a key's standing  *)
(* invoices ask for and what is still unbilled is all it ever spent.       *)
Asked(k)  == SumFunctionOnSet([i \in DOMAIN invoices |-> invoices[i].total], Standing(k))
RowsFor(k) == Lines(k, 0, Len(ledger))
MoneyConserved == \A k \in Keys : Asked(k) + Total(Owing(k)) = Total(RowsFor(k))

\* verify of the invoices: each still hashes to what it was issued with.
Sealed == \A i \in DOMAIN invoices : invoices[i].seal = Canonical(invoices[i])

(* Voided, issued again, paid or refused for being too small: every row is *)
(* asked for once or still to be asked for, at what it cost, and an        *)
(* invoice that changed hands still matches its own figures.               *)
BillsAddUp == BilledOnce /\ MoneyConserved /\ Sealed

RowsOf(r)   == {n \in DOMAIN ledger : ledger[n].of = r}
LostRow(r)  == \E m \in lost : m.of = r
Tokens(S)   == SumFunctionOnSet([n \in DOMAIN ledger |-> ledger[n].tokens], S)

(* "a plain SUM over the table is the right answer": a request whose rows  *)
(* all arrived counts once, with the tokens it settled at; none counts     *)
(* twice, whatever was lost.                                               *)
SumIsRight ==
  \A r \in Requests :
    /\ Counted(RowsOf(r)) <= 1
    /\ (\E n \in RowsOf(r) : ledger[n].phase = "final") /\ ~LostRow(r)
         => Counted(RowsOf(r)) = 1 /\ Tokens(RowsOf(r)) = Charge[r]

(* Store::flush: when it is answered, everything sent before it is in the  *)
(* database, or its batch failed and was logged.                           *)
FlushedIsWritten ==
  \A p \in Procs : flush[p] = "acked" => due[p] \intersect Unwritten(p) = {}

(* The invoices that stand draw lines across an ever growing ledger, and   *)
(* give only the last one back: no row is ever behind a line that was not  *)
(* billed up to it.                                                        *)
Periods == INSTANCE BillingLines WITH
  Clients <- Keys,
  rows <- Len(ledger),
  lines <- [k \in Keys |-> {invoices[i].to : i \in Standing(k)}]
DrawsLines == Periods!Spec
=============================================================================
