-------------------------------- MODULE Spans --------------------------------
(***************************************************************************)
(* langfuse.rs: the traces of finished requests, queued by the relay and   *)
(* posted in batches by one exporter task.                                 *)
(*                                                                         *)
(* A request opens a trace when it starts, under the configuration of that *)
(* moment, and turns it into a span when it ends, under the configuration  *)
(* of that one.  The exporter reads the configuration once per batch,      *)
(* before it waits for the batch to fill.                                  *)
(***************************************************************************)
EXTENDS Naturals, Sequences, FiniteSets

CONSTANTS
  Requests,     \* each leaves one span at most
  Capacity,     \* langfuse.queueCapacity
  BatchSize,    \* langfuse.batchSize
  SampleRate,   \* langfuse.sampleRate: "none", "some" or "all"
  MaxSwitches   \* bound: changes of the settings

\* What is asked of the constants; Workers assumes it.
Parameters ==
  /\ {Capacity, BatchSize} \subseteq Nat \ {0}
  /\ SampleRate \in {"none", "some", "all"}
  /\ MaxSwitches \in Nat

VARIABLES
  lf,           \* the live settings: ready() and captureErrors
  req,          \* each request: "idle", "plain" or "sampled" or "spare" (what
                \* its trace is) while it runs, then "ended" or "spanned"
  queue,        \* the channel
  stats,        \* Stats
  exporter,     \* where the exporter is
  seen,         \* its snapshot of ready()
  batch,
  backoff,      \* seconds
  switches

vars == <<lf, req, queue, stats, exporter, seen, batch, backoff, switches>>

relay == <<lf, req, switches>>

Init ==
  /\ lf \in [ready : BOOLEAN, errors : BOOLEAN]
  /\ req = [r \in Requests |-> "idle"]
  /\ queue = <<>>
  /\ stats = [queued |-> 0, sent |-> 0, dropped |-> 0, failed |-> 0]
  /\ exporter = "idle"
  /\ seen = FALSE
  /\ batch = <<>>
  /\ backoff = 0
  /\ switches = 0

\* `n` more of one of the counters.
Counted(what, n) == stats' = [stats EXCEPT ![what] = @ + n]

Rolls == CASE SampleRate = "all"  -> {TRUE}
           [] SampleRate = "none" -> {FALSE}
           [] SampleRate = "some" -> BOOLEAN

\* Langfuse::begin: what a failure would be kept for survives the dice.
Begin(r) ==
  /\ req[r] = "idle"
  /\ \E sampled \in Rolls :
       req' = [req EXCEPT ![r] =
                 IF ~lf.ready THEN "plain"
                 ELSE IF sampled THEN "sampled"
                 ELSE IF lf.errors THEN "spare" ELSE "plain"]
  /\ UNCHANGED <<lf, queue, stats, exporter, seen, batch, backoff, switches>>

\* Langfuse::submit: never waits.
Submit(r) ==
  IF Len(queue) < Capacity
    THEN /\ queue' = Append(queue, r)
         /\ Counted("queued", 1)
    ELSE /\ queue' = queue
         /\ Counted("dropped", 1)

\* Langfuse::record, when the request has ended, well or not.
Record(r) ==
  \E failed \in BOOLEAN :
    LET spans == /\ req[r] # "plain"
                 /\ lf.ready
                 /\ req[r] = "sampled" \/ (failed /\ lf.errors)
    IN /\ req[r] \in {"plain", "sampled", "spare"}
       /\ req' = [req EXCEPT ![r] = IF spans THEN "spanned" ELSE "ended"]
       /\ IF spans THEN Submit(r) ELSE UNCHANGED <<queue, stats>>
       /\ UNCHANGED <<lf, exporter, seen, batch, backoff, switches>>

\* External: the settings are changed in the dashboard.
Switch ==
  /\ switches < MaxSwitches
  /\ switches' = switches + 1
  /\ lf' \in [ready : BOOLEAN, errors : BOOLEAN] \ {lf}
  /\ UNCHANGED <<req, queue, stats, exporter, seen, batch, backoff>>

-----------------------------------------------------------------------------
(* Exporter::run *)

\* The top of the loop: the settings are read, the deadline is set.
Snapshot ==
  /\ exporter = "idle"
  /\ exporter' = "filling"
  /\ seen' = lf.ready
  /\ UNCHANGED <<relay, queue, stats, batch, backoff>>

Receive ==
  /\ exporter = "filling"
  /\ queue # <<>>
  /\ batch' = Append(batch, Head(queue))
  /\ queue' = Tail(queue)
  /\ exporter' = IF Len(batch') >= BatchSize THEN "filled" ELSE "filling"
  /\ UNCHANGED <<relay, stats, seen, backoff>>

Deadline ==
  /\ exporter = "filling"
  /\ exporter' = IF batch = <<>> THEN "idle" ELSE "filled"
  /\ UNCHANGED <<relay, queue, stats, seen, batch, backoff>>

\* Faulty: what was queued before the switch is let go without a word.
SwitchedOffQuietly ==
  /\ exporter = "filled"
  /\ ~seen
  /\ batch' = <<>>
  /\ exporter' = "idle"
  /\ UNCHANGED <<relay, queue, stats, seen, backoff>>

\* Switched off while these were queued.
SwitchedOff ==
  /\ exporter = "filled"
  /\ ~seen
  /\ Counted("dropped", Len(batch))
  /\ batch' = <<>>
  /\ exporter' = "idle"
  /\ UNCHANGED <<relay, queue, seen, backoff>>

\* The post, after the pause an earlier failure asks for.
Post ==
  /\ exporter = "filled"
  /\ seen
  /\ \/ Counted("sent", Len(batch)) /\ backoff' = 0
     \/ /\ Counted("failed", Len(batch))
        /\ backoff' = CASE backoff = 0 -> 2
                        [] backoff >= 30 -> 60
                        [] OTHER -> 2 * backoff
  /\ batch' = <<>>
  /\ exporter' = "idle"
  /\ UNCHANGED <<relay, queue, seen>>

\* The process ends, and the senders with it: nothing waits for the exporter.
Exit ==
  /\ exporter # "gone"
  /\ exporter' = "gone"
  /\ req' = [r \in Requests |-> IF req[r] = "spanned" THEN "spanned" ELSE "ended"]
  /\ UNCHANGED <<lf, queue, stats, seen, batch, backoff, switches>>

Next ==
  \/ \E r \in Requests : Begin(r) \/ Record(r)
  \/ Switch
  \/ Snapshot \/ Receive \/ Deadline \/ SwitchedOff \/ Post \/ Exit

Spec == Init /\ [][Next]_vars

-----------------------------------------------------------------------------
(* Properties *)

\* What a request left behind.
Spanned == {r \in Requests : req[r] = "spanned"}

\* langfuse.rs submit and run: every span a request earned is in one place,
\* and the counters the dashboard shows say which: waiting in the channel,
\* in the batch, or sent, failed or dropped.  The queue may be full, the
\* export switched off and on under it, and the post fail.
SpansAccounted ==
  /\ stats.sent + stats.failed + stats.dropped + Len(queue) + Len(batch)
       = Cardinality(Spanned)
  /\ Len(queue) <= Capacity
  /\ Len(batch) <= BatchSize
==============================================================================
