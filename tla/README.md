# Formal models of chtting-relay

`chtting-relay` is an OpenAI-compatible relay that runs on a phone. It admits
requests, rewrites them, sends them to configured backends, streams the answers
back, counts tokens, keeps a hash-chained usage ledger, invoices its keys,
publishes itself through `cloudflared`, and replaces itself by a fresh process
every few hours. This directory holds TLA+ models of it: of the parts whose
correctness depends on order (of two threads, two processes, requests and clock
ticks, bytes and frames), and of the pure chain from a caller's body to its bill.

1. [The system](#the-system) — its parts, their state, how they interact
2. [Modules](#modules) — what models what
3. [Runs](#runs) — what TLC checks, the bounds, the fairness
4. [Proofs](#proofs)
5. [Where the code and its words differ](#where-the-code-and-its-words-differ)
6. [Not modelled](#not-modelled)
7. [Plan](#plan)

Paths below are relative to the crate's `src/`. Which lines each definition
stands for is in `PROJECT.json` under `map`.

## The system

One tokio process, many tasks. Requests are tasks of their own; everything they
share is behind atomics, a semaphore, short `parking_lot` locks or a channel to
a task that owns the thing.

| component | state | operations | modules |
|---|---|---|---|
| **Gate** `relay/gate.rs` | a semaphore, `effective`, `waiting`, `in_flight` | `resize`, `admit`, `Ticket::drop` | `Gate`, `AdmissionLine` |
| **Port lease** `lock.rs` | an abstract socket name the kernel owns | `try_acquire`, `acquire_within`, `take_over`, `serving_pid` | `Handover` |
| **Rotation** `rotate.rs`, `main.rs` | note, marker, pidfile; the process's stage | `spawn_successor`, `announce_ready`, `drain`, `retire`, watchdog | `Handover` |
| **Tunnel claim** `rotate.rs` | `run/tunnel.lock` | `claim_tunnel`, `release_tunnel` | `Claims` |
| **Store** `store/mod.rs` | channel (8192), batch (128), `prev_hash`, SQLite | `insert`, `ledger`, `flush`, the writer task | `Books` |
| **Ledger** `store/ledger.rs` | table `usage_ledger`, hash-chained | `hash_with`, `verify`, sums | `Books` |
| **Invoices** `store/invoice.rs` | table `invoices` | `issue`, `set_status`, `billing_cursor`; the billing cycle | `Books`, `BillingLines` |
| **Limiter, quotas** `store/mod.rs` | deques per key, counts per key and day | `check`, `get`, `record`, `seed` | `Quota` |
| **Handlers** `server/public.rs`, `relay/handler.rs` | a future per request | `admit`, `handle_chat`, `embeddings`, `finish` | `Request`, `Answer` |
| **Upstream** `relay/upstream.rs` | locals of a call | `send`, `send_with_fallback` | `Upstream` |
| **Pump** `relay/handler.rs`, `relay/sse.rs` | decoder, parser, rewriter, channel (64) | `pump`, `pipe_stream` | `Stream` |
| **Configuration** `config.rs` | file, `ArcSwap`, index of keys, write lock | `update`, `replace_list`, `upsert`, `remove`; `key new`, `backend add`, `model add` in processes of their own | `Settings` |
| **Dashboard** `server/dashboard.rs` | sessions, sign-in counters | sign-in, edits, service and tunnel actions | `Panel`, `Settings`, `Service`, `Tunnel` |
| **Recovery** `reset.rs` | the pending challenge and its file | `start`, `verify`, `forget` | `Panel` |
| **Tunnels** `tunnel.rs` | child, `running`, `stopping` | `start`, `supervise`, `stop`, `ensure_running` | `Tunnel` |
| **Keeper** `system.rs` | a shell loop, pid file, stop file | `install_service`, `hand_over`, `uninstall` | `Service` |
| **Updater** `update.rs` | `busy`, the parked binary | `run`, `build`, `restore` | `Service` |
| **Exporter** `langfuse.rs` | queue, batch, backoff, counters | `begin`, `submit`, `run`, `post` | `Spans` |
| **Tokenizers** `tokenizer/registry.rs` | encoders, remembered misses | `get`, `load`, `invalidate`, the installer | `Vocabulary` |
| **Counting** `tokenizer/` | none | `count_prompt`, `reconcile_usage`, `charged_to_caller` | `Prompt`, `Reply` |
| **Pricing** `pricing.rs` | none | `resolve`, `effort`, `charge`, `price` | `Pricing` |
| **Listings** `server/catalog.rs`, `server/openrouter.rs` | none | cards, bands, parameters | `Listing` |
| **Transforms** `relay/transform.rs` | a flag in a stream | `transform_request`, `_message`, `_delta` | `Prompt`, `Reply` |

How a request goes: `public::admit` looks at the key, the limiter and the daily
quota; `handle_chat` reads the effort, shapes the body, takes a place at the
gate (or waits in its line, or is refused), counts the prompt, calls the
backends of the route in turn with retries, writes the ledger's input row when
one has answered, and hands the body to a task of its own (a stream) or reads it
(a whole answer). Either way `finish` prices it, writes the ledger's final row,
counts the request against its day, sends the detail row and submits the trace;
dropping the `Ticket` gives the place back.

How a process goes: `start` validates a handover or takes the lease, builds its
state (reading the chain's head and today's counts), binds with `SO_REUSEPORT`,
announces itself, waits for the lease if it is a successor, claims the tunnels,
and serves until a rotation, a signal, the watchdog, the dashboard, an update or
a crash ends it. A keeper's loop starts the next one, or does not.

**What is hard here**, each item at its line in `PROJECT.json` under `hazards`:
two requests between any two atomics of the gate; a future dropped at an await;
two processes on one port, one chain, one claim and one day's quota; a child
that is late; a batch that fails between two that do not; an invoice voided,
reissued and un-voided; a request that outlives midnight; retries inside
fallbacks; a match, a character or a frame cut by the network; a caller who is
gone while the backend is silent; two editors and a write that is dropped; stop,
start and a supervisor that brings back; a keeper refused the port; a build that
parks the binary it may not replace; guesses across lockouts and restarts; a
span queue that fills while the export is switched; a vocabulary installed under
a load; and a price that three pieces of code derive.

**What makes each part correct.** Gate: permits are conserved, the line is
bounded, first come first served, no wake-up is lost. Lease and rotation: one
process is entitled, somebody always listens, a retiring process finishes what
it has, every start comes to an end. Books: the chain verifies, every row is on
one standing invoice or unbilled, sums are right, a flush means written.
Requests: every way out gives the place back and is finished once; limits hold
over any window and any restart; attempts are those that were made. Stream:
what the caller reads is the answer rewritten as a whole, however it was cut up,
with the closing frames once and in order; a hang-up ends the task. Settings:
the file always loads, and agrees with memory; an edit touches what it names.
Panel: guesses stay within their budgets, a reset signs out. Tunnels: one wanted
connector, every call returns, one generation of them. Keeper and updater: the
relay is brought back and its binary is there. Money: the price charged is the
one published, for the tokens of the body that was sent, with no credit that was
not received. Spans: each counted once.

## Modules

Composition is `EXTENDS` where state is shared (`Request` extends `Quota` and
`Upstream`; `Answer` extends `Reply`, that `Prompt`, that `Listing`, that
`Pricing`; `Settings`, `Panel` and `Tunnel` each extend a small module,
`SettingsPromise`, `PanelPromise` and `TunnelPromise`, of the state their safety
properties speak of and the properties themselves) and `INSTANCE` where it is
not (`Workers`). `MC` modules give the constants of the module they extend their
values; those of `Handover` and `Tunnel` are in their `.cfg` files alone.
Definitions marked *Faulty* are not part of any specification: each is a
plausible bug in the definition after it, and a property that must notice it is
named in `PROJECT.json` under `mutants`.

**`Gate`** (with `AdmissionLine`, what it promises) — `relay/gate.rs`. One
action per atomic access: `ResizeLoad`, `ResizeGrow`/`ResizeShrink`,
`ResizeStore`, `TryAcquire`/`TryAcquireFails`, `Reserve`, `Refuse`, `Acquire`,
`Timeout`, `Expire`, `Proceed`, `Begin`, `Finish`, `Release`, and `HangUp` for a
future dropped at the await. Requests are slots that run one request after
another. tokio's semaphore is external: permits given back go to waiters in
arrival order under its lock. `minted` and `leaked` are history.

**`Handover`** — `lock.rs`, `rotate.rs` and `start`, `hold_the_port`,
`finish_the_handover`, `watch_the_lease`, `rotate_on_a_clock` of `main.rs`.
Processes, the lease, notes, markers, the pidfile, deadlines in ticks of about
fifteen seconds. The kernel gives the lease to one process and takes it back
when that process dies. `Tick` may not pass a deadline that has come. A process
has two kinds of requests: those its gate counts (`busy`) and those it does not
(`unseen`: in line, between permit and count, or an embedding); `Admit` counts
one, and `DrainOver` looks at the counted ones, as `drain` does. The drain's
timeout is read anew from the configuration, so `Drain` is a set.

**`Books`** (with `BillingLines`, what billing promises) — the channel, the
writer's batch and head, commit and failure, flush; `ledger_input`,
`ledger_final` and the detail row; `issue`, `set_status` and the `BillingCycle`
that issues by itself. A row's hash is its position (SHA-256 taken to be
injective). A paid invoice is read like an issued one by every query, so
`Statuses` has two members. The day a billing cycle falls on is any moment.

**`Quota`**, **`Upstream`**, **`Request`** — `RateLimiter`, `QuotaTracker` and
the rows they are seeded from; one call over a route of backends; and the life
of a request through both, with hang-ups, crashes, and successors that start
(`Boot`) and take over (`Takeover`). A body without a model ends in `NoModel`, after
its hit was taken. `Quota` and `Upstream` have no `Next` of
their own. Of the gate, `Request` keeps the places and, of the store, the detail
rows; `Gate` and `Books` have the rest. One key: keys share no count.

**`Stream`** — `Utf8Decoder`, `SseParser`, `StreamRewriter`, `pump`, and the
closing frames of `pipe_stream`. A data line is one two-byte character, so a
read can end inside a character, a separator or a frame. Rules are literal
patterns; `Apply` is `CompiledRules::apply`, `SafeCut` is `safe_cut`. The
channel of 64 frames has `Room` for 2.

**`Settings`** — `ConfigStore` and the editors of `server/dashboard.rs` in front
of it. An edit is `View`ed (masked), sent, read back unmasked, `Merge`d under the
write lock (`Valid` or refused), written (`Rename`, `WriteFails`), published as
the index of keys and then as the configuration (`PublishKeys`, `Publish`). A
handler dropped in the middle of a write (`HangUp`) leaves its rename to land
late, if at all. A subcommand of `main.rs` is a `Command` that reads the file,
adds one item and writes it at some later time (`CommandWrites`), with a lock of
its own, which keeps nobody out. What is left of a configuration is what
`validate` relates.

**`Panel`** — sign-in and its throttle, sessions, the password reset. Each
request is a few steps between which other threads run: a password compared,
then a session inserted; a challenge published, then its file written; an answer
verified, the configuration updated, sessions cleared. `Restart` forgets memory
and keeps the file. Time is in seconds.

**`Tunnel`** — one `TunnelManager`: `running` behind tokio's mutex, `stopping`
beside it, a supervisor per process, calls of the dashboard and `ensure_running`.
A handle dropped asks its process to end like one that is sent.

**`Pricing`**, **`Listing`**, **`Prompt`**, **`Reply`**, **`Answer`** — pure
operators, and in `Answer` one request through them: the body is shaped
(`Prepare`) and counted (`Count`); the answer comes frame by frame (`Delta`,
`Break`) and is closed as a stream or as one body (`CloseStream`,
`CloseIntoJson`), or comes whole (`Buffered`, `BadReply`). A frame for a caller
who streams goes through `Relay`: the prefix joins the first text ahead of the
rewriter, the rewriter holds back the last `Lookbehind` words, and a frame whose
text is all held back is not sent, with whatever else it carries. A rule here is of
one word; rules that straddle a cut are `Stream`'s. Either end sends the
bill, with the usage reported before the backend broke off, if any was. A *scene* is the request and all the configuration it meets. Money is
whole (a dollar is `PerM` units), and a word is a token.

**`Spans`**, **`Vocabulary`**, **`Claims`**, **`Service`** — the exporter, the
vocabulary registry with its installer, the claim on the tunnels between
relays (a task beside the relay's life: any relay may claim at any moment, and
looks at the claim, writes it and brings its tunnels up in separate steps), and the
keeper's loop with the dashboard's service actions and the updater. They share no state; **`Workers`** instantiates the four and lets one
of them work in each behaviour, so that their state spaces add up instead of
multiplying.

**`GateProofs`**, **`HandoverProofs`**, **`BooksProofs`**, **`RequestProofs`**,
**`StreamProofs`**, **`AnswerProofs`** — theorems about the module each is named
for. **`BesideProofs`** — about what lies beside the way of a request: it extends
`Workers` and the promises of `Settings`, `Panel` and `Tunnel`, and instantiates the
three specifications. **`FoldFacts`** —
lemmas about `FoldLeft`, for any operator, instantiated by those that fold.

## Runs

All bounds are in the `.cfg` files; each is the smallest at which the
interesting case happens, and the mutants of `PROJECT.json` show that each
property can fail within them. States are distinct states.

| run | asks | instance | states |
|---|---|---|---|
| `Gate_safety` | permits, line and counters agree; no slot is idle while somebody waits; `Gate` implements `AdmissionLine` | three request slots, a limit moved twice between 1 and 2, a line of 2, hang-ups and deadlines | 273,239 |
| `Gate_serves` | everyone in line is served | no hang-up, no deadline, so serving cannot be explained by giving up | 2,326 |
| `Handover_rotates` | somebody listens at every moment, but for the watchdog's end of a successor that still waits | a relay and two successors; drains of 1 and of 3 ticks around a watchdog of 2, builds may outlast `READY_TIMEOUT` | 16,017 |
| `Handover_evicts` | the lease is the one title to build, listen and be on file; a retired process goes; every start settles | one relay, a `--replace` start, a successor, one crash; the drain is long, the watchdog out of the way | 96,189 |
| `Books_accounts` | chain, billing, sums, flush, and that `Books` implements `BillingLines` | two requests of a key, one process at a time, a failure or crash, two invoices, a channel and a batch of 2 | 1,240,290 |
| `Request_life` | every way out ends a request once; attempts, window, quota | a stream, a whole answer, an embedding; a backend with one retry, a disabled one, a fallback; a midnight; one successor | 1,748,292 |
| `Stream_relay` | whole rewriting, closing frames, hang-ups | all scripts of two text frames and a closing one over five texts, three kinds of blank line, reads of 1 to 6 bytes | 176,104 |
| `Settings_edits` | the file always loads; index, memory and file agree; an edit leaves the rest alone | two editors, two keys, two secrets, three edits from pages of any age or one of them by a subcommand, one failed write, one hang-up, one crash | 2,032,938 |
| `Panel_access` | sign-in and code budgets; a reset signs out | four requests from the phone and from outside, two passwords, one wrong try per address and two in all before a lockout, one per code, four seconds, one restart | 514,096 |
| `Tunnel_calls` | one wanted connector, handles of the living, every call returns | two callers and `ensure_running`, three processes, two calls, two mishaps | 36,706 |
| `Answer_bills` | the price published, the credit received, the tokens of the body sent, the parameters advertised, a stream like a whole | three families of scenes, each varying one side of a plain request: its money, its body, its answer (with a rule that holds back one word or two) | 113,376 |
| `Workers_beside` | spans, vocabularies, the tunnel claim, the binary, the keeper | four spans over a queue and batches of 2, switched twice; three counts beside an installation, from the dashboard or not; three relays, two at a time, and one kill; two keepers, four actions asked for, two mishaps | 1,699,052 |

Instances leave room for the cases they are about: three slots make one run, one
wait and one newcomer; a line of 2 has an order; two requests fill the channel
and split into two batches; one failure stands between two commits; `DayLength`
2 in a clock of 2 has one midnight; a pattern of two characters straddles any
frame boundary; two editors give a page that is older than an edit; a lockout of
2 in four seconds ends and begins again; `Piece` = 2 splits a replayed answer of
three words in two; a table of `Tracked` = 1 address is
full with the second; three relays, two alive at once, make one rotation after another and claims that cross
(all three at once were checked by hand, without `BroughtBack`: 6,096,679 states); four
actions are a stop, a start, a hand-over and an update. Counters have no other
bounds than those that follow from the `Max…` constants; nothing wraps within
them.

`CHECK_DEADLOCK FALSE` is set where the system really stops: all processes gone
(`Handover`, `Workers`), all requests over (`Books`, `Request`, `Panel`), the
edits or calls spent (`Settings`, `Tunnel`), the answer closed (`Stream`,
`Answer`). `Gate` never stops.

Symmetry: `Gate_safety` over the request slots, `Settings_edits` over editors,
backends and secrets, `Panel_access` over requests and passwords. None of the
three checks liveness: their temporal properties speak of single steps.

### Fairness

- `Gate`: a request that can take a step is polled again (`WF` on resize and
  admit), and a running request ends (`WF` on drop), because the upstream call
  has its own deadline. Nothing is assumed of arrivals, hang-ups, the operator.
  `EveryWaiterIsServed` needs no more than weak fairness since the semaphore
  hands permits over by itself.
- `Handover`: time passes, and each process takes the steps it is up to. Not
  assumed: that anybody starts, rotates, sends or answers a request.
- `Stream`: the task takes its steps when it has any, and the keep-alive timer
  fires. Not assumed: that the backend sends anything, or that the caller reads.
- `Tunnel`: strong fairness of each task, because `running` is tokio's mutex,
  which is given out in the order it is asked for: a task that waits for it is
  enabled again and again and gets it. Not assumed: that anybody calls, or that
  a connector ends by itself.
- `Service` (in `Workers`): a shell that runs gets on with its script (`WF`).
  Not assumed: that anybody installs, starts, updates or boots anything.
- The others are safety only.

### What the properties excuse

A property that fails on the code as it is names what it excuses, and the excuse
is a finding (below): `NeverUnheard` excuses the watchdog's end of a successor that
waits for the lease, and its run a relay that is killed; `Books_accounts` one process at a time and no un-voiding; `QuotaKept`
excuses a lost row, a rotation and a midnight, named in `excuses` by the actions
that cause them; `GateAccounts` counts resizes under way and places lost to
hang-ups; `Settled` speaks of the file in runs without a hang-up in the middle
of a write and without a subcommand;
`ResetSignsOut` excuses sign-ins under way (`overtaken`); `CountsWithTheDisk` a
load under way (`raced`) and an install by a subcommand (`aside`); `OneGeneration` a relay that is told
to stop or killed, a claim taken at its deadline (`late`), and one that crossed
another's write or its own relay's retirement (`crossed`); `BinaryIsThere` a process that went
while its update built (`abandoned`); `PublishedIsCharged` tiers, windows and
prices typed by hand, which the listing does not show in one figure, and cards
without a rate of their own for a field; `BilledIsTheBodySent` a route that
forces `tool_choice`; `StreamedIsWhole` answers without text, streamed
ones whose thinking does not all come before their text, the words of a stream
whose prefix the rules rewrite, the calls of one that has rules and brings
text and calls in one frame (`CallsApart`), `inline` thinking of a stream read for a
caller who does not, and of a replay all but its words. `BroughtBack` speaks of
keepers nobody asks to stop, and `HangUpEnds` of callers who are gone: one who
stays and does not read holds its place as long as it likes.

### Counterexamples kept

Five more configurations are not expected to pass: they are kept to see, by
hand, what the code does where its words say otherwise.
`tlc -config <name>.cfg <module>` finds each violated within seconds.

| configuration | module | violated |
|---|---|---|
| `Gate_lost_places` | `MCGate` | the doc's "the line is already as long as it is allowed to get" |
| `Handover_watchdog` | `Handover` | "at every moment at least one process is listening" (`AlwaysHeard`), with a drain longer than the watchdog |
| `Handover_drain` | `Handover` | "finishes the requests it already has" (`RetiresWhenDrained`): the drain does not see them all; with `Dashboard` TRUE it cuts off counted ones, too |
| `Books_overlap` | `MCBooks` | "only this task appends", with two processes that have the store open |
| `Request_midnight` | `MCRequest` | the quota over midnight |

Likewise stated and violated when they are added to a configuration:
`QuotaOverRotation` (`Request`), `EchoKeepsTheSecret` (`Settings`),
`CleanAddressIsAnswered` (`Panel`).

## Proofs

A theorem `Spec => []P` holds for every value of the constants its module's
`ASSUME` admits: any number of requests, processes, editors or keys, any limits
and any number of failures. 33 of the 39 properties the runs check are proved that
way, every safety property among them; the other six are liveness. Each proof has
the same shape: an inductive invariant (where TLC can evaluate it, checked on a small
instance before it was proved), a lemma that `Init` gives it, a lemma that
a step keeps it (a step of the proof per action), and the theorem that combines
the two. What is *extra* assumed is named below and at the theorem.

### The gate

`GateTypeCorrect` (the counters, which wrap in the code, never go below zero),
`GatePermits`, `GateInFlight`, `GateWaiting`, `GateLineBounded`,
`GateAccountsHold` (the property of `Gate_safety`), `GateNoIdleSlot`. None is
inductive alone. `GateInv` is their conjunction with `LineIsTheWaiters`: that
`fifo` lists each queued request once is what makes `GivePermits` wake exactly
as many requests as it takes permits; that permits are zero while somebody is
queued makes the count after a release right; `WaitingAccounted` keeps `waiting`
a natural number when a place is given back, and bounds the line. Most steps
are instances of three lemmas: `MoveKeeps` (a request moves, the line is
untouched), `GiveKeeps` (permits arrive and wake a prefix of the line),
`LineKeeps` (a request leaves or joins it).

`GateServesInOrder` is the refinement `Spec => AdmissionLine`: under `GateInv`
every step of the gate is a step of the abstract line (`TakeIsTake`,
`QueueIsJoin`, `GiveUpIsLeave`, `GiveServes`, `GiveBackIsDone`, `MoreIsGrow`) or
is not seen there (`MoveUnseen`). `GateNeverOverTheLimit`: while nobody has
changed the limit no more requests run than it allows; it needs `Unchanged`,
that no resize finds anything to do then. `GateRefusesOnlyByAFullLine`, hang-ups
and all: a request that is turned away meets `Capacity` places taken by requests in
line and by the lost places of callers who hung up there; that the lost ones count
is a finding.

### The handover

`HandoverTypeCorrect`, `HandoverLeaseIsTheTitle`: for any number of processes,
crashes, `--replace` starts, generations and any deadlines. `HandoverInv` adds to
the property what makes it inductive (`Title`): a successor that waits for the
lease was asked for; a take-over waits for somebody who has been told; who listens has
bound a socket; the pid on file, if it lives, is the holder's.

`HandoverNeverUnheard`: once the first relay listens, only the watchdog's end of a
successor that has waited a whole interval for the lease leaves the port unheard,
whatever the drain's timeout. It assumes `Calm`: one relay started by hand, nothing
killed, `Watch < Grace` (30 s and 90 s in the code), `Build < Ready + Every`. TLC finds
it violated on a small instance when any one of these is dropped.
`HandoverAlwaysHeard` adds `ShortDrains`, that every drain ends before the watchdog
looks, and has no exception: the documented promise as written. The default drain of
ten minutes is *not* below the watchdog's 30 s, which is the finding of the
successor the watchdog kills (`Handover_watchdog`). `HeardInv` says at each stage who
will listen: `First` (the first start is on its way), then `Later`: one process has
the lease and its clock dates its newest successor (`Serves`), so one that comes up
after `READY_TIMEOUT` is announced before the next is spawned, and a process that
retires does so for one the watchdog has just looked at.

### The books

`BooksTypeCorrect`: with `Served`, a request on its way is at a process that has
the store open. `BooksFlushedIsWritten`, from `FlushInv`: a flush's marker
follows everything sent before the flush, in queue and batch.
`BooksChainVerifies` is about any number of processes with the store open, as in
every rotation: no row is hashed over a later one (`ChainsBack`), a row misses the
last one only as the first of a batch of a process that is behind, and a process falls
behind only when another one writes beside it (`BreaksOnlyBehindAnother`). Both hold of
two overlapping processes in TLC, too (by hand, 3,850,574 states without invoices), and
`Books_overlap` shows the fork. With one process at a time the chain
verifies: `OneWriter` says the writer's remembered head is the newest row. `BooksSumIsRight` needs the longest invariant, `SumInv`: no entry
is in two places (`Once`, `OneRow`), a final row comes after its input row
(`InputFirst`), a correction has something to correct in the books or on its way
(`Corrects`, `RowsCorrect`) — which a failed batch or a full channel would undo
if not for `LostRow`, the excuse the property itself names.
`BooksBillsAddUp` and the refinement `BooksDrawLines` (`Spec => BillingLines`)
assume `~Unvoids` (a finding): standing invoices of a key lie end to end
(`EndToEnd`), and each asks for what its rows cost (`Drawn`).

Sums over finite sets are a recursive function over subsets. What the proofs need
of it (`SumDisjoint` and the lemmas around it) is shown without an induction
schema: a set of counterexamples would have a minimal member (`MinimalSubset`).

### The life of a request

`RequestTriesInTurn`: every attempt is at a place of the route whose usable
predecessors have all been asked, to the last retry when the call fails over;
`InTurn` ties the call's counters to the places asked. `RequestEveryWayOut`: the
gate's holders are the requests that run, and a request is over when it has been
finished (`PlacesInv`). `RequestRateHeld`: a process
lets no more than `PerMinute` requests through in any window; the deque holds a
hit for each that passed within the window that ends now, and what has expired
is a prefix of it (`RateInv`). `RequestQuotaKept`: without one of the
excuses a tracker, and the successor's beside it, counts what has been finished
on its day (`QuotaInv`).

### Streams

`StreamRewritten` and `StreamClosed`: for any text in any frames between any blank
lines, any reads, hang-ups and failures, and any list of rules. At every moment the
text so far is what was sent, rewritten in consecutive pieces, and then what is held
back: nothing is lost, doubled or moved (`SentInOrder`), and what closes carried all of
it (`ClosedInOrder`). With one rule or none the pieces do not show, and these are the
properties of the run, `RewrittenWhole` and `ClosedInFull`; with two whose matches
touch they can (a finding), since `safe_cut` looks for the second rule's matches in the
text the first has not rewritten yet. What makes the difference is `CutsCompose`:
cutting a text where `SafeCut` cuts it and rewriting the two parts is rewriting the
whole. The state invariants carry both forms (`Renders`), so another set of rules needs
only `CutsCompose` shown of it (`FewRulesCompose` shows it of one).

For one rule: a match that begins before the cut ends before it (`Behind` pulls the
cut back in front of one that straddles it, and the lookbehind holds back what may
yet become one), and greedy replacement therefore does in the first part what it
does in the whole. Replacing and looking for matches are recursive functions of a
position that call themselves further on, so what holds of them is shown from the
end of the text backwards (`Downward`).

`RewriteInv` is `RewrittenWhole` with the types of what it joins. `ParserInv` is
about bytes: `Layout` says where each frame of the script lies on the wire, and what
has been read, what is in the decoder and what is in the parser's buffer are the wire
from some position on (`Received`), the frames before it dealt with and none
after (`Dealt`). From that an event of the parser is either the next frame or no
frame at all (`EventDeals`), whatever the reads; and at the end of the wire the flush
gives the last frame if its blank line is missing. `ClosingInv` is about the end:
which frames have gone at which stage of the close, and which status may be recorded
with them.

### Answers and bills

The five theorems of `AnswerProofs` hold of any scenes: any body, prompts, transforms,
prices, bands, usage and deltas. `BillInv` says what each stage has computed from the
scene: the body that went out (`Prepare`), its tokens and those the relay put in
(`Count`), what has been heard, and the bill.

- `AnswerPublished`: where no tier, window or typed price speaks, `charge` at the band
  of the effort picks for each field the rate `/v1/models` derives for that band, and
  `published_cost` adds up the same products.
- `AnswerCredit`: arithmetic over `CallerCached`, once every count is a natural number.
- `AnswerBilled`: the tokens of a body are those of its system turns and those of the
  others, in whatever order `Inject` has put them; so taking the difference of two
  system counts is right whenever the other turns are untouched, which is what
  `SameButSystem` compares.
- `AnswerAdvertised`: a parameter listed is no routing key and, for DeepSeek, one it
  takes; dropping, renaming and forcing leave it in, since the listing takes out what
  they take out.
- `AnswerStreamed`: `SaidInv` is what a streaming caller has been told after each delta
  as a function of the deltas so far: with thinking before text, the tag is closed at
  the first delta with text, exactly where `TransformMessage` puts it in a whole
  answer. `HeardInv` is the same for what is collected to be sent whole, and the
  replay's pieces put together are the text. Words are rewritten one by one, so what is
  sent, what is held back and what is to come rewrite to the whole wherever `Cut` cuts.

Both of these modules fold over sequences. `FoldLeft` is a recursive function of the
library; `FoldFacts` shows what it does with an empty sequence and with one element
more, from its definition as a choice among functions that satisfy an equation: that
one exists and that two agree are shown by a least counterexample (`LeastOne`), without
an induction schema. From these come the laws cited: a fold keeps what each step keeps,
and folds of a concatenation compose.

### Settings

`FileAlwaysLoadsHolds`, `SettledHolds`, `OthersUntouchedHolds` (these and the next
section's are in `BesideProofs`). `SettingsInv`: the lock
is held by whoever writes (`Locked`); what is the file, or may become it by a
late rename or a subcommand, loads (`Loads`); what is being written is the
*served* configuration with the patch in it (`Builds`), because whoever publishes
had the lock since it merged, and so an edit leaves other collections alone long
after it read them; how far file and index are ahead of memory at each stage of
a write (`InStep`); and two parts about counters and crashes.

### The dashboard, the tunnels, the workers

`PanelSignInBudget`: after `now` seconds at most `AttemptsGlobal` passwords per
started lockout period have been judged, whatever the addresses. `ThrottleInv`
dates a lockout: it was earned within the budget of the moment it began.
`PanelCodeBudget`: guesses at reset codes are at most `MaxAttempts` per minting
interval and restart; `CodeInv` charges a live code with the guesses it has left.
`PanelResetSignsOut`: inductive with the domain of `pc`. Division by a constant
comes from `DivSpec` and its consequences.

`TunnelOneWanted`, `TunnelHandleIsOfTheLiving`, `TunnelWaitsForAnAnswer` (a stop
never waits for a process that nobody has asked to end: the safety behind
`EveryCallReturns`), from `TunnelInv`: whoever probes has the lock and found
nothing running; a handle belongs to a process that has not reported; what
is watched is what lives.

`WorkersBinaryIsThere`, `WorkersSpansAccounted`, `WorkersCountsWithTheDisk`,
`WorkersOneGeneration`: one invariant per instantiated part (`BinaryInv`: while a
build runs, a binary that was there lies parked; `SpansInv`; `VocabularyInv`: one
task loads, and its find is right or known not to be; `ClaimsInv`: as
long as no claim was late or crossed, a relay whose tunnels are up or about to be, and
whom nobody told to stop, is on file); a step of another
part leaves its variables alone.

### What is assumed

`GateAssumption`, `HandoverAssumption`, `BooksAssumption`, `QuotaAssumption`,
`UpstreamAssumption`, `RequestAssumption`, `StreamAssumption`, `BreaksAssumption`,
`AnswerAssumption`, `SettingsAssumption`, `PanelAssumption`, `TunnelAssumption`,
`WorkersAssumption`: constants have their types, the gate's requests are finitely
many, `Nobody` and `None` are nobody's name, what is booked for a request is at least
its charge, and, for the handover, nobody gets to rotate before it holds the lease.
Of streams: scripts and rules are texts, and a blank line between frames is one that
`find_separator` finds. Of answers: a scene is what the parsers of a body, of the
configuration and of an answer let through (amounts and counts are not negative,
efforts and modes are of their enumerations, and what stands under `tools` when the
body goes out has a number of tokens); any number of scenes may be.
TLC evaluates each in the runs of its module. `BesideProofs` has the assumptions of
`Settings`, `Panel` and `Tunnel` as hypotheses of its theorems, under the name these
modules give them, `Parameters`. Beyond these, only the theorems above that say
so assume anything more: the two of a port that is heard, the two of bills, and, in
their second halves, those of the chain and of streams.

### What is only model-checked

- `EveryWaiterIsServed`, `RetiredInstanceGoes`, `EveryStartSettles`, `HangUpEnds`,
  `EveryCallReturns`, `BroughtBack`: liveness under fairness (and `ENABLED`) is
  out of the prover's reach.
- That a text is rewritten as a whole under several rules: proved of one or none, and
  `Stream_relay` has one. Which sets of several rules satisfy `CutsCompose` is open; not
  all do.

## Where the code and its words differ

`PROJECT.json` has them under `findings`, each with its line and the line it
contradicts. In short:

- *Gate and rotation*: places in line lost to hang-ups; two resizes at once; the
  watchdog that kills a waiting successor; the idle dashboard that ends a drain, and
  the drain that does not see every request;
  the ceiling that queues where its doc says it refuses.
- *Books and limits*: the chain forked by a rotation; un-voided invoices; three
  rows of a request in three batches; counts cleared over midnight and missing
  after a rotation; embeddings past the gate; the late input row.
- *Streams*: timeouts that cut them, rules whose matches touch, frames swallowed
  with their text, text after `finish_reason`; a prefix rewritten in a stream only;
  thinking inline in a stream and in
  a whole; traces of the answer as it came.
- *Configuration*: lost edits of one collection, a dropped handler whose file
  lands later, a mask stored as a secret.
- *Dashboard*: a shared lockout that clean addresses wait out; a sign-in that
  overtakes a reset; a spent code's file; a restart that leaves a tunnel, and one
  that fails and leaves none.
- *Tunnels*: brought back after a stop; a report that takes a newer handle; a
  label that stays at Starting; a claim given up before its tunnels, deleted
  after it was taken over, taken by two relays at once, or by one that retires.
- *Keeper and updater*: a hand-over that ends with nobody, two keepers after a
  TERM, a parked binary that stays parked.
- *Money*: windows over midnight by the wrong weekday, rates clamped and not,
  a tier that moves output and not reasoning, reasoning published at another
  rate than charged, parameters advertised and withheld, a rename that beats a
  forced parameter, `max_completion_tokens` past a cap, a forced `tool_choice`
  billed by the caller's.
- *Beside*: spans sent after the export was switched off, and lost with the
  process; an estimator cached over an installed vocabulary.

## Not modelled

- Components: pacing (it delays what `Stream` does), the request summary and
  logging (wording), the frontend, the installer and the scripts that run once.
- Pure data: most of `config.rs`'s fields, defaults and checks; chat templates,
  images and the estimator's rates; descriptions and dimensions of the listings;
  the dashboard's statistics, lists and previews; schema and migration.
- I/O and text: HTTP headers, CORS, static files, shell commands, git and cargo.
- In modelled parts: token quotas (counted like request quotas); key lookup; which
  key of a pool a request carries; the length of waits; that an attempt which
  timed out may have been served and paid for (nothing in the relay knows);
  `rules_lookbehind`'s cap of 512 bytes (patterns are taken to be shorter);
  invalid UTF-8; invoice numbers and taxes; the calendar of the billing cycle;
  a `rename` that fails when a binary is restored; pids that are used again; the
  memo of counts; the file-lock variant of the lease on other systems.
- Of compositions: `Gate` inside `Handover` (which has its two kinds of requests, not
  its line), and two processes over `Books` and `Request` at once.

## Plan

1. *Done*: `Gate`, `AdmissionLine`; `Handover`; `Books`, `BillingLines`; `Quota`,
   `Upstream`, `Request`; `Stream`; `Settings`; `Panel`; `Tunnel`; `Pricing` to
   `Answer`; `Spans`, `Vocabulary`, `Claims`, `Service`, `Workers`. Proofs of all
   their safety properties.
2. A condition on several rules under which `CutsCompose` holds: for instance that
   no pattern has a character of another's pattern or replacement.
3. The memo of counts; key pools in `Upstream`.
