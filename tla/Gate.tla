-------------------------------- MODULE Gate --------------------------------
(***************************************************************************)
(* Admission control: relay/gate.rs and its call sites in                  *)
(* relay/handler.rs.  A request snapshots the configuration, resizes the   *)
(* gate to it, asks for a slot, waits in a bounded line for one, runs, and *)
(* gives the slot back.                                                    *)
(*                                                                         *)
(* Every atomic the code touches separately is a step of its own: two      *)
(* requests run on two tokio threads and interleave between any two of     *)
(* them.  tokio's semaphore is external; it is modelled as its callers     *)
(* rely on it: `add_permits` hands permits to waiters in arrival order     *)
(* under its lock, `forget_permits` takes back free permits only, and      *)
(* dropping an `acquire` future leaves the line or returns the permit.     *)
(***************************************************************************)
EXTENDS Integers, FiniteSets, SequencesExt

CONSTANTS
  Requests,      \* the request slots of the model: each runs many requests
  Limits,        \* values the operator sets max_concurrent_requests to
  Capacity,      \* queue_capacity
  HangUps,       \* can a client hang up while its request waits in line?
  Deadline,      \* is the line's deadline, queue_timeout_ms, ever reached?
  MaxReconfigs   \* bound: how often the operator changes the limit

ASSUME GateAssumption ==
  /\ Limits \subseteq Nat
  /\ Capacity \in Nat
  /\ HangUps \in BOOLEAN
  /\ Deadline \in BOOLEAN
  /\ MaxReconfigs \in Nat
  /\ IsFiniteSet(Requests)

VARIABLES
  configured,    \* server.max_concurrent_requests of the current Config
  reconfigs,     \* how often `configured` was changed
  pc,            \* where each request is
  lim,           \* the limit in the Config snapshot each request took
  eff,           \* the value of `effective` a resize in progress works with
  permits,       \* free permits of the semaphore
  fifo,          \* requests waiting in the semaphore, oldest first
  effective,     \* Gate.effective
  waiting,       \* Gate.waiting
  inFlight,      \* Gate.in_flight
  minted,        \* history: permits created less permits forgotten
  leaked         \* history: places whose request was dropped in line

semaphore == <<permits, fifo>>
vars == <<configured, reconfigs, pc, lim, eff, permits, fifo, effective,
          waiting, inFlight, minted, leaked>>

AtLeastOne(n) == IF n < 1 THEN 1 ELSE n
Smaller(a, b) == IF a < b THEN a ELSE b

States == {"idle", "resize", "resizing", "store", "admit", "reserve",
           "overfull", "acquire", "queued", "woken", "expired", "got",
           "running", "releasing"}

\* The requests that own a permit, and those counted into `waiting`: the
\* latter have a place in line, or find out that there was none.
Holding == {"woken", "got", "running", "releasing"}
Placed  == {"acquire", "queued", "woken", "expired"}

At(C)   == {r \in Requests : pc[r] \in C}
Queued  == At({"queued"})
Holders == At(Holding)
InLine  == At(Placed \union {"overfull"})

TypeOK ==
  /\ configured \in Limits
  /\ reconfigs \in 0..MaxReconfigs
  /\ pc \in [Requests -> States]
  /\ lim \in [Requests -> Nat]
  /\ eff \in [Requests -> Nat]
  /\ permits \in Nat
  /\ fifo \in Seq(Requests)
  /\ effective \in Nat
  /\ waiting \in Nat
  /\ inFlight \in Nat
  /\ minted \in Nat
  /\ leaked \in Nat

Init ==
  /\ configured \in Limits
  /\ reconfigs = 0
  /\ pc = [r \in Requests |-> "idle"]
  /\ lim = [r \in Requests |-> 0]
  /\ eff = [r \in Requests |-> 0]
  /\ permits = AtLeastOne(configured)
  /\ fifo = <<>>
  /\ effective = AtLeastOne(configured)
  /\ waiting = 0
  /\ inFlight = 0
  /\ minted = AtLeastOne(configured)
  /\ leaked = 0

Goto(r, to) == pc' = [pc EXCEPT ![r] = to]

(***************************************************************************)
(* Definitions marked "faulty" are not part of the specification: each is  *)
(* a plausible mistake in the definition that follows it, and shows that a *)
(* property below can tell the difference.                                 *)
(***************************************************************************)

\* Faulty: new permits become free without waking anybody.
GivePermitsUnheard(n, r, to) ==
  permits' = permits + n /\ Goto(r, to) /\ UNCHANGED fifo

\* Faulty: the newest waiters are woken first.
GivePermitsNewestFirst(n, r, to) ==
  LET k == Smaller(n, Len(fifo))
  IN  /\ permits' = permits + (n - k)
      /\ fifo' = SubSeq(fifo, 1, Len(fifo) - k)
      /\ pc' = [q \in Requests |->
                  IF q = r THEN to
                  ELSE IF \E i \in (Len(fifo) - k + 1)..Len(fifo) : fifo[i] = q
                       THEN "woken"
                  ELSE pc[q]]

(* The semaphore receives n permits while request r moves to `to`: the     *)
(* oldest waiters take them first, what is left over becomes free.         *)
GivePermits(n, r, to) ==
  LET k == Smaller(n, Len(fifo))
  IN  /\ permits' = permits + (n - k)
      /\ fifo' = SubSeq(fifo, k + 1, Len(fifo))
      /\ pc' = [q \in Requests |->
                  IF q = r THEN to
                  ELSE IF \E i \in 1..k : fifo[i] = q THEN "woken"
                  ELSE pc[q]]

(* The waiter r leaves the semaphore's line. *)
LeaveFifo(r) ==
  \E i \in 1..Len(fifo) : fifo[i] = r /\ fifo' = RemoveAt(fifo, i)

-----------------------------------------------------------------------------
(* The operator saves another limit: it takes effect with the next request *)
(* that snapshots the Config.                                              *)
Reconfigure ==
  /\ reconfigs < MaxReconfigs
  /\ reconfigs' = reconfigs + 1
  /\ configured' \in Limits \ {configured}
  /\ UNCHANGED <<pc, lim, eff, semaphore, effective, waiting, inFlight,
                 minted, leaked>>

Arrive(r) ==
  /\ pc[r] = "idle"
  /\ Goto(r, "resize")
  /\ lim' = [lim EXCEPT ![r] = AtLeastOne(configured)]
  /\ UNCHANGED <<configured, reconfigs, eff, semaphore, effective, waiting,
                 inFlight, minted, leaked>>

(* resize: `current = effective.load()`, and nothing to do when equal. *)
ResizeLoad(r) ==
  /\ pc[r] = "resize"
  /\ eff' = [eff EXCEPT ![r] = effective]
  /\ Goto(r, IF lim[r] = effective THEN "admit" ELSE "resizing")
  /\ UNCHANGED <<configured, reconfigs, lim, semaphore, effective, waiting,
                 inFlight, minted, leaked>>

(* `add_permits(target - current)` *)
ResizeGrow(r) ==
  /\ pc[r] = "resizing"
  /\ lim[r] > eff[r]
  /\ GivePermits(lim[r] - eff[r], r, "store")
  /\ minted' = minted + (lim[r] - eff[r])
  /\ eff' = [eff EXCEPT ![r] = lim[r]]
  /\ UNCHANGED <<configured, reconfigs, lim, effective, waiting, inFlight, leaked>>

(* `removed = forget_permits(current - target)`: only free permits go. *)
ResizeShrink(r) ==
  /\ pc[r] = "resizing"
  /\ lim[r] < eff[r]
  /\ LET removed == Smaller(eff[r] - lim[r], permits)
     IN  /\ permits' = permits - removed
         /\ minted' = minted - removed
         /\ eff' = [eff EXCEPT ![r] = eff[r] - removed]
  /\ Goto(r, "store")
  /\ UNCHANGED <<configured, reconfigs, lim, fifo, effective, waiting, inFlight,
                 leaked>>

(* `effective.store(...)` *)
ResizeStore(r) ==
  /\ pc[r] = "store"
  /\ effective' = eff[r]
  /\ Goto(r, "admit")
  /\ UNCHANGED <<configured, reconfigs, lim, eff, semaphore, waiting, inFlight,
                 minted, leaked>>

(* admit: `try_acquire_owned` *)
TryAcquire(r) ==
  /\ pc[r] = "admit"
  /\ permits > 0
  /\ permits' = permits - 1
  /\ Goto(r, "got")
  /\ UNCHANGED <<configured, reconfigs, lim, eff, fifo, effective, waiting,
                 inFlight, minted, leaked>>

TryAcquireFails(r) ==
  /\ pc[r] = "admit"
  /\ permits = 0
  /\ Goto(r, "reserve")
  /\ UNCHANGED <<configured, reconfigs, lim, eff, semaphore, effective, waiting,
                 inFlight, minted, leaked>>

(* `place = waiting.fetch_add(1) + 1`, compared with the capacity. *)
Reserve(r) ==
  /\ pc[r] = "reserve"
  /\ waiting' = waiting + 1
  /\ Goto(r, IF waiting + 1 > Capacity THEN "overfull" ELSE "acquire")
  /\ UNCHANGED <<configured, reconfigs, lim, eff, semaphore, effective, inFlight,
                 minted, leaked>>

(* `waiting.fetch_sub(1)` and QueueFull: the caller gets its 503. *)
Refuse(r) ==
  /\ pc[r] = "overfull"
  /\ waiting' = waiting - 1
  /\ Goto(r, "idle")
  /\ UNCHANGED <<configured, reconfigs, lim, eff, semaphore, effective, inFlight,
                 minted, leaked>>

(* The first poll of `acquire_owned`: a permit, or the end of the line. *)
Acquire(r) ==
  /\ pc[r] = "acquire"
  /\ IF permits > 0
     THEN /\ permits' = permits - 1
          /\ Goto(r, "woken")
          /\ UNCHANGED fifo
     ELSE /\ fifo' = Append(fifo, r)
          /\ Goto(r, "queued")
          /\ UNCHANGED permits
  /\ UNCHANGED <<configured, reconfigs, lim, eff, effective, waiting, inFlight,
                 minted, leaked>>

(* `timeout(wait, ...)` elapses before a permit was assigned. *)
Timeout(r) ==
  /\ Deadline
  /\ pc[r] = "queued"
  /\ LeaveFifo(r)
  /\ Goto(r, "expired")
  /\ UNCHANGED <<configured, reconfigs, lim, eff, permits, effective, waiting,
                 inFlight, minted, leaked>>

(* `waiting.fetch_sub(1)` after the await, and TimedOut. *)
Expire(r) ==
  /\ pc[r] = "expired"
  /\ waiting' = waiting - 1
  /\ Goto(r, "idle")
  /\ UNCHANGED <<configured, reconfigs, lim, eff, semaphore, effective, inFlight,
                 minted, leaked>>

(* `waiting.fetch_sub(1)` after the await, with a permit. *)
Proceed(r) ==
  /\ pc[r] = "woken"
  /\ waiting' = waiting - 1
  /\ Goto(r, "got")
  /\ UNCHANGED <<configured, reconfigs, lim, eff, semaphore, effective, inFlight,
                 minted, leaked>>

(* `in_flight.fetch_add(1)`: the Ticket exists. *)
Begin(r) ==
  /\ pc[r] = "got"
  /\ inFlight' = inFlight + 1
  /\ Goto(r, "running")
  /\ UNCHANGED <<configured, reconfigs, lim, eff, semaphore, effective, waiting,
                 minted, leaked>>

(* Ticket::drop: `in_flight.fetch_sub(1)`, then the permit field drops. *)
Finish(r) ==
  /\ pc[r] = "running"
  /\ inFlight' = inFlight - 1
  /\ Goto(r, "releasing")
  /\ UNCHANGED <<configured, reconfigs, lim, eff, semaphore, effective, waiting,
                 minted, leaked>>

Release(r) ==
  /\ pc[r] = "releasing"
  /\ GivePermits(1, r, "idle")
  /\ UNCHANGED <<configured, reconfigs, lim, eff, effective, waiting, inFlight,
                 minted, leaked>>

\* Faulty: a permit assigned to a dropped request is gone.
HangUpLosesPermit(r) ==
  /\ HangUps
  /\ leaked' = leaked + 1
  /\ \/ pc[r] = "queued" /\ LeaveFifo(r)
     \/ pc[r] = "woken" /\ UNCHANGED fifo
  /\ Goto(r, "idle")
  /\ UNCHANGED <<configured, reconfigs, lim, eff, permits, effective, waiting,
                 inFlight, minted>>

(* The client hangs up and the handler's future is dropped at the await:   *)
(* the semaphore forgets the waiter or takes its permit back, and nothing  *)
(* after the await runs.                                                   *)
HangUp(r) ==
  /\ HangUps
  /\ leaked' = leaked + 1
  /\ \/ /\ pc[r] = "queued"
        /\ LeaveFifo(r)
        /\ Goto(r, "idle")
        /\ UNCHANGED permits
     \/ /\ pc[r] = "woken"
        /\ GivePermits(1, r, "idle")
  /\ UNCHANGED <<configured, reconfigs, lim, eff, effective, waiting, inFlight,
                 minted>>

Resize(r) == ResizeLoad(r) \/ ResizeGrow(r) \/ ResizeShrink(r) \/ ResizeStore(r)
Admit(r) ==
  \/ TryAcquire(r) \/ TryAcquireFails(r) \/ Reserve(r) \/ Refuse(r)
  \/ Acquire(r) \/ Timeout(r) \/ Expire(r) \/ Proceed(r) \/ Begin(r)
Drop(r) == Finish(r) \/ Release(r)

Next ==
  \/ Reconfigure
  \/ \E r \in Requests : Arrive(r) \/ Resize(r) \/ Admit(r) \/ Drop(r) \/ HangUp(r)

Spec == Init /\ [][Next]_vars

(* The runtime polls every ready task, every ticket is dropped in the end  *)
(* (the upstream call has its own deadline) and a request in line has a    *)
(* deadline of its own.  Arrivals, hang-ups and reconfigurations owe       *)
(* nothing to anyone.                                                      *)
Fairness == \A r \in Requests : WF_vars(Resize(r) \/ Admit(r)) /\ WF_vars(Drop(r))
FairSpec == Spec /\ Fairness

-----------------------------------------------------------------------------
(* No permit is lost or made up on any path out of the line (a timeout, a  *)
(* hang-up before or after the permit arrived, a refusal) or out of a      *)
(* request: what was created is free or held by exactly one request.       *)
PermitsAccounted == permits + Cardinality(Holders) = minted

(* The line is exactly the requests that wait, nobody twice. *)
LineIsTheWaiters ==
  /\ ToSet(fifo) = Queued
  /\ \A i, j \in DOMAIN fifo : fifo[i] = fifo[j] => i = j

(* No lost wake-up: a request waits only while no permit is free, so a     *)
(* newcomer's `try_acquire` cannot overtake the line either.               *)
NoIdleSlotWhileQueued == Queued # {} => permits = 0

(* "the bound holds even when a hundred callers arrive in the same         *)
(* millisecond": at most `Capacity` places are ever given out, the lost    *)
(* ones included.                                                          *)
LineBounded == Cardinality(At(Placed)) + leaked <= Capacity

(* `waiting` counts the line, plus one place for every request that was    *)
(* dropped in it: it never drops below the real line.                      *)
WaitingAccounted == waiting = Cardinality(InLine) + leaked

(* `in_flight`, which the drain reads, is the number of live tickets. *)
InFlightExact == inFlight = Cardinality(At({"running"}))

(* The books of the gate agree with one another: permits, places in line   *)
(* and tickets are each somebody's, on every path in, out of and around    *)
(* the line, whatever is resized, hangs up or expires meanwhile.           *)
GateAccounts == PermitsAccounted /\ LineBounded /\ WaitingAccounted /\ InFlightExact

(* "The line is already as long as it is allowed to get": a request turned *)
(* away met a line of at least `Capacity` requests.                        *)
RefusedOnlyByAFullLine ==
  [][\A r \in Requests : pc[r] = "reserve" /\ pc'[r] = "overfull"
       => Cardinality(InLine) >= Capacity]_vars

(* What holds of a refusal whoever hangs up: the requests in line and the  *)
(* places of those dropped in it are together at least `Capacity`.         *)
RefusedByTheLineOrTheLost ==
  [][\A r \in Requests : pc[r] = "reserve" /\ pc'[r] = "overfull"
       => Cardinality(InLine) + leaked >= Capacity]_vars

(* "Requests over that number wait in line": while nobody changes the      *)
(* limit, no more requests run than the limit allows.                      *)
NeverOverTheLimit ==
  (reconfigs = 0) => Cardinality(Holders) <= AtLeastOne(configured)

(* The gate is a bounded first-come-first-served line for its slots,       *)
(* whatever hangs up, expires or is resized meanwhile.                     *)
Promise == INSTANCE AdmissionLine WITH
  Callers <- Requests, Places <- Capacity,
  free <- permits, running <- Holders, line <- fifo
ServesInOrder == Promise!Spec

(* "nobody starves behind a burst of newcomers": with nobody hanging up    *)
(* and no deadline to fall back on, every request in line gets its slot.   *)
EveryWaiterIsServed == \A r \in Requests : pc[r] = "queued" ~> pc[r] = "got"
=============================================================================
