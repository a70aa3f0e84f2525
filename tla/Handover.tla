------------------------------ MODULE Handover ------------------------------
(***************************************************************************)
(* Who serves the port: lock.rs (the port lease), rotate.rs (handing over  *)
(* to a successor) and `start` in main.rs, which ties them together.       *)
(*                                                                         *)
(* Every relay process listens with SO_REUSEPORT, so nothing but this      *)
(* protocol keeps two of them from serving at once, or none at all.  The   *)
(* lease is an abstract socket name: the kernel gives it to one process    *)
(* and takes it back when that process dies.  Time is counted in ticks of  *)
(* about fifteen seconds; a deadline that has come must be acted on before *)
(* the next tick.                                                          *)
(***************************************************************************)
EXTENDS Integers, FiniteSets

CONSTANTS
  Procs,        \* the processes that may ever run
  Nobody,       \* no process
  ByHand,       \* those an operator starts; the others are successors
  Replacing,    \* those of ByHand started with --replace
  MaxCrashes,   \* bound: processes the phone kills
  MaxGen,       \* bound: rotations along one line of successors
  Dashboard,    \* does a dashboard without open connections listen too?
  Ready, Grace, Watch, Polite, Firm, \* READY_TIMEOUT, HANDOVER_GRACE, ...
  Drain,        \* the drain timeouts an operator sets, live, in the config
  Every,        \* rotate_minutes
  Build         \* bound: how long AppState::build takes at most

ASSUME HandoverAssumption ==
  /\ Nobody \notin Procs
  /\ ByHand \subseteq Procs
  /\ Replacing \subseteq ByHand
  /\ MaxCrashes \in Nat /\ MaxGen \in Nat
  /\ Dashboard \in BOOLEAN
  /\ {Ready, Grace, Watch, Polite, Firm, Every, Build} \subseteq Nat \ {0}
  /\ Drain \subseteq Nat
  \* Nobody gets to rotate before it holds the lease.
  /\ Watch <= Every \/ Grace + Polite + Firm <= Every

VARIABLES
  pc,           \* where each process is
  lease,        \* the process the kernel gave the lease's name to
  listening,    \* the processes that accept connections on the port
  busy,         \* the processes whose gate counts requests in flight
  unseen,       \* those with requests it does not: in line, or embeddings
  gen,          \* CHTTING_GENERATION of each process
  replace,      \* was the process started with --replace?
  pred,         \* the Handover a successor validated: its predecessor
  target,       \* the process a take-over is asking to stop
  notes,        \* generation -> <<the child the token is for, its parent>>
  markers,      \* generations with a readiness marker
  pidfile,      \* serving.pid
  timer,        \* ticks left until the deadline of what a process waits for
  watch,        \* ticks left until the watchdog looks
  crashes

vars == <<pc, lease, listening, busy, unseen, gen, replace, pred, target, notes,
          markers, pidfile, timer, watch, crashes>>

Gens   == 0..MaxGen
NoNote == <<Nobody, Nobody>>
Off    == {"off", "gone"}
Alive  == {p \in Procs : pc[p] \notin Off}

\* The states a process leaves by a deadline, and those with a handler for
\* SIGTERM: it is installed by the select! at the end of `start`.
Waiting == {"asking", "insisting", "acquiring", "spawning", "draining", "building"}
Handled == {"acquiring", "up", "spawning", "draining"}

TypeOK ==
  /\ pc \in [Procs -> Off \union Waiting \union
               {"starting", "contending", "bound", "up", "stopping"}]
  /\ lease \in Procs \union {Nobody}
  /\ listening \subseteq Procs
  /\ busy \subseteq Procs
  /\ unseen \subseteq Procs
  /\ gen \in [Procs -> Gens]
  /\ replace \subseteq Procs
  /\ pred \in [Procs -> Procs \union {Nobody}]
  /\ target \in [Procs -> Procs \union {Nobody}]
  /\ notes \in [Gens -> (Procs \union {Nobody}) \X (Procs \union {Nobody})]
  /\ markers \subseteq Gens
  /\ pidfile \in Procs \union {Nobody}
  /\ timer \in [Procs -> Nat]
  /\ watch \in [Procs -> 0..Watch]
  /\ crashes \in 0..MaxCrashes

Init ==
  /\ pc = [p \in Procs |-> "off"]
  /\ lease = Nobody
  /\ listening = {}
  /\ busy = {}
  /\ unseen = {}
  /\ gen = [p \in Procs |-> 0]
  /\ replace = {}
  /\ pred = [p \in Procs |-> Nobody]
  /\ target = [p \in Procs |-> Nobody]
  /\ notes = [g \in Gens |-> NoNote]
  /\ markers = {}
  /\ pidfile = Nobody
  /\ timer = [p \in Procs |-> 0]
  /\ watch = [p \in Procs |-> Watch]
  /\ crashes = 0

Wait(p, ticks) == timer' = [timer EXCEPT ![p] = ticks]
Goto(p, to)    == pc' = [pc EXCEPT ![p] = to]

(* p is gone: the kernel closes its sockets and drops its lease. *)
Die(p) ==
  /\ Goto(p, "gone")
  /\ lease' = IF lease = p THEN Nobody ELSE lease
  /\ listening' = listening \ {p}
  /\ busy' = busy \ {p}
  /\ unseen' = unseen \ {p}

files    == <<notes, markers, pidfile>>
spawned  == <<gen, replace, pred>>
requests == <<busy, unseen>>

-----------------------------------------------------------------------------
(* Starting. *)

HandStart(p) ==
  /\ p \in ByHand
  /\ pc[p] = "off"
  /\ Goto(p, "starting")
  /\ replace' = IF p \in Replacing THEN replace \union {p} ELSE replace
  /\ UNCHANGED <<lease, listening, requests, gen, pred, target, files, timer,
                 watch, crashes>>

(* rotate::handover: a successor is one whose note is there, is for it, and *)
(* was left by a process that still lives.  The note is spent by reading.   *)
ReadNote(p) ==
  /\ pc[p] = "starting"
  /\ notes' = IF gen[p] > 0 THEN [notes EXCEPT ![gen[p]] = NoNote] ELSE notes
  /\ IF gen[p] > 0 /\ notes[gen[p]][1] = p /\ notes[gen[p]][2] \in Alive
     THEN /\ pred' = [pred EXCEPT ![p] = notes[gen[p]][2]]
          /\ Goto(p, "building")
          /\ Wait(p, Build)
     ELSE /\ Goto(p, "contending")
          /\ UNCHANGED <<pred, timer>>
  /\ UNCHANGED <<lease, listening, requests, gen, replace, target, markers, pidfile,
                 watch, crashes>>

(* try_hold: a name nobody has is given to whoever binds it. *)
TryHold(p) == lease = Nobody /\ lease' = p

(* hold_the_port: the lease is free. *)
TakeFreePort(p) ==
  /\ pc[p] = "contending"
  /\ TryHold(p)
  /\ Goto(p, "building")
  /\ Wait(p, Build)
  /\ UNCHANGED <<listening, requests, spawned, target, files, watch, crashes>>

\* Faulty: a second copy is warned about and starts.
RefuseOnlyLogs(p) ==
  /\ pc[p] = "contending"
  /\ lease # Nobody
  /\ p \notin replace
  /\ Goto(p, "building")
  /\ Wait(p, Build)
  /\ UNCHANGED <<lease, listening, requests, spawned, target, files, watch, crashes>>

\* Faulty: a second copy waits for its turn.
RefuseWaits(p) ==
  /\ pc[p] = "contending"
  /\ lease # Nobody
  /\ p \notin replace
  /\ UNCHANGED vars

(* hold_the_port: the lease is taken and nobody said --replace. *)
RefuseToStart(p) ==
  /\ pc[p] = "contending"
  /\ lease # Nobody
  /\ p \notin replace
  /\ Die(p)
  /\ UNCHANGED <<spawned, target, files, timer, watch, crashes>>

(* ask_who_holds: the holder says who it is, once answer_with_our_pid has    *)
(* its thread; one that has only just bound may not in time, and then the    *)
(* caller goes by what it knew.                                             *)
Incumbents(known) == {lease} \union (IF pc[lease] = "building" THEN {known} ELSE {})

(* recorded_owner: the pid on file, if there is such a process. *)
RecordedOwner == IF pidfile \in Alive THEN pidfile ELSE Nobody

(* take_over, first half: SIGTERM for the process that is said to hold the  *)
(* lease, if there is one; a process that has no handler yet dies of it.    *)
AskToStop(p, t) ==
  /\ target' = [target EXCEPT ![p] = t]
  /\ \/ /\ t \notin Alive
        /\ Goto(p, "asking")
        /\ UNCHANGED <<lease, listening, requests>>
     \/ /\ t \in Alive /\ pc[t] \in Handled \union {"stopping"}
        /\ pc' = [pc EXCEPT ![p] = "asking", ![t] = "stopping"]
        /\ listening' = listening \ {t}
        /\ UNCHANGED <<lease, requests>>
     \/ /\ t \in Alive /\ pc[t] \notin Handled \union {"stopping"}
        /\ pc' = [pc EXCEPT ![p] = "asking", ![t] = "gone"]
        /\ lease' = IF lease = t THEN Nobody ELSE lease
        /\ listening' = listening \ {t}
        /\ busy' = busy \ {t}
        /\ unseen' = unseen \ {t}
  /\ Wait(p, Polite)
  /\ UNCHANGED <<spawned, files, watch, crashes>>

Replace(p) ==
  /\ pc[p] = "contending"
  /\ p \in replace
  /\ lease # Nobody
  /\ \E t \in Incumbents(RecordedOwner) : AskToStop(p, t)

\* What is left of the rotation interval that began when p announced itself.
RestOfInterval(p) ==
  LET waited == Grace - timer[p]
  IN  IF pc[p] = "acquiring" /\ waited < Every THEN Every - waited ELSE 0

(* acquire_within polls the lease while it waits: a successor that gets it *)
(* is the relay, a --replace start goes on to open its files.              *)
GetLease(p) ==
  /\ pc[p] \in {"acquiring", "asking", "insisting"}
  /\ TryHold(p)
  /\ IF p \in listening
     THEN Goto(p, "up") /\ Wait(p, RestOfInterval(p)) /\ pidfile' = p
     ELSE Goto(p, "building") /\ Wait(p, Build) /\ UNCHANGED pidfile
  /\ UNCHANGED <<listening, requests, spawned, target, notes, markers, watch, crashes>>

(* take_over, second half: SIGKILL for the process that was asked. *)
Insist(p) ==
  /\ pc[p] = "asking"
  /\ timer[p] = 0
  /\ lease # Nobody
  /\ LET t == target[p]
         victims == {t} \intersect Alive
     IN  /\ pc' = [q \in Procs |-> IF q = p THEN "insisting"
                                   ELSE IF q \in victims THEN "gone" ELSE pc[q]]
         /\ lease' = IF lease \in victims THEN Nobody ELSE lease
         /\ listening' = listening \ victims
         /\ busy' = busy \ victims
         /\ unseen' = unseen \ victims
  /\ Wait(p, Firm)
  /\ UNCHANGED <<spawned, target, files, watch, crashes>>

(* Somebody it cannot displace holds the port: this process does not serve *)
(* beside it.                                                              *)
StandDown(p) ==
  /\ pc[p] = "insisting"
  /\ timer[p] = 0
  /\ lease # Nobody
  /\ Die(p)
  /\ UNCHANGED <<spawned, target, files, timer, watch, crashes>>

(* AppState::build, the pidfile unless this is a successor, and the socket. *)
Bind(p) ==
  /\ pc[p] = "building"
  /\ Goto(p, "bound")
  /\ listening' = listening \union {p}
  /\ pidfile' = IF pred[p] = Nobody THEN p ELSE pidfile
  /\ UNCHANGED <<lease, requests, spawned, target, notes, markers, timer, watch,
                 crashes>>

(* announce_ready: nobody waits for a first start. *)
ReadyMarker(p) == {gen[p]} \ {0}

(* sweep: the generations before this one, and every one for a first start. *)
Old(p) == {g \in Gens : g < gen[p] \/ gen[p] = 0}

(* announce_ready, sweep, finish_the_handover and watch_the_lease. *)
Announce(p) ==
  /\ pc[p] = "bound"
  /\ markers' = (markers \union ReadyMarker(p)) \ Old(p)
  /\ notes' = [g \in Gens |-> IF g \in Old(p) THEN NoNote ELSE notes[g]]
  /\ IF pred[p] = Nobody
     THEN Goto(p, "up") /\ Wait(p, Every)
     ELSE Goto(p, "acquiring") /\ Wait(p, Grace)
  /\ watch' = [watch EXCEPT ![p] = Watch]
  /\ UNCHANGED <<lease, listening, requests, spawned, target, pidfile, crashes>>

(* finish_the_handover: the grace period is over, the predecessor is moved *)
(* along.                                                                  *)
MoveAlong(p) ==
  /\ pc[p] = "acquiring"
  /\ timer[p] = 0
  /\ lease # Nobody
  /\ \E t \in Incumbents(pred[p]) : AskToStop(p, t)

-----------------------------------------------------------------------------
(* The watchdog, every thirty seconds: a process that listens without the  *)
(* lease ends.                                                             *)
Listens(p) == pc[p] \in Handled \union {"asking", "insisting"} /\ p \in listening

Watchdog(p) ==
  /\ Listens(p)
  /\ watch[p] = 0
  /\ IF lease = p
     THEN /\ watch' = [watch EXCEPT ![p] = Watch]
          /\ UNCHANGED <<pc, lease, listening, requests>>
     ELSE /\ Die(p)
          /\ UNCHANGED watch
  /\ UNCHANGED <<spawned, target, files, timer, crashes>>

-----------------------------------------------------------------------------
(* Rotating. *)

(* spawn_successor: the marker of an earlier attempt is removed, the token *)
(* is written down, the child starts with this process's own arguments.    *)
SpawnSuccessor(p, child) ==
  /\ pc[p] = "up"
  /\ timer[p] = 0
  /\ child \in Procs \ ByHand
  /\ pc[child] = "off"
  /\ gen[p] < MaxGen
  /\ LET g == gen[p] + 1
     IN  /\ markers' = markers \ {g}
         /\ notes' = [notes EXCEPT ![g] = <<child, p>>]
         /\ gen' = [gen EXCEPT ![child] = g]
  /\ replace' = IF p \in replace THEN replace \union {child} ELSE replace
  /\ pc' = [pc EXCEPT ![p] = "spawning", ![child] = "starting"]
  /\ Wait(p, Ready)
  /\ UNCHANGED <<lease, listening, requests, pred, target, pidfile, watch, crashes>>

\* Faulty: the predecessor retires as soon as it has spawned its successor.
RetireUnseen(p) ==
  /\ pc[p] = "spawning"
  /\ Goto(p, "draining")
  /\ listening' = listening \ {p}
  /\ \E d \in Drain : Wait(p, d)
  /\ UNCHANGED <<lease, requests, spawned, target, files, watch, crashes>>

(* The marker is there: `retire.send(true)`, and both servers stop         *)
(* accepting.                                                              *)
Retire(p) ==
  /\ pc[p] = "spawning"
  /\ gen[p] + 1 \in markers
  /\ Goto(p, "draining")
  /\ listening' = listening \ {p}
  /\ \E d \in Drain : Wait(p, d)
  /\ UNCHANGED <<lease, requests, spawned, target, files, watch, crashes>>

(* READY_TIMEOUT: the rotation is skipped, the child is left to itself. *)
SkipRotation(p) ==
  /\ pc[p] = "spawning"
  /\ timer[p] = 0
  /\ Goto(p, "up")
  /\ Wait(p, Every)
  /\ UNCHANGED <<lease, listening, requests, spawned, target, files, watch, crashes>>

(* release_serving: a note that names somebody else stays. *)
Released(p) == IF pidfile = p THEN Nobody ELSE pidfile

(* drain: nobody the gate counts is in flight, or the deadline. *)
DrainOver(p) == p \notin busy \/ timer[p] = 0

\* Faulty: only a drain that ran dry ends the process.
DrainedForever(p) ==
  /\ pc[p] = "draining"
  /\ p \notin busy
  /\ pidfile' = Released(p)
  /\ Die(p)
  /\ UNCHANGED <<spawned, target, notes, markers, timer, watch, crashes>>

(* drain returns, the pidfile is given up if it is still ours, exit(0). *)
Drained(p) ==
  /\ pc[p] = "draining"
  /\ DrainOver(p)
  /\ pidfile' = Released(p)
  /\ Die(p)
  /\ UNCHANGED <<spawned, target, notes, markers, timer, watch, crashes>>

(* The select! in `start` also waits for the two servers: on retirement a  *)
(* dashboard nobody is connected to returns at once, and the relay returns *)
(* once its connections are closed.  Either way `main` returns.            *)
MainReturns(p) ==
  /\ pc[p] = "draining"
  /\ Dashboard \/ p \notin busy \union unseen
  /\ Die(p)
  /\ UNCHANGED <<spawned, target, files, timer, watch, crashes>>

(* The rest of a SIGTERM's tidy exit. *)
Stopped(p) ==
  /\ pc[p] = "stopping"
  /\ pidfile' = Released(p)
  /\ Die(p)
  /\ UNCHANGED <<spawned, target, notes, markers, timer, watch, crashes>>

-----------------------------------------------------------------------------
(* The clients, the phone and the clock. *)

(* A new request is not yet one the gate counts: it waits in line, and an    *)
(* embedding never takes a ticket at all.                                   *)
Accept(p) ==
  /\ p \in listening \ unseen
  /\ unseen' = unseen \union {p}
  /\ UNCHANGED <<pc, lease, listening, busy, spawned, target, files, timer,
                 watch, crashes>>

(* A request gets its place, whether or not p still accepts new ones. *)
Admit(p) ==
  /\ p \in unseen
  /\ busy' = busy \union {p}
  /\ unseen' \in {unseen, unseen \ {p}}
  /\ UNCHANGED <<pc, lease, listening, spawned, target, files, timer, watch, crashes>>

(* The last request of either kind is answered. *)
Answer(p) ==
  /\ \/ p \in busy /\ busy' = busy \ {p} /\ UNCHANGED unseen
     \/ p \in unseen /\ unseen' = unseen \ {p} /\ UNCHANGED busy
  /\ UNCHANGED <<pc, lease, listening, spawned, target, files, timer, watch, crashes>>

Crash(p) ==
  /\ p \in Alive
  /\ crashes < MaxCrashes
  /\ crashes' = crashes + 1
  /\ Die(p)
  /\ UNCHANGED <<spawned, target, files, timer, watch>>

(* Deadlines, what is polled several times a second, and the steps of a     *)
(* start that only touch small files; it is AppState::build, with           *)
(* its vocabularies, that may take its time, and a drain that looks between *)
(* two requests only by chance.                                             *)
Due(p) == \/ pc[p] \in Waiting /\ timer[p] = 0
          \/ pc[p] \in {"starting", "contending", "bound"}
          \/ Listens(p) /\ watch[p] = 0
          \/ pc[p] = "spawning" /\ gen[p] + 1 \in markers
          \/ pc[p] \in {"acquiring", "asking", "insisting"} /\ lease = Nobody
          \/ pc[p] = "draining" /\ p \notin busy \union unseen

Tick ==
  /\ Alive # {}
  /\ \A p \in Procs : ~Due(p)
  /\ timer' = [p \in Procs |-> IF timer[p] > 0 THEN timer[p] - 1 ELSE 0]
  /\ watch' = [p \in Procs |-> IF Listens(p) THEN watch[p] - 1 ELSE Watch]
  /\ UNCHANGED <<pc, lease, listening, requests, spawned, target, files, crashes>>

Start(p) ==
  \/ ReadNote(p) \/ TakeFreePort(p) \/ RefuseToStart(p) \/ Replace(p)
  \/ GetLease(p) \/ Insist(p) \/ StandDown(p) \/ Bind(p) \/ Announce(p)
  \/ MoveAlong(p)

Rotate(p) == Retire(p) \/ SkipRotation(p) \/ Drained(p) \/ MainReturns(p) \/ Stopped(p)

Next ==
  \/ Tick
  \/ \E p \in Procs :
       \/ HandStart(p) \/ Start(p) \/ Watchdog(p) \/ Rotate(p)
       \/ (\E child \in Procs : SpawnSuccessor(p, child))
       \/ Accept(p) \/ Admit(p) \/ Answer(p) \/ Crash(p)

Spec == Init /\ [][Next]_vars

(* Time passes and every process takes the step it is up to; nobody owes a *)
(* start, a rotation, a request or an answer.                              *)
Fairness ==
  /\ WF_vars(Tick)
  /\ \A p \in Procs : WF_vars(Start(p)) /\ WF_vars(Watchdog(p)) /\ WF_vars(Rotate(p))

FairSpec == Spec /\ Fairness

-----------------------------------------------------------------------------
(* Whoever listens without the lease is a successor its predecessor asked  *)
(* for: "the only place in the program where a process serves without      *)
(* holding it".                                                            *)
OnlySuccessorsOverlap ==
  \A p \in listening : lease # p => pred[p] # Nobody

(* A process without a handover opens its files and its socket only with   *)
(* the lease in hand.                                                      *)
EntitledBeforeBuilding ==
  \A p \in Procs : pc[p] \in {"building", "bound", "up"} /\ pred[p] = Nobody
                     => lease = p

(* "asks the right process": the pid on file, if it is alive, holds the    *)
(* lease.                                                                  *)
PidfileNamesTheHolder == pidfile \in Alive => lease = pidfile

(* The lease is the one title to the port: whoever builds, listens or is   *)
(* on file as the one that serves holds it, or was asked for by a process  *)
(* that did.                                                               *)
LeaseIsTheTitle ==
  OnlySuccessorsOverlap /\ EntitledBeforeBuilding /\ PidfileNamesTheHolder

(* "no connection is refused, because at every moment at least one process *)
(* is listening", once the first one does: nobody else accepts only when   *)
(* the watchdog ends a successor that has waited a whole interval of it    *)
(* for the lease of a predecessor that drains on.                          *)
NeverUnheard ==
  [][listening # {} /\ listening' = {}
       => \E h \in listening : pc[h] = "acquiring" /\ watch[h] = 0 /\ lease # h]_vars

(* The same as it is written, with no exception.  With a drain that         *)
(* outlasts the watchdog's interval it is false.                            *)
AlwaysHeard == [][listening # {} => listening' # {}]_vars

(* "finishes the requests it already has", or the drain's deadline came.   *)
(* False: the drain asks the gate, which does not count them all.          *)
RetiresWhenDrained ==
  [][\A p \in Procs : pc[p] = "draining" /\ pc'[p] = "gone" /\ timer[p] > 0
       => p \notin busy \union unseen]_vars

(* A retired instance is gone in the end, whatever its clients do. *)
RetiredInstanceGoes == \A p \in Procs : pc[p] = "draining" ~> pc[p] = "gone"

(* "There is no third answer": every start ends up holding the port or     *)
(* ends, a successor of a stuck predecessor included.                      *)
EveryStartSettles ==
  \A p \in Procs : pc[p] = "starting" ~> lease = p \/ pc[p] = "gone"
=============================================================================
