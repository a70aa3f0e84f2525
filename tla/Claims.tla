------------------------------- MODULE Claims -------------------------------
(***************************************************************************)
(* The claim on the tunnels (rotate.rs claim_tunnel, release_tunnel) and   *)
(* the two ways by which main.rs gives it up.  In a rotation two relays    *)
(* serve for a while; the file run/tunnel.lock says whose cloudflared may  *)
(* run, by the pid in it, and is read and written in separate steps.       *)
(*                                                                         *)
(* The claim is a task of its own: a relay may start its successor, or     *)
(* retire, with its claim still to come, and a successor that came up late *)
(* claims beside the next one.                                             *)
(***************************************************************************)
EXTENDS Naturals, FiniteSets

CONSTANTS
  Relays,       \* the pids of the processes that may ever run
  None,         \* no process, an empty file
  Together,     \* bound: processes alive at once
  MaxKills      \* bound: processes the phone kills

\* What is asked of the constants; Workers assumes it.
Parameters ==
  None \notin Relays /\ Relays \subseteq Nat /\ {Together, MaxKills} \subseteq Nat

VARIABLES
  phase,        \* how far each relay is in its life
  claiming,     \* how far its claim is
  holder,       \* the pid in tunnel.lock
  tunnels,      \* the relays whose cloudflared runs
  late,         \* those that took over past the deadline
  crossed,      \* those whose claim crossed another's, or their own retirement
  quit,         \* those that were told to stop
  killed        \* those the phone killed

vars == <<phase, claiming, holder, tunnels, late, crossed, quit, killed>>

Alive == {p \in Relays : phase[p] \notin {"off", "gone"}}

\* Retiring: stopping, reading, removing.  Told to stop: reading, removing,
\* stopping.  In the end: leaving.
Init ==
  /\ phase = [p \in Relays |-> "off"]
  /\ claiming = [p \in Relays |-> "no"]
  /\ holder \in Relays \union {None}
  /\ tunnels = {}
  /\ late = {} /\ crossed = {} /\ quit = {} /\ killed = {}

Enter(p, to) == phase' = [phase EXCEPT ![p] = to]

-----------------------------------------------------------------------------
(* claim_tunnel *)

\* A relay, or a successor; only one that wants a tunnel claims it.
Start(p) ==
  /\ phase[p] = "off"
  /\ \A q \in Relays : q < p => phase[q] # "off"
  /\ Cardinality(Alive) < Together
  /\ Enter(p, "running")
  /\ \E c \in {"no", "looking"} : claiming' = [claiming EXCEPT ![p] = c]
  /\ UNCHANGED <<holder, tunnels, late, crossed, quit, killed>>

\* held_by_a_live_process, live_owner: a pid that is gone holds nothing.
Held(p) == holder \in Alive \ {p}

\* The loop ends on a claim that is free.
Look(p) ==
  /\ claiming[p] = "looking"
  /\ ~Held(p)
  /\ claiming' = [claiming EXCEPT ![p] = "taking"]
  /\ UNCHANGED <<phase, holder, tunnels, late, crossed, quit, killed>>

\* Or at the deadline: "taking it over anyway".
TakeOver(p) ==
  /\ claiming[p] = "looking"
  /\ Held(p)
  /\ claiming' = [claiming EXCEPT ![p] = "taking"]
  /\ late' = late \union {p}
  /\ UNCHANGED <<phase, holder, tunnels, crossed, quit, killed>>

\* The file is written whatever it says by now.
Take(p) ==
  /\ claiming[p] = "taking"
  /\ holder' = p
  /\ claiming' = [claiming EXCEPT ![p] = "taken"]
  /\ crossed' = IF Held(p) THEN crossed \union {p} ELSE crossed
  /\ UNCHANGED <<phase, tunnels, late, quit, killed>>

\* ensure_running, whether or not the relay retires by now.
BringUp(p) ==
  /\ claiming[p] = "taken"
  /\ claiming' = [claiming EXCEPT ![p] = "done"]
  /\ tunnels' = tunnels \union {p}
  /\ crossed' = IF phase[p] # "running" THEN crossed \union {p} ELSE crossed
  /\ UNCHANGED <<phase, holder, late, quit, killed>>

-----------------------------------------------------------------------------
(* Giving it up. *)

\* Faulty: the claim goes before the tunnels do.
RetireReleasing(p) ==
  /\ phase[p] = "running"
  /\ Alive # {p}
  /\ Enter(p, "reading")
  /\ UNCHANGED <<claiming, holder, tunnels, late, crossed, quit, killed>>

\* rotate_on_a_clock, once a successor is up and this one has drained.
Retire(p) ==
  /\ phase[p] = "running"
  /\ Alive # {p}
  /\ Enter(p, "stopping")
  /\ UNCHANGED <<claiming, holder, tunnels, late, crossed, quit, killed>>

\* SIGTERM, from an operator or from a successor that has waited enough: the
\* claim is released first.
Quit(p) ==
  /\ phase[p] = "running"
  /\ Enter(p, "reading")
  /\ quit' = quit \union {p}
  /\ UNCHANGED <<claiming, holder, tunnels, late, crossed, killed>>

StopTunnels(p) ==
  /\ phase[p] = "stopping"
  /\ tunnels' = tunnels \ {p}
  /\ Enter(p, IF p \in quit THEN "leaving" ELSE "reading")
  /\ UNCHANGED <<claiming, holder, late, crossed, quit, killed>>

Released(p) == IF p \in quit THEN "stopping" ELSE "leaving"

\* release_tunnel: the file is read, and removed if the pid was our own.
ReadClaim(p) ==
  /\ phase[p] = "reading"
  /\ Enter(p, IF holder = p THEN "removing" ELSE Released(p))
  /\ UNCHANGED <<claiming, holder, tunnels, late, crossed, quit, killed>>

RemoveClaim(p) ==
  /\ phase[p] = "removing"
  /\ holder' = None
  /\ Enter(p, Released(p))
  /\ UNCHANGED <<claiming, tunnels, late, crossed, quit, killed>>

\* The end of the process ends its claim.  One that returns from `start`
\* drops its children; one that retires calls exit, and drops nothing.
Leave(p) ==
  /\ phase[p] = "leaving"
  /\ Enter(p, "gone")
  /\ claiming' = [claiming EXCEPT ![p] = "no"]
  /\ tunnels' = IF p \in quit THEN tunnels \ {p} ELSE tunnels
  /\ UNCHANGED <<holder, late, crossed, quit, killed>>

\* External: Android kills the process, and not its cloudflared.
Kill(p) ==
  /\ p \in Alive
  /\ Cardinality(killed) < MaxKills
  /\ Enter(p, "gone")
  /\ claiming' = [claiming EXCEPT ![p] = "no"]
  /\ killed' = killed \union {p}
  /\ UNCHANGED <<holder, tunnels, late, crossed, quit>>

Next ==
  \E p \in Relays :
    \/ Start(p) \/ Look(p) \/ TakeOver(p) \/ Take(p) \/ BringUp(p)
    \/ Retire(p) \/ Quit(p) \/ StopTunnels(p) \/ ReadClaim(p) \/ RemoveClaim(p)
    \/ Leave(p) \/ Kill(p)

Spec == Init /\ [][Next]_vars

-----------------------------------------------------------------------------
(* Properties *)

\* main.rs "One cloudflared generation per relay": as long as nobody took over
\* at its deadline, and no claim crossed another's write or its own relay's
\* retirement, the tunnels of two relays are up together only when one of the
\* two is shutting down or was killed and could not stop its own.
OneGeneration ==
  late \union crossed = {} =>
    \A p, q \in tunnels : p # q => {p, q} \intersect (quit \union killed) # {}
=============================================================================
