------------------------------- MODULE Tunnel -------------------------------
(***************************************************************************)
(* TunnelManager in tunnel.rs: one cloudflared, started, stopped and       *)
(* restarted from the dashboard, watched by a supervisor task that brings  *)
(* it back, and kept up by ensure_running.                                 *)
(*                                                                         *)
(* `running` is an async mutex around the handle of the connector that is  *)
(* up; `stopping` an atomic flag beside it.  A handle is the sender that   *)
(* asks a supervisor to end its process: taking it out of `running` and    *)
(* dropping it asks just as well as sending does.  Any task may be where   *)
(* it waits while the others go on.                                        *)
(***************************************************************************)
EXTENDS TunnelPromise, Naturals, FiniteSets

CONSTANTS
  Callers,      \* requests of the dashboard
  Ensure,       \* the task of ensure_running
  Procs,        \* the connectors that may run at once, each with its supervisor
  None,
  AutoStart,    \* tunnel.autoStart
  MaxCalls, MaxMishaps   \* bounds: calls made, and things that go wrong

Parameters ==
  /\ None \notin Callers \union Procs \union {Ensure}
  /\ Callers \intersect Procs = {}
  /\ Ensure \notin Callers \union Procs
  /\ AutoStart \in BOOLEAN
  /\ {MaxCalls, MaxMishaps} \subseteq Nat

ASSUME TunnelAssumption == Parameters

VARIABLES
  pc,           \* where each task is
  lock,         \* the task that holds `running` across an await
  stopping,
  took,         \* the handle each stop took
  again,        \* the callers that start once they have stopped: restart
  spent

vars == <<pc, lock, running, stopping, alive, asked, reaped, took, again,
          spent>>

Tasks == Callers \union Procs \union {Ensure}
procs == <<alive, asked, reaped>>
calls == <<took, again>>

Init ==
  /\ pc = [t \in Tasks |-> IF t = Ensure THEN "looking"
                           ELSE IF t \in Callers THEN "idle" ELSE "unborn"]
  /\ lock = None
  /\ running = None
  /\ stopping = FALSE
  /\ alive = {} /\ asked = {} /\ reaped = {}
  /\ took = [c \in Callers |-> None]
  /\ again = {}
  /\ spent = [calls |-> 0, mishaps |-> 0]

Goto(t, to) == pc' = [pc EXCEPT ![t] = to]

Spend(what, most) ==
  /\ spent[what] < most
  /\ spent' = [spent EXCEPT ![what] = @ + 1]

\* What a task does with the answer of `start`.
Then(t, started) ==
  CASE t \in Callers -> "idle"
    [] t = Ensure    -> IF started THEN "off" ELSE "sleeping"
    [] t \in Procs   -> "over"

-----------------------------------------------------------------------------
(* start *)

\* Faulty: nobody looks whether a connector is up already.
StartBlindly(t) ==
  /\ pc[t] = "starting"
  /\ lock = None
  /\ lock' = t
  /\ Goto(t, "probing")
  /\ UNCHANGED <<running, stopping, procs, calls, spent>>

(* The lock, and whether there is anything to do. *)
Start(t) ==
  /\ pc[t] = "starting"
  /\ lock = None
  /\ IF running # None
     THEN Goto(t, Then(t, TRUE)) /\ UNCHANGED lock
     ELSE Goto(t, "probing") /\ lock' = t
  /\ UNCHANGED <<running, stopping, procs, calls, spent>>

(* The mode is off, the panel has no password to be published with, or      *)
(* cloudflared does not answer `--version`.                                 *)
Refuse(t) ==
  /\ pc[t] = "probing"
  /\ Spend("mishaps", MaxMishaps)
  /\ lock' = None
  /\ Goto(t, Then(t, FALSE))
  /\ UNCHANGED <<running, stopping, procs, calls>>

(* It does answer, but cannot be spawned. *)
SpawnFails(t) ==
  /\ pc[t] = "probing"
  /\ Spend("mishaps", MaxMishaps)
  /\ stopping' = FALSE
  /\ lock' = None
  /\ Goto(t, Then(t, FALSE))
  /\ UNCHANGED <<running, procs, calls>>

\* A connector that has been and gone may have its name given to another.
Free(p) ==
  /\ pc[p] \in {"unborn", "over"}
  /\ p \notin {took[c] : c \in Callers}

(* The process, its output, its handle and its supervisor. *)
Spawn(t, p) ==
  /\ pc[t] = "probing"
  /\ Free(p)
  /\ stopping' = FALSE
  /\ alive' = alive \union {p}
  /\ running' = p
  /\ lock' = None
  /\ asked' = asked \ {p}
  /\ reaped' = reaped \ {p}
  /\ pc' = [pc EXCEPT ![p] = "watching", ![t] = Then(t, TRUE)]
  /\ UNCHANGED <<calls, spent>>

-----------------------------------------------------------------------------
(* supervise *)

\* The process goes on its own.
Exit(p) ==
  /\ pc[p] = "watching"
  /\ Spend("mishaps", MaxMishaps)
  /\ alive' = alive \ {p}
  /\ Goto(p, "died")
  /\ UNCHANGED <<lock, running, stopping, asked, reaped, calls>>

(* The supervisor is asked to end it: it kills and waits. *)
Kill(p) ==
  /\ pc[p] = "watching"
  /\ p \in asked
  /\ alive' = alive \ {p}
  /\ Goto(p, "killed")
  /\ UNCHANGED <<lock, running, stopping, asked, reaped, calls, spent>>

\* Whoever's handle is in `running` is asked by its being dropped.
Dropped == IF running = None THEN asked ELSE asked \union {running}

\* Faulty: the handle in `running` is left where it is.
ReportLeaving(p) ==
  /\ pc[p] \in {"died", "killed"}
  /\ lock = None
  /\ reaped' = reaped \union {p}
  /\ IF pc[p] = "killed" \/ stopping
     THEN Goto(p, "over")
     ELSE Goto(p, IF AutoStart THEN "backoff" ELSE "over")
  /\ UNCHANGED <<lock, running, asked, stopping, alive, calls, spent>>

(* Whatever handle is in `running` by now is dropped, whoever waits is told *)
(* and the supervisor decides whether to bring the connector back.          *)
Report(p) ==
  /\ pc[p] \in {"died", "killed"}
  /\ lock = None
  /\ running' = None
  /\ asked' = Dropped
  /\ reaped' = reaped \union {p}
  /\ IF pc[p] = "killed" \/ stopping
     THEN Goto(p, "over")
     ELSE Goto(p, IF AutoStart THEN "backoff" ELSE "over")
  /\ UNCHANGED <<lock, stopping, alive, calls, spent>>

(* The backoff is over. *)
Wake(p) ==
  /\ pc[p] = "backoff"
  /\ IF stopping THEN Goto(p, "over")
                 ELSE Goto(p, "starting")
  /\ UNCHANGED <<lock, running, stopping, procs, calls, spent>>

-----------------------------------------------------------------------------
(* The calls of the dashboard. *)

CallStart(c) ==
  /\ pc[c] = "idle"
  /\ Spend("calls", MaxCalls)
  /\ Goto(c, "starting")
  /\ UNCHANGED <<lock, running, stopping, procs, calls>>

(* stop and restart, to the lock. *)
CallStop(c, andStart) ==
  /\ pc[c] = "idle"
  /\ Spend("calls", MaxCalls)
  /\ stopping' = TRUE
  /\ again' = IF andStart THEN again \union {c} ELSE again
  /\ Goto(c, "taking")
  /\ UNCHANGED <<lock, running, procs, took>>

\* Faulty: the lock is kept until the process is gone.
TakeHolding(c) ==
  /\ pc[c] = "taking"
  /\ lock = None
  /\ lock' = c
  /\ took' = [took EXCEPT ![c] = running]
  /\ running' = None
  /\ asked' = Dropped
  /\ Goto(c, "reaping")
  /\ UNCHANGED <<stopping, alive, reaped, again, spent>>

(* stop: the handle is taken out and the supervisor asked. *)
Take(c) ==
  /\ pc[c] = "taking"
  /\ lock = None
  /\ took' = [took EXCEPT ![c] = running]
  /\ running' = None
  /\ asked' = Dropped
  /\ Goto(c, "reaping")
  /\ UNCHANGED <<lock, stopping, alive, reaped, again, spent>>

(* stop returns when the process it asked about is reaped; a restart starts *)
(* after it.                                                                *)
Settle(c) ==
  /\ pc[c] = "reaping"
  /\ took[c] # None => took[c] \in reaped
  /\ took' = [took EXCEPT ![c] = None]
  /\ again' = again \ {c}
  /\ Goto(c, IF c \in again THEN "starting" ELSE "idle")
  /\ UNCHANGED <<lock, running, stopping, procs, spent>>

(* The browser goes away: its request is dropped where it waits. *)
HangUp(c) ==
  /\ pc[c] \in {"starting", "probing", "taking", "reaping"}
  /\ Spend("mishaps", MaxMishaps)
  /\ lock' = IF lock = c THEN None ELSE lock
  /\ took' = [took EXCEPT ![c] = None]
  /\ again' = again \ {c}
  /\ Goto(c, "idle")
  /\ UNCHANGED <<running, stopping, procs>>

-----------------------------------------------------------------------------
(* ensure_running *)

Look ==
  /\ pc[Ensure] = "looking"
  /\ lock = None
  /\ Goto(Ensure, IF ~AutoStart \/ running # None THEN "off" ELSE "starting")
  /\ UNCHANGED <<lock, running, stopping, procs, calls, spent>>

LookAgain ==
  /\ pc[Ensure] = "sleeping"
  /\ Goto(Ensure, "looking")
  /\ UNCHANGED <<lock, running, stopping, procs, calls, spent>>

Step(t) == Start(t) \/ Refuse(t) \/ SpawnFails(t) \/ \E p \in Procs : Spawn(t, p)
Supervise(p) == Kill(p) \/ Report(p) \/ Wake(p) \/ Step(p)
Serve(c)  == Take(c) \/ Settle(c) \/ Step(c)
Keep      == Look \/ LookAgain \/ Step(Ensure)

Next ==
  \/ \E p \in Procs : Supervise(p) \/ Exit(p)
  \/ \E c \in Callers :
       \/ Serve(c)
       \/ CallStart(c) \/ (\E andStart \in BOOLEAN : CallStop(c, andStart))
       \/ HangUp(c)
  \/ Keep

Spec == Init /\ [][Next]_vars

(* Every task runs when it can, and the lock is tokio's, which is given out *)
(* in the order it was asked for; nobody owes a call, and a connector may   *)
(* run for ever.                                                            *)
Fairness ==
  /\ \A p \in Procs : SF_vars(Supervise(p))
  /\ \A c \in Callers : SF_vars(Serve(c))
  /\ SF_vars(Keep)

FairSpec == Spec /\ Fairness

-----------------------------------------------------------------------------
(* "what used to make Stop and Restart hang": every call returns. *)
EveryCallReturns == \A c \in Callers : pc[c] # "idle" ~> pc[c] = "idle"
=============================================================================
