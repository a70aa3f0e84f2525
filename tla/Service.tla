------------------------------- MODULE Service -------------------------------
(***************************************************************************)
(* What keeps a relay installed and running on the phone: the keeper (the  *)
(* shell loop system.rs writes and hands over to), the service actions of  *)
(* the dashboard (dashboard.rs service_action and leave) and the updater   *)
(* (update.rs), which builds a new binary where the running one lay.       *)
(*                                                                         *)
(* A keeper is a process of its own.  Who may serve the port is Handover's *)
(* business: here a relay that starts while another serves exits busy.     *)
(***************************************************************************)
EXTENDS Naturals, FiniteSets

CONSTANTS
  Keepers,      \* the shells that may run keeper.sh
  Alone,        \* a relay no keeper waits for: started by hand, or a successor
  None,
  MaxAsked, MaxMishaps   \* bounds: actions asked for, and things that go wrong

\* What is asked of the constants; Workers assumes it.
Parameters ==
  /\ Alone # None
  /\ Keepers \intersect {Alone, None} = {}
  /\ {MaxAsked, MaxMishaps} \subseteq Nat

VARIABLES
  pc,           \* the line of the script each keeper is at
  pidfile, stopfile, script,  \* the keeper's files
  relay,        \* who started the relay that serves, None when none does
  leaving,      \* the endings under way in that relay
  update,       \* its updater: "idle", "pulling", "parking", "building"
  moved,        \* did the build park the binary?
  binary, parked,   \* is there a file at the binary's path, at its .prev path?
  abandoned,    \* a relay went while its build had parked the binary
  spent

vars == <<pc, pidfile, stopfile, script, relay, leaving, update, moved, binary,
          parked, abandoned, spent>>

keeperFiles == <<pidfile, stopfile, script>>
updater     == <<update, moved, binary, parked, abandoned>>

Init ==
  /\ pc = [k \in Keepers |-> "off"]
  /\ pidfile = None /\ stopfile = FALSE /\ script = FALSE
  /\ relay = Alone
  /\ leaving = {}
  /\ update = "idle" /\ moved = FALSE
  /\ binary = TRUE /\ parked = FALSE
  /\ abandoned = FALSE
  /\ spent = [asked |-> 0, mishaps |-> 0]

Spend(what, most) ==
  /\ spent[what] < most
  /\ spent' = [spent EXCEPT ![what] = @ + 1]

Goto(k, line) == pc' = [pc EXCEPT ![k] = line]

Awake(k) == pc[k] \notin {"off", "killed"}

\* The relay's process is gone, or is another program now; its tasks with it.
Gone ==
  /\ leaving' = {}
  /\ update' = "idle"
  /\ moved' = FALSE
  /\ abandoned' = (abandoned \/ (update = "building" /\ ~binary))
  /\ UNCHANGED <<binary, parked>>

-----------------------------------------------------------------------------
(* keeper.sh *)

\* One keeper at a time: a pidfile that names a live one ends this one.
Check(k) ==
  /\ pc[k] = "checking"
  /\ Goto(k, IF pidfile # None /\ Awake(pidfile) THEN "off" ELSE "claiming")
  /\ UNCHANGED <<keeperFiles, relay, leaving, updater, spent>>

Claim(k) ==
  /\ pc[k] = "claiming"
  /\ stopfile' = FALSE
  /\ pidfile' = k
  /\ Goto(k, "top")
  /\ UNCHANGED <<script, relay, leaving, updater, spent>>

\* `while`, and the same look at the stop file after a run.
Look(k) ==
  /\ pc[k] \in {"top", "after"}
  /\ Goto(k, IF stopfile THEN "ending"
             ELSE IF pc[k] = "top" THEN "starting" ELSE "sleeping")
  /\ UNCHANGED <<keeperFiles, relay, leaving, updater, spent>>

\* Faulty: a relay that was refused the port ends the loop.
RunUnlessBusy(k) ==
  /\ pc[k] = "starting"
  /\ relay' = IF relay = None /\ binary THEN k ELSE relay
  /\ Goto(k, IF relay' = k THEN "waiting"
             ELSE IF relay # None THEN "ending" ELSE "after")
  /\ UNCHANGED <<keeperFiles, leaving, updater, spent>>

\* `start`: refused with EXIT_PORT_BUSY while a relay serves, and impossible
\* without a binary.
Run(k) ==
  /\ pc[k] = "starting"
  /\ relay' = IF relay = None /\ binary THEN k ELSE relay
  /\ Goto(k, IF relay' = k THEN "waiting" ELSE "after")
  /\ UNCHANGED <<keeperFiles, leaving, updater, spent>>

\* The relay it started has exited.
Wait(k) ==
  /\ pc[k] = "waiting"
  /\ relay # k
  /\ Goto(k, "after")
  /\ UNCHANGED <<keeperFiles, relay, leaving, updater, spent>>

\* sleep 3 or sleep 30.
Sleep(k) ==
  /\ pc[k] = "sleeping"
  /\ Goto(k, "top")
  /\ UNCHANGED <<keeperFiles, relay, leaving, updater, spent>>

\* Whoever's pidfile it is by now.
End(k) ==
  /\ pc[k] = "ending"
  /\ pidfile' = None
  /\ Goto(k, "off")
  /\ UNCHANGED <<stopfile, script, relay, leaving, updater, spent>>

KeeperStep(k) ==
  Check(k) \/ Claim(k) \/ Look(k) \/ Run(k) \/ Wait(k) \/ Sleep(k) \/ End(k)

\* External: SIGTERM runs the trap, which removes the pidfile and lets the
\* loop go on, once the command the shell waits for has ended; SIGKILL leaves
\* the pidfile.
Terminate(k) ==
  /\ Awake(k) /\ pc[k] \notin {"checking", "claiming", "waiting", "sleeping"}
  /\ Spend("mishaps", MaxMishaps)
  /\ pidfile' = None
  /\ UNCHANGED <<pc, stopfile, script, relay, leaving, updater>>

Kill(k) ==
  /\ Awake(k)
  /\ Spend("mishaps", MaxMishaps)
  /\ Goto(k, "killed")
  /\ UNCHANGED <<keeperFiles, relay, leaving, updater>>

-----------------------------------------------------------------------------
(* service_action: asked of the relay that serves *)

Asked == relay # None /\ Spend("asked", MaxAsked)

InstallService ==
  /\ Asked
  /\ script' = TRUE
  /\ UNCHANGED <<pc, pidfile, stopfile, relay, leaving, updater>>

\* supervisor_down, then the files; a keeper goes on until it looks.
UninstallService ==
  /\ Asked
  /\ stopfile' = TRUE
  /\ script' = FALSE
  /\ pidfile' = None
  /\ UNCHANGED <<pc, relay, leaving, updater>>

\* Refused without a script.  The keeper runs before this process has left.
HandOver(k) ==
  /\ Asked
  /\ script
  /\ pc[k] = "off"
  /\ stopfile' = FALSE
  /\ Goto(k, "checking")
  /\ leaving' = leaving \union {"handOver"}
  /\ UNCHANGED <<pidfile, script, relay, updater>>

\* They answer first and leave a moment later.
AskToLeave(ending) ==
  /\ Asked
  /\ ending \in {"stop", "restart"}
  /\ leaving' = leaving \union {ending}
  /\ UNCHANGED <<pc, keeperFiles, relay, updater>>

Update ==
  /\ Asked
  /\ update = "idle"
  /\ update' = "pulling"
  /\ UNCHANGED <<pc, keeperFiles, relay, leaving, moved, binary, parked, abandoned>>

-----------------------------------------------------------------------------
(* leave *)

\* supervisor_down may fail to write; the process exits all the same.
LeaveForGood ==
  /\ relay # None
  /\ \/ "stop" \in leaving /\ stopfile' \in {TRUE, stopfile}
     \/ "handOver" \in leaving /\ stopfile' = stopfile
  /\ relay' = None
  /\ Gone
  /\ UNCHANGED <<pc, pidfile, script, spent>>

\* exec keeps the process, its parent and the port.  One that fails leaves
\* the relay as it was.
Exec(ending) ==
  /\ relay # None
  /\ ending \in leaving \intersect {"restart", "into"}
  /\ \/ /\ ending = "into" => binary
        /\ Gone
     \/ /\ leaving' = leaving \ {ending}
        /\ UNCHANGED updater
  /\ UNCHANGED <<pc, keeperFiles, relay, spent>>

-----------------------------------------------------------------------------
(* Updater::run *)

\* git pull: it fails, or finds nothing newer than the binary, and the relay
\* restarts all the same, or there is something to build.
Pulled ==
  /\ update = "pulling"
  /\ \/ update' = "idle" /\ leaving' = leaving
     \/ binary /\ update' = "idle" /\ leaving' = leaving \union {"restart"}
     \/ update' = "parking" /\ leaving' = leaving
  /\ UNCHANGED <<pc, keeperFiles, relay, moved, binary, parked, abandoned, spent>>

\* The binary makes room for the linker; a rename that fails is the end of it.
Park ==
  /\ update = "parking"
  /\ \/ /\ update' = "building"
        /\ moved' = binary
        /\ parked' = (parked \/ binary)
        /\ binary' = FALSE
     \/ /\ binary
        /\ update' = "idle"
        /\ parked' = FALSE
        /\ UNCHANGED <<moved, binary>>
  /\ UNCHANGED <<pc, keeperFiles, relay, leaving, abandoned, spent>>

\* Updater::restore.
Restored == binary \/ (moved /\ parked)

\* Faulty: a build that says it went well is believed.
BuildBelieved ==
  /\ update = "building"
  /\ update' = "idle"
  /\ moved' = FALSE
  /\ \/ /\ binary' \in BOOLEAN
        /\ parked' = parked
        /\ leaving' = leaving \union {"into"}
     \/ /\ binary' = Restored
        /\ parked' = (parked /\ ~moved)
        /\ leaving' = leaving
  /\ abandoned' = (abandoned /\ ~binary')
  /\ UNCHANGED <<pc, keeperFiles, relay, spent>>

\* cargo build leaves a binary, or fails, or says it went well and leaves
\* none where it should be.
Built ==
  /\ update = "building"
  /\ update' = "idle"
  /\ moved' = FALSE
  /\ \/ /\ binary' = TRUE
        /\ parked' = parked
        /\ leaving' = leaving \union {"into"}
     \/ /\ binary' = Restored
        /\ parked' = (parked /\ ~moved)
        /\ leaving' = leaving
  /\ abandoned' = (abandoned /\ ~binary')
  /\ UNCHANGED <<pc, keeperFiles, relay, spent>>

-----------------------------------------------------------------------------
(* External *)

\* The phone kills the relay, or it crashes.
Crash ==
  /\ relay # None
  /\ Spend("mishaps", MaxMishaps)
  /\ relay' = None
  /\ Gone
  /\ UNCHANGED <<pc, keeperFiles>>

\* cargo outlives a relay that was killed, and may finish what nobody waits for.
Orphan ==
  /\ abandoned
  /\ abandoned' = FALSE
  /\ binary' = TRUE
  /\ UNCHANGED <<pc, keeperFiles, relay, leaving, update, moved, parked, spent>>

\* A rotation: the successor serves, and no keeper waits for it.
Rotate ==
  /\ relay # None
  /\ Spend("mishaps", MaxMishaps)
  /\ relay' = Alone
  /\ Gone
  /\ UNCHANGED <<pc, keeperFiles>>

\* Somebody starts the relay, or the keeper: a shortcut, the boot script.
StartByHand ==
  /\ relay = None
  /\ binary
  /\ Spend("asked", MaxAsked)
  /\ relay' = Alone
  /\ UNCHANGED <<pc, keeperFiles, leaving, updater>>

Boot(k) ==
  /\ script
  /\ pc[k] = "off"
  /\ Spend("asked", MaxAsked)
  /\ Goto(k, "checking")
  /\ UNCHANGED <<keeperFiles, relay, leaving, updater>>

Next ==
  \/ \E k \in Keepers : KeeperStep(k) \/ Terminate(k) \/ Kill(k) \/ HandOver(k) \/ Boot(k)
  \/ InstallService \/ UninstallService
  \/ \E ending \in {"stop", "restart", "into"} : AskToLeave(ending) \/ Exec(ending)
  \/ Update \/ LeaveForGood \/ Pulled \/ Park \/ Built
  \/ Crash \/ Orphan \/ Rotate \/ StartByHand

\* A shell the system runs gets on with its script.
Fairness == \A k \in Keepers : WF_vars(KeeperStep(k))

Spec == Init /\ [][Next]_vars /\ Fairness

-----------------------------------------------------------------------------
(* Properties *)

\* update.rs build and restore: once an update is over a binary lies where
\* the keeper looks for it, however the pull and the build went.  The one
\* exception is a process that went while it built.
BinaryIsThere == update = "building" \/ abandoned \/ binary

\* system.rs install_service: as long as nobody asks it to stop or kills it,
\* a keeper brings a relay back whenever none serves, also after it has been
\* refused the port by a relay that died later.
Supervised(k) == pc[k] \notin {"off", "killed", "checking"}

Undisturbed == ~stopfile /\ \A k \in Keepers : pc[k] # "killed"

BroughtBack ==
  [](Undisturbed) =>
    \A k \in Keepers : Supervised(k) ~> (Supervised(k) /\ (relay # None \/ ~binary))
==============================================================================
