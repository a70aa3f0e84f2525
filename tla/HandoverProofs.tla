--------------------------- MODULE HandoverProofs ---------------------------
(***************************************************************************)
(* The lease is the title to the port, for any number of processes,        *)
(* crashes, generations and any deadlines.                                 *)
(***************************************************************************)
EXTENDS Handover, TLAPS

\* A start without a handover has the lease from the moment it has something
\* to open with it until it gives up its port.
HasTitle(p) == pc[p] \in {"building", "bound", "up", "spawning"} /\ pred[p] = Nobody

\* Who listens: a process that has bound its socket and was not asked to stop.
MayListen(p) ==
  \/ pc[p] \in {"bound", "up", "acquiring", "spawning"}
  \/ pc[p] \in {"asking", "insisting"} /\ pred[p] # Nobody

\* Whom a take-over waits for has been told to stop.
Asked(t) == t # Nobody => pc[t] \in {"stopping", "gone"}

Title ==
  /\ \A p \in Procs : HasTitle(p) => lease = p
  /\ \A p \in Procs : pc[p] = "acquiring" => pred[p] # Nobody
  /\ \A p \in Procs : pc[p] = "asking" => Asked(target[p])
  /\ \A p \in Procs : pred[p] # Nobody => pc[pred[p]] # "off"
  /\ \A p \in listening : MayListen(p)
  /\ pidfile # Nobody => pc[pidfile] # "off" /\ (pc[pidfile] # "gone" => lease = pidfile)
  /\ lease # Nobody => pc[lease] \notin Off

HandoverInv == TypeOK /\ Title

-----------------------------------------------------------------------------
(* The types. *)

Places == Off \union Waiting \union {"starting", "contending", "bound", "up", "stopping"}

LEMMA HandoverInitially == Init => HandoverInv
<1> SUFFICES ASSUME Init
             PROVE  HandoverInv
  OBVIOUS
<1>1. TypeOK
  BY HandoverAssumption DEF Init, TypeOK, Gens, NoNote, Off, Waiting
<1>2. Title
  BY HandoverAssumption DEF Init, Title, HasTitle, Asked, MayListen, Off
<1> QED
  BY <1>1, <1>2 DEF HandoverInv

LEMMA DieTypes ==
  ASSUME TypeOK, NEW p \in Procs, Die(p)
  PROVE  /\ pc' \in [Procs -> Places] /\ lease' \in Procs \union {Nobody}
         /\ listening' \subseteq Procs /\ busy' \subseteq Procs
         /\ unseen' \subseteq Procs
BY DEF TypeOK, Die, Goto, Places, Off

LEMMA AskTypes ==
  ASSUME TypeOK, NEW p \in Procs, NEW t \in Procs \union {Nobody}, AskToStop(p, t)
  PROVE  TypeOK'
<1>1. pc' \in [Procs -> Places] /\ lease' \in Procs \union {Nobody}
  BY DEF TypeOK, AskToStop, Goto, Places, Off, Waiting
<1>2. listening' \subseteq Procs /\ busy' \subseteq Procs /\ unseen' \subseteq Procs
  BY DEF TypeOK, AskToStop, requests
<1>3. target' \in [Procs -> Procs \union {Nobody}] /\ timer' \in [Procs -> Nat]
  BY HandoverAssumption DEF TypeOK, AskToStop, Wait
<1> QED
  BY <1>1, <1>2, <1>3 DEF TypeOK, AskToStop, Places, spawned, files, requests

LEMMA StartTypes ==
  ASSUME TypeOK, NEW p \in Procs, Start(p)
  PROVE  TypeOK'
<1> USE HandoverAssumption DEF files, spawned, requests, Wait
<1>1. CASE ReadNote(p)
  <2>1. notes' \in [Gens -> (Procs \union {Nobody}) \X (Procs \union {Nobody})]
    BY <1>1 DEF ReadNote, TypeOK, NoNote
  <2>2. CASE /\ notes[gen[p]][2] \in Alive
             /\ pred' = [pred EXCEPT ![p] = notes[gen[p]][2]]
             /\ Goto(p, "building")
             /\ Wait(p, Build)
    BY <1>1, <2>1, <2>2 DEF ReadNote, TypeOK, Goto, Alive, Waiting
  <2>3. CASE Goto(p, "contending") /\ UNCHANGED <<pred, timer>>
    BY <1>1, <2>1, <2>3 DEF ReadNote, TypeOK, Goto
  <2> QED
    BY <1>1, <2>2, <2>3 DEF ReadNote
<1>2. CASE TakeFreePort(p)
  BY <1>2 DEF TakeFreePort, TryHold, TypeOK, Goto, Waiting
<1>3. CASE RefuseToStart(p)
  BY <1>3, DieTypes DEF RefuseToStart, TypeOK, Places
<1>4. CASE Replace(p)
  <2>1. PICK t \in Incumbents(RecordedOwner) : AskToStop(p, t)
    BY <1>4 DEF Replace
  <2>2. t \in Procs \union {Nobody}
    BY DEF Incumbents, RecordedOwner, TypeOK
  <2> QED
    BY <2>1, <2>2, AskTypes
<1>5. CASE GetLease(p)
  <2>1. RestOfInterval(p) \in Nat
    BY DEF RestOfInterval, TypeOK
  <2>2. PICK at \in {"up", "building"} : Goto(p, at)
    BY <1>5 DEF GetLease
  <2>3. PICK t \in Nat : timer' = [timer EXCEPT ![p] = t]
    BY <1>5, <2>1 DEF GetLease
  <2>4. lease' = p /\ pidfile' \in {p, pidfile}
    BY <1>5 DEF GetLease, TryHold
  <2>5. UNCHANGED <<listening, requests, spawned, target, notes, markers, watch, crashes>>
    BY <1>5 DEF GetLease
  <2>6. timer' \in [Procs -> Nat] /\ pc' \in [Procs -> Places]
    BY <2>2, <2>3 DEF TypeOK, Goto, Places, Waiting
  <2> QED
    BY <2>4, <2>5, <2>6 DEF TypeOK, Places
<1>6. CASE Insist(p)
  <2>1. pc' \in [Procs -> Places]
    BY <1>6 DEF Insist, TypeOK, Places, Off, Waiting
  <2> QED
    BY <1>6, <2>1 DEF Insist, TypeOK, Places
<1>7. CASE StandDown(p)
  BY <1>7, DieTypes DEF StandDown, TypeOK, Places
<1>8. CASE Bind(p)
  BY <1>8 DEF Bind, TypeOK, Goto
<1>9. CASE Announce(p)
  <2>1. notes' \in [Gens -> (Procs \union {Nobody}) \X (Procs \union {Nobody})]
    BY <1>9 DEF Announce, TypeOK, NoNote
  <2>2. markers' \subseteq Gens /\ watch' \in [Procs -> 0..Watch]
    BY <1>9 DEF Announce, TypeOK, ReadyMarker
  <2>3. PICK to \in {"up", "acquiring"}, t \in {Every, Grace} :
          pc' = [pc EXCEPT ![p] = to] /\ timer' = [timer EXCEPT ![p] = t]
    BY <1>9 DEF Announce, Goto
  <2>4. t \in Nat
    BY <2>3
  <2>5. timer' \in [Procs -> Nat] /\ pc' \in [Procs -> Places]
    BY <2>3, <2>4 DEF TypeOK, Places, Waiting
  <2> QED
    BY <1>9, <2>1, <2>2, <2>5 DEF Announce, TypeOK, Places
<1>10. CASE MoveAlong(p)
  <2>1. PICK t \in Incumbents(pred[p]) : AskToStop(p, t)
    BY <1>10 DEF MoveAlong
  <2>2. t \in Procs \union {Nobody}
    BY DEF Incumbents, TypeOK
  <2> QED
    BY <2>1, <2>2, AskTypes
<1> QED
  BY <1>1, <1>2, <1>3, <1>4, <1>5, <1>6, <1>7, <1>8, <1>9, <1>10 DEF Start

LEMMA OtherTypes ==
  ASSUME TypeOK, NEW p \in Procs,
         \/ HandStart(p) \/ Watchdog(p) \/ Rotate(p)
         \/ (\E child \in Procs : SpawnSuccessor(p, child))
         \/ Accept(p) \/ Admit(p) \/ Answer(p) \/ Crash(p)
  PROVE  TypeOK'
<1> USE HandoverAssumption DEF files, spawned, requests, Wait
<1>1. CASE HandStart(p)
  BY <1>1 DEF HandStart, TypeOK, Goto
<1>2. CASE Watchdog(p)
  BY <1>2, DieTypes DEF Watchdog, TypeOK, Places
<1>3. CASE Retire(p)
  <2>1. PICK d \in Drain : timer' = [timer EXCEPT ![p] = d]
    BY <1>3 DEF Retire
  <2> QED
    BY <1>3, <2>1 DEF Retire, TypeOK, Goto, Waiting
<1>4. CASE SkipRotation(p)
  BY <1>4 DEF SkipRotation, TypeOK, Goto
<1>5. CASE Drained(p) \/ Stopped(p)
  BY <1>5, DieTypes DEF Drained, Stopped, Released, TypeOK, Places
<1>6. CASE MainReturns(p)
  BY <1>6, DieTypes DEF MainReturns, TypeOK, Places
<1>7. ASSUME NEW child \in Procs, SpawnSuccessor(p, child)
      PROVE  TypeOK'
  <2>1. gen[p] + 1 \in Gens
    <3>1. gen[p] \in 0..MaxGen /\ gen[p] < MaxGen
      BY <1>7 DEF SpawnSuccessor, TypeOK, Gens
    <3> QED
      BY <3>1, HandoverAssumption DEF Gens
  <2>2. notes' \in [Gens -> (Procs \union {Nobody}) \X (Procs \union {Nobody})]
    BY <1>7, <2>1 DEF SpawnSuccessor, TypeOK
  <2>3. gen' \in [Procs -> Gens] /\ markers' \subseteq Gens
    BY <1>7, <2>1 DEF SpawnSuccessor, TypeOK
  <2> QED
    BY <1>7, <2>2, <2>3 DEF SpawnSuccessor, TypeOK, Waiting
<1>8. CASE Accept(p) \/ Admit(p) \/ Answer(p)
  BY <1>8 DEF Accept, Admit, Answer, TypeOK
<1>9. CASE Crash(p)
  BY <1>9, DieTypes DEF Crash, TypeOK, Places
<1> QED
  BY <1>1, <1>2, <1>3, <1>4, <1>5, <1>6, <1>7, <1>8, <1>9 DEF Rotate

LEMMA TickTypes == TypeOK /\ Tick => TypeOK'
<1> SUFFICES ASSUME TypeOK, Tick
             PROVE  TypeOK'
  OBVIOUS
<1>1. timer' \in [Procs -> Nat]
  BY DEF Tick, TypeOK
<1>2. watch' \in [Procs -> 0..Watch]
  <2>1. ASSUME NEW p \in Procs, Listens(p)
        PROVE  watch[p] - 1 \in 0..Watch
    <3>1. watch[p] \in 0..Watch /\ watch[p] # 0
      BY <2>1 DEF Tick, Due, TypeOK
    <3>2. Watch \in Nat
      BY HandoverAssumption
    <3> QED
      BY <3>1, <3>2
  <2> QED
    BY <2>1, HandoverAssumption DEF Tick, TypeOK
<1> QED
  BY <1>1, <1>2 DEF Tick, TypeOK, spawned, files, requests

LEMMA HandoverTypes == TypeOK /\ [Next]_vars => TypeOK'
<1>1. TypeOK /\ UNCHANGED vars => TypeOK'
  BY DEF vars, TypeOK
<1> QED
  BY <1>1, StartTypes, OtherTypes, TickTypes DEF Next

(* lock.rs, rotate.rs, main.rs: the type invariant of the handover.         *)
THEOREM HandoverTypeCorrect == Spec => []TypeOK
<1>1. Init => TypeOK
  BY HandoverInitially DEF HandoverInv
<1> QED
  BY <1>1, HandoverTypes, PTL DEF Spec

-----------------------------------------------------------------------------
(* The title.  What a step says of the state the invariant is about, and    *)
(* what follows from it.                                                    *)

LEMMA DieTitle ==
  ASSUME HandoverInv, NEW p \in Procs, Die(p), UNCHANGED <<pred, target>>, pidfile' \in {pidfile, Nobody}
  PROVE  Title'
<1> USE HandoverAssumption DEF HandoverInv, TypeOK, Title, HasTitle, Asked, MayListen, Off, Die, Goto
<1>1. \A q \in Procs : HasTitle(q)' => lease' = q
  OBVIOUS
<1>2. \A q \in Procs : pc'[q] = "acquiring" => pred'[q] # Nobody
  OBVIOUS
<1>3. \A q \in Procs : /\ pc'[q] = "asking" => Asked(target[q])'
                       /\ pred'[q] # Nobody => pc'[pred'[q]] # "off"
  OBVIOUS
<1>4. \A q \in listening' : MayListen(q)'
  OBVIOUS
<1>5. pidfile' # Nobody =>
        pc'[pidfile'] # "off" /\ (pc'[pidfile'] # "gone" => lease' = pidfile')
  OBVIOUS
<1>6. lease' # Nobody => pc'[lease'] \notin Off
  OBVIOUS
<1> QED
  BY <1>1, <1>2, <1>3, <1>4, <1>5, <1>6

LEMMA AskTitle ==
  ASSUME HandoverInv, NEW p \in Procs, NEW t \in Procs \union {Nobody},
         AskToStop(p, t), pc[p] \in {"contending", "acquiring"},
         t # Nobody => pc[t] # "off"
  PROVE  Title'
<1> USE HandoverAssumption
    DEF HandoverInv, TypeOK, Title, HasTitle, Asked, MayListen, Off, Alive, Handled, Goto
<1>1. UNCHANGED <<pred, pidfile>> /\ target' = [target EXCEPT ![p] = t]
  BY DEF AskToStop, spawned, files
<1>2. CASE /\ t \notin Alive /\ pc' = [pc EXCEPT ![p] = "asking"]
           /\ UNCHANGED <<lease, listening, requests>>
  BY <1>1, <1>2
<1>3. CASE /\ t \in Alive
           /\ pc' = [pc EXCEPT ![p] = "asking", ![t] = "stopping"]
           /\ listening' = listening \ {t}
           /\ UNCHANGED <<lease, requests>>
  <2>1. \A q \in Procs : pc'[q] = IF q = t THEN "stopping" ELSE IF q = p THEN "asking" ELSE pc[q]
    BY <1>3
  <2>2. \A q \in Procs : HasTitle(q)' => lease' = q
    BY <1>1, <1>3, <2>1
  <2>3. \A q \in Procs : /\ pc'[q] = "acquiring" => pred'[q] # Nobody
                         /\ pc'[q] = "asking" => Asked(target[q])'
                         /\ pred'[q] # Nobody => pc'[pred'[q]] # "off"
    BY <1>1, <1>3, <2>1
  <2>4. \A q \in listening' : MayListen(q)'
    BY <1>1, <1>3, <2>1
  <2>5. pidfile' # Nobody =>
          pc'[pidfile'] # "off" /\ (pc'[pidfile'] # "gone" => lease' = pidfile')
    BY <1>1, <1>3, <2>1
  <2>6. lease' # Nobody => pc'[lease'] \notin Off
    BY <1>1, <1>3, <2>1
  <2> QED
    BY <2>2, <2>3, <2>4, <2>5, <2>6
<1>4. CASE /\ t \in Alive
           /\ pc' = [pc EXCEPT ![p] = "asking", ![t] = "gone"]
           /\ lease' = IF lease = t THEN Nobody ELSE lease
           /\ listening' = listening \ {t}
  <2>1. \A q \in Procs : pc'[q] = IF q = t THEN "gone" ELSE IF q = p THEN "asking" ELSE pc[q]
    BY <1>4
  <2>2. \A q \in Procs : HasTitle(q)' => lease' = q
    BY <1>1, <1>4, <2>1
  <2>3. \A q \in Procs : /\ pc'[q] = "acquiring" => pred'[q] # Nobody
                         /\ pc'[q] = "asking" => Asked(target[q])'
                         /\ pred'[q] # Nobody => pc'[pred'[q]] # "off"
    BY <1>1, <1>4, <2>1
  <2>4. \A q \in listening' : MayListen(q)'
    BY <1>1, <1>4, <2>1
  <2>5. pidfile' # Nobody =>
          pc'[pidfile'] # "off" /\ (pc'[pidfile'] # "gone" => lease' = pidfile')
    BY <1>1, <1>4, <2>1
  <2>6. lease' # Nobody => pc'[lease'] \notin Off
    BY <1>1, <1>4, <2>1
  <2> QED
    BY <2>2, <2>3, <2>4, <2>5, <2>6
<1> QED
  BY <1>2, <1>3, <1>4 DEF AskToStop

LEMMA GetLeaseTitle ==
  ASSUME HandoverInv, NEW p \in Procs, GetLease(p)
  PROVE  Title'
<1> USE HandoverAssumption
    DEF HandoverInv, TypeOK, Title, HasTitle, Asked, MayListen, Off, Goto
<1>1. /\ UNCHANGED <<listening, pred, target>> /\ lease = Nobody /\ lease' = p
      /\ pc[p] \in {"acquiring", "asking", "insisting"}
  BY DEF GetLease, TryHold, spawned
<1>2. CASE p \in listening /\ pc' = [pc EXCEPT ![p] = "up"] /\ pidfile' = p
  BY <1>1, <1>2
<1>3. CASE p \notin listening /\ pc' = [pc EXCEPT ![p] = "building"] /\ pidfile' = pidfile
  BY <1>1, <1>3
<1> QED
  BY <1>2, <1>3 DEF GetLease

LEMMA InsistTitle ==
  ASSUME HandoverInv, NEW p \in Procs, Insist(p)
  PROVE  Title'
<1> USE HandoverAssumption
    DEF HandoverInv, TypeOK, Title, HasTitle, Asked, MayListen, Off
<1>1. PICK victims \in SUBSET (Procs \ {p}) :
        /\ pc' = [q \in Procs |-> IF q = p THEN "insisting"
                                  ELSE IF q \in victims THEN "gone" ELSE pc[q]]
        /\ lease' = IF lease \in victims THEN Nobody ELSE lease
        /\ listening' = listening \ victims
  BY DEF Insist, Alive
<1>2. UNCHANGED <<pred, pidfile, target>> /\ pc[p] = "asking"
  BY DEF Insist, spawned, files
<1>3. \A q \in Procs : HasTitle(q)' => lease' = q
  BY <1>1, <1>2
<1>4. \A q \in Procs : /\ pc'[q] = "acquiring" => pred'[q] # Nobody
                       /\ pc'[q] = "asking" => Asked(target[q])'
                       /\ pred'[q] # Nobody => pc'[pred'[q]] # "off"
  BY <1>1, <1>2
<1>5. \A q \in listening' : MayListen(q)'
  BY <1>1, <1>2
<1>6. pidfile' # Nobody =>
        pc'[pidfile'] # "off" /\ (pc'[pidfile'] # "gone" => lease' = pidfile')
  BY <1>1, <1>2
<1>7. lease' # Nobody => pc'[lease'] \notin Off
  BY <1>1, <1>2
<1> QED
  BY <1>3, <1>4, <1>5, <1>6, <1>7

LEMMA StartTitle ==
  ASSUME HandoverInv, NEW p \in Procs, Start(p)
  PROVE  Title'
<1> USE HandoverAssumption
    DEF HandoverInv, TypeOK, Title, HasTitle, Asked, MayListen, Off, Goto, files, spawned
<1>1. CASE ReadNote(p)
  <2>1. CASE pred' = pred /\ pc' = [pc EXCEPT ![p] = "contending"]
    BY <1>1, <2>1 DEF ReadNote
  <2>2. CASE /\ notes[gen[p]][2] \in Alive
             /\ pred' = [pred EXCEPT ![p] = notes[gen[p]][2]]
             /\ pc' = [pc EXCEPT ![p] = "building"]
    <3>1. PICK old \in Procs : pred' = [pred EXCEPT ![p] = old] /\ pc[old] # "off"
      BY <2>2 DEF Alive
    <3>2. /\ pc[p] = "starting"
          /\ UNCHANGED <<lease, listening, target, pidfile>>
      BY <1>1 DEF ReadNote
    <3>3. \A q \in Procs : HasTitle(q)' => lease' = q
      BY <2>2, <3>1, <3>2
    <3>4. \A q \in Procs : /\ pc'[q] = "acquiring" => pred'[q] # Nobody
                           /\ pc'[q] = "asking" => Asked(target[q])'
                           /\ pred'[q] # Nobody => pc'[pred'[q]] # "off"
      BY <2>2, <3>1, <3>2
    <3>5. \A q \in listening' : MayListen(q)'
      BY <2>2, <3>1, <3>2
    <3>6. pidfile' # Nobody =>
            pc'[pidfile'] # "off" /\ (pc'[pidfile'] # "gone" => lease' = pidfile')
      BY <2>2, <3>1, <3>2
    <3>7. lease' # Nobody => pc'[lease'] \notin Off
      BY <2>2, <3>1, <3>2
    <3> QED
      BY <3>3, <3>4, <3>5, <3>6, <3>7
  <2> QED
    BY <1>1, <2>1, <2>2 DEF ReadNote
<1>2. CASE TakeFreePort(p)
  BY <1>2 DEF TakeFreePort, TryHold
<1>3. CASE RefuseToStart(p) \/ StandDown(p)
  BY <1>3, DieTitle DEF RefuseToStart, StandDown
<1>4. CASE Replace(p)
  <2>1. PICK t \in Incumbents(RecordedOwner) : AskToStop(p, t)
    BY <1>4 DEF Replace
  <2>2. t \in Procs \union {Nobody} /\ (t # Nobody => pc[t] # "off")
    BY DEF Incumbents, RecordedOwner, Alive
  <2> QED
    BY <1>4, <2>1, <2>2, AskTitle DEF Replace
<1>5. CASE GetLease(p)
  BY <1>5, GetLeaseTitle
<1>6. CASE Insist(p)
  BY <1>6, InsistTitle
<1>7. CASE Bind(p)
  BY <1>7 DEF Bind
<1>8. CASE Announce(p)
  <2>1. PICK to \in {"up", "acquiring"} :
          /\ pc' = [pc EXCEPT ![p] = to]
          /\ to = "up" => pred[p] = Nobody
          /\ to = "acquiring" => pred[p] # Nobody
    BY <1>8 DEF Announce
  <2> QED
    BY <1>8, <2>1 DEF Announce
<1>9. CASE MoveAlong(p)
  <2>1. PICK t \in Incumbents(pred[p]) : AskToStop(p, t)
    BY <1>9 DEF MoveAlong
  <2>2. t \in Procs \union {Nobody} /\ (t # Nobody => pc[t] # "off")
    BY DEF Incumbents
  <2> QED
    BY <1>9, <2>1, <2>2, AskTitle DEF MoveAlong
<1> QED
  BY <1>1, <1>2, <1>3, <1>4, <1>5, <1>6, <1>7, <1>8, <1>9 DEF Start

LEMMA OtherTitle ==
  ASSUME HandoverInv, NEW p \in Procs,
         \/ HandStart(p) \/ Watchdog(p) \/ Rotate(p)
         \/ (\E child \in Procs : SpawnSuccessor(p, child))
         \/ Accept(p) \/ Admit(p) \/ Answer(p) \/ Crash(p)
  PROVE  Title'
<1> USE HandoverAssumption
    DEF HandoverInv, TypeOK, Title, HasTitle, Asked, MayListen, Off, Goto, files, spawned
<1>1. CASE HandStart(p)
  BY <1>1 DEF HandStart
<1>2. CASE Watchdog(p)
  <2>1. CASE lease = p
    BY <1>2, <2>1 DEF Watchdog
  <2>2. CASE lease # p
    BY <1>2, <2>2, DieTitle DEF Watchdog
  <2> QED
    BY <2>1, <2>2
<1>3. CASE Retire(p)
  BY <1>3 DEF Retire
<1>4. CASE SkipRotation(p)
  BY <1>4 DEF SkipRotation
<1>5. CASE Drained(p) \/ Stopped(p)
  BY <1>5, DieTitle DEF Drained, Stopped, Released
<1>6. CASE MainReturns(p) \/ Crash(p)
  BY <1>6, DieTitle DEF MainReturns, Crash
<1>7. ASSUME NEW child \in Procs, SpawnSuccessor(p, child)
      PROVE  Title'
  <2>1. \A q \in Procs : pc'[q] = IF q = child THEN "starting"
                                  ELSE IF q = p THEN "spawning" ELSE pc[q]
    BY <1>7 DEF SpawnSuccessor
  <2>2. /\ UNCHANGED <<lease, listening, pred, target, pidfile>>
        /\ pc[p] = "up" /\ pc[child] = "off"
    BY <1>7 DEF SpawnSuccessor
  <2>3. \A q \in Procs : HasTitle(q)' => lease' = q
    BY <2>1, <2>2
  <2>4. \A q \in Procs : pc'[q] = "acquiring" => pred'[q] # Nobody
    BY <2>1, <2>2
  <2>5. \A q \in Procs : pc'[q] = "asking" => Asked(target[q])'
    BY <2>1, <2>2
  <2>6. \A q \in Procs : pred'[q] # Nobody => pc'[pred'[q]] # "off"
    BY <2>1, <2>2
  <2>7. \A q \in listening' : MayListen(q)'
    BY <2>1, <2>2
  <2>8. pidfile' # Nobody =>
          pc'[pidfile'] # "off" /\ (pc'[pidfile'] # "gone" => lease' = pidfile')
    BY <2>1, <2>2
  <2>9. lease' # Nobody => pc'[lease'] \notin Off
    BY <2>1, <2>2
  <2> QED
    BY <2>3, <2>4, <2>5, <2>6, <2>7, <2>8, <2>9
<1>8. CASE Accept(p) \/ Admit(p) \/ Answer(p)
  BY <1>8 DEF Accept, Admit, Answer
<1> QED
  BY <1>1, <1>2, <1>3, <1>4, <1>5, <1>6, <1>7, <1>8 DEF Rotate

LEMMA HandoverStep == HandoverInv /\ [Next]_vars => HandoverInv'
<1> SUFFICES ASSUME HandoverInv, [Next]_vars
             PROVE  HandoverInv'
  OBVIOUS
<1>1. TypeOK'
  BY HandoverTypes DEF HandoverInv
<1>2. CASE Tick \/ UNCHANGED vars
  <2>1. UNCHANGED <<pc, lease, listening, pred, target, pidfile>>
    BY <1>2 DEF Tick, vars, spawned, files
  <2>2. Title'
    BY <2>1 DEF HandoverInv, Title, HasTitle, Asked, MayListen
  <2> QED
    BY <1>1, <2>2 DEF HandoverInv
<1>3. ASSUME NEW p \in Procs, Start(p)
      PROVE  HandoverInv'
  BY <1>1, <1>3, StartTitle DEF HandoverInv
<1>4. ASSUME NEW p \in Procs,
             \/ HandStart(p) \/ Watchdog(p) \/ Rotate(p)
             \/ (\E child \in Procs : SpawnSuccessor(p, child))
             \/ Accept(p) \/ Admit(p) \/ Answer(p) \/ Crash(p)
      PROVE  HandoverInv'
  BY <1>1, <1>4, OtherTitle DEF HandoverInv
<1> QED
  BY <1>2, <1>3, <1>4 DEF Next

(* lock.rs, rotate.rs, main.rs: whoever builds, listens or is on file as    *)
(* the one that serves holds the lease, or was asked for by one that did:   *)
(* whatever processes die, however often they rotate, whatever the          *)
(* deadlines.                                                               *)
THEOREM HandoverLeaseIsTheTitle == Spec => []LeaseIsTheTitle
<1>1. HandoverInv => LeaseIsTheTitle
  BY HandoverAssumption
     DEF HandoverInv, TypeOK, Title, HasTitle, Asked, MayListen, Off, Alive, LeaseIsTheTitle,
         OnlySuccessorsOverlap, EntitledBeforeBuilding, PidfileNamesTheHolder
<1> QED
  BY HandoverInitially, HandoverStep, <1>1, PTL DEF Spec

-----------------------------------------------------------------------------
(* Somebody listens.  One relay is started by hand, and rotates. *)

(* Nothing is killed from outside; the watchdog looks at a successor that   *)
(* waits for the lease before its grace is over; a build takes less than    *)
(* the time from one spawn to the next.                                     *)
Calm ==
  /\ MaxCrashes = 0
  /\ \A p, q \in ByHand : p = q
  /\ Watch < Grace
  /\ Build < Ready + Every

(* Every drain ends before the watchdog looks at the successor. *)
ShortDrains == \A d \in Drain : d < Watch

Young == {p \in Procs : pc[p] \in {"starting", "contending", "building", "bound"}}
Heirs == {p \in Procs : pc[p] = "acquiring"}

\* Nobody is ever asked to stop, and who has a socket listens on it.
Untroubled ==
  /\ \A p \in Procs : pc[p] \notin {"asking", "insisting", "stopping"}
  /\ \A p \in Procs : pc[p] \in {"bound", "acquiring", "up", "spawning"} => p \in listening

\* The first relay is on its way up.
First ==
  /\ \A p \in Procs : pc[p] \in Off \/ (p \in ByHand /\ p \in Young)
  /\ \A p \in Procs : gen[p] = 0 /\ pred[p] = Nobody
  /\ lease # Nobody => pc[lease] \in {"building", "bound"}

\* m holds the lease.  Its latest successor is as old as the clock of m says,
\* so one that is late is announced before m spawns another; m retires for one
\* that has announced itself this very tick; if its drain is short, it is gone
\* before the watchdog looks at that one.
Serves(m) ==
  /\ pc[m] \in {"up", "spawning", "draining"}
  /\ pc[m] = "up" =>
       \A k \in Young : /\ pc[k] \in {"building", "bound"}
                        /\ timer[k] + Ready + Every = Build + timer[m]
  /\ pc[m] = "spawning" =>
       /\ \A k \in Young :
            \/ /\ pc[k] \in {"building", "bound"}
               /\ timer[k] + Ready = Build + timer[m]
            \/ /\ pc[k] = "starting" /\ timer[m] = Ready
               /\ notes[gen[k]] = <<k, m>> /\ gen[k] > 0
       /\ gen[m] + 1 \in markers => Young = {} /\ \E h \in Heirs : watch[h] = Watch
  /\ pc[m] = "draining" =>
       Young = {} /\ \E h \in Heirs : ShortDrains => watch[h] > timer[m]

\* The first relay has announced itself.
Later ==
  /\ \A p \in ByHand : pc[p] # "off"
  /\ \A p \in Procs : pc[p] \in {"building", "bound"} => pred[p] # Nobody
  /\ \A p, q \in Young : p = q
  /\ \A p \in Heirs : watch[p] + Grace = timer[p] + Watch
  /\ \A p \in Procs : pc[p] \in {"up", "spawning", "draining"} => lease = p
  /\ lease # Nobody => Serves(lease)
  /\ lease = Nobody => Young = {} /\ \E h \in Heirs : ShortDrains => watch[h] > 0

\* The watchdog ended the last successor of a relay that no longer listens:
\* nobody ever will.
Silent ==
  /\ \A p \in ByHand : pc[p] # "off"
  /\ \A p \in Procs : pc[p] \in Off \union {"draining"}

HeardInv == HandoverInv /\ Untroubled /\ (First \/ Later \/ Silent)

\* What a step from `Later` has to show.
Goal == Untroubled' /\ Later'

LEMMA HeardInitially == Init => HeardInv
<1> SUFFICES ASSUME Init PROVE HeardInv
  OBVIOUS
<1>1. HandoverInv
  BY HandoverInitially
<1>2. Untroubled /\ First
  BY HandoverAssumption DEF Init, Untroubled, First, Off
<1> QED
  BY <1>1, <1>2 DEF HeardInv

(* Nobody contends, asks or is asked once the first relay is up. *)
LEMMA NoneContends ==
  ASSUME TypeOK, Later, NEW p \in Procs
  PROVE  pc[p] # "contending"
BY DEF Later, Serves, Young, TypeOK

LEMMA NobodyIsAsked ==
  ASSUME Calm, TypeOK, Later, Untroubled, NEW p \in Procs
  PROVE  ~Replace(p) /\ ~MoveAlong(p) /\ ~Insist(p) /\ ~StandDown(p) /\ ~Stopped(p)
         /\ ~TakeFreePort(p) /\ ~RefuseToStart(p) /\ ~HandStart(p) /\ ~Crash(p)
<1>1. ~Replace(p) /\ ~TakeFreePort(p) /\ ~RefuseToStart(p)
  BY NoneContends DEF Replace, TakeFreePort, RefuseToStart
<1>2. ~Insist(p) /\ ~StandDown(p) /\ ~Stopped(p)
  BY DEF Untroubled, Insist, StandDown, Stopped
<1>3. ~HandStart(p)
  BY DEF Later, HandStart
<1>4. ~Crash(p)
  BY DEF Calm, Crash, TypeOK
<1>5. ~MoveAlong(p)
  <2> SUFFICES ASSUME pc[p] = "acquiring", timer[p] = 0
               PROVE  FALSE
    BY DEF MoveAlong
  <2>1. watch[p] + Grace = Watch /\ watch[p] \in Nat
    BY HandoverAssumption DEF Later, Heirs, TypeOK, HandoverAssumption
  <2> QED
    BY <2>1, HandoverAssumption DEF Calm, HandoverAssumption
<1> QED
  BY <1>1, <1>2, <1>3, <1>4, <1>5

LEMMA ReadNoteHeard ==
  ASSUME Calm, TypeOK, Later, Untroubled, NEW p \in Procs, ReadNote(p)
  PROVE  Goal
<1>1. /\ p \in Young /\ pc[p] = "starting" /\ lease # Nobody
      /\ pc[lease] = "spawning" /\ timer[lease] = Ready /\ gen[p] > 0
      /\ notes[gen[p]] = <<p, lease>> /\ lease \in Procs /\ lease # p
      /\ gen[lease] + 1 \notin markers /\ lease \in Alive
  BY HandoverAssumption DEF ReadNote, Later, Serves, Young, TypeOK, Alive, Off, HandoverAssumption
<1>2. /\ pc' = [pc EXCEPT ![p] = "building"] /\ timer' = [timer EXCEPT ![p] = Build]
      /\ pred' = [pred EXCEPT ![p] = lease]
      /\ UNCHANGED <<lease, listening, gen, markers, watch>>
  BY <1>1 DEF ReadNote, Goto, Wait, spawned, files
<1>3. Young' = Young /\ Heirs' = Heirs
  BY <1>1, <1>2 DEF Young, Heirs, TypeOK
<1>4. \A k \in Young : k = p
  BY <1>1 DEF Later
<1>5. Serves(lease)'
  BY <1>1, <1>2, <1>3, <1>4, HandoverAssumption DEF Serves, TypeOK, HandoverAssumption
<1>6. Untroubled'
  BY <1>1, <1>2 DEF Untroubled, TypeOK
<1>7. Later'
  BY <1>1, <1>2, <1>3, <1>4, <1>5, HandoverAssumption DEF Later, Heirs, TypeOK, HandoverAssumption
<1> QED
  BY <1>6, <1>7 DEF Goal

LEMMA GetLeaseHeard ==
  ASSUME Calm, TypeOK, Later, Untroubled, NEW p \in Procs, GetLease(p)
  PROVE  Goal
<1>1. pc[p] = "acquiring" /\ lease = Nobody /\ p \in listening /\ Young = {}
  BY DEF GetLease, TryHold, Untroubled, Later
<1>2. /\ pc' = [pc EXCEPT ![p] = "up"] /\ lease' = p
      /\ \E t : timer' = [timer EXCEPT ![p] = t]
      /\ UNCHANGED <<listening, gen, pred, markers, watch>>
  BY <1>1 DEF GetLease, TryHold, Goto, Wait, spawned
<1>3. Young' = {} /\ Heirs' = Heirs \ {p}
  BY <1>1, <1>2 DEF Young, Heirs, TypeOK
<1>4. Serves(p)'
  BY <1>2, <1>3 DEF Serves, TypeOK
<1>5. Untroubled'
  BY <1>1, <1>2 DEF Untroubled, TypeOK
<1>6. \A q \in Procs : pc'[q] \in {"up", "spawning", "draining"} => q = p
  BY <1>1, <1>2, HandoverAssumption DEF Later, TypeOK, HandoverAssumption
<1>7. \A h \in Heirs' : watch'[h] + Grace = timer'[h] + Watch
  BY <1>2, <1>3 DEF Later, TypeOK, Heirs
<1>8. p # Nobody
  BY HandoverAssumption DEF HandoverAssumption
<1>9. Later'
  BY <1>1, <1>2, <1>3, <1>4, <1>6, <1>7, <1>8 DEF Later, Young, TypeOK
<1> QED
  BY <1>5, <1>9 DEF Goal

LEMMA BindHeard ==
  ASSUME Calm, TypeOK, Later, Untroubled, NEW p \in Procs, Bind(p)
  PROVE  Goal
<1>1. p \in Young /\ pc[p] = "building" /\ lease # Nobody /\ lease # p /\ lease \in Procs
  BY DEF Bind, Later, Serves, Young, TypeOK
<1>2. /\ pc' = [pc EXCEPT ![p] = "bound"] /\ listening' = listening \union {p}
      /\ UNCHANGED <<lease, gen, pred, notes, markers, timer, watch>>
  BY <1>1 DEF Bind, Goto, spawned
<1>3. Young' = Young /\ Heirs' = Heirs
  BY <1>1, <1>2 DEF Young, Heirs, TypeOK
<1>4. Serves(lease)'
  BY <1>1, <1>2, <1>3 DEF Serves, Later, TypeOK
<1>5. Untroubled'
  BY <1>1, <1>2 DEF Untroubled, TypeOK
<1>6. Later'
  BY <1>1, <1>2, <1>3, <1>4 DEF Later, TypeOK
<1> QED
  BY <1>5, <1>6 DEF Goal

LEMMA AnnounceHeard ==
  ASSUME Calm, TypeOK, Later, Untroubled, NEW p \in Procs, Announce(p)
  PROVE  Goal
<1>1. /\ p \in Young /\ pc[p] = "bound" /\ lease # Nobody /\ lease # p /\ lease \in Procs
      /\ pred[p] # Nobody /\ p \in listening
      /\ \A k \in Young : k = p
  BY DEF Announce, Later, Serves, Young, TypeOK, Untroubled
<1>2. /\ pc' = [pc EXCEPT ![p] = "acquiring"] /\ timer' = [timer EXCEPT ![p] = Grace]
      /\ watch' = [watch EXCEPT ![p] = Watch]
      /\ UNCHANGED <<lease, listening, gen, pred>>
  BY <1>1 DEF Announce, Goto, Wait, spawned
<1>3. Young' = {} /\ Heirs' = Heirs \union {p}
  BY <1>1, <1>2 DEF Young, Heirs, TypeOK
<1>4. p \in Heirs' /\ watch'[p] = Watch
  BY <1>2, <1>3 DEF TypeOK
<1>5. pc'[lease] = pc[lease] /\ pc[lease] \in {"up", "spawning"}
  BY <1>1, <1>2 DEF Later, Serves, TypeOK
<1>6. Serves(lease)'
  BY <1>2, <1>3, <1>4, <1>5 DEF Serves
<1>7. Untroubled'
  BY <1>1, <1>2 DEF Untroubled, TypeOK
<1>8. \A h \in Heirs' : watch'[h] + Grace = timer'[h] + Watch
  BY <1>2, <1>3, HandoverAssumption DEF Later, TypeOK, Heirs, HandoverAssumption
<1>9. Later'
  BY <1>1, <1>2, <1>3, <1>6, <1>8 DEF Later, TypeOK
<1> QED
  BY <1>7, <1>9 DEF Goal

(* The watchdog finds an heir that has waited a whole interval: another one *)
(* listens, or nobody does from here on.                                    *)
LEMMA WatchdogHeard ==
  ASSUME Calm, TypeOK, Later, Untroubled, NEW p \in Procs, Watchdog(p)
  PROVE  Untroubled' /\ (Later' \/ Silent')
<1>1. CASE lease = p
  <2>1. /\ watch' = [watch EXCEPT ![p] = Watch]
        /\ UNCHANGED <<pc, lease, listening, gen, pred, notes, markers, timer>>
    BY <1>1 DEF Watchdog, spawned, files
  <2>2. p \notin Heirs /\ p # Nobody
    BY <1>1, HandoverAssumption DEF Later, Serves, Heirs, HandoverAssumption
  <2>3. Young' = Young /\ Heirs' = Heirs /\ \A h \in Heirs : watch'[h] = watch[h]
    BY <2>1, <2>2 DEF Young, Heirs, TypeOK
  <2>4. Serves(p)'
    BY <1>1, <2>1, <2>2, <2>3 DEF Serves, Later
  <2>5. Untroubled' /\ Later'
    BY <1>1, <2>1, <2>2, <2>3, <2>4 DEF Untroubled, Later
  <2> QED
    BY <2>5
<1>2. CASE lease # p /\ Heirs \ {p} = {} /\ (lease = Nobody \/ pc[lease] = "draining")
  <2>1. /\ pc' = [pc EXCEPT ![p] = "gone"] /\ listening' = listening \ {p}
    BY <1>2 DEF Watchdog, Die, Goto
  <2>2. Young = {}
    BY <1>2 DEF Later, Serves
  <2>3. \A q \in Procs : pc[q] \in Off \union {"draining"} \/ q = p
    <3> SUFFICES ASSUME NEW q \in Procs, q # p
                 PROVE  pc[q] \in Off \union {"draining"}
      OBVIOUS
    <3>1. pc[q] \notin {"starting", "contending", "building", "bound", "acquiring"}
      BY <1>2, <2>2 DEF Young, Heirs
    <3>2. pc[q] \notin {"asking", "insisting", "stopping"}
      BY DEF Untroubled
    <3>3. pc[q] \notin {"up", "spawning"}
      <4>1. pc[q] \in {"up", "spawning"} => lease = q /\ q # Nobody
        BY HandoverAssumption DEF Later, HandoverAssumption
      <4> QED
        BY <1>2, <4>1
    <3> QED
      BY <3>1, <3>2, <3>3 DEF TypeOK, Off, Waiting
  <2>4. Silent'
    BY <2>1, <2>3 DEF Silent, Later, TypeOK, Off
  <2>5. Untroubled'
    BY <2>1 DEF Untroubled, TypeOK
  <2> QED
    BY <2>4, <2>5
<1>3. CASE lease # p /\ ~(Heirs \ {p} = {} /\ (lease = Nobody \/ pc[lease] = "draining"))
  <2>1. /\ pc' = [pc EXCEPT ![p] = "gone"] /\ lease' = lease /\ listening' = listening \ {p}
        /\ UNCHANGED <<gen, pred, notes, markers, timer, watch>>
    BY <1>3 DEF Watchdog, Die, Goto, spawned, files
  <2>2. p \in Heirs /\ watch[p] = 0
    BY <1>3 DEF Watchdog, Listens, Handled, Later, Heirs, Untroubled
  <2>3. Young' = Young /\ Heirs' = Heirs \ {p}
    BY <2>1, <2>2 DEF Young, Heirs, TypeOK
  <2>4. \A h \in Heirs : watch[h] > 0 => h \in Heirs' /\ watch'[h] = watch[h]
    BY <2>1, <2>2, <2>3
  <2> DEFINE Left(n) == \E h \in Heirs' : ShortDrains => watch'[h] > n
  <2>9. ASSUME NEW n \in Nat, \E h \in Heirs : ShortDrains => watch[h] > n,
               lease = Nobody \/ pc[lease] = "draining"
        PROVE  Left(n)
    <3>1. PICK h \in Heirs : ShortDrains => watch[h] > n
      BY <2>9
    <3>2. CASE ShortDrains
      <4>1. watch[h] > 0
        BY <2>9, <3>1, <3>2 DEF TypeOK, Heirs
      <4> QED
        BY <2>4, <3>1, <3>2, <4>1
    <3>3. CASE ~ShortDrains
      <4>1. PICK k \in Heirs \ {p} : TRUE
        BY <1>3, <2>9
      <4> QED
        BY <2>3, <3>3, <4>1
    <3> QED
      BY <3>2, <3>3
  <2>5. ASSUME lease # Nobody PROVE Serves(lease)'
    <3>1. Serves(lease) /\ lease \in Procs /\ timer[lease] \in Nat /\ pc'[lease] = pc[lease]
      BY <1>3, <2>1, <2>5 DEF Later, TypeOK
    <3>2. ASSUME pc[lease] = "spawning", gen[lease] + 1 \in markers
          PROVE  \E h \in Heirs' : watch'[h] = Watch
      <4>1. PICK h \in Heirs : watch[h] = Watch
        BY <3>1, <3>2 DEF Serves
      <4>2. watch[h] > 0
        BY <4>1, HandoverAssumption DEF HandoverAssumption
      <4> QED
        BY <2>4, <4>1, <4>2
    <3>3. ASSUME pc[lease] = "draining"
          PROVE  \E h \in Heirs' : ShortDrains => watch'[h] > timer'[lease]
      <4>1. Left(timer[lease])
        BY <2>9, <3>1, <3>3 DEF Serves
      <4> QED
        BY <2>1, <4>1
    <3>4. \A k \in Young : pc'[k] = pc[k]
      BY <2>1, <2>2 DEF Young, Heirs, TypeOK
    <3> QED
      BY <2>1, <2>3, <3>1, <3>2, <3>3, <3>4 DEF Serves
  <2>6. ASSUME lease = Nobody
        PROVE  Young' = {} /\ \E h \in Heirs' : ShortDrains => watch'[h] > 0
    <3>1. Left(0)
      BY <2>6, <2>9 DEF Later
    <3> QED
      BY <2>3, <2>6, <3>1 DEF Later
  <2>7. Untroubled'
    BY <2>1 DEF Untroubled, TypeOK
  <2>8. Later'
    <3>1. \A h \in Heirs' : watch'[h] + Grace = timer'[h] + Watch
      BY <2>1, <2>3 DEF Later
    <3>2. \A q \in Procs : pc'[q] = pc[q] \/ pc'[q] = "gone"
      BY <2>1 DEF TypeOK
    <3> QED
      BY <2>1, <2>3, <2>5, <2>6, <3>1, <3>2 DEF Later
  <2> QED
    BY <2>7, <2>8
<1> QED
  BY <1>1, <1>2, <1>3

LEMMA SpawnHeard ==
  ASSUME Calm, TypeOK, Later, Untroubled, NEW p \in Procs, NEW child \in Procs,
         SpawnSuccessor(p, child)
  PROVE  Goal
<1>1. /\ pc[p] = "up" /\ timer[p] = 0 /\ lease = p /\ p # Nobody /\ p # child
      /\ pc[child] = "off" /\ p \in listening /\ gen[p] + 1 \in Gens /\ gen[p] + 1 > 0
      /\ child \notin ByHand
  <2>1. /\ pc[p] = "up" /\ timer[p] = 0 /\ pc[child] = "off" /\ child \notin ByHand
        /\ gen[p] < MaxGen
    BY DEF SpawnSuccessor
  <2>2. lease = p /\ p # Nobody /\ p # child /\ p \in listening
    BY <2>1, HandoverAssumption DEF Later, HandoverAssumption, Untroubled
  <2>3. gen[p] + 1 \in Gens /\ gen[p] + 1 > 0
    <3>1. gen[p] \in 0..MaxGen
      BY DEF TypeOK, Gens
    <3> QED
      BY <2>1, <3>1, HandoverAssumption DEF HandoverAssumption, Gens
  <2> QED
    BY <2>1, <2>2, <2>3
<1>2. Young = {}
  <2> SUFFICES ASSUME NEW k \in Young PROVE FALSE
    OBVIOUS
  <2>1. timer[k] + Ready + Every = Build + timer[p] /\ timer[k] \in Nat
    BY <1>1 DEF Later, Serves, Young, TypeOK
  <2> QED
    BY <1>1, <2>1, HandoverAssumption DEF Calm, HandoverAssumption
<1>3. /\ pc' = [pc EXCEPT ![p] = "spawning", ![child] = "starting"]
      /\ timer' = [timer EXCEPT ![p] = Ready]
      /\ gen' = [gen EXCEPT ![child] = gen[p] + 1]
      /\ notes' = [notes EXCEPT ![gen[p] + 1] = <<child, p>>]
      /\ markers' = markers \ {gen[p] + 1}
      /\ UNCHANGED <<lease, listening, pred, watch>>
  BY DEF SpawnSuccessor, Wait
<1>4. Young' = {child} /\ Heirs' = Heirs
  BY <1>1, <1>2, <1>3 DEF Young, Heirs, TypeOK
<1>5. gen'[p] = gen[p] /\ gen'[child] = gen[p] + 1 /\ notes'[gen[p] + 1] = <<child, p>>
  BY <1>1, <1>3 DEF TypeOK
<1>6. Serves(p)'
  BY <1>1, <1>3, <1>4, <1>5 DEF Serves, TypeOK
<1>7. Untroubled'
  BY <1>1, <1>3 DEF Untroubled, TypeOK
<1>8. \A h \in Heirs' : watch'[h] + Grace = timer'[h] + Watch
  BY <1>1, <1>3, <1>4 DEF Later, TypeOK, Heirs
<1>9. Later'
  <2>1. \A q \in Procs : pc'[q] \in {"up", "spawning", "draining"} => lease' = q
    BY <1>1, <1>3 DEF Later, TypeOK
  <2>2. \A q \in ByHand : pc'[q] # "off"
    BY <1>1, <1>3, HandoverAssumption DEF Later, TypeOK, HandoverAssumption
  <2>3. \A q \in Procs : pc'[q] \in {"building", "bound"} => pred'[q] # Nobody
    BY <1>1, <1>3 DEF Later, TypeOK
  <2> QED
    BY <1>1, <1>3, <1>4, <1>6, <1>8, <2>1, <2>2, <2>3 DEF Later
<1> QED
  BY <1>7, <1>9 DEF Goal

LEMMA RetireHeard ==
  ASSUME Calm, TypeOK, Later, Untroubled, NEW p \in Procs, Retire(p)
  PROVE  Goal
<1>1. /\ pc[p] = "spawning" /\ lease = p /\ p # Nobody /\ Young = {}
      /\ \E h \in Heirs : watch[h] = Watch
  BY HandoverAssumption DEF Retire, Later, Serves, HandoverAssumption
<1>2. PICK d \in Drain :
      /\ pc' = [pc EXCEPT ![p] = "draining"] /\ timer' = [timer EXCEPT ![p] = d]
      /\ listening' = listening \ {p}
      /\ UNCHANGED <<lease, gen, pred, notes, markers, watch>>
  BY DEF Retire, Goto, Wait, spawned, files
<1>3. Young' = {} /\ Heirs' = Heirs
  BY <1>1, <1>2 DEF Young, Heirs, TypeOK
<1>4. timer'[p] = d /\ d \in Nat /\ Watch \in Nat /\ (ShortDrains => Watch > d)
  BY <1>2, HandoverAssumption DEF TypeOK, ShortDrains, HandoverAssumption
<1>5. Serves(p)'
  BY <1>1, <1>2, <1>3, <1>4 DEF Serves, TypeOK
<1>6. Untroubled'
  BY <1>1, <1>2 DEF Untroubled, TypeOK
<1>7. \A h \in Heirs' : watch'[h] + Grace = timer'[h] + Watch
  BY <1>1, <1>2, <1>3 DEF Later, TypeOK, Heirs
<1>8. Later'
  BY <1>1, <1>2, <1>3, <1>5, <1>7 DEF Later, TypeOK
<1> QED
  BY <1>6, <1>8 DEF Goal

LEMMA SkipHeard ==
  ASSUME Calm, TypeOK, Later, Untroubled, NEW p \in Procs, SkipRotation(p)
  PROVE  Goal
<1>1. pc[p] = "spawning" /\ lease = p /\ p # Nobody /\ timer[p] = 0
  BY HandoverAssumption DEF SkipRotation, Later, HandoverAssumption
<1>2. /\ pc' = [pc EXCEPT ![p] = "up"] /\ timer' = [timer EXCEPT ![p] = Every]
      /\ UNCHANGED <<lease, listening, gen, pred, notes, markers, watch>>
  BY DEF SkipRotation, Goto, Wait, spawned, files
<1>3. Young' = Young /\ Heirs' = Heirs
  BY <1>1, <1>2 DEF Young, Heirs, TypeOK
<1>4. ASSUME NEW k \in Young
      PROVE  /\ pc'[k] \in {"building", "bound"}
             /\ timer'[k] + Ready + Every = Build + timer'[p]
  <2>1. k # p /\ timer[k] \in Nat
    BY <1>1 DEF Young, TypeOK
  <2>2. pc[k] \in {"building", "bound"} /\ timer[k] + Ready = Build
    BY <1>1, HandoverAssumption DEF Later, Serves, HandoverAssumption
  <2> QED
    BY <1>2, <2>1, <2>2, HandoverAssumption DEF TypeOK, HandoverAssumption
<1>5. Serves(p)'
  BY <1>1, <1>2, <1>3, <1>4 DEF Serves, TypeOK
<1>6. Untroubled'
  BY <1>1, <1>2 DEF Untroubled, TypeOK
<1>7. \A h \in Heirs' : watch'[h] + Grace = timer'[h] + Watch
  BY <1>1, <1>2, <1>3 DEF Later, TypeOK, Heirs
<1>8. Later'
  BY <1>1, <1>2, <1>3, <1>5, <1>7 DEF Later, TypeOK
<1> QED
  BY <1>6, <1>8 DEF Goal

LEMMA GoneHeard ==
  ASSUME Calm, TypeOK, Later, Untroubled, NEW p \in Procs, Drained(p) \/ MainReturns(p)
  PROVE  Goal
<1>1. /\ pc[p] = "draining" /\ lease = p /\ p # Nobody /\ Young = {}
      /\ \E h \in Heirs : ShortDrains => watch[h] > timer[p]
  BY HandoverAssumption DEF Drained, MainReturns, Later, Serves, HandoverAssumption
<1>2. /\ pc' = [pc EXCEPT ![p] = "gone"] /\ lease' = Nobody
      /\ listening' = listening \ {p}
      /\ UNCHANGED <<gen, pred, notes, markers, timer, watch>>
  BY <1>1 DEF Drained, MainReturns, Die, Goto, spawned, files
<1>3. Young' = {} /\ Heirs' = Heirs
  BY <1>1, <1>2 DEF Young, Heirs, TypeOK
<1>4. \E h \in Heirs' : ShortDrains => watch'[h] > 0
  <2>1. PICK h \in Heirs : ShortDrains => watch[h] > timer[p]
    BY <1>1
  <2>2. ShortDrains => watch[h] > 0
    BY <1>1, <2>1 DEF TypeOK, Heirs
  <2> QED
    BY <1>2, <1>3, <2>2
<1>5. Untroubled'
  BY <1>1, <1>2 DEF Untroubled, TypeOK
<1>6. Later'
  BY <1>1, <1>2, <1>3, <1>4 DEF Later, TypeOK
<1> QED
  BY <1>5, <1>6 DEF Goal

LEMMA TickHeard ==
  ASSUME Calm, TypeOK, Later, Untroubled, Tick
  PROVE  Goal
<1>1. /\ UNCHANGED <<pc, lease, listening, gen, pred, notes, markers>>
      /\ \A p \in Procs : ~Due(p)
      /\ \A p \in Procs : timer'[p] = IF timer[p] > 0 THEN timer[p] - 1 ELSE 0
      /\ \A p \in Procs : watch'[p] = IF Listens(p) THEN watch[p] - 1 ELSE Watch
  BY DEF Tick, spawned, files
<1>2. Young' = Young /\ Heirs' = Heirs
  BY <1>1 DEF Young, Heirs
<1>3. ASSUME NEW h \in Heirs
      PROVE  /\ timer[h] \in Nat \ {0} /\ watch[h] \in Nat \ {0}
             /\ timer'[h] = timer[h] - 1 /\ watch'[h] = watch[h] - 1
             /\ lease # Nobody
  <2>1. h \in Procs /\ pc[h] = "acquiring" /\ ~Due(h)
    BY <1>1 DEF Heirs
  <2>2. Listens(h)
    BY <2>1 DEF Listens, Handled, Untroubled
  <2>3. timer[h] # 0 /\ watch[h] # 0 /\ lease # Nobody
    BY <2>1, <2>2 DEF Due, Waiting
  <2>4. timer[h] \in Nat /\ watch[h] \in Nat
    BY <2>1, HandoverAssumption DEF TypeOK, HandoverAssumption
  <2> QED
    BY <1>1, <2>1, <2>2, <2>3, <2>4
<1>4. ASSUME NEW k \in Young
      PROVE  /\ k \in Procs /\ pc[k] = "building"
             /\ timer[k] \in Nat \ {0} /\ timer'[k] = timer[k] - 1
  <2>1. k \in Procs /\ pc[k] = "building" /\ timer[k] # 0
    BY <1>1 DEF Young, Due, Waiting
  <2> QED
    BY <1>1, <2>1 DEF TypeOK
<1>5. lease # Nobody
  BY <1>3 DEF Later
<1>6. lease \in Procs /\ timer[lease] \in Nat /\ ~Due(lease) /\ Serves(lease)
  BY <1>1, <1>5 DEF TypeOK, Later
<1>7. ASSUME pc[lease] = "up", NEW k \in Young
      PROVE  timer'[k] + Ready + Every = Build + timer'[lease]
  <2>1. timer[k] + Ready + Every = Build + timer[lease]
    BY <1>6, <1>7 DEF Serves
  <2>2. timer[lease] > 0
    BY <1>4, <1>6, <2>1, HandoverAssumption DEF Calm, HandoverAssumption
  <2>3. timer'[lease] = timer[lease] - 1
    BY <1>1, <1>6, <2>2
  <2> QED
    BY <1>4, <1>6, <2>1, <2>3, HandoverAssumption DEF HandoverAssumption
<1>8. ASSUME pc[lease] \in {"spawning", "draining"}
      PROVE  timer[lease] > 0 /\ timer'[lease] = timer[lease] - 1
  BY <1>1, <1>6, <1>8 DEF Due, Waiting
<1>9. ASSUME pc[lease] = "spawning", NEW k \in Young
      PROVE  timer'[k] + Ready = Build + timer'[lease]
  <2>1. timer[k] + Ready = Build + timer[lease]
    BY <1>4, <1>6, <1>9 DEF Serves
  <2> QED
    BY <1>4, <1>6, <1>8, <1>9, <2>1, HandoverAssumption DEF HandoverAssumption
<1>10. ASSUME pc[lease] = "spawning" PROVE gen[lease] + 1 \notin markers
  BY <1>6, <1>10 DEF Due
<1>11. ASSUME pc[lease] = "draining"
       PROVE  Young = {} /\ \E h \in Heirs : ShortDrains => watch'[h] > timer'[lease]
  <2>1. PICK h \in Heirs : ShortDrains => watch[h] > timer[lease]
    BY <1>6, <1>11 DEF Serves
  <2>2. ShortDrains => watch'[h] > timer'[lease]
    BY <1>3, <1>6, <1>8, <1>11, <2>1
  <2> QED
    BY <1>6, <1>11, <2>2 DEF Serves
<1>12. Serves(lease)'
  BY <1>1, <1>2, <1>4, <1>6, <1>7, <1>9, <1>10, <1>11 DEF Serves
<1>13. \A h \in Heirs' : watch'[h] + Grace = timer'[h] + Watch
  <2> SUFFICES ASSUME NEW h \in Heirs PROVE watch'[h] + Grace = timer'[h] + Watch
    BY <1>2
  <2>1. watch[h] + Grace = timer[h] + Watch
    BY DEF Later
  <2> QED
    BY <1>3, <2>1, HandoverAssumption DEF HandoverAssumption
<1>14. Later'
  BY <1>1, <1>2, <1>5, <1>12, <1>13 DEF Later
<1>15. Untroubled'
  BY <1>1 DEF Untroubled
<1> QED
  BY <1>14, <1>15 DEF Goal

-----------------------------------------------------------------------------
(* The first relay: alone, and nobody's successor. *)

LEMMA FirstHeard ==
  ASSUME Calm, TypeOK, Title, First, Untroubled, NEW p \in Procs,
         HandStart(p) \/ Start(p) \/ Watchdog(p) \/ Rotate(p)
  PROVE  Untroubled' /\ (First' \/ Later') /\ (listening # {} => listening' # {})
<1>1. /\ \A q \in Procs : pc[q] \in Off \/ (q \in ByHand /\ q \in Young)
      /\ \A q \in Procs : gen[q] = 0 /\ pred[q] = Nobody
      /\ \A q \in Procs : q \notin Heirs
      /\ \A q, r \in ByHand : q = r
      /\ p \notin listening \/ pc[p] = "bound"
  BY DEF First, Young, Heirs, Off, Calm, Title, MayListen
<1>2. ~Watchdog(p)
  BY <1>1 DEF Watchdog, Listens, Handled, Off, Young
<1>3. ~Rotate(p)
  BY <1>1 DEF Rotate, Retire, SkipRotation, Drained, MainReturns, Stopped, Off, Young
<1>4. ~GetLease(p) /\ ~Insist(p) /\ ~StandDown(p) /\ ~MoveAlong(p)
  BY <1>1 DEF GetLease, Insist, StandDown, MoveAlong, Off, Young
<1>5. ASSUME pc[p] = "contending" PROVE lease = Nobody
  <2> SUFFICES ASSUME lease # Nobody PROVE FALSE
    OBVIOUS
  <2>1. lease \in Procs /\ pc[lease] \in {"building", "bound"}
    BY DEF First, TypeOK
  <2>2. lease \in ByHand /\ p \in ByHand
    BY <1>1, <1>5, <2>1 DEF Off
  <2> QED
    BY <1>1, <1>5, <2>1, <2>2
<1>6. ~RefuseToStart(p) /\ ~Replace(p)
  BY <1>5 DEF RefuseToStart, Replace
<1>7. CASE HandStart(p)
  <2>1. /\ pc' = [pc EXCEPT ![p] = "starting"] /\ p \in ByHand /\ pc[p] = "off"
        /\ UNCHANGED <<lease, listening, gen, pred>>
    BY <1>7 DEF HandStart, Goto
  <2>2. lease # p
    BY <2>1, HandoverAssumption DEF First, HandoverAssumption
  <2>3. Untroubled' /\ First'
    BY <1>1, <2>1, <2>2 DEF Untroubled, First, Young, TypeOK, Off
  <2> QED
    BY <2>1, <2>3
<1>8. CASE ReadNote(p)
  <2>1. /\ pc' = [pc EXCEPT ![p] = "contending"] /\ pc[p] = "starting"
        /\ UNCHANGED <<lease, listening, gen, pred>>
    BY <1>1, <1>8 DEF ReadNote, Goto, spawned
  <2>2. lease # p
    BY <2>1, HandoverAssumption DEF First, HandoverAssumption
  <2>3. Untroubled' /\ First'
    BY <1>1, <2>1, <2>2 DEF Untroubled, First, Young, TypeOK, Off
  <2> QED
    BY <2>1, <2>3
<1>9. CASE TakeFreePort(p)
  <2>1. /\ pc' = [pc EXCEPT ![p] = "building"] /\ pc[p] = "contending" /\ lease' = p
        /\ UNCHANGED <<listening, gen, pred>>
    BY <1>9 DEF TakeFreePort, TryHold, Goto, spawned
  <2>2. Untroubled' /\ First'
    BY <1>1, <2>1 DEF Untroubled, First, Young, TypeOK, Off
  <2> QED
    BY <2>1, <2>2
<1>10. CASE Bind(p)
  <2>1. /\ pc' = [pc EXCEPT ![p] = "bound"] /\ pc[p] = "building"
        /\ listening' = listening \union {p} /\ UNCHANGED <<lease, gen, pred>>
    BY <1>10 DEF Bind, Goto, spawned
  <2>2. Untroubled' /\ First'
    BY <1>1, <2>1 DEF Untroubled, First, Young, TypeOK, Off
  <2> QED
    BY <2>1, <2>2
<1>11. CASE Announce(p)
  <2>1. pc[p] = "bound" /\ lease = p /\ p \in listening /\ p # Nobody /\ p \in ByHand
    BY <1>1, <1>11, HandoverAssumption
       DEF Announce, Title, HasTitle, Untroubled, Off, HandoverAssumption
  <2>2. /\ pc' = [pc EXCEPT ![p] = "up"] /\ UNCHANGED <<lease, listening, gen, pred>>
    BY <1>1, <1>11 DEF Announce, Goto, spawned
  <2>3. \A q \in Procs : q # p => pc[q] \in Off
    BY <1>1, <2>1
  <2>4. Young' = {} /\ Heirs' = {}
    BY <2>2, <2>3 DEF Young, Heirs, TypeOK, Off
  <2>5. Serves(p)'
    BY <2>2, <2>4 DEF Serves, TypeOK
  <2>6. Untroubled'
    BY <2>1, <2>2, <2>3 DEF Untroubled, TypeOK, Off
  <2>7. Later'
    <3>1. \A q \in ByHand : pc'[q] # "off"
      BY <1>1, <2>1, <2>2 DEF TypeOK
    <3>2. \A q \in Procs : /\ pc'[q] \notin {"building", "bound"}
                           /\ pc'[q] \in {"up", "spawning", "draining"} => lease' = q
      BY <2>1, <2>2, <2>3 DEF TypeOK, Off
    <3> QED
      BY <2>1, <2>2, <2>4, <2>5, <3>1, <3>2 DEF Later
  <2> QED
    BY <2>2, <2>6, <2>7
<1> QED
  BY <1>2, <1>3, <1>4, <1>6, <1>7, <1>8, <1>9, <1>10, <1>11 DEF Start

(* Once nobody is left to listen, processes only end. *)
LEMMA SilentStep ==
  ASSUME Calm, TypeOK, Title, Silent, Untroubled, Next
  PROVE  Untroubled' /\ Silent' /\ listening = {}
<1>1. listening = {}
  BY DEF Silent, Title, MayListen, TypeOK, Off
<1>2. ASSUME NEW p \in Procs, HandStart(p) \/ Crash(p)
      PROVE  FALSE
  BY <1>2 DEF Silent, HandStart, Calm, Crash, TypeOK
<1>3. ASSUME NEW p \in Procs, Start(p)
      PROVE  FALSE
  BY <1>3 DEF Silent, Off, Start, ReadNote, TakeFreePort, RefuseToStart, Replace, GetLease,
              Insist, StandDown, Bind, Announce, MoveAlong
<1>4. ASSUME NEW p \in Procs, Rotate(p)
      PROVE  Untroubled' /\ Silent'
  <2>1. pc' = [pc EXCEPT ![p] = "gone"]
    BY <1>4 DEF Silent, Off, Rotate, Retire, SkipRotation, Drained, MainReturns, Stopped, Die,
                Goto
  <2>2. listening' = {}
    BY <1>1, <1>4 DEF Silent, Off, Rotate, Retire, SkipRotation, Drained, MainReturns, Stopped,
                      Die
  <2> QED
    BY <2>1, <2>2 DEF Untroubled, Silent, Off, TypeOK
<1>5. ASSUME NEW p \in Procs, Watchdog(p) \/ \E child \in Procs : SpawnSuccessor(p, child)
      PROVE  FALSE
  BY <1>1, <1>5 DEF Watchdog, Listens, Silent, Off, SpawnSuccessor
<1>6. ASSUME NEW p \in Procs, Accept(p) \/ Admit(p) \/ Answer(p)
      PROVE  Untroubled' /\ Silent'
  <2>1. UNCHANGED <<pc, listening>>
    BY <1>6 DEF Accept, Admit, Answer
  <2> QED
    BY <2>1 DEF Untroubled, Silent
<1>7. CASE Tick
  <2>1. UNCHANGED <<pc, listening>>
    BY <1>7 DEF Tick
  <2> QED
    BY <1>1, <2>1 DEF Untroubled, Silent
<1> QED
  BY <1>1, <1>2, <1>3, <1>4, <1>5, <1>6, <1>7 DEF Next

LEMMA HeardStep == Calm /\ HeardInv /\ [Next]_vars => HeardInv'
<1> SUFFICES ASSUME Calm, HandoverInv, Untroubled, First \/ Later \/ Silent, [Next]_vars
             PROVE  Untroubled' /\ (First' \/ Later' \/ Silent')
  BY HandoverStep DEF HeardInv
<1>1. TypeOK /\ Title
  BY DEF HandoverInv
<1>2. ASSUME UNCHANGED <<pc, lease, listening, gen, pred, notes, markers, timer, watch>>
      PROVE  Untroubled' /\ (First' \/ Later' \/ Silent')
  BY <1>2 DEF Untroubled, First, Later, Silent, Serves, Young, Heirs
<1>3. CASE UNCHANGED vars
  BY <1>2, <1>3 DEF vars
<1>4. ASSUME NEW p \in Procs, Accept(p) \/ Admit(p) \/ Answer(p)
      PROVE  Untroubled' /\ (First' \/ Later' \/ Silent')
  BY <1>2, <1>4 DEF Accept, Admit, Answer, spawned, files
<1>5. ASSUME NEW p \in Procs PROVE ~Crash(p)
  BY <1>1 DEF Calm, Crash, TypeOK
<1>6. CASE First /\ Next
  <2>1. CASE Tick
    <3>1. UNCHANGED <<pc, lease, listening, gen, pred>>
      BY <2>1 DEF Tick, spawned
    <3> QED
      BY <1>6, <3>1 DEF Untroubled, First, Young
  <2>2. ASSUME NEW p \in Procs, NEW child \in Procs PROVE ~SpawnSuccessor(p, child)
    BY <1>6 DEF First, SpawnSuccessor, Young, Off
  <2> QED
    BY <1>1, <1>4, <1>5, <1>6, <2>1, <2>2, FirstHeard DEF Next
<1>7. CASE Later /\ Next
  <2>1. CASE Tick
    BY <1>1, <1>7, <2>1, TickHeard DEF Goal
  <2>2. ASSUME NEW p \in Procs, HandStart(p) \/ Start(p) \/ Watchdog(p) \/ Rotate(p)
        PROVE  Untroubled' /\ (Later' \/ Silent')
    <3>1. ReadNote(p) \/ GetLease(p) \/ Bind(p) \/ Announce(p) \/ Watchdog(p) \/ Retire(p)
            \/ SkipRotation(p) \/ Drained(p) \/ MainReturns(p)
      BY <1>1, <1>7, <2>2, NobodyIsAsked DEF Start, Rotate
    <3> QED
      BY <1>1, <1>7, <3>1, ReadNoteHeard, GetLeaseHeard, BindHeard, AnnounceHeard,
         WatchdogHeard, RetireHeard, SkipHeard, GoneHeard DEF Goal
  <2>3. ASSUME NEW p \in Procs, NEW child \in Procs, SpawnSuccessor(p, child)
        PROVE  Untroubled' /\ Later'
    BY <1>1, <1>7, <2>3, SpawnHeard DEF Goal
  <2> QED
    BY <1>4, <1>5, <1>7, <2>1, <2>2, <2>3 DEF Next
<1>8. CASE Silent /\ Next
  BY <1>1, <1>8, SilentStep
<1> QED
  BY <1>3, <1>6, <1>7, <1>8

\* The watchdog ends an heir that does not have the lease.
EndsAnHeir == \E h \in listening : pc[h] = "acquiring" /\ watch[h] = 0 /\ lease # h

(* Who stops listening leaves the one that holds the lease, or its heir; or *)
(* it is an heir itself, and then the drain was not short.                  *)
LEMMA UnheardStep ==
  ASSUME Calm, HeardInv, [Next]_vars, listening # {}
  PROVE  listening' # {} \/ (~ShortDrains /\ EndsAnHeir)
<1>1. TypeOK /\ Title /\ Untroubled /\ (First \/ Later \/ Silent)
  BY DEF HeardInv, HandoverInv
<1>2. ASSUME NEW p \in Procs PROVE ~Crash(p)
  BY <1>1 DEF Calm, Crash, TypeOK
<1>3. ASSUME listening' = listening PROVE listening' # {}
  BY <1>3
<1>4. ASSUME NEW p \in Procs, NEW child \in Procs,
             Accept(p) \/ Admit(p) \/ Answer(p) \/ SpawnSuccessor(p, child)
      PROVE  listening' # {}
  BY <1>4, <1>3 DEF Accept, Admit, Answer, SpawnSuccessor
<1>5. CASE Tick \/ UNCHANGED vars
  BY <1>3, <1>5 DEF Tick, vars
<1>6. CASE First /\ \E p \in Procs : HandStart(p) \/ Start(p) \/ Watchdog(p) \/ Rotate(p)
  BY <1>1, <1>6, FirstHeard
<1>7. ASSUME Later, NEW p \in Procs, HandStart(p) \/ Start(p) \/ Watchdog(p) \/ Rotate(p)
      PROVE  listening' # {} \/ (~ShortDrains /\ EndsAnHeir)
  <2>1. ReadNote(p) \/ GetLease(p) \/ Bind(p) \/ Announce(p) \/ Watchdog(p) \/ Retire(p)
          \/ SkipRotation(p) \/ Drained(p) \/ MainReturns(p)
    BY <1>1, <1>7, NobodyIsAsked DEF Start, Rotate
  <2>2. CASE ReadNote(p) \/ GetLease(p) \/ Announce(p) \/ SkipRotation(p) \/ Bind(p)
    BY <2>2, <1>3 DEF ReadNote, GetLease, Announce, SkipRotation, Bind
  <2>3. CASE Retire(p)
    <3>1. lease = p /\ p # Nobody /\ listening' = listening \ {p} /\ pc[p] = "spawning"
      BY <1>7, <2>3, HandoverAssumption DEF Retire, Later, HandoverAssumption
    <3>2. PICK h \in Heirs : watch[h] = Watch
      BY <1>7, <2>3, <3>1 DEF Later, Serves, Retire
    <3>3. h \in listening /\ h # p
      BY <1>1, <3>1 DEF Heirs, Untroubled
    <3> QED
      BY <3>1, <3>3
  <2>4. CASE Drained(p) \/ MainReturns(p)
    <3>1. lease = p /\ p # Nobody /\ listening' = listening \ {p} /\ pc[p] = "draining"
      BY <1>7, <2>4, HandoverAssumption
         DEF Drained, MainReturns, Die, Later, HandoverAssumption
    <3>2. p \notin listening
      BY <1>1, <3>1 DEF Title, MayListen
    <3> QED
      BY <1>3, <3>1, <3>2
  <2>5. CASE Watchdog(p)
    <3>1. CASE lease = p
      BY <1>3, <2>5, <3>1 DEF Watchdog
    <3>2. CASE lease # p /\ ~ShortDrains
      <4>1. p \in listening /\ watch[p] = 0 /\ pc[p] = "acquiring"
        BY <1>1, <1>7, <2>5, <3>2 DEF Watchdog, Listens, Handled, Later, Untroubled
      <4> QED
        BY <3>2, <4>1 DEF EndsAnHeir
    <3>3. CASE lease # p /\ ShortDrains
      <4>1. listening' = listening \ {p} /\ watch[p] = 0
        BY <2>5, <3>3 DEF Watchdog, Die
      <4>2. CASE lease # Nobody /\ pc[lease] \in {"up", "spawning"}
        <5>1. lease \in listening
          BY <1>1, <4>2 DEF TypeOK, Untroubled
        <5> QED
          BY <3>3, <4>1, <5>1
      <4>3. CASE lease = Nobody \/ pc[lease] = "draining"
        <5>1. PICK h \in Heirs : watch[h] > 0
          <6>1. CASE lease = Nobody
            BY <1>7, <3>3, <6>1 DEF Later
          <6>2. CASE lease # Nobody
            <7>1. PICK h \in Heirs : watch[h] > timer[lease]
              BY <1>7, <3>3, <4>3, <6>2 DEF Later, Serves
            <7>2. watch[h] > 0
              BY <1>1, <6>2, <7>1 DEF TypeOK, Heirs
            <7> QED
              BY <7>2
          <6> QED
            BY <6>1, <6>2
        <5>2. h \in listening /\ h # p
          BY <1>1, <4>1, <5>1 DEF Heirs, Untroubled
        <5> QED
          BY <4>1, <5>2
      <4> QED
        BY <1>7, <4>2, <4>3 DEF Later, Serves
    <3> QED
      BY <3>1, <3>2, <3>3
  <2> QED
    BY <2>1, <2>2, <2>3, <2>4, <2>5
<1>8. CASE Silent /\ Next
  BY <1>1, <1>8, SilentStep
<1> QED
  BY <1>1, <1>2, <1>4, <1>5, <1>6, <1>7, <1>8 DEF Next

(* rotate.rs, main.rs: whatever the drain timeout, the one way to nobody    *)
(* listening is the watchdog that ends a successor which has waited a whole *)
(* interval for the lease: no order of rotations, late successors, skipped  *)
(* rotations and ends of processes does it.                                 *)
THEOREM HandoverNeverUnheard ==
  ASSUME Calm
  PROVE  Spec => NeverUnheard
<1>1. Init => HeardInv
  BY HeardInitially
<1>2. HeardInv /\ [Next]_vars => HeardInv'
  BY HeardStep
<1>3. HeardInv /\ [Next]_vars =>
        [listening # {} /\ listening' = {}
           => \E h \in listening : pc[h] = "acquiring" /\ watch[h] = 0 /\ lease # h]_vars
  BY UnheardStep DEF EndsAnHeir
<1> QED
  BY <1>1, <1>2, <1>3, PTL DEF Spec, NeverUnheard

(* "No connection is refused, because at every moment at least one process *)
(* is listening": with drains that end before the watchdog looks, the       *)
(* documented promise as it is written.                                     *)
THEOREM HandoverAlwaysHeard ==
  ASSUME Calm, ShortDrains
  PROVE  Spec => AlwaysHeard
<1>1. Init => HeardInv
  BY HeardInitially
<1>2. HeardInv /\ [Next]_vars => HeardInv'
  BY HeardStep
<1>3. HeardInv /\ [Next]_vars => [listening # {} => listening' # {}]_vars
  BY UnheardStep
<1> QED
  BY <1>1, <1>2, <1>3, PTL DEF Spec, AlwaysHeard
=============================================================================
