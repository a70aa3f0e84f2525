---------------------------- MODULE BesideProofs ----------------------------
(***************************************************************************)
(* The parts of the relay beside the way of a request: the exporter, the   *)
(* vocabularies, the claim on the tunnels and the keeper (Workers), the    *)
(* settings, the dashboard and the tunnels, for any number of requests,    *)
(* vocabularies, relays, keepers, editors and connectors.                  *)
(*                                                                         *)
(* Each theorem is about one specification.  A name that several of them   *)
(* declare is declared once, and stands for that of the specification the  *)
(* theorem is about.  Parameters is what a module's ASSUME says of its     *)
(* constants.  Of Workers, a step of one part leaves the others' variables *)
(* alone.                                                                  *)
(***************************************************************************)
EXTENDS Workers, SettingsPromise, PanelPromise, TunnelPromise,
        Integers, Sequences, FiniteSetTheorems, SequenceTheorems, TLAPS

CONSTANTS
  \* of Settings
  Backends, Routes, KeyIds, Secrets,
  MaxEdits, MaxFailures, MaxCrashes, MaxHangUps, MaxCommands,
  \* of Panel
  Addresses, Remote, Passwords, NoPassword, Attempts,
  Tracked, Ttl, CodeTtl, MaxTime, MaxRestarts,
  \* of Tunnel
  Callers, Ensure, Procs, AutoStart

VARIABLES
  \* of Settings
  item, next, page, outside,
  \* of Panel
  global, per, pending, lastMint, arg,
  \* of Tunnel
  stopping, took, again

Settings == INSTANCE Settings
Panel    == INSTANCE Panel
Tunnel   == INSTANCE Tunnel

-----------------------------------------------------------------------------
(* The updater.  While it builds, a binary that was there lies parked.      *)

UpdaterType ==
  /\ update \in {"idle", "pulling", "parking", "building"}
  /\ moved \in BOOLEAN /\ binary \in BOOLEAN /\ parked \in BOOLEAN
  /\ abandoned \in BOOLEAN
Restorable ==
  IF update = "building" THEN binary \/ abandoned \/ (moved /\ parked)
                         ELSE binary \/ abandoned
BinaryInv == UpdaterType /\ Restorable

LEMMA ServiceStep ==
  ASSUME BinaryInv, Service!Next
  PROVE  BinaryInv'
<1> USE DEF BinaryInv, UpdaterType, Restorable
<1>1. ASSUME UNCHANGED Service!updater
      PROVE  BinaryInv'
  BY <1>1 DEF Service!updater
<1>2. ASSUME Service!Gone
      PROVE  BinaryInv'
  BY <1>2 DEF Service!Gone
<1>3. ASSUME NEW k \in Keepers, \/ Service!KeeperStep(k) \/ Service!Terminate(k)
                                \/ Service!Kill(k) \/ Service!HandOver(k) \/ Service!Boot(k)
      PROVE  BinaryInv'
  BY <1>1, <1>3 DEF Service!KeeperStep, Service!Check, Service!Claim, Service!Look, Service!Run,
       Service!Wait, Service!Sleep, Service!End, Service!Terminate, Service!Kill,
       Service!HandOver, Service!Boot
<1>4. CASE Service!InstallService \/ Service!UninstallService
  BY <1>1, <1>4 DEF Service!InstallService, Service!UninstallService
<1>5. ASSUME NEW ending \in {"stop", "restart", "into"},
             Service!AskToLeave(ending) \/ Service!Exec(ending)
      PROVE  BinaryInv'
  BY <1>1, <1>2, <1>5 DEF Service!AskToLeave, Service!Exec
<1>6. CASE Service!Update
  BY <1>6 DEF Service!Update
<1>7. CASE Service!LeaveForGood \/ Service!Crash \/ Service!Rotate
  BY <1>2, <1>7 DEF Service!LeaveForGood, Service!Crash, Service!Rotate
<1>8. CASE Service!Pulled
  BY <1>8 DEF Service!Pulled
<1>9. CASE Service!Park
  BY <1>9 DEF Service!Park
<1>10. CASE Service!Built
  BY <1>10 DEF Service!Built, Service!Restored
<1>11. CASE Service!Orphan
  BY <1>11 DEF Service!Orphan
<1>12. CASE Service!StartByHand
  BY <1>1, <1>12 DEF Service!StartByHand
<1> QED
  BY <1>3, <1>4, <1>5, <1>6, <1>7, <1>8, <1>9, <1>10, <1>11, <1>12 DEF Service!Next

(* update.rs build and restore: once an update is over, a binary lies where *)
(* the keeper looks for it, unless its process went while it built.         *)
THEOREM WorkersBinaryIsThere == Spec => []BinaryIsThere
<1>1. Init => BinaryInv
  BY DEF Init, Service!Init, BinaryInv, UpdaterType, Restorable
<1>2. ASSUME BinaryInv, [Next]_vars
      PROVE  BinaryInv'
  <2>1. CASE ServiceWorks
    BY <1>2, <2>1, ServiceStep DEF ServiceWorks
  <2>2. CASE UNCHANGED service
    BY <1>2, <2>2 DEF service, BinaryInv, UpdaterType, Restorable
  <2> QED
    BY <1>2, <2>1, <2>2 DEF Next, vars, SpansWork, VocabularyWorks, ClaimsWork
<1>3. BinaryInv => BinaryIsThere
  BY DEF BinaryInv, UpdaterType, Restorable, BinaryIsThere, Service!BinaryIsThere
<1> QED
  BY <1>1, <1>2, <1>3, PTL DEF Spec

-----------------------------------------------------------------------------
(* The exporter. *)

(* The library's operator, by the two names it has here. *)
LEMMA SpansCardinality ==
  ASSUME NEW S
  PROVE  Spans!Cardinality(S) = Cardinality(S)
BY DEF Spans!Cardinality, Cardinality

Runs == {"plain", "sampled", "spare"}
SpansType ==
  /\ lf \in [ready : BOOLEAN, errors : BOOLEAN]
  /\ req \in [Traced -> {"idle", "ended", "spanned"} \union Runs]
  /\ queue \in Seq(Traced) /\ batch \in Seq(Traced)
  /\ stats \in [queued : Nat, sent : Nat, dropped : Nat, failed : Nat]
  /\ exporter \in {"idle", "filling", "filled", "gone"}
  /\ backoff \in Nat

(* A batch that fills has room; between two batches there is none. *)
SpansInv ==
  /\ SpansType
  /\ IsFiniteSet(Spans!Spanned)
  /\ Spans!SpansAccounted
  /\ exporter = "idle" => batch = <<>>
  /\ exporter = "filling" => Len(batch) < BatchSize

Reported  == stats.sent + stats.failed + stats.dropped
Somewhere == Reported + Len(queue) + Len(batch)

LEMMA SpanSizes ==
  ASSUME SpansType
  PROVE  /\ Len(queue) \in Nat /\ Len(batch) \in Nat
         /\ stats.sent \in Nat /\ stats.failed \in Nat /\ stats.dropped \in Nat
         /\ stats.queued \in Nat /\ Reported \in Nat
BY DEF SpansType, Reported

(* One more request that left a span. *)
LEMMA OneMoreSpan ==
  ASSUME SpansInv, NEW r \in Traced, req[r] # "spanned", req' = [req EXCEPT ![r] = "spanned"]
  PROVE  /\ IsFiniteSet(Spans!Spanned)'
         /\ Cardinality(Spans!Spanned)' = Cardinality(Spans!Spanned) + 1
         /\ Cardinality(Spans!Spanned) \in Nat
<1>1. Spans!Spanned' = Spans!Spanned \union {r} /\ r \notin Spans!Spanned
  BY DEF Spans!Spanned, SpansInv, SpansType
<1> QED
  BY <1>1, FS_AddElement, FS_CardinalityType DEF SpansInv

LEMMA SameSpans ==
  ASSUME SpansInv, \A r \in Traced : req'[r] = "spanned" <=> req[r] = "spanned"
  PROVE  Spans!Spanned' = Spans!Spanned /\ Cardinality(Spans!Spanned) \in Nat
<1>1. Spans!Spanned' = Spans!Spanned
  BY DEF Spans!Spanned
<1> QED
  BY <1>1, FS_CardinalityType DEF SpansInv

LEMMA AccountedFor ==
  ASSUME SpansType, IsFiniteSet(Spans!Spanned)
  PROVE  /\ Spans!SpansAccounted =>
              /\ Somewhere = Cardinality(Spans!Spanned)
              /\ Len(queue) <= Capacity /\ Len(batch) <= BatchSize
         /\ Somewhere = Cardinality(Spans!Spanned)
            /\ Len(queue) <= Capacity /\ Len(batch) <= BatchSize
              => Spans!SpansAccounted
BY SpansCardinality DEF Spans!SpansAccounted, Somewhere, Reported

Bounds == /\ Len(queue) <= Capacity /\ Len(batch) <= BatchSize
          /\ exporter = "idle" => batch = <<>>
          /\ exporter = "filling" => Len(batch) < BatchSize
Accounts == IsFiniteSet(Spans!Spanned) /\ Somewhere = Cardinality(Spans!Spanned)

LEMMA SpansInvIs == SpansInv <=> SpansType /\ Accounts /\ Bounds
BY AccountedFor DEF SpansInv, Accounts, Bounds

LEMMA SpansInvNext == SpansInv' <=> (SpansType /\ Accounts /\ Bounds)'
BY SpansInvIs, PTL

LEMMA StillAccounted ==
  ASSUME SpansInv, SpansType', Bounds', Somewhere' = Somewhere,
         \A r \in Traced : req'[r] = "spanned" <=> req[r] = "spanned"
  PROVE  SpansInv'
<1>1. Accounts
  BY SpansInvIs
<1>2. Accounts'
  BY <1>1, SameSpans DEF Accounts
<1> QED
  BY <1>2, SpansInvNext

LEMMA OneMoreAccounted ==
  ASSUME SpansInv, SpansType', Bounds', Somewhere' = Somewhere + 1,
         NEW r \in Traced, req[r] # "spanned", req' = [req EXCEPT ![r] = "spanned"]
  PROVE  SpansInv'
<1>1. Accounts
  BY SpansInvIs
<1>2. Accounts'
  BY <1>1, OneMoreSpan DEF Accounts
<1> QED
  BY <1>2, SpansInvNext

LEMMA SpansStep ==
  ASSUME SpansInv, Spans!Next
  PROVE  SpansInv'
<1> USE DEF SpansInv
<1>0. /\ Capacity \in Nat \ {0} /\ BatchSize \in Nat \ {0}
      /\ Len(queue) \in Nat /\ Len(batch) \in Nat
      /\ stats.sent \in Nat /\ stats.failed \in Nat /\ stats.dropped \in Nat
      /\ stats.queued \in Nat /\ Reported \in Nat
  BY WorkersAssumption, SpanSizes DEF Spans!Parameters
<1>1. ASSUME NEW r \in Traced, Spans!Begin(r)
      PROVE  SpansInv'
  <2>1. /\ UNCHANGED <<lf, queue, stats, exporter, batch, backoff>>
        /\ \A q \in Traced : req'[q] = "spanned" <=> req[q] = "spanned"
    BY <1>1 DEF Spans!Begin, SpansType
  <2>2. SpansType'
    BY <1>1 DEF Spans!Begin, SpansType, Runs
  <2> QED
    BY <2>1, <2>2, SameSpans DEF Spans!SpansAccounted
<1>2. ASSUME NEW r \in Traced, Spans!Record(r)
      PROVE  SpansInv'
  <2>1. /\ req[r] \in Runs /\ UNCHANGED <<lf, exporter, seen, batch, backoff, switches>>
        /\ \/ req' = [req EXCEPT ![r] = "spanned"] /\ Spans!Submit(r)
           \/ req' = [req EXCEPT ![r] = "ended"] /\ UNCHANGED <<queue, stats>>
    BY <1>2 DEF Spans!Record, Runs
  <2>2. CASE req' = [req EXCEPT ![r] = "ended"] /\ UNCHANGED <<queue, stats>>
    <3>1. \A q \in Traced : req'[q] = "spanned" <=> req[q] = "spanned"
      BY <2>1, <2>2 DEF SpansType, Runs
    <3>2. SpansType'
      BY <2>1, <2>2 DEF SpansType
    <3> QED
      BY <2>1, <2>2, <3>1, <3>2, SameSpans DEF Spans!SpansAccounted
  <2>3. CASE req' = [req EXCEPT ![r] = "spanned"] /\ Spans!Submit(r)
    <3>1. req[r] # "spanned"
      BY <2>1 DEF Runs
    <3>2. CASE Len(queue) < Capacity
      <4>1. queue' = Append(queue, r) /\ stats' = [stats EXCEPT !.queued = @ + 1]
        BY <2>3, <3>2 DEF Spans!Submit, Spans!Counted
      <4>2. Len(queue') = Len(queue) + 1 /\ queue' \in Seq(Traced)
        BY <4>1 DEF SpansType
      <4>3. /\ stats'.sent = stats.sent /\ stats'.failed = stats.failed
            /\ stats'.dropped = stats.dropped
            /\ stats' \in [queued : Nat, sent : Nat, dropped : Nat, failed : Nat]
        BY <4>1 DEF SpansType
      <4>4. SpansType'
        BY <2>1, <2>3, <4>2, <4>3 DEF SpansType
      <4>5. Reported' = Reported /\ Len(queue') = Len(queue) + 1 /\ Len(batch') = Len(batch)
        BY <2>1, <4>2, <4>3 DEF Reported
      <4>6. Somewhere' = Somewhere + 1
        BY <1>0, <4>5 DEF Somewhere
      <4>7. Len(queue') <= Capacity
        BY <1>0, <3>2, <4>5
      <4>8. /\ Len(batch') <= BatchSize
            /\ exporter' = "idle" => batch' = <<>>
            /\ exporter' = "filling" => Len(batch') < BatchSize
        BY <2>1 DEF Spans!SpansAccounted
      <4> QED
        BY <2>3, <3>1, <4>4, <4>6, <4>7, <4>8, OneMoreAccounted DEF Bounds
    <3>3. CASE ~ (Len(queue) < Capacity)
      <4>1. queue' = queue /\ stats' = [stats EXCEPT !.dropped = @ + 1]
        BY <2>3, <3>3 DEF Spans!Submit, Spans!Counted
      <4>2. /\ stats'.sent = stats.sent /\ stats'.failed = stats.failed
            /\ stats'.dropped = stats.dropped + 1
            /\ stats' \in [queued : Nat, sent : Nat, dropped : Nat, failed : Nat]
        BY <4>1 DEF SpansType
      <4>3. SpansType'
        BY <2>1, <2>3, <4>1, <4>2 DEF SpansType
      <4>4. Reported' = Reported + 1 /\ Len(queue') = Len(queue) /\ Len(batch') = Len(batch)
        BY <1>0, <2>1, <4>1, <4>2 DEF Reported
      <4>5. Somewhere' = Somewhere + 1
        BY <1>0, <4>4 DEF Somewhere
      <4>6. Len(queue') <= Capacity
        BY <4>1 DEF Spans!SpansAccounted
      <4>7. /\ Len(batch') <= BatchSize
            /\ exporter' = "idle" => batch' = <<>>
            /\ exporter' = "filling" => Len(batch') < BatchSize
        BY <2>1 DEF Spans!SpansAccounted
      <4> QED
        BY <2>3, <3>1, <4>3, <4>5, <4>6, <4>7, OneMoreAccounted DEF Bounds
    <3> QED
      BY <3>2, <3>3
  <2> QED
    BY <2>1, <2>2, <2>3
<1>3. ASSUME UNCHANGED req, Spans!Switch \/ Spans!Snapshot \/ Spans!Deadline
      PROVE  SpansInv'
  <2>1. UNCHANGED <<queue, stats, batch, backoff>>
    BY <1>3 DEF Spans!Switch, Spans!Snapshot, Spans!Deadline
  <2>2. SpansType'
    BY <1>3, <2>1 DEF Spans!Switch, Spans!Snapshot, Spans!Deadline, Spans!relay, SpansType
  <2>3. /\ exporter' = "idle" => batch' = <<>>
        /\ exporter' = "filling" => Len(batch') < BatchSize
    <3>1. Len(<<>>) = 0
      OBVIOUS
    <3> QED
      BY <1>0, <1>3, <2>1, <3>1 DEF Spans!Switch, Spans!Snapshot, Spans!Deadline
  <2> QED
    BY <1>3, <2>1, <2>2, <2>3, SameSpans DEF Spans!SpansAccounted
<1>4. CASE Spans!Receive
  <2>1. /\ queue # <<>> /\ batch' = Append(batch, Head(queue)) /\ queue' = Tail(queue)
        /\ UNCHANGED <<lf, req, stats, backoff>> /\ exporter = "filling"
        /\ exporter' = IF Len(batch') >= BatchSize THEN "filled" ELSE "filling"
    BY <1>4 DEF Spans!Receive, Spans!relay
  <2>2. /\ Head(queue) \in Traced /\ queue' \in Seq(Traced) /\ batch' \in Seq(Traced)
        /\ Len(queue') = Len(queue) - 1 /\ Len(batch') = Len(batch) + 1
    BY <2>1 DEF SpansType
  <2>3. SpansType'
    BY <2>1, <2>2 DEF SpansType
  <2>4. \A q \in Traced : req'[q] = "spanned" <=> req[q] = "spanned"
    BY <2>1
  <2>5. Somewhere' = Somewhere
    <3>1. Reported' = Reported /\ Len(queue') = Len(queue) - 1 /\ Len(batch') = Len(batch) + 1
      BY <2>1, <2>2 DEF Reported
    <3> QED
      BY <1>0, <3>1 DEF Somewhere
  <2>6. Len(queue') <= Capacity /\ Len(batch') <= BatchSize
    BY <1>0, <2>1, <2>2 DEF Spans!SpansAccounted
  <2>7. exporter' # "idle" /\ (exporter' = "filling" => Len(batch') < BatchSize)
    BY <1>0, <2>1, <2>2
  <2> QED
    BY <2>3, <2>4, <2>5, <2>6, <2>7, StillAccounted DEF Bounds
<1>5. CASE Spans!SwitchedOff \/ Spans!Post
  <2>1. PICK what \in {"sent", "failed", "dropped"} : stats' = [stats EXCEPT ![what] = @ + Len(batch)]
    BY <1>5 DEF Spans!SwitchedOff, Spans!Post, Spans!Counted
  <2>2. /\ batch' = <<>> /\ exporter' = "idle" /\ UNCHANGED <<lf, req, queue>>
        /\ backoff' \in Nat
    BY <1>5 DEF Spans!SwitchedOff, Spans!Post, Spans!relay, SpansType
  <2>3. /\ Reported' = Reported + Len(batch)
        /\ stats' \in [queued : Nat, sent : Nat, dropped : Nat, failed : Nat]
    <3>1. stats' \in [queued : Nat, sent : Nat, dropped : Nat, failed : Nat]
      <4> USE <1>0
      <4>1. CASE what = "sent"
        BY <2>1, <4>1 DEF SpansType
      <4>2. CASE what = "failed"
        BY <2>1, <4>2 DEF SpansType
      <4>3. CASE what = "dropped"
        BY <2>1, <4>3 DEF SpansType
      <4> QED
        BY <4>1, <4>2, <4>3
    <3>2. /\ stats'.sent = IF what = "sent" THEN stats.sent + Len(batch) ELSE stats.sent
          /\ stats'.failed = IF what = "failed" THEN stats.failed + Len(batch) ELSE stats.failed
          /\ stats'.dropped = IF what = "dropped" THEN stats.dropped + Len(batch) ELSE stats.dropped
      BY <2>1 DEF SpansType
    <3>3. Reported' = Reported + Len(batch)
      <4>1. PICK b \in Nat : b = Len(batch)
        BY <1>0
      <4>2. CASE what = "sent"
        BY <1>0, <3>2, <4>1, <4>2 DEF Reported
      <4>3. CASE what = "failed"
        BY <1>0, <3>2, <4>1, <4>3 DEF Reported
      <4>4. CASE what = "dropped"
        BY <1>0, <3>2, <4>1, <4>4 DEF Reported
      <4> QED
        BY <2>1, <4>2, <4>3, <4>4
    <3> QED
      BY <3>1, <3>3
  <2>4. SpansType' /\ Len(batch') = 0
    BY <2>2, <2>3 DEF SpansType
  <2>5. \A q \in Traced : req'[q] = "spanned" <=> req[q] = "spanned"
    BY <2>2
  <2>7. Somewhere' = Somewhere
    BY <1>0, <2>2, <2>3, <2>4 DEF Somewhere
  <2>8. Len(queue') <= Capacity /\ Len(batch') <= BatchSize
    BY <1>0, <2>2, <2>4 DEF Spans!SpansAccounted
  <2> QED
    BY <2>2, <2>4, <2>5, <2>7, <2>8, StillAccounted DEF Bounds
<1>6. CASE Spans!Exit
  <2>1. /\ UNCHANGED <<lf, queue, stats, batch, backoff>> /\ exporter' = "gone"
        /\ \A q \in Traced : req'[q] = "spanned" <=> req[q] = "spanned"
    BY <1>6 DEF Spans!Exit
  <2>2. SpansType'
    BY <1>6, <2>1 DEF Spans!Exit, SpansType
  <2> QED
    BY <2>1, <2>2, SameSpans DEF Spans!SpansAccounted
<1> QED
  BY <1>1, <1>2, <1>3, <1>4, <1>5, <1>6
     DEF Spans!Next, Spans!Switch, Spans!Snapshot, Spans!Deadline, Spans!relay

(* langfuse.rs submit and run: every span a request earned waits, is in the *)
(* batch, or was sent, failed or dropped, and the queue keeps its bound.    *)
THEOREM WorkersSpansAccounted == Spec => []SpansAccounted
<1>1. Init => SpansInv
  <2> SUFFICES ASSUME Init PROVE SpansInv
    OBVIOUS
  <2>0. {Capacity, BatchSize} \subseteq Nat \ {0}
    BY WorkersAssumption DEF Spans!Parameters
  <2>1. SpansType /\ Len(queue) = 0 /\ Len(batch) = 0 /\ batch = <<>> /\ exporter = "idle"
        /\ stats.sent = 0 /\ stats.failed = 0 /\ stats.dropped = 0
    BY DEF Init, Spans!Init, SpansType
  <2>2. Spans!Spanned = {}
    BY DEF Init, Spans!Init, Spans!Spanned
  <2>3. IsFiniteSet(Spans!Spanned) /\ Cardinality(Spans!Spanned) = 0
    BY <2>2, FS_EmptySet
  <2>4. Spans!SpansAccounted
    BY <2>0, <2>1, <2>3, SpansCardinality DEF Spans!SpansAccounted
  <2> QED
    BY <2>1, <2>3, <2>4 DEF SpansInv
<1>2. ASSUME SpansInv, [Next]_vars
      PROVE  SpansInv'
  <2>1. CASE SpansWork
    BY <1>2, <2>1, SpansStep DEF SpansWork
  <2>2. CASE UNCHANGED spans
    BY <1>2, <2>2 DEF spans, SpansInv, SpansType, Spans!SpansAccounted, Spans!Spanned
  <2> QED
    BY <1>2, <2>1, <2>2 DEF Next, vars, ServiceWorks, VocabularyWorks, ClaimsWork
<1>3. SpansInv => SpansAccounted
  BY DEF SpansInv, SpansAccounted
<1> QED
  BY <1>1, <1>2, <1>3, PTL DEF Spec

-----------------------------------------------------------------------------
(* The vocabularies.  One task loads at a time, and what it loads is not    *)
(* cached while it does; what it found is right, or known not to be.        *)

Known(n, enc) == enc = Vocabulary!Loaded(n) \/ n \in installing \union raced \union aside

VocabularyInv ==
  /\ task \in [Tasks -> {"idle", "waiting", "loading", "loaded"}]
  /\ want \in [Tasks -> Names \union {None}]
  /\ DOMAIN got = Tasks /\ DOMAIN cache = Names
  /\ \A t \in Tasks : task[t] # "idle" => want[t] \in Names
  /\ \A t \in Tasks : task[t] \in {"loading", "loaded"} => loader = t /\ cache[want[t]] = None
  /\ \A t \in Tasks : task[t] = "loaded" => Known(want[t], got[t])
  /\ \A n \in Names : cache[n] # None => Known(n, cache[n])

LEMMA VocabularyStep ==
  ASSUME VocabularyInv, Vocabulary!Next
  PROVE  VocabularyInv'
<1> USE DEF VocabularyInv, Known
<1>0. None \notin Tasks
  BY WorkersAssumption DEF Vocabulary!Parameters
<1>1. ASSUME NEW t \in Tasks, NEW n \in Names, Vocabulary!Get(t, n)
      PROVE  VocabularyInv'
  BY <1>1 DEF Vocabulary!Get, Vocabulary!Found, Vocabulary!files, Vocabulary!Loaded
<1>2. ASSUME NEW t \in Tasks, Vocabulary!Lock(t)
      PROVE  VocabularyInv'
  BY <1>0, <1>2 DEF Vocabulary!Lock, Vocabulary!Found, Vocabulary!files, Vocabulary!Loaded
<1>3. ASSUME NEW t \in Tasks, Vocabulary!Load(t)
      PROVE  VocabularyInv'
  BY <1>3 DEF Vocabulary!Load, Vocabulary!files, Vocabulary!Loaded
<1>4. ASSUME NEW t \in Tasks, Vocabulary!Keep(t)
      PROVE  VocabularyInv'
  BY <1>0, <1>4 DEF Vocabulary!Keep, Vocabulary!files, Vocabulary!Loaded
<1>5. ASSUME NEW t \in Tasks, Vocabulary!HangUp(t)
      PROVE  VocabularyInv'
  BY <1>0, <1>5 DEF Vocabulary!HangUp, Vocabulary!files, Vocabulary!Loaded
<1>6. ASSUME NEW n \in Names, Vocabulary!Write(n) \/ Vocabulary!Install(n)
      PROVE  VocabularyInv'
  BY <1>6 DEF Vocabulary!Write, Vocabulary!Install, Vocabulary!Loaded
<1>7. ASSUME NEW n \in Names, Vocabulary!Installed(n)
      PROVE  VocabularyInv'
  BY <1>7 DEF Vocabulary!Installed, Vocabulary!Invalidate, Vocabulary!counts, Vocabulary!Loaded
<1>8. CASE Vocabulary!Saved
  BY <1>8 DEF Vocabulary!Saved, Vocabulary!Invalidate, Vocabulary!files, Vocabulary!Loaded
<1> QED
  BY <1>1, <1>2, <1>3, <1>4, <1>5, <1>6, <1>7, <1>8 DEF Vocabulary!Next

(* registry.rs invalidate and dashboard.rs tokenizer_install: what counts   *)
(* under a name is what its file gives, unless its invalidation is to come, *)
(* came under a load, or the installer was a subcommand.                    *)
THEOREM WorkersCountsWithTheDisk == Spec => []CountsWithTheDisk
<1>1. Init => VocabularyInv
  BY DEF Init, Vocabulary!Init, VocabularyInv
<1>2. ASSUME VocabularyInv, [Next]_vars
      PROVE  VocabularyInv'
  <2>1. CASE VocabularyWorks
    BY <1>2, <2>1, VocabularyStep DEF VocabularyWorks
  <2>2. CASE UNCHANGED vocabulary
    BY <1>2, <2>2 DEF vocabulary, VocabularyInv, Known, Vocabulary!Loaded
  <2> QED
    BY <1>2, <2>1, <2>2 DEF Next, vars, ServiceWorks, SpansWork, ClaimsWork
<1>3. VocabularyInv => CountsWithTheDisk
  BY DEF VocabularyInv, Known, CountsWithTheDisk, Vocabulary!CountsWithTheDisk
<1> QED
  BY <1>1, <1>2, <1>3, PTL DEF Spec

-----------------------------------------------------------------------------
(* The claim on the tunnels.  One that removes it finds itself on it, and   *)
(* one whose tunnels are up, and that nobody told to stop, is on file: two  *)
(* cannot be.  A claim that crosses another's writes over a living relay.   *)

Lives(p) == phase[p] \notin {"off", "gone"}

OnFile ==
  /\ \A p \in Relays : phase[p] = "removing" => holder = p
  /\ \A p \in Relays : phase[p] \in {"running", "stopping"} /\ p \notin quit
                         /\ claiming[p] \in {"taken", "done"} => holder = p

ClaimsInv ==
  /\ phase \in [Relays -> {"off", "running", "stopping", "reading", "removing", "leaving", "gone"}]
  /\ claiming \in [Relays -> {"no", "looking", "taking", "taken", "done"}]
  /\ tunnels \subseteq Relays
  /\ \A p \in Relays : ~ Lives(p) => claiming[p] = "no"
  /\ \A p \in tunnels : \/ p \in quit \union killed \union crossed
                        \/ phase[p] \in {"running", "stopping"} /\ claiming[p] = "done"
  /\ late \union crossed = {} => OnFile

LEMMA ClaimsStep ==
  ASSUME ClaimsInv, Claims!Next
  PROVE  ClaimsInv'
<1> USE DEF ClaimsInv, OnFile, Lives, Claims!Alive, Claims!Enter
<1>0. None \notin Relays
  BY WorkersAssumption DEF Claims!Parameters
<1>1. PICK p \in Relays :
        \/ Claims!Start(p) \/ Claims!Look(p) \/ Claims!TakeOver(p) \/ Claims!Take(p)
        \/ Claims!BringUp(p) \/ Claims!Retire(p) \/ Claims!Quit(p) \/ Claims!StopTunnels(p)
        \/ Claims!ReadClaim(p) \/ Claims!RemoveClaim(p) \/ Claims!Leave(p) \/ Claims!Kill(p)
  BY DEF Claims!Next
<1>2. CASE Claims!Start(p)
  BY <1>2 DEF Claims!Start
<1>3. CASE Claims!Look(p)
  BY <1>3 DEF Claims!Look, Claims!Held
<1>4. CASE Claims!TakeOver(p)
  BY <1>4 DEF Claims!TakeOver
<1>5. CASE Claims!Take(p)
  BY <1>5 DEF Claims!Take, Claims!Held
<1>6. CASE Claims!BringUp(p)
  BY <1>6 DEF Claims!BringUp
<1>7. CASE Claims!Retire(p)
  BY <1>7 DEF Claims!Retire
<1>8. CASE Claims!Quit(p)
  BY <1>8 DEF Claims!Quit
<1>9. CASE Claims!StopTunnels(p)
  BY <1>9 DEF Claims!StopTunnels
<1>10. CASE Claims!ReadClaim(p)
  BY <1>10 DEF Claims!ReadClaim, Claims!Released
<1>11. CASE Claims!RemoveClaim(p)
  BY <1>0, <1>11 DEF Claims!RemoveClaim, Claims!Released
<1>12. CASE Claims!Leave(p)
  BY <1>12 DEF Claims!Leave
<1>13. CASE Claims!Kill(p)
  BY <1>13 DEF Claims!Kill
<1> QED
  BY <1>1, <1>2, <1>3, <1>4, <1>5, <1>6, <1>7, <1>8, <1>9, <1>10, <1>11, <1>12, <1>13

(* main.rs "One cloudflared generation per relay": as long as nobody took   *)
(* the claim over at its deadline and no claim crossed another's or its own *)
(* relay's retirement, the tunnels of two relays are up together only when  *)
(* one of the two is shutting down or was killed.                           *)
THEOREM WorkersOneGeneration == Spec => []OneGeneration
<1>1. Init => ClaimsInv
  BY DEF Init, Claims!Init, ClaimsInv, OnFile, Lives
<1>2. ASSUME ClaimsInv, [Next]_vars
      PROVE  ClaimsInv'
  <2>1. CASE ClaimsWork
    BY <1>2, <2>1, ClaimsStep DEF ClaimsWork
  <2>2. CASE UNCHANGED claims
    BY <1>2, <2>2 DEF claims, ClaimsInv, OnFile, Lives
  <2> QED
    BY <1>2, <2>1, <2>2 DEF Next, vars, ServiceWorks, SpansWork, VocabularyWorks
<1>3. ClaimsInv => OneGeneration
  BY DEF ClaimsInv, OnFile, OneGeneration, Claims!OneGeneration
<1> QED
  BY <1>1, <1>2, <1>3, PTL DEF Spec

-----------------------------------------------------------------------------
(***************************************************************************)
(* Settings, for every number of editors, items and secrets, and with no   *)
(* bound on how often anything happens but the constants' own.             *)
(***************************************************************************)

Writing == {"writing", "written", "indexed"}

\* The lock is held by whoever writes, and by nobody else.
Locked ==
  /\ DOMAIN stage = Editors
  /\ DOMAIN next = Editors
  /\ stage = [e \in Editors |-> stage[e]]
  /\ next = [e \in Editors |-> next[e]]
  /\ lock \in Editors \union {Nobody}
  /\ \A e \in Editors : stage[e] \in Writing <=> lock = e

\* Nothing that is, or may become, the file is refused by the next start.
Loads ==
  /\ Settings!FileAlwaysLoads
  /\ \A e \in Editors : stage[e] \in Writing => Settings!Valid(next[e])
  /\ \A n \in late \union outside : Settings!Valid(n)

\* What is being written is the served configuration with the patch in it.
Builds == \A e \in Editors : stage[e] \in Writing => next[e] = Settings!Merged(cfg, patch[e])

\* How far the index and the file are ahead of the served configuration.
Indexed(e) == index = Settings!IndexOf(IF stage[e] = "indexed" THEN next[e].keys ELSE cfg.keys)
Written(e) == file = IF stage[e] = "writing" THEN cfg ELSE next[e]

Apart == spent.hangups = 0 /\ spent.commands = 0

InStep ==
  /\ up /\ lock = Nobody => index = Settings!IndexOf(cfg.keys)
  /\ \A e \in Editors : lock = e => Indexed(e)
  /\ Apart =>
       /\ late = {} /\ outside = {}
       /\ up /\ lock = Nobody => file = cfg
       /\ \A e \in Editors : lock = e => Written(e)

Counted == spent \in [edits : Nat, failures : Nat, crashes : Nat, hangups : Nat,
                      commands : Nat]

Quiet == ~up => \A e \in Editors : stage[e] = "idle"

SettingsInv == Locked /\ Loads /\ Builds /\ InStep /\ Counted /\ Quiet

-----------------------------------------------------------------------------
LEMMA DefaultIsValid == Settings!Valid(Settings!Default)
  BY DEF Settings!Valid, Settings!Default, Settings!Empty

(* The program starts with no file and nobody writing. *)
LEMMA SettingsInit ==
  ASSUME Settings!Parameters
  PROVE  Settings!Init => SettingsInv
  <1> SUFFICES ASSUME Settings!Init PROVE SettingsInv
    OBVIOUS
  <1> USE DEF Settings!Init
  <1>1. Locked
    BY DEF Settings!Parameters, Locked, Writing
  <1>2. Loads
    BY DEF Loads, Settings!FileAlwaysLoads, Writing
  <1>3. Builds
    BY DEF Builds, Writing
  <1>4. InStep
    BY DEF Settings!Parameters, InStep, Indexed, Written, Apart
  <1>5. Counted
    BY DEF Counted
  <1>6. Quiet
    BY DEF Quiet
  <1> QED
    BY <1>1, <1>2, <1>3, <1>4, <1>5, <1>6 DEF SettingsInv

LEMMA SpendCounts ==
  ASSUME Counted, NEW what \in {"edits", "failures", "crashes", "hangups"},
         NEW most, Settings!Spend(what, most)
  PROVE  Counted' /\ (what # "hangups" => spent'.hangups = spent.hangups)
                  /\ (what = "hangups" => spent'.hangups # 0)
                  /\ spent'.commands = spent.commands
  <1>1. CASE what = "edits"
    BY <1>1 DEF Counted, Settings!Spend
  <1>2. CASE what = "failures"
    BY <1>2 DEF Counted, Settings!Spend
  <1>3. CASE what = "crashes"
    BY <1>3 DEF Counted, Settings!Spend
  <1>4. CASE what = "hangups"
    BY <1>4 DEF Counted, Settings!Spend
  <1> QED
    BY <1>1, <1>2, <1>3, <1>4

(* No step of an editor, of the process or of a late rename breaks it. *)
LEMMA SettingsStep ==
  ASSUME Settings!Parameters
  PROVE  SettingsInv /\ [Settings!Next]_(Settings!vars) => SettingsInv'
  <1> SUFFICES ASSUME SettingsInv, [Settings!Next]_(Settings!vars) PROVE SettingsInv'
    OBVIOUS
  <1> USE DEF SettingsInv
  <1>load. CASE Settings!Load
    <2> USE <1>load DEF Settings!Load, Settings!Read
    <2>1. /\ Settings!Valid(cfg') /\ Settings!Valid(file')
          /\ file' = cfg' /\ index' = Settings!IndexOf(cfg'.keys)
      BY DefaultIsValid
    <2>2. lock = Nobody
      BY DEF Quiet, Locked, Writing
    <2>3. Locked'
      BY DEF Locked, Settings!edit
    <2>4. Loads'
      BY <2>1 DEF Loads, Settings!FileAlwaysLoads, Settings!edit
    <2>5. Builds'
      BY <2>2 DEF Settings!Parameters, Builds, Locked
    <2>6. InStep'
      BY <2>1, <2>2 DEF Settings!Parameters, InStep, Indexed, Written, Apart
    <2>7. Counted' /\ Quiet'
      BY DEF Counted, Quiet
    <2> QED
      BY <2>3, <2>4, <2>5, <2>6, <2>7
  <1>crash. CASE Settings!Crash
    <2> USE <1>crash DEF Settings!Crash
    <2>1. Counted' /\ spent'.hangups = spent.hangups /\ spent'.commands = spent.commands
      BY SpendCounts
    <2>2. Locked'
      BY DEF Settings!Parameters, Locked, Writing, Settings!edit
    <2>3. Loads'
      BY DEF Loads, Settings!FileAlwaysLoads, Writing
    <2>4. Builds'
      BY DEF Builds, Writing
    <2>5. InStep'
      BY <2>1 DEF Settings!Parameters, InStep, Apart
    <2>6. Quiet'
      BY DEF Quiet
    <2> QED
      BY <2>1, <2>2, <2>3, <2>4, <2>5, <2>6
  <1>idle. ASSUME up, UNCHANGED <<Settings!live, lock, next, late, outside>>, Counted',
                  spent'.hangups = spent.hangups, spent'.commands = spent.commands,
                  NEW e \in Editors, stage[e] \notin Writing,
                  \E to \in {"idle", "unmasked", "queued"} : Settings!Goto(e, to),
                  \A d \in Editors \ {e} : patch'[d] = patch[d]
           PROVE  SettingsInv'
    <2> USE <1>idle
    <2>0. PICK to \in {"idle", "unmasked", "queued"} : Settings!Goto(e, to)
      BY DEF Settings!Goto
    <2>1. /\ \A d \in Editors : stage'[d] \in Writing <=> stage[d] \in Writing
          /\ \A d \in Editors : d # e => stage'[d] = stage[d]
      BY <2>0 DEF Settings!Goto, Locked, Writing
    <2>2. Locked'
      BY <2>0, <2>1 DEF Settings!Goto, Locked
    <2>3. Loads' /\ Quiet'
      BY <2>1 DEF Loads, Settings!FileAlwaysLoads, Settings!live, Quiet
    <2>4. Builds'
      BY <2>1 DEF Builds, Settings!live, Settings!Merged
    <2>5. InStep'
      BY <2>1 DEF InStep, Indexed, Written, Apart, Settings!live, Locked
    <2> QED
      BY <2>2, <2>3, <2>4, <2>5
  <1>edit. ASSUME NEW e \in Editors, Settings!Edit(e) PROVE SettingsInv'
    <2>view. CASE Settings!View(e)
      <3>1. UNCHANGED <<Settings!live, lock, stage, next, late, outside, patch, spent>>
        BY <2>view DEF Settings!View, Settings!edit
      <3> QED
        BY <3>1 DEF Locked, Loads, Settings!FileAlwaysLoads, Builds, InStep, Indexed,
                    Written, Apart, Counted, Quiet, Settings!live
    <2>put. CASE \E t \in Secrets \union {page[e].password} : Settings!PutConfig(e, t)
      <3>1. up /\ UNCHANGED <<Settings!live, lock, next, late, outside>> /\ stage[e] = "idle"
              /\ Settings!Goto(e, "queued") /\ Settings!Spend("edits", MaxEdits)
              /\ \E x : patch' = [patch EXCEPT ![e] = x]
        BY <2>put DEF Settings!PutConfig
      <3>2. Counted' /\ spent'.hangups = spent.hangups /\ spent'.commands = spent.commands
        BY <3>1, SpendCounts
      <3>3. \A d \in Editors \ {e} : patch'[d] = patch[d]
        BY <3>1
      <3> QED
        BY <3>1, <3>2, <3>3, <1>idle DEF Writing
    <2>save. CASE \E list, id, value : Settings!Save(e, list, id, value)
      <3>1. up /\ UNCHANGED <<Settings!live, lock, next, late, outside, patch>> /\ stage[e] = "idle"
              /\ Settings!Goto(e, "unmasked") /\ Settings!Spend("edits", MaxEdits)
        BY <2>save DEF Settings!Save
      <3>2. Counted' /\ spent'.hangups = spent.hangups /\ spent'.commands = spent.commands
        BY <3>1, SpendCounts
      <3> QED
        BY <3>1, <3>2, <1>idle DEF Writing
    <2>remove. CASE \E list, id : Settings!Remove(e, list, id)
      <3>1. up /\ UNCHANGED <<Settings!live, lock, next, late, outside>> /\ stage[e] = "idle"
              /\ Settings!Goto(e, "queued") /\ Settings!Spend("edits", MaxEdits)
              /\ \E x : patch' = [patch EXCEPT ![e] = x]
        BY <2>remove DEF Settings!Remove
      <3>2. Counted' /\ spent'.hangups = spent.hangups /\ spent'.commands = spent.commands
        BY <3>1, SpendCounts
      <3>3. \A d \in Editors \ {e} : patch'[d] = patch[d]
        BY <3>1
      <3> QED
        BY <3>1, <3>2, <3>3, <1>idle DEF Writing
    <2> QED
      BY <1>edit, <2>view, <2>put, <2>save, <2>remove DEF Settings!Edit
  <1>upsert. ASSUME NEW e \in Editors, Settings!Upsert(e) PROVE SettingsInv'
    <2>1. UNCHANGED <<Settings!live, lock, next, late, outside, spent>> /\ stage[e] = "unmasked"
            /\ Settings!Goto(e, "queued") /\ \E x : patch' = [patch EXCEPT ![e] = x]
      BY <1>upsert DEF Settings!Upsert
    <2>u. up
      BY <2>1 DEF Quiet
    <2>2. Counted' /\ \A d \in Editors \ {e} : patch'[d] = patch[d]
      BY <2>1 DEF Counted
    <2> QED
      BY <2>1, <2>2, <2>u, <1>idle DEF Writing
  <1>merge. ASSUME NEW e \in Editors, Settings!Merge(e) PROVE SettingsInv'
    <2> DEFINE n == Settings!Merged(cfg, patch[e])
    <2> USE <1>merge DEF Settings!Merge
    <2>1. lock = Nobody /\ stage[e] = "queued" /\ UNCHANGED <<Settings!live, patch, late, outside, spent>>
      OBVIOUS
    <2>no. CASE ~Settings!Valid(n)
      <3>1. Settings!Goto(e, "idle") /\ UNCHANGED <<Settings!live, lock, next, late, outside, spent, patch>>
        BY <2>no
      <3>u. up
        BY <2>1 DEF Quiet
      <3>2. Counted'
        BY <3>1 DEF Counted
      <3> QED
        BY <3>1, <3>2, <3>u, <2>1, <1>idle DEF Writing
    <2>yes. CASE Settings!Valid(n)
      <3>1. next' = [next EXCEPT ![e] = n] /\ lock' = e /\ Settings!Goto(e, "writing")
        BY <2>yes
      <3>2. \A d \in Editors : stage[d] \notin Writing
        BY <2>1 DEF Settings!Parameters, Locked
      <3>3. /\ stage' = [stage EXCEPT ![e] = "writing"] /\ stage'[e] = "writing" /\ next'[e] = n
            /\ \A d \in Editors : d # e => stage'[d] \notin Writing
        BY <3>1, <3>2 DEF Settings!Goto, Locked
      <3>4. Locked'
        BY <3>1, <3>3 DEF Locked, Writing
      <3>5. Loads'
        BY <2>yes, <2>1, <3>3 DEF Loads, Settings!FileAlwaysLoads, Settings!live
      <3>6. Builds'
        BY <2>1, <3>3 DEF Builds, Settings!live, Settings!Merged
      <3>u. up
        BY <2>1 DEF Quiet
      <3>7. InStep'
        BY <2>1, <3>1, <3>3, <3>u
           DEF Settings!Parameters, InStep, Indexed, Written, Apart, Settings!live
      <3>8. Counted' /\ Quiet'
        BY <2>1, <3>u DEF Counted, Quiet, Settings!live
      <3> QED
        BY <3>4, <3>5, <3>6, <3>7, <3>8
    <2> QED
      BY <2>no, <2>yes
  <1>rename. ASSUME NEW e \in Editors, Settings!Rename(e) PROVE SettingsInv'
    <2> USE <1>rename DEF Settings!Rename
    <2>1. lock = e /\ stage[e] = "writing" /\ stage' = [stage EXCEPT ![e] = "written"]
      BY DEF Locked, Writing, Settings!Goto
    <2>2. /\ stage'[e] = "written"
          /\ \A d \in Editors : d # e => stage'[d] = stage[d] /\ stage[d] \notin Writing
      BY <2>1 DEF Locked
    <2>3. Locked'
      BY <2>1, <2>2 DEF Locked, Writing, Settings!edit
    <2>4. Loads'
      BY <2>1, <2>2 DEF Loads, Settings!FileAlwaysLoads, Writing, Settings!edit
    <2>5. Builds'
      BY <2>1, <2>2 DEF Builds, Writing, Settings!Merged, Settings!edit
    <2>6. InStep'
      BY <2>1, <2>2 DEF Settings!Parameters, InStep, Indexed, Written, Apart, Settings!edit
    <2>7. Counted' /\ Quiet'
      BY <2>1 DEF Counted, Quiet
    <2> QED
      BY <2>3, <2>4, <2>5, <2>6, <2>7
  <1>fails. ASSUME NEW e \in Editors, Settings!WriteFails(e) PROVE SettingsInv'
    <2> USE <1>fails DEF Settings!WriteFails
    <2>1. lock = e /\ stage[e] = "writing" /\ stage' = [stage EXCEPT ![e] = "idle"]
      BY DEF Locked, Writing, Settings!Goto
    <2>2. /\ stage'[e] = "idle"
          /\ \A d \in Editors : d # e => stage'[d] = stage[d] /\ stage[d] \notin Writing
      BY <2>1 DEF Locked
    <2>3. Locked'
      BY <2>1, <2>2 DEF Settings!Parameters, Locked, Writing, Settings!edit
    <2>4. Loads'
      BY <2>1, <2>2 DEF Loads, Settings!FileAlwaysLoads, Writing, Settings!live, Settings!edit
    <2>5. Builds'
      BY <2>1, <2>2 DEF Builds, Writing, Settings!Merged, Settings!live, Settings!edit
    <2>6. Counted' /\ spent'.hangups = spent.hangups /\ spent'.commands = spent.commands
      BY SpendCounts
    <2>7. InStep'
      BY <2>1, <2>2, <2>6
         DEF Settings!Parameters, InStep, Indexed, Written, Apart, Settings!live,
             Settings!edit
    <2>8. Quiet'
      BY <2>1, <2>2 DEF Quiet, Settings!live
    <2> QED
      BY <2>3, <2>4, <2>5, <2>6, <2>7, <2>8
  <1>keys. ASSUME NEW e \in Editors, Settings!PublishKeys(e) PROVE SettingsInv'
    <2> USE <1>keys DEF Settings!PublishKeys
    <2>1. lock = e /\ stage[e] = "written" /\ stage' = [stage EXCEPT ![e] = "indexed"]
      BY DEF Locked, Writing, Settings!Goto
    <2>2. /\ stage'[e] = "indexed"
          /\ \A d \in Editors : d # e => stage'[d] = stage[d] /\ stage[d] \notin Writing
      BY <2>1 DEF Locked
    <2>3. Locked'
      BY <2>1, <2>2 DEF Locked, Writing, Settings!edit
    <2>4. Loads'
      BY <2>1, <2>2 DEF Loads, Settings!FileAlwaysLoads, Writing, Settings!edit
    <2>5. Builds'
      BY <2>1, <2>2 DEF Builds, Writing, Settings!Merged, Settings!edit
    <2>6. InStep'
      BY <2>1, <2>2 DEF Settings!Parameters, InStep, Indexed, Written, Apart, Settings!edit
    <2>7. Counted' /\ Quiet'
      BY <2>1 DEF Counted, Quiet
    <2> QED
      BY <2>3, <2>4, <2>5, <2>6, <2>7
  <1>publish. ASSUME NEW e \in Editors, Settings!Publish(e) PROVE SettingsInv'
    <2> USE <1>publish DEF Settings!Publish
    <2>1. lock = e /\ stage[e] = "indexed" /\ stage' = [stage EXCEPT ![e] = "idle"]
      BY DEF Locked, Writing, Settings!Goto
    <2>2. /\ stage'[e] = "idle"
          /\ \A d \in Editors : d # e => stage'[d] = stage[d] /\ stage[d] \notin Writing
      BY <2>1 DEF Locked
    <2>3. Locked'
      BY <2>1, <2>2 DEF Settings!Parameters, Locked, Writing, Settings!edit
    <2>4. Loads'
      BY <2>1, <2>2 DEF Loads, Settings!FileAlwaysLoads, Writing, Settings!edit
    <2>5. Builds'
      BY <2>1, <2>2 DEF Builds, Writing
    <2>6. InStep'
      BY <2>1, <2>2 DEF Settings!Parameters, InStep, Indexed, Written, Apart, Settings!edit
    <2>7. Counted' /\ Quiet'
      BY <2>1, <2>2 DEF Counted, Quiet
    <2> QED
      BY <2>3, <2>4, <2>5, <2>6, <2>7
  <1>hangup. ASSUME NEW e \in Editors, Settings!HangUp(e) PROVE SettingsInv'
    <2> USE <1>hangup DEF Settings!HangUp
    <2>1. stage' = [stage EXCEPT ![e] = "idle"]
      BY DEF Settings!Goto
    <2>2. stage'[e] = "idle" /\ \A d \in Editors : d # e => stage'[d] = stage[d]
      BY <2>1 DEF Locked
    <2>3. Locked'
      BY <2>1, <2>2 DEF Settings!Parameters, Locked, Writing, Settings!edit
    <2>4. Loads'
      BY <2>2 DEF Loads, Settings!FileAlwaysLoads, Writing, Settings!live, Settings!edit
    <2>5. Builds'
      BY <2>2 DEF Builds, Writing, Settings!Merged, Settings!live, Settings!edit
    <2>6. Counted' /\ spent'.hangups # 0
      BY SpendCounts
    <2>u. up
      BY DEF Quiet
    <2>7. \A d \in Editors : lock' = d => d # e /\ lock = d
      BY DEF Settings!Parameters
    <2>8. index = Settings!IndexOf(cfg.keys) \/ lock' # Nobody
      BY <2>u DEF Settings!Parameters, InStep, Locked, Writing, Indexed
    <2>9. InStep' /\ Quiet'
      BY <2>2, <2>6, <2>7, <2>8
         DEF InStep, Indexed, Apart, Quiet, Settings!live, Settings!edit
    <2> QED
      BY <2>3, <2>4, <2>5, <2>6, <2>9
  <1>late. ASSUME NEW n \in late, Settings!LateRename(n) PROVE SettingsInv'
    <2> USE <1>late DEF Settings!LateRename
    <2>1. Locked' /\ Builds' /\ Counted' /\ Quiet'
      BY DEF Locked, Builds, Settings!Merged, Counted, Quiet, Settings!edit
    <2>2. Loads'
      BY DEF Loads, Settings!FileAlwaysLoads, Settings!edit
    <2>3. InStep'
      BY DEF InStep, Indexed, Apart, Settings!edit
    <2> QED
      BY <2>1, <2>2, <2>3
  <1>command. ASSUME NEW list, NEW id, NEW value, Settings!Command(list, id, value)
              PROVE  SettingsInv'
    <2> USE <1>command DEF Settings!Command
    <2>1. /\ spent' = [spent EXCEPT !.edits = @ + 1, !.commands = @ + 1]
          /\ file' = IF file = Missing THEN Settings!Default ELSE file
          /\ file # Missing => Settings!Valid(file)
      BY DEF Settings!Read
    <2>2. Counted' /\ spent'.commands # 0
      <3>1. spent'.edits = spent.edits + 1 /\ spent'.commands = spent.commands + 1
        BY <2>1 DEF Counted
      <3>2. spent.edits + 1 \in Nat /\ spent.commands + 1 \in Nat \ {0}
        BY DEF Counted
      <3> QED
        BY <2>1, <3>1, <3>2 DEF Counted
    <2>3. Locked' /\ Builds' /\ Quiet'
      BY DEF Locked, Builds, Settings!Merged, Quiet, Settings!edit
    <2>4. Settings!Valid(file') /\ \E n : Settings!Valid(n) /\ outside' = outside \union {n}
      BY <2>1, DefaultIsValid
    <2>5. Loads'
      BY <2>4 DEF Loads, Settings!FileAlwaysLoads, Settings!edit
    <2>6. InStep'
      BY <2>2 DEF InStep, Indexed, Apart, Settings!edit
    <2> QED
      BY <2>2, <2>3, <2>5, <2>6
  <1>outside. ASSUME NEW n \in outside, Settings!CommandWrites(n) PROVE SettingsInv'
    <2> USE <1>outside DEF Settings!CommandWrites
    <2>1. Locked' /\ Builds' /\ Counted' /\ Quiet'
      BY DEF Locked, Builds, Settings!Merged, Counted, Quiet, Settings!edit
    <2>2. Loads'
      BY DEF Loads, Settings!FileAlwaysLoads, Settings!edit
    <2>3. InStep'
      BY DEF InStep, Indexed, Apart, Settings!edit
    <2> QED
      BY <2>1, <2>2, <2>3
  <1>stutter. CASE UNCHANGED Settings!vars
    BY <1>stutter DEF Settings!vars, Locked, Loads, Settings!FileAlwaysLoads, Builds, InStep,
                      Indexed, Written, Apart, Counted, Quiet
  <1> QED
    BY <1>load, <1>crash, <1>edit, <1>upsert, <1>merge, <1>rename, <1>fails,
       <1>keys, <1>publish, <1>hangup, <1>late, <1>command, <1>outside,
       <1>stutter DEF Settings!Next

LEMMA SettingsAlways ==
  ASSUME Settings!Parameters
  PROVE  Settings!Spec => []SettingsInv
  BY SettingsInit, SettingsStep, PTL DEF Settings!Spec

-----------------------------------------------------------------------------
(* Whatever the operator edits, whichever write fails, is dropped or is cut *)
(* short, config.json never holds something the next start refuses.         *)
THEOREM FileAlwaysLoadsHolds ==
  ASSUME Settings!Parameters
  PROVE  Settings!Spec => []FileAlwaysLoads
  <1>1. SettingsInv => FileAlwaysLoads
    BY DEF SettingsInv, Loads, FileAlwaysLoads, Valid, Settings!FileAlwaysLoads, Settings!Valid
  <1> QED
    BY SettingsAlways, <1>1, PTL

(* Between edits the key index is that of the keys served, and as long as   *)
(* no browser hung up in the middle of one and no subcommand wrote the file *)
(* too, the file is what is served.                                         *)
THEOREM SettledHolds ==
  ASSUME Settings!Parameters
  PROVE  Settings!Spec => []Settled
  <1>1. SettingsInv => Settled
    BY DEF SettingsInv, InStep, Settled, IndexOf, Settings!IndexOf, Apart
  <1> QED
    BY SettingsAlways, <1>1, PTL

(* An edit published changes the fields of its own patch and no other.      *)
THEOREM OthersUntouchedHolds ==
  ASSUME Settings!Parameters
  PROVE  Settings!Spec => OthersUntouched
<1>1. ASSUME SettingsInv, NEW e \in Editors, Settings!Publish(e)
      PROVE  \A d \in Editors : stage[d] = "indexed" =>
              \A f \in DOMAIN cfg \ DOMAIN patch[d] : cfg'[f] = cfg[f]
  <2>1. SUFFICES ASSUME NEW d \in Editors, stage[d] = "indexed"
                 PROVE  \A f \in DOMAIN cfg \ DOMAIN patch[d] : cfg'[f] = cfg[f]
    OBVIOUS
  <2>2. stage[e] \in Writing /\ stage[d] \in Writing
    BY <1>1, <2>1 DEF Settings!Publish, Writing
  <2>3. d = e
    BY <1>1, <2>2 DEF SettingsInv, Locked
  <2> QED
    BY <1>1, <2>2, <2>3 DEF SettingsInv, Builds, Settings!Merged, Settings!Publish
<1>2. ASSUME SettingsInv, Settings!Next, ~(\E e \in Editors : Settings!Publish(e))
      PROVE  cfg' = cfg \/ \A d \in Editors : stage[d] # "indexed"
  BY <1>2 DEF SettingsInv, Quiet, Settings!Next, Settings!Load, Settings!Crash, Settings!Edit,
     Settings!View, Settings!PutConfig, Settings!Save, Settings!Remove, Settings!Upsert,
     Settings!Merge, Settings!Rename, Settings!WriteFails, Settings!PublishKeys,
     Settings!HangUp, Settings!LateRename, Settings!Command, Settings!CommandWrites,
     Settings!live
<1>3. SettingsInv /\ [Settings!Next]_(Settings!vars) =>
        [\A e \in Editors : stage[e] = "indexed" =>
            \A f \in DOMAIN cfg \ DOMAIN patch[e] : cfg'[f] = cfg[f]]_cfg
  BY <1>1, <1>2 DEF Settings!vars
<1> QED
  BY SettingsAlways, <1>3, PTL DEF Settings!Spec, OthersUntouched

-----------------------------------------------------------------------------
(***************************************************************************)
(* The dashboard's throttle, its reset codes and its sessions, for any     *)
(* number of requests and addresses, and any limits, lifetimes and         *)
(* lockouts.                                                               *)
(***************************************************************************)

\* n whole periods of length d, from the first second on.
Periods(t, d) == (t - 1) \div d

Clocks == now \in Nat \ {0} /\ restarts \in Nat

-----------------------------------------------------------------------------
(* The throttle.  A lockout that began at t was earned within the budget of *)
(* t; what is judged after it is still on the counter.                      *)

Began == global.until - Lockout
Allowed(t) == AttemptsGlobal * (1 + Periods(t, Lockout))

ThrottleInv ==
  /\ Clocks
  /\ judged \in Nat
  /\ global \in [n : 0 .. AttemptsGlobal - 1, until : Nat]
  /\ global.until = 0 => judged <= global.n
  /\ global.until > 0 =>
       /\ Began \in 1..now
       /\ judged <= Allowed(Began) + (IF Panel!Locked(global) THEN 0 ELSE global.n)

-----------------------------------------------------------------------------
(* The codes.  Mints are an interval apart, but for the one a new process   *)
(* may make at once; the live code still has the guesses it did not use.    *)

Minted == IF lastMint = 0 THEN restarts + Periods(now, MintInterval)
          ELSE restarts + 1 + Periods(lastMint, MintInterval)

CodeInv ==
  /\ Clocks
  /\ guesses \in Nat
  /\ lastMint \in 0..now
  /\ pending = None => guesses <= MaxAttempts * Minted
  /\ pending # None =>
       /\ lastMint # 0
       /\ pending \in [id : Requests, expires : Nat, attempts : 0 .. MaxAttempts - 1]
       /\ guesses + MaxAttempts - pending.attempts <= MaxAttempts * Minted

-----------------------------------------------------------------------------
(* Division. *)

LEMMA DivSpec ==
  ASSUME NEW x \in Nat, NEW d \in Nat \ {0}
  PROVE  /\ x \div d \in Nat
         /\ d * (x \div d) <= x
         /\ x < d * (x \div d) + d
OBVIOUS

LEMMA TimesMono ==
  ASSUME NEW k \in Nat, NEW a \in Nat, NEW b \in Nat, a <= b
  PROVE  k * a <= k * b
OBVIOUS

LEMMA DivMono ==
  ASSUME NEW x \in Nat, NEW y \in Nat, NEW d \in Nat \ {0}, x <= y
  PROVE  x \div d <= y \div d
<1>1. SUFFICES ASSUME x \div d >= y \div d + 1
               PROVE  FALSE
  BY DivSpec
<1>2. d * (y \div d + 1) <= d * (x \div d)
  BY <1>1, DivSpec, TimesMono
<1>3. d * (y \div d + 1) = d * (y \div d) + d
  BY DivSpec
<1> QED
  BY <1>2, <1>3, DivSpec

LEMMA DivStep ==
  ASSUME NEW x \in Nat, NEW y \in Nat, NEW d \in Nat \ {0}, x + d <= y
  PROVE  x \div d + 1 <= y \div d
<1>1. SUFFICES ASSUME x \div d >= y \div d
               PROVE  FALSE
  BY DivSpec
<1>2. d * (y \div d) <= d * (x \div d)
  BY <1>1, DivSpec, TimesMono
<1> QED
  BY <1>2, DivSpec

LEMMA PeriodsGrow ==
  ASSUME NEW s \in Nat \ {0}, NEW t \in Nat \ {0}, NEW d \in Nat \ {0}
  PROVE  /\ Periods(s, d) \in Nat
         /\ s <= t => Periods(s, d) <= Periods(t, d)
         /\ s + d <= t => Periods(s, d) + 1 <= Periods(t, d)
<1>1. s - 1 \in Nat /\ t - 1 \in Nat
  OBVIOUS
<1>2. (s - 1) \div d \in Nat
  BY <1>1, DivSpec
<1>3. s <= t => (s - 1) \div d <= (t - 1) \div d
  BY <1>1, DivMono
<1>4. s + d <= t => (s - 1) \div d + 1 <= (t - 1) \div d
  BY <1>1, DivStep
<1> QED
  BY <1>2, <1>3, <1>4 DEF Periods

\* A budget of k for each period grows by k with each.
LEMMA Budgets ==
  ASSUME NEW k \in Nat, NEW a \in Nat, NEW b \in Nat
  PROVE  /\ k * a \in Nat
         /\ a <= b => k * a <= k * b
         /\ a + 1 <= b => k * a + k <= k * b
<1>1. k * (a + 1) = k * a + k
  OBVIOUS
<1> QED
  BY <1>1, TimesMono

-----------------------------------------------------------------------------
(* The throttle's invariant is kept. *)

LEMMA AllowedGrows ==
  ASSUME Panel!Parameters, NEW s \in Nat \ {0}, NEW t \in Nat \ {0}
  PROVE  /\ Allowed(s) \in Nat
         /\ AttemptsGlobal <= Allowed(s)
         /\ s <= t => Allowed(s) <= Allowed(t)
         /\ s + Lockout <= t => Allowed(s) + AttemptsGlobal <= Allowed(t)
<1> DEFINE p == Periods(s, Lockout)
           q == Periods(t, Lockout)
<1>1. Lockout \in Nat \ {0} /\ AttemptsGlobal \in Nat \ {0}
  BY DEF Panel!Parameters
<1>2. /\ p \in Nat /\ q \in Nat
      /\ s <= t => p <= q
      /\ s + Lockout <= t => p + 1 <= q
  BY <1>1, PeriodsGrow
<1>3. Allowed(s) = AttemptsGlobal * (1 + p) /\ Allowed(t) = AttemptsGlobal * (1 + q)
  BY DEF Allowed
<1> HIDE DEF p, q
<1>4. AttemptsGlobal * 1 <= AttemptsGlobal * (1 + p)
  BY <1>1, <1>2, Budgets
<1>5. /\ AttemptsGlobal * (1 + p) \in Nat
      /\ 1 + p <= 1 + q => AttemptsGlobal * (1 + p) <= AttemptsGlobal * (1 + q)
      /\ (1 + p) + 1 <= 1 + q =>
           AttemptsGlobal * (1 + p) + AttemptsGlobal <= AttemptsGlobal * (1 + q)
  BY <1>1, <1>2, Budgets
<1> QED
  BY <1>1, <1>2, <1>3, <1>4, <1>5

LEMMA WrongKeepsThrottle ==
  ASSUME Panel!Parameters, ThrottleInv, NEW a, Panel!Failed(a), UNCHANGED <<now, restarts>>,
         judged' = IF Panel!Refused(a) THEN judged ELSE judged + 1
  PROVE  ThrottleInv'
<1> USE DEF Clocks
<1>c. Lockout \in Nat \ {0} /\ AttemptsGlobal \in Nat \ {0} /\ now \in Nat \ {0}
  BY DEF Panel!Parameters, ThrottleInv
<1>1. global' = Panel!Counted(global, AttemptsGlobal)
  BY DEF Panel!Failed
<1>2. judged' \in Nat /\ judged' <= judged + 1 /\ (Panel!Locked(global) => judged' = judged)
  BY DEF ThrottleInv, Panel!Refused
<1>3. AttemptsGlobal <= Allowed(now) /\ Allowed(now) \in Nat
  BY <1>c, AllowedGrows
<1>4. ASSUME global.until > 0
      PROVE  /\ Allowed(Began) \in Nat
             /\ Allowed(Began) <= Allowed(now)
             /\ ~Panel!Locked(global) => Allowed(Began) + AttemptsGlobal <= Allowed(now)
  <2>1. Began \in Nat \ {0} /\ Began <= now
    BY <1>c, <1>4 DEF ThrottleInv
  <2>2. ~Panel!Locked(global) => Began + Lockout <= now
    BY <1>c, <1>4 DEF ThrottleInv, Began, Panel!Locked
  <2> QED
    BY <1>c, <2>1, <2>2, AllowedGrows
<1>5. CASE global.n + 1 >= AttemptsGlobal
  <2>1. global' = [n |-> 0, until |-> now + Lockout]
    BY <1>1, <1>5 DEF Panel!Counted
  <2>2. judged' <= Allowed(now)
    BY <1>c, <1>2, <1>3, <1>4, <1>5 DEF ThrottleInv
  <2>3. Began' = now /\ Allowed(Began)' = Allowed(now) /\ global'.until > 0 /\ global'.n = 0
    <3>1. Began' = now
      BY <1>c, <2>1 DEF Began
    <3>2. Allowed(Began)' = Allowed(now)
      BY <3>1 DEF Allowed
    <3> QED
      BY <1>c, <2>1, <3>1, <3>2
  <2>4. global' \in [n : 0 .. AttemptsGlobal - 1, until : Nat]
    BY <1>c, <2>1
  <2> QED
    BY <1>c, <1>2, <1>3, <2>2, <2>3, <2>4 DEF ThrottleInv
<1>6. CASE global.n + 1 < AttemptsGlobal
  <2>1. global' = [global EXCEPT !.n = global.n + 1]
    BY <1>1, <1>6, <1>c DEF Panel!Counted, ThrottleInv
  <2>2. /\ global' \in [n : 0 .. AttemptsGlobal - 1, until : Nat]
        /\ global'.n = global.n + 1 /\ global'.until = global.until
    BY <1>c, <1>6, <2>1 DEF ThrottleInv
  <2>3. /\ Began' = Began /\ Allowed(Began)' = Allowed(Began)
        /\ Panel!Locked(global)' = Panel!Locked(global)
    BY <2>2 DEF Began, Allowed, Panel!Locked
  <2>4. global.until > 0 => Allowed(Began) \in Nat
    BY <1>4
  <2> QED
    BY <1>c, <1>2, <2>2, <2>3, <2>4 DEF ThrottleInv
<1> QED
  BY <1>c, <1>5, <1>6 DEF ThrottleInv

\* Nothing judged, nothing locked.
LEMMA CleanThrottle ==
  ASSUME Panel!Parameters, ThrottleInv, global' = Panel!Clean, judged' = 0, now' = now,
         restarts' \in Nat
  PROVE  ThrottleInv'
<1>1. AttemptsGlobal \in Nat \ {0}
  BY DEF Panel!Parameters
<1>2. global' = [n |-> 0, until |-> 0]
  BY DEF Panel!Clean
<1> QED
  BY <1>1, <1>2 DEF ThrottleInv, Clocks

LEMMA TickKeepsThrottle ==
  ASSUME Panel!Parameters, ThrottleInv, now' = now + 1, UNCHANGED <<restarts, global, judged>>
  PROVE  ThrottleInv'
<1>1. now' \in Nat \ {0}
  BY DEF ThrottleInv, Clocks
<1>2. Began' = Began /\ Allowed(Began)' = Allowed(Began)
  BY DEF Began, Allowed
<1>3. ASSUME global.until > 0
      PROVE  Allowed(Began) \in Nat
  BY <1>3, AllowedGrows DEF ThrottleInv, Clocks
<1>4. judged <= Allowed(Began) + (IF Panel!Locked(global) THEN 0 ELSE global.n) /\ global.until > 0
        => judged <= Allowed(Began) + (IF Panel!Locked(global) THEN 0 ELSE global.n)'
  BY <1>1, <1>3 DEF Panel!Parameters, ThrottleInv, Panel!Locked, Clocks
<1>5. global.until > 0 => Began \in 1..now'
  BY DEF ThrottleInv, Clocks
<1> QED
  BY <1>1, <1>2, <1>4, <1>5 DEF ThrottleInv, Clocks

LEMMA SameThrottle ==
  ASSUME ThrottleInv, UNCHANGED <<now, restarts, global, judged>>
  PROVE  ThrottleInv'
BY DEF ThrottleInv, Clocks, Began, Allowed, Panel!Locked

LEMMA ThrottleStep ==
  ASSUME Panel!Parameters
  PROVE  ThrottleInv /\ [Panel!Next]_(Panel!vars) => ThrottleInv'
<1> SUFFICES ASSUME ThrottleInv, [Panel!Next]_(Panel!vars)
             PROVE  ThrottleInv'
  OBVIOUS
<1> USE DEF Panel!throttle, Panel!recovery
<1>1. CASE Panel!Tick
  BY <1>1, TickKeepsThrottle DEF Panel!Tick
<1>2. CASE Panel!Restart
  BY <1>2, CleanThrottle DEF Panel!Restart, ThrottleInv, Clocks
<1>3. ASSUME NEW r \in Requests, Panel!Wrong(r)
      PROVE  ThrottleInv'
  BY <1>3, WrongKeepsThrottle DEF Panel!Wrong
<1>4. ASSUME NEW r \in Requests, Panel!Right(r) \/ Panel!Clear(r)
      PROVE  ThrottleInv'
  BY <1>4, CleanThrottle
     DEF Panel!Right, Panel!Succeeded, Panel!Clear, Panel!Cleared, ThrottleInv, Clocks
<1>5. ASSUME NEW r \in Requests,
             \/ \E a \in Addresses, given \in Passwords : Panel!Login(r, a, given)
             \/ Panel!OpenSession(r) \/ Panel!Forget(r) \/ Panel!Start(r) \/ Panel!FileCode(r)
             \/ Panel!RemoveFile(r) \/ Panel!Update(r) \/ Panel!Dropped(r)
      PROVE  ThrottleInv'
  BY <1>5, SameThrottle
     DEF Panel!Login, Panel!OpenSession, Panel!Forget, Panel!Start, Panel!FileCode,
         Panel!RemoveFile, Panel!Update, Panel!Dropped
<1>6. ASSUME NEW r \in Requests, NEW s \in Requests,
             Panel!Logout(r, s) \/ Panel!Expire(s) \/ \E p \in Passwords : Panel!PutPassword(r, s, p)
      PROVE  ThrottleInv'
  BY <1>6, SameThrottle DEF Panel!Logout, Panel!Expire, Panel!PutPassword
<1>7. ASSUME NEW r \in Requests, NEW id \in Requests, NEW right \in BOOLEAN,
             NEW p \in Passwords, Panel!Answer(r, id, right, p)
      PROVE  ThrottleInv'
  BY <1>7, SameThrottle DEF Panel!Answer
<1>8. CASE UNCHANGED Panel!vars
  BY <1>8, SameThrottle DEF Panel!vars
<1> QED
  BY <1>1, <1>2, <1>3, <1>4, <1>5, <1>6, <1>7, <1>8 DEF Panel!Next

(* server/dashboard.rs: whatever addresses the guesses come from, and       *)
(* whatever the table of them forgets, no more passwords are judged than    *)
(* one lockout's worth per lockout that could have passed.                  *)
THEOREM PanelSignInBudget ==
  ASSUME Panel!Parameters
  PROVE  Panel!Spec => []SignInBudget
<1>1. Panel!Init => ThrottleInv
  BY DEF Panel!Parameters, Panel!Init, ThrottleInv, Clocks, Panel!Clean
<1>2. ThrottleInv => SignInBudget
  <2> SUFFICES ASSUME ThrottleInv
               PROVE  SignInBudget
    OBVIOUS
  <2>1. now \in Nat \ {0} /\ Lockout \in Nat \ {0} /\ AttemptsGlobal \in Nat \ {0}
    BY DEF Panel!Parameters, ThrottleInv, Clocks
  <2>2. AttemptsGlobal <= Allowed(now) /\ Allowed(now) \in Nat
    BY <2>1, AllowedGrows
  <2>3. ASSUME global.until > 0
        PROVE  judged <= Allowed(now)
    <3>1. Began \in Nat \ {0} /\ Began <= now
      BY <2>1, <2>3 DEF ThrottleInv
    <3>2. ~Panel!Locked(global) => Began + Lockout <= now
      BY <2>1, <2>3 DEF ThrottleInv, Began, Panel!Locked
    <3>3. /\ Allowed(Began) \in Nat
          /\ Allowed(Began) <= Allowed(now)
          /\ ~Panel!Locked(global) => Allowed(Began) + AttemptsGlobal <= Allowed(now)
      BY <2>1, <3>1, <3>2, AllowedGrows
    <3> QED
      BY <2>1, <2>2, <2>3, <3>3 DEF ThrottleInv
  <2>4. judged <= Allowed(now)
    BY <2>1, <2>2, <2>3 DEF ThrottleInv
  <2> QED
    BY <2>4 DEF SignInBudget, Allowed, Periods
<1> QED
  BY <1>1, <1>2, ThrottleStep, PTL DEF Panel!Spec

-----------------------------------------------------------------------------
(* The codes' invariant is kept. *)

Budget == MaxAttempts * Minted

LEMMA BudgetType ==
  ASSUME Panel!Parameters, CodeInv
  PROVE  Minted \in Nat /\ Budget \in Nat
<1>1. MintInterval \in Nat \ {0} /\ MaxAttempts \in Nat \ {0}
  BY DEF Panel!Parameters
<1>2. Periods(now, MintInterval) \in Nat
  BY <1>1, PeriodsGrow DEF CodeInv, Clocks
<1>3. lastMint # 0 => Periods(lastMint, MintInterval) \in Nat
  BY <1>1, PeriodsGrow DEF CodeInv, Clocks
<1>4. Minted \in Nat
  BY <1>2, <1>3 DEF Minted, CodeInv, Clocks
<1> QED
  BY <1>1, <1>4, Budgets DEF Budget

\* Whatever there was to guess, no code is left.
LEMMA Forgotten ==
  ASSUME Panel!Parameters, CodeInv, pending' = None, guesses' = guesses,
         now' \in Nat \ {0}, restarts' \in Nat, lastMint' \in 0..now',
         Budget' \in Nat, Budget <= Budget'
  PROVE  CodeInv'
<1>1. MaxAttempts \in Nat \ {0}
  BY DEF Panel!Parameters
<1>2. guesses <= Budget
  BY <1>1, BudgetType DEF CodeInv, Budget
<1> QED
  BY <1>2, BudgetType DEF CodeInv, Clocks, Budget

LEMMA TickKeepsCodes ==
  ASSUME Panel!Parameters, CodeInv, now' = now + 1, UNCHANGED <<restarts, pending, lastMint, guesses>>
  PROVE  CodeInv'
<1>1. MintInterval \in Nat \ {0} /\ MaxAttempts \in Nat \ {0} /\ now \in Nat \ {0}
  BY DEF Panel!Parameters, CodeInv, Clocks
<1>2. /\ Periods(now, MintInterval) \in Nat /\ Periods(now + 1, MintInterval) \in Nat
      /\ Periods(now, MintInterval) <= Periods(now + 1, MintInterval)
  BY <1>1, PeriodsGrow
<1>3. Minted' \in Nat /\ Minted <= Minted' /\ (lastMint # 0 => Minted' = Minted)
  <2>1. CASE lastMint = 0
    BY <1>2, <2>1 DEF Minted, CodeInv, Clocks
  <2>2. CASE lastMint # 0
    BY <2>2, BudgetType DEF Minted
  <2> QED
    BY <2>1, <2>2
<1>4. Budget' \in Nat /\ Budget <= Budget' /\ (lastMint # 0 => Budget' = Budget)
  BY <1>1, <1>3, BudgetType, Budgets DEF Budget
<1> QED
  BY <1>1, <1>4, BudgetType DEF CodeInv, Clocks, Budget

LEMMA RestartKeepsCodes ==
  ASSUME Panel!Parameters, CodeInv, Panel!Restart
  PROVE  CodeInv'
<1>1. MintInterval \in Nat \ {0} /\ MaxAttempts \in Nat \ {0} /\ now \in Nat \ {0}
  BY DEF Panel!Parameters, CodeInv, Clocks
<1>2. /\ Periods(now, MintInterval) \in Nat
      /\ lastMint # 0 => /\ Periods(lastMint, MintInterval) \in Nat
                         /\ Periods(lastMint, MintInterval) <= Periods(now, MintInterval)
  BY <1>1, PeriodsGrow DEF CodeInv
<1>3. Minted' = restarts + 1 + Periods(now, MintInterval)
  BY DEF Panel!Restart, Minted
<1>4. Minted' \in Nat /\ Minted <= Minted'
  BY <1>2, <1>3 DEF Minted, CodeInv, Clocks
<1>5. Budget' \in Nat /\ Budget <= Budget'
  BY <1>1, <1>4, BudgetType, Budgets DEF Budget
<1> QED
  BY <1>1, <1>5, Forgotten DEF Panel!Restart, CodeInv, Clocks

LEMMA MintKeepsCodes ==
  ASSUME Panel!Parameters, CodeInv, NEW r \in Requests, Panel!Start(r)
  PROVE  CodeInv'
<1>1. /\ MintInterval \in Nat \ {0} /\ MaxAttempts \in Nat \ {0} /\ CodeTtl \in Nat
      /\ now \in Nat \ {0}
  BY DEF Panel!Parameters, CodeInv, Clocks
<1>2. UNCHANGED <<now, guesses, restarts>>
  BY DEF Panel!Start
<1>3. CASE UNCHANGED <<pending, lastMint>>
  BY <1>2, <1>3 DEF CodeInv, Clocks, Minted
<1>4. CASE /\ lastMint' = now
           /\ pending' = [id |-> r, expires |-> now + CodeTtl, attempts |-> 0]
           /\ lastMint > 0 => lastMint + MintInterval <= now
  <2>1. /\ Periods(now, MintInterval) \in Nat
        /\ lastMint # 0 => /\ Periods(lastMint, MintInterval) \in Nat
                           /\ Periods(lastMint, MintInterval) + 1 <= Periods(now, MintInterval)
    BY <1>1, <1>4, PeriodsGrow DEF CodeInv
  <2>2. Minted' = restarts + 1 + Periods(now, MintInterval)
    BY <1>1, <1>2, <1>4 DEF Minted
  <2>3. Minted' \in Nat /\ Minted + 1 <= Minted'
    BY <2>1, <2>2 DEF Minted, CodeInv, Clocks
  <2>4. Budget' \in Nat /\ Budget + MaxAttempts <= Budget'
    BY <1>1, <2>3, BudgetType, Budgets DEF Budget
  <2>5. guesses <= Budget /\ guesses \in Nat
    BY <1>1, BudgetType DEF CodeInv, Budget
  <2>6. guesses + MaxAttempts <= Budget'
    BY <1>1, <2>4, <2>5, BudgetType
  <2>7. /\ pending' \in [id : Requests, expires : Nat, attempts : 0 .. MaxAttempts - 1]
        /\ pending'.attempts = 0
    BY <1>1, <1>4
  <2> QED
    BY <1>1, <1>2, <1>4, <2>4, <2>5, <2>6, <2>7 DEF CodeInv, Clocks, Budget
<1> QED
  BY <1>1, <1>3, <1>4 DEF Panel!Start, Panel!Mint, CodeInv

LEMMA AnswerKeepsCodes ==
  ASSUME Panel!Parameters, CodeInv, NEW r \in Requests, NEW id \in Requests, NEW right \in BOOLEAN,
         NEW p \in Passwords, Panel!Answer(r, id, right, p)
  PROVE  CodeInv'
<1>1. MaxAttempts \in Nat \ {0}
  BY DEF Panel!Parameters
<1>2. /\ UNCHANGED <<now, restarts, lastMint>> /\ pending' = Panel!Verify(id, right).left
      /\ guesses' = IF Panel!Live /\ id = pending.id /\ ~right THEN guesses + 1 ELSE guesses
  BY DEF Panel!Answer
<1>3. Minted' = Minted /\ Budget' = Budget
  BY <1>2 DEF Minted, Budget
<1>4. CASE pending' = None /\ guesses' = guesses
  BY <1>2, <1>3, <1>4, BudgetType, Forgotten DEF CodeInv, Clocks
<1>5. CASE UNCHANGED <<pending, guesses>>
  BY <1>2, <1>3, <1>5 DEF CodeInv, Clocks
<1>6. CASE Panel!Live /\ id = pending.id /\ ~right
  <2>1. /\ pending # None
        /\ guesses' = guesses + 1
        /\ pending' = IF pending.attempts + 1 >= MaxAttempts THEN None
                      ELSE [pending EXCEPT !.attempts = pending.attempts + 1]
    BY <1>2, <1>6 DEF Panel!Verify, Panel!Live
  <2>2. /\ guesses \in Nat /\ pending.attempts \in 0 .. MaxAttempts - 1
        /\ guesses + MaxAttempts - pending.attempts <= Budget
    BY <2>1 DEF CodeInv, Budget
  <2>3. CASE pending.attempts + 1 >= MaxAttempts
    <3>1. pending' = None
      BY <2>1, <2>3
    <3>2. guesses' \in Nat /\ guesses' <= Budget'
      BY <1>1, <1>3, <2>1, <2>2, <2>3, BudgetType
    <3> QED
      BY <1>2, <3>1, <3>2 DEF CodeInv, Clocks, Budget
  <2>4. CASE pending.attempts + 1 < MaxAttempts
    <3>1. pending' = [pending EXCEPT !.attempts = pending.attempts + 1]
      BY <1>1, <2>1, <2>2, <2>4
    <3>2. /\ pending' \in [id : Requests, expires : Nat, attempts : 0 .. MaxAttempts - 1]
          /\ pending'.attempts = pending.attempts + 1
      BY <1>1, <2>1, <2>2, <2>4, <3>1 DEF CodeInv
    <3>3. guesses' \in Nat /\ guesses' + MaxAttempts - pending'.attempts <= Budget'
      BY <1>1, <1>3, <2>1, <2>2, <3>2, BudgetType
    <3>4. guesses' <= Budget'
      BY <1>1, <1>3, <2>1, <2>2, <2>4, BudgetType
    <3> QED
      BY <1>2, <2>1, <3>2, <3>3, <3>4 DEF CodeInv, Clocks, Budget
  <2> QED
    BY <1>1, <2>2, <2>3, <2>4
<1> QED
  BY <1>2, <1>4, <1>5, <1>6 DEF Panel!Verify

LEMMA CodeStep ==
  ASSUME Panel!Parameters
  PROVE  CodeInv /\ [Panel!Next]_(Panel!vars) => CodeInv'
<1> SUFFICES ASSUME CodeInv, [Panel!Next]_(Panel!vars)
             PROVE  CodeInv'
  OBVIOUS
<1> USE DEF Panel!throttle, Panel!recovery
<1>1. CASE Panel!Tick
  BY <1>1, TickKeepsCodes DEF Panel!Tick
<1>2. CASE Panel!Restart
  BY <1>2, RestartKeepsCodes
<1>3. ASSUME NEW r \in Requests, Panel!Start(r)
      PROVE  CodeInv'
  BY <1>3, MintKeepsCodes
<1>4. ASSUME NEW r \in Requests, NEW id \in Requests, NEW right \in BOOLEAN,
             NEW p \in Passwords, Panel!Answer(r, id, right, p)
      PROVE  CodeInv'
  BY <1>4, AnswerKeepsCodes
<1>5. ASSUME NEW r \in Requests, Panel!Forget(r)
      PROVE  CodeInv'
  <2>1. pending' = None /\ UNCHANGED <<now, restarts, lastMint, guesses>>
    BY <1>5 DEF Panel!Forget
  <2>2. Budget' = Budget
    BY <2>1 DEF Budget, Minted
  <2> QED
    BY <2>1, <2>2, Forgotten, BudgetType DEF CodeInv, Clocks
<1>6. ASSUME UNCHANGED <<now, restarts, pending, lastMint, guesses>>
      PROVE  CodeInv'
  BY <1>6 DEF CodeInv, Clocks, Minted
<1>7. ASSUME NEW r \in Requests,
             \/ \E a \in Addresses, given \in Passwords : Panel!Login(r, a, given)
             \/ Panel!Wrong(r) \/ Panel!Right(r) \/ Panel!OpenSession(r) \/ Panel!FileCode(r)
             \/ Panel!RemoveFile(r) \/ Panel!Update(r) \/ Panel!Clear(r) \/ Panel!Dropped(r)
      PROVE  CodeInv'
  BY <1>6, <1>7
     DEF Panel!Login, Panel!Wrong, Panel!Right, Panel!OpenSession, Panel!FileCode,
         Panel!RemoveFile, Panel!Update, Panel!Clear, Panel!Dropped
<1>8. ASSUME NEW r \in Requests, NEW s \in Requests,
             Panel!Logout(r, s) \/ Panel!Expire(s) \/ \E p \in Passwords : Panel!PutPassword(r, s, p)
      PROVE  CodeInv'
  BY <1>6, <1>8 DEF Panel!Logout, Panel!Expire, Panel!PutPassword
<1>9. CASE UNCHANGED Panel!vars
  BY <1>6, <1>9 DEF Panel!vars
<1> QED
  BY <1>1, <1>2, <1>3, <1>4, <1>5, <1>7, <1>8, <1>9 DEF Panel!Next

(* reset.rs: across expiry, exhaustion, every way of forgetting a code and  *)
(* every restart, no more wrong answers are judged than one code's worth    *)
(* per interval and per process.                                            *)
THEOREM PanelCodeBudget ==
  ASSUME Panel!Parameters
  PROVE  Panel!Spec => []CodeBudget
<1>1. Panel!Init => CodeInv
  <2> SUFFICES ASSUME Panel!Init
               PROVE  CodeInv
    OBVIOUS
  <2>1. /\ now = 1 /\ guesses = 0 /\ lastMint = 0 /\ pending = None /\ restarts = 0
        /\ MaxAttempts \in Nat /\ MintInterval \in Nat \ {0}
    BY DEF Panel!Parameters, Panel!Init
  <2>2. Minted \in Nat
    BY <2>1, PeriodsGrow DEF Minted
  <2> QED
    BY <2>1, <2>2, Budgets DEF CodeInv, Clocks
<1>2. CodeInv => CodeBudget
  <2> SUFFICES ASSUME CodeInv
               PROVE  CodeBudget
    OBVIOUS
  <2>1. /\ MintInterval \in Nat \ {0} /\ MaxAttempts \in Nat \ {0} /\ now \in Nat \ {0}
        /\ restarts \in Nat
    BY DEF Panel!Parameters, CodeInv, Clocks
  <2>2. guesses <= Budget /\ guesses \in Nat
    BY <2>1, BudgetType DEF CodeInv, Budget
  <2>3. /\ Periods(now, MintInterval) \in Nat
        /\ lastMint # 0 => /\ Periods(lastMint, MintInterval) \in Nat
                           /\ Periods(lastMint, MintInterval) <= Periods(now, MintInterval)
    BY <2>1, PeriodsGrow DEF CodeInv
  <2>4. Minted <= 1 + restarts + Periods(now, MintInterval)
    BY <2>1, <2>3 DEF Minted
  <2>5. Budget <= MaxAttempts * (1 + restarts + Periods(now, MintInterval))
    <3>1. 1 + restarts + Periods(now, MintInterval) \in Nat
      BY <2>1, <2>3
    <3> QED
      BY <2>1, <2>4, <3>1, BudgetType, Budgets DEF Budget
  <2>6. MaxAttempts * (1 + restarts + Periods(now, MintInterval)) \in Nat
    BY <2>1, <2>3, Budgets
  <2> QED
    BY <2>2, <2>5, <2>6, BudgetType DEF CodeBudget, Periods
<1> QED
  BY <1>1, <1>2, CodeStep, PTL DEF Panel!Spec

-----------------------------------------------------------------------------
(* The sessions.  A reset that has not yet signed everybody out is still    *)
(* clearing; whoever opens a session under another password is marked.      *)

SessionsInv == DOMAIN pc = Requests /\ ResetSignsOut

LEMMA SessionsLeave ==
  ASSUME SessionsInv, NEW S, sessions' = Panel!Only(sessions, S),
         UNCHANGED <<password, setBy>>, DOMAIN pc' = Requests,
         \A r \in Requests : pc'[r] = "clearing" <=> pc[r] = "clearing"
  PROVE  SessionsInv'
BY DEF SessionsInv, ResetSignsOut, Panel!Only

LEMMA SessionsStay ==
  ASSUME SessionsInv, UNCHANGED <<password, setBy, sessions>>, DOMAIN pc' = Requests,
         \A r \in Requests : pc'[r] = "clearing" <=> pc[r] = "clearing"
  PROVE  SessionsInv'
BY DEF SessionsInv, ResetSignsOut

LEMMA SessionsStep == SessionsInv /\ [Panel!Next]_(Panel!vars) => SessionsInv'
<1> SUFFICES ASSUME SessionsInv, [Panel!Next]_(Panel!vars)
             PROVE  SessionsInv'
  OBVIOUS
<1> USE DEF Panel!throttle, Panel!recovery, Panel!Goto, Panel!Goes
<1>0. DOMAIN pc = Requests
  BY DEF SessionsInv
<1>1. CASE Panel!Tick \/ UNCHANGED Panel!vars
  BY <1>0, <1>1, SessionsStay DEF Panel!Tick, Panel!vars
<1>2. CASE Panel!Restart
  BY <1>2 DEF Panel!Restart, SessionsInv, ResetSignsOut, Panel!NoSession
<1>3. ASSUME NEW r \in Requests,
             \/ \E a \in Addresses, given \in Passwords : Panel!Login(r, a, given)
             \/ Panel!Wrong(r) \/ Panel!Right(r)
      PROVE  SessionsInv'
  BY <1>0, <1>3, SessionsStay DEF Panel!Login, Panel!Wrong, Panel!Right
<1>4. ASSUME NEW r \in Requests, Panel!OpenSession(r)
      PROVE  SessionsInv'
  <2>1. PICK S, session :
          /\ sessions' = Panel!With(Panel!Only(sessions, S), r, session)
          /\ session.under # password => session.overtaken
    <3> DEFINE live    == {s \in DOMAIN sessions : sessions[s].expires > now}
               session == [expires |-> now + Ttl, under |-> arg[r].expected,
                           overtaken |-> arg[r].expected # password]
    <3>1. sessions' = Panel!With(Panel!Only(sessions, live), r, session)
      BY <1>4 DEF Panel!OpenSession
    <3>2. session.under # password => session.overtaken
      OBVIOUS
    <3> HIDE DEF live, session
    <3> QED
      BY <3>1, <3>2
  <2>2. /\ UNCHANGED <<password, setBy>> /\ DOMAIN pc' = Requests
        /\ \A q \in Requests : pc'[q] = "clearing" <=> pc[q] = "clearing"
    BY <1>0, <1>4 DEF Panel!OpenSession
  <2> QED
    BY <2>1, <2>2 DEF SessionsInv, ResetSignsOut, Panel!With, Panel!Only
<1>5. ASSUME NEW r \in Requests, NEW s \in Requests, Panel!Logout(r, s)
      PROVE  SessionsInv'
  BY <1>0, <1>5, SessionsLeave DEF Panel!Logout
<1>6. ASSUME NEW s \in Requests, Panel!Expire(s)
      PROVE  SessionsInv'
  BY <1>0, <1>6, SessionsLeave DEF Panel!Expire
<1>7. ASSUME NEW r \in Requests, NEW s \in Requests, NEW p \in Passwords, Panel!PutPassword(r, s, p)
      PROVE  SessionsInv'
  BY <1>0, <1>7 DEF Panel!PutPassword, SessionsInv, ResetSignsOut
<1>8. ASSUME NEW r \in Requests, Panel!Start(r)
      PROVE  SessionsInv'
  BY <1>0, <1>8, SessionsStay DEF Panel!Start, Panel!Mint
<1>9. ASSUME NEW r \in Requests,
             Panel!Forget(r) \/ Panel!FileCode(r) \/ Panel!RemoveFile(r) \/ Panel!Dropped(r)
      PROVE  SessionsInv'
  BY <1>0, <1>9, SessionsStay
     DEF Panel!Forget, Panel!FileCode, Panel!RemoveFile, Panel!Dropped
<1>10. ASSUME NEW r \in Requests, NEW id \in Requests, NEW right \in BOOLEAN,
              NEW p \in Passwords, Panel!Answer(r, id, right, p)
       PROVE  SessionsInv'
  BY <1>0, <1>10, SessionsStay DEF Panel!Answer
<1>11. ASSUME NEW r \in Requests, Panel!Update(r)
       PROVE  SessionsInv'
  BY <1>0, <1>11 DEF Panel!Update, SessionsInv, ResetSignsOut
<1>12. ASSUME NEW r \in Requests, Panel!Clear(r)
       PROVE  SessionsInv'
  BY <1>0, <1>12 DEF Panel!Clear, Panel!NoSession, SessionsInv, ResetSignsOut
<1> QED
  BY <1>1, <1>2, <1>3, <1>4, <1>5, <1>6, <1>7, <1>8, <1>9, <1>10, <1>11, <1>12 DEF Panel!Next

(* server/dashboard.rs, reset.rs: once no reset is clearing any more, no    *)
(* session of an older password is left but those whose sign-in it overtook.*)
THEOREM PanelResetSignsOut == Panel!Spec => []ResetSignsOut
<1>1. Panel!Init => SessionsInv
  BY DEF Panel!Init, SessionsInv, ResetSignsOut
<1>2. SessionsInv => ResetSignsOut
  BY DEF SessionsInv
<1> QED
  BY <1>1, <1>2, SessionsStep, PTL DEF Panel!Spec

-----------------------------------------------------------------------------
(***************************************************************************)
(* One connector at a time, for any number of callers and connectors.      *)
(***************************************************************************)

TaskPlaces == {"idle", "looking", "off", "sleeping", "starting", "probing",
           "taking", "reaping", "unborn", "watching", "died", "killed",
           "backoff", "over"}

TunnelType ==
  /\ pc \in [Tunnel!Tasks -> TaskPlaces]
  /\ lock \in Tunnel!Tasks \union {None}
  /\ running \in Procs \union {None}
  /\ stopping \in BOOLEAN
  /\ alive \subseteq Procs /\ asked \subseteq Procs /\ reaped \subseteq Procs
  /\ took \in [Callers -> Procs \union {None}]
  /\ again \subseteq Callers

\* Whoever probes has the lock, and found nothing running when it got it.
ProbesLocked == \A t \in Tunnel!Tasks : pc[t] = "probing" => lock = t /\ running = None

\* The supervisor watches a process that runs; the others run no process.
WatchesTheAlive == \A p \in Procs : p \in alive <=> pc[p] = "watching"

\* A connector that has not been reported gone yet.
Unreported(p) == p \notin reaped /\ pc[p] \in {"watching", "died", "killed"}

(* A stop waits for a supervisor that has been asked and still has to        *)
(* report, or that has reported: none waits for a process nobody ends.      *)
WaitsForAnAnswer ==
  \A c \in Callers : took[c] # None =>
    took[c] \in reaped \/ (took[c] \in asked /\ Unreported(took[c]))

TunnelInv ==
  /\ TunnelType
  /\ ProbesLocked
  /\ WatchesTheAlive
  /\ OneWanted
  /\ running # None => Unreported(running)
  /\ WaitsForAnAnswer

LEMMA TunnelInitially ==
  ASSUME Tunnel!Parameters
  PROVE  Tunnel!Init => TunnelInv
BY DEF Tunnel!Parameters, Tunnel!Init, TunnelInv, TunnelType, TaskPlaces, ProbesLocked,
   WatchesTheAlive, OneWanted, Unreported, WaitsForAnAnswer, Tunnel!Tasks

LEMMA TunnelStep ==
  ASSUME Tunnel!Parameters
  PROVE  TunnelInv /\ [Tunnel!Next]_(Tunnel!vars) => TunnelInv'
<1> USE
   DEF Tunnel!Parameters, TunnelInv, TunnelType, TaskPlaces, ProbesLocked, WatchesTheAlive,
       OneWanted,
        Unreported, WaitsForAnAnswer, Tunnel!Tasks, Tunnel!Goto
<1> SUFFICES ASSUME TunnelInv, [Tunnel!Next]_(Tunnel!vars)
             PROVE  TunnelInv'
  OBVIOUS
<1>1. ASSUME NEW t \in Tunnel!Tasks, NEW ok \in BOOLEAN
      PROVE  Tunnel!Then(t, ok) \in TaskPlaces \ {"probing", "watching", "died", "killed"}
  BY DEF Tunnel!Then
<1>2. ASSUME NEW t \in Tunnel!Tasks, Tunnel!Start(t)
      PROVE  TunnelInv'
  <2>1. PICK to \in TaskPlaces \ {"probing", "watching", "died", "killed"} : to = Tunnel!Then(t, TRUE)
    BY <1>1
  <2>2. CASE running # None
    <3>1. /\ pc' = [pc EXCEPT ![t] = to] /\ pc[t] = "starting"
          /\ UNCHANGED <<lock, running, stopping, alive, asked, reaped, took, again>>
      BY <1>2, <2>1, <2>2 DEF Tunnel!Start, Tunnel!procs, Tunnel!calls
    <3>2. pc' \in [Tunnel!Tasks -> TaskPlaces]
      BY <2>1, <3>1
    <3>3. TunnelType'
      BY <3>1, <3>2
    <3>4. ProbesLocked' /\ WatchesTheAlive'
      BY <2>1, <3>1
    <3>5. OneWanted' /\ (running # None => Unreported(running))'
      BY <2>1, <3>1
    <3>6. WaitsForAnAnswer'
      BY <2>1, <3>1
    <3> QED
      BY <3>3, <3>4, <3>5, <3>6
  <2>3. CASE running = None
    BY <1>2, <2>3 DEF Tunnel!Start, Tunnel!procs, Tunnel!calls
  <2> QED
    BY <2>2, <2>3
<1>3. ASSUME NEW t \in Tunnel!Tasks, Tunnel!Refuse(t)
      PROVE  TunnelInv'
  BY <1>1, <1>3 DEF Tunnel!Refuse, Tunnel!procs, Tunnel!calls
<1>4. ASSUME NEW t \in Tunnel!Tasks, Tunnel!SpawnFails(t)
      PROVE  TunnelInv'
  BY <1>1, <1>4 DEF Tunnel!SpawnFails, Tunnel!procs, Tunnel!calls
<1>5. ASSUME NEW t \in Tunnel!Tasks, NEW p \in Procs, Tunnel!Spawn(t, p)
      PROVE  TunnelInv'
  <2>1. t # p /\ p \notin {took[c] : c \in Callers} /\ running = None /\ lock = t
    BY <1>5 DEF Tunnel!Spawn, Tunnel!Free
  <2>2. PICK to \in TaskPlaces \ {"probing", "watching", "died", "killed"} : to = Tunnel!Then(t, TRUE)
    BY <1>1
  <2>3. /\ pc' = [pc EXCEPT ![p] = "watching", ![t] = to]
        /\ alive' = alive \union {p} /\ asked' = asked \ {p} /\ reaped' = reaped \ {p}
        /\ running' = p /\ lock' = None /\ stopping' = FALSE
        /\ took' = took /\ again' = again
        /\ pc[t] = "probing" /\ pc[p] \in {"unborn", "over"}
    BY <1>5, <2>2 DEF Tunnel!Spawn, Tunnel!Free, Tunnel!calls
  <2>4. TunnelType'
    <3>1. pc' \in [Tunnel!Tasks -> TaskPlaces]
      BY <2>2, <2>3
    <3>2. stopping' \in BOOLEAN
      BY <2>3
    <3>3. /\ lock' \in Tunnel!Tasks \union {None} /\ running' \in Procs \union {None}
          /\ alive' \subseteq Procs /\ asked' \subseteq Procs /\ reaped' \subseteq Procs
          /\ took' \in [Callers -> Procs \union {None}] /\ again' \subseteq Callers
      BY <2>3
    <3> QED
      BY <3>1, <3>2, <3>3
  <2>5. ProbesLocked' /\ WatchesTheAlive'
    BY <2>1, <2>3
  <2>6. OneWanted' /\ (running # None => Unreported(running))'
    BY <2>1, <2>3
  <2>7. WaitsForAnAnswer'
    BY <2>1, <2>3
  <2> QED
    BY <2>4, <2>5, <2>6, <2>7
<1>6. ASSUME NEW p \in Procs, Tunnel!Exit(p) \/ Tunnel!Kill(p)
      PROVE  TunnelInv'
  BY <1>6 DEF Tunnel!Exit, Tunnel!Kill, Tunnel!calls
<1>7. ASSUME NEW p \in Procs, Tunnel!Report(p)
      PROVE  TunnelInv'
  <2>1. PICK to \in {"over", "backoff"} :
          /\ pc' = [pc EXCEPT ![p] = to]
          /\ running' = None /\ asked' = Tunnel!Dropped /\ reaped' = reaped \union {p}
          /\ lock' = lock /\ stopping' = stopping /\ alive' = alive
          /\ took' = took /\ again' = again
          /\ pc[p] \in {"died", "killed"} /\ lock = None
    BY <1>7 DEF Tunnel!Report, Tunnel!calls
  <2>2. TunnelType' /\ ProbesLocked' /\ WatchesTheAlive'
    BY <2>1 DEF Tunnel!Dropped
  <2>3. OneWanted' /\ (running # None => Unreported(running))'
    BY <2>1 DEF Tunnel!Dropped
  <2>4. WaitsForAnAnswer'
    BY <2>1 DEF Tunnel!Dropped
  <2> QED
    BY <2>2, <2>3, <2>4
<1>8. ASSUME NEW p \in Procs, Tunnel!Wake(p)
      PROVE  TunnelInv'
  BY <1>8 DEF Tunnel!Wake, Tunnel!procs, Tunnel!calls
<1>9. ASSUME NEW c \in Callers, Tunnel!CallStart(c)
      PROVE  TunnelInv'
  BY <1>9 DEF Tunnel!CallStart, Tunnel!procs, Tunnel!calls
<1>10. ASSUME NEW c \in Callers, NEW andStart \in BOOLEAN, Tunnel!CallStop(c, andStart)
       PROVE  TunnelInv'
  BY <1>10 DEF Tunnel!CallStop, Tunnel!procs
<1>11. ASSUME NEW c \in Callers, Tunnel!Take(c)
       PROVE  TunnelInv'
  <2>1. TunnelType' /\ ProbesLocked' /\ WatchesTheAlive'
    BY <1>11 DEF Tunnel!Take, Tunnel!Dropped
  <2>2. OneWanted' /\ (running # None => Unreported(running))'
    BY <1>11 DEF Tunnel!Take, Tunnel!Dropped
  <2>3. WaitsForAnAnswer'
    BY <1>11 DEF Tunnel!Take, Tunnel!Dropped
  <2> QED
    BY <2>1, <2>2, <2>3
<1>12. ASSUME NEW c \in Callers, Tunnel!Settle(c) \/ Tunnel!HangUp(c)
       PROVE  TunnelInv'
  <2>1. TunnelType'
    BY <1>12 DEF Tunnel!Settle, Tunnel!HangUp, Tunnel!procs
  <2>2. ProbesLocked' /\ WatchesTheAlive'
    BY <1>12 DEF Tunnel!Settle, Tunnel!HangUp, Tunnel!procs
  <2>3. OneWanted' /\ (running # None => Unreported(running))'
    BY <1>12 DEF Tunnel!Settle, Tunnel!HangUp, Tunnel!procs
  <2>4. WaitsForAnAnswer'
    BY <1>12 DEF Tunnel!Settle, Tunnel!HangUp, Tunnel!procs
  <2> QED
    BY <2>1, <2>2, <2>3, <2>4
<1>13. CASE Tunnel!Look \/ Tunnel!LookAgain
  BY <1>13 DEF Tunnel!Look, Tunnel!LookAgain, Tunnel!procs, Tunnel!calls
<1>14. CASE UNCHANGED Tunnel!vars
  BY <1>14 DEF Tunnel!vars
<1>15. ASSUME NEW t \in Tunnel!Tasks, Tunnel!Step(t)
       PROVE  TunnelInv'
  BY <1>2, <1>3, <1>4, <1>5, <1>15 DEF Tunnel!Step
<1> QED
  BY <1>6, <1>7, <1>8, <1>9, <1>10, <1>11, <1>12, <1>13, <1>14, <1>15
     DEF Tunnel!Next, Tunnel!Supervise, Tunnel!Serve, Tunnel!Keep

(* tunnel.rs: whatever calls, exits and restarts meet, a connector that     *)
(* runs and has not been asked to end is the one whose handle is held.      *)
THEOREM TunnelOneWanted ==
  ASSUME Tunnel!Parameters
  PROVE  Tunnel!Spec => []OneWanted
<1>1. TunnelInv => OneWanted
  BY DEF TunnelInv
<1> QED
  BY TunnelInitially, TunnelStep, <1>1, PTL DEF Tunnel!Spec

(* tunnel.rs: the handle that makes `start` refuse is of a connector that   *)
(* has not been reported gone.                                              *)
THEOREM TunnelHandleIsOfTheLiving ==
  ASSUME Tunnel!Parameters
  PROVE  Tunnel!Spec => []HandleIsOfTheLiving
<1>1. TunnelInv => HandleIsOfTheLiving
  BY DEF TunnelInv, TunnelType, Unreported, HandleIsOfTheLiving, Tunnel!Parameters
<1> QED
  BY TunnelInitially, TunnelStep, <1>1, PTL DEF Tunnel!Spec

(* tunnel.rs: `stop` waits for a supervisor that was asked and has yet to   *)
(* report, or that has reported already: the safety half of its returning.  *)
THEOREM TunnelWaitsForAnAnswer ==
  ASSUME Tunnel!Parameters
  PROVE  Tunnel!Spec => []WaitsForAnAnswer
<1>1. TunnelInv => WaitsForAnAnswer
  BY DEF TunnelInv
<1> QED
  BY TunnelInitially, TunnelStep, <1>1, PTL DEF Tunnel!Spec
=============================================================================
