---------------------------- MODULE RequestProofs ----------------------------
(***************************************************************************)
(* The life of a request, for any number of requests, places and backends, *)
(* any limits, and any crashes and rotations.                              *)
(***************************************************************************)
EXTENDS Request, FiniteSetTheorems, SequenceTheorems, TLAPS

-----------------------------------------------------------------------------
(* The calls to the backends.  At(s, i) are the requests of s that went to  *)
(* place i of the route.                                                    *)

At(s, i) == {n \in DOMAIN s : s[n] = i}

\* Every usable place ahead of i has been asked by the first n requests.
AskedAhead(s, n, i) ==
  \A j \in 1 .. i - 1 : Route[j] \in Usable => \E m \in 1..n : s[m] = j

\* Every usable place ahead of i has been asked to the last retry.
SpentAhead(s, i) ==
  \A j \in 1 .. i - 1 : Route[j] \in Usable => Cardinality(At(s, j)) = MaxAttempts[Route[j]]

\* A call k that has made the requests s.
InTurn(k, s) ==
  /\ k.total + k.used = Len(s)
  /\ \A n \in DOMAIN s : s[n] <= k.place /\ AskedAhead(s, n - 1, s[n])
  /\ \A i \in Places : Cardinality(At(s, i)) <= MaxAttempts[Route[i]]
  /\ k.report = "none" =>
       /\ AskedAhead(s, Len(s), k.place)
       /\ ~k.last => SpentAhead(s, k.place)
       /\ k.place \notin Places => k.used = 0
       /\ k.place \in Places =>
            /\ k.used = Cardinality(At(s, k.place))
            /\ k.used < MaxAttempts[Route[k.place]]
            /\ Route[k.place] \notin Usable => k.used = 0
  /\ k.report = "unreachable" => SpentAhead(s, Len(Route) + 1)

CallsInv == UpstreamTypeOK /\ \A c \in Calls : InTurn(call[c], tried[c])

-----------------------------------------------------------------------------
(* Every variable has its type, what is counted is finite, and a successor  *)
(* that waits has a number to serve under.                                  *)

QuotaFinite ==
  /\ QuotaTypeOK
  /\ IsFiniteSet(unwritten) /\ IsFiniteSet(rows) /\ IsFiniteSet(finished)

BasicInv ==
  /\ TypeOK
  /\ QuotaFinite
  /\ IsFiniteSet(holders)
  /\ next # {} => serving < MaxBoots

-----------------------------------------------------------------------------
(* What is on the books, and what is at the gate.                           *)

Held == {"working", "sending", "streaming", "buffering"}
AtGate(p) == {h \in holders : home[h] = p}

PlacesInv ==
  /\ BasicInv
  /\ \A r \in Requests : /\ pc[r] = "over" <=> r \in finished
                         /\ r \in begun => pc[r] \in {"streaming", "over", "dead"}
  /\ holders = {r \in Requests : Chat(r) /\ pc[r] \in Held}
  /\ \A p \in 0..MaxBoots : Cardinality(AtGate(p)) <= Slots

-----------------------------------------------------------------------------
(* The limiter.  In the window that ends now, the deque has a hit for every *)
(* request that was let through.                                            *)

Passed         == {r \in Requests : passed[r] # Never}
PassedSince(t) == {r \in Passed : passed[r] >= t}
Since(hs, t)   == {i \in DOMAIN hs : hs[i] >= t}

RateInv ==
  /\ BasicInv
  /\ IsFiniteSet(Passed)
  /\ \A r \in Requests : /\ pc[r] = "new" => passed[r] = Never
                         /\ passed[r] # Never => passed[r] <= clock
  /\ PerMinute > 0 =>
       \A t \in clock - Window + 1 .. clock :
         Cardinality(PassedSince(t)) <= Cardinality(Since(hits, t))
  /\ RateHeld

-----------------------------------------------------------------------------
(* The quota.  Without an excuse, the tracker of the process that serves,   *)
(* and that of the successor while it waits, count what has finished.       *)

Counts(t) ==
  /\ t.day \in 0..Today
  /\ \A r \in finished : born[r] <= t.day
  /\ Cardinality(FinishedOn(t.day)) <= t.count

QuotaInv ==
  /\ PlacesInv
  /\ \A r \in Requests : pc[r] \in {"new", "refused"} \/ born[r] \in 0..Today
  /\ excuses = {} => /\ finished = rows \union unwritten
                     /\ up => Counts(tracker)
                     /\ \A t \in next : Counts(t)

-----------------------------------------------------------------------------
(* Types. *)

LEMMA DivSpec ==
  ASSUME NEW x \in Nat, NEW d \in Nat \ {0}
  PROVE  /\ x \div d \in Nat
         /\ d * (x \div d) <= x
         /\ x < d * (x \div d) + d
OBVIOUS

LEMMA DivMono ==
  ASSUME NEW x \in Nat, NEW y \in Nat, NEW d \in Nat \ {0}, x <= y
  PROVE  x \div d <= y \div d
<1>1. SUFFICES ASSUME x \div d >= y \div d + 1
               PROVE  FALSE
  BY DivSpec
<1>2. d * (y \div d + 1) <= d * (x \div d)
  BY <1>1, DivSpec
<1>3. d * (y \div d + 1) = d * (y \div d) + d
  BY DivSpec
<1> QED
  BY <1>2, <1>3, DivSpec

LEMMA DaysGrow ==
  ASSUME NEW s \in Nat, NEW t \in Nat, s <= t
  PROVE  /\ s \div DayLength \in Nat
         /\ s \div DayLength <= t \div DayLength
<1>1. DayLength \in Nat \ {0}
  BY QuotaAssumption
<1> QED
  BY <1>1, DivSpec, DivMono

LEMMA TodayType ==
  ASSUME clock \in 0..MaxClock
  PROVE  Today \in Days /\ Today \in Nat /\ Days \subseteq Nat
<1>1. MaxClock \in Nat /\ clock \in Nat /\ clock <= MaxClock
  BY QuotaAssumption
<1>2. Today \in Nat /\ Today <= MaxClock \div DayLength
  BY <1>1, DaysGrow DEF Today
<1>3. MaxClock \div DayLength \in Nat
  BY <1>1, DaysGrow
<1> QED
  BY <1>2, <1>3 DEF Days

LEMMA RouteType ==
  /\ Len(Route) \in Nat \ {0} /\ Places = 1 .. Len(Route)
  /\ \A i \in Places : Route[i] \in DOMAIN MaxAttempts /\ MaxAttempts[Route[i]] \in Nat \ {0}
BY UpstreamAssumption DEF Places

LEMMA Fields ==
  ASSUME NEW k \in CallType
  PROVE  /\ k.place \in Places \union {Len(Route) + 1} /\ k.place \in Nat
         /\ k.used \in Nat /\ k.total \in Nat /\ k.total + k.used \in Nat
         /\ k.last \in BOOLEAN
         /\ k.report \in Reports
<1>1. k.place \in Nat
  BY RouteType DEF CallType
<1>2. k.last \in BOOLEAN
  BY DEF CallType
<1> QED
  BY <1>1, <1>2 DEF CallType

LEMMA NextPlaceType ==
  ASSUME NEW k \in CallType, k.place \in Places, NEW http \in BOOLEAN
  PROVE  /\ NextPlace(k, http) \in CallType
         /\ NextPlace(k, http).place = k.place + 1
         /\ NextPlace(k, http).used = 0
         /\ NextPlace(k, http).total = k.total + k.used
         /\ NextPlace(k, http).report = k.report
         /\ NextPlace(k, http).last = (k.last \/ http)
<1>1. (k.last \/ http) \in BOOLEAN
  OBVIOUS
<1>2. k.place + 1 \in Places \union {Len(Route) + 1} /\ k.total + k.used \in Nat
  BY Fields, RouteType
<1>3. NextPlace(k, http) \in CallType
  BY <1>1, <1>2 DEF NextPlace, CallType
<1>4. NextPlace(k, http).place = k.place + 1
  BY DEF NextPlace, CallType
<1>5. NextPlace(k, http).used = 0 /\ NextPlace(k, http).total = k.total + k.used
  BY DEF NextPlace, CallType
<1>6. NextPlace(k, http).report = k.report
  BY DEF NextPlace, CallType
<1>7. NextPlace(k, http).last = (k.last \/ http)
  BY DEF NextPlace, CallType
<1> QED
  BY <1>3, <1>4, <1>5, <1>6, <1>7

LEMMA ReportType ==
  ASSUME NEW k \in CallType, NEW what \in Reports
  PROVE  /\ Report(k, what) \in CallType
         /\ Report(k, what).place = k.place
         /\ Report(k, what).used = 0
         /\ Report(k, what).total = k.total + k.used
         /\ Report(k, what).report = what
         /\ Report(k, what).last = k.last
<1>1. k.total + k.used \in Nat
  BY Fields
<1>2. Report(k, what) \in CallType
  BY <1>1 DEF Report, CallType
<1>3. Report(k, what).place = k.place /\ Report(k, what).report = what
  BY DEF Report, CallType
<1>4. Report(k, what).used = 0 /\ Report(k, what).total = k.total + k.used
  BY DEF Report, CallType
<1>5. Report(k, what).last = k.last
  BY DEF Report, CallType
<1> QED
  BY <1>2, <1>3, <1>4, <1>5

LEMMA OneMoreType ==
  ASSUME NEW k \in CallType
  PROVE  /\ OneMore(k) \in CallType
         /\ OneMore(k).place = k.place
         /\ OneMore(k).used = k.used + 1
         /\ OneMore(k).total = k.total
         /\ OneMore(k).report = k.report
         /\ OneMore(k).last = k.last
<1>1. OneMore(k) \in CallType
  BY DEF OneMore, CallType
<1>2. OneMore(k).place = k.place /\ OneMore(k).report = k.report
  BY DEF OneMore, CallType
<1>3. OneMore(k).used = k.used + 1 /\ OneMore(k).total = k.total
  BY DEF OneMore, CallType
<1>4. OneMore(k).last = k.last
  BY DEF OneMore, CallType
<1> QED
  BY <1>1, <1>2, <1>3, <1>4

LEMMA AfterType ==
  ASSUME NEW k \in CallType, k.place \in Places, NEW o \in Outcomes, NEW n
  PROVE  After(k, o, n) \in CallType
<1>1. "ok" \in Reports /\ "failed" \in Reports
  BY DEF Reports
<1>2. (o # "cut") \in BOOLEAN
  OBVIOUS
<1> QED
  BY <1>1, <1>2, NextPlaceType, ReportType DEF After

LEMMA UpstreamTypes ==
  ASSUME UpstreamTypeOK, NEW c \in Calls,
         (\E o \in Outcomes : Attempt(c, o)) \/ Skip(c) \/ Exhausted(c)
  PROVE  UpstreamTypeOK'
<1> DEFINE k == call[c]
<1>1. k \in CallType
  BY DEF UpstreamTypeOK
<1>2. ASSUME NEW o \in Outcomes, Attempt(c, o)
      PROVE  UpstreamTypeOK'
  <2> DEFINE j == OneMore(k)
  <2>1. j \in CallType /\ j.place = k.place /\ k.place \in Places
    BY <1>1, <1>2, OneMoreType DEF Attempt, Asking
  <2>2. After(j, o, MaxAttempts[Backend(c)]) \in CallType
    <3> HIDE DEF j
    <3> QED
      BY <2>1, AfterType
  <2>3. call' = [call EXCEPT ![c] = After(j, o, MaxAttempts[Backend(c)])]
    BY <1>2 DEF Attempt
  <2>4. call' \in [Calls -> CallType]
    <3> HIDE DEF j
    <3> QED
      BY <2>2, <2>3 DEF UpstreamTypeOK
  <2>5. tried' \in [Calls -> Seq(Places)]
    <3>1. Append(tried[c], k.place) \in Seq(Places)
      BY <2>1, AppendProperties DEF UpstreamTypeOK
    <3> QED
      BY <1>2, <3>1 DEF Attempt, UpstreamTypeOK
  <2> QED
    BY <2>4, <2>5 DEF UpstreamTypeOK
<1>3. CASE Skip(c)
  <2> DEFINE j == [k EXCEPT !.place = @ + 1]
  <2>1. k.place \in Places /\ k.place + 1 \in Places \union {Len(Route) + 1}
    BY <1>3, RouteType DEF Skip, Asking
  <2>2. j \in CallType
    BY <1>1, <2>1 DEF CallType
  <2>3. call' = [call EXCEPT ![c] = j]
    BY <1>3, <1>1 DEF Skip, UpstreamTypeOK, CallType
  <2>4. tried' = tried
    BY <1>3 DEF Skip
  <2> HIDE DEF j
  <2> QED
    BY <2>2, <2>3, <2>4 DEF UpstreamTypeOK
<1>4. CASE Exhausted(c)
  <2>1. (IF call[c].last THEN "failed" ELSE "unreachable") \in Reports
    BY DEF Reports
  <2> QED
    BY <1>1, <1>4, <2>1, ReportType DEF Exhausted, UpstreamTypeOK
<1> QED
  BY <1>2, <1>3, <1>4

LEMMA ReturnTypes ==
  ASSUME UpstreamTypeOK, NEW S, Return(S)
  PROVE  UpstreamTypeOK'
<1>1. Fresh \in CallType
  BY RouteType DEF Fresh, CallType, Reports
<1>2. <<>> \in Seq(Places)
  OBVIOUS
<1> QED
  BY <1>1, <1>2 DEF Return, UpstreamTypeOK

-----------------------------------------------------------------------------
(* The backends in turn. *)

\* One place further.
LEMMA AheadFewer ==
  ASSUME NEW s, NEW n, NEW p \in Nat, AskedAhead(s, n, p + 1)
  PROVE  AskedAhead(s, n, p)
<1>1. \A j \in 1 .. p - 1 : j \in 1 .. (p + 1) - 1
  OBVIOUS
<1> QED
  BY <1>1 DEF AskedAhead

LEMMA AheadOne ==
  ASSUME NEW s, NEW n, NEW p \in Nat, AskedAhead(s, n, p),
         Route[p] \in Usable => \E m \in 1..n : s[m] = p
  PROVE  AskedAhead(s, n, p + 1)
<1>1. \A j \in 1 .. (p + 1) - 1 : j = p \/ j \in 1 .. p - 1
  OBVIOUS
<1> QED
  BY <1>1, Zenon DEF AskedAhead

LEMMA SpentOne ==
  ASSUME NEW s, NEW p \in Nat, SpentAhead(s, p),
         Route[p] \in Usable => Cardinality(At(s, p)) = MaxAttempts[Route[p]]
  PROVE  SpentAhead(s, p + 1)
<1>1. \A j \in 1 .. (p + 1) - 1 : j = p \/ j \in 1 .. p - 1
  OBVIOUS
<1> QED
  BY <1>1, Zenon DEF SpentAhead

\* One more request on the wire.
LEMMA AppendAt ==
  ASSUME NEW s \in Seq(Places), NEW p \in Places
  PROVE  /\ Len(Append(s, p)) = Len(s) + 1
         /\ \A n \in 1..Len(s) : Append(s, p)[n] = s[n]
         /\ Append(s, p)[Len(s) + 1] = p
         /\ DOMAIN Append(s, p) = 1 .. Len(s) + 1 /\ DOMAIN s = 1..Len(s) /\ Len(s) \in Nat
         /\ At(Append(s, p), p) = At(s, p) \union {Len(s) + 1}
         /\ \A i : i # p => At(Append(s, p), i) = At(s, i)
<1>1. /\ Len(Append(s, p)) = Len(s) + 1
      /\ \A n \in 1..Len(s) : Append(s, p)[n] = s[n]
      /\ Append(s, p)[Len(s) + 1] = p
      /\ DOMAIN Append(s, p) = 1 .. Len(s) + 1 /\ DOMAIN s = 1..Len(s) /\ Len(s) \in Nat
  BY AppendProperties
<1>2. 1 .. Len(s) + 1 = 1..Len(s) \union {Len(s) + 1}
  BY <1>1
<1> DEFINE q == Append(s, p)
<1> HIDE DEF q
<1>3. \A i : At(q, i) = {n \in 1..Len(s) \union {Len(s) + 1} : q[n] = i}
  BY <1>1, <1>2 DEF At, q
<1>4. \A i : At(s, i) = {n \in 1..Len(s) : q[n] = i}
  BY <1>1 DEF At, q
<1>5. q[Len(s) + 1] = p
  BY <1>1 DEF q
<1>6. At(q, p) = At(s, p) \union {Len(s) + 1}
  BY <1>3, <1>4, <1>5
<1>7. \A i : i # p => At(q, i) = At(s, i)
  BY <1>3, <1>4, <1>5
<1> QED
  BY <1>1, <1>6, <1>7 DEF q

LEMMA AtFinite ==
  ASSUME NEW s \in Seq(Places), NEW i
  PROVE  /\ IsFiniteSet(At(s, i)) /\ Cardinality(At(s, i)) \in Nat
         /\ (\A n \in DOMAIN s : s[n] # i) => Cardinality(At(s, i)) = 0
         /\ Len(s) + 1 \notin At(s, i)
<1>1. Len(s) \in Nat /\ DOMAIN s = 1..Len(s)
  OBVIOUS
<1>2. IsFiniteSet(1..Len(s))
  BY <1>1, FS_Interval
<1>3. At(s, i) \subseteq 1..Len(s)
  BY <1>1 DEF At
<1>4. IsFiniteSet(At(s, i)) /\ Cardinality(At(s, i)) \in Nat
  BY <1>2, <1>3, FS_Subset, FS_CardinalityType
<1>5. ASSUME \A n \in DOMAIN s : s[n] # i
      PROVE  Cardinality(At(s, i)) = 0
  <2>1. At(s, i) = {}
    BY <1>5 DEF At
  <2> QED
    BY <2>1, FS_EmptySet
<1> QED
  BY <1>1, <1>3, <1>4, <1>5

LEMMA OneMoreAt ==
  ASSUME NEW s \in Seq(Places), NEW p \in Places
  PROVE  Cardinality(At(Append(s, p), p)) = Cardinality(At(s, p)) + 1
BY AppendAt, AtFinite, FS_AddElement

\* What an attempt does to the order and the counts, whatever its outcome.
LEMMA AttemptInTurn ==
  ASSUME NEW k \in CallType, NEW s \in Seq(Places), InTurn(k, s),
         k.report = "none", k.place \in Places, Route[k.place] \in Usable
  PROVE  LET q == Append(s, k.place)
         IN  /\ \A n \in DOMAIN q : q[n] <= k.place /\ AskedAhead(q, n - 1, q[n])
             /\ AskedAhead(q, Len(q), k.place + 1)
             /\ \A i \in Places : Cardinality(At(q, i)) <= MaxAttempts[Route[i]]
             /\ \A i \in Places : i # k.place => Cardinality(At(q, i)) = Cardinality(At(s, i))
             /\ Cardinality(At(q, k.place)) = k.used + 1
             /\ Cardinality(At(q, k.place + 1)) = 0
             /\ Len(q) = k.total + k.used + 1
             /\ q \in Seq(Places)
<1> DEFINE p == k.place
           q == Append(s, p)
<1>1. /\ Len(q) = Len(s) + 1 /\ Len(s) \in Nat
      /\ \A n \in 1..Len(s) : q[n] = s[n]
      /\ q[Len(s) + 1] = p
      /\ DOMAIN q = 1 .. Len(s) + 1 /\ DOMAIN s = 1..Len(s)
      /\ \A i : i # p => At(q, i) = At(s, i)
  BY AppendAt
<1>2. /\ p \in Nat /\ k.used \in Nat /\ k.total \in Nat
      /\ MaxAttempts[Route[p]] \in Nat
  BY Fields, RouteType
<1>3. q \in Seq(Places)
  BY AppendProperties
<1>4. \A n \in DOMAIN s : s[n] \in Nat /\ s[n] <= p
  <2>1. \A n \in DOMAIN s : s[n] \in Nat
    BY RouteType
  <2> QED
    BY <2>1 DEF InTurn
<1>5. Cardinality(At(q, p)) = k.used + 1
  BY OneMoreAt DEF InTurn
<1>6. Cardinality(At(q, p + 1)) = 0
  <2>1. \A n \in DOMAIN q : q[n] # p + 1
    BY <1>1, <1>2, <1>4
  <2> QED
    BY <1>3, <2>1, AtFinite
<1>7. ASSUME NEW i \in Places
      PROVE  /\ Cardinality(At(q, i)) <= MaxAttempts[Route[i]]
             /\ i # p => Cardinality(At(q, i)) = Cardinality(At(s, i))
  <2>1. CASE i = p
    BY <1>2, <1>5, <2>1 DEF InTurn
  <2>2. CASE i # p
    BY <1>1, <2>2 DEF InTurn
  <2> QED
    BY <2>1, <2>2
<1>8. Len(q) = k.total + k.used + 1
  BY <1>1 DEF InTurn
<1>9. ASSUME NEW n \in DOMAIN q
      PROVE  q[n] <= p /\ AskedAhead(q, n - 1, q[n])
  <2>1. CASE n \in 1..Len(s)
    <3>1. q[n] = s[n] /\ s[n] <= p /\ AskedAhead(s, n - 1, s[n])
      BY <1>1, <2>1 DEF InTurn
    <3>2. \A m \in 1 .. n - 1 : q[m] = s[m]
      BY <1>1, <2>1
    <3> QED
      BY <3>1, <3>2 DEF AskedAhead
  <2>2. CASE n = Len(s) + 1
    <3>1. AskedAhead(s, Len(s), p)
      BY DEF InTurn
    <3>2. \A m \in 1 .. n - 1 : m \in 1..Len(s) /\ q[m] = s[m]
      BY <1>1, <2>2
    <3>3. q[n] = p /\ n - 1 = Len(s)
      BY <1>1, <2>2
    <3> QED
      BY <1>2, <3>1, <3>2, <3>3 DEF AskedAhead
  <2> QED
    BY <1>1, <2>1, <2>2
<1>10. AskedAhead(q, Len(q), p + 1)
  <2>1. AskedAhead(s, Len(s), p)
    BY DEF InTurn
  <2>2. \A m \in 1..Len(s) : m \in 1..Len(q) /\ q[m] = s[m]
    BY <1>1
  <2>3. Len(q) \in 1..Len(q) /\ q[Len(q)] = p
    BY <1>1
  <2>4. AskedAhead(q, Len(q), p)
    BY <2>1, <2>2, Zenon DEF AskedAhead
  <2> QED
    BY <1>2, <2>3, <2>4, AheadOne
<1> QED
  BY <1>3, <1>5, <1>6, <1>7, <1>8, <1>9, <1>10

\* The call goes on to the next place; k has come to the end of its own.
LEMMA NextInTurn ==
  ASSUME NEW k \in CallType, NEW s \in Seq(Places), NEW http \in BOOLEAN,
         k.report = "none", k.place \in Places,
         k.total + k.used = Len(s),
         \A n \in DOMAIN s : s[n] <= k.place /\ AskedAhead(s, n - 1, s[n]),
         \A i \in Places : Cardinality(At(s, i)) <= MaxAttempts[Route[i]],
         AskedAhead(s, Len(s), k.place + 1),
         ~k.last /\ ~http => SpentAhead(s, k.place + 1)
  PROVE  InTurn(NextPlace(k, http), s)
<1> DEFINE j == NextPlace(k, http)
<1>1. /\ j.place = k.place + 1 /\ j.used = 0 /\ j.total = k.total + k.used
      /\ j.report = "none" /\ j.last = (k.last \/ http)
  BY NextPlaceType
<1>2. k.place \in Nat /\ k.total \in Nat /\ k.used \in Nat
  BY Fields
<1>3. \A n \in DOMAIN s : s[n] \in Nat
  BY RouteType
<1>4. \A n \in DOMAIN s : s[n] <= k.place + 1 /\ s[n] # k.place + 1
  BY <1>2, <1>3
<1>5. Cardinality(At(s, k.place + 1)) = 0
  BY <1>4, AtFinite
<1>6. j.place \in Places => 0 < MaxAttempts[Route[j.place]]
  BY RouteType
<1> HIDE DEF j
<1>7. j.total + j.used = Len(s)
  BY <1>1, <1>2
<1> QED
  BY <1>1, <1>4, <1>5, <1>6, <1>7 DEF InTurn, j

\* The call reports what it is to report.
LEMMA ReportInTurn ==
  ASSUME NEW k \in CallType, NEW s \in Seq(Places), NEW what \in Reports,
         k.total + k.used = Len(s),
         \A n \in DOMAIN s : s[n] <= k.place /\ AskedAhead(s, n - 1, s[n]),
         \A i \in Places : Cardinality(At(s, i)) <= MaxAttempts[Route[i]],
         what # "none",
         what = "unreachable" => SpentAhead(s, Len(Route) + 1)
  PROVE  InTurn(Report(k, what), s)
<1> DEFINE j == Report(k, what)
<1>1. /\ j.place = k.place /\ j.used = 0 /\ j.total = k.total + k.used
      /\ j.report = what
  BY ReportType
<1>2. k.total \in Nat /\ k.used \in Nat
  BY Fields
<1> HIDE DEF j
<1>3. j.total + j.used = Len(s)
  BY <1>1, <1>2
<1> QED
  BY <1>1, <1>3 DEF InTurn, j

LEMMA AttemptKeepsTurn ==
  ASSUME NEW k \in CallType, NEW s \in Seq(Places), InTurn(k, s), NEW o \in Outcomes,
         k.report = "none", k.place \in Places, Route[k.place] \in Usable
  PROVE  InTurn(After(OneMore(k), o, MaxAttempts[Route[k.place]]), Append(s, k.place))
<1> DEFINE p == k.place
           q == Append(s, p)
           j == OneMore(k)
           max == MaxAttempts[Route[p]]
<1>1. /\ \A n \in DOMAIN q : q[n] <= p /\ AskedAhead(q, n - 1, q[n])
      /\ AskedAhead(q, Len(q), p + 1)
      /\ \A i \in Places : Cardinality(At(q, i)) <= MaxAttempts[Route[i]]
      /\ \A i \in Places : i # p => Cardinality(At(q, i)) = Cardinality(At(s, i))
      /\ Cardinality(At(q, p)) = k.used + 1
      /\ Len(q) = k.total + k.used + 1
      /\ q \in Seq(Places)
  BY AttemptInTurn
<1>2. /\ j \in CallType /\ j.place = p /\ j.used = k.used + 1 /\ j.total = k.total
      /\ j.report = "none" /\ j.last = k.last
  BY OneMoreType
<1>3. /\ p \in Nat /\ k.used \in Nat /\ k.total \in Nat /\ max \in Nat /\ k.used < max
      /\ p \in Places /\ Route[p] \in Usable /\ Places = 1..Len(Route) /\ Len(Route) \in Nat
  BY Fields, RouteType DEF InTurn
<1>4. ~k.last => SpentAhead(s, p)
  BY DEF InTurn
<1> HIDE DEF j, q, p, max
<1>5. j.total + j.used = Len(q)
  <2>1. k.total + (k.used + 1) = k.total + k.used + 1
    BY <1>3
  <2> QED
    BY <1>1, <1>2, <2>1
<1>6. AskedAhead(q, Len(q), p)
  BY <1>1, <1>3, AheadFewer
<1>7. ~k.last => SpentAhead(q, p)
  <2>1. \A i \in 1 .. p - 1 : i # p /\ i \in Places
    BY <1>3
  <2> QED
    BY <1>1, <1>4, <2>1 DEF SpentAhead
<1>8. ~k.last /\ j.used >= max => SpentAhead(q, p + 1)
  <2>1. j.used >= max => Cardinality(At(q, p)) = MaxAttempts[Route[p]]
    BY <1>1, <1>2, <1>3 DEF max
  <2> QED
    BY <1>3, <1>7, <2>1, SpentOne
<1>9. "ok" \in Reports /\ "failed" \in Reports
  BY DEF Reports
<1>10. CASE o = "ok"
  <2>1. After(j, o, max) = Report(j, "ok")
    BY <1>10 DEF After
  <2> QED
    BY <2>1, <1>1, <1>2, <1>5, <1>9, ReportInTurn DEF j, q, p, max
<1>11. CASE o = "bad"
  <2>1. After(j, o, max) = Report(j, "failed")
    BY <1>11 DEF After
  <2> QED
    BY <2>1, <1>1, <1>2, <1>5, <1>9, ReportInTurn DEF j, q, p, max
<1>12. CASE o \in {"busy", "cut"} /\ j.used < max
  <2>1. After(j, o, max) = j
    BY <1>12 DEF After
  <2>2. p \in Places => /\ j.used = Cardinality(At(q, p))
                        /\ j.used < MaxAttempts[Route[p]]
    BY <1>1, <1>2, <1>12 DEF max
  <2>3. InTurn(j, q)
    BY <1>1, <1>2, <1>3, <1>5, <1>6, <1>7, <2>2 DEF InTurn
  <2> QED
    BY <2>1, <2>3 DEF j, q, p, max
<1>13. CASE o \in {"busy", "cut", "denied"} /\ (o # "denied" => ~(j.used < max))
  <2>1. After(j, o, max) = NextPlace(j, o # "cut")
    BY <1>13 DEF After
  <2>2. ~j.last /\ ~(o # "cut") => SpentAhead(q, j.place + 1)
    BY <1>2, <1>3, <1>8, <1>13
  <2>3. (o # "cut") \in BOOLEAN
    OBVIOUS
  <2>4. InTurn(NextPlace(j, o # "cut"), q)
    BY <1>1, <1>2, <1>3, <1>5, <2>2, <2>3, NextInTurn
  <2> QED
    BY <2>1, <2>4 DEF j, q, p, max
<1> QED
  BY <1>10, <1>11, <1>12, <1>13 DEF Outcomes

LEMMA SkipKeepsTurn ==
  ASSUME NEW k \in CallType, NEW s \in Seq(Places), InTurn(k, s),
         k.report = "none", k.place \in Places, Route[k.place] \notin Usable
  PROVE  InTurn([k EXCEPT !.place = @ + 1], s)
<1> DEFINE p == k.place
           j == [k EXCEPT !.place = @ + 1]
<1>1. /\ j.place = p + 1 /\ j.used = k.used /\ j.total = k.total /\ j.report = "none"
  BY DEF CallType
<1>2. j.last = k.last
  BY DEF CallType
<1>3. /\ p \in Nat /\ k.total \in Nat /\ p \in Places /\ Route[p] \notin Usable
      /\ Places = 1..Len(Route)
  BY Fields, RouteType
<1>4. /\ k.total + k.used = Len(s)
      /\ \A n \in DOMAIN s : s[n] <= p /\ AskedAhead(s, n - 1, s[n])
      /\ \A i \in Places : Cardinality(At(s, i)) <= MaxAttempts[Route[i]]
      /\ AskedAhead(s, Len(s), p)
      /\ ~k.last => SpentAhead(s, p)
      /\ k.used = 0
  BY <1>3 DEF InTurn
<1>5. \A n \in DOMAIN s : s[n] \in Nat
  BY RouteType
<1> HIDE DEF j, p
<1>6. \A n \in DOMAIN s : s[n] <= p + 1 /\ s[n] # p + 1
  BY <1>3, <1>4, <1>5
<1>7. Cardinality(At(s, p + 1)) = 0
  BY <1>6, AtFinite
<1>9. AskedAhead(s, Len(s), p + 1)
  BY <1>3, <1>4, AheadOne
<1>10. ~k.last => SpentAhead(s, p + 1)
  BY <1>3, <1>4, SpentOne
<1>11. p + 1 \in Places => 0 < MaxAttempts[Route[p + 1]]
  BY RouteType
<1>12. InTurn(j, s)
  BY <1>1, <1>2, <1>4, <1>6, <1>7, <1>9, <1>10, <1>11 DEF InTurn
<1> QED
  BY <1>12 DEF j, p

LEMMA ExhaustedKeepsTurn ==
  ASSUME NEW k \in CallType, NEW s \in Seq(Places), InTurn(k, s),
         k.report = "none", k.place \notin Places
  PROVE  InTurn(Report(k, IF k.last THEN "failed" ELSE "unreachable"), s)
<1>1. k.place = Len(Route) + 1
  BY Fields
<1>2. /\ k.total + k.used = Len(s)
      /\ \A n \in DOMAIN s : s[n] <= k.place /\ AskedAhead(s, n - 1, s[n])
      /\ \A i \in Places : Cardinality(At(s, i)) <= MaxAttempts[Route[i]]
      /\ ~k.last => SpentAhead(s, Len(Route) + 1)
  BY <1>1 DEF InTurn
<1>3. (IF k.last THEN "failed" ELSE "unreachable") \in Reports \ {"none"}
  BY DEF Reports
<1> QED
  BY <1>2, <1>3, ReportInTurn

LEMMA FreshInTurn == InTurn(Fresh, <<>>)
<1>1. /\ Fresh.place = 1 /\ Fresh.used = 0 /\ Fresh.total = 0
      /\ Fresh.report = "none"
  BY DEF Fresh
<1>2. <<>> \in Seq(Places) /\ Len(<<>>) = 0 /\ DOMAIN <<>> = {}
  OBVIOUS
<1>3. \A i : Cardinality(At(<<>>, i)) = 0
  BY <1>2, AtFinite
<1>4. AskedAhead(<<>>, 0, 1) /\ SpentAhead(<<>>, 1)
  BY DEF AskedAhead, SpentAhead
<1>5. 1 \in Places /\ \A i \in Places : MaxAttempts[Route[i]] \in Nat \ {0}
  BY RouteType
<1>6. \A i \in Places : 0 <= MaxAttempts[Route[i]] /\ 0 < MaxAttempts[Route[i]]
  BY <1>5
<1> HIDE DEF Fresh
<1> QED
  BY <1>1, <1>2, <1>3, <1>4, <1>5, <1>6 DEF InTurn

LEMMA CallsStep ==
  ASSUME CallsInv, NEW c \in Calls,
         (\E o \in Outcomes : Attempt(c, o)) \/ Skip(c) \/ Exhausted(c)
  PROVE  CallsInv'
<1>1. UpstreamTypeOK'
  BY UpstreamTypes DEF CallsInv
<1>2. /\ call[c] \in CallType /\ tried[c] \in Seq(Places) /\ InTurn(call[c], tried[c])
      /\ call \in [Calls -> CallType] /\ tried \in [Calls -> Seq(Places)]
  BY DEF CallsInv, UpstreamTypeOK
<1> DEFINE Becomes(k, s) == /\ call' = [call EXCEPT ![c] = k]
                            /\ tried' = [tried EXCEPT ![c] = s]
                            /\ InTurn(k, s)
<1>3. \E k, s : Becomes(k, s)
  <2>1. ASSUME NEW o \in Outcomes, Attempt(c, o)
        PROVE  \E k, s : Becomes(k, s)
    <3>1. /\ call' = [call EXCEPT ![c] = After(OneMore(call[c]), o, MaxAttempts[Backend(c)])]
          /\ tried' = [tried EXCEPT ![c] = Append(tried[c], call[c].place)]
      BY <2>1 DEF Attempt
    <3>2. InTurn(After(OneMore(call[c]), o, MaxAttempts[Backend(c)]),
                 Append(tried[c], call[c].place))
      BY <1>2, <2>1, AttemptKeepsTurn DEF Attempt, Asking, Backend
    <3> QED
      BY <3>1, <3>2
  <2>2. CASE Skip(c)
    <3>1. /\ call' = [call EXCEPT ![c] = [call[c] EXCEPT !.place = @ + 1]]
          /\ tried' = [tried EXCEPT ![c] = tried[c]]
      BY <1>2, <2>2 DEF Skip
    <3>2. InTurn([call[c] EXCEPT !.place = @ + 1], tried[c])
      BY <1>2, <2>2, SkipKeepsTurn DEF Skip, Asking, Backend
    <3> QED
      BY <3>1, <3>2
  <2>3. CASE Exhausted(c)
    <3>1. /\ call' = [call EXCEPT ![c] = Report(call[c], IF call[c].last THEN "failed"
                                                        ELSE "unreachable")]
          /\ tried' = [tried EXCEPT ![c] = tried[c]]
      BY <1>2, <2>3 DEF Exhausted
    <3>2. InTurn(Report(call[c], IF call[c].last THEN "failed" ELSE "unreachable"), tried[c])
      BY <1>2, <2>3, ExhaustedKeepsTurn DEF Exhausted
    <3> QED
      BY <3>1, <3>2
  <2> QED
    BY <2>1, <2>2, <2>3
<1>4. \A d \in Calls : InTurn(call'[d], tried'[d])
  BY <1>2, <1>3 DEF CallsInv
<1> QED
  BY <1>1, <1>4 DEF CallsInv

LEMMA ReturnKeepsTurn ==
  ASSUME CallsInv, NEW S, Return(S)
  PROVE  CallsInv'
<1>1. UpstreamTypeOK'
  BY ReturnTypes DEF CallsInv
<1>2. \A d \in Calls : InTurn(call'[d], tried'[d])
  BY FreshInTurn DEF CallsInv, Return
<1> QED
  BY <1>1, <1>2 DEF CallsInv

LEMMA CallsInvMeans == CallsInv => TriesInTurn
<1> SUFFICES ASSUME CallsInv, NEW r \in Requests
    PROVE  /\ \A i \in Places : Cardinality(AskedAt(r, i)) <= MaxAttempts[Route[i]]
           /\ \A n \in DOMAIN tried[r] : \A j \in 1 .. tried[r][n] - 1 :
                Route[j] \in Usable => \E m \in 1 .. n - 1 : tried[r][m] = j
           /\ call[r].report = "unreachable" =>
                \A i \in Places : Route[i] \in Usable =>
                  Cardinality(AskedAt(r, i)) = MaxAttempts[Route[i]]
           /\ call[r].total + call[r].used = Len(tried[r])
  BY DEF TriesInTurn
<1>1. InTurn(call[r], tried[r])
  BY RequestAssumption DEF CallsInv
<1>2. \A i : AskedAt(r, i) = At(tried[r], i)
  BY DEF AskedAt, At
<1>3. Places = 1 .. (Len(Route) + 1) - 1
  BY RouteType
<1>4. \A i \in Places : Cardinality(AskedAt(r, i)) <= MaxAttempts[Route[i]]
  BY <1>1, <1>2 DEF InTurn
<1>5. \A n \in DOMAIN tried[r] : \A j \in 1 .. tried[r][n] - 1 :
        Route[j] \in Usable => \E m \in 1 .. n - 1 : tried[r][m] = j
  BY <1>1, Zenon DEF InTurn, AskedAhead
<1>6. call[r].report = "unreachable" =>
        \A i \in Places : Route[i] \in Usable =>
          Cardinality(AskedAt(r, i)) = MaxAttempts[Route[i]]
  BY <1>1, <1>2, <1>3, Zenon DEF InTurn, SpentAhead
<1> QED
  BY <1>1, <1>4, <1>5, <1>6 DEF InTurn

LEMMA RequestCalls == Spec => []CallsInv
<1>1. Init => CallsInv
  <2> SUFFICES ASSUME Init PROVE CallsInv
    OBVIOUS
  <2>1. /\ call = [c \in Calls |-> Fresh]
        /\ tried = [c \in Calls |-> <<>>]
    BY DEF Init, UpstreamInit
  <2>2. UpstreamTypeOK
    BY <2>1, RouteType DEF UpstreamTypeOK, Fresh, CallType, Reports
  <2> QED
    BY <2>1, <2>2, FreshInTurn DEF CallsInv
<1>2. CallsInv /\ [Next]_vars => CallsInv'
  <2> SUFFICES ASSUME CallsInv, [Next]_vars
      PROVE  CallsInv'
    OBVIOUS
  <2>1. CASE UNCHANGED upstream
    BY <2>1 DEF CallsInv, UpstreamTypeOK, upstream
  <2>2. CASE \E S : Return(S)
    BY <2>2, ReturnKeepsTurn
  <2>3. ASSUME NEW r \in Requests, Upstreaming(r)
        PROVE  CallsInv'
    BY <2>3, CallsStep, RequestAssumption DEF Upstreaming
  <2>4. CASE UNCHANGED vars
    BY <2>1, <2>4 DEF vars
  <2>5. CASE Boot \/ Takeover
    BY <2>1, <2>5 DEF Boot, Takeover
  <2>6. CASE Crash
    BY <2>2, <2>6 DEF Crash
  <2>7. CASE Tick /\ UNCHANGED <<upstream, pc, process>>
    BY <2>1, <2>7
  <2>8. ASSUME NEW r \in Requests,
               \/ Admit(r) \/ NoModel(r) \/ Reject(r) \/ TakePlace(r) \/ TurnAway(r) \/ TooLong(r)
               \/ Send(r) \/ EndOfBody(r)
               \/ Write(r) /\ UNCHANGED <<upstream, pc, process>>
        PROVE  CallsInv'
    BY <2>1, <2>8 DEF Admit, NoModel, Reject, TakePlace, TurnAway, TooLong, Send, EndOfBody
  <2>9. ASSUME NEW r \in Requests, Answered(r) \/ Embedded(r) \/ HangUp(r)
        PROVE  CallsInv'
    BY <2>2, <2>9 DEF Answered, Embedded, HangUp
  <2> QED
    BY <2>3, <2>4, <2>5, <2>6, <2>7, <2>8, <2>9 DEF Next
<1> QED
  BY <1>1, <1>2, PTL DEF Spec

THEOREM RequestTriesInTurn == Spec => []TriesInTurn
BY RequestCalls, CallsInvMeans, PTL

-----------------------------------------------------------------------------
(* Every variable has its type, and what is counted is finite. *)

LEMMA UpTo ==
  ASSUME NEW n \in Nat, NEW T \in SUBSET (1..n)
  PROVE  IsFiniteSet(T) /\ Cardinality(T) \in 0..n
<1>1. IsFiniteSet(1..n) /\ Cardinality(1..n) = n
  BY FS_Interval
<1>2. IsFiniteSet(T) /\ Cardinality(T) <= n
  BY <1>1, FS_Subset
<1>3. Cardinality(T) \in Nat
  BY <1>2, FS_CardinalityType
<1> QED
  BY <1>2, <1>3

LEMMA ExpiredType ==
  ASSUME QuotaTypeOK
  PROVE  /\ Len(hits) \in Nat /\ DOMAIN hits = 1..Len(hits)
         /\ Expired \in 0..Len(hits)
<1>1. Len(hits) \in Nat /\ DOMAIN hits = 1..Len(hits)
  BY DEF QuotaTypeOK
<1> DEFINE D == {i \in DOMAIN hits : \A j \in 1..i : clock - hits[j] >= Window}
<1>2. D \subseteq 1..Len(hits)
  BY <1>1
<1> HIDE DEF D
<1>3. Cardinality(D) \in 0..Len(hits)
  BY <1>1, <1>2, UpTo
<1> QED
  BY <1>1, <1>3 DEF Expired, D

LEMMA LiveType ==
  ASSUME QuotaTypeOK
  PROVE  /\ Live \in Seq(0..MaxClock)
         /\ Len(Live) = Len(hits) - Expired
         /\ \A i \in 1 .. Len(hits) - Expired : Live[i] = hits[Expired + i]
<1> DEFINE e == Expired
           n == Len(hits)
           l == SubSeq(hits, e + 1, n)
<1>1. n \in Nat /\ e \in 0..n
  BY ExpiredType
<1>2. Live = l
  BY DEF Live
<1>3. \A i \in 1..n : hits[i] \in 0..MaxClock
  <2>1. hits \in Seq(0..MaxClock)
    BY DEF QuotaTypeOK
  <2> QED
    BY <2>1, ElementOfSeq
<1> HIDE DEF e, n
<1>4. e + 1 \in Int /\ n \in Int /\ \A i \in e + 1 .. n : hits[i] \in 0..MaxClock
  BY <1>1, <1>3
<1>5. /\ l \in Seq(0..MaxClock)
      /\ Len(l) = IF e + 1 <= n THEN n - (e + 1) + 1 ELSE 0
      /\ \A i \in 1 .. n - (e + 1) + 1 : l[i] = hits[e + 1 + i - 1]
  BY <1>4, SubSeqProperties
<1>6. Len(l) = n - e
  BY <1>1, <1>5
<1>7. \A i \in 1 .. n - e : i \in 1 .. n - (e + 1) + 1 /\ e + 1 + i - 1 = e + i
  BY <1>1
<1>8. \A i \in 1 .. n - e : l[i] = hits[e + i]
  BY <1>5, <1>7
<1> QED
  BY <1>2, <1>5, <1>6, <1>8 DEF e, n

LEMMA HitType ==
  ASSUME QuotaTypeOK, NEW passes, Hit(passes)
  PROVE  hits' \in Seq(0..MaxClock)
<1>1. clock \in 0..MaxClock /\ hits \in Seq(0..MaxClock)
  BY DEF QuotaTypeOK
<1>2. Live \in Seq(0..MaxClock)
  BY LiveType
<1>3. Append(Live, clock) \in Seq(0..MaxClock)
  BY <1>1, <1>2, AppendProperties
<1> QED
  BY <1>1, <1>2, <1>3 DEF Hit

TrackerType == [day : Days \union {Never}, count : Nat]

LEMMA TrackerTypes ==
  ASSUME NEW t \in TrackerType, NEW day \in Days \union {Never}
  PROVE  /\ RolledOver(t, day) \in TrackerType
         /\ RolledOver(t, day).day = day
         /\ t.day = day => RolledOver(t, day) = t
         /\ t.day # day => RolledOver(t, day).count = 0
         /\ Recorded(t, day) \in TrackerType
         /\ Recorded(t, day).day = day
         /\ Recorded(t, day).count = RolledOver(t, day).count + 1
<1>1. /\ RolledOver(t, day) \in TrackerType
      /\ RolledOver(t, day).day = day
      /\ t.day = day => RolledOver(t, day) = t
      /\ t.day # day => RolledOver(t, day).count = 0
  BY DEF RolledOver, TrackerType
<1> DEFINE u == RolledOver(t, day)
<1>2. Recorded(t, day) = [u EXCEPT !.count = @ + 1]
  BY DEF Recorded
<1>3. u \in TrackerType /\ u.day = day
  BY <1>1
<1> HIDE DEF u
<1>4. /\ [u EXCEPT !.count = @ + 1] \in TrackerType
      /\ [u EXCEPT !.count = @ + 1].day = day
      /\ [u EXCEPT !.count = @ + 1].count = u.count + 1
  BY <1>3 DEF TrackerType
<1> QED
  BY <1>1, <1>2, <1>4 DEF u

LEMMA SeededType ==
  ASSUME QuotaFinite
  PROVE  /\ Seeded \in TrackerType
         /\ Seeded.day = Today
         /\ Seeded.count = Cardinality({r \in rows : born[r] = Today})
<1>1. Today \in Days
  BY TodayType DEF QuotaFinite, QuotaTypeOK
<1> DEFINE S == {r \in rows : born[r] = Today}
<1>2. Cardinality(S) \in Nat
  BY FS_Subset, FS_CardinalityType DEF QuotaFinite
<1> HIDE DEF S
<1>3. Seeded = [day |-> Today, count |-> Cardinality(S)]
  BY DEF Seeded, S
<1> QED
  BY <1>1, <1>2, <1>3 DEF TrackerType, S

LEMMA FinishTypes ==
  ASSUME QuotaFinite, NEW r \in Requests, Finish(r)
  PROVE  QuotaFinite'
<1> USE DEF QuotaFinite, QuotaTypeOK
<1>1. tracker' \in TrackerType
  BY TrackerTypes DEF Finish, TrackerType
<1>2. Days' = Days /\ TrackerType' = TrackerType
  BY DEF Days, TrackerType
<1>3. /\ IsFiniteSet(finished') /\ finished' \subseteq Requests
      /\ IsFiniteSet(unwritten') /\ unwritten' \subseteq Requests
  BY FS_AddElement DEF Finish
<1>4. excuses' \subseteq {"midnight", "crash", "rotation"}
  BY DEF Finish
<1>5. UNCHANGED <<clock, hits, born, rows>>
  BY DEF Finish
<1> QED
  BY <1>1, <1>2, <1>3, <1>4, <1>5 DEF TrackerType

LEMMA QuotaStep ==
  ASSUME BasicInv, [Next]_vars
  PROVE  QuotaFinite'
<1> USE DEF QuotaFinite, QuotaTypeOK
<1>0. QuotaFinite /\ Days \subseteq Nat /\ Today \in Days
  BY TodayType DEF BasicInv
<1>1. CASE UNCHANGED quota
  BY <1>0, <1>1 DEF quota
<1>2. ASSUME NEW r \in Requests, Finish(r)
      PROVE  QuotaFinite'
  BY <1>0, <1>2, FinishTypes
<1>3. CASE Tick
  <2>1. clock' \in 0..MaxClock
    BY <1>0, <1>3, QuotaAssumption DEF Tick
  <2> QED
    BY <1>0, <1>3, <2>1 DEF Tick
<1>4. CASE Boot
  <2>1. UNCHANGED <<clock, hits, tracker, born, unwritten, rows, finished>>
    BY <1>4 DEF Boot
  <2>2. excuses' \subseteq {"midnight", "crash", "rotation"}
    BY <1>0, <1>4 DEF Boot
  <2> QED
    BY <1>0, <2>1, <2>2
<1>5. CASE Takeover
  <2>1. /\ UNCHANGED <<clock, born, unwritten, rows, finished, excuses>>
        /\ hits' = <<>>
        /\ tracker' \in next
    BY <1>5 DEF Takeover
  <2>2. tracker' \in [day : Days \union {Never}, count : Nat]
    BY <2>1 DEF BasicInv, TypeOK
  <2> QED
    BY <1>0, <2>1, <2>2
<1>6. CASE Crash
  <2>1. UNCHANGED <<clock, hits, tracker, born, rows, finished>>
    BY <1>6 DEF Crash
  <2>2. excuses' \subseteq {"midnight", "crash", "rotation"}
    BY <1>0, <1>6 DEF Crash
  <2>3. unwritten' \subseteq unwritten
    BY <1>6 DEF Crash
  <2>4. IsFiniteSet(unwritten') /\ unwritten' \subseteq Requests
    BY <1>0, <2>3, FS_Subset
  <2> QED
    BY <1>0, <2>1, <2>2, <2>4
<1>7. ASSUME NEW r \in Requests, Admit(r)
      PROVE  QuotaFinite'
  <2>1. hits' \in Seq(0..MaxClock)
    BY <1>0, <1>7, HitType DEF Admit
  <2>2. tracker' \in [day : Days \union {Never}, count : Nat]
    BY <1>0, <1>7, TrackerTypes DEF Admit, Ask, TrackerType
  <2>3. born' \in [Requests -> Days \union {Never}]
    BY <1>0, <1>7 DEF Admit
  <2>4. UNCHANGED <<clock, unwritten, rows, finished, excuses>>
    BY <1>7 DEF Admit
  <2> QED
    BY <1>0, <2>1, <2>2, <2>3, <2>4
<1>8. ASSUME NEW r \in Requests, Write(r)
      PROVE  QuotaFinite'
  <2>1. /\ unwritten' \subseteq Requests /\ IsFiniteSet(unwritten')
        /\ rows' \subseteq Requests /\ IsFiniteSet(rows')
    BY <1>0, <1>8, FS_AddElement, FS_RemoveElement DEF Write
  <2> QED
    BY <1>0, <1>8, <2>1 DEF Write
<1>9. CASE UNCHANGED vars
  BY <1>1, <1>9 DEF vars
<1>10. ASSUME NEW r \in Requests,
              \/ NoModel(r) \/ Reject(r) \/ TakePlace(r) \/ TurnAway(r) \/ TooLong(r)
              \/ Send(r) \/ Upstreaming(r) \/ Answered(r) \/ EndOfBody(r) \/ Embedded(r)
              \/ HangUp(r)
       PROVE  Finish(r) \/ UNCHANGED quota
  BY <1>10 DEF NoModel, Reject, TakePlace, TurnAway, TooLong, Send, Upstreaming, Answered, EndOfBody,
               Embedded, HangUp
<1> QED
  BY <1>1, <1>2, <1>3, <1>4, <1>5, <1>6, <1>7, <1>8, <1>9, <1>10 DEF Next

\* What TypeOK says of the variables that are Request's own.
RestOK ==
  /\ pc \in [Requests -> PCs]
  /\ home \in [Requests -> 0..MaxBoots]
  /\ holders \subseteq Requests /\ IsFiniteSet(holders)
  /\ up \in BOOLEAN
  /\ serving \in 0..MaxBoots
  /\ next \subseteq TrackerType /\ Cardinality(next) <= 1
  /\ next # {} => serving < MaxBoots
  /\ begun \subseteq Requests
  /\ passed \in [Requests -> 0..MaxClock \union {Never}]

LEMMA BasicIs == BasicInv <=> QuotaFinite /\ UpstreamTypeOK /\ RestOK
BY DEF BasicInv, QuotaFinite, TypeOK, RestOK, TrackerType

LEMMA HandlerRest ==
  ASSUME BasicInv, NEW r \in Requests,
         \/ Admit(r) \/ NoModel(r) \/ Reject(r) \/ TakePlace(r) \/ TurnAway(r) \/ TooLong(r)
         \/ Send(r) \/ Upstreaming(r) \/ Answered(r) \/ EndOfBody(r) \/ Embedded(r)
         \/ HangUp(r)
  PROVE  RestOK'
<1>0. RestOK /\ QuotaTypeOK
  BY BasicIs DEF QuotaFinite
<1>1. UNCHANGED <<up, serving, next>>
  BY DEF Admit, NoModel, Reject, TakePlace, TurnAway, TooLong, Send, Upstreaming, Answered,
         EndOfBody, Embedded, HangUp, process
<1>2. pc' \in [Requests -> PCs]
  <2>1. pc' = pc \/ \E x \in PCs : pc' = [pc EXCEPT ![r] = x]
    BY DEF Admit, NoModel, Reject, TakePlace, TurnAway, TooLong, Send, Upstreaming, Answered,
           EndOfBody, Embedded, HangUp, Finish, Goto, PCs, Ended
  <2> QED
    BY <1>0, <2>1 DEF RestOK
<1>3. home' \in [Requests -> 0..MaxBoots]
  <2>1. home' = home \/ home' = [home EXCEPT ![r] = serving]
    BY DEF Admit, NoModel, Reject, TakePlace, TurnAway, TooLong, Send, Upstreaming, Answered,
           EndOfBody, Embedded, HangUp, process
  <2> QED
    BY <1>0, <2>1 DEF RestOK
<1>4. holders' \subseteq Requests /\ IsFiniteSet(holders')
  <2>1. holders' \in {holders, holders \ {r}, holders \union {r}}
    BY DEF Admit, NoModel, Reject, TakePlace, TurnAway, TooLong, Send, Upstreaming, Answered,
           EndOfBody, Embedded, HangUp, process, Leave
  <2> QED
    BY <1>0, <2>1, FS_AddElement, FS_RemoveElement DEF RestOK
<1>5. begun' \subseteq Requests
  <2>1. begun' \in {begun, begun \union {r}}
    BY DEF Admit, NoModel, Reject, TakePlace, TurnAway, TooLong, Send, Upstreaming, Answered,
           EndOfBody, Embedded, HangUp, process
  <2> QED
    BY <1>0, <2>1 DEF RestOK
<1>6. passed' \in [Requests -> 0..MaxClock \union {Never}]
  <2>1. passed' = passed \/ passed' = [passed EXCEPT ![r] = clock]
    BY DEF Admit, NoModel, Reject, TakePlace, TurnAway, TooLong, Send, Upstreaming, Answered,
           EndOfBody, Embedded, HangUp, process
  <2> QED
    BY <1>0, <2>1 DEF RestOK, QuotaTypeOK
<1>7. TrackerType' = TrackerType
  BY DEF TrackerType, Days
<1> QED
  BY <1>0, <1>1, <1>2, <1>3, <1>4, <1>5, <1>6, <1>7 DEF RestOK

LEMMA ProcessRest ==
  ASSUME BasicInv, Boot \/ Takeover \/ Crash
  PROVE  RestOK'
<1>0. RestOK /\ QuotaFinite /\ TrackerType' = TrackerType /\ MaxBoots \in Nat
  BY BasicIs, RequestAssumption DEF TrackerType, Days
<1>1. CASE Boot
  <2>1. next' = {Seeded} /\ serving < MaxBoots
        /\ UNCHANGED <<pc, home, holders, up, serving, begun, passed>>
    BY <1>1 DEF Boot
  <2>2. Seeded \in TrackerType
    BY <1>0, SeededType
  <2>3. Cardinality(next') <= 1
    BY <2>1, FS_Singleton
  <2> QED
    BY <1>0, <2>1, <2>2, <2>3 DEF RestOK
<1>2. CASE Takeover
  <2>1. /\ next # {} /\ next' = {} /\ serving' = serving + 1 /\ up' = TRUE
        /\ passed' = [r \in Requests |-> Never]
        /\ UNCHANGED <<pc, home, holders, begun>>
    BY <1>2 DEF Takeover
  <2>2. Cardinality(next') <= 1
    BY <2>1, FS_EmptySet
  <2>3. serving' \in 0..MaxBoots
    BY <1>0, <2>1 DEF RestOK
  <2> QED
    BY <1>0, <2>1, <2>2, <2>3 DEF RestOK
<1>3. CASE Crash
  <2>1. PICK gone \in SUBSET Requests :
          /\ pc' = [r \in Requests |-> IF r \in gone THEN "dead" ELSE pc[r]]
          /\ holders' = holders \ gone
    BY <1>3 DEF Crash
  <2>2. up' = FALSE /\ UNCHANGED <<home, serving, next, begun, passed>>
    BY <1>3 DEF Crash
  <2>3. pc' \in [Requests -> PCs]
    BY <1>0, <2>1 DEF RestOK, PCs, Ended
  <2>4. holders' \subseteq Requests /\ IsFiniteSet(holders')
    BY <1>0, <2>1, FS_Subset DEF RestOK
  <2> QED
    BY <1>0, <2>2, <2>3, <2>4 DEF RestOK
<1> QED
  BY <1>1, <1>2, <1>3

LEMMA BasicStep ==
  ASSUME BasicInv, UpstreamTypeOK', [Next]_vars
  PROVE  BasicInv'
<1>1. QuotaFinite'
  BY QuotaStep
<1>2. RestOK'
  <2>1. ASSUME UNCHANGED <<pc, process>>
        PROVE  RestOK'
    BY <2>1, BasicIs DEF RestOK, process, TrackerType, Days
  <2> QED
    BY <2>1, HandlerRest, ProcessRest DEF Next, vars
<1> QED
  BY <1>1, <1>2, BasicIs, PTL

LEMMA BasicInit ==
  ASSUME Init
  PROVE  BasicInv
<1>1. /\ clock \in 0..MaxClock /\ hits \in Seq(0..MaxClock) /\ 0 \in Days
  <2>1. MaxClock \in Nat
    BY QuotaAssumption
  <2>2. clock = 0 /\ hits = <<>>
    BY DEF Init, QuotaInit
  <2>3. Today \in Days /\ Days \subseteq Nat /\ clock \in 0..MaxClock
    BY <2>1, <2>2, TodayType
  <2>4. 0 \in Days
    <3>1. MaxClock \div DayLength \in Nat
      BY <2>1, DaysGrow
    <3> QED
      BY <3>1 DEF Days
  <2> QED
    BY <2>2, <2>3, <2>4
<1>2. QuotaFinite
  BY <1>1, FS_EmptySet DEF QuotaFinite, QuotaTypeOK, Init, QuotaInit
<1>3. UpstreamTypeOK
  BY RouteType DEF Init, UpstreamInit, UpstreamTypeOK, Fresh, CallType, Reports
<1>4. RestOK
  BY FS_EmptySet, RequestAssumption DEF Init, RestOK, PCs, TrackerType
<1> QED
  BY <1>2, <1>3, <1>4, BasicIs

\* Every variable of the request's life, its calls and its counts has its type.
THEOREM RequestTypeCorrect == Spec => []TypeOK
<1>1. CallsInv' => UpstreamTypeOK'
  BY DEF CallsInv
<1>2. BasicInv /\ CallsInv' /\ [Next]_vars => BasicInv'
  BY <1>1, BasicStep
<1>3. BasicInv => TypeOK
  BY DEF BasicInv
<1> QED
  BY <1>2, <1>3, BasicInit, RequestCalls, PTL DEF Spec

-----------------------------------------------------------------------------
(* Every way out of the handler. *)

\* What the requests themselves say of their end.
EndsOK ==
  /\ \A r \in Requests : /\ pc[r] = "over" <=> r \in finished
                         /\ r \in begun => pc[r] \in {"streaming", "over", "dead"}
  /\ holders = {r \in Requests : Chat(r) /\ pc[r] \in Held}

LEMMA HandlerEnds ==
  ASSUME PlacesInv, NEW r \in Requests,
         \/ Admit(r) \/ NoModel(r) \/ Reject(r) \/ TakePlace(r) \/ TurnAway(r) \/ TooLong(r)
         \/ Send(r) \/ Upstreaming(r) \/ Answered(r) \/ EndOfBody(r) \/ Embedded(r)
         \/ HangUp(r)
  PROVE  EndsOK'
<1>0. /\ pc \in [Requests -> PCs]
      /\ EndsOK
  BY DEF PlacesInv, BasicInv, TypeOK, EndsOK
<1> USE <1>0 DEF EndsOK, Held, Goto, Leave, Chat
<1>1. CASE Admit(r)
  BY <1>1 DEF Admit
<1>2. CASE NoModel(r) \/ Reject(r)
  BY <1>2 DEF NoModel, Reject, Finish, quota, process
<1>3. CASE TakePlace(r)
  BY <1>3 DEF TakePlace, quota
<1>4. CASE TurnAway(r)
  BY <1>4 DEF TurnAway, Finish, process
<1>5. CASE TooLong(r)
  BY <1>5 DEF TooLong, Finish
<1>6. CASE Send(r)
  BY <1>6 DEF Send, quota, process
<1>7. CASE Upstreaming(r)
  BY <1>7 DEF Upstreaming, quota, process
<1>8. CASE Answered(r)
  <2>1. pc[r] = "sending" /\ KindOf[r] # "embed"
    BY <1>8 DEF Answered
  <2>2. CASE Finish(r) /\ Leave(r) /\ UNCHANGED begun
    BY <2>1, <2>2 DEF Finish
  <2>3. CASE /\ Goto(r, "streaming")
             /\ begun' = begun \union {r}
             /\ UNCHANGED <<quota, holders>>
    BY <2>1, <2>3 DEF quota
  <2>4. CASE Goto(r, "buffering") /\ UNCHANGED <<quota, holders, begun>>
    BY <2>1, <2>4 DEF quota
  <2> QED
    BY <1>8, <2>2, <2>3, <2>4 DEF Answered
<1>9. CASE EndOfBody(r)
  BY <1>9 DEF EndOfBody, Finish
<1>10. CASE Embedded(r)
  BY <1>10 DEF Embedded, Finish, process
<1>11. CASE HangUp(r)
  BY <1>11 DEF HangUp, quota
<1> QED
  BY <1>1, <1>2, <1>3, <1>4, <1>5, <1>6, <1>7, <1>8, <1>9, <1>10, <1>11

LEMMA CrashEnds ==
  ASSUME PlacesInv, Crash
  PROVE  EndsOK'
<1>0. /\ pc \in [Requests -> PCs]
      /\ EndsOK
  BY DEF PlacesInv, BasicInv, TypeOK, EndsOK
<1> DEFINE gone == {r \in Requests : Served(r) /\ pc[r] \notin Ended \union {"new"}}
<1>1. /\ pc' = [r \in Requests |-> IF r \in gone THEN "dead" ELSE pc[r]]
      /\ holders' = holders \ gone
      /\ UNCHANGED <<finished, begun>>
  BY DEF Crash
<1>2. gone \subseteq Requests /\ \A r \in gone : pc[r] # "over"
  BY DEF Ended
<1> HIDE DEF gone
<1>3. \A r \in Requests : /\ pc'[r] = "over" <=> pc[r] = "over"
                          /\ pc'[r] \in Held <=> pc[r] \in Held /\ r \notin gone
                          /\ pc[r] \in {"streaming", "over", "dead"} =>
                               pc'[r] \in {"streaming", "over", "dead"}
  BY <1>0, <1>1, <1>2 DEF Held
<1> QED
  BY <1>0, <1>1, <1>3 DEF EndsOK, Chat

GateOK == \A p \in 0..MaxBoots : Cardinality(AtGate(p)) <= Slots

\* Whoever only leaves the gate, or comes to it without a place, crowds no one.
LEMMA FewerAtGate ==
  ASSUME BasicInv, GateOK, holders' \subseteq holders,
         \A h \in holders' : home'[h] = home[h]
  PROVE  GateOK'
<1> SUFFICES ASSUME NEW p \in 0..MaxBoots
    PROVE  Cardinality(AtGate(p)') <= Slots
  BY DEF GateOK
<1>1. AtGate(p)' \subseteq AtGate(p) /\ AtGate(p) \subseteq holders
  BY DEF AtGate
<1>2. IsFiniteSet(AtGate(p))
  BY <1>1, FS_Subset DEF BasicInv
<1>3. /\ Cardinality(AtGate(p)') <= Cardinality(AtGate(p))
      /\ Cardinality(AtGate(p)') \in Nat /\ Cardinality(AtGate(p)) \in Nat
  BY <1>1, <1>2, FS_Subset, FS_CardinalityType
<1> QED
  BY <1>3, RequestAssumption DEF GateOK

LEMMA TakePlaceGate ==
  ASSUME PlacesInv, NEW r \in Requests, TakePlace(r)
  PROVE  GateOK'
<1> SUFFICES ASSUME NEW p \in 0..MaxBoots
    PROVE  Cardinality(AtGate(p)') <= Slots
  BY DEF GateOK
<1>1. /\ IsFiniteSet(AtGate(p))
      /\ Cardinality(AtGate(p)) \in Nat /\ Cardinality(AtGate(p)) <= Slots
  BY FS_Subset, FS_CardinalityType DEF PlacesInv, BasicInv, AtGate
<1>2. /\ holders' = holders \union {r} /\ home' = home
      /\ Cardinality(AtGate(home[r])) < Slots
  BY DEF TakePlace, Neighbours, AtGate
<1>3. CASE home[r] = p
  <2>1. AtGate(p)' = AtGate(p) \union {r}
    BY <1>2, <1>3 DEF AtGate
  <2>2. Cardinality(AtGate(p) \union {r}) \in {Cardinality(AtGate(p)), Cardinality(AtGate(p)) + 1}
    BY <1>1, FS_AddElement
  <2> QED
    BY <1>1, <1>2, <1>3, <2>1, <2>2, RequestAssumption
<1>4. CASE home[r] # p
  <2>1. AtGate(p)' = AtGate(p)
    BY <1>2, <1>4 DEF AtGate
  <2> QED
    BY <1>1, <2>1
<1> QED
  BY <1>3, <1>4

LEMMA GateStep ==
  ASSUME PlacesInv, [Next]_vars
  PROVE  GateOK'
<1>0. BasicInv /\ GateOK /\ holders = {r \in Requests : Chat(r) /\ pc[r] \in Held}
  BY DEF PlacesInv, GateOK
<1>1. ASSUME NEW r \in Requests, Admit(r)
      PROVE  GateOK'
  <2>1. /\ holders' = holders /\ pc[r] = "new"
        /\ home' = [home EXCEPT ![r] = serving]
    BY <1>1 DEF Admit
  <2>2. r \notin holders
    BY <1>0, <2>1 DEF Held
  <2>3. home \in [Requests -> 0..MaxBoots] /\ holders \subseteq Requests
    BY <1>0 DEF BasicInv, TypeOK
  <2> QED
    BY <1>0, <2>1, <2>2, <2>3, FewerAtGate
<1>2. ASSUME NEW r \in Requests,
             \/ NoModel(r) \/ Reject(r) \/ TurnAway(r) \/ TooLong(r) \/ Send(r) \/ Upstreaming(r)
             \/ Answered(r) \/ EndOfBody(r) \/ Embedded(r) \/ HangUp(r)
      PROVE  GateOK'
  <2>1. holders' \subseteq holders /\ home' = home
    BY <1>2 DEF NoModel, Reject, TurnAway, TooLong, Send, Upstreaming, Answered, EndOfBody,
                Embedded, HangUp, Leave, process
  <2> QED
    BY <1>0, <2>1, FewerAtGate
<1>3. ASSUME Boot \/ Takeover \/ Crash \/ UNCHANGED process
      PROVE  GateOK'
  <2>1. holders' \subseteq holders /\ home' = home
    BY <1>3 DEF Boot, Takeover, Crash, process
  <2> QED
    BY <1>0, <2>1, FewerAtGate
<1> QED
  BY <1>1, <1>2, <1>3, TakePlaceGate DEF Next, vars

LEMMA EndsStep ==
  ASSUME PlacesInv, [Next]_vars
  PROVE  EndsOK'
<1>1. ASSUME UNCHANGED <<pc, finished, begun, holders>>
      PROVE  EndsOK'
  BY <1>1 DEF PlacesInv, EndsOK, Chat
<1>2. CASE UNCHANGED vars
  BY <1>1, <1>2 DEF vars, process, quota
<1>3. CASE Boot \/ Takeover
  BY <1>1, <1>3 DEF Boot, Takeover
<1>4. CASE Tick /\ UNCHANGED <<upstream, pc, process>>
  BY <1>1, <1>4 DEF Tick, process
<1>5. ASSUME NEW r \in Requests, Write(r) /\ UNCHANGED <<upstream, pc, process>>
      PROVE  EndsOK'
  BY <1>1, <1>5 DEF Write, process
<1> QED
  BY <1>2, <1>3, <1>4, <1>5, HandlerEnds, CrashEnds DEF Next

LEMMA PlacesInit ==
  ASSUME Init
  PROVE  PlacesInv
<1>1. BasicInv
  BY BasicInit
<1>2. EndsOK
  BY DEF Init, QuotaInit, EndsOK, Held
<1>3. \A p : AtGate(p) = {}
  BY DEF Init, AtGate
<1>4. GateOK
  BY <1>3, FS_EmptySet, RequestAssumption DEF GateOK
<1> QED
  BY <1>1, <1>2, <1>4 DEF PlacesInv, EndsOK, GateOK

LEMMA RequestPlaces == Spec => []PlacesInv
<1>2. CallsInv' => UpstreamTypeOK'
  BY DEF CallsInv
<1>3. BasicInv' /\ EndsOK' /\ GateOK' => PlacesInv'
  BY DEF PlacesInv, EndsOK, GateOK
<1>4. PlacesInv => BasicInv
  BY DEF PlacesInv
<1>5. PlacesInv /\ CallsInv' /\ [Next]_vars => PlacesInv'
  BY <1>2, <1>3, <1>4, BasicStep, EndsStep, GateStep
<1> QED
  BY <1>5, PlacesInit, RequestCalls, PTL DEF Spec

\* Every way out ends a request once on the books and once at the gate, and
\* no process has more chats in hand than it may.
THEOREM RequestEveryWayOut == Spec => []EveryWayOut
<1>1. PlacesInv => EveryWayOut
  <2> SUFFICES ASSUME PlacesInv PROVE EveryWayOut
    OBVIOUS
  <2>1. Accounted
    BY DEF PlacesInv, Accounted
  <2>2. \A r \in Requests : home[r] \in 0..MaxBoots /\ Neighbours(r) = AtGate(home[r])
    BY DEF PlacesInv, BasicInv, TypeOK, Neighbours, AtGate
  <2>3. WithinLimit
    BY <2>2 DEF PlacesInv, WithinLimit, Held
  <2> QED
    BY <2>1, <2>3 DEF EveryWayOut
<1> QED
  BY <1>1, RequestPlaces, PTL

-----------------------------------------------------------------------------
(* The quota. *)

LEMMA FinishedFinite ==
  ASSUME QuotaFinite, NEW day
  PROVE  IsFiniteSet(FinishedOn(day)) /\ Cardinality(FinishedOn(day)) \in Nat
BY FS_Subset, FS_CardinalityType DEF QuotaFinite, FinishedOn

\* What QuotaInv says of the trackers.
TrackersOK ==
  excuses = {} => /\ finished = rows \union unwritten
                  /\ up => Counts(tracker)
                  /\ \A t \in next : Counts(t)

BirthsOK == \A r \in Requests : pc[r] \in {"new", "refused"} \/ born[r] \in 0..Today

LEMMA QuotaFacts ==
  ASSUME QuotaInv
  PROVE  /\ QuotaFinite /\ BirthsOK /\ TrackersOK
         /\ Today \in Days /\ Today \in Nat /\ Days \subseteq Nat
         /\ tracker \in TrackerType /\ next \subseteq TrackerType
         /\ born \in [Requests -> Days \union {Never}] /\ finished \subseteq Requests
         /\ pc \in [Requests -> PCs]
         /\ \A r \in Requests : pc[r] = "over" <=> r \in finished
<1>1. PlacesInv /\ BasicInv /\ BirthsOK /\ TrackersOK
  BY DEF QuotaInv, PlacesInv, BirthsOK, TrackersOK
<1>2. QuotaFinite /\ RestOK
  BY <1>1, BasicIs
<1>3. Today \in Days /\ Today \in Nat /\ Days \subseteq Nat
  BY <1>2, TodayType DEF QuotaFinite, QuotaTypeOK
<1>4. /\ tracker \in TrackerType
      /\ born \in [Requests -> Days \union {Never}] /\ finished \subseteq Requests
  BY <1>2 DEF QuotaFinite, QuotaTypeOK, TrackerType
<1>5. next \subseteq TrackerType /\ pc \in [Requests -> PCs]
  BY <1>2 DEF RestOK
<1>6. \A r \in Requests : pc[r] = "over" <=> r \in finished
  BY <1>1 DEF PlacesInv
<1> QED
  BY <1>1, <1>2, <1>3, <1>4, <1>5, <1>6

\* All that has finished was born by today.
LEMMA FinishedBorn ==
  ASSUME QuotaInv, NEW r \in finished
  PROVE  r \in Requests /\ born[r] \in 0..Today
<1>1. r \in Requests /\ pc[r] = "over"
  BY QuotaFacts
<1> QED
  BY <1>1 DEF QuotaInv

\* What get returns is not short of what has finished today.
LEMMA RolledCounts ==
  ASSUME QuotaInv, Counts(tracker)
  PROVE  /\ Cardinality(FinishedOn(Today)) <= RolledOver(tracker, Today).count
         /\ \A r \in finished : born[r] <= Today
<1>1. /\ tracker \in TrackerType /\ Today \in Nat /\ Today \in Days
      /\ tracker.day \in 0..Today
  BY QuotaFacts DEF Counts
<1>2. \A r \in finished : born[r] \in Nat /\ born[r] <= tracker.day /\ born[r] <= Today
  BY <1>1, FinishedBorn DEF Counts
<1>3. CASE tracker.day = Today
  BY <1>1, <1>2, <1>3, TrackerTypes DEF Counts
<1>4. CASE tracker.day # Today
  <2>1. \A r \in finished : born[r] # Today
    BY <1>1, <1>2, <1>4
  <2>2. FinishedOn(Today) = {}
    BY <2>1 DEF FinishedOn
  <2>3. Cardinality(FinishedOn(Today)) = 0
    BY <2>2, FS_EmptySet
  <2>4. RolledOver(tracker, Today).count = 0
    BY <1>1, <1>4, TrackerTypes
  <2> QED
    BY <1>2, <2>3, <2>4
<1> QED
  BY <1>3, <1>4

\* One request is counted; nothing excuses a short count.
LEMMA FinishCounts ==
  ASSUME QuotaInv, NEW r \in Requests, Finish(r), excuses' = {},
         pc[r] \notin {"new", "refused", "over"}, UNCHANGED <<up, next>>
  PROVE  TrackersOK'
<1>1. /\ excuses = {} /\ ~Late(r) /\ next = {} /\ Served(r)
      /\ finished' = finished \union {r} /\ unwritten' = unwritten \union {r}
      /\ tracker' = Recorded(tracker, born[r])
      /\ UNCHANGED <<clock, born, rows>>
  BY DEF Finish
<1>2. finished' = rows' \union unwritten'
  BY <1>1, QuotaFacts DEF TrackersOK
<1>3. ASSUME up
      PROVE  Counts(tracker)'
  <2>1. Counts(tracker)
    BY <1>1, <1>3, QuotaFacts DEF TrackersOK
  <2>2. /\ tracker \in TrackerType /\ Today \in Nat
        /\ tracker.day \in 0..Today /\ born[r] \in 0..Today /\ born[r] \in Days
        /\ tracker.day \in Days
    <3>1. born[r] \in 0..Today
      BY QuotaFacts DEF BirthsOK
    <3>2. /\ tracker \in TrackerType /\ Today \in Nat /\ Today \in Days
          /\ tracker.day \in 0..Today
      BY <2>1, QuotaFacts DEF Counts
    <3>3. MaxClock \div DayLength \in Nat
      BY QuotaAssumption, DaysGrow
    <3>4. 0..Today \subseteq Days
      BY <3>2, <3>3 DEF Days
    <3> QED
      BY <3>1, <3>2, <3>4
  <2>3. tracker.day <= born[r]
    BY <1>1, <2>2 DEF Late
  <2>4. tracker'.day = born[r] /\ tracker'.count = RolledOver(tracker, born[r]).count + 1
    BY <1>1, <2>2, TrackerTypes
  <2>5. \A f \in finished : born[f] \in Nat /\ born[f] <= tracker.day
    BY <2>1, FinishedBorn DEF Counts
  <2>6. \A f \in finished' : born'[f] <= tracker'.day
    BY <1>1, <2>2, <2>3, <2>4, <2>5
  <2>7. r \notin finished
    BY QuotaFacts
  <2>8. PICK b : b = born[r]
    OBVIOUS
  <2>9. FinishedOn(b)' = FinishedOn(b) \union {r} /\ r \notin FinishedOn(b)
    BY <1>1, <2>7, <2>8 DEF FinishedOn
  <2>10. IsFiniteSet(FinishedOn(b)) /\ Cardinality(FinishedOn(b)) \in Nat
    BY FinishedFinite, QuotaFacts
  <2>11. Cardinality(FinishedOn(b)') = Cardinality(FinishedOn(b)) + 1
    BY <2>9, <2>10, FS_AddElement
  <2>12. Cardinality(FinishedOn(b)) <= RolledOver(tracker, b).count
    <3>1. CASE tracker.day = b
      BY <2>1, <2>2, <2>8, <3>1, TrackerTypes DEF Counts
    <3>2. CASE tracker.day # b
      <4>1. \A f \in finished : born[f] # b
        BY <2>2, <2>3, <2>5, <2>8, <3>2
      <4>2. FinishedOn(b) = {}
        BY <4>1 DEF FinishedOn
      <4>3. Cardinality(FinishedOn(b)) = 0
        BY <4>2, FS_EmptySet
      <4>4. RolledOver(tracker, b).count = 0
        BY <2>2, <2>8, <3>2, TrackerTypes
      <4> QED
        BY <4>3, <4>4
    <3> QED
      BY <3>1, <3>2
  <2>13. RolledOver(tracker, b).count \in Nat
    BY <2>2, <2>8, TrackerTypes DEF TrackerType
  <2>14. tracker'.day = b /\ tracker'.count = RolledOver(tracker, b).count + 1
    BY <2>4, <2>8
  <2>15. FinishedOn(tracker.day)' = FinishedOn(b)'
    BY <2>14 DEF FinishedOn
  <2>16. Cardinality(FinishedOn(tracker.day)') <= tracker'.count
    BY <2>10, <2>11, <2>12, <2>13, <2>14, <2>15
  <2>17. tracker'.day \in 0..Today'
    BY <1>1, <2>2, <2>4 DEF Today
  <2> QED
    BY <2>6, <2>16, <2>17 DEF Counts
<1> QED
  BY <1>1, <1>2, <1>3 DEF TrackersOK

\* Days pass, and what was counted stays counted.
LEMMA CountsStay ==
  ASSUME QuotaInv, clock' \in 0..MaxClock, clock <= clock', finished' = finished,
         \A f \in finished : born'[f] = born[f],
         NEW t, Counts(t)
  PROVE  Counts(t)'
<1>1. /\ clock \in Nat /\ clock' \in Nat /\ Today \in Nat /\ Today' \in Nat
      /\ Today <= Today'
  <2>1. clock \in 0..MaxClock /\ MaxClock \in Nat
    BY QuotaFacts, QuotaAssumption DEF QuotaFinite, QuotaTypeOK
  <2>2. clock \in Nat /\ clock' \in Nat
    BY <2>1
  <2> QED
    BY <2>2, DaysGrow DEF Today
<1>2. FinishedOn(t.day)' = FinishedOn(t.day)
  BY DEF FinishedOn
<1>3. t.day \in 0..Today'
  BY <1>1 DEF Counts
<1> QED
  BY <1>2, <1>3 DEF Counts

\* The tracker a successor starts with.
LEMMA SeededCounts ==
  ASSUME QuotaInv, finished = rows
  PROVE  Counts(Seeded)
<1>1. Seeded.day = Today /\ Seeded.count = Cardinality({r \in rows : born[r] = Today})
  BY SeededType, QuotaFacts
<1>2. FinishedOn(Today) = {r \in rows : born[r] = Today}
  BY DEF FinishedOn
<1>3. Cardinality(FinishedOn(Today)) \in Nat /\ Today \in Nat
  BY FinishedFinite, QuotaFacts
<1>4. \A r \in finished : born[r] <= Today
  BY FinishedBorn, <1>3
<1> QED
  BY <1>1, <1>2, <1>3, <1>4 DEF Counts

LEMMA BirthsStep ==
  ASSUME QuotaInv, [Next]_vars, clock' \in 0..MaxClock
  PROVE  BirthsOK'
<1>0. /\ BirthsOK /\ Today \in Nat /\ pc \in [Requests -> PCs] /\ Today \in Days
      /\ born \in [Requests -> Days \union {Never}]
  BY QuotaFacts
<1>1. clock \in Nat /\ clock' \in Nat
  <2>1. clock \in 0..MaxClock /\ MaxClock \in Nat
    BY QuotaFacts, QuotaAssumption DEF QuotaFinite, QuotaTypeOK
  <2> QED
    BY <2>1
<1>2. ASSUME UNCHANGED <<clock, born>>,
             \A r \in Requests : pc'[r] \in {"new", "refused"} \/ pc'[r] = pc[r]
                                 \/ pc[r] \notin {"new", "refused"}
      PROVE  BirthsOK'
  BY <1>0, <1>2 DEF BirthsOK, Today
<1>3. CASE Tick /\ UNCHANGED <<upstream, pc, process>>
  <2>1. clock <= clock' /\ UNCHANGED <<born, pc>>
    BY <1>1, <1>3 DEF Tick
  <2>2. Today' \in Nat /\ Today <= Today'
    BY <1>1, <2>1, DaysGrow DEF Today
  <2> QED
    BY <1>0, <2>1, <2>2 DEF BirthsOK
<1>4. ASSUME NEW r \in Requests, Admit(r)
      PROVE  BirthsOK'
  <2>1. /\ UNCHANGED clock
        /\ born' = [born EXCEPT ![r] = IF UnderRate /\ UnderQuota THEN Today ELSE @]
        /\ pc' = [pc EXCEPT ![r] = IF UnderRate /\ UnderQuota THEN "admitted" ELSE "refused"]
    BY <1>4 DEF Admit, Goto
  <2>2. Today' = Today
    BY <2>1 DEF Today
  <2>3. CASE UnderRate /\ UnderQuota
    BY <1>0, <2>1, <2>2, <2>3 DEF BirthsOK
  <2>4. CASE ~(UnderRate /\ UnderQuota)
    BY <1>0, <2>1, <2>2, <2>4 DEF BirthsOK
  <2> QED
    BY <2>3, <2>4
<1>5. ASSUME NEW r \in Requests,
             \/ NoModel(r) \/ Reject(r) \/ TakePlace(r) \/ TurnAway(r) \/ TooLong(r)
             \/ Send(r) \/ Upstreaming(r) \/ Answered(r) \/ EndOfBody(r) \/ Embedded(r)
             \/ HangUp(r)
      PROVE  BirthsOK'
  <2>1. UNCHANGED <<clock, born>>
    BY <1>5 DEF NoModel, Reject, TakePlace, TurnAway, TooLong, Send, Upstreaming, Answered,
                EndOfBody, Embedded, HangUp, Finish, quota
  <2>2. \/ pc' = pc
        \/ /\ \E x : pc' = [pc EXCEPT ![r] = x]
           /\ pc[r] \notin {"new", "refused"}
    BY <1>5 DEF NoModel, Reject, TakePlace, TurnAway, TooLong, Send, Upstreaming, Answered,
                EndOfBody, Embedded, HangUp, Finish, Goto
  <2>3. \A q \in Requests : pc'[q] = pc[q] \/ pc[q] \notin {"new", "refused"}
    BY <1>0, <2>2
  <2> QED
    BY <1>2, <2>1, <2>3
<1>6. ASSUME NEW r \in Requests, Write(r) /\ UNCHANGED <<upstream, pc, process>>
      PROVE  BirthsOK'
  BY <1>2, <1>6 DEF Write
<1>7. CASE Boot \/ Takeover \/ UNCHANGED vars
  BY <1>2, <1>7 DEF Boot, Takeover, vars, quota
<1>8. CASE Crash
  <2>1. /\ UNCHANGED <<clock, born>>
        /\ \A q \in Requests : pc'[q] = pc[q] \/ pc[q] \notin {"new", "refused"}
    BY <1>8 DEF Crash, Ended
  <2> QED
    BY <1>2, <2>1
<1> QED
  BY <1>3, <1>4, <1>5, <1>6, <1>7, <1>8 DEF Next

LEMMA CountsThen ==
  ASSUME NEW t, t = tracker', Counts(t)'
  PROVE  Counts(tracker)'
BY DEF Counts, FinishedOn

\* Nothing finishes: the counts stay, whoever's they are.
LEMMA TrackersStay ==
  ASSUME QuotaInv, excuses = {}, clock' \in 0..MaxClock, clock <= clock', finished' = finished,
         \A f \in finished : born'[f] = born[f],
         rows' \union unwritten' = rows \union unwritten,
         up' => \/ up /\ tracker' = tracker
                \/ tracker' \in next,
         next' \subseteq next
  PROVE  TrackersOK'
<1>1. \A t : Counts(t) => Counts(t)'
  BY CountsStay
<1>2. TrackersOK
  BY QuotaFacts
<1>3. up' => Counts(tracker)'
  <2>1. PICK t : t = tracker'
    OBVIOUS
  <2>2. up' => Counts(t)
    BY <1>2, <2>1 DEF TrackersOK
  <2> QED
    BY <1>1, <2>1, <2>2, CountsThen
<1>4. \A t \in next' : Counts(t)'
  BY <1>1, <1>2 DEF TrackersOK
<1>5. finished' = rows' \union unwritten'
  BY <1>2 DEF TrackersOK
<1> QED
  BY <1>3, <1>4, <1>5 DEF TrackersOK

LEMMA AdmitCounts ==
  ASSUME QuotaInv, NEW r \in Requests, Admit(r), excuses = {}
  PROVE  TrackersOK'
<1>1. /\ UNCHANGED <<clock, unwritten, rows, finished, up, next>>
      /\ born' = [born EXCEPT ![r] = IF UnderRate /\ UnderQuota THEN Today ELSE @]
      /\ pc[r] = "new" /\ up
      /\ tracker' = tracker \/ tracker' = RolledOver(tracker, Today)
  BY DEF Admit, Ask
<1>2. /\ TrackersOK /\ r \notin finished /\ finished \subseteq Requests
      /\ born \in [Requests -> Days \union {Never}]
      /\ tracker \in TrackerType /\ Today \in Days /\ Today \in Nat
  BY <1>1, QuotaFacts
<1>3. \A f \in finished : born'[f] = born[f]
  BY <1>1, <1>2
<1>4. clock' \in 0..MaxClock /\ clock <= clock'
  BY <1>1, QuotaFacts, QuotaAssumption DEF QuotaFinite, QuotaTypeOK
<1>5. \A t : Counts(t) => Counts(t)'
  BY <1>1, <1>3, <1>4, CountsStay
<1>6. Counts(tracker)
  BY <1>1, <1>2 DEF TrackersOK
<1>7. Counts(RolledOver(tracker, Today))
  <2>1. RolledOver(tracker, Today).day = Today
    BY <1>2, TrackerTypes
  <2> QED
    BY <1>2, <1>6, <2>1, RolledCounts DEF Counts
<1>8. PICK t : t = tracker'
  OBVIOUS
<1>9. Counts(tracker)'
  BY <1>1, <1>5, <1>6, <1>7, <1>8, CountsThen
<1>10. \A u \in next' : Counts(u)'
  BY <1>1, <1>2, <1>5 DEF TrackersOK
<1>11. finished' = rows' \union unwritten'
  BY <1>1, <1>2 DEF TrackersOK
<1> QED
  BY <1>9, <1>10, <1>11 DEF TrackersOK

LEMMA BootCounts ==
  ASSUME QuotaInv, Boot, excuses' = {}
  PROVE  TrackersOK'
<1>1. /\ UNCHANGED <<clock, tracker, born, unwritten, rows, finished, up>>
      /\ next' = {Seeded} /\ excuses = {} /\ unwritten = {}
  BY DEF Boot
<1>2. TrackersOK /\ clock' \in 0..MaxClock /\ clock <= clock'
  BY <1>1, QuotaFacts, QuotaAssumption DEF QuotaFinite, QuotaTypeOK
<1>3. finished = rows
  BY <1>1, <1>2 DEF TrackersOK
<1>4. Counts(Seeded)
  BY <1>3, SeededCounts
<1>5. \A t : Counts(t) => Counts(t)'
  BY <1>1, <1>2, CountsStay
<1>6. PICK s : s = Seeded
  OBVIOUS
<1>7. next' = {s} /\ Counts(s)'
  BY <1>1, <1>4, <1>5, <1>6
<1>8. up' => Counts(tracker)'
  <2>1. PICK t : t = tracker
    OBVIOUS
  <2> QED
    BY <1>1, <1>2, <1>5, <2>1, CountsThen DEF TrackersOK
<1>9. finished' = rows' \union unwritten'
  BY <1>1, <1>3
<1>10. \A u \in next' : Counts(u)'
  BY <1>7
<1> QED
  BY <1>8, <1>9, <1>10 DEF TrackersOK

LEMMA TrackersStep ==
  ASSUME QuotaInv, [Next]_vars, clock' \in 0..MaxClock
  PROVE  TrackersOK'
<1> SUFFICES ASSUME excuses' = {}
    PROVE  TrackersOK'
  BY DEF TrackersOK
<1>0. clock \in Nat
  <2>1. clock \in 0..MaxClock /\ MaxClock \in Nat
    BY QuotaFacts, QuotaAssumption DEF QuotaFinite, QuotaTypeOK
  <2> QED
    BY <2>1
<1>1. ASSUME UNCHANGED <<clock, finished, born, rows, unwritten, excuses, tracker, up, next>>
      PROVE  TrackersOK'
  BY <1>0, <1>1, TrackersStay
<1>2. CASE UNCHANGED vars
  BY <1>1, <1>2 DEF vars, quota, process
<1>3. CASE Tick /\ UNCHANGED <<upstream, pc, process>>
  <2>1. clock <= clock'
    BY <1>0, <1>3 DEF Tick
  <2> QED
    BY <1>3, <2>1, TrackersStay DEF Tick, process
<1>4. ASSUME NEW r \in Requests, Write(r) /\ UNCHANGED <<upstream, pc, process>>
      PROVE  TrackersOK'
  <2>1. /\ UNCHANGED <<clock, finished, born, excuses, tracker, up, next>>
        /\ rows' \union unwritten' = rows \union unwritten
    BY <1>4 DEF Write, process
  <2> QED
    BY <1>0, <2>1, TrackersStay
<1>5. CASE Boot
  BY <1>5, BootCounts
<1>6. CASE Takeover
  <2>1. /\ UNCHANGED <<clock, finished, born, excuses, rows, unwritten>>
        /\ tracker' \in next /\ next' = {}
    BY <1>6 DEF Takeover
  <2> QED
    BY <1>0, <2>1, TrackersStay
<1>7. CASE Crash
  <2>1. /\ UNCHANGED <<clock, finished, born, rows, tracker, next>>
        /\ up' = FALSE /\ excuses = {} /\ unwritten' = unwritten
    BY <1>7 DEF Crash
  <2> QED
    BY <1>0, <2>1, TrackersStay
<1>8. ASSUME NEW r \in Requests, Admit(r)
      PROVE  TrackersOK'
  BY <1>8, AdmitCounts DEF Admit
<1>9. ASSUME NEW r \in Requests,
             \/ NoModel(r) \/ Reject(r) \/ TakePlace(r) \/ TurnAway(r) \/ TooLong(r)
             \/ Send(r) \/ Upstreaming(r) \/ Answered(r) \/ EndOfBody(r) \/ Embedded(r)
             \/ HangUp(r)
      PROVE  TrackersOK'
  <2>1. UNCHANGED <<up, next>>
    BY <1>9 DEF NoModel, Reject, TakePlace, TurnAway, TooLong, Send, Upstreaming, Answered,
                EndOfBody, Embedded, HangUp, process
  <2>2. UNCHANGED quota \/ (Finish(r) /\ pc[r] \notin {"new", "refused", "over"})
    BY <1>9 DEF NoModel, Reject, TakePlace, TurnAway, TooLong, Send, Upstreaming, Answered,
                EndOfBody, Embedded, HangUp
  <2>3. CASE UNCHANGED quota
    BY <1>1, <2>1, <2>3 DEF quota
  <2>4. CASE Finish(r) /\ pc[r] \notin {"new", "refused", "over"}
    BY <2>1, <2>4, FinishCounts
  <2> QED
    BY <2>2, <2>3, <2>4
<1> QED
  BY <1>2, <1>3, <1>4, <1>5, <1>6, <1>7, <1>8, <1>9 DEF Next

LEMMA RequestQuota == Spec => []QuotaInv
<1>1. Init => QuotaInv
  <2> SUFFICES ASSUME Init PROVE QuotaInv
    OBVIOUS
  <2>1. PlacesInv
    BY PlacesInit
  <2>2. /\ finished = {} /\ rows = {} /\ unwritten = {} /\ next = {}
        /\ clock = 0 /\ tracker = [day |-> 0, count |-> 0]
        /\ pc = [r \in Requests |-> "new"]
    BY DEF Init, QuotaInit
  <2>3. Today \in Nat
    BY <2>1, TodayType DEF PlacesInv, BasicInv, QuotaFinite, QuotaTypeOK
  <2>4. \A day : FinishedOn(day) = {}
    BY <2>2 DEF FinishedOn
  <2>5. tracker.day = 0 /\ tracker.count = 0
    BY <2>2
  <2>6. Counts(tracker)
    BY <2>2, <2>3, <2>4, <2>5, FS_EmptySet DEF Counts
  <2> QED
    BY <2>1, <2>2, <2>6 DEF QuotaInv
<1>2. PlacesInv' => clock' \in 0..MaxClock
  BY DEF PlacesInv, BasicInv, QuotaFinite, QuotaTypeOK
<1>3. PlacesInv' /\ BirthsOK' /\ TrackersOK' => QuotaInv'
  BY DEF QuotaInv, BirthsOK, TrackersOK
<1>4. QuotaInv /\ PlacesInv' /\ [Next]_vars => QuotaInv'
  BY <1>2, <1>3, BirthsStep, TrackersStep
<1> QED
  BY <1>1, <1>4, RequestPlaces, PTL DEF Spec

\* A request is let in as new only by Admit.
LEMMA OnlyAdmit ==
  ASSUME [Next]_vars, NEW r \in Requests, pc \in [Requests -> PCs],
         pc[r] = "new", pc'[r] = "admitted"
  PROVE  Admit(r)
<1>1. pc' # pc
  OBVIOUS
<1>2. ~Crash
  BY DEF Crash
<1>3. ASSUME NEW q \in Requests,
             \/ Admit(q) \/ NoModel(q) \/ Reject(q) \/ TakePlace(q) \/ TurnAway(q) \/ TooLong(q)
             \/ Send(q) \/ Upstreaming(q) \/ Answered(q) \/ EndOfBody(q) \/ Embedded(q)
             \/ HangUp(q)
      PROVE  Admit(q) /\ q = r
  <2>1. CASE Admit(q)
    BY <2>1 DEF Admit, Goto
  <2>2. ASSUME NEW x \in PCs \ {"admitted"}, pc' = [pc EXCEPT ![q] = x]
        PROVE  FALSE
    BY <2>2
  <2>3. CASE ~Admit(q)
    <3>1. \/ pc' = pc
          \/ \E x \in PCs \ {"admitted"} : pc' = [pc EXCEPT ![q] = x]
      BY <1>3, <2>3 DEF NoModel, Reject, TakePlace, TurnAway, TooLong, Send, Upstreaming, Answered,
                  EndOfBody, Embedded, HangUp, Finish, Goto, PCs, Ended
    <3> QED
      BY <1>1, <2>2, <3>1
  <2> QED
    BY <2>1, <2>3
<1> QED
  BY <1>1, <1>2, <1>3 DEF Next, vars, Boot, Takeover

\* A request is admitted only while fewer than PerDay have finished that day,
\* if no row was lost, none finished behind a rotation's back, and none was
\* recorded for a day already over.
THEOREM RequestQuotaKept == Spec => QuotaKept
<1> DEFINE Kept == \A r \in Requests : AdmittedFull(r) => excuses # {}
<1>1. QuotaInv /\ [Next]_vars => Kept
  <2> SUFFICES ASSUME QuotaInv, [Next]_vars, NEW r \in Requests, AdmittedFull(r), excuses = {}
      PROVE  FALSE
    OBVIOUS
  <2>1. Admit(r)
    BY OnlyAdmit, QuotaFacts DEF AdmittedFull
  <2>2. up /\ UnderQuota
    <3>1. pc \in [Requests -> PCs]
      BY QuotaFacts
    <3> QED
      BY <2>1, <3>1 DEF Admit, Goto, AdmittedFull
  <2>3. Counts(tracker)
    BY <2>2, QuotaFacts DEF TrackersOK
  <2>4. /\ Cardinality(FinishedOn(Today)) <= RolledOver(tracker, Today).count
        /\ Cardinality(FinishedOn(Today)) \in Nat
        /\ RolledOver(tracker, Today).count \in Nat
    BY <2>3, RolledCounts, FinishedFinite, QuotaFacts, TrackerTypes DEF TrackerType
  <2>5. /\ PerDay \in Nat /\ PerDay > 0 /\ Cardinality(FinishedOn(Today)) >= PerDay
        /\ RolledOver(tracker, Today).count < PerDay
    BY <2>2, QuotaAssumption DEF AdmittedFull, UnderQuota
  <2> QED
    BY <2>4, <2>5
<1> QED
  BY <1>1, RequestQuota, PTL DEF Spec, QuotaKept

-----------------------------------------------------------------------------
(* The limiter. *)

\* A set of positions that has all before each of its own is the first few.
LEMMA FirstFew ==
  ASSUME NEW n \in Nat, NEW D \in SUBSET (1..n),
         \A i \in D : \A j \in 1..i : j \in D
  PROVE  D = 1..Cardinality(D)
<1>1. IsFiniteSet(D) /\ Cardinality(D) \in Nat
  BY UpTo
<1>2. ASSUME NEW i \in D
      PROVE  i \in 1..Cardinality(D)
  <2>1. i \in Nat /\ i >= 1 /\ 1..i \subseteq D
    BY <1>2
  <2>2. Cardinality(1..i) = i
    BY <2>1, FS_Interval
  <2>3. Cardinality(1..i) <= Cardinality(D)
    BY <1>1, <2>1, FS_Subset
  <2> QED
    BY <1>1, <2>1, <2>2, <2>3
<1>3. D \subseteq 1..Cardinality(D)
  BY <1>2
<1>4. IsFiniteSet(1..Cardinality(D)) /\ Cardinality(1..Cardinality(D)) = Cardinality(D)
  BY <1>1, FS_Interval
<1> QED
  BY <1>3, <1>4, FS_Subset

\* What the deque drops is a window old.
LEMMA DroppedIsOld ==
  ASSUME QuotaTypeOK, NEW j \in 1..Expired
  PROVE  j \in DOMAIN hits /\ clock - hits[j] >= Window
<1> DEFINE D == {i \in DOMAIN hits : \A k \in 1..i : clock - hits[k] >= Window}
<1>1. /\ Len(hits) \in Nat /\ DOMAIN hits = 1..Len(hits) /\ Expired \in 0..Len(hits)
  BY ExpiredType
<1>2. D \subseteq 1..Len(hits)
  BY <1>1
<1>3. \A i \in D : \A k \in 1..i : k \in D
  <2> SUFFICES ASSUME NEW i \in D, NEW k \in 1..i
      PROVE  k \in D
    OBVIOUS
  <2>1. k \in DOMAIN hits /\ \A m \in 1..k : m \in 1..i
    BY <1>1
  <2> QED
    BY <2>1
<1>4. Expired = Cardinality(D)
  BY DEF Expired
<1> HIDE DEF D
<1>5. D = 1..Expired
  BY <1>1, <1>2, <1>3, <1>4, FirstFew
<1> QED
  BY <1>5 DEF D

LEMMA SinceFinite ==
  ASSUME NEW hs \in Seq(0..MaxClock), NEW t
  PROVE  /\ IsFiniteSet(Since(hs, t)) /\ Cardinality(Since(hs, t)) \in Nat
         /\ Cardinality(Since(hs, t)) <= Len(hs)
<1>1. Len(hs) \in Nat /\ Since(hs, t) \in SUBSET (1..Len(hs))
  BY DEF Since
<1> QED
  BY <1>1, UpTo

\* No hit of the window that ends now is dropped.
LEMMA LiveKeeps ==
  ASSUME QuotaTypeOK, NEW t \in clock - Window + 1 .. clock
  PROVE  Cardinality(Since(hits, t)) <= Cardinality(Since(Live, t))
<1> DEFINE e == Expired
           S == Since(hits, t)
           T == Since(Live, t)
           f == [j \in S |-> j - e]
<1>1. /\ Len(hits) \in Nat /\ DOMAIN hits = 1..Len(hits) /\ e \in 0..Len(hits)
      /\ clock \in Int /\ Window \in Int
  <2>1. clock \in 0..MaxClock /\ MaxClock \in Nat /\ Window \in Nat
    BY QuotaAssumption DEF QuotaTypeOK
  <2> QED
    BY <2>1, ExpiredType
<1>2. /\ Live \in Seq(0..MaxClock) /\ Len(Live) = Len(hits) - e
      /\ \A i \in 1 .. Len(hits) - e : Live[i] = hits[e + i]
      /\ DOMAIN Live = 1..Len(Live)
  BY LiveType
<1>3. \A j \in 1..Len(hits) : hits[j] \in Int
  <2>1. hits \in Seq(0..MaxClock) /\ MaxClock \in Nat
    BY QuotaAssumption DEF QuotaTypeOK
  <2>2. \A j \in 1..Len(hits) : hits[j] \in 0..MaxClock
    BY <2>1, ElementOfSeq
  <2> QED
    BY <2>1, <2>2
<1>4. \A j \in 1..e : clock - hits[j] >= Window
  BY DroppedIsOld
<1> HIDE DEF e
<1>5. ASSUME NEW j \in S
      PROVE  j - e \in T /\ j \in Int
  <2>1. j \in 1..Len(hits) /\ hits[j] >= t
    BY <1>1 DEF Since
  <2>2. j \notin 1..e
    BY <1>1, <1>3, <1>4, <2>1
  <2>3. j - e \in 1 .. Len(hits) - e /\ e + (j - e) = j
    BY <1>1, <2>1, <2>2
  <2>4. Live[j - e] = hits[j]
    BY <1>2, <2>3
  <2> QED
    BY <1>2, <2>1, <2>3, <2>4 DEF Since
<1> HIDE DEF S, T
<1>6. f \in [S -> T] /\ \A a, b \in S : f[a] = f[b] => a = b
  BY <1>1, <1>5
<1>7. f \in Injection(S, T)
  BY <1>6 DEF Injection, IsInjective
<1>8. IsFiniteSet(T)
  BY <1>2, SinceFinite DEF T
<1> HIDE DEF f
<1>9. Cardinality(S) <= Cardinality(T)
  BY <1>7, <1>8, FS_Injection
<1> QED
  BY <1>9 DEF S, T

LEMMA HitAtEnd ==
  ASSUME NEW hs \in Seq(0..MaxClock), NEW now \in 0..MaxClock, NEW t \in Int, t <= now
  PROVE  Cardinality(Since(Append(hs, now), t)) = Cardinality(Since(hs, t)) + 1
<1> DEFINE q == Append(hs, now)
<1>1. /\ Len(q) = Len(hs) + 1 /\ Len(hs) \in Nat
      /\ DOMAIN q = 1 .. Len(hs) + 1 /\ DOMAIN hs = 1..Len(hs)
      /\ \A n \in 1..Len(hs) : q[n] = hs[n]
      /\ q[Len(hs) + 1] = now
  BY AppendProperties
<1>2. 1 .. Len(hs) + 1 = 1..Len(hs) \union {Len(hs) + 1} /\ Len(hs) + 1 \notin 1..Len(hs)
  BY <1>1
<1>3. now >= t
  BY QuotaAssumption
<1> HIDE DEF q
<1>4. Since(q, t) = Since(hs, t) \union {Len(hs) + 1} /\ Len(hs) + 1 \notin Since(hs, t)
  BY <1>1, <1>2, <1>3 DEF Since
<1>5. IsFiniteSet(Since(hs, t)) /\ Cardinality(Since(hs, t)) \in Nat
  BY SinceFinite
<1>6. Cardinality(Since(q, t)) = Cardinality(Since(hs, t)) + 1
  BY <1>4, <1>5, FS_AddElement
<1> QED
  BY <1>6 DEF q

\* What RateInv says of the requests that were let through.
HitsOK ==
  PerMinute > 0 =>
    \A t \in clock - Window + 1 .. clock :
      Cardinality(PassedSince(t)) <= Cardinality(Since(hits, t))

PassedOK ==
  /\ IsFiniteSet(Passed)
  /\ \A r \in Requests : /\ pc[r] = "new" => passed[r] = Never
                         /\ passed[r] # Never => passed[r] <= clock

\* Those let through from t on, for as long as the window.
PassedIn(t) == {r \in Requests : passed[r] \in t .. t + Window - 1}

LEMMA RateFacts ==
  ASSUME BasicInv
  PROVE  /\ QuotaTypeOK /\ hits \in Seq(0..MaxClock)
         /\ clock \in 0..MaxClock /\ clock \in Nat /\ 0..MaxClock \subseteq Nat
         /\ PerMinute \in Nat /\ Window \in Nat \ {0} /\ Never \notin Int
         /\ passed \in [Requests -> 0..MaxClock \union {Never}]
         /\ pc \in [Requests -> PCs]
         /\ \A r \in Passed : r \in Requests /\ passed[r] \in Nat
<1>1. /\ QuotaTypeOK /\ hits \in Seq(0..MaxClock) /\ clock \in 0..MaxClock
      /\ passed \in [Requests -> 0..MaxClock \union {Never}] /\ pc \in [Requests -> PCs]
  BY BasicIs DEF QuotaFinite, QuotaTypeOK, RestOK
<1>2. /\ PerMinute \in Nat /\ Window \in Nat \ {0} /\ Never \notin Int /\ MaxClock \in Nat
  BY QuotaAssumption
<1>3. clock \in Nat /\ 0..MaxClock \subseteq Nat
  BY <1>1, <1>2
<1>4. \A r \in Passed : r \in Requests /\ passed[r] \in Nat
  BY <1>1, <1>3 DEF Passed
<1> QED
  BY <1>1, <1>2, <1>3, <1>4

LEMMA PassedFinite ==
  ASSUME IsFiniteSet(Passed), NEW t
  PROVE  IsFiniteSet(PassedSince(t)) /\ Cardinality(PassedSince(t)) \in Nat
BY FS_Subset, FS_CardinalityType DEF PassedSince

LEMMA PassedInFinite ==
  ASSUME BasicInv, IsFiniteSet(Passed), NEW t \in Int
  PROVE  /\ IsFiniteSet(PassedIn(t)) /\ Cardinality(PassedIn(t)) \in Nat
         /\ PassedIn(t) \subseteq PassedSince(t)
<1>1. PassedIn(t) \subseteq PassedSince(t)
  BY RateFacts DEF PassedIn, PassedSince, Passed
<1> QED
  BY <1>1, PassedFinite, FS_Subset, FS_CardinalityType

\* One more is let through.
LEMMA PassRate ==
  ASSUME RateInv, PerMinute > 0, NEW r \in Requests, pc[r] = "new", UnderRate,
         hits' = Append(Live, clock), passed' = [passed EXCEPT ![r] = clock],
         clock' = clock, pc'[r] # "new", \A q \in Requests \ {r} : pc'[q] = pc[q]
  PROVE  PassedOK' /\ HitsOK' /\ RateHeld'
<1>0. BasicInv /\ PassedOK /\ HitsOK /\ RateHeld
  BY DEF RateInv, PassedOK, HitsOK
<1>1. /\ clock \in 0..MaxClock /\ clock \in Nat /\ 0..MaxClock \subseteq Nat
      /\ PerMinute \in Nat /\ Window \in Nat \ {0} /\ Never \notin Int
      /\ passed \in [Requests -> 0..MaxClock \union {Never}]
      /\ QuotaTypeOK
  BY <1>0, RateFacts
<1>2. /\ passed[r] = Never /\ passed'[r] = clock
      /\ \A q \in Requests \ {r} : passed'[q] = passed[q]
  BY <1>0, <1>1 DEF PassedOK
<1>3. Passed' = Passed \union {r}
  BY <1>1, <1>2 DEF Passed
<1>4. IsFiniteSet(Passed) /\ IsFiniteSet(Passed')
  BY <1>0, <1>3, FS_AddElement DEF PassedOK
<1>5. PassedOK'
  BY <1>0, <1>1, <1>2, <1>4 DEF PassedOK
<1>6. Live \in Seq(0..MaxClock) /\ Len(Live) < PerMinute
  BY <1>1, LiveType DEF UnderRate
<1>7. ASSUME NEW t \in clock - Window + 1 .. clock
      PROVE  /\ Cardinality(PassedSince(t)) <= Cardinality(Since(Live, t))
             /\ Cardinality(PassedSince(t)) < PerMinute
             /\ t \in Int /\ t <= clock
  <2>1. t \in Int /\ t <= clock
    BY <1>1
  <2>2. Cardinality(PassedSince(t)) <= Cardinality(Since(hits, t))
    BY <1>0 DEF HitsOK
  <2>3. Cardinality(Since(hits, t)) <= Cardinality(Since(Live, t))
    BY <1>1, LiveKeeps
  <2>4. /\ Cardinality(Since(Live, t)) \in Nat /\ Cardinality(Since(Live, t)) <= Len(Live)
        /\ Cardinality(Since(hits, t)) \in Nat /\ Cardinality(PassedSince(t)) \in Nat
        /\ Len(Live) \in Nat
    BY <1>4, <1>6, SinceFinite, PassedFinite, RateFacts, <1>0
  <2> QED
    BY <1>1, <1>6, <2>1, <2>2, <2>3, <2>4
<1>8. HitsOK'
  <2> SUFFICES ASSUME NEW t \in clock - Window + 1 .. clock
      PROVE  Cardinality(PassedSince(t)') <= Cardinality(Since(hits', t))
    BY DEF HitsOK, Since
  <2>1. PassedSince(t)' = PassedSince(t) \union {r} /\ r \notin PassedSince(t)
    BY <1>1, <1>2, <1>3, <1>7 DEF PassedSince, Passed
  <2>2. Cardinality(PassedSince(t)') = Cardinality(PassedSince(t)) + 1
    BY <1>4, <2>1, PassedFinite, FS_AddElement
  <2>3. Cardinality(Since(hits', t)) = Cardinality(Since(Live, t)) + 1
    BY <1>1, <1>6, <1>7, HitAtEnd
  <2>4. Cardinality(PassedSince(t)) \in Nat /\ Cardinality(Since(Live, t)) \in Nat
    BY <1>4, <1>6, PassedFinite, SinceFinite
  <2> QED
    BY <1>7, <2>2, <2>3, <2>4
<1>9. RateHeld'
  <2> SUFFICES ASSUME NEW t \in 0..MaxClock
      PROVE  Cardinality(PassedIn(t)') <= PerMinute
    BY DEF RateHeld, PassedIn
  <2>1. /\ t \in Int /\ IsFiniteSet(PassedIn(t)) /\ Cardinality(PassedIn(t)) \in Nat
        /\ PassedIn(t) \subseteq PassedSince(t)
    BY <1>0, <1>1, <1>4, PassedInFinite
  <2>2. CASE clock \in t .. t + Window - 1
    <3>1. PassedIn(t)' = PassedIn(t) \union {r}
      BY <1>1, <1>2, <2>2 DEF PassedIn
    <3>2. Cardinality(PassedIn(t)') <= Cardinality(PassedIn(t)) + 1
      <4>1. Cardinality(PassedIn(t) \union {r}) \in {Cardinality(PassedIn(t)),
                                                     Cardinality(PassedIn(t)) + 1}
        BY <2>1, FS_AddElement
      <4> QED
        BY <2>1, <3>1, <4>1
    <3>3. t \in clock - Window + 1 .. clock
      BY <1>1, <2>1, <2>2
    <3>4. Cardinality(PassedIn(t)) <= Cardinality(PassedSince(t))
      BY <1>4, <2>1, PassedFinite, FS_Subset
    <3>5. Cardinality(PassedSince(t)) \in Nat /\ Cardinality(PassedIn(t)') \in Nat
      BY <1>4, <2>1, <3>1, PassedFinite, FS_AddElement, FS_CardinalityType
    <3> QED
      BY <1>1, <1>7, <2>1, <3>2, <3>3, <3>4, <3>5
  <2>3. CASE clock \notin t .. t + Window - 1
    <3>1. PassedIn(t)' = PassedIn(t)
      BY <1>1, <1>2, <2>1, <2>3 DEF PassedIn
    <3>2. Cardinality(PassedIn(t)) <= PerMinute
      BY <1>0 DEF RateHeld, PassedIn
    <3> QED
      BY <3>1, <3>2
  <2> QED
    BY <2>2, <2>3
<1> QED
  BY <1>5, <1>8, <1>9

\* None is let through: the deque keeps what counts.
LEMMA NoPassRate ==
  ASSUME RateInv, passed' = passed, clock' = clock, hits' \in {hits, Live},
         \A r \in Requests : pc'[r] = "new" => pc[r] = "new"
  PROVE  PassedOK' /\ HitsOK' /\ RateHeld'
<1>0. BasicInv /\ PassedOK /\ HitsOK /\ RateHeld
  BY DEF RateInv, PassedOK, HitsOK
<1>1. QuotaTypeOK /\ hits \in Seq(0..MaxClock) /\ Live \in Seq(0..MaxClock)
  BY <1>0, RateFacts, LiveType
<1>2. Passed' = Passed
  BY DEF Passed
<1>3. PassedOK'
  BY <1>0, <1>2 DEF PassedOK
<1>4. HitsOK'
  <2> SUFFICES ASSUME PerMinute > 0, NEW t \in clock - Window + 1 .. clock
      PROVE  Cardinality(PassedSince(t)') <= Cardinality(Since(hits', t))
    BY DEF HitsOK, Since
  <2>1. PassedSince(t)' = PassedSince(t)
    BY <1>2 DEF PassedSince
  <2>2. Cardinality(PassedSince(t)) <= Cardinality(Since(hits, t))
    BY <1>0 DEF HitsOK
  <2>3. Cardinality(Since(hits, t)) <= Cardinality(Since(Live, t))
    BY <1>1, LiveKeeps
  <2>4. /\ Cardinality(PassedSince(t)) \in Nat /\ Cardinality(Since(hits, t)) \in Nat
        /\ Cardinality(Since(Live, t)) \in Nat
    BY <1>0, <1>1, PassedFinite, SinceFinite DEF PassedOK
  <2> QED
    BY <2>1, <2>2, <2>3, <2>4
<1>5. RateHeld'
  BY <1>0 DEF RateHeld
<1> QED
  BY <1>3, <1>4, <1>5

LEMMA AdmitRate ==
  ASSUME RateInv, NEW r \in Requests, Admit(r)
  PROVE  PassedOK' /\ HitsOK' /\ RateHeld'
<1>0. BasicInv /\ RateHeld /\ PassedOK
  BY DEF RateInv, PassedOK
<1>1. /\ pc[r] = "new" /\ clock' = clock /\ Hit(UnderRate)
      /\ passed' = IF UnderRate THEN [passed EXCEPT ![r] = clock] ELSE passed
      /\ pc' = [pc EXCEPT ![r] = IF UnderRate /\ UnderQuota THEN "admitted" ELSE "refused"]
  BY DEF Admit, Goto
<1>2. /\ pc'[r] # "new" /\ \A q \in Requests \ {r} : pc'[q] = pc[q]
      /\ \A q \in Requests : pc'[q] = "new" => pc[q] = "new"
  BY <1>0, <1>1, RateFacts
<1>3. CASE ~UnderRate
  BY <1>1, <1>2, <1>3, NoPassRate DEF Hit
<1>4. CASE UnderRate /\ PerMinute > 0
  <2>1. PerMinute # 0
    BY <1>4, QuotaAssumption
  <2>2. hits' = Append(Live, clock)
    BY <1>1, <1>4, <2>1 DEF Hit
  <2>3. passed' = [passed EXCEPT ![r] = clock]
    BY <1>1, <1>4
  <2> QED
    BY <1>1, <1>2, <1>4, <2>2, <2>3, PassRate
<1>5. CASE UnderRate /\ PerMinute = 0
  <2>1. ~(PerMinute > 0)
    BY <1>5
  <2>2. HitsOK' /\ RateHeld'
    BY <2>1 DEF HitsOK, RateHeld
  <2>3. Passed' \subseteq Passed \union {r}
    BY <1>1 DEF Passed
  <2>4. IsFiniteSet(Passed')
    BY <1>0, <2>3, FS_AddElement, FS_Subset DEF PassedOK
  <2>5. \A q \in Requests : passed'[q] = IF q = r THEN clock ELSE passed[q]
    BY <1>0, <1>1, <1>5, RateFacts
  <2>6. clock <= clock
    BY <1>0, RateFacts
  <2>7. PassedOK'
    BY <1>0, <1>1, <1>2, <2>4, <2>5, <2>6 DEF PassedOK
  <2> QED
    BY <2>2, <2>7
<1>6. PerMinute \in Nat
  BY QuotaAssumption
<1> QED
  BY <1>3, <1>4, <1>5, <1>6

LEMMA TickRate ==
  ASSUME RateInv, Tick, UNCHANGED <<pc, process>>
  PROVE  PassedOK' /\ HitsOK' /\ RateHeld'
<1>0. BasicInv /\ PassedOK /\ HitsOK /\ RateHeld
  BY DEF RateInv, PassedOK, HitsOK
<1>1. clock' = clock + 1 /\ hits' = hits /\ passed' = passed /\ pc' = pc
  BY DEF Tick, process
<1>2. /\ clock \in Nat /\ Window \in Nat \ {0} /\ hits \in Seq(0..MaxClock)
      /\ \A r \in Passed : r \in Requests /\ passed[r] \in Nat
  BY <1>0, RateFacts
<1>3. Passed' = Passed
  BY <1>1 DEF Passed
<1>4. \A r \in Passed : passed[r] <= clock + 1 /\ passed[r] < clock + 1
  BY <1>0, <1>2 DEF PassedOK, Passed
<1>5. PassedOK'
  <2>1. \A r \in Requests : passed[r] # Never => passed[r] <= clock + 1
    BY <1>4 DEF Passed
  <2> QED
    BY <1>0, <1>1, <1>3, <2>1 DEF PassedOK
<1>6. HitsOK'
  <2> SUFFICES ASSUME PerMinute > 0, NEW t \in clock' - Window + 1 .. clock'
      PROVE  Cardinality(PassedSince(t)') <= Cardinality(Since(hits', t))
    BY DEF HitsOK, Since
  <2>0. PassedSince(t)' = PassedSince(t) /\ hits' = hits
    BY <1>1, <1>3 DEF PassedSince
  <2>1. CASE t \in clock - Window + 1 .. clock
    BY <1>0, <2>0, <2>1 DEF HitsOK
  <2>2. CASE t = clock + 1
    <3>1. PassedSince(t) = {}
      BY <1>2, <1>4, <2>2 DEF PassedSince
    <3>2. Cardinality(PassedSince(t)) = 0 /\ Cardinality(Since(hits, t)) \in Nat
      BY <1>2, <3>1, FS_EmptySet, SinceFinite
    <3> QED
      BY <2>0, <3>2
  <2> QED
    BY <1>1, <1>2, <2>1, <2>2
<1>7. RateHeld'
  BY <1>0, <1>1 DEF RateHeld
<1> QED
  BY <1>5, <1>6, <1>7

\* A new process starts with an empty deque, and has let no one through.
LEMMA EmptyRate ==
  ASSUME BasicInv, hits = <<>>, passed = [r \in Requests |-> Never]
  PROVE  PassedOK /\ HitsOK /\ RateHeld
<1>0. /\ PerMinute \in Nat /\ Never \notin Int /\ <<>> \in Seq(0..MaxClock)
  BY RateFacts
<1>1. Passed = {} /\ IsFiniteSet(Passed)
  BY FS_EmptySet DEF Passed
<1>2. PassedOK
  BY <1>1 DEF PassedOK, Passed
<1>3. \A t : PassedSince(t) = {} /\ Cardinality(PassedSince(t)) = 0
  BY <1>1, FS_EmptySet DEF PassedSince
<1>4. \A t : Cardinality(Since(hits, t)) \in Nat
  BY <1>0, SinceFinite
<1>5. HitsOK
  BY <1>3, <1>4 DEF HitsOK
<1>6. ASSUME NEW t \in 0..MaxClock
      PROVE  Cardinality({r \in Requests : passed[r] \in t .. t + Window - 1}) = 0
  <2>1. \A i \in t .. t + Window - 1 : i \in Int
    OBVIOUS
  <2>2. {r \in Requests : passed[r] \in t .. t + Window - 1} = {}
    BY <1>0, <2>1
  <2> QED
    BY <2>2, FS_EmptySet
<1>7. RateHeld
  BY <1>0, <1>6 DEF RateHeld
<1> QED
  BY <1>2, <1>5, <1>7

LEMMA RateStep ==
  ASSUME RateInv, BasicInv', [Next]_vars
  PROVE  PassedOK' /\ HitsOK' /\ RateHeld'
<1>1. CASE UNCHANGED vars
  BY <1>1, NoPassRate DEF vars, quota, process
<1>2. CASE Tick /\ UNCHANGED <<upstream, pc, process>>
  BY <1>2, TickRate
<1>3. CASE Takeover
  <2>1. (hits = <<>> /\ passed = [r \in Requests |-> Never])'
    BY <1>3 DEF Takeover
  <2> QED
    BY <2>1, EmptyRate, PTL
<1>4. CASE Boot
  BY <1>4, NoPassRate DEF Boot
<1>5. CASE Crash
  <2>1. \A r \in Requests : pc'[r] = "new" => pc[r] = "new"
    BY <1>5 DEF Crash
  <2> QED
    BY <1>5, <2>1, NoPassRate DEF Crash
<1>6. ASSUME NEW r \in Requests, Admit(r)
      PROVE  PassedOK' /\ HitsOK' /\ RateHeld'
  BY <1>6, AdmitRate
<1>7. ASSUME NEW r \in Requests, Write(r) /\ UNCHANGED <<upstream, pc, process>>
      PROVE  PassedOK' /\ HitsOK' /\ RateHeld'
  BY <1>7, NoPassRate DEF Write, process
<1>8. ASSUME NEW r \in Requests,
             \/ NoModel(r) \/ Reject(r) \/ TakePlace(r) \/ TurnAway(r) \/ TooLong(r)
             \/ Send(r) \/ Upstreaming(r) \/ Answered(r) \/ EndOfBody(r) \/ Embedded(r)
             \/ HangUp(r)
      PROVE  PassedOK' /\ HitsOK' /\ RateHeld'
  <2>1. UNCHANGED <<clock, hits, passed>>
    BY <1>8 DEF NoModel, Reject, TakePlace, TurnAway, TooLong, Send, Upstreaming, Answered,
                EndOfBody, Embedded, HangUp, Finish, quota, process
  <2>2. pc' = pc \/ \E x \in PCs \ {"new"} : pc' = [pc EXCEPT ![r] = x]
    BY <1>8 DEF NoModel, Reject, TakePlace, TurnAway, TooLong, Send, Upstreaming, Answered,
                EndOfBody, Embedded, HangUp, Finish, Goto, PCs, Ended
  <2>3. \A q \in Requests : pc'[q] = "new" => pc[q] = "new"
    BY <2>2, RateFacts DEF RateInv
  <2> QED
    BY <2>1, <2>3, NoPassRate
<1> QED
  BY <1>1, <1>2, <1>3, <1>4, <1>5, <1>6, <1>7, <1>8 DEF Next

\* A process lets no more than PerMinute requests of a key through in any
\* stretch of time as long as the window.
THEOREM RequestRateHeld == Spec => []RateHeld
<1>1. Init => RateInv
  <2> SUFFICES ASSUME Init PROVE RateInv
    OBVIOUS
  <2>1. hits = <<>> /\ passed = [r \in Requests |-> Never]
    BY DEF Init, QuotaInit
  <2>2. PassedOK /\ HitsOK /\ RateHeld
    BY <2>1, BasicInit, EmptyRate
  <2> QED
    BY <2>2, BasicInit DEF RateInv, PassedOK, HitsOK
<1>2. CallsInv' => UpstreamTypeOK'
  BY DEF CallsInv
<1>3. RateInv => BasicInv
  BY DEF RateInv
<1>4. BasicInv' /\ PassedOK' /\ HitsOK' /\ RateHeld' => RateInv'
  BY DEF RateInv, PassedOK, HitsOK
<1>5. RateInv /\ CallsInv' /\ [Next]_vars => RateInv'
  BY <1>2, <1>3, <1>4, BasicStep, RateStep
<1>6. RateInv => RateHeld
  BY DEF RateInv
<1> QED
  BY <1>1, <1>5, <1>6, RequestCalls, PTL DEF Spec
=============================================================================
