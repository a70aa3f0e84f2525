----------------------------- MODULE GateProofs -----------------------------
(***************************************************************************)
(* The safety of the admission gate for any number of requests, any limits *)
(* and any capacity.                                                       *)
(***************************************************************************)
EXTENDS Gate, FiniteSetTheorems, SequenceTheorems, TLAPS

-----------------------------------------------------------------------------
(* Sequences without repetitions. *)

Injective(s) == \A i, j \in DOMAIN s : s[i] = s[j] => i = j

(* What is left of a sequence once its first k elements are gone. *)
LEMMA SuffixProperties ==
  ASSUME NEW S, NEW s \in Seq(S), NEW k \in 0..Len(s)
  PROVE  /\ SubSeq(s, k + 1, Len(s)) \in Seq(S)
         /\ Len(SubSeq(s, k + 1, Len(s))) = Len(s) - k
         /\ \A j \in 1..(Len(s) - k) : SubSeq(s, k + 1, Len(s))[j] = s[k + j]
<1> DEFINE rest == SubSeq(s, k + 1, Len(s))
<1>1. Len(s) \in Nat /\ k \in Int /\ k + 1 \in Int
  BY LenProperties
<1>2. \A j \in (k + 1)..Len(s) : s[j] \in S
  BY <1>1, ElementOfSeq
<1>3. /\ rest \in Seq(S)
      /\ Len(rest) = IF k + 1 <= Len(s) THEN Len(s) - (k + 1) + 1 ELSE 0
      /\ \A j \in 1..(Len(s) - (k + 1) + 1) : rest[j] = s[(k + 1) + j - 1]
  BY <1>1, <1>2, SubSeqProperties
<1> HIDE DEF rest
<1>4. Len(rest) = Len(s) - k
  BY <1>1, <1>3
<1>5. ASSUME NEW j \in 1..(Len(s) - k)
      PROVE  rest[j] = s[k + j]
  <2>1. j \in 1..(Len(s) - (k + 1) + 1) /\ (k + 1) + j - 1 = k + j
    BY <1>1
  <2>2. QED
    BY <1>3, <2>1
<1>6. QED
  BY <1>3, <1>4, <1>5 DEF rest

(* Removing the i-th element of a sequence without repetitions removes     *)
(* that element from its range and keeps the rest without repetitions.     *)
LEMMA RemoveAtProperties ==
  ASSUME NEW S, NEW s \in Seq(S), Injective(s), NEW i \in 1..Len(s)
  PROVE  /\ RemoveAt(s, i) \in Seq(S)
         /\ Len(RemoveAt(s, i)) = Len(s) - 1
         /\ Injective(RemoveAt(s, i))
         /\ ToSet(RemoveAt(s, i)) = ToSet(s) \ {s[i]}
<1> DEFINE a == SubSeq(s, 1, i - 1)
           b == SubSeq(s, i + 1, Len(s))
           t == RemoveAt(s, i)
<1>1. /\ Len(s) \in Nat
      /\ DOMAIN s = 1..Len(s)
      /\ \A j \in 1..Len(s) : s[j] \in S
  BY LenProperties, ElementOfSeq
<1>2. /\ a \in Seq(S)
      /\ Len(a) = i - 1
      /\ \A j \in 1..(i - 1) : a[j] = s[j]
  <2>1. \A j \in 1..(i - 1) : s[j] \in S
    BY <1>1
  <2>2. i - 1 \in Int /\ 1 \in Int
    BY <1>1
  <2>3. QED
    BY <2>1, <2>2, SubSeqProperties
<1>3. /\ b \in Seq(S)
      /\ Len(b) = Len(s) - i
      /\ \A j \in 1..(Len(s) - i) : b[j] = s[i + j]
  <2>1. i \in 0..Len(s)
    BY <1>1
  <2>2. QED
    BY <2>1, SuffixProperties
<1>4. t = a \o b
  BY DEF RemoveAt
<1>5. /\ t \in Seq(S)
      /\ Len(t) = Len(s) - 1
      /\ \A j \in 1..(Len(s) - 1) : t[j] = IF j < i THEN s[j] ELSE s[j + 1]
  <2>1. /\ a \o b \in Seq(S)
        /\ Len(a \o b) = Len(a) + Len(b)
        /\ \A j \in 1..(Len(a) + Len(b)) :
             (a \o b)[j] = IF j <= Len(a) THEN a[j] ELSE b[j - Len(a)]
    BY <1>2, <1>3, ConcatProperties
  <2> HIDE DEF a, b, t
  <2>2. Len(a) + Len(b) = Len(s) - 1
    BY <1>1, <1>2, <1>3
  <2>3. ASSUME NEW j \in 1..(Len(s) - 1), j < i
        PROVE  t[j] = s[j]
    BY <1>1, <1>2, <1>4, <2>1, <2>2, <2>3
  <2>4. ASSUME NEW j \in 1..(Len(s) - 1), ~(j < i)
        PROVE  t[j] = s[j + 1]
    <3>1. j - (i - 1) \in 1..(Len(s) - i) /\ i + (j - (i - 1)) = j + 1
      BY <1>1, <2>4
    <3>2. t[j] = b[j - (i - 1)]
      BY <1>1, <1>2, <1>4, <2>1, <2>2, <2>4
    <3>3. QED
      BY <1>3, <3>1, <3>2
  <2>5. QED
    BY <1>4, <2>1, <2>2, <2>3, <2>4
<1>6. DOMAIN t = 1..(Len(s) - 1)
  BY <1>5, LenProperties
<1>7. Injective(t)
  <2> HIDE DEF a, b, t
  <2>1. SUFFICES ASSUME NEW m \in 1..(Len(s) - 1), NEW n \in 1..(Len(s) - 1),
                        t[m] = t[n]
                 PROVE  m = n
    BY <1>6 DEF Injective
  <2> DEFINE at(x) == IF x < i THEN x ELSE x + 1
  <2>2. at(m) \in 1..Len(s) /\ at(n) \in 1..Len(s)
    BY <1>1
  <2>3. t[m] = s[at(m)] /\ t[n] = s[at(n)]
    BY <1>5
  <2>4. at(m) = at(n)
    <3> HIDE DEF at
    <3>1. QED
      BY <1>1, <2>1, <2>2, <2>3 DEF Injective
  <2>5. QED
    BY <1>1, <2>4
<1>8. ToSet(t) = ToSet(s) \ {s[i]}
  <2> HIDE DEF a, b, t
  <2>1. ASSUME NEW j \in 1..(Len(s) - 1) PROVE t[j] \in ToSet(s) \ {s[i]}
    <3>1. CASE j < i
      <4>1. j \in 1..Len(s) /\ j # i /\ t[j] = s[j]
        BY <1>1, <1>5, <3>1
      <4>2. QED
        BY <1>1, <4>1 DEF ToSet, Injective
    <3>2. CASE ~(j < i)
      <4>1. j + 1 \in 1..Len(s) /\ j + 1 # i /\ t[j] = s[j + 1]
        BY <1>1, <1>5, <3>2
      <4>2. QED
        BY <1>1, <4>1 DEF ToSet, Injective
    <3>3. QED
      BY <3>1, <3>2
  <2>2. ASSUME NEW j \in 1..Len(s), j # i PROVE s[j] \in ToSet(t)
    <3>1. CASE j < i
      <4>1. j \in 1..(Len(s) - 1) /\ t[j] = s[j]
        BY <1>1, <1>5, <3>1
      <4>2. QED
        BY <1>6, <4>1 DEF ToSet
    <3>2. CASE j > i
      <4>1. j - 1 \in 1..(Len(s) - 1) /\ ~(j - 1 < i) /\ (j - 1) + 1 = j
        BY <1>1, <3>2
      <4>2. t[j - 1] = s[j]
        BY <1>5, <4>1
      <4>3. QED
        BY <1>6, <4>1, <4>2 DEF ToSet
    <3>3. QED
      BY <2>2, <3>1, <3>2
  <2>3. ToSet(t) \subseteq ToSet(s) \ {s[i]}
    BY <1>6, <2>1 DEF ToSet
  <2>4. ToSet(s) \ {s[i]} \subseteq ToSet(t)
    BY <1>1, <2>2 DEF ToSet
  <2>5. QED
    BY <2>3, <2>4
<1>9. QED
  BY <1>5, <1>7, <1>8

First(s, k) == {s[i] : i \in 1..k}

(* The rest of a sequence without repetitions once its first k elements    *)
(* are gone, and how many elements those were.                             *)
LEMMA PrefixProperties ==
  ASSUME NEW S, NEW s \in Seq(S), Injective(s), NEW k \in 0..Len(s)
  PROVE  /\ Injective(SubSeq(s, k + 1, Len(s)))
         /\ ToSet(SubSeq(s, k + 1, Len(s))) = ToSet(s) \ First(s, k)
         /\ First(s, k) \subseteq ToSet(s)
         /\ IsFiniteSet(First(s, k))
         /\ Cardinality(First(s, k)) = k
<1> DEFINE rest  == SubSeq(s, k + 1, Len(s))
           first == {s[i] : i \in 1..k}
<1>1. /\ Len(s) \in Nat
      /\ DOMAIN s = 1..Len(s)
      /\ \A j \in 1..Len(s) : s[j] \in S
  BY LenProperties, ElementOfSeq
<1>2. /\ rest \in Seq(S)
      /\ Len(rest) = Len(s) - k
      /\ \A j \in 1..(Len(s) - k) : rest[j] = s[k + j]
  BY SuffixProperties
<1>3. DOMAIN rest = 1..(Len(s) - k)
  BY <1>2, LenProperties
<1>4. Injective(rest)
  <2> HIDE DEF rest, first
  <2>1. SUFFICES ASSUME NEW a \in 1..(Len(s) - k), NEW b \in 1..(Len(s) - k),
                        rest[a] = rest[b]
                 PROVE  a = b
    BY <1>3 DEF Injective
  <2>2. k + a \in 1..Len(s) /\ k + b \in 1..Len(s)
    BY <1>1
  <2>3. s[k + a] = s[k + b]
    BY <1>2, <2>1
  <2>4. k + a = k + b
    BY <1>1, <2>2, <2>3 DEF Injective
  <2>5. QED
    BY <2>4
<1>5. ToSet(rest) = ToSet(s) \ first
  <2> HIDE DEF rest
  <2>1. ASSUME NEW j \in 1..(Len(s) - k)
        PROVE  rest[j] \in ToSet(s) \ first
    <3>1. k + j \in 1..Len(s) /\ k + j \notin 1..k /\ rest[j] = s[k + j]
      BY <1>1, <1>2
    <3>2. QED
      BY <1>1, <3>1 DEF ToSet, Injective
  <2>2. ASSUME NEW j \in 1..Len(s), s[j] \notin first
        PROVE  s[j] \in ToSet(rest)
    <3>1. j - k \in 1..(Len(s) - k) /\ k + (j - k) = j
      BY <1>1, <2>2
    <3>2. rest[j - k] = s[j]
      BY <1>2, <3>1
    <3>3. QED
      BY <1>3, <3>1, <3>2 DEF ToSet
  <2>3. QED
    BY <1>1, <1>3, <2>1, <2>2 DEF ToSet
<1>6. first \subseteq ToSet(s)
  <2>1. 1..k \subseteq DOMAIN s
    BY <1>1
  <2>2. QED
    BY <2>1 DEF ToSet
<1>7. IsFiniteSet(first) /\ Cardinality(first) = k
  <2> DEFINE f == [i \in 1..k |-> s[i]]
  <2>1. f \in Bijection(1..k, first)
    BY <1>1 DEF Injective, Bijection, Injection, Surjection, IsInjective
  <2>2. IsFiniteSet(1..k) /\ Cardinality(1..k) = k
    BY <1>1, FS_Interval
  <2>3. QED
    BY <2>1, <2>2, FS_Bijection DEF ExistsBijection
<1>8. QED
  BY <1>4, <1>5, <1>6, <1>7 DEF First

-----------------------------------------------------------------------------
(* Counting the requests that are in one of a set of states. *)

Count(p, C) == Cardinality({q \in Requests : p[q] \in C})

LEMMA CountType ==
  ASSUME NEW p, NEW C
  PROVE  IsFiniteSet({q \in Requests : p[q] \in C}) /\ Count(p, C) \in Nat
<1>1. IsFiniteSet({q \in Requests : p[q] \in C})
  <2>1. {q \in Requests : p[q] \in C} \in SUBSET Requests
    OBVIOUS
  <2>2. QED
    BY <2>1, GateAssumption, FS_Subset DEF GateAssumption
<1>2. QED
  BY <1>1, FS_CardinalityType DEF Count

LEMMA CountSubset ==
  ASSUME NEW p, NEW C, NEW D, C \subseteq D
  PROVE  Count(p, C) <= Count(p, D)
<1> DEFINE A == {q \in Requests : p[q] \in C}
           B == {q \in Requests : p[q] \in D}
<1>1. A \in SUBSET B
  OBVIOUS
<1>2. IsFiniteSet(B)
  BY CountType
<1>3. Count(p, C) = Cardinality(A) /\ Count(p, D) = Cardinality(B)
  BY DEF Count
<1> HIDE DEF A, B
<1>4. QED
  BY <1>1, <1>2, <1>3, FS_Subset

(* One request moves from its state to another. *)
LEMMA CountMove ==
  ASSUME NEW p, NEW r \in Requests, NEW to, NEW C,
         NEW n, \A q \in Requests : n[q] = IF q = r THEN to ELSE p[q]
  PROVE  Count(n, C) =
           Count(p, C) + (IF to \in C THEN 1 ELSE 0) - (IF p[r] \in C THEN 1 ELSE 0)
<1> DEFINE A == {q \in Requests : p[q] \in C}
           B == {q \in Requests : n[q] \in C}
<1>0. IsFiniteSet(A)
  BY CountType
<1>0a. Count(p, C) = Cardinality(A) /\ Count(n, C) = Cardinality(B)
  BY DEF Count
<1>1. IsFiniteSet(A) /\ IsFiniteSet(A \ {r}) /\ Cardinality(A) \in Nat
  BY <1>0, FS_RemoveElement, FS_CardinalityType
<1>2. Cardinality(A \ {r}) = Cardinality(A) - (IF p[r] \in C THEN 1 ELSE 0)
  BY <1>1, FS_RemoveElement
<1>3. CASE to \in C
  <2>1. B = (A \ {r}) \union {r}
    BY <1>3
  <2>2. Cardinality(B) = Cardinality(A \ {r}) + 1
    BY <1>1, <2>1, FS_AddElement
  <2>3. QED
    BY <1>0a, <1>1, <1>2, <1>3, <2>2
<1>4. CASE to \notin C
  <2>1. B = A \ {r}
    BY <1>4
  <2> HIDE DEF A, B
  <2>2. Count(n, C) = Cardinality(A \ {r})
    BY <1>0a, <2>1
  <2>3. QED
    BY <1>0a, <1>1, <1>2, <1>4, <2>2
<1>5. QED
  BY <1>3, <1>4

(* A set of queued requests is woken. *)
LEMMA CountWake ==
  ASSUME NEW p, NEW W \in SUBSET Requests, \A q \in W : p[q] = "queued", NEW C,
         NEW n, \A q \in Requests : n[q] = IF q \in W THEN "woken" ELSE p[q]
  PROVE  Count(n, C) =
           Count(p, C) + (IF "woken" \in C THEN Cardinality(W) ELSE 0)
                       - (IF "queued" \in C THEN Cardinality(W) ELSE 0)
<1> DEFINE A == {q \in Requests : p[q] \in C}
           B == {q \in Requests : n[q] \in C}
<1>1. /\ IsFiniteSet(A) /\ IsFiniteSet(W)
      /\ Cardinality(A) \in Nat /\ Cardinality(W) \in Nat
  BY CountType, GateAssumption, FS_Subset, FS_CardinalityType DEF GateAssumption
<1>1a. Count(p, C) = Cardinality(A) /\ Count(n, C) = Cardinality(B)
  BY DEF Count
<1>2. CASE "woken" \in C /\ "queued" \in C
  <2>1. A = B
    BY <1>2
  <2> HIDE DEF A, B
  <2>2. Count(n, C) = Count(p, C)
    BY <1>1a, <2>1
  <2>3. QED
    BY <1>1, <1>2, <1>1a, <2>2
<1>3. CASE "woken" \in C /\ "queued" \notin C
  <2>1. B = A \union W /\ A \cap W = {}
    BY <1>3
  <2>2. Cardinality(B) = Cardinality(A) + Cardinality(W) - Cardinality({})
    BY <1>1, <2>1, FS_Union
  <2>3. QED
    BY <1>1, <1>3, <2>2, FS_EmptySet DEF Count
<1>4. CASE "woken" \notin C /\ "queued" \in C
  <2>1. A = B \union W /\ B \cap W = {} /\ IsFiniteSet(B)
    BY <1>4, CountType
  <2>2. Cardinality(A) = Cardinality(B) + Cardinality(W) - Cardinality({})
    BY <1>1, <2>1, FS_Union
  <2>3. Cardinality(B) \in Nat
    BY <2>1, FS_CardinalityType
  <2>4. QED
    BY <1>1, <1>4, <2>2, <2>3, FS_EmptySet DEF Count
<1>5. CASE "woken" \notin C /\ "queued" \notin C
  <2>1. A = B
    BY <1>5
  <2> HIDE DEF A, B
  <2>2. Count(n, C) = Count(p, C)
    BY <1>1a, <2>1
  <2>3. QED
    BY <1>1, <1>5, <1>1a, <2>2
<1>6. QED
  BY <1>2, <1>3, <1>4, <1>5

-----------------------------------------------------------------------------
(* The inductive invariant.  The counters are exact only together: `waiting` *)
(* and `in_flight` never go below zero because they count requests that are  *)
(* really there, and the line is bounded because `waiting` counts it.        *)

GateInv ==
  /\ TypeOK
  /\ LineIsTheWaiters
  /\ NoIdleSlotWhileQueued
  /\ PermitsAccounted
  /\ WaitingAccounted
  /\ InFlightExact
  /\ LineBounded

One(b) == IF b THEN 1 ELSE 0

(* What one request's move does to the counts of the invariant. *)
LEMMA MoveCounts ==
  ASSUME TypeOK, NEW r \in Requests, NEW to \in States, Goto(r, to)
  PROVE  /\ pc' \in [Requests -> States]
         /\ \A C \in {Holding, Placed, Placed \union {"overfull"}, {"running"}} :
              /\ Cardinality(At(C)) \in Nat
              /\ Cardinality(At(C))' =
                   Cardinality(At(C)) + One(to \in C) - One(pc[r] \in C)
         /\ Queued' = IF to = "queued" THEN Queued \union {r} ELSE Queued \ {r}
<1>1. DOMAIN pc = Requests /\ pc' = [pc EXCEPT ![r] = to]
  BY DEF TypeOK, Goto
<1>2. ASSUME NEW C
      PROVE  /\ Cardinality(At(C)) \in Nat
             /\ Cardinality(At(C))' =
                  Cardinality(At(C)) + One(to \in C) - One(pc[r] \in C)
  <2>1. Cardinality(At(C)) = Count(pc, C) /\ Cardinality(At(C))' = Count(pc', C)
    BY DEF At, Count
  <2>2. Count(pc', C) =
          Count(pc, C) + (IF to \in C THEN 1 ELSE 0) - (IF pc[r] \in C THEN 1 ELSE 0)
    <3>1. \A q \in Requests : pc'[q] = IF q = r THEN to ELSE pc[q]
      BY <1>1
    <3>2. QED
      BY <3>1, CountMove
  <2>3. Count(pc, C) \in Nat
    BY CountType
  <2>4. QED
    BY <2>1, <2>2, <2>3 DEF One
<1>3. pc' \in [Requests -> States]
  BY <1>1 DEF TypeOK
<1>4. Queued' = IF to = "queued" THEN Queued \union {r} ELSE Queued \ {r}
  BY <1>1 DEF Queued, At
<1>5. QED
  BY <1>2, <1>3, <1>4

(* What permits given to the semaphore do to them: the k oldest waiters    *)
(* become holders, and permits are left over only when nobody waits.       *)
LEMMA GiveCounts ==
  ASSUME TypeOK, LineIsTheWaiters, NEW r \in Requests, NEW n \in Nat,
         NEW to \in States, to # "queued", pc[r] # "queued",
         GivePermits(n, r, to)
  PROVE  /\ pc' \in [Requests -> States]
         /\ fifo' \in Seq(Requests)
         /\ LineIsTheWaiters'
         /\ \E k \in 0..n :
              /\ permits' = permits + (n - k)
              /\ Cardinality(At(Holding)) \in Nat
              /\ Cardinality(At(Holding))' = Cardinality(At(Holding)) + k
                   + One(to \in Holding) - One(pc[r] \in Holding)
              /\ Queued' # {} => k = n /\ Queued # {}
         /\ \A C \in {Placed, Placed \union {"overfull"}, {"running"}} :
              /\ Cardinality(At(C)) \in Nat
              /\ Cardinality(At(C))' =
                   Cardinality(At(C)) + One(to \in C) - One(pc[r] \in C)
<1>1. /\ fifo \in Seq(Requests) /\ Len(fifo) \in Nat /\ DOMAIN fifo = 1..Len(fifo)
      /\ DOMAIN pc = Requests
  BY LenProperties DEF TypeOK
<1>k. \E k \in Nat :
        /\ k <= Len(fifo) /\ k <= n
        /\ k # Len(fifo) => k = n
        /\ permits' = permits + (n - k)
        /\ fifo' = SubSeq(fifo, k + 1, Len(fifo))
        /\ pc' = [q \in Requests |->
                    IF q = r THEN to
                    ELSE IF \E i \in 1..k : fifo[i] = q THEN "woken"
                    ELSE pc[q]]
  <2> DEFINE m == IF n < Len(fifo) THEN n ELSE Len(fifo)
  <2>1. /\ m \in Nat /\ m <= Len(fifo) /\ m <= n
        /\ m # Len(fifo) => m = n
    BY <1>1
  <2>2. /\ permits' = permits + (n - m)
        /\ fifo' = SubSeq(fifo, m + 1, Len(fifo))
        /\ pc' = [q \in Requests |->
                    IF q = r THEN to
                    ELSE IF \E i \in 1..m : fifo[i] = q THEN "woken"
                    ELSE pc[q]]
    BY Zenon DEF GivePermits, Smaller
  <2> HIDE DEF m
  <2>3. QED
    BY <2>1, <2>2, Zenon
<1>4. PICK k \in Nat :
        /\ k <= Len(fifo) /\ k <= n
        /\ k # Len(fifo) => k = n
        /\ permits' = permits + (n - k)
        /\ fifo' = SubSeq(fifo, k + 1, Len(fifo))
        /\ pc' = [q \in Requests |->
                    IF q = r THEN to
                    ELSE IF \E i \in 1..k : fifo[i] = q THEN "woken"
                    ELSE pc[q]]
  BY <1>k, Zenon
<1>4b. k \in Nat /\ k <= Len(fifo) /\ k <= n /\ (k # Len(fifo) => k = n)
  BY <1>4, Zenon
<1>4c. Len(fifo) \in Nat
  BY <1>1
<1>4a. k \in 0..Len(fifo) /\ k \in 0..n /\ (k # Len(fifo) => k = n)
  BY <1>4b, <1>4c
<1> DEFINE W == First(fifo, k)
           p == [pc EXCEPT ![r] = to]
<1>2. Injective(fifo) /\ ToSet(fifo) = Queued
  BY DEF LineIsTheWaiters, Injective
<1>3. /\ SubSeq(fifo, k + 1, Len(fifo)) \in Seq(Requests)
      /\ Len(SubSeq(fifo, k + 1, Len(fifo))) = Len(fifo) - k
      /\ Injective(SubSeq(fifo, k + 1, Len(fifo)))
      /\ ToSet(SubSeq(fifo, k + 1, Len(fifo))) = Queued \ W
      /\ W \subseteq Queued
      /\ Cardinality(W) = k
  <2>1. fifo \in Seq(Requests) /\ Injective(fifo) /\ k \in 0..Len(fifo)
    BY <1>1, <1>4a, <1>2
  <2>2. /\ SubSeq(fifo, k + 1, Len(fifo)) \in Seq(Requests)
        /\ Len(SubSeq(fifo, k + 1, Len(fifo))) = Len(fifo) - k
    BY <2>1, SuffixProperties
  <2>3. /\ Injective(SubSeq(fifo, k + 1, Len(fifo)))
        /\ ToSet(SubSeq(fifo, k + 1, Len(fifo))) = ToSet(fifo) \ W
        /\ W \subseteq ToSet(fifo)
        /\ IsFiniteSet(W)
        /\ Cardinality(W) = k
    BY <2>1, PrefixProperties
  <2>4. QED
    BY <1>2, <2>2, <2>3
<1>5. /\ W \in SUBSET Requests /\ r \notin W
      /\ \A q \in W : p[q] = "queued"
      /\ DOMAIN p = Requests
  BY <1>1, <1>3 DEF Queued, At
<1>6. pc' = [q \in Requests |-> IF q \in W THEN "woken" ELSE p[q]]
  BY <1>1, <1>4, <1>5 DEF First
<1>7. Queued' = Queued \ W
  BY <1>5, <1>6, <1>1 DEF Queued, At
<1>8. ASSUME NEW C
      PROVE  /\ Cardinality(At(C)) \in Nat
             /\ Cardinality(At(C))' =
                  Cardinality(At(C)) + One(to \in C) - One(pc[r] \in C)
                    + (IF "woken" \in C THEN k ELSE 0) - (IF "queued" \in C THEN k ELSE 0)
  <2>1. Cardinality(At(C)) = Count(pc, C) /\ Cardinality(At(C))' = Count(pc', C)
    BY DEF At, Count
  <2> HIDE DEF p, W
  <2>2. Count(pc', C) = Count(p, C) + (IF "woken" \in C THEN k ELSE 0)
                                    - (IF "queued" \in C THEN k ELSE 0)
    <3>1. \A q \in Requests : pc'[q] = IF q \in W THEN "woken" ELSE p[q]
      BY <1>6
    <3>2. QED
      BY <1>3, <1>5, <3>1, CountWake
  <2>3. Count(p, C) =
          Count(pc, C) + (IF to \in C THEN 1 ELSE 0) - (IF pc[r] \in C THEN 1 ELSE 0)
    <3>1. \A q \in Requests : p[q] = IF q = r THEN to ELSE pc[q]
      BY <1>1 DEF p
    <3>2. QED
      BY <3>1, CountMove
  <2>4. Count(pc, C) \in Nat
    BY CountType
  <2>5. QED
    BY <2>1, <2>2, <2>3, <2>4, <1>4a DEF One
<1>9. pc' \in [Requests -> States]
  BY <1>4 DEF TypeOK, States
<1>10. LineIsTheWaiters'
  BY <1>3, <1>4, <1>7 DEF LineIsTheWaiters, Injective
<1>11. Queued' # {} => k = n /\ Queued # {}
  <2>1. ASSUME k = Len(fifo) PROVE Queued' = {}
    <3>1. fifo' \in Seq(Requests) /\ Len(fifo') = 0
      BY <1>1, <1>3, <1>4, <2>1
    <3>2. DOMAIN fifo' = {}
      BY <3>1, LenProperties
    <3>3. QED
      BY <1>10, <3>2 DEF LineIsTheWaiters, ToSet
  <2>2. Queued = {} => Queued' = {}
    BY <1>7
  <2>3. QED
    BY <1>4a, <2>1, <2>2
<1> HIDE DEF W, p
<1>12. /\ Cardinality(At(Holding)) \in Nat
       /\ Cardinality(At(Holding))' = Cardinality(At(Holding)) + k
            + One(to \in Holding) - One(pc[r] \in Holding)
  <2>1. "woken" \in Holding /\ "queued" \notin Holding
    BY DEF Holding
  <2>2. /\ Cardinality(At(Holding)) \in Nat
        /\ Cardinality(At(Holding))' =
             Cardinality(At(Holding)) + One(to \in Holding) - One(pc[r] \in Holding)
               + k - 0
    BY <1>8, <2>1, Zenon
  <2>3. One(to \in Holding) \in Nat /\ One(pc[r] \in Holding) \in Nat
    BY DEF One
  <2>4. QED
    BY <1>4b, <2>2, <2>3
<1>13. ASSUME NEW C \in {Placed, Placed \union {"overfull"}, {"running"}}
       PROVE  /\ Cardinality(At(C)) \in Nat
              /\ Cardinality(At(C))' =
                   Cardinality(At(C)) + One(to \in C) - One(pc[r] \in C)
  <2>1. "woken" \in C <=> "queued" \in C
    BY DEF Placed
  <2>2. One(to \in C) \in Nat /\ One(pc[r] \in C) \in Nat
    BY DEF One
  <2>3. QED
    BY <1>4b, <1>8, <2>1, <2>2
<1>14. k \in 0..n
  BY <1>4a
<1>15. QED
  BY <1>14, <1>3, <1>4, <1>9, <1>10, <1>11, <1>12, <1>13

-----------------------------------------------------------------------------
LEMMA InitGate == Init => GateInv
<1> SUFFICES ASSUME Init PROVE GateInv
  OBVIOUS
<1>1. \A C \in {Holding, Placed, Placed \union {"overfull"}, {"running"}, {"queued"}} :
        At(C) = {} /\ Cardinality(At(C)) = 0
  <2>1. ASSUME NEW C \in {Holding, Placed, Placed \union {"overfull"}, {"running"}, {"queued"}}
        PROVE  At(C) = {}
    BY DEF Init, At, Holding, Placed
  <2>2. QED
    BY <2>1, FS_EmptySet
<1>2. AtLeastOne(configured) \in Nat
  BY GateAssumption DEF GateAssumption, Init, AtLeastOne
<1>3. TypeOK
  BY <1>2, GateAssumption DEF GateAssumption, Init, TypeOK, States
<1>4. LineIsTheWaiters /\ NoIdleSlotWhileQueued
  BY <1>1 DEF Init, LineIsTheWaiters, NoIdleSlotWhileQueued, Queued, ToSet
<1>5. PermitsAccounted /\ WaitingAccounted /\ InFlightExact /\ LineBounded
  BY <1>1, <1>2, GateAssumption
  DEF GateAssumption, Init, PermitsAccounted, WaitingAccounted, InFlightExact,
      LineBounded, Holders, InLine
<1>6. QED
  BY <1>3, <1>4, <1>5 DEF GateInv

(* What is left to show for a step that moves one request and leaves the   *)
(* semaphore's line alone.                                                 *)
LEMMA LineKept ==
  ASSUME TypeOK, LineIsTheWaiters, NEW r \in Requests, NEW to \in States,
         Goto(r, to), to # "queued", pc[r] # "queued", fifo' = fifo
  PROVE  LineIsTheWaiters' /\ Queued' = Queued
<1>1. Queued' = Queued
  BY MoveCounts DEF Queued, At
<1>2. QED
  BY <1>1 DEF LineIsTheWaiters

(* A waiter leaves the line. *)
LEMMA LineLeft ==
  ASSUME TypeOK, LineIsTheWaiters, NEW r \in Requests, NEW to \in States,
         Goto(r, to), to # "queued", LeaveFifo(r)
  PROVE  fifo' \in Seq(Requests) /\ LineIsTheWaiters' /\ Queued' = Queued \ {r}
<1>1. PICK i \in 1..Len(fifo) : fifo[i] = r /\ fifo' = RemoveAt(fifo, i)
  BY DEF LeaveFifo
<1>2. fifo \in Seq(Requests) /\ Injective(fifo) /\ ToSet(fifo) = Queued
  BY DEF TypeOK, LineIsTheWaiters, Injective
<1>3. fifo' \in Seq(Requests) /\ Injective(fifo') /\ ToSet(fifo') = Queued \ {r}
  BY <1>1, <1>2, RemoveAtProperties
<1>4. Queued' = Queued \ {r}
  BY MoveCounts
<1>5. QED
  BY <1>3, <1>4 DEF LineIsTheWaiters, Injective

(* A request joins the end of the line. *)
LEMMA LineJoined ==
  ASSUME TypeOK, LineIsTheWaiters, NEW r \in Requests, pc[r] # "queued",
         Goto(r, "queued"), fifo' = Append(fifo, r)
  PROVE  fifo' \in Seq(Requests) /\ LineIsTheWaiters' /\ Queued' = Queued \union {r}
<1>1. /\ fifo \in Seq(Requests) /\ Len(fifo) \in Nat /\ DOMAIN fifo = 1..Len(fifo)
      /\ Injective(fifo) /\ ToSet(fifo) = Queued /\ r \notin Queued
  BY LenProperties DEF TypeOK, LineIsTheWaiters, Injective, Queued, At
<1>2. /\ fifo' \in Seq(Requests) /\ Len(fifo') = Len(fifo) + 1
      /\ \A i \in 1..Len(fifo) : fifo'[i] = fifo[i]
      /\ fifo'[Len(fifo) + 1] = r
  BY <1>1, AppendProperties
<1>3. DOMAIN fifo' = 1..(Len(fifo) + 1)
  BY <1>2, LenProperties
<1>4. Queued' = Queued \union {r}
  BY MoveCounts DEF States
<1>5. \A i \in 1..Len(fifo) : fifo[i] # r
  BY <1>1 DEF ToSet
<1>6. ToSet(fifo') = Queued'
  <2>1. \A i \in 1..(Len(fifo) + 1) : i = Len(fifo) + 1 \/ i \in 1..Len(fifo)
    BY <1>1
  <2>2. 1..Len(fifo) \subseteq 1..(Len(fifo) + 1) /\ Len(fifo) + 1 \in 1..(Len(fifo) + 1)
    BY <1>1
  <2>3. QED
    BY <1>1, <1>2, <1>3, <1>4, <2>1, <2>2 DEF ToSet
<1>7. Injective(fifo')
  BY <1>1, <1>2, <1>3, <1>5 DEF Injective
<1>8. QED
  BY <1>2, <1>4, <1>6, <1>7 DEF LineIsTheWaiters, Injective

(* A request that is counted makes its count at least one. *)
LEMMA PlacesCounted ==
  /\ At(Placed) \subseteq InLine
  /\ Cardinality(At(Placed)) <= Cardinality(InLine)
  /\ \A r \in Requests : pc[r] \in Placed \union {"overfull"} => Cardinality(InLine) >= 1
  /\ \A r \in Requests : pc[r] = "running" => Cardinality(At({"running"})) >= 1
<1>1. At(Placed) \subseteq InLine
  BY DEF At, InLine
<1>2. IsFiniteSet(InLine) /\ IsFiniteSet(At({"running"}))
  BY CountType DEF InLine, At
<1>3. Cardinality(At(Placed)) <= Cardinality(InLine)
  BY <1>1, <1>2, FS_Subset
<1>4. ASSUME NEW S, IsFiniteSet(S), NEW x \in S PROVE Cardinality(S) >= 1
  <2>1. Cardinality(S) \in Nat /\ Cardinality(S) # 0
    BY <1>4, FS_CardinalityType, FS_EmptySet
  <2>2. QED
    BY <2>1
<1>5. ASSUME NEW r \in Requests, pc[r] \in Placed \union {"overfull"}
      PROVE  Cardinality(InLine) >= 1
  <2>1. r \in InLine
    BY <1>5 DEF InLine, At
  <2>2. QED
    BY <1>2, <1>4, <2>1
<1>6. ASSUME NEW r \in Requests, pc[r] = "running"
      PROVE  Cardinality(At({"running"})) >= 1
  <2>1. r \in At({"running"})
    BY <1>6 DEF At
  <2>2. QED
    BY <1>2, <1>4, <2>1
<1>7. QED
  BY <1>1, <1>3, <1>5, <1>6

-----------------------------------------------------------------------------
(* The steps.  Each moves one request; what the rest of the step must do   *)
(* for the invariant to survive is the same for all of them.               *)

Waits == Placed \union {"overfull"}

\* The variables that no count depends on keep their types.
OthersTyped ==
  /\ configured' \in Limits
  /\ reconfigs' \in 0..MaxReconfigs
  /\ lim' \in [Requests -> Nat]
  /\ eff' \in [Requests -> Nat]
  /\ effective' \in Nat

\* `waiting` and `in_flight` follow r's move, a place is only taken while
\* the line is short enough, and only a request that leaves a place can
\* leave it counted.
CountersFollow(r, to) ==
  /\ leaked' \in {leaked, leaked + 1}
  /\ leaked' # leaked => pc[r] \in Placed /\ to \notin Waits
  /\ waiting' =
       waiting + One(to \in Waits) - One(pc[r] \in Waits) + (leaked' - leaked)
  /\ inFlight' = inFlight + One(to = "running") - One(pc[r] = "running")
  /\ to \in Placed => pc[r] \in Placed \/ waiting' <= Capacity

(* The counters survive a step that moves only r between the groups of    *)
(* states they count, whoever else is woken by it.                         *)
LEMMA CountersKept ==
  ASSUME GateInv, NEW r \in Requests, NEW to \in States, CountersFollow(r, to),
         \A C \in {Placed, Waits, {"running"}} :
           /\ Cardinality(At(C)) \in Nat
           /\ Cardinality(At(C))' =
                Cardinality(At(C)) + One(to \in C) - One(pc[r] \in C)
  PROVE  /\ waiting' \in Nat /\ inFlight' \in Nat /\ leaked' \in Nat
         /\ WaitingAccounted' /\ InFlightExact' /\ LineBounded'
<1>1. /\ waiting \in Nat /\ inFlight \in Nat /\ leaked \in Nat /\ Capacity \in Nat
      /\ waiting = Cardinality(At(Waits)) + leaked
      /\ inFlight = Cardinality(At({"running"}))
      /\ Cardinality(At(Placed)) + leaked <= Capacity
  BY GateAssumption
  DEF GateAssumption, GateInv, TypeOK, WaitingAccounted, InFlightExact, LineBounded,
      InLine, Waits
<1>2. /\ Cardinality(At(Placed)) \in Nat
      /\ Cardinality(At(Placed))' =
           Cardinality(At(Placed)) + One(to \in Placed) - One(pc[r] \in Placed)
      /\ Cardinality(At(Waits)) \in Nat
      /\ Cardinality(At(Waits))' =
           Cardinality(At(Waits)) + One(to \in Waits) - One(pc[r] \in Waits)
      /\ Cardinality(At({"running"})) \in Nat
      /\ Cardinality(At({"running"}))' =
           Cardinality(At({"running"})) + One(to = "running") - One(pc[r] = "running")
  <2>1. (to \in {"running"} <=> to = "running") /\ (pc[r] \in {"running"} <=> pc[r] = "running")
    OBVIOUS
  <2>2. One(to \in {"running"}) = One(to = "running")
    BY <2>1 DEF One
  <2>3. One(pc[r] \in {"running"}) = One(pc[r] = "running")
    BY <2>1 DEF One
  <2>4. /\ Cardinality(At({"running"})) \in Nat
        /\ Cardinality(At({"running"}))' =
             Cardinality(At({"running"})) + One(to \in {"running"})
                                          - One(pc[r] \in {"running"})
    BY Zenon
  <2>5. QED
    BY <2>2, <2>3, <2>4, Zenon
<1>3. pc[r] \in Waits => Cardinality(At(Waits)) >= 1
  BY PlacesCounted DEF InLine, Waits
<1>4. pc[r] = "running" => Cardinality(At({"running"})) >= 1
  BY PlacesCounted
<1>5. /\ One(to \in Waits) \in Nat /\ One(to = "running") \in Nat
      /\ pc[r] \in Waits => One(pc[r] \in Waits) = 1
      /\ pc[r] \notin Waits => One(pc[r] \in Waits) = 0
      /\ pc[r] = "running" => One(pc[r] = "running") = 1
      /\ pc[r] # "running" => One(pc[r] = "running") = 0
      /\ to \in Placed => One(to \in Placed) = 1
      /\ to \notin Placed => One(to \in Placed) = 0
      /\ pc[r] \in Placed => One(pc[r] \in Placed) = 1
      /\ pc[r] \notin Placed => One(pc[r] \in Placed) = 0
  BY DEF One
<1>0. Cardinality(At(Placed))' <= Cardinality(At(Waits))'
  <2>1. Count(pc', Placed) <= Count(pc', Waits)
    BY CountSubset DEF Waits
  <2>2. QED
    BY <2>1 DEF Count, At
<1>6. waiting' \in Nat /\ waiting' = Cardinality(At(Waits))' + leaked'
  BY <1>1, <1>2, <1>3, <1>5 DEF CountersFollow
<1>7. inFlight' \in Nat /\ inFlight' = Cardinality(At({"running"}))'
  BY <1>1, <1>2, <1>4, <1>5 DEF CountersFollow
<1>8. Cardinality(At(Placed))' + leaked' <= Capacity
  <2>0. to \in Placed => to \in Waits
    BY DEF Waits
  <2>1. CASE leaked' # leaked
    BY <1>1, <1>2, <1>5, <2>0, <2>1 DEF CountersFollow
  <2>2. CASE leaked' = leaked /\ to \in Placed /\ pc[r] \notin Placed
    BY <1>0, <1>1, <1>2, <1>5, <1>6, <2>0, <2>2 DEF CountersFollow
  <2>3. CASE leaked' = leaked /\ (to \notin Placed \/ pc[r] \in Placed)
    BY <1>1, <1>2, <1>5, <2>3
  <2>4. QED
    BY <2>1, <2>2, <2>3
<1>9. QED
  BY <1>1, <1>6, <1>7, <1>8
  DEF CountersFollow, WaitingAccounted, InFlightExact, LineBounded, InLine, Waits

(* A step that moves r and leaves the semaphore's line alone. *)
LEMMA MoveKeeps ==
  ASSUME GateInv, NEW r \in Requests, NEW to \in States, Goto(r, to),
         to # "queued", pc[r] # "queued", fifo' = fifo,
         OthersTyped, CountersFollow(r, to),
         permits' \in Nat, minted' \in Nat, permits' <= permits,
         minted' - permits' =
           minted - permits + One(to \in Holding) - One(pc[r] \in Holding)
  PROVE  GateInv'
<1>1. TypeOK /\ LineIsTheWaiters
  BY DEF GateInv
<1>2. LineIsTheWaiters' /\ Queued' = Queued
  BY <1>1, LineKept
<1>3. /\ pc' \in [Requests -> States]
      /\ \A C \in {Holding, Placed, Waits, {"running"}} :
           /\ Cardinality(At(C)) \in Nat
           /\ Cardinality(At(C))' =
                Cardinality(At(C)) + One(to \in C) - One(pc[r] \in C)
  BY <1>1, MoveCounts DEF Waits
<1>4. /\ waiting' \in Nat /\ inFlight' \in Nat /\ leaked' \in Nat
      /\ WaitingAccounted' /\ InFlightExact' /\ LineBounded'
  <2>1. \A C \in {Placed, Waits, {"running"}} :
           /\ Cardinality(At(C)) \in Nat
           /\ Cardinality(At(C))' =
                Cardinality(At(C)) + One(to \in C) - One(pc[r] \in C)
    BY <1>3, Zenon
  <2>2. QED
    BY <2>1, CountersKept
<1>5. TypeOK'
  BY <1>1, <1>3, <1>4 DEF TypeOK, OthersTyped
<1>6. NoIdleSlotWhileQueued'
  BY <1>1, <1>2 DEF GateInv, TypeOK, NoIdleSlotWhileQueued
<1>7. PermitsAccounted'
  <2>1. /\ Cardinality(Holders) \in Nat
        /\ Cardinality(Holders)' =
             Cardinality(Holders) + One(to \in Holding) - One(pc[r] \in Holding)
    BY <1>3, Zenon DEF Holders
  <2>2. One(to \in Holding) \in Nat /\ One(pc[r] \in Holding) \in Nat
    BY DEF One
  <2>3. permits \in Nat /\ minted \in Nat /\ permits + Cardinality(Holders) = minted
    BY DEF GateInv, TypeOK, PermitsAccounted
  <2>4. QED
    BY <2>1, <2>2, <2>3 DEF PermitsAccounted
<1>8. QED
  BY <1>2, <1>4, <1>5, <1>6, <1>7 DEF GateInv

(* A step in which r gives n permits to the semaphore. *)
LEMMA GiveKeeps ==
  ASSUME GateInv, NEW r \in Requests, NEW n \in Nat, NEW to \in States,
         to # "queued", pc[r] # "queued", to \notin Holding, GivePermits(n, r, to),
         OthersTyped, CountersFollow(r, to), minted' \in Nat,
         minted' = minted + n - One(pc[r] \in Holding)
  PROVE  GateInv'
<1>1. TypeOK /\ LineIsTheWaiters
  BY DEF GateInv
<1>2. /\ pc' \in [Requests -> States]
      /\ fifo' \in Seq(Requests)
      /\ LineIsTheWaiters'
      /\ \E k \in 0..n :
           /\ permits' = permits + (n - k)
           /\ Cardinality(At(Holding)) \in Nat
           /\ Cardinality(At(Holding))' = Cardinality(At(Holding)) + k
                + One(to \in Holding) - One(pc[r] \in Holding)
           /\ Queued' # {} => k = n /\ Queued # {}
      /\ \A C \in {Placed, Waits, {"running"}} :
           /\ Cardinality(At(C)) \in Nat
           /\ Cardinality(At(C))' =
                Cardinality(At(C)) + One(to \in C) - One(pc[r] \in C)
  BY <1>1, GiveCounts DEF Waits
<1>3. PICK k \in 0..n :
        /\ permits' = permits + (n - k)
        /\ Cardinality(At(Holding)) \in Nat
        /\ Cardinality(At(Holding))' = Cardinality(At(Holding)) + k
             + One(to \in Holding) - One(pc[r] \in Holding)
        /\ Queued' # {} => k = n /\ Queued # {}
  BY <1>2, Zenon
<1>4. permits \in Nat /\ minted \in Nat /\ permits + Cardinality(At(Holding)) = minted
  BY DEF GateInv, TypeOK, PermitsAccounted, Holders
<1>5. One(to \in Holding) = 0 /\ One(pc[r] \in Holding) \in Nat
  BY DEF One
<1>6. permits' \in Nat /\ permits' + Cardinality(At(Holding))' = minted'
  BY <1>3, <1>4, <1>5
<1>7. PermitsAccounted'
  BY <1>6 DEF PermitsAccounted, Holders
<1>8. NoIdleSlotWhileQueued'
  BY <1>3, <1>4 DEF GateInv, NoIdleSlotWhileQueued
<1>9. /\ waiting' \in Nat /\ inFlight' \in Nat /\ leaked' \in Nat
      /\ WaitingAccounted' /\ InFlightExact' /\ LineBounded'
  <2>1. \A C \in {Placed, Waits, {"running"}} :
           /\ Cardinality(At(C)) \in Nat
           /\ Cardinality(At(C))' =
                Cardinality(At(C)) + One(to \in C) - One(pc[r] \in C)
    BY <1>2, Zenon
  <2>2. QED
    BY <2>1, CountersKept
<1>10. TypeOK'
  BY <1>1, <1>2, <1>6, <1>9 DEF TypeOK, OthersTyped
<1>11. QED
  BY <1>2, <1>7, <1>8, <1>9, <1>10 DEF GateInv

(* A step in which r leaves the semaphore's line before its permit came, or *)
(* joins it. *)
LEMMA LineKeeps ==
  ASSUME GateInv, NEW r \in Requests, NEW to \in States, Goto(r, to),
         \/ pc[r] = "queued" /\ to # "queued" /\ LeaveFifo(r)
         \/ pc[r] # "queued" /\ to = "queued" /\ fifo' = Append(fifo, r) /\ permits = 0,
         to \notin Holding, pc[r] \notin Holding,
         OthersTyped, CountersFollow(r, to), permits' = permits, minted' = minted
  PROVE  GateInv'
<1>1. TypeOK /\ LineIsTheWaiters
  BY DEF GateInv
<1>2. /\ fifo' \in Seq(Requests)
      /\ LineIsTheWaiters'
      /\ Queued' # {} => permits = 0
  <2>1. CASE pc[r] = "queued" /\ to # "queued" /\ LeaveFifo(r)
    BY <1>1, <2>1, LineLeft DEF GateInv, NoIdleSlotWhileQueued
  <2>2. CASE pc[r] # "queued" /\ to = "queued" /\ fifo' = Append(fifo, r) /\ permits = 0
    BY <1>1, <2>2, LineJoined
  <2>3. QED
    BY <2>1, <2>2
<1>3. /\ pc' \in [Requests -> States]
      /\ \A C \in {Holding, Placed, Waits, {"running"}} :
           /\ Cardinality(At(C)) \in Nat
           /\ Cardinality(At(C))' =
                Cardinality(At(C)) + One(to \in C) - One(pc[r] \in C)
  BY <1>1, MoveCounts DEF Waits
<1>4. /\ waiting' \in Nat /\ inFlight' \in Nat /\ leaked' \in Nat
      /\ WaitingAccounted' /\ InFlightExact' /\ LineBounded'
  <2>1. \A C \in {Placed, Waits, {"running"}} :
           /\ Cardinality(At(C)) \in Nat
           /\ Cardinality(At(C))' =
                Cardinality(At(C)) + One(to \in C) - One(pc[r] \in C)
    BY <1>3, Zenon
  <2>2. QED
    BY <2>1, CountersKept
<1>5. TypeOK'
  BY <1>1, <1>2, <1>3, <1>4 DEF TypeOK, OthersTyped
<1>6. PermitsAccounted'
  <2>1. /\ Cardinality(Holders) \in Nat
        /\ Cardinality(Holders)' =
             Cardinality(Holders) + One(to \in Holding) - One(pc[r] \in Holding)
    BY <1>3, Zenon DEF Holders
  <2>2. One(to \in Holding) = 0 /\ One(pc[r] \in Holding) = 0
    BY DEF One
  <2>3. QED
    BY <2>1, <2>2 DEF GateInv, TypeOK, PermitsAccounted
<1>7. QED
  BY <1>2, <1>4, <1>5, <1>6 DEF GateInv, NoIdleSlotWhileQueued

(* A hang-up: the line loses r or r's permit goes to the next in line, and  *)
(* r's place stays counted for good.                                       *)
LEMMA HangUpKeeps ==
  ASSUME GateInv, NEW r \in Requests, HangUp(r)
  PROVE  GateInv'
<1>1. TypeOK /\ "idle" \in States /\ "idle" \notin Holding
  BY DEF GateInv, States, Holding
<1>2. OthersTyped /\ minted' = minted
  BY <1>1 DEF HangUp, OthersTyped, TypeOK
<1>3. pc[r] \in {"queued", "woken"}
  BY DEF HangUp
<1>4. CountersFollow(r, "idle")
  BY <1>1, <1>3 DEF HangUp, CountersFollow, One, Waits, Placed, TypeOK
<1>5. CASE pc[r] = "queued"
  <2>1. LeaveFifo(r) /\ Goto(r, "idle") /\ permits' = permits
    BY <1>5 DEF HangUp
  <2>2. pc[r] \notin Holding
    BY <1>5 DEF Holding
  <2>3. QED
    BY <1>1, <1>2, <1>4, <1>5, <2>1, <2>2, LineKeeps
<1>6. CASE pc[r] = "woken"
  <2>1. GivePermits(1, r, "idle")
    BY <1>6 DEF HangUp
  <2>2. One(pc[r] \in Holding) = 1
    BY <1>6 DEF Holding, One
  <2>3. minted' \in Nat /\ minted' = minted + 1 - One(pc[r] \in Holding)
    BY <1>1, <1>2, <2>2 DEF TypeOK
  <2>4. QED
    BY <1>1, <1>2, <1>4, <1>6, <2>1, <2>3, GiveKeeps
<1>7. QED
  BY <1>3, <1>5, <1>6

-----------------------------------------------------------------------------
LEMMA GateStep == GateInv /\ [Next]_vars => GateInv'
<1> SUFFICES ASSUME GateInv, [Next]_vars PROVE GateInv'
  OBVIOUS
<1> USE DEF semaphore
<1>0. TypeOK /\ GateAssumption /\ permits <= minted
  <2>1. Cardinality(Holders) \in Nat
    BY CountType DEF Count, Holders, At
  <2>2. QED
    BY <2>1, GateAssumption DEF GateInv, PermitsAccounted, TypeOK
<1>1. CASE UNCHANGED vars
  BY <1>1 DEF vars, GateInv, TypeOK, LineIsTheWaiters, NoIdleSlotWhileQueued,
     PermitsAccounted, WaitingAccounted, InFlightExact, LineBounded, Queued,
     Holders, InLine, At
<1>2. CASE Reconfigure
  BY <1>0, <1>2 DEF Reconfigure, GateInv, TypeOK, LineIsTheWaiters,
     NoIdleSlotWhileQueued, PermitsAccounted, WaitingAccounted, InFlightExact,
     LineBounded, Queued, Holders, InLine, At
<1>3. ASSUME NEW r \in Requests, Arrive(r) PROVE GateInv'
  <2>1. PICK to \in {"resize"} : Goto(r, to)
    BY <1>3 DEF Arrive
  <2>2. /\ to \in States /\ to # "queued" /\ pc[r] = "idle" /\ fifo' = fifo
    BY <1>3, <2>1 DEF States, Arrive
  <2>3. OthersTyped
    BY <1>0, <1>3 DEF Arrive, OthersTyped, TypeOK, GateAssumption, AtLeastOne, Smaller
  <2>4. CountersFollow(r, to)
    BY <1>0, <1>3, <2>1, <2>2 DEF Arrive, CountersFollow, One, Waits, Placed, TypeOK, Goto
  <2>5. /\ permits' \in Nat /\ minted' \in Nat /\ permits' <= permits
        /\ minted' - permits' =
             minted - permits + One(to \in Holding) - One(pc[r] \in Holding)
    BY <1>0, <1>3, <2>1, <2>2 DEF Arrive, TypeOK, One, Holding, Smaller
  <2>6. QED
    BY <2>1, <2>2, <2>3, <2>4, <2>5, MoveKeeps
<1>4. ASSUME NEW r \in Requests, ResizeLoad(r) PROVE GateInv'
  <2>1. PICK to \in {"admit", "resizing"} : Goto(r, to)
    BY <1>4 DEF ResizeLoad
  <2>2. /\ to \in States /\ to # "queued" /\ pc[r] = "resize" /\ fifo' = fifo
    BY <1>4, <2>1 DEF States, ResizeLoad
  <2>3. OthersTyped
    BY <1>0, <1>4 DEF ResizeLoad, OthersTyped, TypeOK, GateAssumption, AtLeastOne, Smaller
  <2>4. CountersFollow(r, to)
    BY <1>0, <1>4, <2>1, <2>2 DEF ResizeLoad, CountersFollow, One, Waits, Placed, TypeOK, Goto
  <2>5. /\ permits' \in Nat /\ minted' \in Nat /\ permits' <= permits
        /\ minted' - permits' =
             minted - permits + One(to \in Holding) - One(pc[r] \in Holding)
    BY <1>0, <1>4, <2>1, <2>2 DEF ResizeLoad, TypeOK, One, Holding, Smaller
  <2>6. QED
    BY <2>1, <2>2, <2>3, <2>4, <2>5, MoveKeeps
<1>5. ASSUME NEW r \in Requests, ResizeShrink(r) PROVE GateInv'
  <2>1. PICK to \in {"store"} : Goto(r, to)
    BY <1>5 DEF ResizeShrink
  <2>2. /\ to \in States /\ to # "queued" /\ pc[r] = "resizing" /\ fifo' = fifo
    BY <1>5, <2>1 DEF States, ResizeShrink
  <2>3. OthersTyped
    BY <1>0, <1>5 DEF ResizeShrink, OthersTyped, TypeOK, GateAssumption, AtLeastOne, Smaller
  <2>4. CountersFollow(r, to)
    BY <1>0, <1>5, <2>1, <2>2 DEF ResizeShrink, CountersFollow, One, Waits, Placed, TypeOK, Goto
  <2>5. /\ permits' \in Nat /\ minted' \in Nat /\ permits' <= permits
        /\ minted' - permits' =
             minted - permits + One(to \in Holding) - One(pc[r] \in Holding)
    BY <1>0, <1>5, <2>1, <2>2 DEF ResizeShrink, TypeOK, One, Holding, Smaller
  <2>6. QED
    BY <2>1, <2>2, <2>3, <2>4, <2>5, MoveKeeps
<1>6. ASSUME NEW r \in Requests, ResizeStore(r) PROVE GateInv'
  <2>1. PICK to \in {"admit"} : Goto(r, to)
    BY <1>6 DEF ResizeStore
  <2>2. /\ to \in States /\ to # "queued" /\ pc[r] = "store" /\ fifo' = fifo
    BY <1>6, <2>1 DEF States, ResizeStore
  <2>3. OthersTyped
    BY <1>0, <1>6 DEF ResizeStore, OthersTyped, TypeOK, GateAssumption, AtLeastOne, Smaller
  <2>4. CountersFollow(r, to)
    BY <1>0, <1>6, <2>1, <2>2 DEF ResizeStore, CountersFollow, One, Waits, Placed, TypeOK, Goto
  <2>5. /\ permits' \in Nat /\ minted' \in Nat /\ permits' <= permits
        /\ minted' - permits' =
             minted - permits + One(to \in Holding) - One(pc[r] \in Holding)
    BY <1>0, <1>6, <2>1, <2>2 DEF ResizeStore, TypeOK, One, Holding, Smaller
  <2>6. QED
    BY <2>1, <2>2, <2>3, <2>4, <2>5, MoveKeeps
<1>7. ASSUME NEW r \in Requests, TryAcquire(r) PROVE GateInv'
  <2>1. PICK to \in {"got"} : Goto(r, to)
    BY <1>7 DEF TryAcquire
  <2>2. /\ to \in States /\ to # "queued" /\ pc[r] = "admit" /\ fifo' = fifo
    BY <1>7, <2>1 DEF States, TryAcquire
  <2>3. OthersTyped
    BY <1>0, <1>7 DEF TryAcquire, OthersTyped, TypeOK, GateAssumption, AtLeastOne, Smaller
  <2>4. CountersFollow(r, to)
    BY <1>0, <1>7, <2>1, <2>2 DEF TryAcquire, CountersFollow, One, Waits, Placed, TypeOK, Goto
  <2>5. /\ permits' \in Nat /\ minted' \in Nat /\ permits' <= permits
        /\ minted' - permits' =
             minted - permits + One(to \in Holding) - One(pc[r] \in Holding)
    BY <1>0, <1>7, <2>1, <2>2 DEF TryAcquire, TypeOK, One, Holding, Smaller
  <2>6. QED
    BY <2>1, <2>2, <2>3, <2>4, <2>5, MoveKeeps
<1>8. ASSUME NEW r \in Requests, TryAcquireFails(r) PROVE GateInv'
  <2>1. PICK to \in {"reserve"} : Goto(r, to)
    BY <1>8 DEF TryAcquireFails
  <2>2. /\ to \in States /\ to # "queued" /\ pc[r] = "admit" /\ fifo' = fifo
    BY <1>8, <2>1 DEF States, TryAcquireFails
  <2>3. OthersTyped
    BY <1>0, <1>8 DEF TryAcquireFails, OthersTyped, TypeOK, GateAssumption, AtLeastOne, Smaller
  <2>4. CountersFollow(r, to)
    BY <1>0, <1>8, <2>1, <2>2 DEF TryAcquireFails, CountersFollow, One, Waits, Placed, TypeOK, Goto
  <2>5. /\ permits' \in Nat /\ minted' \in Nat /\ permits' <= permits
        /\ minted' - permits' =
             minted - permits + One(to \in Holding) - One(pc[r] \in Holding)
    BY <1>0, <1>8, <2>1, <2>2 DEF TryAcquireFails, TypeOK, One, Holding, Smaller
  <2>6. QED
    BY <2>1, <2>2, <2>3, <2>4, <2>5, MoveKeeps
<1>9. ASSUME NEW r \in Requests, Reserve(r) PROVE GateInv'
  <2>1. PICK to \in {"overfull", "acquire"} : Goto(r, to)
    BY <1>9 DEF Reserve
  <2>2. /\ to \in States /\ to # "queued" /\ pc[r] = "reserve" /\ fifo' = fifo
    BY <1>9, <2>1 DEF States, Reserve
  <2>3. OthersTyped
    BY <1>0, <1>9 DEF Reserve, OthersTyped, TypeOK, GateAssumption, AtLeastOne, Smaller
  <2>4. CountersFollow(r, to)
    BY <1>0, <1>9, <2>1, <2>2 DEF Reserve, CountersFollow, One, Waits, Placed, TypeOK, Goto
  <2>5. /\ permits' \in Nat /\ minted' \in Nat /\ permits' <= permits
        /\ minted' - permits' =
             minted - permits + One(to \in Holding) - One(pc[r] \in Holding)
    BY <1>0, <1>9, <2>1, <2>2 DEF Reserve, TypeOK, One, Holding, Smaller
  <2>6. QED
    BY <2>1, <2>2, <2>3, <2>4, <2>5, MoveKeeps
<1>10. ASSUME NEW r \in Requests, Refuse(r) PROVE GateInv'
  <2>1. PICK to \in {"idle"} : Goto(r, to)
    BY <1>10 DEF Refuse
  <2>2. /\ to \in States /\ to # "queued" /\ pc[r] = "overfull" /\ fifo' = fifo
    BY <1>10, <2>1 DEF States, Refuse
  <2>3. OthersTyped
    BY <1>0, <1>10 DEF Refuse, OthersTyped, TypeOK, GateAssumption, AtLeastOne, Smaller
  <2>4. CountersFollow(r, to)
    BY <1>0, <1>10, <2>1, <2>2 DEF Refuse, CountersFollow, One, Waits, Placed, TypeOK, Goto
  <2>5. /\ permits' \in Nat /\ minted' \in Nat /\ permits' <= permits
        /\ minted' - permits' =
             minted - permits + One(to \in Holding) - One(pc[r] \in Holding)
    BY <1>0, <1>10, <2>1, <2>2 DEF Refuse, TypeOK, One, Holding, Smaller
  <2>6. QED
    BY <2>1, <2>2, <2>3, <2>4, <2>5, MoveKeeps
<1>11. ASSUME NEW r \in Requests, Expire(r) PROVE GateInv'
  <2>1. PICK to \in {"idle"} : Goto(r, to)
    BY <1>11 DEF Expire
  <2>2. /\ to \in States /\ to # "queued" /\ pc[r] = "expired" /\ fifo' = fifo
    BY <1>11, <2>1 DEF States, Expire
  <2>3. OthersTyped
    BY <1>0, <1>11 DEF Expire, OthersTyped, TypeOK, GateAssumption, AtLeastOne, Smaller
  <2>4. CountersFollow(r, to)
    BY <1>0, <1>11, <2>1, <2>2 DEF Expire, CountersFollow, One, Waits, Placed, TypeOK, Goto
  <2>5. /\ permits' \in Nat /\ minted' \in Nat /\ permits' <= permits
        /\ minted' - permits' =
             minted - permits + One(to \in Holding) - One(pc[r] \in Holding)
    BY <1>0, <1>11, <2>1, <2>2 DEF Expire, TypeOK, One, Holding, Smaller
  <2>6. QED
    BY <2>1, <2>2, <2>3, <2>4, <2>5, MoveKeeps
<1>12. ASSUME NEW r \in Requests, Proceed(r) PROVE GateInv'
  <2>1. PICK to \in {"got"} : Goto(r, to)
    BY <1>12 DEF Proceed
  <2>2. /\ to \in States /\ to # "queued" /\ pc[r] = "woken" /\ fifo' = fifo
    BY <1>12, <2>1 DEF States, Proceed
  <2>3. OthersTyped
    BY <1>0, <1>12 DEF Proceed, OthersTyped, TypeOK, GateAssumption, AtLeastOne, Smaller
  <2>4. CountersFollow(r, to)
    BY <1>0, <1>12, <2>1, <2>2 DEF Proceed, CountersFollow, One, Waits, Placed, TypeOK, Goto
  <2>5. /\ permits' \in Nat /\ minted' \in Nat /\ permits' <= permits
        /\ minted' - permits' =
             minted - permits + One(to \in Holding) - One(pc[r] \in Holding)
    BY <1>0, <1>12, <2>1, <2>2 DEF Proceed, TypeOK, One, Holding, Smaller
  <2>6. QED
    BY <2>1, <2>2, <2>3, <2>4, <2>5, MoveKeeps
<1>13. ASSUME NEW r \in Requests, Begin(r) PROVE GateInv'
  <2>1. PICK to \in {"running"} : Goto(r, to)
    BY <1>13 DEF Begin
  <2>2. /\ to \in States /\ to # "queued" /\ pc[r] = "got" /\ fifo' = fifo
    BY <1>13, <2>1 DEF States, Begin
  <2>3. OthersTyped
    BY <1>0, <1>13 DEF Begin, OthersTyped, TypeOK, GateAssumption, AtLeastOne, Smaller
  <2>4. CountersFollow(r, to)
    BY <1>0, <1>13, <2>1, <2>2 DEF Begin, CountersFollow, One, Waits, Placed, TypeOK, Goto
  <2>5. /\ permits' \in Nat /\ minted' \in Nat /\ permits' <= permits
        /\ minted' - permits' =
             minted - permits + One(to \in Holding) - One(pc[r] \in Holding)
    BY <1>0, <1>13, <2>1, <2>2 DEF Begin, TypeOK, One, Holding, Smaller
  <2>6. QED
    BY <2>1, <2>2, <2>3, <2>4, <2>5, MoveKeeps
<1>14. ASSUME NEW r \in Requests, Finish(r) PROVE GateInv'
  <2>1. PICK to \in {"releasing"} : Goto(r, to)
    BY <1>14 DEF Finish
  <2>2. /\ to \in States /\ to # "queued" /\ pc[r] = "running" /\ fifo' = fifo
    BY <1>14, <2>1 DEF States, Finish
  <2>3. OthersTyped
    BY <1>0, <1>14 DEF Finish, OthersTyped, TypeOK, GateAssumption, AtLeastOne, Smaller
  <2>4. CountersFollow(r, to)
    BY <1>0, <1>14, <2>1, <2>2 DEF Finish, CountersFollow, One, Waits, Placed, TypeOK, Goto
  <2>5. /\ permits' \in Nat /\ minted' \in Nat /\ permits' <= permits
        /\ minted' - permits' =
             minted - permits + One(to \in Holding) - One(pc[r] \in Holding)
    BY <1>0, <1>14, <2>1, <2>2 DEF Finish, TypeOK, One, Holding, Smaller
  <2>6. QED
    BY <2>1, <2>2, <2>3, <2>4, <2>5, MoveKeeps
<1>15. ASSUME NEW r \in Requests, ResizeGrow(r) PROVE GateInv'
  <2>1. /\ lim[r] \in Nat /\ eff[r] \in Nat /\ lim[r] > eff[r]
        /\ GivePermits(lim[r] - eff[r], r, "store")
        /\ minted' = minted + (lim[r] - eff[r])
    BY <1>0, <1>15 DEF ResizeGrow, TypeOK
  <2>2. lim[r] - eff[r] \in Nat
    BY <2>1
  <2>3. /\ "store" \in States /\ "store" \notin Holding /\ pc[r] = "resizing"
        /\ One(pc[r] \in Holding) = 0
    BY <1>15 DEF States, Holding, ResizeGrow, One
  <2>4. OthersTyped
    BY <1>0, <1>15 DEF ResizeGrow, OthersTyped, TypeOK
  <2>5. CountersFollow(r, "store")
    BY <1>0, <1>15 DEF ResizeGrow, CountersFollow, One, Waits, Placed, TypeOK
  <2>6. /\ minted' \in Nat
        /\ minted' = minted + (lim[r] - eff[r]) - One(pc[r] \in Holding)
    BY <1>0, <2>1, <2>3 DEF TypeOK
  <2>7. QED
    BY <2>1, <2>2, <2>3, <2>4, <2>5, <2>6, GiveKeeps
<1>16. ASSUME NEW r \in Requests, Acquire(r) PROVE GateInv'
  <2>1. pc[r] = "acquire" /\ OthersTyped
    BY <1>0, <1>16 DEF Acquire, OthersTyped, TypeOK
  <2>2. ASSUME permits > 0 PROVE GateInv'
    <3>1. Goto(r, "woken") /\ "woken" \in States /\ fifo' = fifo
      BY <1>16, <2>2 DEF Acquire, States
    <3>2. CountersFollow(r, "woken")
      BY <1>0, <1>16, <2>1 DEF Acquire, CountersFollow, One, Waits, Placed, TypeOK
    <3>3. /\ permits' \in Nat /\ minted' \in Nat /\ permits' <= permits
          /\ minted' - permits' =
               minted - permits + One("woken" \in Holding) - One(pc[r] \in Holding)
      BY <1>0, <1>16, <2>1, <2>2 DEF Acquire, TypeOK, One, Holding
    <3>4. QED
      BY <2>1, <3>1, <3>2, <3>3, MoveKeeps
  <2>3. ASSUME ~(permits > 0) PROVE GateInv'
    <3>1. /\ Goto(r, "queued") /\ "queued" \in States /\ fifo' = Append(fifo, r)
          /\ permits = 0 /\ permits' = permits /\ minted' = minted
      BY <1>0, <1>16, <2>3 DEF Acquire, States, TypeOK
    <3>2. CountersFollow(r, "queued")
      BY <1>0, <1>16, <2>1 DEF Acquire, CountersFollow, One, Waits, Placed, TypeOK
    <3>3. "queued" \notin Holding /\ pc[r] \notin Holding
      BY <2>1 DEF Holding
    <3>4. QED
      BY <2>1, <3>1, <3>2, <3>3, LineKeeps
  <2>4. QED
    BY <2>2, <2>3
<1>17. ASSUME NEW r \in Requests, Timeout(r) PROVE GateInv'
  <2>1. /\ pc[r] = "queued" /\ Goto(r, "expired") /\ "expired" \in States
        /\ LeaveFifo(r) /\ permits' = permits /\ minted' = minted
    BY <1>17 DEF Timeout, States
  <2>2. "expired" \notin Holding /\ pc[r] \notin Holding
    BY <2>1 DEF Holding
  <2>3. OthersTyped
    BY <1>0, <1>17 DEF Timeout, OthersTyped, TypeOK
  <2>4. CountersFollow(r, "expired")
    BY <1>0, <1>17 DEF Timeout, CountersFollow, One, Waits, Placed, TypeOK
  <2>5. QED
    BY <2>1, <2>2, <2>3, <2>4, LineKeeps
<1>18. ASSUME NEW r \in Requests, Release(r) PROVE GateInv'
  <2>1. /\ pc[r] = "releasing" /\ GivePermits(1, r, "idle") /\ minted' = minted
        /\ "idle" \in States
    BY <1>18 DEF Release, States
  <2>2. "idle" \notin Holding /\ One(pc[r] \in Holding) = 1
    BY <2>1 DEF Holding, One
  <2>3. OthersTyped
    BY <1>0, <1>18 DEF Release, OthersTyped, TypeOK
  <2>4. CountersFollow(r, "idle")
    BY <1>0, <1>18 DEF Release, CountersFollow, One, Waits, Placed, TypeOK
  <2>5. minted' \in Nat /\ minted' = minted + 1 - One(pc[r] \in Holding)
    BY <1>0, <2>1, <2>2 DEF TypeOK
  <2>6. QED
    BY <2>1, <2>2, <2>3, <2>4, <2>5, GiveKeeps
<1>19. ASSUME NEW r \in Requests, HangUp(r) PROVE GateInv'
  BY <1>19, HangUpKeeps
<1>20. QED
  <2>1. CASE Next
    BY <1>2, <1>3, <1>4, <1>5, <1>6, <1>7, <1>8, <1>9, <1>10, <1>11, <1>12, <1>13, <1>14, <1>15, <1>16, <1>17, <1>18, <1>19, <2>1 DEF Next, Resize, Admit, Drop
  <2>2. QED
    BY <1>1, <2>1
-----------------------------------------------------------------------------
THEOREM GateInvariant == Spec => []GateInv
BY InitGate, GateStep, PTL DEF Spec

(* Type correctness: in particular none of the three counters of gate.rs,  *)
(* which are unsigned and wrap, is ever decremented below zero.            *)
THEOREM GateTypeCorrect == Spec => []TypeOK
<1>1. GateInv => TypeOK
  BY DEF GateInv
<1>2. QED
  BY <1>1, GateInvariant, PTL

(* No permit is lost or made up, whatever times out, hangs up or resizes.  *)
THEOREM GatePermits == Spec => []PermitsAccounted
<1>1. GateInv => PermitsAccounted
  BY DEF GateInv
<1>2. QED
  BY <1>1, GateInvariant, PTL

(* No lost wake-up: nobody waits while a slot is free.                     *)
THEOREM GateNoIdleSlot == Spec => []NoIdleSlotWhileQueued
<1>1. GateInv => NoIdleSlotWhileQueued
  BY DEF GateInv
<1>2. QED
  BY <1>1, GateInvariant, PTL

(* The line never holds more than `queue_capacity` requests, however many  *)
(* arrive at once.                                                         *)
THEOREM GateLineBounded == Spec => []LineBounded
<1>1. GateInv => LineBounded
  BY DEF GateInv
<1>2. QED
  BY <1>1, GateInvariant, PTL

(* `in_flight`, which a retiring process drains on, is exact.              *)
THEOREM GateInFlight == Spec => []InFlightExact
<1>1. GateInv => InFlightExact
  BY DEF GateInv
<1>2. QED
  BY <1>1, GateInvariant, PTL

(* `waiting` is off by exactly the requests that were dropped in line.     *)
THEOREM GateWaiting == Spec => []WaitingAccounted
<1>1. GateInv => WaitingAccounted
  BY DEF GateInv
<1>2. QED
  BY <1>1, GateInvariant, PTL

(* Permits, places in line and tickets are each somebody's, for every      *)
(* number of requests, every capacity and every history of limits.         *)
THEOREM GateAccountsHold == Spec => []GateAccounts
<1>1. GateInv => GateAccounts
  BY DEF GateInv, GateAccounts
<1>2. QED
  BY <1>1, GateInvariant, PTL

-----------------------------------------------------------------------------
(* The refinement of AdmissionLine, one lemma for each way the gate moves. *)

(* What the invariant says of the line and of the holders.                 *)
LEMMA LineAndHolders ==
  ASSUME GateInv
  PROVE  /\ permits \in Nat
         /\ fifo \in Seq(Requests) /\ Len(fifo) \in Nat /\ DOMAIN fifo = 1..Len(fifo)
         /\ \A r \in Requests : r \in ToSet(fifo) <=> pc[r] = "queued"
         /\ \A r \in Requests : r \in Holders <=> pc[r] \in Holding
         /\ permits > 0 => fifo = <<>>
<1>1. permits \in Nat /\ fifo \in Seq(Requests)
  BY DEF GateInv, TypeOK
<1>2. Len(fifo) \in Nat /\ DOMAIN fifo = 1..Len(fifo)
  BY <1>1, LenProperties
<1>3. \A r \in Requests : r \in ToSet(fifo) <=> pc[r] = "queued"
  BY DEF GateInv, LineIsTheWaiters, Queued, At
<1>4. ASSUME permits > 0 PROVE fifo = <<>>
  <2>1. ToSet(fifo) = {}
    BY <1>1, <1>4 DEF GateInv, LineIsTheWaiters, NoIdleSlotWhileQueued
  <2>2. Len(fifo) = 0
    <3>1. 1 \notin DOMAIN fifo
      BY <2>1 DEF ToSet
    <3>2. QED
      BY <1>2, <3>1
  <2>3. QED
    BY <1>1, <2>2, EmptySeq
<1>5. QED
  BY <1>1, <1>2, <1>3, <1>4 DEF Holders, At

(* A request that neither takes nor gives back a slot, nor joins or leaves *)
(* the line, is not seen by the callers.                                   *)
LEMMA MoveUnseen ==
  ASSUME GateInv, NEW r \in Requests, NEW to, Goto(r, to),
         pc[r] \in Holding <=> to \in Holding
  PROVE  Holders' = Holders
BY DEF GateInv, TypeOK, Goto, Holders, At

(* Permits given to the semaphore go to the head of the line, and the      *)
(* request that gave them holds none afterwards.                           *)
LEMMA GiveServes ==
  ASSUME GateInv, NEW r \in Requests, NEW n \in Nat, NEW to, to \notin Holding,
         pc[r] # "queued", GivePermits(n, r, to)
  PROVE  LET k == Smaller(n, Len(fifo))
         IN  /\ k \in 0..Len(fifo)
             /\ permits' = permits + (n - k)
             /\ Promise!Serve(k, Holders \ {r})
<1> DEFINE k == Smaller(n, Len(fifo))
<1>1. /\ fifo \in Seq(Requests) /\ Len(fifo) \in Nat /\ DOMAIN fifo = 1..Len(fifo)
      /\ \A q \in Requests : q \in ToSet(fifo) <=> pc[q] = "queued"
  BY LineAndHolders
<1>2. k \in 0..Len(fifo)
  BY <1>1 DEF Smaller
<1>3. /\ permits' = permits + (n - k)
      /\ fifo' = SubSeq(fifo, k + 1, Len(fifo))
      /\ pc' = [q \in Requests |->
                  IF q = r THEN to
                  ELSE IF \E i \in 1..k : fifo[i] = q THEN "woken"
                  ELSE pc[q]]
  BY DEF GivePermits
<1> HIDE DEF k
<1>4. \A i \in 1..k : fifo[i] \in Requests /\ fifo[i] # r
  <2>1. TAKE i \in 1..k
  <2>2. i \in 1..Len(fifo)
    BY <1>1, <1>2
  <2>3. fifo[i] \in Requests /\ fifo[i] \in ToSet(fifo)
    BY <1>1, <2>2, ElementOfSeq DEF ToSet
  <2>4. QED
    BY <1>1, <2>3
<1>5. Holders' = (Holders \ {r}) \union {fifo[i] : i \in 1..k}
  <2>1. ASSUME NEW q \in Requests
        PROVE  pc'[q] \in Holding <=>
                 \/ q # r /\ pc[q] \in Holding
                 \/ \E i \in 1..k : fifo[i] = q
    BY <1>3, <1>4 DEF Holding
  <2>2. QED
    BY <1>4, <2>1 DEF Holders, At
<1>6. Promise!Serve(k, Holders \ {r})
  BY <1>3, <1>5 DEF Promise!Serve
<1>7. QED
  BY <1>2, <1>3, <1>6 DEF k

(* A slot that is given back is the abstract Done. *)
LEMMA GiveBackIsDone ==
  ASSUME GateInv, NEW r \in Requests, pc[r] \in Holding, GivePermits(1, r, "idle")
  PROVE  Promise!Done(r)
<1> DEFINE k == Smaller(1, Len(fifo))
<1>1. /\ k \in 0..Len(fifo)
      /\ permits' = permits + (1 - k)
      /\ Promise!Serve(k, Holders \ {r})
  <2>1. "idle" \notin Holding /\ pc[r] # "queued" /\ 1 \in Nat
    BY DEF Holding
  <2>2. QED
    BY <2>1, GiveServes
<1>2. permits \in Nat /\ fifo \in Seq(Requests) /\ Len(fifo) \in Nat /\ r \in Holders
  BY LineAndHolders
<1>3. CASE fifo = <<>>
  <2>1. k = 0
    BY <1>3, <1>2, EmptySeq DEF Smaller
  <2>2. permits' = permits + 1 /\ Promise!Serve(0, Holders \ {r})
    BY <1>1, <1>2, <2>1
  <2>3. QED
    BY <1>2, <1>3, <2>2 DEF Promise!Done
<1>4. CASE fifo # <<>>
  <2>1. k = 1
    <3>1. Len(fifo) \in Nat \ {0}
      BY <1>4, <1>2, EmptySeq
    <3>2. \A n \in Nat \ {0} : Smaller(1, n) = 1
      BY DEF Smaller
    <3>3. QED
      BY <3>1, <3>2
  <2>2. permits' = permits /\ Promise!Serve(1, Holders \ {r})
    BY <1>1, <1>2, <2>1
  <2>3. QED
    BY <1>2, <1>4, <2>2 DEF Promise!Done
<1>5. QED
  BY <1>3, <1>4

(* A permit taken by a request that holds none is the abstract Take. *)
LEMMA TakeIsTake ==
  ASSUME GateInv, NEW r \in Requests, NEW to \in Holding, pc[r] \notin Holding,
         Goto(r, to), permits > 0, permits' = permits - 1, fifo' = fifo
  PROVE  Promise!Take(r)
<1>1. r \notin Holders /\ fifo = <<>>
  BY LineAndHolders
<1>2. Holders' = Holders \union {r}
  BY DEF GateInv, TypeOK, Goto, Holders, At
<1>3. QED
  BY <1>1, <1>2 DEF Promise!Take

(* The end of the line is the abstract Join: the line has a place for the  *)
(* request, because it was counted into `waiting`.                         *)
LEMMA QueueIsJoin ==
  ASSUME GateInv, NEW r \in Requests, pc[r] = "acquire", Goto(r, "queued"),
         permits = 0, permits' = permits, fifo' = Append(fifo, r)
  PROVE  Promise!Join(r)
<1>1. /\ fifo \in Seq(Requests) /\ Len(fifo) \in Nat /\ DOMAIN fifo = 1..Len(fifo)
      /\ \A q \in Requests : q \in ToSet(fifo) <=> pc[q] = "queued"
  BY LineAndHolders
<1>2. r \notin Holders \union ToSet(fifo)
  BY <1>1, LineAndHolders DEF Holding
<1>3. Holders' = Holders
  BY MoveUnseen DEF Holding
<1>4. Len(fifo) < Capacity
  <2>1. Injective(fifo)
    BY DEF GateInv, LineIsTheWaiters, Injective
  <2>2. Len(fifo) \in 0..Len(fifo)
    BY <1>1
  <2>3. /\ First(fifo, Len(fifo)) \subseteq ToSet(fifo)
        /\ IsFiniteSet(First(fifo, Len(fifo)))
        /\ Cardinality(First(fifo, Len(fifo))) = Len(fifo)
    BY <1>1, <2>1, <2>2, PrefixProperties
  <2> DEFINE F == First(fifo, Len(fifo))
  <2> HIDE DEF F
  <2>4. IsFiniteSet(F) /\ Cardinality(F) = Len(fifo) /\ F \subseteq ToSet(fifo)
    BY <2>3 DEF F
  <2>5. r \notin F
    BY <1>2, <2>4
  <2>6. IsFiniteSet(F \union {r}) /\ Cardinality(F \union {r}) = Len(fifo) + 1
    BY <2>4, <2>5, FS_AddElement
  <2>7. F \union {r} \in SUBSET At(Placed)
    <3>1. ToSet(fifo) \subseteq At({"queued"})
      BY DEF GateInv, LineIsTheWaiters, Queued
    <3>2. QED
      BY <2>4, <3>1 DEF At, Placed
  <2>8. IsFiniteSet(At(Placed)) /\ Cardinality(At(Placed)) \in Nat
    <3>1. IsFiniteSet(At(Placed))
      BY CountType DEF At
    <3>2. QED
      BY <3>1, FS_CardinalityType
  <2>9. Len(fifo) + 1 <= Cardinality(At(Placed))
    BY <2>6, <2>7, <2>8, FS_Subset
  <2>10. Cardinality(At(Placed)) + leaked <= Capacity /\ leaked \in Nat
    BY DEF GateInv, LineBounded, TypeOK
  <2>11. QED
    BY <1>1, <2>8, <2>9, <2>10, GateAssumption DEF GateAssumption
<1>5. QED
  BY <1>2, <1>3, <1>4 DEF Promise!Join, Promise!ToSet, ToSet

(* A waiter that gives up is the abstract Leave. *)
LEMMA GiveUpIsLeave ==
  ASSUME GateInv, NEW r \in Requests, pc[r] = "queued", NEW to, to \notin Holding,
         Goto(r, to), LeaveFifo(r), permits' = permits
  PROVE  Promise!Leave(r)
<1>1. DOMAIN fifo = 1..Len(fifo)
  BY LineAndHolders
<1>2. Holders' = Holders
  BY MoveUnseen DEF Holding
<1>3. QED
  BY <1>1, <1>2 DEF Promise!Leave, Promise!RemoveAt, RemoveAt, LeaveFifo

(* More permits are the abstract Grow. *)
LEMMA MoreIsGrow ==
  ASSUME GateInv, NEW r \in Requests, pc[r] = "resizing", NEW n \in Nat,
         GivePermits(n, r, "store")
  PROVE  Promise!Grow
<1> DEFINE k == Smaller(n, Len(fifo))
<1>1. permits \in Nat /\ fifo \in Seq(Requests) /\ Len(fifo) \in Nat
  BY LineAndHolders
<1>2. /\ k \in 0..Len(fifo)
      /\ permits' = permits + (n - k)
      /\ Promise!Serve(k, Holders \ {r})
  <2>1. "store" \notin Holding /\ pc[r] # "queued"
    BY DEF Holding
  <2>2. QED
    BY <2>1, GiveServes
<1>3. Holders \ {r} = Holders
  BY LineAndHolders DEF Holding
<1>4. /\ permits' \in Nat
      /\ IF k < Len(fifo) THEN permits' = permits ELSE permits' >= permits
  BY <1>1, <1>2 DEF Smaller
<1>5. Promise!Serve(k, Holders)
  BY <1>2, <1>3
<1> HIDE DEF k
<1>6. QED
  BY <1>2, <1>4, <1>5 DEF Promise!Grow

(* Every step of the gate is a step of the line it promises, or none.      *)
LEMMA GateStepServesInOrder ==
  ASSUME GateInv, [Next]_vars
  PROVE  [Promise!Next]_<<permits, Holders, fifo>>
<1> DEFINE unseen == UNCHANGED <<permits, Holders, fifo>>
<1>1. ASSUME UNCHANGED vars PROVE unseen
  BY <1>1 DEF vars, semaphore, Holders, At
<1>2. ASSUME Reconfigure PROVE unseen
  BY <1>2 DEF Reconfigure, semaphore, Holders, At
<1>3. ASSUME NEW r \in Requests,
             \/ Arrive(r) \/ ResizeLoad(r) \/ ResizeStore(r) \/ TryAcquireFails(r)
             \/ Reserve(r) \/ Refuse(r) \/ Expire(r) \/ Proceed(r) \/ Begin(r)
             \/ Finish(r)
      PROVE  unseen
  <2>1. permits' = permits /\ fifo' = fifo
    BY <1>3 DEF Arrive, ResizeLoad, ResizeStore, TryAcquireFails, Reserve, Refuse,
       Expire, Proceed, Begin, Finish, semaphore
  <2>2. PICK to \in States : Goto(r, to) /\ (pc[r] \in Holding <=> to \in Holding)
    BY <1>3 DEF Arrive, ResizeLoad, ResizeStore, TryAcquireFails, Reserve, Refuse,
       Expire, Proceed, Begin, Finish, Holding, States
  <2>3. Holders' = Holders
    BY <2>2, MoveUnseen
  <2>4. QED
    BY <2>1, <2>3
<1>4. ASSUME NEW r \in Requests, ResizeGrow(r) PROVE Promise!Next
  <2>1. pc[r] = "resizing" /\ GivePermits(lim[r] - eff[r], r, "store")
    BY <1>4 DEF ResizeGrow
  <2>2. lim[r] - eff[r] \in Nat
    <3>1. lim[r] \in Nat /\ eff[r] \in Nat
      BY DEF GateInv, TypeOK
    <3>2. QED
      BY <1>4, <3>1 DEF ResizeGrow
  <2>3. QED
    BY <2>1, <2>2, MoreIsGrow DEF Promise!Next
<1>5. ASSUME NEW r \in Requests, ResizeShrink(r) PROVE Promise!Next \/ unseen
  <2>1. Holders' = Holders
    BY <1>5, MoveUnseen DEF ResizeShrink, Holding
  <2>2. fifo' = fifo /\ permits \in Nat /\ permits' \in Nat /\ permits' <= permits
    <3>1. lim[r] \in Nat /\ eff[r] \in Nat /\ permits \in Nat
      BY DEF GateInv, TypeOK
    <3>2. QED
      BY <1>5, <3>1 DEF ResizeShrink, Smaller
  <2>3. CASE permits' = permits
    BY <2>1, <2>2, <2>3
  <2>4. CASE permits' < permits
    BY <2>1, <2>2, <2>4 DEF Promise!Next, Promise!Shrink
  <2>5. QED
    BY <2>2, <2>3, <2>4
<1>6. ASSUME NEW r \in Requests, TryAcquire(r) PROVE Promise!Next
  <2>1. Promise!Take(r)
    BY <1>6, TakeIsTake DEF TryAcquire, Holding
  <2>2. QED
    BY <2>1 DEF Promise!Next
<1>7. ASSUME NEW r \in Requests, Acquire(r) PROVE Promise!Next
  <2>1. CASE permits > 0
    <3>1. Promise!Take(r)
      BY <1>7, <2>1, TakeIsTake DEF Acquire, Holding
    <3>2. QED
      BY <3>1 DEF Promise!Next
  <2>2. CASE ~(permits > 0)
    <3>1. permits = 0
      BY <2>2, LineAndHolders
    <3>2. Promise!Join(r)
      BY <1>7, <2>2, <3>1, QueueIsJoin DEF Acquire
    <3>3. QED
      BY <3>2 DEF Promise!Next
  <2>3. QED
    BY <2>1, <2>2
<1>8. ASSUME NEW r \in Requests, Timeout(r) PROVE Promise!Next
  <2>1. Promise!Leave(r)
    BY <1>8, GiveUpIsLeave DEF Timeout, Holding
  <2>2. QED
    BY <2>1 DEF Promise!Next
<1>9. ASSUME NEW r \in Requests, Release(r) PROVE Promise!Next
  <2>1. Promise!Done(r)
    BY <1>9, GiveBackIsDone DEF Release, Holding
  <2>2. QED
    BY <2>1 DEF Promise!Next
<1>10. ASSUME NEW r \in Requests, HangUp(r) PROVE Promise!Next
  <2>1. CASE pc[r] = "queued"
    <3>1. Goto(r, "idle") /\ LeaveFifo(r) /\ permits' = permits
      BY <1>10, <2>1 DEF HangUp
    <3>2. Promise!Leave(r)
      BY <2>1, <3>1, GiveUpIsLeave DEF Holding
    <3>3. QED
      BY <3>2 DEF Promise!Next
  <2>2. CASE pc[r] = "woken"
    <3>1. GivePermits(1, r, "idle")
      BY <1>10, <2>2 DEF HangUp
    <3>2. Promise!Done(r)
      BY <2>2, <3>1, GiveBackIsDone DEF Holding
    <3>3. QED
      BY <3>2 DEF Promise!Next
  <2>3. QED
    BY <1>10, <2>1, <2>2 DEF HangUp
<1>11. QED
  <2>1. CASE Next
    BY <1>2, <1>3, <1>4, <1>5, <1>6, <1>7, <1>8, <1>9, <1>10, <2>1
       DEF Next, Resize, Admit, Drop
  <2>2. QED
    BY <1>1, <2>1

(* The gate implements the bounded first-come-first-served line that its   *)
(* callers rely on: a slot goes to a newcomer only when nobody waits, one  *)
(* that is given back goes to the head of the line, and whoever gives up   *)
(* leaves the others in their order.                                       *)
THEOREM GateServesInOrder == Spec => ServesInOrder
<1>1. Init => Promise!Init
  <2>1. SUFFICES ASSUME Init PROVE Promise!Init
    OBVIOUS
  <2>2. AtLeastOne(configured) \in Nat \ {0}
    BY <2>1, GateAssumption DEF Init, GateAssumption, AtLeastOne
  <2>3. Holders = {}
    BY <2>1 DEF Init, Holders, At, Holding
  <2>4. QED
    BY <2>1, <2>2, <2>3 DEF Init, Promise!Init
<1>2. GateInv /\ [Next]_vars => [Promise!Next]_<<permits, Holders, fifo>>
  BY GateStepServesInOrder
<1>3. QED
  BY <1>1, <1>2, GateInvariant, PTL DEF Spec, ServesInOrder, Promise!Spec, Promise!lineVars

-----------------------------------------------------------------------------
(* What the gate owes the documentation of its two bounds. *)

(* "The line is already as long as it is allowed to get" is what QueueFull *)
(* says.  Whoever hangs up, expires or is resized meanwhile, a request is  *)
(* turned away only when the requests in line and the places of those that *)
(* hung up in it are together at least `Capacity`: the places the hang-ups *)
(* leave taken are all that can turn a request away from a shorter line.   *)
THEOREM GateRefusesOnlyByAFullLine == Spec => RefusedByTheLineOrTheLost
<1> DEFINE Fair == [\A r \in Requests : pc[r] = "reserve" /\ pc'[r] = "overfull"
                      => Cardinality(InLine) + leaked >= Capacity]_vars
<1>1. ASSUME GateInv, Next, NEW r \in Requests,
             pc[r] = "reserve", pc'[r] = "overfull"
      PROVE  Cardinality(InLine) + leaked >= Capacity
  <2>1. pc \in [Requests -> States] /\ ToSet(fifo) = Queued
    BY <1>1 DEF GateInv, TypeOK, LineIsTheWaiters
  <2>2. PICK q \in Requests : Reserve(q) /\ q = r
    <3>1. ASSUME NEW q \in Requests, NEW to, Goto(q, to), to # "overfull"
          PROVE  FALSE
      BY <1>1, <2>1, <3>1 DEF Goto
    <3>2. ASSUME NEW n, NEW q \in Requests, NEW to, GivePermits(n, q, to), to # "overfull"
          PROVE  FALSE
      BY <1>1, <2>1, <3>2 DEF GivePermits
    <3>3. ASSUME NEW q \in Requests, Reserve(q) PROVE q = r
      BY <1>1, <2>1, <3>3 DEF Reserve, Goto
    <3>4. ~Reconfigure
      BY <1>1 DEF Reconfigure
    <3>5. \A q \in Requests : ~Arrive(q) /\ ~ResizeLoad(q) /\ ~ResizeShrink(q)
             /\ ~ResizeStore(q) /\ ~TryAcquire(q) /\ ~TryAcquireFails(q) /\ ~Refuse(q)
             /\ ~Timeout(q) /\ ~Expire(q) /\ ~Proceed(q) /\ ~Begin(q) /\ ~Finish(q)
             /\ ~Acquire(q)
      BY <3>1 DEF Arrive, ResizeLoad, ResizeShrink, ResizeStore, TryAcquire,
         TryAcquireFails, Refuse, Acquire, Timeout, Expire, Proceed, Begin, Finish
    <3>6. \A q \in Requests : ~ResizeGrow(q) /\ ~Release(q) /\ ~HangUp(q)
      BY <3>1, <3>2 DEF ResizeGrow, Release, HangUp
    <3>7. QED
      BY <1>1, <3>3, <3>4, <3>5, <3>6 DEF Next, Resize, Admit, Drop
  <2>3. waiting + 1 > Capacity
    BY <1>1, <2>1, <2>2 DEF Reserve, Goto
  <2>4. waiting = Cardinality(InLine) + leaked /\ waiting \in Nat
    <3>1. IsFiniteSet(InLine)
      BY CountType DEF InLine, At
    <3>2. Cardinality(InLine) \in Nat
      BY <3>1, FS_CardinalityType
    <3>3. QED
      BY <1>1, <3>2 DEF GateInv, WaitingAccounted, TypeOK
  <2>5. QED
    BY <2>3, <2>4, GateAssumption DEF GateAssumption
<1>2. GateInv /\ [Next]_vars => Fair
  BY <1>1, Zenon
<1>3. QED
  BY <1>2, GateInvariant, PTL DEF Spec, RefusedByTheLineOrTheLost

(* While nobody has changed the limit no resize finds anything to do, and  *)
(* the semaphore has as many permits as the limit says.                    *)
Unchanged ==
  reconfigs = 0 =>
    /\ minted = AtLeastOne(configured)
    /\ effective = AtLeastOne(configured)
    /\ \A r \in Requests :
         /\ pc[r] \notin {"resizing", "store"}
         /\ pc[r] = "resize" => lim[r] = AtLeastOne(configured)

LEMMA UnchangedKept ==
  ASSUME GateInv, Unchanged, [Next]_vars
  PROVE  Unchanged'
<1>1. /\ pc \in [Requests -> States] /\ lim \in [Requests -> Nat] /\ reconfigs \in Nat
      /\ ToSet(fifo) = Queued
  BY GateAssumption DEF GateInv, TypeOK, LineIsTheWaiters, GateAssumption
<1>2. CASE UNCHANGED vars
  BY <1>2 DEF vars, Unchanged
<1>3. CASE Reconfigure
  BY <1>1, <1>3 DEF Reconfigure, Unchanged
<1>4. SUFFICES ASSUME NEW r \in Requests,
                      Arrive(r) \/ Resize(r) \/ Admit(r) \/ Drop(r) \/ HangUp(r),
                      reconfigs' = 0
               PROVE  Unchanged'
  BY <1>2, <1>3 DEF Next, Unchanged
<1>5. configured' = configured /\ reconfigs = 0
  BY <1>4 DEF Arrive, Resize, ResizeLoad, ResizeGrow, ResizeShrink,
     ResizeStore, Admit, TryAcquire, TryAcquireFails, Reserve, Refuse, Acquire, Timeout,
     Expire, Proceed, Begin, Drop, Finish, Release, HangUp
<1>6. /\ minted = AtLeastOne(configured)
      /\ effective = AtLeastOne(configured)
      /\ \A q \in Requests :
           /\ pc[q] \notin {"resizing", "store"}
           /\ pc[q] = "resize" => lim[q] = AtLeastOne(configured)
  BY <1>5 DEF Unchanged
<1>7. ~ResizeGrow(r) /\ ~ResizeShrink(r) /\ ~ResizeStore(r)
  BY <1>6 DEF ResizeGrow, ResizeShrink, ResizeStore
<1>8. minted' = minted /\ effective' = effective
  BY <1>4, <1>7 DEF Arrive, Resize, ResizeLoad, Admit, TryAcquire, TryAcquireFails,
     Reserve, Refuse, Acquire, Timeout, Expire, Proceed, Begin, Drop, Finish, Release, HangUp
<1>9. ASSUME NEW q \in Requests
      PROVE  /\ pc'[q] \notin {"resizing", "store"}
             /\ pc'[q] = "resize" => lim'[q] = AtLeastOne(configured)
  <2>1. CASE Arrive(r)
    BY <1>1, <1>6, <2>1 DEF Arrive, Goto
  <2>2. CASE ResizeLoad(r)
    BY <1>1, <1>6, <2>2 DEF ResizeLoad, Goto
  <2>3. CASE ~Arrive(r) /\ ~ResizeLoad(r)
    <3>1. lim' = lim
      BY <1>4, <1>7, <2>3 DEF Resize, Admit, TryAcquire, TryAcquireFails, Reserve,
         Refuse, Acquire, Timeout, Expire, Proceed, Begin, Drop, Finish, Release, HangUp
    <3>2. \/ \E to \in States \ {"resize", "resizing", "store"} : Goto(r, to)
          \/ GivePermits(1, r, "idle")
      BY <1>4, <1>7, <2>3 DEF Resize, Admit, TryAcquire, TryAcquireFails, Reserve,
         Refuse, Acquire, Timeout, Expire, Proceed, Begin, Drop, Finish, Release, HangUp,
         States
    <3>3. pc'[q] = pc[q] \/ pc'[q] \in States \ {"resize", "resizing", "store"}
      BY <1>1, <3>2 DEF Goto, GivePermits, States
    <3>4. QED
      BY <1>6, <3>1, <3>3
  <2>4. QED
    BY <2>1, <2>2, <2>3
<1>10. QED
  BY <1>5, <1>6, <1>8, <1>9 DEF Unchanged

(* "Requests over that number wait in line": while nobody changes the      *)
(* limit, no more requests run than it allows.  (A change that two requests *)
(* carry out at once can add permits twice, and they stay.)                *)
THEOREM GateNeverOverTheLimit == Spec => []NeverOverTheLimit
<1>1. Init => Unchanged
  BY DEF Init, Unchanged
<1>2. GateInv /\ Unchanged /\ [Next]_vars => Unchanged'
  BY UnchangedKept
<1>3. GateInv /\ Unchanged => NeverOverTheLimit
  <2>1. SUFFICES ASSUME GateInv, Unchanged, reconfigs = 0
                 PROVE  Cardinality(Holders) <= AtLeastOne(configured)
    BY DEF NeverOverTheLimit
  <2>2. permits \in Nat /\ minted \in Nat /\ permits + Cardinality(Holders) = minted
    BY <2>1 DEF GateInv, TypeOK, PermitsAccounted
  <2>3. Cardinality(Holders) \in Nat
    <3>1. IsFiniteSet(Holders)
      BY CountType DEF Holders, At
    <3>2. QED
      BY <3>1, FS_CardinalityType
  <2>4. minted = AtLeastOne(configured)
    BY <2>1 DEF Unchanged
  <2>5. QED
    BY <2>2, <2>3, <2>4
<1>4. QED
  BY <1>1, <1>2, <1>3, GateInvariant, PTL DEF Spec
=============================================================================
