----------------------------- MODULE BooksProofs -----------------------------
(***************************************************************************)
(* The accounts for any number of requests, keys, processes and failures:  *)
(* the chain verifies while one process at a time has the store open, the  *)
(* sums count each request once, a flush that is answered saw everything   *)
(* written, and no row is billed twice or left behind a line, as long as   *)
(* no voided invoice is brought back.                                      *)
(***************************************************************************)
EXTENDS Books, FiniteSetTheorems, SequenceTheorems, TLAPS

-----------------------------------------------------------------------------
(* A family of subsets of a finite set has a smallest one: to prove         *)
(* something of all of them, take the family of those of which it fails.    *)
HasMinimal(F) == \E T \in F : \A U \in F : U \subseteq T => U = T

LEMMA MinimalSubset ==
  ASSUME NEW S, IsFiniteSet(S), NEW F \in SUBSET SUBSET S, F # {}
  PROVE  HasMinimal(F)
<1>1. F \subseteq FiniteSubsetsOf(S)
  BY FS_FiniteSubsetsOfFinite
<1>2. \E T \in F : \A U \in F : ~ (<<U, T>> \in StrictSubsetOrdering(S))
  BY <1>1, FS_StrictSubsetOrderingWellFounded, WFMin, Zenon
<1>3. \A U, T \in F : U \subseteq T /\ U # T => <<U, T>> \in StrictSubsetOrdering(S)
  BY DEF StrictSubsetOrdering
<1> QED
  BY <1>2, <1>3 DEF HasMinimal

LEMMA LeastNatural ==
  ASSUME NEW S \in SUBSET Nat, S # {}
  PROVE  \E m \in S : \A n \in S : m <= n
<1>1. PICK k \in S : TRUE
  OBVIOUS
<1>2. IsFiniteSet(0..k)
  BY FS_Interval
<1>3. PICK F : F = {0..n : n \in {i \in S : i <= k}}
  OBVIOUS
<1>4. F \in SUBSET SUBSET (0..k) /\ F # {}
  BY <1>1, <1>3
<1>5. PICK T \in F : \A U \in F : U \subseteq T => U = T
  <2>1. HasMinimal(F)
    BY <1>2, <1>4, MinimalSubset, Zenon
  <2> QED
    BY <2>1 DEF HasMinimal
<1>6. PICK m \in S : m <= k /\ T = 0..m
  BY <1>3, <1>5
<1>7. ASSUME NEW n \in S, n < m
      PROVE  FALSE
  <2>1. 0..n \in F /\ 0..n \subseteq 0..m
    BY <1>3, <1>6, <1>7
  <2>2. m \in 0..m /\ m \notin 0..n
    BY <1>7
  <2> QED
    BY <1>5, <1>6, <2>1, <2>2
<1> QED
  BY <1>6, <1>7

(* Max of FiniteSetsExt is a maximum. *)
LEMMA MaxIsMaximum ==
  ASSUME NEW S \in SUBSET Int, IsFiniteSet(S), S # {}
  PROVE  Max(S) \in S /\ \A n \in S : n <= Max(S)
<1>1. \E m \in S : \A n \in S : m >= n
  <2>1. PICK F : F = {{n \in S : n >= m} : m \in S}
    OBVIOUS
  <2>2. F \in SUBSET SUBSET S /\ F # {}
    BY <2>1
  <2>3. PICK T \in F : \A U \in F : U \subseteq T => U = T
    <3>1. HasMinimal(F)
      BY <2>2, MinimalSubset, Zenon
    <3> QED
      BY <3>1 DEF HasMinimal
  <2>4. PICK m \in S : T = {n \in S : n >= m}
    BY <2>1, <2>3
  <2>5. ASSUME NEW k \in S, k > m
        PROVE  FALSE
    <3>0. {n \in S : n >= k} \in F
      BY <2>1, <2>5
    <3>1. {n \in S : n >= k} \subseteq T
      <4>1. SUFFICES ASSUME NEW n \in S, n >= k PROVE n \in T
        OBVIOUS
      <4>2. n >= m
        BY <2>5, <4>1
      <4> QED
        BY <2>4, <4>2
    <3>2. m \in T /\ m \notin {n \in S : n >= k}
      BY <2>4, <2>5
    <3> QED
      BY <2>3, <3>0, <3>1, <3>2
  <2> QED
    BY <2>5
<1> QED
  BY <1>1 DEF Max

(* What a function makes of a finite set is finite.                         *)
LEMMA ImageFinite ==
  ASSUME NEW S, IsFiniteSet(S), NEW f
  PROVE  IsFiniteSet({f[x] : x \in S})
<1>1. PICK T : T = {f[x] : x \in S}
  OBVIOUS
<1>2. [x \in S |-> f[x]] \in Surjection(S, T)
  BY <1>1 DEF Surjection
<1>3. IsFiniteSet(T)
  BY <1>2, FS_Surjection
<1> QED
  BY <1>1, <1>3

-----------------------------------------------------------------------------
(* SumFunctionOnSet, which the library defines by recursion over the        *)
(* subsets of the set summed over.                                          *)

Add(f, h, s) == IF s = {} THEN 0
                ELSE LET x == CHOOSE x \in s : TRUE IN f[x] + h[s \ {x}]
IsSum(f, h, S) == h = [s \in SUBSET S |-> Add(f, h, s)]
SumOf(f, S)    == CHOOSE h : IsSum(f, h, S)

LEMMA SumIsSumOf ==
  ASSUME NEW f, NEW S
  PROVE  SumFunctionOnSet(f, S) = SumOf(f, S)[S]
BY DEF SumFunctionOnSet, FoldFunctionOnSet, MapThenFoldSet, SumOf, IsSum, Add

(* The recursion has a solution: one that is right for the sets of up to n  *)
(* elements gives one that is right for one element more.                   *)
LEMMA SumOfIsSum ==
  ASSUME NEW f, NEW S, IsFiniteSet(S)
  PROVE  IsSum(f, SumOf(f, S), S)
<1> DEFINE Right(n, h) ==
      /\ DOMAIN h = SUBSET S
      /\ h = [s \in SUBSET S |-> h[s]]
      /\ \A s \in SUBSET S : Cardinality(s) <= n => h[s] = Add(f, h, s)
<1>fin. \A s \in SUBSET S : IsFiniteSet(s) /\ Cardinality(s) \in Nat
                              /\ Cardinality(s) <= Cardinality(S)
  BY FS_Subset, FS_CardinalityType
<1>1. \E h : Right(0, h)
  <2>1. PICK h : h = [s \in SUBSET S |-> 0]
    OBVIOUS
  <2>2. ASSUME NEW s \in SUBSET S, Cardinality(s) <= 0
        PROVE  h[s] = Add(f, h, s)
    <3>1. s = {}
      BY <1>fin, <2>2, FS_EmptySet
    <3> QED
      BY <2>1, <3>1 DEF Add
  <2> QED
    BY <2>1, <2>2
<1>2. ASSUME NEW n \in Nat, NEW g, Right(n, g)
      PROVE  \E h : Right(n + 1, h)
  <2>1. PICK h : h = [s \in SUBSET S |-> Add(f, g, s)]
    OBVIOUS
  <2>2. ASSUME NEW s \in SUBSET S, Cardinality(s) <= n + 1, s # {}
        PROVE  h[s] = Add(f, h, s)
    <3> DEFINE x == CHOOSE x \in s : TRUE
    <3>1. x \in s /\ s \ {x} \in SUBSET S
      BY <2>2
    <3>2. Cardinality(s \ {x}) <= n
      <4>1. Cardinality(s \ {x}) = Cardinality(s) - 1
        BY <1>fin, <3>1, FS_RemoveElement
      <4> QED
        BY <1>fin, <2>2, <4>1
    <3>3. h[s \ {x}] = g[s \ {x}]
      BY <1>2, <2>1, <3>1, <3>2
    <3> QED
      BY <2>1, <3>3 DEF Add
  <2>3. ASSUME NEW s \in SUBSET S, s = {}
        PROVE  h[s] = Add(f, h, s)
    BY <2>1, <2>3 DEF Add
  <2> QED
    BY <2>1, <2>2, <2>3
<1>3. \E h : Right(Cardinality(S), h)
  <2>1. PICK F : F = {n \in Nat : ~ \E h : Right(n, h)}
    OBVIOUS
  <2> HIDE DEF Right
  <2>2. CASE F = {}
    BY <1>fin, <2>1, <2>2
  <2>3. CASE F # {}
    <3>1. PICK m \in F : \A n \in F : m <= n
      BY <2>1, <2>3, LeastNatural
    <3>2. m \in Nat /\ m # 0
      BY <1>1, <2>1
    <3>3. m - 1 \in Nat /\ (m - 1) + 1 = m /\ m - 1 \notin F
      BY <3>1, <3>2
    <3> QED
      BY <1>2, <2>1, <3>3
  <2> QED
    BY <2>2, <2>3
<1>4. \E h : IsSum(f, h, S)
  BY <1>3, <1>fin DEF IsSum
<1> QED
  BY <1>4 DEF SumOf

(* And one solution only. *)
LEMMA SumIsUnique ==
  ASSUME NEW f, NEW S, IsFiniteSet(S), NEW T \in SUBSET S,
         NEW g, IsSum(f, g, S), NEW h, IsSum(f, h, T)
  PROVE  g[T] = h[T]
<1>1. PICK F : F = {s \in SUBSET T : g[s] # h[s]}
  OBVIOUS
<1>2. SUFFICES ASSUME F # {} PROVE FALSE
  BY <1>1
<1>3. IsFiniteSet(T)
  BY FS_Subset
<1>4. PICK s \in F : \A u \in F : u \subseteq s => u = s
  BY <1>1, <1>2, <1>3, MinimalSubset DEF HasMinimal
<1>5. g[s] = Add(f, g, s) /\ h[s] = Add(f, h, s)
  BY <1>1 DEF IsSum
<1>6. s # {}
  BY <1>1, <1>5 DEF Add
<1>7. PICK x : x \in s /\ x = CHOOSE y \in s : TRUE
  BY <1>6
<1>8. s \ {x} \notin F
  BY <1>4, <1>7
<1> QED
  BY <1>1, <1>5, <1>6, <1>7, <1>8 DEF Add

LEMMA SumEmpty ==
  ASSUME NEW f
  PROVE  SumFunctionOnSet(f, {}) = 0
<1>1. IsFiniteSet({})
  BY FS_EmptySet
<1>2. SumOf(f, {}) = [s \in SUBSET {} |-> Add(f, SumOf(f, {}), s)]
  <2>1. IsSum(f, SumOf(f, {}), {})
    BY <1>1, SumOfIsSum, Zenon
  <2> QED
    BY <2>1, Zenon DEF IsSum
<1>3. {} \in SUBSET {}
  OBVIOUS
<1>4. SumOf(f, {})[{}] = Add(f, SumOf(f, {}), {})
  BY <1>2, <1>3, Zenon
<1> QED
  BY <1>4, SumIsSumOf DEF Add

LEMMA SumChosen ==
  ASSUME NEW f, NEW S, IsFiniteSet(S), S # {}
  PROVE  \E x \in S : SumFunctionOnSet(f, S) = f[x] + SumFunctionOnSet(f, S \ {x})
<1>1. PICK x : x \in S /\ x = CHOOSE y \in S : TRUE
  OBVIOUS
<1>2. IsFiniteSet(S \ {x}) /\ S \ {x} \in SUBSET S
  BY FS_RemoveElement
<1>3. SumOf(f, S)[S] = f[x] + SumOf(f, S)[S \ {x}]
  <2>1. SumOf(f, S) = [s \in SUBSET S |-> Add(f, SumOf(f, S), s)]
    BY SumOfIsSum DEF IsSum
  <2>2. S \in SUBSET S
    OBVIOUS
  <2>3. SumOf(f, S)[S] = Add(f, SumOf(f, S), S)
    BY <2>1, <2>2, Zenon
  <2> QED
    BY <1>1, <2>3 DEF Add
<1>4. SumOf(f, S)[S \ {x}] = SumOf(f, S \ {x})[S \ {x}]
  BY <1>2, SumOfIsSum, SumIsUnique
<1> QED
  BY <1>1, <1>3, <1>4, SumIsSumOf

LEMMA SumType ==
  ASSUME NEW f, NEW S, IsFiniteSet(S), \A x \in S : f[x] \in Int
  PROVE  SumFunctionOnSet(f, S) \in Int
<1>1. PICK F : F = {s \in SUBSET S : SumFunctionOnSet(f, s) \notin Int}
  OBVIOUS
<1>2. SUFFICES ASSUME F # {} PROVE FALSE
  BY <1>1
<1>3. PICK s \in F : \A u \in F : u \subseteq s => u = s
  <2>1. F \in SUBSET SUBSET S
    BY <1>1
  <2> QED
    BY <1>2, <2>1, MinimalSubset DEF HasMinimal
<1>4. IsFiniteSet(s)
  BY <1>1, FS_Subset
<1>5. s # {}
  BY <1>1, SumEmpty
<1>6. PICK x \in s : SumFunctionOnSet(f, s) = f[x] + SumFunctionOnSet(f, s \ {x})
  BY <1>4, <1>5, SumChosen
<1>7. SumFunctionOnSet(f, s \ {x}) \in Int /\ f[x] \in Int
  BY <1>1, <1>3
<1> QED
  BY <1>1, <1>6, <1>7

LEMMA SumNat ==
  ASSUME NEW f, NEW S, IsFiniteSet(S), \A x \in S : f[x] \in Nat
  PROVE  SumFunctionOnSet(f, S) \in Nat
<1>1. PICK F : F = {s \in SUBSET S : SumFunctionOnSet(f, s) \notin Nat}
  OBVIOUS
<1>2. SUFFICES ASSUME F # {} PROVE FALSE
  BY <1>1
<1>3. PICK s \in F : \A u \in F : u \subseteq s => u = s
  <2>1. F \in SUBSET SUBSET S
    BY <1>1
  <2> QED
    BY <1>2, <2>1, MinimalSubset DEF HasMinimal
<1>4. IsFiniteSet(s)
  BY <1>1, FS_Subset
<1>5. s # {}
  BY <1>1, SumEmpty
<1>6. PICK x \in s : SumFunctionOnSet(f, s) = f[x] + SumFunctionOnSet(f, s \ {x})
  BY <1>4, <1>5, SumChosen
<1>7. SumFunctionOnSet(f, s \ {x}) \in Nat /\ f[x] \in Nat
  BY <1>1, <1>3
<1> QED
  BY <1>1, <1>6, <1>7

(* Any element may be taken out first. *)
LEMMA SumRemove ==
  ASSUME NEW f, NEW S, IsFiniteSet(S), \A x \in S : f[x] \in Int, NEW x \in S
  PROVE  SumFunctionOnSet(f, S) = f[x] + SumFunctionOnSet(f, S \ {x})
<1>1. PICK F : F = {s \in SUBSET S : ~ \A y \in s : SumFunctionOnSet(f, s) = f[y] + SumFunctionOnSet(f, s \ {y})}
  OBVIOUS
<1>2. SUFFICES ASSUME F # {} PROVE FALSE
  BY <1>1
<1>3. PICK s \in F : \A u \in F : u \subseteq s => u = s
  <2>1. F \in SUBSET SUBSET S
    BY <1>1
  <2> QED
    BY <1>2, <2>1, MinimalSubset DEF HasMinimal
<1>4. IsFiniteSet(s) /\ s \in SUBSET S
  BY <1>1, FS_Subset
<1>5. PICK y \in s : SumFunctionOnSet(f, s) # f[y] + SumFunctionOnSet(f, s \ {y})
  BY <1>1
<1>6. PICK c \in s : SumFunctionOnSet(f, s) = f[c] + SumFunctionOnSet(f, s \ {c})
  BY <1>4, <1>5, SumChosen
<1>7. c # y
  BY <1>5, <1>6
<1>8. SumFunctionOnSet(f, s \ {c}) = f[y] + SumFunctionOnSet(f, (s \ {c}) \ {y})
  BY <1>1, <1>3, <1>4, <1>6, <1>7
<1>9. SumFunctionOnSet(f, s \ {y}) = f[c] + SumFunctionOnSet(f, (s \ {y}) \ {c})
  BY <1>1, <1>3, <1>4, <1>5, <1>7
<1>10. (s \ {c}) \ {y} = (s \ {y}) \ {c}
  OBVIOUS
<1>11. SumFunctionOnSet(f, (s \ {c}) \ {y}) \in Int
  BY <1>4, SumType, FS_RemoveElement
<1>12. SumFunctionOnSet(f, s \ {c}) \in Int /\ f[c] \in Int /\ f[y] \in Int
  BY <1>4, <1>6, SumType, FS_RemoveElement
<1>13. SumFunctionOnSet(f, (s \ {c}) \ {y}) = SumFunctionOnSet(f, (s \ {y}) \ {c})
  BY <1>10
<1> QED
  BY <1>5, <1>6, <1>8, <1>9, <1>11, <1>12, <1>13

LEMMA SumAdd ==
  ASSUME NEW f, NEW S, IsFiniteSet(S), NEW x, x \notin S,
         \A y \in S \union {x} : f[y] \in Int
  PROVE  SumFunctionOnSet(f, S \union {x}) = f[x] + SumFunctionOnSet(f, S)
<1>1. IsFiniteSet(S \union {x}) /\ (S \union {x}) \ {x} = S
  BY FS_AddElement
<1> QED
  BY <1>1, SumRemove

(* Only the values on the set count. *)
LEMMA SumSame ==
  ASSUME NEW f, NEW g, NEW S, IsFiniteSet(S),
         \A x \in S : f[x] \in Int /\ g[x] = f[x]
  PROVE  SumFunctionOnSet(g, S) = SumFunctionOnSet(f, S)
<1>1. PICK F : F = {s \in SUBSET S : SumFunctionOnSet(g, s) # SumFunctionOnSet(f, s)}
  OBVIOUS
<1>2. SUFFICES ASSUME F # {} PROVE FALSE
  BY <1>1
<1>3. PICK s \in F : \A u \in F : u \subseteq s => u = s
  <2>1. F \in SUBSET SUBSET S
    BY <1>1
  <2> QED
    BY <1>2, <2>1, MinimalSubset DEF HasMinimal
<1>4. IsFiniteSet(s) /\ s \in SUBSET S
  BY <1>1, FS_Subset
<1>5. s # {}
  BY <1>1, SumEmpty
<1>6. PICK x \in s : TRUE
  BY <1>5
<1>7. SumFunctionOnSet(g, s \ {x}) = SumFunctionOnSet(f, s \ {x})
  BY <1>1, <1>3, <1>4, <1>6
<1>8. /\ SumFunctionOnSet(f, s) = f[x] + SumFunctionOnSet(f, s \ {x})
      /\ SumFunctionOnSet(g, s) = g[x] + SumFunctionOnSet(g, s \ {x})
  BY <1>4, SumRemove
<1> QED
  BY <1>1, <1>4, <1>6, <1>7, <1>8

(* Sums over disjoint sets add up. *)
LEMMA SumDisjoint ==
  ASSUME NEW f, NEW S, IsFiniteSet(S), NEW T, IsFiniteSet(T), S \intersect T = {},
         \A x \in S \union T : f[x] \in Int
  PROVE  SumFunctionOnSet(f, S \union T) = SumFunctionOnSet(f, S) + SumFunctionOnSet(f, T)
<1>1. PICK F : F = {s \in SUBSET T : SumFunctionOnSet(f, S \union s) # SumFunctionOnSet(f, S) + SumFunctionOnSet(f, s)}
  OBVIOUS
<1>2. SUFFICES ASSUME F # {} PROVE FALSE
  BY <1>1
<1>3. PICK s \in F : \A u \in F : u \subseteq s => u = s
  <2>1. F \in SUBSET SUBSET T
    BY <1>1
  <2> QED
    BY <1>2, <2>1, MinimalSubset DEF HasMinimal
<1>4. IsFiniteSet(s) /\ s \in SUBSET T /\ IsFiniteSet(S \union s)
  BY <1>1, FS_Subset, FS_Union
<1>5. SumFunctionOnSet(f, S) \in Int
  BY SumType
<1>6. s # {}
  <2>1. SUFFICES ASSUME s = {} PROVE FALSE
    OBVIOUS
  <2>2. SumFunctionOnSet(f, s) = 0
    BY <2>1, SumEmpty
  <2>3. SumFunctionOnSet(f, S \union s) = SumFunctionOnSet(f, S)
    <3>1. S \union s = S
      BY <2>1
    <3> QED
      BY <3>1
  <2>4. SumFunctionOnSet(f, S \union s) # SumFunctionOnSet(f, S) + SumFunctionOnSet(f, s)
    BY <1>1
  <2> QED
    BY <1>5, <2>2, <2>3, <2>4
<1>7. PICK x \in s : TRUE
  BY <1>6
<1>8. SumFunctionOnSet(f, S \union (s \ {x})) = SumFunctionOnSet(f, S) + SumFunctionOnSet(f, s \ {x})
  BY <1>1, <1>3, <1>4, <1>7
<1>9. SumFunctionOnSet(f, s) = f[x] + SumFunctionOnSet(f, s \ {x})
  BY <1>4, SumRemove
<1>10. SumFunctionOnSet(f, S \union s) = f[x] + SumFunctionOnSet(f, (S \union s) \ {x})
  BY <1>4, SumRemove
<1>11. (S \union s) \ {x} = S \union (s \ {x})
  BY <1>4, <1>7
<1>12. SumFunctionOnSet(f, s \ {x}) \in Int /\ f[x] \in Int
  BY <1>4, SumType, FS_RemoveElement
<1>13. SumFunctionOnSet(f, S \union s) = f[x] + SumFunctionOnSet(f, S \union (s \ {x}))
  BY <1>10, <1>11
<1>14. SumFunctionOnSet(f, S \union s) # SumFunctionOnSet(f, S) + SumFunctionOnSet(f, s)
  BY <1>1
<1> QED
  BY <1>5, <1>8, <1>9, <1>12, <1>13, <1>14

LEMMA SumSplit ==
  ASSUME NEW f, NEW S, IsFiniteSet(S), \A x \in S : f[x] \in Int, NEW T \in SUBSET S
  PROVE  SumFunctionOnSet(f, S) = SumFunctionOnSet(f, T) + SumFunctionOnSet(f, S \ T)
<1>1. /\ IsFiniteSet(T) /\ IsFiniteSet(S \ T) /\ T \intersect (S \ T) = {}
      /\ T \union (S \ T) = S
  BY FS_Subset
<1> QED
  BY <1>1, SumDisjoint

LEMMA SumSingleton ==
  ASSUME NEW f, NEW x, f[x] \in Int
  PROVE  SumFunctionOnSet(f, {x}) = f[x]
<1>1. IsFiniteSet({x}) /\ {x} \ {x} = {}
  BY FS_Singleton
<1> QED
  BY <1>1, SumRemove, SumEmpty

-----------------------------------------------------------------------------
(* The inductive invariants. *)

(* What a process that does not have the store open has in memory, and     *)
(* where a request that is on its way is served.                           *)
Closed ==
  \A p \in Procs \ open :
    /\ queue[p] = <<>> /\ entries[p] = <<>> /\ batch[p] = {} /\ ~acks[p]
    /\ flush[p] = "no" /\ due[p] = {}

Served == \A r \in Requests : pc[r] \in {"booked", "closing"} => at[r] \in open

(* Each message has one moment at which it is sent. *)
Sent(kind, r) ==
  CASE kind = "input"  -> pc[r] # "new"
    [] kind = "final"  -> pc[r] \in {"closing", "over"}
    [] kind = "detail" -> pc[r] = "over"

SentOff   == {m \in Message \ {Marker} : Sent(m.kind, m.of)}
SentBy(p) == {m \in SentOff : at[m.of] = p}

InFlight ==
  \A p \in Procs :
    /\ \A i \in DOMAIN queue[p] : queue[p][i] # Marker => queue[p][i] \in SentBy(p)
    /\ \A i \in DOMAIN entries[p] : entries[p][i] \in SentBy(p)
    /\ \A r \in batch[p] : Detail(r) \in SentBy(p)

(* The marker of a flush follows what was sent before the flush, and when  *)
(* it is answered nothing of that is left.                                 *)
NoneDue(p)  == \A i \in DOMAIN queue[p] : queue[p][i] \notin due[p]
NoMarker(p) == \A i \in DOMAIN queue[p] : queue[p][i] # Marker
MarkerAt(p, j) ==
  /\ queue[p][j] = Marker
  /\ \A i \in DOMAIN queue[p] : queue[p][i] = Marker => i = j
  /\ \A i \in DOMAIN queue[p] : i > j => queue[p][i] \notin due[p]

Flushing(p) ==
  /\ due[p] \subseteq SentOff
  /\ flush[p] # "asked" => ~ acks[p] /\ NoMarker(p)
  /\ flush[p] = "asked" => IF acks[p] THEN NoMarker(p) /\ NoneDue(p)
                           ELSE \E j \in DOMAIN queue[p] : MarkerAt(p, j)
  /\ flush[p] = "acked" => /\ NoneDue(p)
                           /\ \A i \in DOMAIN entries[p] : entries[p][i] \notin due[p]
                           /\ \A r \in batch[p] : Detail(r) \notin due[p]

FlushInv == /\ TypeOK /\ Served /\ Closed /\ InFlight
            /\ \A p \in Procs : Flushing(p)

(* One writer, which remembers the newest row there is. *)
OneWriter ==
  /\ \A p, q \in open : p = q
  /\ \A p \in open : head[p] = Len(ledger)
  /\ \A n \in DOMAIN ledger : ledger[n].prev = n - 1

(* No entry is in two places, or written twice. *)
SameEntry(m, n) == m.kind = n.kind /\ m.of = n.of
IsRowOf(n, m) == ledger[n].phase = m.kind /\ ledger[n].of = m.of

Once(p) ==
  /\ \A i, j \in DOMAIN queue[p] :
       queue[p][i] \in Entry /\ SameEntry(queue[p][i], queue[p][j]) => i = j
  /\ \A i, j \in DOMAIN entries[p] : SameEntry(entries[p][i], entries[p][j]) => i = j
  /\ \A i \in DOMAIN queue[p], j \in DOMAIN entries[p] :
       ~ SameEntry(queue[p][i], entries[p][j])
  /\ \A n \in DOMAIN ledger : /\ \A i \in DOMAIN queue[p] : ~ IsRowOf(n, queue[p][i])
                              /\ \A i \in DOMAIN entries[p] : ~ IsRowOf(n, entries[p][i])
OneRow ==
  \A n, m \in DOMAIN ledger :
    ledger[n].phase = ledger[m].phase /\ ledger[n].of = ledger[m].of => n = m

(* What was booked comes before what it settles at. *)
InputFirst(p) ==
  /\ \A i \in DOMAIN queue[p] : queue[p][i].kind = "input" =>
       /\ \A j \in DOMAIN queue[p] :
            j < i /\ queue[p][j].kind = "final" => queue[p][j].of # queue[p][i].of
       /\ \A j \in DOMAIN entries[p] :
            entries[p][j].kind = "final" => entries[p][j].of # queue[p][i].of
       /\ \A n \in DOMAIN ledger :
            ledger[n].phase = "final" => ledger[n].of # queue[p][i].of
  /\ \A i \in DOMAIN entries[p] : entries[p][i].kind = "input" =>
       \A n \in DOMAIN ledger :
         ledger[n].phase = "final" => ledger[n].of # entries[p][i].of

(* A row was sent, and has the figures of its phase. *)
RowSent(n) == [kind |-> ledger[n].phase, of |-> ledger[n].of, booked |-> TRUE] \in SentOff
Figures ==
  \A n \in DOMAIN ledger :
    /\ RowSent(n)
    /\ ledger[n].phase = "input" => ledger[n].requests = 1 /\ ledger[n].tokens = Booked
    /\ ledger[n].phase = "final" =>
         ledger[n].tokens = IF ledger[n].requests = 0
                            THEN Charge[ledger[n].of] - Booked ELSE Charge[ledger[n].of]

(* A correction has something to correct, and a whole figure nothing. *)
IsInput(m, r) == m.kind = "input" /\ m.of = r
Waiting(p, r) == \/ \E i \in DOMAIN queue[p] : IsInput(queue[p][i], r)
                 \/ \E i \in DOMAIN entries[p] : IsInput(entries[p][i], r)
InputRow(r) == \E n \in DOMAIN ledger : ledger[n].phase = "input" /\ ledger[n].of = r

Kept(r)   == LostRow(r) \/ InputRow(r) \/ \E p \in Procs : Waiting(p, r)
Absent(r) == ~ InputRow(r) /\ \A p \in Procs : ~ Waiting(p, r)
Settles(booked, r) == IF booked THEN Kept(r) ELSE Absent(r)

Corrects(p) ==
  /\ \A i \in DOMAIN queue[p] :
       queue[p][i].kind = "final" => Settles(queue[p][i].booked, queue[p][i].of)
  /\ \A i \in DOMAIN entries[p] :
       entries[p][i].kind = "final" => Settles(entries[p][i].booked, entries[p][i].of)
RowsCorrect ==
  /\ \A n \in DOMAIN ledger :
       ledger[n].phase = "final" => Settles(ledger[n].requests = 0, ledger[n].of)
  /\ \A r \in Requests : pc[r] = "booked" => Kept(r)

SumInv == /\ TypeOK /\ Served /\ Closed /\ InFlight /\ Figures /\ OneRow
          /\ \A p \in Procs : Once(p) /\ InputFirst(p) /\ Corrects(p)
          /\ RowsCorrect

(* The periods of the invoices of a key that stand lie end to end from the *)
(* first row to the last line, each asks for what its rows cost, and all   *)
(* of them for what the rows up to the last line cost.                     *)
Apart(i, j)  == invoices[i].to <= invoices[j].from \/ invoices[j].to <= invoices[i].from
Covers(i, n) == invoices[i].from < n /\ n <= invoices[i].to
Drawn(i) ==
  /\ invoices[i].seal = Canonical(invoices[i])
  /\ \E k \in Keys : \E a, b \in Nat :
       /\ invoices[i].key = k /\ invoices[i].from = a /\ invoices[i].to = b
       /\ a < b /\ b <= Len(ledger)
       /\ invoices[i].total = Total(Lines(k, a, b))
EndToEnd(k) ==
  /\ \A i, j \in Standing(k) : i # j => Apart(i, j)
  /\ \A i \in Standing(k) :
       invoices[i].from = 0 \/ \E j \in Standing(k) : invoices[j].to = invoices[i].from
  /\ \A n \in 1..Cursor(k) : \E i \in Standing(k) : Covers(i, n)
  /\ \E c \in Nat : c = Cursor(k) /\ Asked(k) = Total(Lines(k, 0, c))

BillInv == /\ TypeOK /\ Served
           /\ \A i \in DOMAIN invoices : Drawn(i)
           /\ \A k \in Keys : EndToEnd(k)

-----------------------------------------------------------------------------
(* Sequences by their positions. *)

LEMMA Elements ==
  ASSUME NEW S, NEW s \in Seq(S)
  PROVE  /\ Len(s) \in Nat /\ DOMAIN s = 1..Len(s)
         /\ \A i \in DOMAIN s : s[i] \in S
         /\ ToSet(s) = {s[i] : i \in DOMAIN s}
         /\ s # <<>> <=> Len(s) # 0
BY DEF ToSet

LEMMA AppendPositions ==
  ASSUME NEW S, NEW s \in Seq(S), NEW e \in S
  PROVE  /\ Append(s, e) \in Seq(S)
         /\ Len(Append(s, e)) = Len(s) + 1
         /\ DOMAIN Append(s, e) = 1..Len(s) + 1
         /\ \A i \in 1..Len(s) : Append(s, e)[i] = s[i]
         /\ Append(s, e)[Len(s) + 1] = e
OBVIOUS

LEMMA TailPositions ==
  ASSUME NEW S, NEW s \in Seq(S), s # <<>>
  PROVE  /\ Tail(s) \in Seq(S)
         /\ Len(Tail(s)) = Len(s) - 1
         /\ DOMAIN Tail(s) = 1..Len(s) - 1
         /\ \A i \in 1..Len(s) - 1 : Tail(s)[i] = s[i + 1] /\ i + 1 \in DOMAIN s
         /\ 1 \in DOMAIN s /\ Head(s) = s[1] /\ Head(s) \in S
OBVIOUS

LEMMA ConcatPositions ==
  ASSUME NEW S, NEW s \in Seq(S), NEW t \in Seq(S)
  PROVE  /\ s \o t \in Seq(S)
         /\ Len(s \o t) = Len(s) + Len(t)
         /\ DOMAIN (s \o t) = 1..Len(s) + Len(t)
         /\ \A i \in 1..Len(s) : (s \o t)[i] = s[i]
         /\ \A i \in 1..Len(t) : (s \o t)[Len(s) + i] = t[i]
OBVIOUS

-----------------------------------------------------------------------------
(* The types. *)

LEMMA InitType == Init => TypeOK
<1> USE BooksAssumption
<1>1. SUFFICES ASSUME Init PROVE TypeOK
  OBVIOUS
<1> QED
  BY <1>1 DEF Init, TypeOK
LEMMA Figured ==
  ASSUME TypeOK, NEW m \in Entry, NEW prev \in Nat
  PROVE  RowOf(m, prev) \in Row
<1>1. /\ Charge[m.of] \in 1..Booked /\ Booked \in Nat \ {0} /\ m.of \in Requests
      /\ m.booked \in BOOLEAN /\ m.kind \in {"input", "final"}
  BY BooksAssumption DEF Entry
<1> QED
  BY <1>1 DEF RowOf, Row

LEMMA ChainedType ==
  ASSUME TypeOK, NEW p \in Procs
  PROVE  /\ Chained(entries[p], head[p]) \in Seq(Row)
         /\ Len(Chained(entries[p], head[p])) = Len(entries[p])
         /\ \A i \in 1..Len(entries[p]) : Chained(entries[p], head[p])[i]
              = RowOf(entries[p][i], IF i = 1 THEN head[p] ELSE Len(ledger) + i - 1)
<1>1. entries[p] \in Seq(Entry) /\ head[p] \in Nat /\ Len(ledger) \in Nat
  BY DEF TypeOK
<1>2. \A i \in 1..Len(entries[p]) :
         RowOf(entries[p][i], IF i = 1 THEN head[p] ELSE Len(ledger) + i - 1) \in Row
  <2>1. SUFFICES ASSUME NEW i \in 1..Len(entries[p])
                 PROVE RowOf(entries[p][i], IF i = 1 THEN head[p] ELSE Len(ledger) + i - 1) \in Row
    OBVIOUS
  <2>2. entries[p][i] \in Entry /\ (IF i = 1 THEN head[p] ELSE Len(ledger) + i - 1) \in Nat
    BY <1>1
  <2> QED
    BY <2>2, Figured
<1>3. DOMAIN entries[p] = 1..Len(entries[p])
  BY <1>1
<1> QED
  BY <1>1, <1>2, <1>3 DEF Chained

LEMMA MessageTypes ==
  ASSUME NEW r \in Requests
  PROVE  /\ Detail(r) \in Message /\ Detail(r) # Marker
         /\ \A b \in BOOLEAN :
              /\ [kind |-> "input", of |-> r, booked |-> b] \in Entry
              /\ [kind |-> "final", of |-> r, booked |-> b] \in Entry
BY DEF Message, Detail, Entry, Marker

LEMMA MessageKinds ==
  ASSUME NEW m \in Message
  PROVE  /\ m \in Entry <=> m.kind \in {"input", "final"}
         /\ m = Marker <=> m.kind = "flush"
         /\ m.kind = "detail" => m.of \in Requests /\ m = Detail(m.of)
         /\ m.kind \in {"input", "final", "detail", "flush"}
         /\ m # Marker => m.of \in Requests
<1>1. CASE m \in Entry
  <2>1. m = [kind |-> m.kind, of |-> m.of, booked |-> m.booked]
        /\ m.kind \in {"input", "final"} /\ m.of \in Requests
    BY <1>1 DEF Entry
  <2> QED
    BY <1>1, <2>1 DEF Marker
<1>2. CASE m \in [kind : {"detail"}, of : Requests, booked : {TRUE}]
  <2>1. m = [kind |-> m.kind, of |-> m.of, booked |-> m.booked]
        /\ m.kind = "detail" /\ m.of \in Requests /\ m.booked = TRUE
    BY <1>2
  <2>2. m \notin Entry
    BY <2>1 DEF Entry
  <2> QED
    BY <2>1, <2>2 DEF Marker, Detail
<1>3. CASE m = Marker
  BY <1>3 DEF Marker, Entry
<1> QED
  BY <1>1, <1>2, <1>3 DEF Message

LEMMA TrySendType ==
  ASSUME TypeOK, NEW p \in Procs, NEW m \in Message, TrySend(p, m)
  PROVE  /\ queue' \in [Procs -> Seq(Message)]
         /\ \A q \in Procs : Len(queue'[q]) <= Capacity
         /\ lost' \subseteq Entry
<1> USE DEF TypeOK
<1>1. CASE Len(queue[p]) < Capacity
  <2>1. Append(queue[p], m) \in Seq(Message) /\ Len(Append(queue[p], m)) = Len(queue[p]) + 1
    OBVIOUS
  <2>2. queue' = [queue EXCEPT ![p] = Append(queue[p], m)] /\ lost' = lost
    BY <1>1 DEF TrySend
  <2> QED
    BY <1>1, <2>1, <2>2, BooksAssumption
<1>2. CASE ~ (Len(queue[p]) < Capacity)
  <2>1. queue' = queue /\ lost' = lost \union {n \in {m} : n.kind \in {"input", "final"}}
    BY <1>2 DEF TrySend, Lose
  <2>2. m.kind \in {"input", "final"} => m \in Entry
    BY MessageKinds
  <2> QED
    BY <2>1, <2>2
<1> QED
  BY <1>1, <1>2

LEMMA PushType ==
  ASSUME TypeOK, NEW p \in Procs, NEW m \in Message, Push(p, m)
  PROVE  /\ batch' \in [Procs -> SUBSET Requests]
         /\ entries' \in [Procs -> Seq(Entry)]
         /\ acks' \in [Procs -> BOOLEAN]
<1>1. batch[p] \union (IF m.kind = "detail" THEN {m.of} ELSE {}) \subseteq Requests
  BY MessageKinds DEF TypeOK
<1>2. m \in Entry => Append(entries[p], m) \in Seq(Entry)
  BY DEF TypeOK
<1>3. batch' \in [Procs -> SUBSET Requests]
  BY <1>1 DEF TypeOK, Push
<1>4. entries' \in [Procs -> Seq(Entry)]
  BY <1>2 DEF TypeOK, Push
<1>5. acks' \in [Procs -> BOOLEAN]
  BY DEF TypeOK, Push
<1> QED
  BY <1>3, <1>4, <1>5

LEMMA ClearType ==
  ASSUME TypeOK, NEW p \in Procs, Clear(p)
  PROVE  /\ batch' \in [Procs -> SUBSET Requests]
         /\ entries' \in [Procs -> Seq(Entry)]
         /\ acks' \in [Procs -> BOOLEAN]
BY DEF TypeOK, Clear

(* A set of invoices or of rows is finite, and so are sums over it. *)
LEMMA LinesType ==
  ASSUME TypeOK, NEW k, NEW from \in Nat, NEW to \in Nat, to <= Len(ledger)
  PROVE  /\ IsFiniteSet(Lines(k, from, to)) /\ Lines(k, from, to) \subseteq 1..Len(ledger)
         /\ Total(Lines(k, from, to)) \in Nat
<1>1. Len(ledger) \in Nat /\ DOMAIN ledger = 1..Len(ledger)
      /\ \A n \in 1..Len(ledger) : ledger[n] \in Row
  BY DEF TypeOK
<1>2. IsFiniteSet(1..Len(ledger))
  BY <1>1, FS_Interval
<1>3. Lines(k, from, to) \subseteq 1..Len(ledger)
  BY <1>1 DEF Lines
<1>4. IsFiniteSet(Lines(k, from, to))
  BY <1>2, <1>3, FS_Subset
<1>5. \A n \in Lines(k, from, to) : [i \in DOMAIN ledger |-> ledger[i].cost][n] \in Nat
  BY <1>1, <1>3, BooksAssumption DEF Row
<1>6. Total(Lines(k, from, to)) \in Nat
  BY <1>4, <1>5, SumNat DEF Total
<1> QED
  BY <1>3, <1>4, <1>6

LEMMA InvoiceType ==
  ASSUME TypeOK
  PROVE  /\ Len(invoices) \in Nat /\ DOMAIN invoices = 1..Len(invoices)
         /\ \A i \in DOMAIN invoices :
              /\ invoices[i] \in Invoice
              /\ invoices[i].from \in Nat /\ invoices[i].to \in Nat /\ invoices[i].total \in Nat
              /\ invoices[i].key \in Keys /\ invoices[i].status \in Statuses
<1>1. invoices \in Seq(Invoice)
  BY DEF TypeOK
<1>2. Len(invoices) \in Nat /\ DOMAIN invoices = 1..Len(invoices)
      /\ \A i \in DOMAIN invoices : invoices[i] \in Invoice
  BY <1>1
<1>3. \A i \in Invoice : /\ i.from \in Nat /\ i.to \in Nat /\ i.total \in Nat
                         /\ i.key \in Keys /\ i.status \in Statuses
  BY Zenon DEF Invoice
<1> QED
  BY <1>2, <1>3

LEMMA StandingType ==
  ASSUME TypeOK, NEW k
  PROVE  IsFiniteSet(Standing(k)) /\ Standing(k) \subseteq DOMAIN invoices
<1>1. Standing(k) \subseteq DOMAIN invoices
  BY DEF Standing
<1>2. IsFiniteSet(DOMAIN invoices)
  <2>1. Len(invoices) \in Nat /\ DOMAIN invoices = 1..Len(invoices)
    BY InvoiceType
  <2> QED
    BY <2>1, FS_Interval
<1> QED
  BY <1>1, <1>2, FS_Subset

LEMMA CursorType ==
  ASSUME TypeOK, NEW k
  PROVE  /\ Cursor(k) \in Nat
         /\ \A i \in Standing(k) : invoices[i].to <= Cursor(k)
         /\ Cursor(k) = 0 \/ \E i \in Standing(k) : invoices[i].to = Cursor(k)
<1>1. \A i \in DOMAIN invoices : invoices[i].to \in Nat
  BY InvoiceType
<1>2. IsFiniteSet(Standing(k)) /\ Standing(k) \subseteq DOMAIN invoices
  BY StandingType
<1>3. PICK S : S = {0} \union {invoices[i].to : i \in Standing(k)}
  OBVIOUS
<1>4. IsFiniteSet(S) /\ S \in SUBSET Int /\ S # {} /\ S \subseteq Nat
  <2>1. IsFiniteSet({invoices[i].to : i \in Standing(k)})
    <3>1. PICK f : f = [i \in Standing(k) |-> invoices[i].to]
      OBVIOUS
    <3>2. IsFiniteSet({f[i] : i \in Standing(k)})
      BY <1>2, ImageFinite
    <3> QED
      BY <3>1, <3>2
  <2>2. S = {invoices[i].to : i \in Standing(k)} \union {0}
    BY <1>3
  <2>3. IsFiniteSet(S)
    BY <2>1, <2>2, FS_AddElement
  <2> QED
    BY <1>1, <1>2, <1>3, <2>3
<1>5. Max(S) \in S /\ \A n \in S : n <= Max(S)
  BY <1>4, MaxIsMaximum
<1>6. Cursor(k) = Max(S)
  BY <1>3 DEF Cursor
<1> QED
  BY <1>3, <1>4, <1>5, <1>6

LEMMA BillIs ==
  ASSUME TypeOK, NEW k \in Keys
  PROVE  /\ Bill(k).key = k /\ Bill(k).from = Cursor(k) /\ Bill(k).to = Len(ledger)
         /\ Bill(k).total = Total(Owing(k)) /\ Bill(k).status = "issued"
         /\ Bill(k).seal = Canonical(Bill(k))
         /\ Cursor(k) <= Len(ledger) => Bill(k) \in Invoice
<1>1. PICK c \in Nat : c = Cursor(k)
  BY CursorType
<1>2. PICK l \in Nat : l = Len(ledger)
  BY DEF TypeOK
<1>3. PICK t : t = Total(Owing(k))
  OBVIOUS
<1>4. Bill(k) = [key |-> k, from |-> c, to |-> l, total |-> t, status |-> "issued",
                 seal |-> <<k, c, l, t>>]
  <2>1. PICK i : i = [key |-> k, from |-> c, to |-> l, total |-> t, status |-> "issued",
                      seal |-> <<>>]
    OBVIOUS
  <2>2. Bill(k) = [i EXCEPT !.seal = Canonical(i)]
    BY <1>1, <1>2, <1>3, <2>1 DEF Bill
  <2>3. Canonical(i) = <<k, c, l, t>>
    BY <2>1 DEF Canonical
  <2> QED
    BY <2>1, <2>2, <2>3
<1>5. c <= l => t \in Nat
  <2>1. ASSUME c <= l PROVE Total(Lines(k, c, l)) \in Nat
    <3>1. c \in Nat /\ l \in Nat /\ l <= Len(ledger)
      BY <1>2
    <3> QED
      BY <3>1, LinesType
  <2> QED
    BY <1>1, <1>2, <1>3, <2>1 DEF Owing
<1>6. c <= l => Bill(k) \in Invoice
  BY <1>4, <1>5 DEF Invoice, Statuses
<1> QED
  BY <1>1, <1>2, <1>3, <1>4, <1>6 DEF Canonical

LEMMA IssueType ==
  ASSUME TypeOK, NEW k \in Keys, NEW force \in BOOLEAN, Issue(k, force)
  PROVE  TypeOK' /\ Cursor(k) < Len(ledger)
<1>1. Cursor(k) < Len(ledger)
  <2>1. Cursor(k) \in Nat /\ Len(ledger) \in Nat /\ ~ (Len(ledger) <= Cursor(k))
    BY CursorType DEF TypeOK, Issue, Skipped
  <2> QED
    BY <2>1
<1>2. Bill(k) \in Invoice
  <2>1. Cursor(k) <= Len(ledger)
    BY <1>1, CursorType DEF TypeOK
  <2> QED
    BY <2>1, BillIs
<1>3. invoices' \in Seq(Invoice)
  BY <1>2 DEF Issue, TypeOK
<1> QED
  BY <1>1, <1>3 DEF Issue, TypeOK, request, process, history, taken

LEMMA SetStatusIs ==
  ASSUME TypeOK, NEW i \in DOMAIN invoices, NEW status \in Statuses, SetStatus(i, status)
  PROVE  /\ invoices' \in Seq(Invoice) /\ Len(invoices') = Len(invoices)
         /\ DOMAIN invoices' = DOMAIN invoices
         /\ \A j \in DOMAIN invoices :
              /\ invoices'[j].key = invoices[j].key /\ invoices'[j].from = invoices[j].from
              /\ invoices'[j].to = invoices[j].to /\ invoices'[j].total = invoices[j].total
              /\ invoices'[j].seal = invoices[j].seal
              /\ invoices'[j].status = IF j = i THEN status ELSE invoices[j].status
<1>1. invoices \in Seq(Invoice) /\ i \in 1..Len(invoices) /\ Len(invoices) \in Nat
      /\ DOMAIN invoices = 1..Len(invoices) /\ \A j \in DOMAIN invoices : invoices[j] \in Invoice
  BY InvoiceType DEF TypeOK
<1>2. PICK e : e = [invoices[i] EXCEPT !.status = status]
  OBVIOUS
<1>3. e \in Invoice /\ e.key = invoices[i].key /\ e.from = invoices[i].from
      /\ e.to = invoices[i].to /\ e.total = invoices[i].total /\ e.seal = invoices[i].seal
      /\ e.status = status
  BY <1>1, <1>2 DEF Invoice
<1>4. invoices' = [invoices EXCEPT ![i] = e]
  BY <1>2 DEF SetStatus
<1>5. invoices' \in Seq(Invoice) /\ Len(invoices') = Len(invoices)
  BY <1>1, <1>3, <1>4
<1> QED
  BY <1>1, <1>3, <1>4, <1>5

LEMMA TypeStep == TypeOK /\ Served /\ [Next]_vars => TypeOK'
<1> SUFFICES ASSUME TypeOK, Served, [Next]_vars
             PROVE  TypeOK'
  OBVIOUS
<1> USE BooksAssumption
<1>1. ASSUME NEW p \in Procs, Open(p)
      PROVE  TypeOK'
  BY <1>1 DEF Open, TypeOK, request, base, history, taken, LastHash
<1>2. ASSUME NEW p \in Procs, Crash(p) \/ Exit(p)
      PROVE  TypeOK'
  <2>1. Die(p) /\ failures' \in 0..MaxFailures
    BY <1>2 DEF Crash, Exit, TypeOK
  <2>2. lost' \subseteq Entry
    <3>1. Unwritten(p) \subseteq Message
      <4>1. ToSet(queue[p]) \subseteq Message /\ ToSet(entries[p]) \subseteq Entry /\ batch[p] \subseteq Requests
        BY Elements DEF TypeOK
      <4>2. Entry \subseteq Message /\ \A r \in Requests : Detail(r) \in Message
        BY MessageTypes DEF Message
      <4> QED
        BY <4>1, <4>2 DEF Unwritten
    <3>2. lost' = lost \union {m \in Unwritten(p) : m.kind \in {"input", "final"}}
      BY <2>1 DEF Die, Lose
    <3> QED
      BY <3>1, <3>2, MessageKinds DEF TypeOK
  <2>3. /\ batch' \in [Procs -> SUBSET Requests]
        /\ entries' \in [Procs -> Seq(Entry)]
        /\ acks' \in [Procs -> BOOLEAN]
    BY <2>1, ClearType DEF Die
  <2>4. /\ pc' \in [Requests -> {"new", "booked", "closing", "over"}]
        /\ queue' \in [Procs -> Seq(Message)]
        /\ \A q \in Procs : Len(queue'[q]) <= Capacity
    BY <2>1 DEF Die, TypeOK
  <2> QED
    BY <2>1, <2>2, <2>3, <2>4 DEF Die, TypeOK, base
<1>3. ASSUME NEW p \in Procs, Take(p)
      PROVE  TypeOK'
  <2>1. Tail(queue[p]) \in Seq(Message) /\ Head(queue[p]) \in Message
        /\ Len(Tail(queue[p])) = Len(queue[p]) - 1
    BY <1>3, TailPositions DEF Take, TypeOK
  <2>2. /\ batch' \in [Procs -> SUBSET Requests]
        /\ entries' \in [Procs -> Seq(Entry)]
        /\ acks' \in [Procs -> BOOLEAN]
    BY <1>3, <2>1, PushType DEF Take
  <2>3. queue' \in [Procs -> Seq(Message)] /\ \A q \in Procs : Len(queue'[q]) <= Capacity
    BY <1>3, <2>1 DEF Take, TypeOK
  <2> QED
    BY <1>3, <2>2, <2>3 DEF Take, TypeOK, request, base, history
<1>4. ASSUME NEW p \in Procs, Commit(p)
      PROVE  TypeOK'
  <2>1. ledger' \in Seq(Row)
    <3>1. ledger \in Seq(Row) /\ Chained(entries[p], head[p]) \in Seq(Row)
      BY ChainedType DEF TypeOK
    <3>2. ledger' = ledger \o Chained(entries[p], head[p])
      BY <1>4 DEF Commit
    <3> QED
      BY <3>1, <3>2, ConcatPositions
  <2>2. head' \in [Procs -> Nat]
    BY <1>4 DEF Commit, TypeOK
  <2>3. /\ batch' \in [Procs -> SUBSET Requests]
        /\ entries' \in [Procs -> Seq(Entry)]
        /\ acks' \in [Procs -> BOOLEAN]
    BY <1>4, ClearType DEF Commit, AnswerFlush
  <2>4. flush' \in [Procs -> {"no", "asked", "acked"}] /\ details' \subseteq Requests
    BY <1>4 DEF Commit, AnswerFlush, TypeOK
  <2> QED
    BY <1>4, <2>1, <2>2, <2>3, <2>4 DEF Commit, TypeOK, request, history
<1>5. ASSUME NEW p \in Procs, CommitFails(p)
      PROVE  TypeOK'
  <2>1. lost' \subseteq Entry
    BY <1>5, Elements DEF CommitFails, Lose, TypeOK
  <2>2. /\ batch' \in [Procs -> SUBSET Requests]
        /\ entries' \in [Procs -> Seq(Entry)]
        /\ acks' \in [Procs -> BOOLEAN]
    BY <1>5, ClearType DEF CommitFails, AnswerFlush
  <2>3. flush' \in [Procs -> {"no", "asked", "acked"}] /\ failures' \in 0..MaxFailures
    BY <1>5 DEF CommitFails, AnswerFlush, TypeOK
  <2> QED
    BY <1>5, <2>1, <2>2, <2>3 DEF CommitFails, TypeOK, request, base
<1>6. ASSUME NEW p \in Procs, AskFlush(p)
      PROVE  TypeOK'
  <2>1. Append(queue[p], Marker) \in Seq(Message) /\ Len(Append(queue[p], Marker)) = Len(queue[p]) + 1
    <3>1. queue[p] \in Seq(Message) /\ Marker \in Message
      BY DEF TypeOK, Message
    <3> QED
      BY <3>1, AppendPositions
  <2>2. queue' \in [Procs -> Seq(Message)] /\ \A q \in Procs : Len(queue'[q]) <= Capacity
    BY <1>6, <2>1 DEF AskFlush, TypeOK
  <2>3. Unwritten(p) \subseteq Message
    <3>1. ToSet(queue[p]) \subseteq Message /\ ToSet(entries[p]) \subseteq Entry /\ batch[p] \subseteq Requests
      BY Elements DEF TypeOK
    <3>2. Entry \subseteq Message /\ \A r \in Requests : Detail(r) \in Message
      BY MessageTypes DEF Message
    <3> QED
      BY <3>1, <3>2 DEF Unwritten
  <2> QED
    BY <1>6, <2>2, <2>3 DEF AskFlush, TypeOK, request, base, taken
<1>7. ASSUME NEW r \in Requests, NEW p \in Procs, LedgerInput(r, p) \/ Finish(r, p)
      PROVE  TypeOK'
  <2>1. PICK m \in Message : TrySend(p, m)
    BY <1>7, MessageTypes DEF LedgerInput, Finish, Message
  <2>2. /\ queue' \in [Procs -> Seq(Message)]
        /\ \A q \in Procs : Len(queue'[q]) <= Capacity
        /\ lost' \subseteq Entry
    BY <2>1, TrySendType
  <2> QED
    <3>1. pc' \in [Requests -> {"new", "booked", "closing", "over"}]
          /\ at' \in [Requests -> Procs \union {Nobody}]
      <4>1. at' = [at EXCEPT ![r] = p] /\ \E c \in {"booked", "closing"} : pc' = [pc EXCEPT ![r] = c]
        BY <1>7, Zenon DEF LedgerInput, Finish
      <4> QED
        BY <4>1 DEF TypeOK
    <3>2. UNCHANGED <<open, taken, head, flush, base, failures, due>>
      BY <1>7 DEF LedgerInput, Finish
    <3> QED
      BY <2>2, <3>1, <3>2 DEF TypeOK, base, taken
<1>8. ASSUME NEW r \in Requests, Insert(r)
      PROVE  TypeOK'
  <2>0. at[r] \in Procs
    BY <1>8 DEF Insert, Served, TypeOK
  <2>1. TrySend(at[r], Detail(r)) /\ Detail(r) \in Message
    BY <1>8, MessageTypes DEF Insert
  <2>2. /\ queue' \in [Procs -> Seq(Message)]
        /\ \A q \in Procs : Len(queue'[q]) <= Capacity
        /\ lost' \subseteq Entry
    BY <1>8, <2>0, <2>1, TrySendType
  <2>3. pc' \in [Requests -> {"new", "booked", "closing", "over"}]
    BY <1>8 DEF Insert, TypeOK
  <2>4. UNCHANGED <<at, open, taken, head, flush, base, failures, due>>
    BY <1>8 DEF Insert
  <2> QED
    BY <2>2, <2>3, <2>4 DEF TypeOK, base, taken
<1>9. ASSUME NEW r \in Requests, HangUp(r)
      PROVE  TypeOK'
  BY <1>9 DEF HangUp, TypeOK, process, base, history, taken
<1>10. ASSUME NEW k \in Keys, IssueInvoice(k) \/ BillingCycle(k)
       PROVE  TypeOK'
  BY <1>10, IssueType DEF IssueInvoice, BillingCycle
<1>11. ASSUME NEW i \in DOMAIN invoices, NEW status \in Statuses, SetStatus(i, status)
       PROVE  TypeOK'
  <2>1. invoices' \in Seq(Invoice)
    BY <1>11, SetStatusIs
  <2> QED
    BY <1>11, <2>1 DEF SetStatus, TypeOK, request, process, history, taken
<1>12. ASSUME UNCHANGED vars
       PROVE  TypeOK'
  BY <1>12 DEF vars, TypeOK, request, process, base, history, taken
<1> QED
  BY <1>1, <1>2, <1>3, <1>4, <1>5, <1>6, <1>7, <1>8, <1>9, <1>10, <1>11, <1>12 DEF Next

LEMMA ServedStep == TypeOK /\ Served /\ [Next]_vars => Served'
<1> SUFFICES ASSUME TypeOK, Served, [Next]_vars
             PROVE  Served'
  OBVIOUS
<1>1. ASSUME NEW p \in Procs, Open(p)
      PROVE  Served'
  BY <1>1 DEF Open, Served, request
<1>2. ASSUME NEW p \in Procs, Crash(p) \/ Exit(p)
      PROVE  Served'
  <2>1. open' = open \ {p} /\ at' = at
        /\ pc' = [r \in Requests |-> IF at[r] = p THEN "over" ELSE pc[r]]
    BY <1>2 DEF Crash, Exit, Die
  <2> QED
    BY <2>1 DEF Served
<1>3. ASSUME NEW p \in Procs, Take(p) \/ Commit(p) \/ CommitFails(p) \/ AskFlush(p)
      PROVE  Served'
  BY <1>3 DEF Take, Commit, CommitFails, AskFlush, Served, request
<1>4. ASSUME NEW r \in Requests, NEW p \in Procs, LedgerInput(r, p) \/ Finish(r, p)
      PROVE  Served'
  BY <1>4 DEF LedgerInput, Finish, Served, TypeOK
<1>5. ASSUME NEW r \in Requests, Insert(r) \/ HangUp(r)
      PROVE  Served'
  BY <1>5 DEF Insert, HangUp, Served, TypeOK, process
<1>6. ASSUME NEW k \in Keys, IssueInvoice(k) \/ BillingCycle(k)
      PROVE  Served'
  BY <1>6 DEF IssueInvoice, BillingCycle, Issue, Served, request, process
<1>7. ASSUME NEW i \in DOMAIN invoices, NEW status \in Statuses, SetStatus(i, status)
      PROVE  Served'
  BY <1>7 DEF SetStatus, Served, request, process
<1>8. ASSUME UNCHANGED vars
      PROVE  Served'
  BY <1>8 DEF vars, Served, request, process
<1> QED
  BY <1>1, <1>2, <1>3, <1>4, <1>5, <1>6, <1>7, <1>8 DEF Next

THEOREM BooksTypeCorrect == Spec => [](TypeOK /\ Served)
<1>1. Init => Served
  BY DEF Init, Served
<1> QED
  BY <1>1, InitType, TypeStep, ServedStep, PTL DEF Spec

-----------------------------------------------------------------------------
(* The steps as the proofs below see them: what a request sends goes one    *)
(* way, and what is done to invoices touches nothing else.                  *)

Sends(r, p, m) ==
  /\ p \in open /\ m \in Message /\ m # Marker /\ m.of = r
  /\ TrySend(p, m)
  /\ \/ m.kind = "input" /\ m.booked /\ pc[r] = "new" /\ pc'[r] = "booked"
     \/ /\ m.kind = "final" /\ pc[r] \in {"new", "booked"} /\ pc'[r] = "closing"
        /\ m.booked = (pc[r] = "booked")
     \/ m.kind = "detail" /\ pc[r] = "closing" /\ pc'[r] = "over"
  /\ \A q \in Requests \ {r} : pc'[q] = pc[q]
  /\ at' = [at EXCEPT ![r] = p]
  /\ pc[r] # "new" => at[r] = p
  /\ UNCHANGED <<open, batch, entries, acks, head, flush, ledger, details,
                 invoices, failures, due>>

OnlyInvoices ==
  UNCHANGED <<pc, at, open, queue, batch, entries, acks, head, flush, ledger, details,
              failures, lost, due>>

LEMMA InputSends ==
  ASSUME TypeOK, Served, NEW r \in Requests, NEW p \in Procs, LedgerInput(r, p)
  PROVE  \E m : Sends(r, p, m)
<1>1. PICK m : m = [kind |-> "input", of |-> r, booked |-> TRUE]
  OBVIOUS
<1>2. m \in Message /\ m # Marker /\ m.of = r /\ m.kind = "input" /\ m.booked
  BY <1>1, MessageTypes DEF Message, Marker
<1>3. pc[r] = "new" /\ pc'[r] = "booked" /\ \A q \in Requests \ {r} : pc'[q] = pc[q]
  BY DEF LedgerInput, TypeOK
<1> QED
  BY <1>1, <1>2, <1>3 DEF Sends, LedgerInput, taken, base

LEMMA FinishSends ==
  ASSUME TypeOK, Served, NEW r \in Requests, NEW p \in Procs, Finish(r, p)
  PROVE  \E m : Sends(r, p, m)
<1>1. PICK m : m = [kind |-> "final", of |-> r, booked |-> pc[r] = "booked"]
  OBVIOUS
<1>2. m \in Message /\ m # Marker /\ m.of = r /\ m.kind = "final" /\ m.booked = (pc[r] = "booked")
  <2>1. (pc[r] = "booked") \in BOOLEAN
    OBVIOUS
  <2>2. m \in Entry
    BY <1>1, <2>1, MessageTypes
  <2> QED
    BY <1>1, <2>2 DEF Message, Marker
<1>3. pc[r] \in {"new", "booked"} /\ pc'[r] = "closing" /\ \A q \in Requests \ {r} : pc'[q] = pc[q]
  BY DEF Finish, TypeOK
<1>4. p \in open /\ (pc[r] # "new" => at[r] = p)
  BY DEF Finish, Served
<1>5. TrySend(p, m) /\ at' = [at EXCEPT ![r] = p]
      /\ UNCHANGED <<open, taken, head, flush, base, failures, due>>
  BY <1>1 DEF Finish
<1> QED
  BY <1>2, <1>3, <1>4, <1>5 DEF Sends, taken, base

LEMMA InsertSends ==
  ASSUME TypeOK, Served, NEW r \in Requests, Insert(r)
  PROVE  at[r] \in Procs /\ \E m : Sends(r, at[r], m)
<1>1. PICK m : m = Detail(r)
  OBVIOUS
<1>2. m \in Message /\ m # Marker /\ m.of = r /\ m.kind = "detail"
  BY <1>1, MessageTypes DEF Detail
<1>3. pc[r] = "closing" /\ pc'[r] = "over" /\ \A q \in Requests \ {r} : pc'[q] = pc[q]
  BY DEF Insert, TypeOK
<1>4. at[r] \in open /\ at[r] \in Procs
  BY <1>3 DEF Served, TypeOK
<1>5. at' = [at EXCEPT ![r] = at[r]]
  BY DEF Insert, TypeOK
<1> QED
  BY <1>1, <1>2, <1>3, <1>4, <1>5 DEF Sends, Insert, taken, base

LEMMA Steps ==
  ASSUME TypeOK, Served, [Next]_vars
  PROVE  \/ \E p \in Procs : \/ Open(p) \/ Crash(p) \/ Exit(p) \/ Take(p) \/ Commit(p)
                             \/ CommitFails(p) \/ AskFlush(p)
         \/ \E r \in Requests, p \in Procs : \E m : Sends(r, p, m)
         \/ \E r \in Requests : HangUp(r)
         \/ OnlyInvoices
<1>1. ASSUME NEW k \in Keys, IssueInvoice(k) \/ BillingCycle(k)
      PROVE  OnlyInvoices
  BY <1>1 DEF IssueInvoice, BillingCycle, Issue, OnlyInvoices, request, process, history, taken
<1>2. ASSUME NEW i \in DOMAIN invoices, NEW status \in Statuses, SetStatus(i, status)
      PROVE  OnlyInvoices
  BY <1>2 DEF SetStatus, OnlyInvoices, request, process, history, taken
<1>3. ASSUME UNCHANGED vars
      PROVE  OnlyInvoices
  BY <1>3 DEF vars, OnlyInvoices, request, process, base, history, taken
<1>4. ASSUME NEW r \in Requests, Insert(r)
      PROVE  \E p \in Procs : \E m : Sends(r, p, m)
  BY <1>4, InsertSends
<1> QED
  BY <1>1, <1>2, <1>3, <1>4, InputSends, FinishSends DEF Next

-----------------------------------------------------------------------------
(* What is closed is empty. *)

LEMMA WritingIsOpen ==
  ASSUME Closed, NEW p \in Procs, Writing(p)
  PROVE  p \in open
<1>1. SUFFICES ASSUME p \notin open PROVE FALSE
  OBVIOUS
<1>2. batch[p] = {} /\ entries[p] = <<>> /\ ~ acks[p]
  BY <1>1 DEF Closed
<1>3. Loaded(p) = 0
  <2>1. Cardinality(batch[p]) = 0 /\ Len(entries[p]) = 0
    BY <1>2, FS_EmptySet
  <2> QED
    BY <2>1 DEF Loaded
<1> QED
  BY <1>2, <1>3 DEF Writing

LEMMA ClosedStep == TypeOK /\ Served /\ Closed /\ [Next]_vars => Closed'
<1> SUFFICES ASSUME TypeOK, Served, Closed, [Next]_vars
             PROVE  Closed'
  OBVIOUS
<1>1. ASSUME NEW p \in Procs, Open(p)
      PROVE  Closed'
  BY <1>1 DEF Open, Closed, request, base, history, taken
<1>2. ASSUME NEW p \in Procs, Crash(p) \/ Exit(p)
      PROVE  Closed'
  <2>1. Die(p)
    BY <1>2 DEF Crash, Exit
  <2> QED
    BY <2>1 DEF Die, Clear, Closed, TypeOK
<1>3. ASSUME NEW p \in Procs, Take(p)
      PROVE  Closed'
  <2>1. p \in open
    BY <1>3 DEF Take, Closed
  <2> QED
    BY <1>3, <2>1 DEF Take, Push, Closed, history, TypeOK
<1>4. ASSUME NEW p \in Procs, Commit(p)
      PROVE  Closed'
  <2>1. p \in open
    BY <1>4, WritingIsOpen DEF Commit
  <2> QED
    BY <1>4, <2>1 DEF Commit, AnswerFlush, Clear, Closed, history, TypeOK
<1>5. ASSUME NEW p \in Procs, CommitFails(p)
      PROVE  Closed'
  <2>1. p \in open
    BY <1>5, WritingIsOpen DEF CommitFails
  <2> QED
    BY <1>5, <2>1 DEF CommitFails, AnswerFlush, Clear, Closed, TypeOK
<1>6. ASSUME NEW p \in Procs, AskFlush(p)
      PROVE  Closed'
  BY <1>6 DEF AskFlush, Closed, taken, TypeOK
<1>7. ASSUME NEW r \in Requests, NEW p \in Procs, NEW m, Sends(r, p, m)
      PROVE  Closed'
  BY <1>7 DEF Sends, TrySend, Closed, TypeOK
<1>8. ASSUME NEW r \in Requests, HangUp(r)
      PROVE  Closed'
  BY <1>8 DEF HangUp, Closed, process, taken, history
<1>9. ASSUME OnlyInvoices
      PROVE  Closed'
  BY <1>9 DEF OnlyInvoices, Closed
<1> QED
  BY <1>1, <1>2, <1>3, <1>4, <1>5, <1>6, <1>7, <1>8, <1>9, Steps

-----------------------------------------------------------------------------
(* The chain. *)

LEMMA NewRows ==
  ASSUME TypeOK, NEW p \in Procs, Commit(p)
  PROVE  /\ Len(ledger) \in Nat /\ Len(entries[p]) \in Nat
         /\ DOMAIN ledger = 1..Len(ledger)
         /\ Len(ledger') = Len(ledger) + Len(entries[p])
         /\ DOMAIN ledger' = 1..Len(ledger) + Len(entries[p])
         /\ \A n \in 1..Len(ledger) : ledger'[n] = ledger[n]
         /\ \A i \in 1..Len(entries[p]) : ledger'[Len(ledger) + i]
              = RowOf(entries[p][i], IF i = 1 THEN head[p] ELSE Len(ledger) + i - 1)
<1>1. PICK c : c = Chained(entries[p], head[p])
  OBVIOUS
<1>2. c \in Seq(Row) /\ Len(c) = Len(entries[p]) /\ ledger \in Seq(Row)
      /\ \A i \in 1..Len(entries[p]) : c[i]
           = RowOf(entries[p][i], IF i = 1 THEN head[p] ELSE Len(ledger) + i - 1)
  BY <1>1, ChainedType DEF TypeOK
<1>3. ledger' = ledger \o c
  BY <1>1 DEF Commit
<1>4. Len(ledger) \in Nat /\ Len(c) \in Nat /\ DOMAIN ledger = 1..Len(ledger)
  BY <1>2
<1>5. /\ Len(ledger') = Len(ledger) + Len(c)
      /\ DOMAIN ledger' = 1..Len(ledger) + Len(c)
      /\ \A i \in 1..Len(ledger) : ledger'[i] = ledger[i]
      /\ \A i \in 1..Len(c) : ledger'[Len(ledger) + i] = c[i]
  <2>1. ledger \in Seq(Row) /\ c \in Seq(Row)
    BY <1>2
  <2>2. /\ Len(ledger \o c) = Len(ledger) + Len(c)
        /\ DOMAIN (ledger \o c) = 1..Len(ledger) + Len(c)
        /\ \A i \in 1..Len(ledger) : (ledger \o c)[i] = ledger[i]
        /\ \A i \in 1..Len(c) : (ledger \o c)[Len(ledger) + i] = c[i]
    BY <2>1, ConcatPositions
  <2> QED
    BY <1>3, <2>2
<1>6. \A i \in 1..Len(entries[p]) : ledger'[Len(ledger) + i]
           = RowOf(entries[p][i], IF i = 1 THEN head[p] ELSE Len(ledger) + i - 1)
  BY <1>2, <1>5, Zenon
<1> QED
  BY <1>2, <1>4, <1>5, <1>6

(* What a row keeps of its message. *)
LEMMA RowFields ==
  ASSUME NEW m \in Entry, NEW prev
  PROVE  /\ RowOf(m, prev).of = m.of /\ RowOf(m, prev).phase = m.kind
         /\ RowOf(m, prev).prev = prev
         /\ m.kind = "input" => RowOf(m, prev).requests = 1 /\ RowOf(m, prev).tokens = Booked
         /\ m.kind = "final" /\ m.booked =>
              RowOf(m, prev).requests = 0 /\ RowOf(m, prev).tokens = Charge[m.of] - Booked
         /\ m.kind = "final" /\ ~ m.booked =>
              RowOf(m, prev).requests = 1 /\ RowOf(m, prev).tokens = Charge[m.of]
<1>1. m.kind = "input" \/ m.kind = "final"
  BY DEF Entry
<1>2. CASE m.kind = "input"
  BY <1>2 DEF RowOf
<1>3. CASE m.kind = "final"
  BY <1>3 DEF RowOf
<1> QED
  BY <1>1, <1>2, <1>3

(* The first row of a batch is hashed over the head, the others over the    *)
(* row before.                                                              *)
LEMMA NewLinks ==
  ASSUME TypeOK, NEW p \in Procs, Commit(p),
         NEW n \in DOMAIN ledger' \ DOMAIN ledger
  PROVE  /\ n = Len(ledger) + 1 => ledger'[n].prev = head[p]
         /\ n # Len(ledger) + 1 => ledger'[n].prev = n - 1
<1>1. PICK i \in 1..Len(entries[p]) : n = Len(ledger) + i
  <2>1. n - Len(ledger) \in 1..Len(entries[p]) /\ n = Len(ledger) + (n - Len(ledger))
    BY NewRows
  <2> QED
    BY <2>1
<1>2. ledger'[n].prev = IF i = 1 THEN head[p] ELSE Len(ledger) + i - 1
  <2>1. entries[p][i] \in Entry
    BY <1>1 DEF TypeOK
  <2>2. ledger'[n] = RowOf(entries[p][i], IF i = 1 THEN head[p] ELSE Len(ledger) + i - 1)
    BY <1>1, NewRows
  <2> QED
    BY <2>1, <2>2, RowFields
<1>3. Len(ledger) \in Nat /\ Len(entries[p]) \in Nat
  BY NewRows
<1> QED
  BY <1>1, <1>2, <1>3

ChainInv == TypeOK /\ Served /\ Closed /\ OneWriter

LEMMA ChainStep == ~ Overlap /\ ChainInv /\ [Next]_vars => OneWriter'
<1> SUFFICES ASSUME ~ Overlap, TypeOK, Served, Closed, OneWriter, [Next]_vars
             PROVE  OneWriter'
  BY DEF ChainInv
<1>1. ASSUME NEW p \in Procs, Open(p)
      PROVE  OneWriter'
  BY <1>1 DEF Open, OneWriter, base, LastHash, TypeOK
<1>2. ASSUME NEW p \in Procs, Crash(p) \/ Exit(p)
      PROVE  OneWriter'
  <2>1. open' = open \ {p} /\ head' = [head EXCEPT ![p] = 0] /\ ledger' = ledger
    BY <1>2 DEF Crash, Exit, Die, base
  <2> QED
    BY <2>1 DEF OneWriter, TypeOK
<1>3. ASSUME NEW p \in Procs, Take(p) \/ AskFlush(p) \/ CommitFails(p)
      PROVE  OneWriter'
  BY <1>3 DEF Take, AskFlush, CommitFails, OneWriter, base
<1>4. ASSUME NEW p \in Procs, Commit(p)
      PROVE  OneWriter'
  <2>1. p \in open /\ head[p] = Len(ledger) /\ open' = open /\ \A q \in open : q = p
    BY <1>4, WritingIsOpen DEF Commit, OneWriter
  <2>2. head'[p] = Len(ledger) + Len(entries[p])
    <3>1. entries[p] \in Seq(Entry) /\ Len(ledger) \in Nat /\ (entries[p] = <<>> => Len(entries[p]) = 0)
      BY DEF TypeOK
    <3> QED
      BY <1>4, <2>1, <3>1 DEF Commit, TypeOK
  <2>3. ASSUME NEW n \in DOMAIN ledger'
        PROVE  ledger'[n].prev = n - 1
    <3>1. CASE n \in 1..Len(ledger)
      BY <1>4, <3>1, NewRows DEF OneWriter
    <3>2. CASE n \notin 1..Len(ledger)
      <4>1. PICK i \in 1..Len(entries[p]) : n = Len(ledger) + i
        <5>1. n - Len(ledger) \in 1..Len(entries[p]) /\ n = Len(ledger) + (n - Len(ledger))
          BY <1>4, <2>3, <3>2, NewRows
        <5> QED
          BY <5>1
      <4>2. ledger'[n].prev = IF i = 1 THEN head[p] ELSE Len(ledger) + i - 1
        <5>1. entries[p][i] \in Entry
          BY <4>1 DEF TypeOK
        <5>2. ledger'[n] = RowOf(entries[p][i], IF i = 1 THEN head[p] ELSE Len(ledger) + i - 1)
          BY <1>4, <4>1, NewRows
        <5> QED
          BY <5>1, <5>2, RowFields
      <4> QED
        BY <1>4, <2>1, <4>1, <4>2, NewRows
    <3> QED
      BY <3>1, <3>2
  <2> QED
    BY <1>4, <2>1, <2>2, <2>3, NewRows DEF OneWriter
<1>5. ASSUME NEW r \in Requests, NEW p \in Procs, NEW m, Sends(r, p, m)
      PROVE  OneWriter'
  BY <1>5 DEF Sends, OneWriter
<1>6. ASSUME NEW r \in Requests, HangUp(r)
      PROVE  OneWriter'
  BY <1>6 DEF HangUp, OneWriter, process, base
<1>7. ASSUME OnlyInvoices
      PROVE  OneWriter'
  BY <1>7 DEF OnlyInvoices, OneWriter
<1> QED
  BY <1>1, <1>2, <1>3, <1>4, <1>5, <1>6, <1>7, Steps

LEMMA ChainInit == Init => ChainInv
<1> SUFFICES ASSUME Init PROVE ChainInv
  OBVIOUS
<1>1. TypeOK
  BY InitType
<1>2. Served /\ Closed /\ OneWriter
  BY DEF Init, Served, Closed, OneWriter
<1> QED
  BY <1>1, <1>2 DEF ChainInv

(* Whoever has the store open, and however many: a head is never ahead of   *)
(* the ledger.                                                              *)
Backward == ChainsBack /\ \A p \in open : head[p] <= LastHash

LEMMA BackwardStep == TypeOK /\ Served /\ Closed /\ Backward /\ [Next]_vars => Backward'
<1> SUFFICES ASSUME TypeOK, Served, Closed, Backward, [Next]_vars
             PROVE  Backward'
  OBVIOUS
<1> USE DEF Backward, ChainsBack, LastHash
<1>0. Len(ledger) \in Nat /\ head \in [Procs -> Nat] /\ open \subseteq Procs
  BY DEF TypeOK
<1>1. ASSUME NEW p \in Procs, Open(p)
      PROVE  Backward'
  BY <1>0, <1>1 DEF Open, base
<1>2. ASSUME NEW p \in Procs, Crash(p) \/ Exit(p)
      PROVE  Backward'
  <2>1. open' = open \ {p} /\ head' = [head EXCEPT ![p] = 0] /\ ledger' = ledger
    BY <1>2 DEF Crash, Exit, Die, base
  <2> QED
    BY <1>0, <2>1
<1>3. ASSUME NEW p \in Procs, Take(p) \/ AskFlush(p) \/ CommitFails(p)
      PROVE  Backward'
  BY <1>3 DEF Take, AskFlush, CommitFails, base
<1>4. ASSUME NEW p \in Procs, Commit(p)
      PROVE  Backward'
  <2>1. p \in open /\ head[p] <= Len(ledger) /\ open' = open
    BY <1>4, WritingIsOpen DEF Commit
  <2>2. /\ Len(entries[p]) \in Nat
        /\ Len(ledger') = Len(ledger) + Len(entries[p])
        /\ DOMAIN ledger' = 1..Len(ledger) + Len(entries[p])
        /\ DOMAIN ledger = 1..Len(ledger)
    BY <1>4, NewRows
  <2>3. ASSUME NEW q \in open'
        PROVE  head'[q] <= Len(ledger')
    <3>1. head'[q] = head[q] \/ head'[q] = Len(ledger) + Len(entries[p])
      BY <1>0, <1>4, <2>1 DEF Commit
    <3> QED
      BY <1>0, <2>1, <2>2, <3>1
  <2>4. ASSUME NEW n \in DOMAIN ledger'
        PROVE  ledger'[n].prev < n
    <3>1. CASE n \in 1..Len(ledger)
      BY <1>4, <2>2, <3>1, NewRows
    <3>2. CASE n \notin 1..Len(ledger)
      BY <1>0, <1>4, <2>1, <2>2, <2>4, <3>2, NewLinks
    <3> QED
      BY <3>1, <3>2
  <2> QED
    BY <2>3, <2>4
<1>5. ASSUME NEW r \in Requests, NEW p \in Procs, NEW m, Sends(r, p, m)
      PROVE  Backward'
  BY <1>5 DEF Sends
<1>6. ASSUME NEW r \in Requests, HangUp(r)
      PROVE  Backward'
  BY <1>6 DEF HangUp, process, base
<1>7. ASSUME OnlyInvoices
      PROVE  Backward'
  BY <1>7 DEF OnlyInvoices
<1> QED
  BY <1>1, <1>2, <1>3, <1>4, <1>5, <1>6, <1>7, Steps

\* What a step may do to the links, and to who is behind.
LinkStep ==
  /\ \A n \in DOMAIN ledger' \ DOMAIN ledger :
       \/ ledger'[n].prev = n - 1
       \/ n = Len(ledger) + 1 /\ \E p \in Behind : ledger'[n].prev = head[p]
  /\ \A p \in Behind' \ Behind : \E q \in open \ {p} :
       /\ entries[q] # <<>>
       /\ ledger' = ledger \o Chained(entries[q], head[q])

LEMMA LinksKept == TypeOK /\ Served /\ Closed /\ [Next]_vars => LinkStep
<1> SUFFICES ASSUME TypeOK, Served, Closed, [Next]_vars
             PROVE  LinkStep
  OBVIOUS
<1> USE DEF LinkStep, Behind, LastHash
<1>0. Len(ledger) \in Nat /\ head \in [Procs -> Nat] /\ open \subseteq Procs
  BY DEF TypeOK
<1>1. ASSUME NEW p \in Procs, Open(p)
      PROVE  LinkStep
  BY <1>0, <1>1 DEF Open, base
<1>2. ASSUME NEW p \in Procs, Crash(p) \/ Exit(p)
      PROVE  LinkStep
  <2>1. open' = open \ {p} /\ head' = [head EXCEPT ![p] = 0] /\ ledger' = ledger
    BY <1>2 DEF Crash, Exit, Die, base
  <2> QED
    BY <1>0, <2>1
<1>3. ASSUME NEW p \in Procs, Take(p) \/ AskFlush(p) \/ CommitFails(p)
      PROVE  LinkStep
  BY <1>3 DEF Take, AskFlush, CommitFails, base
<1>4. ASSUME NEW p \in Procs, Commit(p)
      PROVE  LinkStep
  <2>1. p \in open /\ open' = open /\ ledger' = ledger \o Chained(entries[p], head[p])
    BY <1>4, WritingIsOpen DEF Commit
  <2>2. /\ Len(entries[p]) \in Nat
        /\ Len(ledger') = Len(ledger) + Len(entries[p])
        /\ DOMAIN ledger' = 1..Len(ledger) + Len(entries[p])
        /\ DOMAIN ledger = 1..Len(ledger)
    BY <1>4, NewRows
  <2>3. ASSUME NEW n \in DOMAIN ledger' \ DOMAIN ledger
        PROVE  \/ ledger'[n].prev = n - 1
               \/ n = Len(ledger) + 1 /\ \E q \in Behind : ledger'[n].prev = head[q]
    <3>1. /\ n = Len(ledger) + 1 => ledger'[n].prev = head[p]
          /\ n # Len(ledger) + 1 => ledger'[n].prev = n - 1
      BY <1>4, <2>2, <2>3, NewLinks
    <3>2. n = Len(ledger) + 1 /\ head[p] = Len(ledger) => ledger'[n].prev = n - 1
      BY <1>0, <3>1
    <3> QED
      BY <2>1, <3>1, <3>2
  <2>4. ASSUME NEW q \in Behind' \ Behind
        PROVE  q # p /\ entries[p] # <<>>
    <3>1. q \in open /\ head[q] = Len(ledger) /\ head'[q] # Len(ledger')
      BY <2>1, <2>4
    <3>2. entries[p] = <<>> => Len(ledger') = Len(ledger) /\ head'[q] = head[q]
      <4>1. entries[p] = <<>> => Len(entries[p]) = 0 /\ head' = [head EXCEPT ![p] = head[p]]
        BY <1>4 DEF Commit
      <4> QED
        BY <1>0, <2>2, <3>1, <4>1
    <3>3. q = p /\ entries[p] # <<>> => head'[q] = Len(ledger) + Len(entries[p])
      BY <1>0, <1>4, <3>1 DEF Commit
    <3>4. entries[p] # <<>>
      BY <3>1, <3>2
    <3> QED
      BY <2>2, <3>1, <3>3, <3>4
  <2> QED
    BY <2>1, <2>3, <2>4
<1>5. ASSUME NEW r \in Requests, NEW p \in Procs, NEW m, Sends(r, p, m)
      PROVE  LinkStep
  BY <1>5 DEF Sends
<1>6. ASSUME NEW r \in Requests, HangUp(r)
      PROVE  LinkStep
  BY <1>6 DEF HangUp, process, base
<1>7. ASSUME OnlyInvoices
      PROVE  LinkStep
  BY <1>7 DEF OnlyInvoices
<1> QED
  BY <1>1, <1>2, <1>3, <1>4, <1>5, <1>6, <1>7, Steps

(* The hash chain, however many processes have the store open, whatever     *)
(* fails or crashes: no row is hashed over a later one; only the first row  *)
(* of a batch can miss its predecessor, and only when its process was       *)
(* behind; and what puts a process behind is a row another one wrote beside *)
(* it.  So ledger::verify finds nothing wrong where one process at a time   *)
(* has the store open.                                                      *)
THEOREM BooksChainVerifies ==
  Spec => /\ []ChainsBack
          /\ BreaksOnlyBehindAnother
          /\ ~ Overlap => []ChainVerifies
<1> DEFINE Links == [LinkStep]_vars
<1>1. ~ Overlap /\ ChainInv /\ [Next]_vars => ChainInv'
  BY TypeStep, ServedStep, ClosedStep, ChainStep DEF ChainInv
<1>2. ChainInv => ChainVerifies
  <2>1. SUFFICES ASSUME TypeOK, OneWriter PROVE ChainVerifies
    BY DEF ChainInv
  <2>2. DOMAIN ledger = 1..Len(ledger) /\ Len(ledger) \in Nat
    BY <2>1 DEF TypeOK
  <2>3. \A n \in DOMAIN ledger : \A m \in 1..n : ledger[m].prev = m - 1
    BY <2>1, <2>2 DEF OneWriter
  <2> QED
    BY <2>3 DEF ChainVerifies, Verified
<1>3. Spec /\ ~ Overlap => []ChainVerifies
  <2>1. CASE ~ Overlap
    BY <1>1, <1>2, <2>1, ChainInit, PTL DEF Spec
  <2>2. CASE Overlap
    BY <2>2
  <2> QED
    BY <2>1, <2>2
<1>4. Init => TypeOK /\ Served /\ Closed /\ Backward
  <2>1. Init => Backward
    BY DEF Init, Backward, ChainsBack
  <2> QED
    BY <2>1, ChainInit DEF ChainInv
<1>5. /\ TypeOK /\ Served /\ Closed /\ Backward /\ [Next]_vars
        => TypeOK' /\ Served' /\ Closed' /\ Backward'
  BY TypeStep, ServedStep, ClosedStep, BackwardStep
<1>6. TypeOK /\ Served /\ Closed /\ [Next]_vars => Links
  BY LinksKept
<1>7. Backward => ChainsBack
  BY DEF Backward
<1>8. Spec => []ChainsBack /\ BreaksOnlyBehindAnother
  BY <1>4, <1>5, <1>6, <1>7, PTL DEF Spec, BreaksOnlyBehindAnother, LinkStep
<1> QED
  BY <1>3, <1>8

-----------------------------------------------------------------------------
(* What the steps do to the queue and the vectors, by position.             *)

QueueOf(p) == /\ queue[p] \in Seq(Message) /\ Len(queue[p]) \in Nat
              /\ DOMAIN queue[p] = 1..Len(queue[p])
              /\ \A i \in DOMAIN queue[p] : queue[p][i] \in Message
EntriesOf(p) == /\ entries[p] \in Seq(Entry) /\ Len(entries[p]) \in Nat
                /\ DOMAIN entries[p] = 1..Len(entries[p])
                /\ \A i \in DOMAIN entries[p] : entries[p][i] \in Entry

LEMMA Positions ==
  ASSUME TypeOK, NEW p \in Procs
  PROVE  QueueOf(p) /\ EntriesOf(p)
<1>1. queue[p] \in Seq(Message) /\ entries[p] \in Seq(Entry)
  BY DEF TypeOK
<1>2. QueueOf(p)
  BY <1>1, Elements DEF QueueOf
<1>3. EntriesOf(p)
  BY <1>1, Elements DEF EntriesOf
<1> QED
  BY <1>2, <1>3

Queued(p, m) ==
  /\ DOMAIN queue'[p] = 1..Len(queue[p]) + 1
  /\ \A i \in DOMAIN queue[p] : queue'[p][i] = queue[p][i]
  /\ queue'[p][Len(queue[p]) + 1] = m
  /\ \A q \in Procs \ {p} : queue'[q] = queue[q]

LEMMA QueuedBy ==
  ASSUME TypeOK, NEW p \in Procs, NEW m \in Message,
         queue' = [queue EXCEPT ![p] = Append(@, m)]
  PROVE  Queued(p, m)
<1>1. queue[p] \in Seq(Message) /\ QueueOf(p)
  BY Positions DEF QueueOf
<1>2. queue'[p] = Append(queue[p], m) /\ \A q \in Procs \ {p} : queue'[q] = queue[q]
  BY DEF TypeOK
<1> QED
  BY <1>1, <1>2, AppendPositions DEF Queued, QueueOf

LEMMA SendEffect ==
  ASSUME TypeOK, NEW r \in Requests, NEW p \in Procs, NEW m, Sends(r, p, m)
  PROVE  \/ Queued(p, m) /\ lost' = lost
         \/ queue' = queue /\ lost' = lost \union {m} /\ m \in Entry
         \/ queue' = queue /\ lost' = lost /\ m \notin Entry
<1>1. m \in Message /\ TrySend(p, m)
  BY DEF Sends
<1>2. CASE Len(queue[p]) < Capacity
  BY <1>1, <1>2, QueuedBy DEF TrySend
<1>3. CASE ~ (Len(queue[p]) < Capacity)
  <2>1. queue' = queue /\ lost' = lost \union {n \in {m} : n.kind \in {"input", "final"}}
    BY <1>1, <1>3 DEF TrySend, Lose
  <2>2. m \in Entry <=> m.kind \in {"input", "final"}
    BY <1>1, MessageKinds
  <2> QED
    BY <2>1, <2>2
<1> QED
  BY <1>2, <1>3

Dequeued(p) ==
  /\ DOMAIN queue'[p] = 1..Len(queue[p]) - 1
  /\ \A i \in DOMAIN queue'[p] : i + 1 \in DOMAIN queue[p] /\ queue'[p][i] = queue[p][i + 1]
  /\ \A q \in Procs \ {p} : queue'[q] = queue[q]

Entered(p, m) ==
  /\ DOMAIN entries'[p] = 1..Len(entries[p]) + 1
  /\ \A i \in DOMAIN entries[p] : entries'[p][i] = entries[p][i]
  /\ entries'[p][Len(entries[p]) + 1] = m
  /\ \A q \in Procs \ {p} : entries'[q] = entries[q]

Taken(p, m) ==
  /\ 1 \in DOMAIN queue[p] /\ queue[p][1] = m /\ m \in Message
  /\ Dequeued(p)
  /\ \/ m \in Entry /\ Entered(p, m) /\ batch' = batch /\ acks' = acks
     \/ m \notin Entry /\ m # Marker /\ entries' = entries /\ acks' = acks
          /\ m.of \in Requests /\ m = Detail(m.of)
          /\ batch' = [batch EXCEPT ![p] = @ \union {m.of}]
     \/ m = Marker /\ entries' = entries /\ batch' = batch
          /\ acks' = [acks EXCEPT ![p] = TRUE]
  /\ UNCHANGED <<pc, at, open, head, flush, ledger, details, invoices, failures, lost, due>>

LEMMA TakeEffect ==
  ASSUME TypeOK, NEW p \in Procs, Take(p)
  PROVE  \E m : Taken(p, m)
<1>1. PICK m : m = Head(queue[p])
  OBVIOUS
<1>2. queue[p] \in Seq(Message) /\ queue[p] # <<>> /\ Push(p, m)
      /\ queue' = [queue EXCEPT ![p] = Tail(queue[p])]
      /\ UNCHANGED <<pc, at, open, head, flush, ledger, details, invoices, failures, lost, due>>
  BY <1>1 DEF Take, TypeOK, request, base, history
<1>3. 1 \in DOMAIN queue[p] /\ queue[p][1] = m /\ m \in Message
  BY <1>1, <1>2, TailPositions
<1>4. Dequeued(p)
  <2>1. queue'[p] = Tail(queue[p]) /\ \A q \in Procs \ {p} : queue'[q] = queue[q]
    BY <1>2 DEF TypeOK
  <2>2. /\ DOMAIN Tail(queue[p]) = 1..Len(queue[p]) - 1
        /\ \A i \in 1..Len(queue[p]) - 1 :
             Tail(queue[p])[i] = queue[p][i + 1] /\ i + 1 \in DOMAIN queue[p]
    BY <1>2, TailPositions
  <2> QED
    BY <2>1, <2>2 DEF Dequeued
<1>5. CASE m \in Entry
  <2>1. m.kind # "detail" /\ m # Marker
    BY <1>3, <1>5, MessageKinds
  <2>2. batch' = batch /\ acks' = acks /\ entries' = [entries EXCEPT ![p] = Append(entries[p], m)]
    BY <1>2, <1>5, <2>1 DEF Push, TypeOK
  <2>3. entries[p] \in Seq(Entry) /\ entries'[p] = Append(entries[p], m)
        /\ \A q \in Procs \ {p} : entries'[q] = entries[q]
    BY <2>2 DEF TypeOK
  <2>4. Entered(p, m)
    BY <1>5, <2>3, AppendPositions, Elements DEF Entered
  <2> QED
    BY <1>2, <1>3, <1>4, <1>5, <2>2, <2>4 DEF Taken
<1>6. CASE m \notin Entry /\ m # Marker
  <2>1. m.kind = "detail" /\ m.of \in Requests /\ m = Detail(m.of)
    BY <1>3, <1>6, MessageKinds
  <2>2. batch' = [batch EXCEPT ![p] = @ \union {m.of}] /\ acks' = acks /\ entries' = entries
    BY <1>2, <1>6, <2>1 DEF Push, TypeOK
  <2> QED
    BY <1>2, <1>3, <1>4, <1>6, <2>1, <2>2 DEF Taken
<1>7. CASE m = Marker
  <2>1. m.kind # "detail" /\ m \notin Entry
    BY <1>3, <1>7, MessageKinds
  <2>2. batch' = batch /\ acks' = [acks EXCEPT ![p] = TRUE] /\ entries' = entries
    BY <1>2, <1>7, <2>1 DEF Push, TypeOK
  <2> QED
    BY <1>2, <1>3, <1>4, <1>7, <2>2 DEF Taken
<1> QED
  BY <1>5, <1>6, <1>7

(* Commit, CommitFails and Die empty the vectors. *)
LEMMA ClearEffect ==
  ASSUME TypeOK, NEW p \in Procs, Clear(p)
  PROVE  /\ batch'[p] = {} /\ entries'[p] = <<>> /\ DOMAIN entries'[p] = {} /\ acks'[p] = FALSE
         /\ \A q \in Procs \ {p} : batch'[q] = batch[q] /\ entries'[q] = entries[q] /\ acks'[q] = acks[q]
BY DEF Clear, TypeOK

LEMMA DieEffect ==
  ASSUME TypeOK, NEW p \in Procs, Crash(p) \/ Exit(p)
  PROVE  /\ open' = open \ {p} /\ Clear(p)
         /\ queue'[p] = <<>> /\ DOMAIN queue'[p] = {} /\ flush'[p] = "no" /\ due'[p] = {}
         /\ \A q \in Procs \ {p} : queue'[q] = queue[q] /\ flush'[q] = flush[q] /\ due'[q] = due[q]
         /\ pc' = [r \in Requests |-> IF at[r] = p THEN "over" ELSE pc[r]] /\ at' = at
         /\ lost' = lost \union {m \in Unwritten(p) : m.kind \in {"input", "final"}}
         /\ UNCHANGED <<ledger, details, invoices>>
<1>1. Die(p)
  BY DEF Crash, Exit
<1> QED
  BY <1>1 DEF Die, Lose, TypeOK, base

-----------------------------------------------------------------------------
(* What was sent stays sent, and what is on its way was sent.               *)

LEMMA SentStays ==
  ASSUME TypeOK, Served, [Next]_vars
  PROVE  SentOff \subseteq SentOff' /\ \A q \in Procs : SentBy(q) \subseteq SentBy(q)'
<1> SUFFICES ASSUME NEW m \in Message, m # Marker, Sent(m.kind, m.of)
             PROVE  Sent(m.kind, m.of)' /\ at'[m.of] = at[m.of]
  BY DEF SentOff, SentBy
<1>1. m.kind \in {"input", "final", "detail"} /\ m.of \in Requests
  BY MessageKinds
<1>2. /\ pc[m.of] # "new" => pc'[m.of] # "new" /\ at'[m.of] = at[m.of]
      /\ pc[m.of] \in {"closing", "over"} => pc'[m.of] \in {"closing", "over"}
      /\ pc[m.of] = "over" => pc'[m.of] = "over"
  <2>1. ASSUME NEW p \in Procs, Crash(p) \/ Exit(p)
        PROVE  <1>2!:
    BY <1>1, <2>1, DieEffect
  <2>2. ASSUME NEW p \in Procs, Open(p) \/ Take(p) \/ Commit(p) \/ CommitFails(p) \/ AskFlush(p)
        PROVE  <1>2!:
    BY <2>2 DEF Open, Take, Commit, CommitFails, AskFlush, request
  <2>3. ASSUME NEW r \in Requests, NEW p \in Procs, NEW n, Sends(r, p, n)
        PROVE  <1>2!:
    BY <1>1, <2>3 DEF Sends, TypeOK
  <2>4. ASSUME NEW r \in Requests, HangUp(r)
        PROVE  <1>2!:
    BY <1>1, <2>4 DEF HangUp, TypeOK
  <2>5. ASSUME OnlyInvoices
        PROVE  <1>2!:
    BY <2>5 DEF OnlyInvoices
  <2> QED
    BY <2>1, <2>2, <2>3, <2>4, <2>5, Steps
<1> QED
  BY <1>1, <1>2 DEF Sent

LEMMA InFlightStep == TypeOK /\ Served /\ InFlight /\ [Next]_vars => InFlight'
<1> SUFFICES ASSUME TypeOK, Served, InFlight, [Next]_vars
             PROVE  InFlight'
  OBVIOUS
<1>0. TypeOK'
  BY TypeStep
<1>a. \A q \in Procs : SentBy(q) \subseteq SentBy(q)'
  BY SentStays
<1>d. ASSUME NEW q \in Procs, queue'[q] = queue[q]
      PROVE  \A i \in DOMAIN queue'[q] : queue'[q][i] # Marker => queue'[q][i] \in SentBy(q)'
  BY <1>a, <1>d DEF InFlight
<1>e. ASSUME NEW q \in Procs, entries'[q] = entries[q]
      PROVE  \A i \in DOMAIN entries'[q] : entries'[q][i] \in SentBy(q)'
  BY <1>a, <1>e DEF InFlight
<1>f. ASSUME NEW q \in Procs, batch'[q] = batch[q]
      PROVE  \A r \in batch'[q] : Detail(r) \in SentBy(q)'
  BY <1>a, <1>f DEF InFlight
<1>1. ASSUME NEW p \in Procs, Crash(p) \/ Exit(p)
      PROVE  InFlight'
  BY <1>1, <1>d, <1>e, <1>f, DieEffect, ClearEffect DEF InFlight
<1>2. ASSUME NEW p \in Procs, Commit(p) \/ CommitFails(p)
      PROVE  InFlight'
  <2>1. queue' = queue /\ Clear(p)
    BY <1>2 DEF Commit, CommitFails, AnswerFlush
  <2> QED
    BY <2>1, <1>d, <1>e, <1>f, ClearEffect DEF InFlight
<1>3. ASSUME NEW p \in Procs, AskFlush(p)
      PROVE  InFlight'
  <2>1. Marker \in Message /\ Queued(p, Marker) /\ batch' = batch /\ entries' = entries
    BY <1>3, QueuedBy DEF AskFlush, Message, taken
  <2>2. \A i \in DOMAIN queue'[p] : queue'[p][i] # Marker => queue'[p][i] \in SentBy(p)'
    BY <1>a, <2>1, Positions DEF InFlight, QueueOf, Queued
  <2> QED
    BY <2>1, <2>2, <1>d, <1>e, <1>f DEF InFlight, Queued
<1>4. ASSUME NEW p \in Procs, NEW m, Taken(p, m)
      PROVE  InFlight'
  <2>1. \A i \in DOMAIN queue'[p] : queue'[p][i] # Marker => queue'[p][i] \in SentBy(p)'
    BY <1>a, <1>4, Positions DEF InFlight, QueueOf, Taken, Dequeued
  <2>2. m # Marker => m \in SentBy(p)'
    BY <1>a, <1>4 DEF InFlight, Taken
  <2>3. \A i \in DOMAIN entries'[p] : entries'[p][i] \in SentBy(p)'
    <3>1. CASE entries' = entries
      BY <1>e, <3>1
    <3>2. CASE m \in Entry /\ Entered(p, m)
      <4>1. m # Marker
        BY <3>2 DEF Marker, Entry
      <4> QED
        BY <1>a, <3>2, <2>2, <4>1, Positions DEF InFlight, EntriesOf, Entered
    <3> QED
      BY <1>4, <3>1, <3>2 DEF Taken
  <2>4. \A r \in batch'[p] : Detail(r) \in SentBy(p)'
    BY <1>a, <1>4, <1>f, <2>2 DEF InFlight, Taken, TypeOK
  <2>5. \A q \in Procs \ {p} : queue'[q] = queue[q] /\ entries'[q] = entries[q] /\ batch'[q] = batch[q]
    BY <1>4 DEF Taken, Dequeued, Entered, TypeOK
  <2> QED
    BY <2>1, <2>3, <2>4, <2>5, <1>d, <1>e, <1>f DEF InFlight
<1>5. ASSUME NEW r \in Requests, NEW p \in Procs, NEW m, Sends(r, p, m)
      PROVE  InFlight'
  <2>1. m \in SentBy(p)' /\ batch' = batch /\ entries' = entries
    BY <1>5 DEF Sends, SentBy, SentOff, Sent, TypeOK
  <2>2. Queued(p, m) \/ queue' = queue
    BY <1>5, SendEffect
  <2>3. \A i \in DOMAIN queue'[p] : queue'[p][i] # Marker => queue'[p][i] \in SentBy(p)'
    BY <1>a, <1>d, <2>1, <2>2, Positions DEF InFlight, QueueOf, Queued
  <2> QED
    BY <2>1, <2>2, <2>3, <1>d, <1>e, <1>f DEF InFlight, Queued
<1>6. ASSUME queue' = queue, batch' = batch, entries' = entries
      PROVE  InFlight'
  BY <1>6, <1>d, <1>e, <1>f DEF InFlight
<1>7. ASSUME NEW p \in Procs, Open(p)
      PROVE  InFlight'
  BY <1>6, <1>7 DEF Open, taken
<1>8. ASSUME NEW r \in Requests, HangUp(r)
      PROVE  InFlight'
  BY <1>6, <1>8 DEF HangUp, process, taken
<1>9. ASSUME OnlyInvoices
      PROVE  InFlight'
  BY <1>6, <1>9 DEF OnlyInvoices
<1> QED
  BY <1>1, <1>2, <1>3, <1>4, <1>5, <1>7, <1>8, <1>9, Steps, TakeEffect

-----------------------------------------------------------------------------
(* The flush. *)

LEMMA FlushStep == FlushInv /\ [Next]_vars => \A p \in Procs : Flushing(p)'
<1> SUFFICES ASSUME TypeOK, Served, Closed, InFlight, \A p \in Procs : Flushing(p), [Next]_vars
             PROVE  \A p \in Procs : Flushing(p)'
  BY DEF FlushInv
<1>a. SentOff \subseteq SentOff'
  BY SentStays
(* A process whose memory is not touched. *)
<1>b. ASSUME NEW q \in Procs, queue'[q] = queue[q], entries'[q] = entries[q], batch'[q] = batch[q],
             acks'[q] = acks[q], flush'[q] = flush[q], due'[q] = due[q]
      PROVE  Flushing(q)'
  <2>1. NoMarker(q)' = NoMarker(q) /\ NoneDue(q)' = NoneDue(q)
        /\ \A j : MarkerAt(q, j)' = MarkerAt(q, j)
    BY <1>b DEF NoMarker, NoneDue, MarkerAt
  <2> QED
    BY <1>a, <1>b, <2>1 DEF Flushing
<1>1. ASSUME NEW p \in Procs, Crash(p) \/ Exit(p), NEW q \in Procs
      PROVE  Flushing(q)'
  <2>1. CASE q = p
    BY <1>1, <2>1, DieEffect, ClearEffect DEF Flushing, NoMarker, NoneDue
  <2>2. CASE q # p
    BY <1>1, <1>b, <2>2, DieEffect, ClearEffect
  <2> QED
    BY <2>1, <2>2
<1>2. ASSUME NEW p \in Procs, Commit(p) \/ CommitFails(p), NEW q \in Procs
      PROVE  Flushing(q)'
  <2>1. /\ queue' = queue /\ due' = due /\ Clear(p)
        /\ flush' = IF acks[p] THEN [flush EXCEPT ![p] = "acked"] ELSE flush
    BY <1>2 DEF Commit, CommitFails, AnswerFlush, history
  <2>2. CASE q = p
    <3>1. /\ NoMarker(q)' = NoMarker(q) /\ NoneDue(q)' = NoneDue(q)
          /\ \A j : MarkerAt(q, j)' = MarkerAt(q, j)
      BY <2>1 DEF NoMarker, NoneDue, MarkerAt
    <3>2. entries'[q] = <<>> /\ DOMAIN entries'[q] = {} /\ batch'[q] = {} /\ acks'[q] = FALSE
      BY <2>1, <2>2, ClearEffect
    <3>3. flush'[q] = IF acks[q] THEN "acked" ELSE flush[q]
      BY <2>1, <2>2 DEF TypeOK
    <3>4. acks[q] => flush[q] = "asked" /\ NoMarker(q) /\ NoneDue(q)
      BY DEF Flushing
    <3> QED
      BY <1>a, <2>1, <3>1, <3>2, <3>3, <3>4 DEF Flushing
  <2>3. CASE q # p
    BY <2>1, <2>3, <1>b, ClearEffect DEF TypeOK
  <2> QED
    BY <2>2, <2>3
<1>3. ASSUME NEW p \in Procs, AskFlush(p), NEW q \in Procs
      PROVE  Flushing(q)'
  <2>1. /\ Marker \in Message /\ Queued(p, Marker)
        /\ flush[p] = "no" /\ flush' = [flush EXCEPT ![p] = "asked"]
        /\ due' = [due EXCEPT ![p] = Unwritten(p)]
        /\ batch' = batch /\ entries' = entries /\ acks' = acks
    BY <1>3, QueuedBy DEF AskFlush, Message, taken
  <2>2. CASE q = p
    <3>1. due'[q] \subseteq SentOff'
      <4>1. /\ \A i \in DOMAIN queue[p] : queue[p][i] # Marker => queue[p][i] \in SentOff
            /\ \A i \in DOMAIN entries[p] : entries[p][i] \in SentOff
            /\ \A r \in batch[p] : Detail(r) \in SentOff
        BY DEF InFlight, SentBy
      <4>2. ToSet(queue[p]) \ {Marker} \subseteq SentOff /\ ToSet(entries[p]) \subseteq SentOff
        BY <4>1, Elements DEF TypeOK
      <4> QED
        BY <1>a, <2>1, <2>2, <4>1, <4>2 DEF Unwritten, TypeOK
    <3>2. /\ flush'[q] = "asked" /\ acks'[q] = FALSE
      BY <2>1, <2>2 DEF Flushing, TypeOK
    <3>a. PICK j : j = Len(queue[p]) + 1
      OBVIOUS
    <3>3. MarkerAt(q, j)' /\ j \in DOMAIN queue'[q]
      <4>1. NoMarker(p) /\ QueueOf(p)
        BY <2>1, Positions DEF Flushing
      <4> QED
        BY <2>1, <2>2, <3>a, <4>1 DEF Queued, MarkerAt, NoMarker, QueueOf
    <3> QED
      BY <3>1, <3>2, <3>3 DEF Flushing
  <2>3. CASE q # p
    BY <2>1, <2>3, <1>b DEF TypeOK, Queued
  <2> QED
    BY <2>2, <2>3
<1>4. ASSUME NEW p \in Procs, NEW m, Taken(p, m), NEW q \in Procs
      PROVE  Flushing(q)'
  <2>1. CASE q = p
    <3>1. /\ flush' = flush /\ due' = due /\ Dequeued(p) /\ QueueOf(p)
          /\ 1 \in DOMAIN queue[p] /\ queue[p][1] = m
      BY <1>4, Positions DEF Taken
    <3>2. /\ NoMarker(p) => NoMarker(p)' /\ m # Marker
          /\ NoneDue(p) => NoneDue(p)' /\ m \notin due[p]
      BY <3>1 DEF NoMarker, NoneDue, Dequeued
    <3>3. CASE m = Marker
      <4>1. flush[p] = "asked" /\ ~ acks[p] /\ MarkerAt(p, 1)
        BY <3>1, <3>2, <3>3 DEF Flushing, MarkerAt
      <4>2. acks'[p] = TRUE /\ flush'[p] = "asked"
        BY <1>4, <3>1, <3>3, <4>1 DEF Taken, TypeOK, Marker, Entry
      <4>3. NoMarker(p)' /\ NoneDue(p)'
        BY <3>1, <4>1 DEF NoMarker, NoneDue, MarkerAt, Dequeued, QueueOf
      <4> QED
        BY <1>a, <2>1, <3>1, <4>2, <4>3 DEF Flushing
    <3>4. CASE m # Marker
      <4>1. acks' = acks
        BY <1>4, <3>4 DEF Taken
      <4>2. ASSUME NEW j \in DOMAIN queue[p], MarkerAt(p, j)
            PROVE  j - 1 \in DOMAIN queue'[p] /\ MarkerAt(p, j - 1)'
        BY <3>1, <3>4, <4>2 DEF MarkerAt, Dequeued, QueueOf
      <4>3. /\ \A i \in DOMAIN entries'[p] : entries'[p][i] = m \/ \E k \in DOMAIN entries[p] : entries'[p][i] = entries[p][k]
            /\ \A r \in batch'[p] : Detail(r) = m \/ r \in batch[p]
        <5>1. \/ entries' = entries
              \/ Entered(p, m) /\ EntriesOf(p)
          BY <1>4, Positions DEF Taken
        <5>2. \A i \in DOMAIN entries'[p] : entries'[p][i] = m \/ \E k \in DOMAIN entries[p] : entries'[p][i] = entries[p][k]
          BY <5>1 DEF Entered, EntriesOf
        <5>3. \A r \in batch'[p] : Detail(r) = m \/ r \in batch[p]
          BY <1>4, <3>4 DEF Taken, TypeOK
        <5> QED
          BY <5>2, <5>3
      <4> QED
        BY <1>a, <2>1, <3>1, <3>2, <4>1, <4>2, <4>3 DEF Flushing
    <3> QED
      BY <3>3, <3>4
  <2>2. CASE q # p
    BY <1>4, <2>2, <1>b DEF Taken, Dequeued, Entered, TypeOK
  <2> QED
    BY <2>1, <2>2
<1>5. ASSUME NEW r \in Requests, NEW p \in Procs, NEW m, Sends(r, p, m), NEW q \in Procs
      PROVE  Flushing(q)'
  <2>1. /\ entries' = entries /\ batch' = batch /\ acks' = acks /\ flush' = flush /\ due' = due
        /\ m # Marker
    BY <1>5 DEF Sends
  <2>2. CASE queue'[q] = queue[q]
    BY <2>1, <2>2, <1>b
  <2>3. CASE q = p /\ Queued(p, m)
    <3>1. m \notin due[p]
      <4>1. m \notin SentOff
        BY <1>5 DEF Sends, SentOff, Sent
      <4> QED
        BY <4>1 DEF Flushing
    <3>2. QueueOf(p)
      BY Positions
    <3>3. /\ NoMarker(p) => NoMarker(p)'
          /\ NoneDue(p) => NoneDue(p)'
          /\ \A j \in DOMAIN queue[p] : MarkerAt(p, j) => MarkerAt(p, j)' /\ j \in DOMAIN queue'[p]
      <4>1. PICK l \in Nat : l = Len(queue[p]) /\ DOMAIN queue[p] = 1..l
        BY <3>2 DEF QueueOf
      <4>2. /\ DOMAIN queue'[p] = 1..l \union {l + 1}
            /\ \A i \in 1..l : queue'[p][i] = queue[p][i]
            /\ queue'[p][l + 1] = m
        <5>1. DOMAIN queue'[p] = 1..l + 1
          BY <2>3, <4>1 DEF Queued
        <5> QED
          BY <2>3, <4>1, <5>1 DEF Queued
      <4>3. m # Marker /\ m \notin due'[p] /\ due' = due
        BY <2>1, <3>1
      <4>4. NoMarker(p) => NoMarker(p)'
        BY <4>1, <4>2, <4>3 DEF NoMarker
      <4>5. NoneDue(p) => NoneDue(p)'
        BY <4>1, <4>2, <4>3 DEF NoneDue
      <4>6. ASSUME NEW j \in DOMAIN queue[p], MarkerAt(p, j)
            PROVE  MarkerAt(p, j)' /\ j \in DOMAIN queue'[p]
        <5>1. \A i \in DOMAIN queue'[p] : queue'[p][i] = Marker => i = j
          BY <4>1, <4>2, <4>3, <4>6 DEF MarkerAt
        <5>2. \A i \in DOMAIN queue'[p] : i > j => queue'[p][i] \notin due'[p]
          BY <4>1, <4>2, <4>3, <4>6 DEF MarkerAt
        <5> QED
          BY <4>1, <4>2, <4>6, <5>1, <5>2 DEF MarkerAt
      <4> QED
        BY <4>4, <4>5, <4>6
    <3> QED
      BY <1>a, <2>1, <2>3, <3>3 DEF Flushing
  <2> QED
    BY <1>5, <2>2, <2>3, SendEffect DEF Queued
<1>6. ASSUME UNCHANGED <<queue, entries, batch, acks, flush, due>>, NEW q \in Procs
      PROVE  Flushing(q)'
  BY <1>6, <1>b
<1>7. ASSUME NEW p \in Procs, Open(p)
      PROVE  UNCHANGED <<queue, entries, batch, acks, flush, due>>
  BY <1>7 DEF Open, taken, history
<1>8. ASSUME NEW r \in Requests, HangUp(r)
      PROVE  UNCHANGED <<queue, entries, batch, acks, flush, due>>
  BY <1>8 DEF HangUp, process, taken, history
<1>9. ASSUME OnlyInvoices
      PROVE  UNCHANGED <<queue, entries, batch, acks, flush, due>>
  BY <1>9 DEF OnlyInvoices
<1> QED
  BY <1>1, <1>2, <1>3, <1>4, <1>5, <1>6, <1>7, <1>8, <1>9, Steps, TakeEffect

LEMMA FlushInit == Init => FlushInv
<1> SUFFICES ASSUME Init PROVE FlushInv
  OBVIOUS
<1>1. TypeOK
  BY InitType
<1>2. Served /\ Closed /\ InFlight
  BY DEF Init, Served, Closed, InFlight
<1>3. \A p \in Procs : Flushing(p)
  BY DEF Init, Flushing, NoMarker, NoneDue
<1> QED
  BY <1>1, <1>2, <1>3 DEF FlushInv

LEMMA FlushKept == FlushInv /\ [Next]_vars => FlushInv'
BY TypeStep, ServedStep, ClosedStep, InFlightStep, FlushStep DEF FlushInv

(* When Store::flush is answered, what was sent before it is in the         *)
(* database or its batch failed.                                            *)
THEOREM BooksFlushedIsWritten == Spec => []FlushedIsWritten
<1>1. FlushInv => FlushedIsWritten
  <2>1. SUFFICES ASSUME FlushInv, NEW p \in Procs, flush[p] = "acked"
                 PROVE  due[p] \intersect Unwritten(p) = {}
    BY DEF FlushedIsWritten
  <2>2. /\ \A i \in DOMAIN queue[p] : queue[p][i] \notin due[p]
        /\ \A i \in DOMAIN entries[p] : entries[p][i] \notin due[p]
        /\ \A r \in batch[p] : Detail(r) \notin due[p]
    BY <2>1 DEF FlushInv, Flushing, NoneDue
  <2>3. ToSet(queue[p]) = {queue[p][i] : i \in DOMAIN queue[p]}
        /\ ToSet(entries[p]) = {entries[p][i] : i \in DOMAIN entries[p]}
    BY <2>1, Elements DEF FlushInv, TypeOK
  <2> QED
    BY <2>2, <2>3 DEF Unwritten
<1> QED
  BY <1>1, FlushInit, FlushKept, PTL DEF Spec

-----------------------------------------------------------------------------
(* The sums.  For the entries on their way there are six kinds of step.     *)

Untouched ==
  /\ UNCHANGED <<queue, entries, ledger, lost>>
  /\ \A r \in Requests : pc'[r] = "booked" => pc[r] = "booked"

\* What p held is gone, and is in `lost`.
Dropped(p) ==
  /\ \/ queue'[p] = queue[p]
     \/ DOMAIN queue'[p] = {}
        /\ \A i \in DOMAIN queue[p] : queue[p][i] \in Entry => queue[p][i] \in lost'
  /\ DOMAIN entries'[p] = {}
  /\ \A i \in DOMAIN entries[p] : entries[p][i] \in lost'
  /\ \A q \in Procs \ {p} : queue'[q] = queue[q] /\ entries'[q] = entries[q]
  /\ lost \subseteq lost' /\ ledger' = ledger
  /\ \A r \in Requests : pc'[r] = "booked" => pc[r] = "booked"

Marked(p) ==
  Queued(p, Marker) /\ UNCHANGED <<entries, ledger, lost, pc>>

Committed(p) ==
  /\ queue' = queue /\ lost' = lost /\ pc' = pc
  /\ DOMAIN entries'[p] = {} /\ \A q \in Procs \ {p} : entries'[q] = entries[q]
  /\ DOMAIN ledger \subseteq DOMAIN ledger'
  /\ \A n \in DOMAIN ledger : ledger'[n] = ledger[n]
  /\ \A i \in DOMAIN entries[p] :
       \E n \in DOMAIN ledger' \ DOMAIN ledger : n = Len(ledger) + i
  /\ \A n \in DOMAIN ledger' \ DOMAIN ledger :
       \E i \in DOMAIN entries[p], prev \in Nat :
         n = Len(ledger) + i /\ ledger'[n] = RowOf(entries[p][i], prev)

LEMMA DropMoves ==
  ASSUME TypeOK, NEW p \in Procs, Crash(p) \/ Exit(p) \/ CommitFails(p)
  PROVE  Dropped(p)
<1>1. \A i \in DOMAIN entries[p] : entries[p][i] \in Entry /\ entries[p][i] \in ToSet(entries[p])
  BY Elements DEF TypeOK
<1>2. \A i \in DOMAIN queue[p] : queue[p][i] \in Message /\ queue[p][i] \in ToSet(queue[p])
  BY Elements DEF TypeOK
<1>3. \A m \in Entry : m.kind \in {"input", "final"} /\ m # Marker
  BY DEF Entry, Marker
<1>4. CASE Crash(p) \/ Exit(p)
  <2>1. \A i \in DOMAIN entries[p] : entries[p][i] \in lost'
    BY <1>1, <1>3, <1>4, DieEffect DEF Unwritten
  <2>2. \A i \in DOMAIN queue[p] : queue[p][i] \in Entry => queue[p][i] \in lost'
    BY <1>2, <1>3, <1>4, DieEffect DEF Unwritten
  <2>3. \A r \in Requests : pc'[r] = "booked" => pc[r] = "booked"
    BY <1>4, DieEffect
  <2> QED
    BY <1>4, <2>1, <2>2, <2>3, DieEffect, ClearEffect DEF Dropped
<1>5. CASE CommitFails(p)
  <2>1. /\ Clear(p) /\ UNCHANGED <<pc, queue, ledger>>
        /\ lost' = lost \union {m \in ToSet(entries[p]) : m.kind \in {"input", "final"}}
    BY <1>5 DEF CommitFails, AnswerFlush, Lose, request, base
  <2> QED
    BY <1>1, <1>3, <2>1, ClearEffect DEF Dropped
<1> QED
  BY <1>4, <1>5

LEMMA CommitMoves ==
  ASSUME TypeOK, NEW p \in Procs, Commit(p)
  PROVE  Committed(p)
<1>1. /\ queue' = queue /\ lost' = lost /\ pc' = pc /\ Clear(p)
  BY DEF Commit, AnswerFlush, request, history
<1>2. EntriesOf(p)
  BY Positions
<1>3. \A i \in DOMAIN entries[p] :
        \E n \in DOMAIN ledger' \ DOMAIN ledger : n = Len(ledger) + i
  BY <1>2, NewRows DEF EntriesOf
<1>4. ASSUME NEW n \in DOMAIN ledger' \ DOMAIN ledger
      PROVE  \E i \in DOMAIN entries[p], prev \in Nat :
               n = Len(ledger) + i /\ ledger'[n] = RowOf(entries[p][i], prev)
  <2>1. PICK i : i = n - Len(ledger)
    OBVIOUS
  <2>2. i \in DOMAIN entries[p] /\ n = Len(ledger) + i /\ i \in 1..Len(entries[p])
    BY <1>2, <1>4, <2>1, NewRows DEF EntriesOf
  <2>3. PICK prev \in Nat : prev = IF i = 1 THEN head[p] ELSE Len(ledger) + i - 1
    BY <2>2, NewRows DEF TypeOK
  <2>4. ledger'[n] = RowOf(entries[p][i], prev)
    BY <2>2, <2>3, NewRows
  <2> QED
    BY <2>2, <2>4
<1>5. DOMAIN ledger \subseteq DOMAIN ledger' /\ \A n \in DOMAIN ledger : ledger'[n] = ledger[n]
  BY NewRows
<1> QED
  BY <1>1, <1>3, <1>4, <1>5, ClearEffect DEF Committed

LEMMA Moves ==
  ASSUME TypeOK, Served, [Next]_vars
  PROVE  \/ Untouched
         \/ \E p \in Procs : Dropped(p) \/ Marked(p) \/ Committed(p) \/ \E m : Taken(p, m)
         \/ \E r \in Requests, p \in Procs : \E m : Sends(r, p, m)
<1>1. ASSUME NEW p \in Procs, Open(p)
      PROVE  Untouched
  BY <1>1 DEF Open, Untouched, request, base, history, taken
<1>2. ASSUME NEW r \in Requests, HangUp(r)
      PROVE  Untouched
  BY <1>2 DEF HangUp, Untouched, process, base, history, taken, TypeOK
<1>3. ASSUME OnlyInvoices
      PROVE  Untouched
  BY <1>3 DEF OnlyInvoices, Untouched
<1>4. ASSUME NEW p \in Procs, AskFlush(p)
      PROVE  Marked(p)
  <2>1. Marker \in Message
    BY DEF Message
  <2> QED
    BY <1>4, <2>1, QueuedBy DEF AskFlush, Marked, taken, request, base
<1> QED
  BY <1>1, <1>2, <1>3, <1>4, Steps, DropMoves, CommitMoves, TakeEffect

LEMMA FiguresStep == TypeOK /\ Served /\ InFlight /\ Figures /\ [Next]_vars => Figures'
<1> SUFFICES ASSUME TypeOK, Served, InFlight, Figures, [Next]_vars
             PROVE  Figures'
  OBVIOUS
<1>a. SentOff \subseteq SentOff'
  BY SentStays
<1>b. CASE ledger' = ledger
  BY <1>a, <1>b DEF Figures, RowSent
<1>c. ASSUME NEW p \in Procs, Committed(p)
      PROVE  Figures'
  <2>1. ASSUME NEW n \in DOMAIN ledger
        PROVE  ledger'[n] = ledger[n] /\ RowSent(n)'
    BY <1>a, <1>c DEF Figures, RowSent, Committed
  <2>2. ASSUME NEW n \in DOMAIN ledger' \ DOMAIN ledger
        PROVE  /\ RowSent(n)'
               /\ ledger'[n].phase = "input" => ledger'[n].requests = 1 /\ ledger'[n].tokens = Booked
               /\ ledger'[n].phase = "final" =>
                    ledger'[n].tokens = IF ledger'[n].requests = 0
                            THEN Charge[ledger'[n].of] - Booked ELSE Charge[ledger'[n].of]
    <3>1. PICK i \in DOMAIN entries[p], prev \in Nat : ledger'[n] = RowOf(entries[p][i], prev)
      BY <1>c, <2>2 DEF Committed
    <3>2. PICK m \in Entry : m = entries[p][i] /\ m \in SentOff
      BY <3>1, Positions DEF EntriesOf, InFlight, SentBy
    <3>3. [kind |-> m.kind, of |-> m.of, booked |-> TRUE] \in SentOff
      <4>1. m.of \in Requests /\ m.kind \in {"input", "final"} /\ Sent(m.kind, m.of)
        BY <3>2 DEF SentOff, Entry
      <4>2. [kind |-> m.kind, of |-> m.of, booked |-> TRUE] \in Entry
        BY <4>1 DEF Entry
      <4> QED
        BY <4>1, <4>2 DEF SentOff, Message, Marker
    <3>4. m.booked \in BOOLEAN /\ m.kind \in {"input", "final"}
      BY <3>2 DEF Entry
    <3> QED
      <4>1. /\ ledger'[n].of = m.of /\ ledger'[n].phase = m.kind
            /\ m.kind = "input" => ledger'[n].requests = 1 /\ ledger'[n].tokens = Booked
            /\ m.kind = "final" /\ m.booked =>
                 ledger'[n].requests = 0 /\ ledger'[n].tokens = Charge[m.of] - Booked
            /\ m.kind = "final" /\ ~ m.booked =>
                 ledger'[n].requests = 1 /\ ledger'[n].tokens = Charge[m.of]
        BY <3>1, <3>2, RowFields
      <4>2. RowSent(n)'
        BY <1>a, <3>3, <4>1 DEF RowSent
      <4> QED
        BY <3>4, <4>1, <4>2
  <2> QED
    BY <1>c, <2>1, <2>2 DEF Figures
<1> QED
  BY <1>b, <1>c, Moves DEF Untouched, Dropped, Marked, Taken, Sends

(* Nothing that a request is about to send is anywhere yet. *)
LEMMA FreshEntry ==
  ASSUME TypeOK, Served, InFlight, Figures, NEW r \in Requests, NEW p \in Procs, NEW m, Sends(r, p, m)
  PROVE  /\ \A q \in Procs :
              /\ \A i \in DOMAIN queue[q] : ~ SameEntry(queue[q][i], m)
              /\ \A i \in DOMAIN entries[q] : ~ SameEntry(entries[q][i], m)
         /\ \A n \in DOMAIN ledger : ~ IsRowOf(n, m)
<1>1. m.of = r /\ m # Marker /\ m.kind # "flush" /\ ~ Sent(m.kind, m.of)
  BY MessageKinds DEF Sends, Sent
<1>2. \A n \in SentOff : Sent(n.kind, n.of)
  BY DEF SentOff
<1>3. Marker.kind = "flush"
  BY DEF Marker
<1>4. \A q \in Procs : /\ \A i \in DOMAIN queue[q] : queue[q][i] = Marker \/ queue[q][i] \in SentOff
                       /\ \A i \in DOMAIN entries[q] : entries[q][i] \in SentOff
  BY DEF InFlight, SentBy
<1>5. ASSUME NEW n \in DOMAIN ledger, IsRowOf(n, m)
      PROVE  FALSE
  <2>1. [kind |-> ledger[n].phase, of |-> ledger[n].of, booked |-> TRUE] \in SentOff
    BY DEF Figures, RowSent
  <2>2. Sent(ledger[n].phase, ledger[n].of)
    BY <1>2, <2>1
  <2> QED
    BY <1>1, <1>5, <2>2 DEF IsRowOf
<1>6. ASSUME NEW q \in Procs, NEW n, SameEntry(n, m), n = Marker \/ n \in SentOff
      PROVE  FALSE
  BY <1>1, <1>2, <1>3, <1>6 DEF SameEntry
<1> QED
  BY <1>4, <1>5, <1>6

(* What two processes hold differs. *)
LEMMA ApartInFlight ==
  ASSUME TypeOK, InFlight, NEW p \in Procs, NEW q \in Procs, p # q, NEW i \in DOMAIN entries[p]
  PROVE  /\ \A j \in DOMAIN queue[q] : queue[q][j].of # entries[p][i].of
         /\ \A j \in DOMAIN entries[q] : entries[q][j].of # entries[p][i].of
<1>1. at[entries[p][i].of] = p /\ entries[p][i].of \in Requests
  BY Positions DEF InFlight, SentBy, EntriesOf, Entry
<1>2. \A j \in DOMAIN entries[q] : at[entries[q][j].of] = q
  BY DEF InFlight, SentBy
<1>3. \A j \in DOMAIN queue[q] : queue[q][j] = Marker \/ at[queue[q][j].of] = q
  BY DEF InFlight, SentBy
<1>4. Marker.of = Nobody /\ Nobody \notin Requests
  BY BooksAssumption DEF Marker
<1> QED
  BY <1>1, <1>2, <1>3, <1>4

LEMMA OnceStep ==
  ASSUME TypeOK, Served, InFlight, Figures, OneRow, \A p \in Procs : Once(p), [Next]_vars
  PROVE  OneRow' /\ \A p \in Procs : Once(p)'
<1>b. ASSUME NEW q \in Procs, queue'[q] = queue[q], entries'[q] = entries[q], ledger' = ledger
      PROVE  Once(q)'
  BY <1>b DEF Once, IsRowOf
<1>c. ASSUME ledger' = ledger PROVE OneRow'
  BY <1>c DEF OneRow
<1>q. \A p \in Procs : QueueOf(p) /\ EntriesOf(p)
  BY Positions
<1>1. CASE Untouched
  BY <1>1, <1>b, <1>c DEF Untouched
<1>2. ASSUME NEW p \in Procs, Dropped(p)
      PROVE  OneRow' /\ \A q \in Procs : Once(q)'
  <2>1. Once(p)'
    BY <1>2 DEF Once, Dropped, IsRowOf
  <2> QED
    BY <1>2, <2>1, <1>b, <1>c DEF Dropped
<1>3. ASSUME NEW p \in Procs, Marked(p)
      PROVE  OneRow' /\ \A q \in Procs : Once(q)'
  <2>1. Once(p)'
    <3>1. Marker.of = Nobody /\ Nobody \notin Requests /\ Marker \notin Entry
      BY BooksAssumption DEF Marker, Entry
    <3>2. /\ \A i \in DOMAIN entries[p] : entries[p][i].of \in Requests
          /\ \A n \in DOMAIN ledger : ledger[n].of \in Requests
          /\ \A i \in DOMAIN queue[p] : queue[p][i] \in Entry => queue[p][i].of \in Requests
      <4>1. \A n \in Entry : n.of \in Requests
        BY DEF Entry
      <4>2. \A n \in DOMAIN ledger : ledger[n].of \in Requests
        <5>1. \A n \in DOMAIN ledger : ledger[n] \in Row
          BY DEF TypeOK
        <5>2. \A l \in Row : l.of \in Requests
          BY DEF Row
        <5> QED
          BY <5>1, <5>2
      <4> QED
        BY <1>q, <4>1, <4>2 DEF EntriesOf
    <3>3. /\ \A i \in DOMAIN queue'[p] :
               \/ queue'[p][i] = Marker
               \/ i \in DOMAIN queue[p] /\ queue'[p][i] = queue[p][i]
          /\ entries' = entries /\ ledger' = ledger
      BY <1>3, <1>q DEF Marked, Queued, QueueOf
    <3>4. \A n \in Entry : ~ SameEntry(Marker, n) /\ ~ SameEntry(n, Marker)
      BY <3>1 DEF SameEntry, Entry
    <3>5. \A i, j \in DOMAIN queue'[p] :
            queue'[p][i] \in Entry /\ SameEntry(queue'[p][i], queue'[p][j]) => i = j
      BY <3>1, <3>3, <3>4 DEF Once
    <3>6. \A i \in DOMAIN queue'[p], j \in DOMAIN entries[p] : ~ SameEntry(queue'[p][i], entries[p][j])
      BY <1>q, <3>3, <3>4 DEF Once, EntriesOf
    <3>7. \A n \in DOMAIN ledger : \A i \in DOMAIN queue'[p] : ~ IsRowOf(n, queue'[p][i])
      BY <3>1, <3>2, <3>3 DEF Once, IsRowOf
    <3> QED
      BY <3>3, <3>5, <3>6, <3>7 DEF Once, IsRowOf
  <2> QED
    BY <1>3, <2>1, <1>b, <1>c DEF Marked, Queued
<1>4. ASSUME NEW p \in Procs, NEW m, Taken(p, m)
      PROVE  OneRow' /\ \A q \in Procs : Once(q)'
  <2>1. Once(p)'
    <3>1. CASE entries' = entries
      BY <1>4, <3>1 DEF Once, Taken, Dequeued, IsRowOf
    <3>2. CASE m \in Entry /\ Entered(p, m)
      <4>1. /\ \A i \in DOMAIN queue'[p] : ~ SameEntry(queue'[p][i], m)
        BY <1>4, <3>2, Positions DEF Once, Taken, Dequeued, SameEntry, QueueOf
      <4>2. \A i \in DOMAIN entries[p] : ~ SameEntry(m, entries[p][i])
        BY <1>4, <3>2 DEF Once, Taken
      <4>3. \A n \in DOMAIN ledger : ~ IsRowOf(n, m)
        BY <1>4, <3>2 DEF Once, Taken
      <4>4. QueueOf(p) /\ EntriesOf(p)
        BY Positions
      <4>5. /\ \A i, j \in DOMAIN queue'[p] :
                 queue'[p][i] \in Entry /\ SameEntry(queue'[p][i], queue'[p][j]) => i = j
            /\ \A n \in DOMAIN ledger : \A i \in DOMAIN queue'[p] : ~ IsRowOf(n, queue'[p][i])
        <5>1. \A i \in DOMAIN queue'[p] : i \in Int /\ i + 1 \in DOMAIN queue[p]
                                            /\ queue'[p][i] = queue[p][i + 1]
          BY <1>4, <4>4 DEF Taken, Dequeued, QueueOf
        <5>2. \A i, j \in DOMAIN queue'[p] :
                 queue'[p][i] \in Entry /\ SameEntry(queue'[p][i], queue'[p][j]) => i + 1 = j + 1
          BY <5>1 DEF Once
        <5>3. \A i, j \in DOMAIN queue'[p] : i + 1 = j + 1 => i = j
          BY <5>1
        <5>4. \A n \in DOMAIN ledger : \A i \in DOMAIN queue'[p] : ~ IsRowOf(n, queue'[p][i])
          BY <5>1 DEF Once
        <5> QED
          BY <5>2, <5>3, <5>4
      <4>6. \A i, j \in DOMAIN entries'[p] : SameEntry(entries'[p][i], entries'[p][j]) => i = j
        <5>1. \A i \in DOMAIN entries'[p] :
                 \/ i \in DOMAIN entries[p] /\ entries'[p][i] = entries[p][i]
                 \/ i = Len(entries[p]) + 1 /\ entries'[p][i] = m
          BY <3>2, <4>4 DEF Entered, EntriesOf
        <5>2. \A i \in DOMAIN entries[p] : ~ SameEntry(entries[p][i], m)
          BY <4>2 DEF SameEntry
        <5> QED
          BY <4>2, <5>1, <5>2 DEF Once
      <4>7. \A i \in DOMAIN queue'[p], j \in DOMAIN entries'[p] :
              ~ SameEntry(queue'[p][i], entries'[p][j])
        BY <1>4, <3>2, <4>1, <4>4 DEF Once, Taken, Dequeued, Entered, EntriesOf
      <4>8. \A n \in DOMAIN ledger : \A i \in DOMAIN entries'[p] : ~ IsRowOf(n, entries'[p][i])
        BY <3>2, <4>3, <4>4 DEF Once, Entered, EntriesOf
      <4> QED
        BY <1>4, <4>5, <4>6, <4>7, <4>8 DEF Once, Taken, IsRowOf
    <3> QED
      BY <1>4, <3>1, <3>2 DEF Taken
  <2> QED
    BY <1>4, <2>1, <1>b, <1>c DEF Taken, Dequeued, Entered
<1>5. ASSUME NEW p \in Procs, Committed(p)
      PROVE  OneRow' /\ \A q \in Procs : Once(q)'
  <2>1. ASSUME NEW n \in DOMAIN ledger' \ DOMAIN ledger
        PROVE  \E i \in DOMAIN entries[p] :
                 /\ n = Len(ledger) + i
                 /\ ledger'[n].phase = entries[p][i].kind /\ ledger'[n].of = entries[p][i].of
    <3>1. PICK i \in DOMAIN entries[p], prev \in Nat :
            n = Len(ledger) + i /\ ledger'[n] = RowOf(entries[p][i], prev)
      BY <1>5, <2>1 DEF Committed
    <3>2. entries[p][i] \in Entry
      BY Positions DEF EntriesOf
    <3> QED
      BY <3>1, <3>2, RowFields
  <2>2. OneRow'
    <3>1. ASSUME NEW n \in DOMAIN ledger', NEW k \in DOMAIN ledger',
                 ledger'[n].phase = ledger'[k].phase, ledger'[n].of = ledger'[k].of
          PROVE  n = k
      <4>1. CASE n \in DOMAIN ledger /\ k \in DOMAIN ledger
        BY <1>5, <3>1, <4>1 DEF Committed, OneRow
      <4>2. CASE n \in DOMAIN ledger /\ k \notin DOMAIN ledger
        BY <1>5, <2>1, <3>1, <4>2 DEF Committed, Once, IsRowOf
      <4>3. CASE n \notin DOMAIN ledger /\ k \in DOMAIN ledger
        BY <1>5, <2>1, <3>1, <4>3 DEF Committed, Once, IsRowOf
      <4>4. CASE n \notin DOMAIN ledger /\ k \notin DOMAIN ledger
        BY <2>1, <3>1, <4>4 DEF Once, SameEntry
      <4> QED
        BY <4>1, <4>2, <4>3, <4>4
    <3> QED
      BY <3>1 DEF OneRow
  <2>3. ASSUME NEW q \in Procs, NEW n \in DOMAIN ledger'
        PROVE  /\ \A i \in DOMAIN queue'[q] : ~ (ledger'[n].phase = queue'[q][i].kind /\ ledger'[n].of = queue'[q][i].of)
               /\ \A i \in DOMAIN entries'[q] : ~ (ledger'[n].phase = entries'[q][i].kind /\ ledger'[n].of = entries'[q][i].of)
    <3>1. CASE n \in DOMAIN ledger
      BY <1>5, <3>1 DEF Committed, Once, IsRowOf
    <3>2. CASE n \notin DOMAIN ledger
      <4>1. PICK i \in DOMAIN entries[p] : ledger'[n].phase = entries[p][i].kind /\ ledger'[n].of = entries[p][i].of
        BY <2>1, <2>3, <3>2
      <4>2. CASE q = p
        BY <1>5, <4>1, <4>2 DEF Committed, Once, SameEntry
      <4>3. CASE q # p
        BY <1>5, <4>1, <4>3, ApartInFlight DEF Committed
      <4> QED
        BY <4>2, <4>3
    <3> QED
      BY <3>1, <3>2
  <2>4. ASSUME NEW q \in Procs
        PROVE  Once(q)'
    BY <1>5, <2>3 DEF Once, Committed, IsRowOf
  <2> QED
    BY <2>2, <2>4
<1>6. ASSUME NEW r \in Requests, NEW p \in Procs, NEW m, Sends(r, p, m)
      PROVE  OneRow' /\ \A q \in Procs : Once(q)'
  <2>1. entries' = entries /\ ledger' = ledger
    BY <1>6 DEF Sends
  <2>2. CASE Queued(p, m)
    <3>1. Once(p)'
      <4>1. /\ \A i \in DOMAIN queue[p] : ~ SameEntry(queue[p][i], m) /\ ~ SameEntry(m, queue[p][i])
            /\ \A i \in DOMAIN entries[p] : ~ SameEntry(m, entries[p][i])
            /\ \A n \in DOMAIN ledger : ~ IsRowOf(n, m)
        BY <1>6, FreshEntry DEF SameEntry
      <4>2. \A i \in DOMAIN queue'[p] :
                 \/ i \in DOMAIN queue[p] /\ queue'[p][i] = queue[p][i]
                 \/ i = Len(queue[p]) + 1 /\ queue'[p][i] = m
        BY <1>q, <2>2 DEF Queued, QueueOf
      <4>3. \A i, j \in DOMAIN queue'[p] :
              queue'[p][i] \in Entry /\ SameEntry(queue'[p][i], queue'[p][j]) => i = j
        BY <4>1, <4>2 DEF Once
      <4>4. \A i \in DOMAIN queue'[p], j \in DOMAIN entries[p] : ~ SameEntry(queue'[p][i], entries[p][j])
        BY <4>1, <4>2 DEF Once
      <4>5. \A n \in DOMAIN ledger : \A i \in DOMAIN queue'[p] : ~ IsRowOf(n, queue'[p][i])
        BY <4>1, <4>2 DEF Once
      <4> QED
        BY <2>1, <4>3, <4>4, <4>5 DEF Once, IsRowOf
    <3> QED
      BY <2>1, <2>2, <3>1, <1>b, <1>c DEF Queued
  <2>3. CASE queue' = queue
    BY <2>1, <2>3, <1>b, <1>c
  <2> QED
    BY <1>6, <2>2, <2>3, SendEffect
<1> QED
  BY <1>1, <1>2, <1>3, <1>4, <1>5, <1>6, Moves

LEMMA FirstStep ==
  ASSUME TypeOK, Served, InFlight, Figures, \A p \in Procs : InputFirst(p), [Next]_vars
  PROVE  \A p \in Procs : InputFirst(p)'
<1>b. ASSUME NEW q \in Procs, queue'[q] = queue[q], entries'[q] = entries[q], ledger' = ledger
      PROVE  InputFirst(q)'
  BY <1>b DEF InputFirst
<1>q. \A p \in Procs : QueueOf(p) /\ EntriesOf(p)
  BY Positions
<1>1. CASE Untouched
  BY <1>1, <1>b DEF Untouched
<1>2. ASSUME NEW p \in Procs, Dropped(p), NEW q \in Procs
      PROVE  InputFirst(q)'
  <2>1. InputFirst(p)'
    BY <1>2 DEF InputFirst, Dropped
  <2> QED
    BY <1>2, <2>1, <1>b DEF Dropped
<1>3. ASSUME NEW p \in Procs, Marked(p), NEW q \in Procs
      PROVE  InputFirst(q)'
  <2>1. /\ \A i \in DOMAIN queue'[p] :
             \/ queue'[p][i] = Marker
             \/ i \in DOMAIN queue[p] /\ queue'[p][i] = queue[p][i]
        /\ entries' = entries /\ ledger' = ledger
    BY <1>3, <1>q DEF Marked, Queued, QueueOf
  <2>2. Marker.kind = "flush"
    BY DEF Marker
  <2>3. InputFirst(p)'
    BY <2>1, <2>2 DEF InputFirst
  <2> QED
    BY <1>3, <2>3, <1>b DEF Marked, Queued
<1>4. ASSUME NEW p \in Procs, NEW m, Taken(p, m), NEW q \in Procs
      PROVE  InputFirst(q)'
  <2>1. \A i \in DOMAIN queue'[p] : /\ i \in Int /\ i > 0 /\ i + 1 \in DOMAIN queue[p]
                                   /\ queue'[p][i] = queue[p][i + 1]
    BY <1>4, <1>q DEF Taken, Dequeued, QueueOf
  <2>2. 1 \in DOMAIN queue[p] /\ queue[p][1] = m /\ ledger' = ledger
    BY <1>4 DEF Taken
  <2>3. \A i \in DOMAIN entries'[p] : \/ i \in DOMAIN entries[p] /\ entries'[p][i] = entries[p][i]
                                     \/ entries'[p][i] = m
    <3>1. CASE entries' = entries
      BY <3>1
    <3>2. CASE Entered(p, m)
      BY <3>2, <1>q DEF Entered, EntriesOf
    <3> QED
      BY <1>4, <3>1, <3>2 DEF Taken
  <2>4. ASSUME NEW i \in DOMAIN queue'[p], queue'[p][i].kind = "input"
        PROVE  /\ \A j \in DOMAIN queue'[p] :
                    j < i /\ queue'[p][j].kind = "final" => queue'[p][j].of # queue'[p][i].of
               /\ \A j \in DOMAIN entries'[p] :
                    entries'[p][j].kind = "final" => entries'[p][j].of # queue'[p][i].of
               /\ \A n \in DOMAIN ledger :
                    ledger[n].phase = "final" => ledger[n].of # queue'[p][i].of
    <3>1. i + 1 \in DOMAIN queue[p] /\ queue[p][i + 1].kind = "input" /\ queue'[p][i] = queue[p][i + 1]
          /\ 1 < i + 1
      BY <2>1, <2>4
    <3>2. m.kind = "final" => m.of # queue[p][i + 1].of
      BY <2>2, <3>1 DEF InputFirst
    <3>3. ASSUME NEW j \in DOMAIN queue'[p], j < i, queue'[p][j].kind = "final"
          PROVE  queue'[p][j].of # queue[p][i + 1].of
      <4>1. j + 1 \in DOMAIN queue[p] /\ j + 1 < i + 1 /\ queue'[p][j] = queue[p][j + 1]
        BY <2>1, <3>3
      <4> QED
        BY <3>1, <3>3, <4>1 DEF InputFirst
    <3> QED
      BY <2>3, <3>1, <3>2, <3>3 DEF InputFirst
  <2>5. ASSUME NEW i \in DOMAIN entries'[p], entries'[p][i].kind = "input", NEW n \in DOMAIN ledger,
               ledger[n].phase = "final"
        PROVE  ledger[n].of # entries'[p][i].of
    BY <2>2, <2>3, <2>5 DEF InputFirst
  <2>6. InputFirst(p)'
    BY <2>2, <2>4, <2>5 DEF InputFirst
  <2> QED
    BY <1>4, <2>6, <1>b DEF Taken, Dequeued, Entered
<1>5. ASSUME NEW p \in Procs, Committed(p), NEW q \in Procs
      PROVE  InputFirst(q)'
  <2>1. ASSUME NEW n \in DOMAIN ledger', ledger'[n].phase = "final"
        PROVE  \/ n \in DOMAIN ledger /\ ledger'[n] = ledger[n]
               \/ \E i \in DOMAIN entries[p] : entries[p][i].kind = "final" /\ ledger'[n].of = entries[p][i].of
    <3>1. CASE n \in DOMAIN ledger
      BY <1>5, <3>1 DEF Committed
    <3>2. CASE n \notin DOMAIN ledger
      <4>1. PICK i \in DOMAIN entries[p], prev \in Nat : ledger'[n] = RowOf(entries[p][i], prev)
        BY <1>5, <2>1, <3>2 DEF Committed
      <4>2. entries[p][i] \in Entry
        BY <1>q DEF EntriesOf
      <4> QED
        BY <2>1, <4>1, <4>2, RowFields
    <3> QED
      BY <3>1, <3>2
  <2>2. CASE q = p
    BY <1>5, <2>1, <2>2 DEF InputFirst, Committed
  <2>3. CASE q # p
    BY <1>5, <2>1, <2>3, ApartInFlight DEF InputFirst, Committed
  <2> QED
    BY <2>2, <2>3
<1>6. ASSUME NEW r \in Requests, NEW p \in Procs, NEW m, Sends(r, p, m), NEW q \in Procs
      PROVE  InputFirst(q)'
  <2>1. entries' = entries /\ ledger' = ledger
    BY <1>6 DEF Sends
  <2>2. CASE Queued(p, m)
    <3>1. \A i \in DOMAIN queue'[p] :
               \/ i \in DOMAIN queue[p] /\ queue'[p][i] = queue[p][i] /\ i < Len(queue[p]) + 1
               \/ i = Len(queue[p]) + 1 /\ queue'[p][i] = m
      BY <1>q, <2>2 DEF Queued, QueueOf
    <3>2. CASE m.kind = "input"
      <4>1. pc[r] = "new" /\ m.of = r
        BY <1>6, <3>2 DEF Sends
      <4>2. \A n \in SentOff : n.kind = "final" => n.of # r
        BY <4>1 DEF SentOff, Sent
      <4>3. /\ \A i \in DOMAIN queue[p] : queue[p][i].kind = "final" => queue[p][i].of # r
            /\ \A i \in DOMAIN entries[p] : entries[p][i].kind = "final" => entries[p][i].of # r
        BY <4>2 DEF InFlight, SentBy, Marker
      <4>4. \A n \in DOMAIN ledger : ledger[n].phase = "final" => ledger[n].of # r
        BY <4>2 DEF Figures, RowSent
      <4>5. InputFirst(p)'
        <5>1. ASSUME NEW i \in DOMAIN queue'[p], queue'[p][i].kind = "input"
              PROVE  /\ \A j \in DOMAIN queue'[p] :
                          j < i /\ queue'[p][j].kind = "final" => queue'[p][j].of # queue'[p][i].of
                     /\ \A j \in DOMAIN entries[p] :
                          entries[p][j].kind = "final" => entries[p][j].of # queue'[p][i].of
                     /\ \A n \in DOMAIN ledger :
                          ledger[n].phase = "final" => ledger[n].of # queue'[p][i].of
          <6>1. CASE i = Len(queue[p]) + 1 /\ queue'[p][i] = m
            BY <3>1, <4>1, <4>3, <4>4, <3>2, <6>1
          <6>2. CASE i \in DOMAIN queue[p] /\ queue'[p][i] = queue[p][i]
            BY <3>1, <3>2, <5>1, <6>2 DEF InputFirst
          <6> QED
            BY <3>1, <6>1, <6>2
        <5> QED
          BY <2>1, <5>1 DEF InputFirst
      <4> QED
        BY <2>1, <2>2, <4>5, <1>b DEF Queued
    <3>3. CASE m.kind # "input"
      <4>1. InputFirst(p)'
        <5>1. ASSUME NEW i \in DOMAIN queue'[p], queue'[p][i].kind = "input"
              PROVE  /\ i \in DOMAIN queue[p] /\ queue'[p][i] = queue[p][i]
                     /\ \A j \in DOMAIN queue'[p] : j < i => j \in DOMAIN queue[p] /\ queue'[p][j] = queue[p][j]
          BY <1>q, <3>1, <3>3, <5>1 DEF QueueOf
        <5> QED
          BY <2>1, <5>1 DEF InputFirst
      <4> QED
        BY <2>1, <2>2, <4>1, <1>b DEF Queued
    <3> QED
      BY <3>2, <3>3
  <2>3. CASE queue' = queue
    BY <2>1, <2>3, <1>b
  <2> QED
    BY <1>6, <2>2, <2>3, SendEffect
<1> QED
  BY <1>1, <1>2, <1>3, <1>4, <1>5, <1>6, Moves

(* A committed entry is a row, and each new row was one. *)
LEMMA RowsFromEntries ==
  ASSUME TypeOK, NEW p \in Procs, Committed(p)
  PROVE  /\ \A i \in DOMAIN entries[p] : \E n \in DOMAIN ledger' :
              ledger'[n].phase = entries[p][i].kind /\ ledger'[n].of = entries[p][i].of
         /\ \A n \in DOMAIN ledger' \ DOMAIN ledger : \E i \in DOMAIN entries[p] :
              /\ ledger'[n].phase = entries[p][i].kind /\ ledger'[n].of = entries[p][i].of
              /\ entries[p][i].kind = "final" => (ledger'[n].requests = 0) = entries[p][i].booked
<1>1. ASSUME NEW n \in DOMAIN ledger' \ DOMAIN ledger
      PROVE  \E i \in DOMAIN entries[p] :
              /\ n = Len(ledger) + i
              /\ ledger'[n].phase = entries[p][i].kind /\ ledger'[n].of = entries[p][i].of
              /\ entries[p][i].kind = "final" => (ledger'[n].requests = 0) = entries[p][i].booked
  <2>1. PICK i \in DOMAIN entries[p], prev \in Nat :
          n = Len(ledger) + i /\ ledger'[n] = RowOf(entries[p][i], prev)
    BY <1>1 DEF Committed
  <2>2. PICK m \in Entry : m = entries[p][i]
    BY Positions DEF EntriesOf
  <2>3. m.booked \in BOOLEAN
    BY DEF Entry
  <2>4. m.kind = "final" => (ledger'[n].requests = 0) = m.booked
    BY <2>1, <2>2, <2>3, RowFields
  <2> QED
    BY <2>1, <2>2, <2>4, RowFields
<1>2. ASSUME NEW i \in DOMAIN entries[p]
      PROVE  \E n \in DOMAIN ledger' :
              ledger'[n].phase = entries[p][i].kind /\ ledger'[n].of = entries[p][i].of
  <2>1. PICK n \in DOMAIN ledger' \ DOMAIN ledger : n = Len(ledger) + i
    BY <1>2 DEF Committed
  <2>2. PICK k \in DOMAIN entries[p] :
          n = Len(ledger) + k /\ ledger'[n].phase = entries[p][k].kind /\ ledger'[n].of = entries[p][k].of
    BY <1>1, <2>1
  <2>3. i = k
    BY <2>1, <2>2, Positions DEF EntriesOf, TypeOK
  <2> QED
    BY <2>1, <2>2, <2>3
<1> QED
  BY <1>1, <1>2

LEMMA KeptStays ==
  ASSUME TypeOK, Served, [Next]_vars, NEW r \in Requests, Kept(r)
  PROVE  Kept(r)'
<1>q. \A p \in Procs : QueueOf(p) /\ EntriesOf(p)
  BY Positions
<1>l. ASSUME lost \subseteq lost', LostRow(r)
      PROVE  Kept(r)'
  BY <1>l DEF Kept, LostRow
<1>r. ASSUME \A n \in DOMAIN ledger : n \in DOMAIN ledger' /\ ledger'[n] = ledger[n], InputRow(r)
      PROVE  Kept(r)'
  BY <1>r DEF Kept, InputRow
<1>w. ASSUME NEW p \in Procs, queue'[p] = queue[p], entries'[p] = entries[p], Waiting(p, r)
      PROVE  Kept(r)'
  BY <1>w DEF Kept, Waiting
<1>1. CASE Untouched
  BY <1>1, <1>l, <1>r, <1>w DEF Untouched, Kept
<1>2. ASSUME NEW p \in Procs, Dropped(p)
      PROVE  Kept(r)'
  <2>1. CASE Waiting(p, r)
    <3>1. ASSUME NEW m, IsInput(m, r), m \in lost'
          PROVE  Kept(r)'
      BY <3>1 DEF Kept, LostRow, IsInput
    <3>2. ASSUME NEW i \in DOMAIN entries[p], IsInput(entries[p][i], r)
          PROVE  Kept(r)'
      BY <1>2, <3>1, <3>2 DEF Dropped
    <3>3. ASSUME NEW i \in DOMAIN queue[p], IsInput(queue[p][i], r)
          PROVE  Kept(r)'
      <4>1. queue[p][i] \in Entry
        BY <1>q, <3>3, MessageKinds DEF QueueOf, IsInput
      <4>2. CASE queue'[p] = queue[p]
        BY <3>3, <4>2 DEF Kept, Waiting
      <4>3. CASE queue[p][i] \in lost'
        BY <3>1, <3>3, <4>3
      <4> QED
        BY <1>2, <4>1, <4>2, <4>3 DEF Dropped
    <3> QED
      BY <2>1, <3>2, <3>3 DEF Waiting
  <2> QED
    BY <1>2, <2>1, <1>l, <1>r, <1>w DEF Dropped, Kept
<1>3. ASSUME NEW p \in Procs, NEW m, Queued(p, m), entries' = entries, ledger' = ledger, lost \subseteq lost'
      PROVE  Kept(r)'
  <2>1. CASE Waiting(p, r)
    <3>1. DOMAIN queue[p] \subseteq DOMAIN queue'[p] /\ \A i \in DOMAIN queue[p] : queue'[p][i] = queue[p][i]
      BY <1>3, <1>q DEF Queued, QueueOf
    <3> QED
      BY <1>3, <2>1, <3>1 DEF Kept, Waiting
  <2> QED
    BY <1>3, <2>1, <1>l, <1>r, <1>w DEF Queued, Kept
<1>4. ASSUME NEW p \in Procs, NEW m, Taken(p, m)
      PROVE  Kept(r)'
  <2>1. CASE Waiting(p, r)
    <3>1. ASSUME NEW i \in DOMAIN entries[p], IsInput(entries[p][i], r)
          PROVE  Kept(r)'
      <4>1. i \in DOMAIN entries'[p] /\ entries'[p][i] = entries[p][i]
        BY <1>4, <1>q DEF Taken, Entered, EntriesOf
      <4> QED
        BY <3>1, <4>1 DEF Kept, Waiting
    <3>2. ASSUME NEW i \in DOMAIN queue[p], IsInput(queue[p][i], r), i # 1
          PROVE  Kept(r)'
      <4>1. PICK j : j = i - 1
        OBVIOUS
      <4>2. j \in DOMAIN queue'[p] /\ queue'[p][j] = queue[p][i]
        BY <1>4, <1>q, <3>2, <4>1 DEF Taken, Dequeued, QueueOf
      <4> QED
        BY <3>2, <4>2 DEF Kept, Waiting
    <3>3. CASE IsInput(queue[p][1], r)
      <4>1. m \in Entry /\ IsInput(m, r)
        BY <1>4, <3>3, MessageKinds DEF Taken, IsInput
      <4>2. PICK j : j = Len(entries[p]) + 1
        OBVIOUS
      <4>3. j \in DOMAIN entries'[p] /\ entries'[p][j] = m
        BY <1>4, <1>q, <4>1, <4>2, MessageTypes DEF Taken, Entered, EntriesOf, Entry, Marker
      <4> QED
        BY <4>1, <4>3 DEF Kept, Waiting
    <3> QED
      BY <2>1, <3>1, <3>2, <3>3 DEF Waiting
  <2> QED
    BY <1>4, <2>1, <1>l, <1>r, <1>w DEF Taken, Dequeued, Entered, Kept
<1>5. ASSUME NEW p \in Procs, Committed(p)
      PROVE  Kept(r)'
  <2>1. CASE Waiting(p, r)
    <3>1. ASSUME NEW i \in DOMAIN entries[p], IsInput(entries[p][i], r)
          PROVE  Kept(r)'
      BY <1>5, <3>1, RowsFromEntries DEF Kept, InputRow, IsInput
    <3>2. ASSUME NEW i \in DOMAIN queue[p], IsInput(queue[p][i], r)
          PROVE  Kept(r)'
      BY <1>5, <3>2 DEF Committed, Kept, Waiting
    <3> QED
      BY <2>1, <3>1, <3>2 DEF Waiting
  <2> QED
    BY <1>5, <2>1, <1>l, <1>r, <1>w DEF Committed, Kept
<1>6. ASSUME NEW s \in Requests, NEW p \in Procs, NEW m, Sends(s, p, m)
      PROVE  Kept(r)'
  <2>1. entries' = entries /\ ledger' = ledger
    BY <1>6 DEF Sends
  <2>2. CASE queue' = queue /\ lost \subseteq lost'
    BY <2>1, <2>2, <1>l, <1>r, <1>w DEF Kept
  <2> QED
    BY <1>6, <1>3, <2>1, <2>2, SendEffect
<1> QED
  BY <1>1, <1>2, <1>3, <1>4, <1>5, <1>6, Moves DEF Marked

(* Where what is on its way after a step was before it. *)
LEMMA Sources ==
  ASSUME TypeOK, Served, [Next]_vars, NEW q \in Procs
  PROVE  /\ \A i \in DOMAIN queue'[q] :
              \/ \E j \in DOMAIN queue[q] : queue'[q][i] = queue[q][j]
              \/ queue'[q][i] = Marker
              \/ \E r \in Requests, m \in Message : Sends(r, q, m) /\ queue'[q][i] = m
         /\ \A i \in DOMAIN entries'[q] :
              \/ \E j \in DOMAIN entries[q] : entries'[q][i] = entries[q][j]
              \/ \E j \in DOMAIN queue[q] : entries'[q][i] = queue[q][j]
<1> DEFINE Goal ==
      /\ \A i \in DOMAIN queue'[q] :
              \/ \E j \in DOMAIN queue[q] : queue'[q][i] = queue[q][j]
              \/ queue'[q][i] = Marker
              \/ \E r \in Requests, m \in Message : Sends(r, q, m) /\ queue'[q][i] = m
      /\ \A i \in DOMAIN entries'[q] :
              \/ \E j \in DOMAIN entries[q] : entries'[q][i] = entries[q][j]
              \/ \E j \in DOMAIN queue[q] : entries'[q][i] = queue[q][j]
<1>q. \A p \in Procs : QueueOf(p) /\ EntriesOf(p)
  BY Positions
<1>1. CASE Untouched
  BY <1>1 DEF Untouched
<1>2. ASSUME NEW p \in Procs, Dropped(p)
      PROVE  Goal
  BY <1>2 DEF Dropped
<1>3. ASSUME NEW p \in Procs, Marked(p)
      PROVE  Goal
  BY <1>3, <1>q DEF Marked, Queued, QueueOf
<1>4. ASSUME NEW p \in Procs, NEW m, Taken(p, m)
      PROVE  Goal
  <2>1. CASE q = p
    <3>1. \A i \in DOMAIN queue'[q] : \E j \in DOMAIN queue[q] : queue'[q][i] = queue[q][j]
      BY <1>4, <2>1 DEF Taken, Dequeued
    <3>2. \A i \in DOMAIN entries'[q] : \/ \E j \in DOMAIN entries[q] : entries'[q][i] = entries[q][j]
                                       \/ entries'[q][i] = queue[q][1]
      <4>1. CASE entries' = entries
        BY <4>1
      <4>2. CASE Entered(p, m) /\ queue[q][1] = m
        BY <1>q, <2>1, <4>2 DEF Entered, EntriesOf
      <4> QED
        BY <1>4, <2>1, <4>1, <4>2 DEF Taken
    <3> QED
      BY <1>4, <2>1, <3>1, <3>2 DEF Taken
  <2>2. CASE q # p
    BY <1>4, <2>2 DEF Taken, Dequeued, Entered
  <2> QED
    BY <2>1, <2>2
<1>5. ASSUME NEW p \in Procs, Committed(p)
      PROVE  Goal
  BY <1>5 DEF Committed
<1>6. ASSUME NEW r \in Requests, NEW p \in Procs, NEW m, Sends(r, p, m)
      PROVE  Goal
  <2>1. entries' = entries /\ m \in Message
    BY <1>6 DEF Sends
  <2>2. CASE queue' = queue
    BY <2>1, <2>2
  <2>3. CASE Queued(p, m) /\ q = p
    <3>1. \A i \in DOMAIN queue'[q] : \/ \E j \in DOMAIN queue[q] : queue'[q][i] = queue[q][j]
                                     \/ queue'[q][i] = m
      BY <1>q, <2>3 DEF Queued, QueueOf
    <3> QED
      BY <1>6, <2>1, <2>3, <3>1
  <2>4. CASE Queued(p, m) /\ q # p
    BY <2>1, <2>4 DEF Queued
  <2> QED
    BY <1>6, <2>2, <2>3, <2>4, SendEffect
<1> QED
  BY <1>1, <1>2, <1>3, <1>4, <1>5, <1>6, Moves

LEMMA RowSources ==
  ASSUME TypeOK, Served, [Next]_vars, NEW n \in DOMAIN ledger'
  PROVE  \/ n \in DOMAIN ledger /\ ledger'[n] = ledger[n]
         \/ \E p \in Procs : \E i \in DOMAIN entries[p] :
              /\ ledger'[n].phase = entries[p][i].kind /\ ledger'[n].of = entries[p][i].of
              /\ entries[p][i].kind = "final" => (ledger'[n].requests = 0) = entries[p][i].booked
<1>1. CASE ledger' = ledger
  BY <1>1
<1>2. ASSUME NEW p \in Procs, Committed(p)
      PROVE  \/ n \in DOMAIN ledger /\ ledger'[n] = ledger[n]
             \/ n \in DOMAIN ledger' \ DOMAIN ledger
  BY <1>2 DEF Committed
<1> QED
  BY <1>1, <1>2, Moves, RowsFromEntries DEF Untouched, Dropped, Marked, Taken, Sends

LEMMA AbsentStays ==
  ASSUME TypeOK, Served, [Next]_vars, NEW r \in Requests, Absent(r), pc[r] # "new"
  PROVE  Absent(r)'
<1>1. /\ \A q \in Procs : /\ \A j \in DOMAIN queue[q] : ~ IsInput(queue[q][j], r)
                         /\ \A j \in DOMAIN entries[q] : ~ IsInput(entries[q][j], r)
      /\ \A n \in DOMAIN ledger : ~ (ledger[n].phase = "input" /\ ledger[n].of = r)
  BY DEF Absent, Waiting, InputRow
<1>2. ASSUME NEW q \in Procs, NEW i \in DOMAIN queue'[q], IsInput(queue'[q][i], r)
      PROVE  FALSE
  <2>1. ~ IsInput(Marker, r)
    BY DEF Marker, IsInput
  <2>2. ASSUME NEW s \in Requests, NEW m \in Message, Sends(s, q, m), IsInput(m, r)
        PROVE  FALSE
    BY <2>2 DEF Sends, IsInput
  <2> QED
    BY <1>1, <1>2, <2>1, <2>2, Sources
<1>3. ASSUME NEW q \in Procs, NEW i \in DOMAIN entries'[q], IsInput(entries'[q][i], r)
      PROVE  FALSE
  BY <1>1, <1>3, Sources
<1>4. ASSUME NEW n \in DOMAIN ledger', ledger'[n].phase = "input", ledger'[n].of = r
      PROVE  FALSE
  BY <1>1, <1>4, RowSources DEF IsInput
<1> QED
  BY <1>2, <1>3, <1>4 DEF Absent, Waiting, InputRow

LEMMA CorrectsStep ==
  ASSUME TypeOK, Served, InFlight, Figures, RowsCorrect, \A p \in Procs : Corrects(p), [Next]_vars
  PROVE  RowsCorrect' /\ \A p \in Procs : Corrects(p)'
<1>1. ASSUME NEW r \in Requests, pc'[r] = "booked"
      PROVE  Kept(r)'
  <2>1. CASE pc[r] = "booked"
    BY <2>1, KeptStays DEF RowsCorrect
  <2>2. CASE pc[r] # "booked"
    <3>1. PICK s \in Requests, p \in Procs : \E m : Sends(s, p, m)
      BY <1>1, <2>2, Moves DEF Untouched, Dropped, Marked, Committed, Taken
    <3>2. PICK m : Sends(s, p, m)
      BY <3>1
    <3>3. s = r /\ m.kind = "input" /\ m.of = r /\ m \in Message
      BY <1>1, <2>2, <3>2 DEF Sends
    <3>4. m \in Entry /\ IsInput(m, r)
      BY <3>3, MessageKinds DEF IsInput
    <3>5. CASE Queued(p, m)
      <4>1. PICK j : j = Len(queue[p]) + 1
        OBVIOUS
      <4>2. j \in DOMAIN queue'[p] /\ queue'[p][j] = m
        BY <3>5, <4>1, Positions DEF Queued, QueueOf
      <4> QED
        BY <3>4, <4>2 DEF Kept, Waiting
    <3>6. CASE m \in lost'
      BY <3>3, <3>6 DEF Kept, LostRow
    <3> QED
      BY <3>2, <3>4, <3>5, <3>6, SendEffect
  <2> QED
    BY <2>1, <2>2
(* A final that was there has its input dealt with. *)
<1>2. ASSUME NEW r \in Requests, NEW b \in BOOLEAN, Settles(b, r), pc[r] # "new"
      PROVE  Settles(b, r)'
  BY <1>2, KeptStays, AbsentStays DEF Settles
<1>3. ASSUME NEW m \in SentOff
      PROVE  m.of \in Requests /\ pc[m.of] # "new"
  BY <1>3, MessageKinds DEF SentOff, Sent
<1>4. ASSUME NEW q \in Procs, NEW m, m.kind = "final",
             \/ \E j \in DOMAIN queue[q] : m = queue[q][j]
             \/ \E j \in DOMAIN entries[q] : m = entries[q][j]
      PROVE  Settles(m.booked, m.of)'
  <2>1. m \in SentOff /\ m \in Message
    BY <1>4 DEF InFlight, SentBy, Marker, SentOff
  <2>2. m.booked \in BOOLEAN
    BY <1>4, <2>1, MessageKinds DEF Entry
  <2>3. Settles(m.booked, m.of)
    BY <1>4 DEF Corrects
  <2>4. PICK r \in Requests, b \in BOOLEAN : r = m.of /\ b = m.booked
    BY <1>3, <2>1, <2>2
  <2>5. Settles(b, r)'
    BY <1>2, <1>3, <2>1, <2>3, <2>4
  <2> QED
    BY <2>4, <2>5
<1>5. ASSUME NEW r \in Requests, NEW q \in Procs, NEW m \in Message, Sends(r, q, m), m.kind = "final"
      PROVE  Settles(m.booked, m.of)'
  <2>1. m.of = r /\ pc[r] \in {"new", "booked"} /\ m.booked = (pc[r] = "booked")
    BY <1>5 DEF Sends
  <2>2. CASE pc[r] = "booked"
    BY <2>1, <2>2, KeptStays DEF RowsCorrect, Settles
  <2>3. CASE pc[r] = "new"
    <3>1. \A n \in SentOff : n.kind = "input" => n.of # r
      BY <2>3 DEF SentOff, Sent
    <3>2. ASSUME NEW p \in Procs, NEW i \in DOMAIN queue'[p], IsInput(queue'[p][i], r)
          PROVE  FALSE
      <4>1. \A j \in DOMAIN queue[p] : ~ IsInput(queue[p][j], r)
        BY <3>1 DEF InFlight, SentBy, Marker, IsInput
      <4>2. ~ IsInput(Marker, r)
        BY DEF Marker, IsInput
      <4>3. ASSUME NEW s \in Requests, NEW n \in Message, Sends(s, p, n), IsInput(n, r)
            PROVE  FALSE
        <5>1. s = r /\ n.kind = "input"
          BY <4>3 DEF Sends, IsInput
        <5>2. pc'[r] = "booked"
          BY <4>3, <5>1 DEF Sends
        <5>3. pc'[r] = "closing"
          BY <1>5 DEF Sends
        <5> QED
          BY <5>2, <5>3
      <4> QED
        BY <3>2, <4>1, <4>2, <4>3, Sources
    <3>3. ASSUME NEW p \in Procs, NEW i \in DOMAIN entries'[p], IsInput(entries'[p][i], r)
          PROVE  FALSE
      <4>1. entries' = entries
        BY <1>5 DEF Sends
      <4> QED
        BY <3>1, <3>3, <4>1 DEF InFlight, SentBy, IsInput
    <3>4. ASSUME NEW n \in DOMAIN ledger', ledger'[n].phase = "input", ledger'[n].of = r
          PROVE  FALSE
      <4>1. ledger' = ledger
        BY <1>5 DEF Sends
      <4> QED
        BY <3>1, <3>4, <4>1 DEF Figures, RowSent
    <3> QED
      BY <2>1, <2>3, <3>2, <3>3, <3>4 DEF Settles, Absent, Waiting, InputRow
  <2> QED
    BY <2>1, <2>2, <2>3
<1>6. ASSUME NEW q \in Procs
      PROVE  Corrects(q)'
  <2>1. ASSUME NEW i \in DOMAIN queue'[q], queue'[q][i].kind = "final"
        PROVE  Settles(queue[q][i].booked, queue[q][i].of)'
    <3>1. PICK m : m = queue'[q][i]
      OBVIOUS
    <3>2. Settles(m.booked, m.of)'
      <4>1. m # Marker
        BY <2>1, <3>1 DEF Marker
      <4> QED
        BY <1>4, <1>5, <2>1, <3>1, <4>1, Sources
    <3> QED
      BY <3>1, <3>2
  <2>2. ASSUME NEW i \in DOMAIN entries'[q], entries'[q][i].kind = "final"
        PROVE  Settles(entries[q][i].booked, entries[q][i].of)'
    <3>1. PICK m : m = entries'[q][i]
      OBVIOUS
    <3>2. Settles(m.booked, m.of)'
      BY <1>4, <2>2, <3>1, Sources
    <3> QED
      BY <3>1, <3>2
  <2> QED
    BY <2>1, <2>2 DEF Corrects
<1>7. ASSUME NEW n \in DOMAIN ledger', ledger'[n].phase = "final"
      PROVE  Settles(ledger[n].requests = 0, ledger[n].of)'
  <2>1. CASE n \in DOMAIN ledger /\ ledger'[n] = ledger[n]
    <3>1. PICK r \in Requests, b \in BOOLEAN : r = ledger[n].of /\ b = (ledger[n].requests = 0)
      BY <1>3, <2>1 DEF Figures, RowSent
    <3>2. Settles(b, r) /\ pc[r] # "new"
      BY <1>3, <1>7, <2>1, <3>1 DEF RowsCorrect, Figures, RowSent
    <3>3. Settles(b, r)'
      BY <1>2, <3>2
    <3> QED
      BY <2>1, <3>1, <3>3
  <2>2. ASSUME NEW p \in Procs, NEW i \in DOMAIN entries[p],
               ledger'[n].phase = entries[p][i].kind, ledger'[n].of = entries[p][i].of,
               entries[p][i].kind = "final" => (ledger'[n].requests = 0) = entries[p][i].booked
        PROVE  Settles(ledger[n].requests = 0, ledger[n].of)'
    <3>1. PICK m : m = entries[p][i]
      OBVIOUS
    <3>2. Settles(m.booked, m.of)'
      BY <1>4, <1>7, <2>2, <3>1
    <3>3. m.booked = (ledger'[n].requests = 0) /\ m.of = ledger'[n].of
      BY <1>7, <2>2, <3>1
    <3> QED
      BY <3>2, <3>3
  <2> QED
    BY <1>7, <2>1, <2>2, RowSources
<1> QED
  BY <1>1, <1>6, <1>7 DEF RowsCorrect

LEMMA SumInit == Init => SumInv
<1> SUFFICES ASSUME Init PROVE SumInv
  OBVIOUS
<1>1. TypeOK
  BY InitType
<1>2. Served /\ Closed /\ InFlight
  BY DEF Init, Served, Closed, InFlight
<1>3. Figures /\ OneRow /\ RowsCorrect
  BY DEF Init, Figures, OneRow, RowsCorrect
<1>4. \A p \in Procs : Once(p) /\ InputFirst(p) /\ Corrects(p)
  BY DEF Init, Once, InputFirst, Corrects
<1> QED
  BY <1>1, <1>2, <1>3, <1>4 DEF SumInv

LEMMA SumKept == SumInv /\ [Next]_vars => SumInv'
<1> SUFFICES ASSUME SumInv, [Next]_vars PROVE SumInv'
  OBVIOUS
<1>1. TypeOK' /\ Served' /\ Closed' /\ InFlight' /\ Figures'
  BY TypeStep, ServedStep, ClosedStep, InFlightStep, FiguresStep DEF SumInv
<1>2. OneRow' /\ \A p \in Procs : Once(p)'
  BY OnceStep DEF SumInv
<1>3. \A p \in Procs : InputFirst(p)'
  BY FirstStep DEF SumInv
<1>4. RowsCorrect' /\ \A p \in Procs : Corrects(p)'
  BY CorrectsStep DEF SumInv
<1> QED
  BY <1>1, <1>2, <1>3, <1>4 DEF SumInv

(* The rows of a request: none, one, or one of each phase.                  *)
LEMMA RowsOfShape ==
  ASSUME TypeOK, OneRow, NEW r \in Requests
  PROVE  \/ RowsOf(r) = {}
         \/ \E n \in DOMAIN ledger : RowsOf(r) = {n}
         \/ \E n, m \in DOMAIN ledger :
              /\ RowsOf(r) = {n, m} /\ n # m
              /\ ledger[n].phase = "input" /\ ledger[m].phase = "final"
<1>1. \A n \in DOMAIN ledger : ledger[n].phase \in {"input", "final"}
  <2>1. \A n \in DOMAIN ledger : ledger[n] \in Row
    BY DEF TypeOK
  <2>2. \A l \in Row : l.phase \in {"input", "final"}
    BY DEF Row
  <2> QED
    BY <2>1, <2>2
<1>2. \A n, m \in RowsOf(r) : ledger[n].phase = ledger[m].phase => n = m
  BY DEF RowsOf, OneRow
<1>3. CASE ~ \E n \in RowsOf(r) : ledger[n].phase = "input"
  <2>1. CASE RowsOf(r) # {}
    <3>1. PICK n \in RowsOf(r) : TRUE
      BY <2>1
    <3>2. RowsOf(r) = {n}
      BY <1>1, <1>2, <1>3, <3>1 DEF RowsOf
    <3> QED
      BY <3>1, <3>2 DEF RowsOf
  <2> QED
    BY <2>1
<1>4. ASSUME NEW n \in RowsOf(r), ledger[n].phase = "input",
             ~ \E m \in RowsOf(r) : ledger[m].phase = "final"
      PROVE  \E k \in DOMAIN ledger : RowsOf(r) = {k}
  <2>1. RowsOf(r) = {n}
    BY <1>1, <1>2, <1>4 DEF RowsOf
  <2> QED
    BY <1>4, <2>1 DEF RowsOf
<1>5. ASSUME NEW n \in RowsOf(r), ledger[n].phase = "input",
             NEW m \in RowsOf(r), ledger[m].phase = "final"
      PROVE  /\ RowsOf(r) = {n, m} /\ n # m
             /\ n \in DOMAIN ledger /\ m \in DOMAIN ledger
  BY <1>1, <1>2, <1>5 DEF RowsOf
<1> QED
  BY <1>3, <1>4, <1>5

LEMMA SumPair ==
  ASSUME NEW f, NEW n, NEW m, n # m, f[n] \in Int, f[m] \in Int
  PROVE  SumFunctionOnSet(f, {n, m}) = f[n] + f[m]
<1>1. {n, m} = {n} \union {m} /\ m \notin {n} /\ IsFiniteSet({n})
  BY FS_Singleton
<1>2. SumFunctionOnSet(f, {n} \union {m}) = f[m] + SumFunctionOnSet(f, {n})
  BY <1>1, SumAdd
<1>3. SumFunctionOnSet(f, {n}) = f[n]
  BY SumSingleton
<1>4. SumFunctionOnSet(f, {n, m}) = f[m] + f[n]
  BY <1>1, <1>2, <1>3, Zenon
<1>5. f[m] + f[n] = f[n] + f[m]
  OBVIOUS
<1> QED
  BY <1>4, <1>5, Zenon

CountedOnce(r) ==
  /\ Counted(RowsOf(r)) <= 1
  /\ (\E n \in RowsOf(r) : ledger[n].phase = "final") /\ ~LostRow(r)
       => Counted(RowsOf(r)) = 1 /\ Tokens(RowsOf(r)) = Charge[r]

(* A plain SUM over the ledger counts no request twice, and what was        *)
(* recorded whole once, at the tokens it settled at: whatever was lost in   *)
(* crashes, full channels and failed batches.                               *)
THEOREM BooksSumIsRight == Spec => []SumIsRight
<1>1. ASSUME SumInv, NEW r \in Requests
      PROVE  CountedOnce(r)
  <2>1. PICK f, g : /\ f = [n \in DOMAIN ledger |-> ledger[n].requests]
                    /\ g = [n \in DOMAIN ledger |-> ledger[n].tokens]
    OBVIOUS
  <2>2. Counted(RowsOf(r)) = SumFunctionOnSet(f, RowsOf(r)) /\ Tokens(RowsOf(r)) = SumFunctionOnSet(g, RowsOf(r))
    BY <2>1 DEF Counted, Tokens
  <2>3. \A n \in DOMAIN ledger : /\ ledger[n] \in Row /\ f[n] = ledger[n].requests /\ g[n] = ledger[n].tokens
                                /\ f[n] \in 0..1 /\ g[n] \in Int /\ ledger[n].phase \in {"input", "final"}
    <3>1. \A n \in DOMAIN ledger : ledger[n] \in Row
      BY <1>1 DEF SumInv, TypeOK
    <3>2. \A l \in Row : l.requests \in 0..1 /\ l.tokens \in Int /\ l.phase \in {"input", "final"}
      BY BooksAssumption DEF Row
    <3> QED
      BY <2>1, <3>1, <3>2
  <2>4. Booked \in Int /\ Charge[r] \in Int
    BY BooksAssumption
  <2>5. CASE RowsOf(r) = {}
    BY <2>2, <2>5, SumEmpty DEF CountedOnce
  <2>6. ASSUME NEW n \in DOMAIN ledger, RowsOf(r) = {n}
        PROVE  CountedOnce(r)
    <3>1. Counted(RowsOf(r)) = ledger[n].requests /\ Tokens(RowsOf(r)) = ledger[n].tokens /\ ledger[n].of = r
      <4>1. SumFunctionOnSet(f, {n}) = f[n] /\ SumFunctionOnSet(g, {n}) = g[n]
        <5>1. f[n] \in Int /\ g[n] \in Int
          BY <2>3
        <5> QED
          BY <5>1, SumSingleton
      <4>2. ledger[n].of = r
        BY <2>6 DEF RowsOf
      <4> QED
        BY <2>2, <2>3, <2>6, <4>1, <4>2
    <3>2. ASSUME ledger[n].phase = "final", ~ LostRow(r), ledger[n].requests = 0
          PROVE  FALSE
      <4>1. Kept(r)
        BY <1>1, <3>1, <3>2 DEF SumInv, RowsCorrect, Settles
      <4>2. \A p \in Procs : ~ Waiting(p, r)
        BY <1>1, <3>1, <3>2 DEF SumInv, InputFirst, Waiting, IsInput
      <4>3. InputRow(r)
        BY <3>2, <4>1, <4>2 DEF Kept
      <4> QED
        BY <2>6, <3>2, <4>3 DEF InputRow, RowsOf
    <3>3. ledger[n].phase = "final" /\ ledger[n].requests # 0 => ledger[n].tokens = Charge[r]
      BY <1>1, <3>1 DEF SumInv, Figures
    <3> QED
      BY <2>3, <2>6, <3>1, <3>2, <3>3 DEF CountedOnce
  <2>7. ASSUME NEW n \in DOMAIN ledger, NEW m \in DOMAIN ledger, RowsOf(r) = {n, m}, n # m,
               ledger[n].phase = "input", ledger[m].phase = "final"
        PROVE  CountedOnce(r)
    <3>1. /\ Counted(RowsOf(r)) = ledger[n].requests + ledger[m].requests
          /\ Tokens(RowsOf(r)) = ledger[n].tokens + ledger[m].tokens
          /\ ledger[n].of = r /\ ledger[m].of = r
      <4>1. /\ SumFunctionOnSet(f, {n, m}) = f[n] + f[m]
            /\ SumFunctionOnSet(g, {n, m}) = g[n] + g[m]
        <5>1. f[n] \in Int /\ g[n] \in Int /\ f[m] \in Int /\ g[m] \in Int
          BY <2>3
        <5> QED
          BY <2>7, <5>1, SumPair
      <4>2. ledger[n].of = r /\ ledger[m].of = r
        BY <2>7 DEF RowsOf
      <4> QED
        BY <2>2, <2>3, <2>7, <4>1, <4>2
    <3>2. ledger[n].requests = 1 /\ ledger[n].tokens = Booked
      BY <1>1, <2>7 DEF SumInv, Figures
    <3>3. ledger[m].requests = 0
      <4>1. InputRow(r)
        BY <2>7, <3>1 DEF InputRow
      <4> QED
        BY <1>1, <2>7, <3>1, <4>1 DEF SumInv, RowsCorrect, Settles, Absent
    <3>4. ledger[m].tokens = Charge[r] - Booked
      BY <1>1, <2>7, <3>1, <3>3 DEF SumInv, Figures
    <3> QED
      BY <2>4, <3>1, <3>2, <3>3, <3>4 DEF CountedOnce
  <2>8. TypeOK /\ OneRow
    BY <1>1 DEF SumInv
  <2> QED
    BY <2>5, <2>6, <2>7, <2>8, RowsOfShape
<1>2. SumInv => SumIsRight
  BY <1>1 DEF SumIsRight, CountedOnce
<1> QED
  BY <1>2, SumInit, SumKept, PTL DEF Spec

-----------------------------------------------------------------------------
(* The invoices. *)

LEMMA CursorIs ==
  ASSUME TypeOK, NEW k, NEW c \in Nat, \A i \in Standing(k) : invoices[i].to <= c,
         c = 0 \/ \E i \in Standing(k) : invoices[i].to = c
  PROVE  Cursor(k) = c
<1>1. \A i \in Standing(k) : invoices[i].to \in Nat
  BY InvoiceType DEF Standing
<1> QED
  BY <1>1, CursorType

LEMMA CostType ==
  ASSUME TypeOK
  PROVE  /\ Len(ledger) \in Nat /\ DOMAIN ledger = 1..Len(ledger)
         /\ \A n \in DOMAIN ledger : ledger[n].cost \in Nat /\ ledger[n].of \in Requests
<1>1. \A n \in DOMAIN ledger : ledger[n] \in Row
  BY DEF TypeOK
<1>2. \A l \in Row : l.cost \in Nat /\ l.of \in Requests
  BY BooksAssumption DEF Row
<1> QED
  BY <1>1, <1>2 DEF TypeOK

(* Lines next to each other add up. *)
LEMMA LinesSplit ==
  ASSUME TypeOK, NEW k, NEW a \in Nat, NEW b \in Nat, NEW c \in Nat,
         a <= b, b <= c, c <= Len(ledger)
  PROVE  Total(Lines(k, a, c)) = Total(Lines(k, a, b)) + Total(Lines(k, b, c))
<1>1. Lines(k, a, c) = Lines(k, a, b) \union Lines(k, b, c)
  BY DEF Lines
<1>2. Lines(k, a, b) \intersect Lines(k, b, c) = {}
  BY DEF Lines
<1>3. PICK f : f = [n \in DOMAIN ledger |-> ledger[n].cost]
  OBVIOUS
<1>4. /\ IsFiniteSet(Lines(k, a, b)) /\ Lines(k, a, b) \subseteq DOMAIN ledger
      /\ IsFiniteSet(Lines(k, b, c)) /\ Lines(k, b, c) \subseteq DOMAIN ledger
  <2>1. b <= Len(ledger) /\ DOMAIN ledger = 1..Len(ledger)
    BY CostType
  <2>2. IsFiniteSet(Lines(k, a, b)) /\ Lines(k, a, b) \subseteq 1..Len(ledger)
    BY <2>1, LinesType
  <2>3. IsFiniteSet(Lines(k, b, c)) /\ Lines(k, b, c) \subseteq 1..Len(ledger)
    BY LinesType
  <2> QED
    BY <2>1, <2>2, <2>3
<1>5. \A n \in Lines(k, a, b) \union Lines(k, b, c) : f[n] \in Int
  BY <1>3, <1>4, CostType
<1>6. SumFunctionOnSet(f, Lines(k, a, b) \union Lines(k, b, c))
        = SumFunctionOnSet(f, Lines(k, a, b)) + SumFunctionOnSet(f, Lines(k, b, c))
  BY <1>2, <1>4, <1>5, SumDisjoint
<1> QED
  BY <1>1, <1>3, <1>6 DEF Total

LEMMA LinesNone ==
  ASSUME TypeOK, NEW k, NEW a \in Nat
  PROVE  Total(Lines(k, a, a)) = 0
<1>1. Lines(k, a, a) = {}
  BY DEF Lines
<1> QED
  BY <1>1, SumEmpty DEF Total

(* Rows, once written, bill the same for ever. *)
LEMMA LinesStay ==
  ASSUME TypeOK, TypeOK', \A n \in DOMAIN ledger : n \in DOMAIN ledger' /\ ledger'[n] = ledger[n],
         NEW k, NEW a \in Nat, NEW b \in Nat, b <= Len(ledger)
  PROVE  Total(Lines(k, a, b))' = Total(Lines(k, a, b))
<1>1. /\ IsFiniteSet(Lines(k, a, b)) /\ Lines(k, a, b) \subseteq DOMAIN ledger
  BY LinesType, CostType
<1>2. PICK S : S = Lines(k, a, b)
  OBVIOUS
<1>3. a + 1 .. b \subseteq DOMAIN ledger
  BY CostType
<1>4. Lines(k, a, b)' = S
  BY <1>2, <1>3 DEF Lines
<1>5. PICK f, g : f = [n \in DOMAIN ledger |-> ledger[n].cost] /\ g = [n \in DOMAIN ledger' |-> ledger'[n].cost]
  OBVIOUS
<1>6. IsFiniteSet(S) /\ \A n \in S : f[n] \in Int /\ g[n] = f[n]
  BY <1>1, <1>2, <1>5, CostType
<1>7. SumFunctionOnSet(g, S) = SumFunctionOnSet(f, S)
  BY <1>6, SumSame
<1>8. Total(Lines(k, a, b))' = SumFunctionOnSet(g, S)
  BY <1>4, <1>5 DEF Total
<1> QED
  BY <1>2, <1>5, <1>7, <1>8 DEF Total

(* The same of the invoices of any state, before a step and after it. *)
Arithmetic ==
  /\ Len(ledger) \in Nat /\ Len(invoices) \in Nat /\ DOMAIN invoices = 1..Len(invoices)
  /\ \A i \in DOMAIN invoices :
       /\ invoices[i].key \in Keys /\ invoices[i].status \in Statuses
       /\ invoices[i].from \in Nat /\ invoices[i].to \in Nat /\ invoices[i].total \in Nat
  /\ \A k \in Keys : /\ Cursor(k) \in Nat
                     /\ \A i \in Standing(k) : invoices[i].to <= Cursor(k)
                     /\ Cursor(k) = 0 \/ \E i \in Standing(k) : invoices[i].to = Cursor(k)
  /\ \A k \in Keys : \A c \in Nat :
       /\ \A i \in Standing(k) : invoices[i].to <= c
       /\ c = 0 \/ \E i \in Standing(k) : invoices[i].to = c
       => Cursor(k) = c
  /\ \A k \in Keys : IsFiniteSet(Standing(k)) /\ Standing(k) \subseteq DOMAIN invoices
  /\ \A k \in Keys : \A a, b, c \in Nat :
       a <= b /\ b <= c /\ c <= Len(ledger)
         => /\ Total(Lines(k, a, c)) = Total(Lines(k, a, b)) + Total(Lines(k, b, c))
            /\ Total(Lines(k, a, c)) \in Nat
            /\ Total(Lines(k, a, b)) \in Nat
            /\ Total(Lines(k, b, c)) \in Nat
  /\ \A k \in Keys : \A a \in Nat : Total(Lines(k, a, a)) = 0

LEMMA ArithmeticHolds == TypeOK => Arithmetic
<1> SUFFICES ASSUME TypeOK PROVE Arithmetic
  OBVIOUS
<1>1. ASSUME NEW k \in Keys, NEW a \in Nat, NEW b \in Nat, NEW c \in Nat,
             a <= b, b <= c, c <= Len(ledger)
      PROVE  /\ Total(Lines(k, a, c)) = Total(Lines(k, a, b)) + Total(Lines(k, b, c))
             /\ Total(Lines(k, a, c)) \in Nat
             /\ Total(Lines(k, a, b)) \in Nat
             /\ Total(Lines(k, b, c)) \in Nat
  <2>1. b <= Len(ledger)
    BY <1>1, CostType
  <2>2. Total(Lines(k, a, c)) = Total(Lines(k, a, b)) + Total(Lines(k, b, c))
    BY <1>1, LinesSplit
  <2>3. Total(Lines(k, a, c)) \in Nat
    BY <1>1, LinesType
  <2>4. Total(Lines(k, a, b)) \in Nat
    BY <2>1, LinesType
  <2>5. Total(Lines(k, b, c)) \in Nat
    BY <1>1, LinesType
  <2> QED
    BY <2>2, <2>3, <2>4, <2>5
<1>2. /\ Len(ledger) \in Nat /\ Len(invoices) \in Nat /\ DOMAIN invoices = 1..Len(invoices)
      /\ \A i \in DOMAIN invoices :
           /\ invoices[i].key \in Keys /\ invoices[i].status \in Statuses
           /\ invoices[i].from \in Nat /\ invoices[i].to \in Nat /\ invoices[i].total \in Nat
  BY InvoiceType, CostType
<1>3. ASSUME NEW k \in Keys
      PROVE  /\ Cursor(k) \in Nat
             /\ \A i \in Standing(k) : invoices[i].to <= Cursor(k)
             /\ Cursor(k) = 0 \/ \E i \in Standing(k) : invoices[i].to = Cursor(k)
  BY CursorType
<1>4. ASSUME NEW k \in Keys, NEW c \in Nat, \A i \in Standing(k) : invoices[i].to <= c,
             c = 0 \/ \E i \in Standing(k) : invoices[i].to = c
      PROVE  Cursor(k) = c
  BY <1>4, CursorIs
<1>5. \A k \in Keys : IsFiniteSet(Standing(k)) /\ Standing(k) \subseteq DOMAIN invoices
  BY StandingType
<1>6. \A k \in Keys : \A a \in Nat : Total(Lines(k, a, a)) = 0
  BY LinesNone
<1> QED
  BY <1>1, <1>2, <1>3, <1>4, <1>5, <1>6 DEF Arithmetic

(* The ledger only grows, whatever the step. *)
Grows == /\ invoices' = invoices
         /\ \A n \in DOMAIN ledger : n \in DOMAIN ledger' /\ ledger'[n] = ledger[n]

LEMMA BillSteps ==
  ASSUME TypeOK, Served, [Next]_vars
  PROVE  \/ Grows
         \/ \E k \in Keys, force \in BOOLEAN : Issue(k, force)
         \/ \E i \in DOMAIN invoices, status \in Statuses : SetStatus(i, status)
<1>1. ASSUME NEW p \in Procs, Commit(p)
      PROVE  Grows
  <2>1. /\ DOMAIN ledger = 1..Len(ledger) /\ Len(entries[p]) \in Nat /\ Len(ledger) \in Nat
        /\ DOMAIN ledger' = 1..Len(ledger) + Len(entries[p])
        /\ \A n \in 1..Len(ledger) : ledger'[n] = ledger[n]
    BY <1>1, NewRows
  <2> QED
    BY <1>1, <2>1 DEF Grows, Commit
<1>2. ASSUME NEW p \in Procs, \/ Open(p) \/ Crash(p) \/ Exit(p) \/ Take(p)
                              \/ CommitFails(p) \/ AskFlush(p)
      PROVE  Grows
  BY <1>2 DEF Grows, Open, Crash, Exit, Take, CommitFails, AskFlush, Die, base
<1>3. ASSUME NEW r \in Requests, NEW p \in Procs, LedgerInput(r, p) \/ Finish(r, p)
      PROVE  Grows
  BY <1>3 DEF Grows, LedgerInput, Finish, base
<1>4. ASSUME NEW r \in Requests, Insert(r) \/ HangUp(r)
      PROVE  Grows
  BY <1>4 DEF Grows, Insert, HangUp, base
<1>5. ASSUME UNCHANGED vars
      PROVE  Grows
  BY <1>5 DEF Grows, vars, base
<1> QED
  BY <1>1, <1>2, <1>3, <1>4, <1>5 DEF Next, IssueInvoice, BillingCycle

LEMMA CursorBound ==
  ASSUME BillInv, NEW k \in Keys
  PROVE  Cursor(k) <= Len(ledger)
<1>1. Arithmetic
  BY ArithmeticHolds DEF BillInv
<1>2. ASSUME NEW i \in Standing(k)
      PROVE  invoices[i].to <= Len(ledger)
  <2>1. i \in DOMAIN invoices
    BY <1>1 DEF Arithmetic
  <2>2. Drawn(i)
    BY <2>1 DEF BillInv
  <2> QED
    BY <2>2 DEF Drawn
<1>3. Cursor(k) = 0 \/ \E i \in Standing(k) : invoices[i].to = Cursor(k)
  BY <1>1 DEF Arithmetic
<1>4. Len(ledger) \in Nat
  BY <1>1 DEF Arithmetic
<1> QED
  BY <1>2, <1>3, <1>4

LEMMA GrowStep ==
  ASSUME BillInv, TypeOK', Served', Grows
  PROVE  BillInv'
<1>1. Arithmetic
  BY ArithmeticHolds DEF BillInv
<1>2. Arithmetic'
  BY ArithmeticHolds, PTL
<1>3. Len(ledger) <= Len(ledger')
  <2>1. DOMAIN ledger = 1..Len(ledger) /\ Len(ledger) \in Nat
    BY CostType DEF BillInv
  <2>2. DOMAIN ledger' = 1..Len(ledger') /\ Len(ledger') \in Nat
    BY DEF TypeOK
  <2> QED
    BY <2>1, <2>2 DEF Grows
<1>4. \A k \in Keys : /\ Standing(k)' = Standing(k) /\ Cursor(k)' = Cursor(k)
                      /\ Asked(k)' = Asked(k)
  BY DEF Grows, Standing, Cursor, Asked
<1>5. ASSUME NEW k, NEW a \in Nat, NEW b \in Nat, b <= Len(ledger)
      PROVE  Total(Lines(k, a, b))' = Total(Lines(k, a, b))
  BY <1>5, LinesStay DEF BillInv, Grows
<1>6. ASSUME NEW i \in DOMAIN invoices
      PROVE  Drawn(i)'
  <2>1. PICK k \in Keys : \E a, b \in Nat :
          /\ invoices[i].key = k /\ invoices[i].from = a /\ invoices[i].to = b
          /\ a < b /\ b <= Len(ledger)
          /\ invoices[i].total = Total(Lines(k, a, b))
    BY DEF BillInv, Drawn
  <2>2. PICK a \in Nat, b \in Nat :
          /\ invoices[i].key = k /\ invoices[i].from = a /\ invoices[i].to = b
          /\ a < b /\ b <= Len(ledger)
          /\ invoices[i].total = Total(Lines(k, a, b))
    BY <2>1
  <2>3. Total(Lines(k, a, b))' = Total(Lines(k, a, b))
    BY <1>5, <2>2
  <2>4. b <= Len(ledger') /\ invoices' = invoices
    BY <1>3, <2>2 DEF Grows, Arithmetic, BillInv, TypeOK
  <2>5. invoices'[i].seal = Canonical(invoices[i])'
    BY <2>4 DEF BillInv, Drawn, Canonical
  <2> QED
    BY <2>2, <2>3, <2>4, <2>5 DEF Drawn
<1>7. ASSUME NEW k \in Keys
      PROVE  EndToEnd(k)'
  <2>1. PICK c \in Nat : c = Cursor(k) /\ Asked(k) = Total(Lines(k, 0, c))
    BY DEF BillInv, EndToEnd
  <2>2. c <= Len(ledger)
    BY <2>1, CursorBound
  <2>3. Total(Lines(k, 0, c))' = Total(Lines(k, 0, c))
    BY <1>5, <2>2
  <2>4. EndToEnd(k)
    BY DEF BillInv
  <2> QED
    BY <1>4, <2>1, <2>3, <2>4 DEF EndToEnd, Apart, Covers, Grows
<1> QED
  BY <1>6, <1>7 DEF BillInv, Grows

LEMMA CursorSame ==
  ASSUME NEW k, Standing(k)' = Standing(k),
         \A i \in Standing(k) : invoices'[i].to = invoices[i].to
  PROVE  Cursor(k)' = Cursor(k)
<1>1. PICK S : S = {0} \union {invoices[i].to : i \in Standing(k)}
  OBVIOUS
<1>2. S = {0} \union {invoices'[i].to : i \in Standing(k)}
  BY <1>1
<1>3. Cursor(k) = Max(S)
  BY <1>1 DEF Cursor
<1>4. Cursor(k)' = Max(S)
  BY <1>2 DEF Cursor
<1> QED
  BY <1>3, <1>4

(* What standing invoices ask for, when one is added and when one goes. *)
LEMMA AskedSame ==
  ASSUME TypeOK, TypeOK', NEW k \in Keys, Standing(k)' = Standing(k),
         \A i \in Standing(k) : invoices'[i].total = invoices[i].total
  PROVE  Asked(k)' = Asked(k)
<1>1. PICK S : S = Standing(k)
  OBVIOUS
<1>2. PICK f, g : /\ f = [i \in DOMAIN invoices |-> invoices[i].total]
                  /\ g = [i \in DOMAIN invoices' |-> invoices'[i].total]
  OBVIOUS
<1>3. S \subseteq DOMAIN invoices /\ S \subseteq DOMAIN invoices'
  BY <1>1 DEF Standing
<1>4. IsFiniteSet(S) /\ \A i \in S : f[i] \in Int /\ g[i] = f[i]
  BY <1>1, <1>2, <1>3, StandingType, InvoiceType
<1>5. SumFunctionOnSet(g, S) = SumFunctionOnSet(f, S)
  BY <1>4, SumSame
<1>6. Asked(k) = SumFunctionOnSet(f, S)
  BY <1>1, <1>2 DEF Asked
<1>7. Asked(k)' = SumFunctionOnSet(g, S)
  BY <1>1, <1>2 DEF Asked
<1> QED
  BY <1>5, <1>6, <1>7

LEMMA AskedMore ==
  ASSUME TypeOK, TypeOK', NEW k \in Keys, NEW i, i \notin Standing(k),
         Standing(k)' = Standing(k) \union {i},
         \A j \in Standing(k) : invoices'[j].total = invoices[j].total
  PROVE  Asked(k)' = invoices'[i].total + Asked(k)
<1>1. PICK S : S = Standing(k)
  OBVIOUS
<1>2. PICK f, g : /\ f = [j \in DOMAIN invoices |-> invoices[j].total]
                  /\ g = [j \in DOMAIN invoices' |-> invoices'[j].total]
  OBVIOUS
<1>3. S \subseteq DOMAIN invoices /\ S \union {i} \subseteq DOMAIN invoices'
  BY <1>1 DEF Standing
<1>4. \A j \in DOMAIN invoices' : invoices'[j].total \in Nat
  <2>1. Arithmetic'
    BY ArithmeticHolds, PTL
  <2> QED
    BY <2>1 DEF Arithmetic
<1>5. IsFiniteSet(S) /\ (\A j \in S : f[j] \in Int /\ g[j] = f[j]) /\ g[i] = invoices'[i].total
      /\ \A j \in S \union {i} : g[j] \in Int
  BY <1>1, <1>2, <1>3, <1>4, StandingType, InvoiceType
<1>6. SumFunctionOnSet(g, S) = SumFunctionOnSet(f, S)
  BY <1>5, SumSame
<1>7. SumFunctionOnSet(g, S \union {i}) = g[i] + SumFunctionOnSet(g, S)
  BY <1>1, <1>5, SumAdd
<1>8. Asked(k) = SumFunctionOnSet(f, S)
  BY <1>1, <1>2 DEF Asked
<1>9. Asked(k)' = SumFunctionOnSet(g, S \union {i})
  BY <1>1, <1>2 DEF Asked
<1> QED
  BY <1>5, <1>6, <1>7, <1>8, <1>9

LEMMA AskedLess ==
  ASSUME TypeOK, TypeOK', NEW k \in Keys, NEW i \in Standing(k),
         Standing(k)' = Standing(k) \ {i},
         \A j \in Standing(k) : invoices'[j].total = invoices[j].total
  PROVE  Asked(k) = invoices[i].total + Asked(k)' /\ Asked(k)' \in Nat
<1>1. PICK S : S = Standing(k)
  OBVIOUS
<1>2. PICK f, g : /\ f = [j \in DOMAIN invoices |-> invoices[j].total]
                  /\ g = [j \in DOMAIN invoices' |-> invoices'[j].total]
  OBVIOUS
<1>3. S \subseteq DOMAIN invoices /\ S \ {i} \subseteq DOMAIN invoices'
  BY <1>1 DEF Standing
<1>4. IsFiniteSet(S) /\ IsFiniteSet(S \ {i}) /\ f[i] = invoices[i].total
      /\ (\A j \in S : f[j] \in Nat) /\ (\A j \in S \ {i} : g[j] \in Nat /\ g[j] = f[j])
  BY <1>1, <1>2, <1>3, StandingType, InvoiceType, FS_Subset
<1>5. SumFunctionOnSet(g, S \ {i}) = SumFunctionOnSet(f, S \ {i})
  BY <1>4, SumSame
<1>6. SumFunctionOnSet(f, S) = f[i] + SumFunctionOnSet(f, S \ {i})
  BY <1>1, <1>4, SumRemove
<1>7. Asked(k) = SumFunctionOnSet(f, S)
  BY <1>1, <1>2 DEF Asked
<1>8. Asked(k)' = SumFunctionOnSet(g, S \ {i})
  BY <1>1, <1>2 DEF Asked
<1>9. SumFunctionOnSet(g, S \ {i}) \in Nat
  BY <1>4, SumNat
<1> QED
  BY <1>4, <1>5, <1>6, <1>7, <1>8, <1>9

(* A new invoice begins at the cursor and draws its line at the end. *)
LEMMA IssueStep ==
  ASSUME BillInv, TypeOK', Served', NEW k \in Keys, NEW force \in BOOLEAN, Issue(k, force)
  PROVE  BillInv'
<1>1. TypeOK /\ Arithmetic
  BY ArithmeticHolds DEF BillInv
<1>2. Arithmetic'
  BY ArithmeticHolds, PTL
<1>3. PICK c \in Nat : c = Cursor(k) /\ Asked(k) = Total(Lines(k, 0, c))
  BY DEF BillInv, EndToEnd
<1>4. PICK l \in Nat : l = Len(ledger) /\ c < l
  BY <1>1, <1>3, IssueType DEF Arithmetic
<1>5. PICK i : i = Len(invoices) + 1
  OBVIOUS
<1>6. /\ ledger' = ledger /\ i \notin DOMAIN invoices
      /\ DOMAIN invoices' = DOMAIN invoices \union {i}
      /\ \A j \in DOMAIN invoices : invoices'[j] = invoices[j]
      /\ invoices'[i] = Bill(k)
  <2>1. Bill(k) \in Invoice /\ invoices \in Seq(Invoice)
    BY <1>1, <1>3, <1>4, BillIs DEF TypeOK
  <2> QED
    BY <1>5, <2>1 DEF Issue
<1>7. /\ invoices'[i].key = k /\ invoices'[i].from = c /\ invoices'[i].to = l
      /\ invoices'[i].total = Total(Lines(k, c, l)) /\ invoices'[i].status = "issued"
      /\ invoices'[i].seal = <<k, c, l, Total(Lines(k, c, l))>>
  <2>1. Owing(k) = Lines(k, c, l)
    BY <1>3, <1>4 DEF Owing
  <2>2. Canonical(Bill(k)) = <<k, c, l, Total(Lines(k, c, l))>>
    BY <1>1, <1>3, <1>4, <2>1, BillIs DEF Canonical
  <2> QED
    BY <1>1, <1>3, <1>4, <1>6, <2>1, <2>2, BillIs
<1>8. \A q \in Keys : \A a, b \in Nat : Total(Lines(q, a, b))' = Total(Lines(q, a, b))
  BY <1>6 DEF Total, Lines
<1>9. ASSUME NEW j \in DOMAIN invoices'
      PROVE  Drawn(j)'
  <2>1. CASE j = i
    <3>1. l <= Len(ledger') /\ invoices'[i].total = Total(Lines(k, c, l))'
      BY <1>4, <1>6, <1>7, <1>8
    <3>2. Canonical(invoices[i])' = <<k, c, l, Total(Lines(k, c, l))>>
      BY <1>7 DEF Canonical
    <3> QED
      BY <1>4, <1>7, <2>1, <3>1, <3>2 DEF Drawn
  <2>2. CASE j \in DOMAIN invoices
    <3>1. PICK q \in Keys : \E a, b \in Nat :
            /\ invoices[j].key = q /\ invoices[j].from = a /\ invoices[j].to = b
            /\ a < b /\ b <= Len(ledger)
            /\ invoices[j].total = Total(Lines(q, a, b))
      BY <2>2 DEF BillInv, Drawn
    <3>2. invoices'[j].seal = Canonical(invoices[j])'
      BY <1>6, <2>2 DEF BillInv, Drawn, Canonical
    <3> QED
      BY <1>6, <1>8, <2>2, <3>1, <3>2 DEF Drawn
  <2> QED
    BY <1>6, <2>1, <2>2
<1>10. Standing(k)' = Standing(k) \union {i} /\ i \notin Standing(k)
  BY <1>6, <1>7 DEF Standing
<1>11. \A q \in Keys \ {k} : Standing(q)' = Standing(q)
  BY <1>6, <1>7 DEF Standing
<1>12. \A q \in Keys : \A j \in Standing(q) : j \in DOMAIN invoices /\ invoices'[j] = invoices[j]
  BY <1>6 DEF Standing
<1>13. EndToEnd(k)'
  <2>1. \A j \in Standing(k) : invoices[j].to \in Nat /\ invoices[j].from \in Nat
    BY <1>1, <1>12 DEF Arithmetic
  <2>2. \A j \in Standing(k) : invoices[j].to <= c
    BY <1>1, <1>3 DEF Arithmetic
  <2>3. Cursor(k)' = l
    <3>1. \A j \in Standing(k)' : invoices'[j].to <= l
      BY <1>4, <1>7, <1>10, <1>12, <2>1, <2>2
    <3>2. \E j \in Standing(k)' : invoices'[j].to = l
      BY <1>7, <1>10
    <3> QED
      BY <1>2, <3>1, <3>2 DEF Arithmetic
  <2>4. Asked(k)' = Total(Lines(k, 0, l))'
    <3>1. Asked(k)' = Total(Lines(k, c, l)) + Asked(k)
      BY <1>1, <1>7, <1>10, <1>12, AskedMore
    <3>2. /\ Total(Lines(k, 0, l)) = Total(Lines(k, 0, c)) + Total(Lines(k, c, l))
          /\ Total(Lines(k, 0, c)) \in Nat /\ Total(Lines(k, c, l)) \in Nat
      BY <1>1, <1>4 DEF Arithmetic
    <3>3. Total(Lines(k, 0, l))' = Total(Lines(k, 0, l))
      BY <1>8
    <3> QED
      BY <1>3, <3>1, <3>2, <3>3
  <2>5. EndToEnd(k)
    BY DEF BillInv
  <2>6. ASSUME NEW m \in Standing(k)', NEW j \in Standing(k)', m # j
        PROVE  Apart(m, j)'
    BY <1>7, <1>10, <1>12, <2>1, <2>2, <2>5, <2>6 DEF EndToEnd, Apart
  <2>7. ASSUME NEW m \in Standing(k)'
        PROVE  invoices'[m].from = 0 \/ \E j \in Standing(k)' : invoices'[j].to = invoices'[m].from
    <3>1. CASE m = i
      <4>1. c = 0 \/ \E j \in Standing(k) : invoices[j].to = c
        BY <1>1, <1>3 DEF Arithmetic
      <4> QED
        BY <1>7, <1>10, <1>12, <3>1, <4>1
    <3>2. CASE m \in Standing(k)
      BY <1>10, <1>12, <2>5, <3>2 DEF EndToEnd
    <3> QED
      BY <1>10, <3>1, <3>2
  <2>8. ASSUME NEW n \in 1..l
        PROVE  \E m \in Standing(k)' : Covers(m, n)'
    <3>1. CASE n <= c
      <4>1. n \in 1..Cursor(k)
        BY <1>3, <3>1
      <4>2. PICK m \in Standing(k) : Covers(m, n)
        BY <2>5, <4>1 DEF EndToEnd
      <4> QED
        BY <1>10, <1>12, <4>2 DEF Covers
    <3>2. CASE c < n
      BY <1>7, <1>10, <3>2 DEF Covers
    <3> QED
      BY <3>1, <3>2
  <2> QED
    BY <2>3, <2>4, <2>6, <2>7, <2>8 DEF EndToEnd
<1>14. ASSUME NEW q \in Keys \ {k}
       PROVE  EndToEnd(q)'
  <2>1. Standing(q)' = Standing(q) /\ \A j \in Standing(q) : invoices'[j] = invoices[j]
    BY <1>11, <1>12
  <2>2. Cursor(q)' = Cursor(q)
    BY <2>1, CursorSame
  <2>3. Asked(q)' = Asked(q)
    BY <1>1, <2>1, AskedSame
  <2>4. EndToEnd(q)
    BY DEF BillInv
  <2> QED
    BY <1>8, <2>1, <2>2, <2>3, <2>4 DEF EndToEnd, Apart, Covers
<1> QED
  BY <1>9, <1>13, <1>14 DEF BillInv

(* What set_status may do: nothing, or give back the last period of a key.  *)
VoidsLast(i) ==
  /\ i \in DOMAIN invoices /\ invoices[i].status # "void"
  /\ invoices[i].to = Cursor(invoices[i].key)
  /\ ledger' = ledger
  /\ DOMAIN invoices' = DOMAIN invoices
  /\ \A j \in DOMAIN invoices :
       /\ invoices'[j].key = invoices[j].key /\ invoices'[j].from = invoices[j].from
       /\ invoices'[j].to = invoices[j].to /\ invoices'[j].total = invoices[j].total
       /\ invoices'[j].seal = invoices[j].seal
       /\ invoices'[j].status = IF j = i THEN "void" ELSE invoices[j].status

LEMMA SetStatusVoids ==
  ASSUME ~ Unvoids, TypeOK, NEW i \in DOMAIN invoices, NEW status \in Statuses,
         SetStatus(i, status)
  PROVE  Grows \/ VoidsLast(i)
<1>1. /\ invoices' \in Seq(Invoice) /\ invoices \in Seq(Invoice)
      /\ Len(invoices') = Len(invoices) /\ DOMAIN invoices' = DOMAIN invoices
  BY SetStatusIs DEF TypeOK
<1>2. ledger' = ledger
  BY DEF SetStatus
<1>3. CASE status = invoices[i].status
  <2>1. invoices[i] \in Invoice
    BY InvoiceType
  <2>2. [invoices[i] EXCEPT !.status = status] = invoices[i]
    BY <1>3, <2>1 DEF Invoice
  <2>3. invoices' = [invoices EXCEPT ![i] = invoices[i]]
    BY <2>2 DEF SetStatus
  <2>4. invoices' = invoices
    BY <1>1, <2>3
  <2> QED
    BY <1>2, <2>4 DEF Grows
<1>4. CASE status # invoices[i].status
  <2>1. invoices[i].status # "void" /\ status = "void"
    BY <1>4, InvoiceType DEF SetStatus, Statuses
  <2>2. invoices[i].to = Cursor(invoices[i].key)
    BY <2>1 DEF SetStatus, MayVoid
  <2> QED
    BY <1>1, <1>2, <2>1, <2>2, SetStatusIs DEF VoidsLast
<1> QED
  BY <1>3, <1>4

(* Giving back the last period moves the cursor to where it began.          *)
LEMMA VoidStep ==
  ASSUME BillInv, TypeOK', Served', NEW i, VoidsLast(i)
  PROVE  BillInv'
<1>1. TypeOK /\ Arithmetic
  BY ArithmeticHolds DEF BillInv
<1>2. Arithmetic'
  BY ArithmeticHolds, PTL
<1>3. PICK k \in Keys : k = invoices[i].key
  BY <1>1 DEF VoidsLast, Arithmetic
<1>4. PICK c \in Nat : c = Cursor(k) /\ Asked(k) = Total(Lines(k, 0, c))
  BY DEF BillInv, EndToEnd
<1>5. i \in DOMAIN invoices /\ i \in Standing(k) /\ invoices[i].to = c
  BY <1>3, <1>4 DEF VoidsLast, Standing
<1>6. PICK a \in Nat : /\ a = invoices[i].from /\ a < c /\ c <= Len(ledger)
                       /\ invoices[i].total = Total(Lines(k, a, c))
  BY <1>3, <1>5 DEF BillInv, Drawn
<1>7. \A q \in Keys : \A m, n \in Nat : Total(Lines(q, m, n))' = Total(Lines(q, m, n))
  BY DEF VoidsLast, Total, Lines
<1>8. ASSUME NEW j \in DOMAIN invoices'
      PROVE  Drawn(j)'
  <2>1. /\ invoices'[j].seal = invoices[j].seal
        /\ Canonical(invoices[j])' = Canonical(invoices[j])
        /\ invoices[j].seal = Canonical(invoices[j])
    BY <1>8 DEF VoidsLast, BillInv, Drawn, Canonical
  <2>2. PICK q \in Keys : \E m, n \in Nat :
          /\ invoices[j].key = q /\ invoices[j].from = m /\ invoices[j].to = n
          /\ m < n /\ n <= Len(ledger)
          /\ invoices[j].total = Total(Lines(q, m, n))
    BY <1>8 DEF VoidsLast, BillInv, Drawn
  <2> QED
    BY <1>7, <1>8, <2>1, <2>2 DEF VoidsLast, Drawn
<1>9. Standing(k)' = Standing(k) \ {i}
  BY <1>3 DEF VoidsLast, Standing
<1>10. \A q \in Keys \ {k} : Standing(q)' = Standing(q)
  BY <1>3 DEF VoidsLast, Standing
<1>11. \A q \in Keys : \A j \in Standing(q) :
         /\ j \in DOMAIN invoices /\ invoices'[j].from = invoices[j].from
         /\ invoices'[j].to = invoices[j].to /\ invoices'[j].total = invoices[j].total
  BY DEF VoidsLast, Standing
<1>12. EndToEnd(k)'
  <2>1. EndToEnd(k)
    BY DEF BillInv
  <2>2. ASSUME NEW j \in Standing(k) \ {i}
        PROVE  /\ invoices[j].to \in Nat /\ invoices[j].from \in Nat
               /\ invoices[j].from < invoices[j].to /\ invoices[j].to <= a
    <3>1. j \in DOMAIN invoices /\ invoices[j].to \in Nat /\ invoices[j].from \in Nat
      BY <1>1, <1>11 DEF Arithmetic
    <3>2. invoices[j].from < invoices[j].to
      BY <3>1 DEF BillInv, Drawn
    <3>3. invoices[j].to <= c
      BY <1>1, <1>4 DEF Arithmetic
    <3>4. Apart(i, j)
      BY <1>5, <2>1 DEF EndToEnd
    <3> QED
      BY <1>5, <1>6, <3>1, <3>2, <3>3, <3>4 DEF Apart
  <2>3. a = 0 \/ \E j \in Standing(k) \ {i} : invoices[j].to = a
    <3>1. a = 0 \/ \E j \in Standing(k) : invoices[j].to = a
      BY <1>5, <1>6, <2>1 DEF EndToEnd
    <3> QED
      BY <1>5, <1>6, <3>1
  <2>4. Cursor(k)' = a
    <3>1. \A j \in Standing(k)' : invoices'[j].to <= a
      BY <1>9, <1>11, <2>2
    <3>2. a = 0 \/ \E j \in Standing(k)' : invoices'[j].to = a
      BY <1>9, <1>11, <2>3
    <3> QED
      BY <1>2, <3>1, <3>2 DEF Arithmetic
  <2>5. Asked(k)' = Total(Lines(k, 0, a))'
    <3>1. Asked(k) = Total(Lines(k, a, c)) + Asked(k)' /\ Asked(k)' \in Nat
      BY <1>1, <1>5, <1>6, <1>9, <1>11, AskedLess
    <3>2. /\ Total(Lines(k, 0, c)) = Total(Lines(k, 0, a)) + Total(Lines(k, a, c))
          /\ Total(Lines(k, 0, a)) \in Nat /\ Total(Lines(k, a, c)) \in Nat
      <4>1. 0 \in Nat /\ 0 <= a /\ a <= c /\ a <= Len(ledger) /\ c <= Len(ledger)
        BY <1>1, <1>6, CostType
      <4>2. Total(Lines(k, 0, c)) = Total(Lines(k, 0, a)) + Total(Lines(k, a, c))
        BY <1>1, <1>6, <4>1, LinesSplit
      <4>3. Total(Lines(k, 0, a)) \in Nat
        BY <1>1, <4>1, LinesType
      <4>4. Total(Lines(k, a, c)) \in Nat
        BY <1>1, <4>1, LinesType
      <4> QED
        BY <4>2, <4>3, <4>4
    <3>3. Total(Lines(k, 0, a))' = Total(Lines(k, 0, a))
      BY <1>7
    <3> QED
      BY <1>4, <3>1, <3>2, <3>3
  <2>6. ASSUME NEW m \in Standing(k)', NEW j \in Standing(k)', m # j
        PROVE  Apart(m, j)'
    BY <1>9, <1>11, <2>1, <2>6 DEF EndToEnd, Apart
  <2>7. ASSUME NEW m \in Standing(k)'
        PROVE  invoices'[m].from = 0 \/ \E j \in Standing(k)' : invoices'[j].to = invoices'[m].from
    <3>1. m \in Standing(k) \ {i}
      BY <1>9
    <3>2. CASE invoices[m].from = 0
      BY <1>11, <3>1, <3>2
    <3>3. CASE invoices[m].from # 0
      <4>1. PICK j \in Standing(k) : invoices[j].to = invoices[m].from
        BY <2>1, <3>1, <3>3 DEF EndToEnd
      <4>2. j # i
        BY <1>5, <1>6, <2>2, <3>1, <4>1
      <4> QED
        BY <1>9, <1>11, <3>1, <4>1, <4>2
    <3> QED
      BY <3>2, <3>3
  <2>8. ASSUME NEW n \in 1..a
        PROVE  \E m \in Standing(k)' : Covers(m, n)'
    <3>1. n \in 1..Cursor(k)
      BY <1>4, <1>6
    <3>2. PICK m \in Standing(k) : Covers(m, n)
      BY <2>1, <3>1 DEF EndToEnd
    <3>3. m # i
      BY <1>6, <3>2 DEF Covers
    <3> QED
      BY <1>9, <1>11, <3>2, <3>3 DEF Covers
  <2> QED
    BY <2>4, <2>5, <2>6, <2>7, <2>8 DEF EndToEnd
<1>13. ASSUME NEW q \in Keys \ {k}
       PROVE  EndToEnd(q)'
  <2>1. Standing(q)' = Standing(q)
        /\ \A j \in Standing(q) : /\ invoices'[j].from = invoices[j].from
                                  /\ invoices'[j].to = invoices[j].to
                                  /\ invoices'[j].total = invoices[j].total
    BY <1>10, <1>11
  <2>2. Cursor(q)' = Cursor(q)
    BY <2>1, CursorSame
  <2>3. Asked(q)' = Asked(q)
    BY <1>1, <2>1, AskedSame
  <2>4. EndToEnd(q)
    BY DEF BillInv
  <2> QED
    BY <1>7, <2>1, <2>2, <2>3, <2>4 DEF EndToEnd, Apart, Covers
<1> QED
  BY <1>8, <1>12, <1>13 DEF BillInv

LEMMA BillInit == Init => BillInv
<1> SUFFICES ASSUME Init PROVE BillInv
  OBVIOUS
<1>1. TypeOK /\ Served
  BY InitType DEF Init, Served
<1>2. invoices = <<>> /\ ledger = <<>> /\ Len(ledger) = 0 /\ DOMAIN invoices = {}
  BY DEF Init
<1>3. ASSUME NEW k \in Keys
      PROVE  EndToEnd(k)
  <2>1. Standing(k) = {}
    BY <1>2 DEF Standing
  <2>2. Cursor(k) = 0
    BY <1>1, <2>1, CursorIs
  <2>3. Asked(k) = 0
    BY <2>1, SumEmpty DEF Asked
  <2>4. Total(Lines(k, 0, 0)) = 0
    BY <1>1, LinesNone
  <2> QED
    BY <2>1, <2>2, <2>3, <2>4 DEF EndToEnd
<1> QED
  BY <1>1, <1>2, <1>3 DEF BillInv

LEMMA BillKept == ~ Unvoids /\ BillInv /\ [Next]_vars => BillInv'
<1> SUFFICES ASSUME ~ Unvoids, BillInv, [Next]_vars PROVE BillInv'
  OBVIOUS
<1>1. TypeOK /\ Served /\ TypeOK' /\ Served'
  BY TypeStep, ServedStep DEF BillInv
<1>2. CASE Grows
  BY <1>1, <1>2, GrowStep
<1>3. ASSUME NEW k \in Keys, NEW force \in BOOLEAN, Issue(k, force)
      PROVE  BillInv'
  BY <1>1, <1>3, IssueStep
<1>4. ASSUME NEW i \in DOMAIN invoices, NEW status \in Statuses, SetStatus(i, status)
      PROVE  BillInv'
  BY <1>1, <1>2, <1>4, SetStatusVoids, VoidStep
<1> QED
  BY <1>1, <1>2, <1>3, <1>4, BillSteps

(* ... and what is end to end covers each row once. *)
LEMMA EachRowOnce == BillInv => BilledOnce
<1> SUFFICES ASSUME BillInv, NEW k \in Keys, NEW n \in DOMAIN ledger
             PROVE  Cardinality({i \in Standing(k) : n \in invoices[i].from + 1 .. invoices[i].to})
                      = IF n <= Cursor(k) THEN 1 ELSE 0
  BY DEF BilledOnce
<1>1. Arithmetic /\ EndToEnd(k) /\ n \in Nat /\ n > 0
  BY ArithmeticHolds, CostType DEF BillInv
<1>2. \A i \in Standing(k) : /\ invoices[i].from \in Nat /\ invoices[i].to \in Nat
                             /\ invoices[i].to <= Cursor(k) /\ Cursor(k) \in Nat
  BY <1>1 DEF Arithmetic
<1>3. PICK S : S = {i \in Standing(k) : n \in invoices[i].from + 1 .. invoices[i].to}
  OBVIOUS
<1>4. S = {i \in Standing(k) : Covers(i, n)}
  BY <1>1, <1>2, <1>3 DEF Covers
<1>5. CASE n <= Cursor(k)
  <2>1. n \in 1..Cursor(k)
    BY <1>1, <1>5 DEF Arithmetic
  <2>2. PICK i \in Standing(k) : Covers(i, n)
    BY <1>1, <2>1 DEF EndToEnd
  <2>3. \A j \in Standing(k) : Covers(j, n) => j = i
    BY <1>1, <1>2, <2>2 DEF EndToEnd, Apart, Covers
  <2>4. S = {i}
    BY <1>4, <2>2, <2>3
  <2> QED
    BY <1>3, <1>5, <2>4, FS_Singleton
<1>6. CASE ~ (n <= Cursor(k))
  <2>1. S = {}
    BY <1>1, <1>2, <1>4, <1>6 DEF Covers
  <2> QED
    BY <1>3, <1>6, <2>1, FS_EmptySet
<1> QED
  BY <1>5, <1>6

LEMMA MoneyStays == BillInv => MoneyConserved
<1> SUFFICES ASSUME BillInv, NEW k \in Keys
             PROVE  Asked(k) + Total(Owing(k)) = Total(RowsFor(k))
  BY DEF MoneyConserved
<1>1. Arithmetic
  BY ArithmeticHolds DEF BillInv
<1>2. PICK c \in Nat : c = Cursor(k) /\ Asked(k) = Total(Lines(k, 0, c))
  BY DEF BillInv, EndToEnd
<1>3. PICK l \in Nat : l = Len(ledger)
  BY <1>1 DEF Arithmetic
<1>4. 0 \in Nat /\ 0 <= c /\ c <= l
  BY <1>2, <1>3, CursorBound
<1>5. Total(Lines(k, 0, l)) = Total(Lines(k, 0, c)) + Total(Lines(k, c, l))
  BY <1>1, <1>3, <1>4 DEF Arithmetic
<1>6. Owing(k) = Lines(k, c, l) /\ RowsFor(k) = Lines(k, 0, l)
  BY <1>2, <1>3 DEF Owing, RowsFor
<1> QED
  BY <1>2, <1>5, <1>6

(* What the invoices promise (store/invoice.rs): while no voided invoice is *)
(* brought back, every row of a key up to its line is on exactly one        *)
(* invoice that stands, the standing invoices and what is unbilled come to  *)
(* all the key ever spent, and every invoice still matches its seal.        *)
THEOREM BooksBillsAddUp ==
  ASSUME ~ Unvoids
  PROVE  Spec => []BillsAddUp
<1>1. BillInv => BillsAddUp
  BY EachRowOnce, MoneyStays DEF BillsAddUp, BillInv, Sealed, Drawn
<1>2. BillInv /\ [Next]_vars => BillInv'
  BY BillKept
<1> QED
  BY <1>1, <1>2, BillInit, PTL DEF Spec

-----------------------------------------------------------------------------
(* The lines. *)

LineSet(k) == {invoices[i].to : i \in Standing(k)}

LEMMA LinesInit == Init => Periods!Init
<1> SUFFICES ASSUME Init PROVE Periods!Init
  OBVIOUS
<1>1. Len(ledger) = 0 /\ \A k \in Keys : Standing(k) = {}
  BY DEF Init, Standing
<1> QED
  BY <1>1 DEF Periods!Init

LEMMA LinesStep ==
  ~ Unvoids /\ BillInv /\ BillInv' /\ [Next]_vars
    => [Periods!Next]_<<Len(ledger), [k \in Keys |-> {invoices[i].to : i \in Standing(k)}]>>
<1> SUFFICES ASSUME ~ Unvoids, BillInv, BillInv', [Next]_vars
             PROVE  [Periods!Next]_<<Len(ledger), [k \in Keys |-> {invoices[i].to : i \in Standing(k)}]>>
  OBVIOUS
<1>1. TypeOK /\ Served /\ Arithmetic
  BY ArithmeticHolds DEF BillInv
<1>2. Arithmetic'
  BY ArithmeticHolds, PTL DEF BillInv
<1>3. PICK L : L = [k \in Keys |-> LineSet(k)]
  OBVIOUS
<1>4. PICK M : M = [k \in Keys |-> LineSet(k)']
  OBVIOUS
<1>5. /\ L = [k \in Keys |-> {invoices[i].to : i \in Standing(k)}]
      /\ M = [k \in Keys |-> {invoices[i].to : i \in Standing(k)}]'
  BY <1>3, <1>4 DEF LineSet
<1>6. CASE Grows
  <2>1. DOMAIN ledger = 1..Len(ledger) /\ Len(ledger) \in Nat
    BY <1>1, CostType
  <2>2. DOMAIN ledger' = 1..Len(ledger') /\ Len(ledger') \in Nat
    BY DEF TypeOK, BillInv
  <2>3. Len(ledger) <= Len(ledger')
    BY <1>6, <2>1, <2>2 DEF Grows
  <2>4. L = M
    BY <1>6, <1>3, <1>4 DEF Grows, LineSet, Standing
  <2>5. CASE Len(ledger') = Len(ledger)
    BY <1>5, <2>4, <2>5
  <2>6. CASE Len(ledger') # Len(ledger)
    <3>1. Len(ledger') > Len(ledger)
      <4>1. PICK l, m \in Nat : l = Len(ledger) /\ m = Len(ledger')
        BY <2>1, <2>2
      <4> QED
        BY <2>3, <2>6, <4>1
    <3>2. Periods!Grow
      BY <1>5, <2>2, <2>4, <3>1 DEF Periods!Grow
    <3> QED
      BY <3>2 DEF Periods!Next
  <2> QED
    BY <2>5, <2>6
<1>7. ASSUME NEW k \in Keys, NEW force \in BOOLEAN, Issue(k, force)
      PROVE  Periods!Draw(k)
  <2>1. Cursor(k) < Len(ledger) /\ Len(ledger) \in Nat /\ Cursor(k) \in Nat
    BY <1>1, <1>7, IssueType DEF Arithmetic
  <2>2. \A n \in L[k] : n < Len(ledger)
    BY <1>1, <1>3, <2>1 DEF LineSet, Arithmetic
  <2>3. /\ ledger' = ledger
        /\ DOMAIN invoices' = DOMAIN invoices \union {Len(invoices) + 1}
        /\ Len(invoices) + 1 \notin DOMAIN invoices
        /\ \A j \in DOMAIN invoices : invoices'[j] = invoices[j]
        /\ invoices'[Len(invoices) + 1] = Bill(k)
    <3>1. Bill(k) \in Invoice /\ invoices \in Seq(Invoice)
      BY <1>1, <2>1, BillIs DEF TypeOK
    <3> QED
      BY <1>7, <3>1 DEF Issue
  <2>4. Bill(k).key = k /\ Bill(k).to = Len(ledger) /\ Bill(k).status = "issued"
    BY <1>1, BillIs
  <2>5. M[k] = L[k] \union {Len(ledger)}
    BY <1>3, <1>4, <2>3, <2>4 DEF LineSet, Standing
  <2>6. \A q \in Keys \ {k} : M[q] = L[q]
    BY <1>3, <1>4, <2>3, <2>4 DEF LineSet, Standing
  <2>7. M = [L EXCEPT ![k] = @ \union {Len(ledger)}]
    BY <1>3, <1>4, <2>5, <2>6
  <2>8. Len(ledger) > 0 /\ Len(ledger') = Len(ledger)
    BY <2>1, <2>3
  <2> QED
    BY <1>5, <2>2, <2>7, <2>8 DEF Periods!Draw
<1>8. ASSUME NEW i, VoidsLast(i)
      PROVE  \E k \in Keys : Periods!TakeBack(k)
  <2>1. PICK k \in Keys : k = invoices[i].key
    BY <1>1, <1>8 DEF VoidsLast, Arithmetic
  <2>2. PICK c \in Nat : c = Cursor(k)
    BY <1>1 DEF Arithmetic
  <2>3. i \in Standing(k) /\ invoices[i].to = c /\ ledger' = ledger
    BY <1>8, <2>1, <2>2 DEF VoidsLast, Standing
  <2>4. c \in L[k] /\ \A n \in L[k] : n <= c
    BY <1>1, <1>3, <2>2, <2>3 DEF LineSet, Arithmetic
  <2>5. Standing(k)' = Standing(k) \ {i} /\ \A q \in Keys \ {k} : Standing(q)' = Standing(q)
    BY <1>8, <2>1 DEF VoidsLast, Standing
  <2>6. \A j \in DOMAIN invoices : invoices'[j].to = invoices[j].to
    BY <1>8 DEF VoidsLast
  <2>7. \A j \in Standing(k) \ {i} : invoices[j].to # c
    <3>1. ASSUME NEW j \in Standing(k) \ {i} PROVE invoices[j].to # c
      <4>1. j \in DOMAIN invoices /\ i \in DOMAIN invoices /\ Apart(j, i)
        BY <1>1, <2>3 DEF BillInv, EndToEnd, Arithmetic
      <4>2. /\ invoices[j].from < invoices[j].to /\ invoices[i].from < invoices[i].to
            /\ invoices[j].from \in Nat /\ invoices[i].from \in Nat
            /\ invoices[j].to \in Nat /\ invoices[i].to \in Nat
        BY <4>1 DEF BillInv, Drawn
      <4> QED
        BY <2>3, <4>1, <4>2 DEF Apart
    <3> QED
      BY <3>1
  <2>8. Standing(k) \subseteq DOMAIN invoices /\ \A q \in Keys : Standing(q) \subseteq DOMAIN invoices
    BY <1>1 DEF Arithmetic
  <2>9. M[k] = L[k] \ {c}
    BY <1>3, <1>4, <2>3, <2>5, <2>6, <2>7, <2>8 DEF LineSet
  <2>10. \A q \in Keys \ {k} : M[q] = L[q]
    BY <1>3, <1>4, <2>5, <2>6, <2>8 DEF LineSet
  <2>11. M = [L EXCEPT ![k] = @ \ {c}]
    BY <1>3, <1>4, <2>9, <2>10
  <2>12. Periods!TakeBack(k)
    BY <1>5, <2>3, <2>4, <2>11 DEF Periods!TakeBack
  <2> QED
    BY <2>12
<1>9. ASSUME NEW i \in DOMAIN invoices, NEW status \in Statuses, SetStatus(i, status)
      PROVE  Grows \/ \E k \in Keys : Periods!TakeBack(k)
  BY <1>1, <1>8, <1>9, SetStatusVoids
<1> QED
  BY <1>1, <1>6, <1>7, <1>9, BillSteps DEF Periods!Next

(* The invoices implement the lines of BillingLines: the ledger only grows, *)
(* a line is drawn at its end, and only the last line is taken back.        *)
THEOREM BooksDrawLines ==
  ASSUME ~ Unvoids
  PROVE  Spec => DrawsLines
<1>1. BillInv /\ [Next]_vars => BillInv'
  BY BillKept
<1>2. BillInv /\ BillInv' /\ [Next]_vars
        => [Periods!Next]_<<Len(ledger), [k \in Keys |-> {invoices[i].to : i \in Standing(k)}]>>
  BY LinesStep
<1> QED
  BY <1>1, <1>2, BillInit, LinesInit, PTL DEF Spec, DrawsLines, Periods!Spec

==============================================================================
