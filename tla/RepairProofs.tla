---------------------------- MODULE RepairProofs ----------------------------
(***************************************************************************)
(* Theorems about Repair, for every set of days, sites, measures and       *)
(* contents, and any number of changes, failures and other loads.          *)
(*                                                                         *)
(* The loop of plan_ranges is followed day by day: whatever the verdicts,  *)
(* its groups are the longest stretches of days that may be loaded.  A     *)
(* range is thus made of additive days, and an additive day has no sale in *)
(* the destination: either it has no row, or its sum is zero.  What the    *)
(* plan may overwrite is thereby settled when it is made, and stays so     *)
(* however old the verdicts get; and when nothing changes or fails, what   *)
(* was loaded is judged right the next time.                               *)
(***************************************************************************)
EXTENDS Repair, TLAPS, FiniteSetTheorems, NaturalsInduction, WellFoundedInduction

-----------------------------------------------------------------------------
(* Numbers and sets.                                                       *)

\* A set of natural numbers has a least element.
LEMMA LeastExists ==
  ASSUME NEW S \in SUBSET Nat, S # {}
  PROVE  \E x \in S : \A y \in S : x <= y
<1>1. IsWellFoundedOn(OpToRel(<, Nat), Nat)
  BY NatLessThanWellFounded
<1>2. PICK x \in S : \A y \in S : ~ (<<y, x>> \in OpToRel(<, Nat))
  BY <1>1, WFMin
<1>3. \A y \in S : ~ y < x
  BY <1>2 DEF OpToRel
<1>4. x \in Nat /\ \A y \in S : y \in Nat
  OBVIOUS
<1>5. QED
  BY <1>3, <1>4

\* A set of natural numbers with a bound has a greatest element.
LEMMA GreatestExists ==
  ASSUME NEW S \in SUBSET Nat, S # {}, NEW m \in Nat, \A y \in S : y <= m
  PROVE  \E x \in S : \A y \in S : y <= x
<1> DEFINE T == {n \in Nat : \A y \in S : y <= n}
<1>1. T \in SUBSET Nat /\ T # {}
  OBVIOUS
<1>2. PICK x \in T : \A n \in T : x <= n
  <2> HIDE DEF T
  <2> QED
    BY <1>1, LeastExists
<1>3. x \in Nat /\ \A y \in S : y <= x /\ y \in Nat
  OBVIOUS
<1>4. x \in S
  <2> SUFFICES ASSUME x \notin S PROVE FALSE
    OBVIOUS
  <2>1. PICK z \in S : z <= x
    BY <1>3
  <2>2. z # x /\ z \in Nat
    BY <1>3
  <2>3. x - 1 \in Nat
    BY <1>3, <2>1, <2>2
  <2>4. ASSUME NEW y \in S PROVE y <= x - 1
    <3>1. y # x /\ y <= x /\ y \in Nat
      BY <1>3
    <3> QED
      BY <1>3, <3>1
  <2>5. x - 1 \in T
    BY <2>3, <2>4
  <2> QED
    BY <1>2, <1>3, <2>5
<1>5. QED
  BY <1>3, <1>4

\* A set of subsets of a finite set has a smallest one.
LEMMA Minimal ==
  ASSUME NEW S, IsFiniteSet(S), NEW B \in SUBSET SUBSET S, B # {}
  PROVE  \E T \in B : \A U \in B : U \subseteq T => U = T
<1>1. IsWellFoundedOn(StrictSubsetOrdering(S), FiniteSubsetsOf(S))
  BY FS_StrictSubsetOrderingWellFounded
<1>2. B \subseteq FiniteSubsetsOf(S)
  BY FS_Subset DEF FiniteSubsetsOf
<1>3. PICK T \in B : \A U \in B : ~ (<<U, T>> \in StrictSubsetOrdering(S))
  BY <1>1, <1>2, WFMin
<1>4. QED
  BY <1>3 DEF StrictSubsetOrdering

\* The greatest of some numbers up to n.
\* A finite set of natural numbers has a bound.
LEMMA FiniteIsBounded ==
  ASSUME NEW S, IsFiniteSet(S)
  PROVE  S \subseteq Nat => \E m \in Nat : \A d \in S : d <= m
<1> DEFINE Bounded(T) == \E m \in Nat : \A d \in T : d <= m
           B == {T \in SUBSET S : T \subseteq Nat /\ ~Bounded(T)}
<1> SUFFICES ASSUME B # {} PROVE FALSE
  OBVIOUS
<1>1. PICK T \in B : \A U \in B : U \subseteq T => U = T
  <2>1. B \in SUBSET SUBSET S
    OBVIOUS
  <2> HIDE DEF B
  <2>2. QED
    BY <2>1, Minimal
<1>2. T \in SUBSET S /\ T \subseteq Nat /\ ~Bounded(T)
  BY <1>1
<1>3. PICK x \in T : TRUE
  BY <1>2
<1>4. Bounded(T \ {x})
  <2>1. T \ {x} \notin B
    BY <1>1, <1>3
  <2> HIDE DEF Bounded
  <2>2. QED
    BY <1>2, <2>1
<1>5. PICK m \in Nat : \A d \in T \ {x} : d <= m
  BY <1>4
<1>6. x \in Nat /\ \A d \in T : d \in Nat
  BY <1>2
<1>7. m + x \in Nat /\ \A d \in T : d <= m + x
  BY <1>5, <1>6
<1>8. QED
  BY <1>2, <1>7

LEMMA MaxOfSome ==
  ASSUME NEW n \in Nat, NEW s \in SUBSET (1..n), s # {}
  PROVE  Max(s) \in s /\ \A k \in s : k <= Max(s)
<1>1. s \in SUBSET Nat /\ \A k \in s : k <= n
  OBVIOUS
<1>2. \E x \in s : \A y \in s : y <= x
  BY <1>1, GreatestExists
<1>3. \E x \in s : \A y \in s : x >= y
  BY <1>1, <1>2
<1>4. Max(s) \in s /\ \A y \in s : Max(s) >= y
  BY <1>3 DEF Max
<1>5. QED
  BY <1>1, <1>4

-----------------------------------------------------------------------------
(* The fold of plan_ranges.                                                *)

\* g holds the groups after every set S of places of a sequence of days.
Steps(g, v, seq, S) ==
  g = [s \in SUBSET S |->
         IF s = {} THEN <<>> ELSE Grouped(g[s \ {Max(s)}], seq[Max(s)], v)]

\* The loop of plan_ranges over those places.
Loop(v, seq, S) == CHOOSE g : Steps(g, v, seq, S)

LEMMA GroupsIsLoop ==
  ASSUME NEW v
  PROVE  Groups(v) = Loop(v, Sorted(DOMAIN v), DOMAIN Sorted(DOMAIN v))[DOMAIN Sorted(DOMAIN v)]
  BY DEF Groups, FoldLeft, MapThenFoldSet, Loop, Steps

\* What the fold needs of the places of a sequence.
Countable(N) == IsFiniteSet(N) /\ \A s \in SUBSET N : s # {} => Max(s) \in s

LEMMA PlacesAreCountable == \A n \in Nat : Countable(1..n)
<1> TAKE n \in Nat
<1>1. IsFiniteSet(1..n)
  <2>1. 1 \in Int /\ n \in Int
    OBVIOUS
  <2>2. QED
    BY <2>1, FS_Interval
<1>2. QED
  BY <1>1, MaxOfSome DEF Countable

\* Two folds agree where both are defined.
LEMMA LoopUnique ==
  ASSUME NEW v, NEW seq, NEW N, Countable(N), NEW T \in SUBSET N, NEW U \in SUBSET N,
         NEW g, NEW h, Steps(g, v, seq, T), Steps(h, v, seq, U)
  PROVE  \A s \in SUBSET (T \cap U) : g[s] = h[s]
<1> SUFFICES ASSUME NEW s0 \in SUBSET (T \cap U), g[s0] # h[s0] PROVE FALSE
  OBVIOUS
<1> DEFINE B == {s \in SUBSET (T \cap U) : g[s] # h[s]}
<1>1. B \in SUBSET SUBSET N /\ B # {} /\ IsFiniteSet(N)
  BY DEF Countable
<1>2. PICK s \in B : \A r \in B : r \subseteq s => r = s
  <2> HIDE DEF B
  <2>1. QED
    BY <1>1, Minimal
<1>3. /\ g[s] = IF s = {} THEN <<>> ELSE Grouped(g[s \ {Max(s)}], seq[Max(s)], v)
      /\ h[s] = IF s = {} THEN <<>> ELSE Grouped(h[s \ {Max(s)}], seq[Max(s)], v)
  BY DEF Steps
<1>4. s # {}
  BY <1>3
<1>5. Max(s) \in s
  BY <1>4 DEF Countable
<1>6. g[s \ {Max(s)}] = h[s \ {Max(s)}]
  BY <1>2, <1>5
<1>7. QED
  BY <1>3, <1>6

\* The fold of the definition is one.
LEMMA LoopExists ==
  ASSUME NEW v, NEW seq, NEW N, Countable(N)
  PROVE  \E g : Steps(g, v, seq, N)
<1> SUFFICES ASSUME ~ \E g : Steps(g, v, seq, N) PROVE FALSE
  OBVIOUS
<1> DEFINE B == {s \in SUBSET N : ~ \E g : Steps(g, v, seq, s)}
<1>1. B \in SUBSET SUBSET N /\ B # {} /\ IsFiniteSet(N)
  BY DEF Countable
<1>2. PICK T \in B : \A r \in B : r \subseteq T => r = T
  <2> HIDE DEF B
  <2>1. QED
    BY <1>1, Minimal
<1> DEFINE L(s) == Loop(v, seq, s)
           val(s) == L(s)[s]
           G == [s \in SUBSET T |->
                   IF s = {} THEN <<>> ELSE Grouped(val(s \ {Max(s)}), seq[Max(s)], v)]
<1>3. \A s \in SUBSET T : s # T => Steps(L(s), v, seq, s)
  BY <1>2 DEF Loop
<1>4. ASSUME NEW s \in SUBSET T, s # T
      PROVE  G[s] = val(s)
  <2>1. Steps(L(s), v, seq, s)
    BY <1>3, <1>4
  <2>2. val(s) = IF s = {} THEN <<>> ELSE Grouped(L(s)[s \ {Max(s)}], seq[Max(s)], v)
    BY <2>1 DEF Steps
  <2>3. ASSUME s # {} PROVE L(s)[s \ {Max(s)}] = val(s \ {Max(s)})
    <3>1. Max(s) \in s
      BY <2>3 DEF Countable
    <3> DEFINE r == s \ {Max(s)}
    <3>2. Steps(L(r), v, seq, r)
      BY <1>3, <3>1
    <3> HIDE DEF L
    <3> DEFINE g == L(s)
               h == L(r)
    <3>3. /\ s \in SUBSET N /\ r \in SUBSET N /\ r \in SUBSET (s \cap r)
          /\ Steps(g, v, seq, s) /\ Steps(h, v, seq, r)
      BY <2>1, <3>2
    <3> HIDE DEF r, g, h, val, G
    <3>4. \A t \in SUBSET (s \cap r) : g[t] = h[t]
      BY <3>3, LoopUnique
    <3>5. g[r] = h[r]
      BY <3>3, <3>4
    <3>6. QED
      BY <3>5 DEF g, h, r, val
  <2>4. QED
    BY <2>2, <2>3
<1>5. G = [s \in SUBSET T |-> IF s = {} THEN <<>> ELSE Grouped(G[s \ {Max(s)}], seq[Max(s)], v)]
  <2>1. ASSUME NEW s \in SUBSET T, s # {}
        PROVE  val(s \ {Max(s)}) = G[s \ {Max(s)}]
    <3>1. Max(s) \in s
      BY <2>1 DEF Countable
    <3> HIDE DEF G, val
    <3>2. QED
      BY <1>4, <3>1
  <2> HIDE DEF val
  <2>2. \A s \in SUBSET T :
          (IF s = {} THEN <<>> ELSE Grouped(val(s \ {Max(s)}), seq[Max(s)], v))
            = (IF s = {} THEN <<>> ELSE Grouped(G[s \ {Max(s)}], seq[Max(s)], v))
    <3> HIDE DEF G
    <3>1. QED
      BY <2>1
  <2>3. G = [s \in SUBSET T |->
               IF s = {} THEN <<>> ELSE Grouped(val(s \ {Max(s)}), seq[Max(s)], v)]
    OBVIOUS
  <2> HIDE DEF G
  <2>4. QED
    BY <2>2, <2>3
<1>6. Steps(G, v, seq, T)
  BY <1>5 DEF Steps
<1>7. QED
  BY <1>2, <1>6

\* The groups after the first i days.
After(v, seq, i) == Loop(v, seq, DOMAIN seq)[1..i]

LEMMA OneMoreDay ==
  ASSUME NEW v, NEW seq, NEW n \in Nat, DOMAIN seq = 1..n
  PROVE  /\ After(v, seq, 0) = <<>>
         /\ \A i \in 1..n :
              After(v, seq, i) = Grouped(After(v, seq, i - 1), seq[i], v)
<1> DEFINE g == Loop(v, seq, 1..n)
<1>1. Steps(g, v, seq, 1..n)
  <2>1. Countable(1..n)
    BY PlacesAreCountable
  <2>2. QED
    BY <2>1, LoopExists DEF Loop
<1> HIDE DEF g
<1>2. \A s \in SUBSET (1..n) :
        g[s] = IF s = {} THEN <<>> ELSE Grouped(g[s \ {Max(s)}], seq[Max(s)], v)
  BY <1>1 DEF Steps
<1>3. \A i : After(v, seq, i) = g[1..i]
  BY DEF After, g
<1>4. After(v, seq, 0) = <<>>
  <2>1. 1..0 = {} /\ {} \in SUBSET (1..n)
    OBVIOUS
  <2>2. QED
    BY <1>2, <1>3, <2>1
<1>5. ASSUME NEW i \in 1..n
      PROVE  After(v, seq, i) = Grouped(After(v, seq, i - 1), seq[i], v)
  <2>1. (1..i) \in SUBSET (1..n) /\ 1..i # {}
    OBVIOUS
  <2>2. Max(1..i) = i
    <3>1. Max(1..i) \in 1..i /\ \A k \in 1..i : k <= Max(1..i)
      BY <2>1, MaxOfSome
    <3>2. QED
      BY <3>1
  <2>3. (1..i) \ {i} = 1..(i - 1)
    OBVIOUS
  <2>4. QED
    BY <1>2, <1>3, <2>1, <2>2, <2>3
<1>6. QED
  BY <1>4, <1>5

-----------------------------------------------------------------------------
(* The loop of plan_ranges.                                                *)

\* There is a way to put days in order.
LEMMA OrderExists ==
  ASSUME NEW S, IsFiniteSet(S)
  PROVE  S \subseteq Nat =>
           \E s \in [1..Cardinality(S) -> S] : \A i, j \in DOMAIN s : i < j => s[i] < s[j]
<1> DEFINE Ordered(T) ==
      \E s \in [1..Cardinality(T) -> T] : \A i, j \in DOMAIN s : i < j => s[i] < s[j]
           B == {T \in SUBSET S : T \subseteq Nat /\ ~Ordered(T)}
<1> SUFFICES ASSUME B # {} PROVE FALSE
  OBVIOUS
<1>1. PICK T \in B : \A U \in B : U \subseteq T => U = T
  <2>1. B \in SUBSET SUBSET S
    OBVIOUS
  <2> HIDE DEF B
  <2>2. QED
    BY <2>1, Minimal
<1>2. T \in SUBSET S /\ T \subseteq Nat /\ ~Ordered(T) /\ IsFiniteSet(T)
  BY <1>1, FS_Subset
<1>3. T # {}
  <2>1. SUFFICES ASSUME T = {} PROVE FALSE
    OBVIOUS
  <2>2. Cardinality(T) = 0
    BY <2>1, FS_EmptySet
  <2>3. 1..0 = {}
    OBVIOUS
  <2>4. [k \in {} |-> 0] \in [1..Cardinality(T) -> T]
    BY <2>1, <2>2, <2>3
  <2>5. QED
    BY <1>2, <2>1, <2>2, <2>3, <2>4
<1>4. PICK m \in T : \A y \in T : y <= m
  <2>1. PICK b \in Nat : \A d \in T : d <= b
    BY <1>2, FiniteIsBounded
  <2>2. T \in SUBSET Nat
    BY <1>2
  <2> HIDE DEF B
  <2>3. QED
    BY <1>3, <2>1, <2>2, GreatestExists
<1> DEFINE U == T \ {m}
<1>5. Ordered(U)
  <2>1. U \notin B
    BY <1>1, <1>4
  <2> HIDE DEF Ordered
  <2>2. QED
    BY <1>2, <2>1
<1>6. /\ Cardinality(U) = Cardinality(T) - 1
      /\ Cardinality(T) \in Nat /\ Cardinality(T) # 0
  BY <1>2, <1>3, <1>4, FS_RemoveElement, FS_CardinalityType, FS_EmptySet
<1> DEFINE n == Cardinality(T)
<1>7. PICK s \in [1..(n - 1) -> U] : \A i, j \in 1..(n - 1) : i < j => s[i] < s[j]
  BY <1>5, <1>6
<1> DEFINE t == [k \in 1..n |-> IF k = n THEN m ELSE s[k]]
<1> HIDE DEF Ordered, B
<1>8. n \in Nat /\ n # 0
  BY <1>6
<1> HIDE DEF n
<1>9. \A k \in 1..n : k # n => k \in 1..(n - 1)
  BY <1>8
<1>10. t \in [1..n -> T]
  BY <1>7, <1>9
<1>11. ASSUME NEW i \in 1..n, NEW j \in 1..n, i < j
       PROVE  t[i] < t[j]
  <2>1. i # n /\ i \in 1..(n - 1) /\ t[i] = s[i] /\ s[i] \in U
    BY <1>7, <1>8, <1>9, <1>11
  <2>2. CASE j = n
    <3>1. s[i] \in Nat /\ m \in Nat /\ s[i] <= m /\ s[i] # m
      BY <1>2, <1>4, <2>1
    <3>2. QED
      BY <2>1, <2>2, <3>1
  <2>3. CASE j # n
    BY <1>7, <1>9, <1>11, <2>1, <2>3
  <2>4. QED
    BY <2>2, <2>3
<1>12. Ordered(T)
  <2> HIDE DEF t
  <2>1. DOMAIN t = 1..n
    BY <1>10
  <2>2. QED
    BY <1>10, <1>11, <2>1 DEF Ordered, n
<1>13. QED
  BY <1>2, <1>12

\* One more element of the last group.
LEMMA Extend ==
  ASSUME NEW T, NEW gs \in Seq(T), NEW e \in T, gs # <<>>
  PROVE /\ Append(Front(gs), e) \in Seq(T)
        /\ Len(Append(Front(gs), e)) = Len(gs)
        /\ \A k \in 1..Len(gs) : Append(Front(gs), e)[k] = IF k = Len(gs) THEN e ELSE gs[k]
<1>1. Len(gs) \in Nat /\ Len(gs) # 0
  OBVIOUS
<1>2. Front(gs) = [k \in 1..(Len(gs)-1) |-> gs[k]] /\ Front(gs) \in Seq(T)
  BY <1>1 DEF Front
<1>3. Len(Front(gs)) = Len(gs) - 1
  BY <1>1, <1>2
<1>4. QED
  BY <1>1, <1>2, <1>3

\* The days in their order: each once, and the next day comes next.
LEMMA SortedDays ==
  ASSUME NEW D, IsFiniteSet(D), D \subseteq Nat,
         NEW seq, seq = Sorted(D), NEW n, n = Cardinality(D)
  PROVE  /\ n \in Nat /\ seq \in [1..n -> D]
         /\ \A i, j \in 1..n : i < j => seq[i] < seq[j]
         /\ \A d \in D : \E i \in 1..n : seq[i] = d
         /\ \A i \in 1..n : seq[i] + 1 \in D => i < n /\ seq[i + 1] = seq[i] + 1
<1>1. n \in Nat
  BY FS_CardinalityType
<1>2. seq \in [1..n -> D] /\ \A i, j \in DOMAIN seq : i < j => seq[i] < seq[j]
  <2>1. \E s \in [1..n -> D] : \A i, j \in DOMAIN s : i < j => s[i] < s[j]
    BY OrderExists
  <2>2. seq = CHOOSE s \in [1..n -> D] : \A i, j \in DOMAIN s : i < j => s[i] < s[j]
    BY DEF Sorted
  <2>3. QED
    BY <2>1, <2>2
<1>3. \A i, j \in 1..n : i < j => seq[i] < seq[j]
  BY <1>2
<1>4. \A d \in D : \E i \in 1..n : seq[i] = d
  <2>1. \A i \in 1..n : seq[i] \in Nat
    BY <1>2
  <2>2. ASSUME NEW i \in 1..n, NEW j \in 1..n, seq[i] = seq[j] PROVE i = j
    <3>1. ~ i < j /\ ~ j < i
      BY <1>3, <2>1, <2>2
    <3>2. QED
      BY <1>1, <3>1
  <2>3. seq \in Injection(1..n, D)
    BY <1>2, <2>2 DEF Injection, IsInjective
  <2>4. Cardinality(1..n) = n
    <3>1. 1 \in Int /\ n \in Int
      BY <1>1
    <3>2. Cardinality(1..n) = IF 1 > n THEN 0 ELSE n - 1 + 1
      BY <3>1, FS_Interval
    <3>3. QED
      BY <1>1, <3>2
  <2>5. seq \in Surjection(1..n, D)
    BY <2>3, <2>4, FS_Injection
  <2>6. QED
    BY <2>5 DEF Surjection
<1>5. ASSUME NEW i \in 1..n, seq[i] + 1 \in D
      PROVE  i < n /\ seq[i + 1] = seq[i] + 1
  <2>1. PICK j \in 1..n : seq[j] = seq[i] + 1
    BY <1>4, <1>5
  <2>2. \A k \in 1..n : seq[k] \in Nat
    BY <1>2
  <2>3. i < j
    <3>1. i # j /\ ~ j < i
      BY <1>3, <2>1, <2>2
    <3>2. QED
      BY <3>1
  <2>4. i < n /\ i + 1 \in 1..n
    BY <1>1, <2>3
  <2>5. ~ i + 1 < j
    <3>1. seq[i] < seq[i + 1]
      BY <1>3, <2>4
    <3>2. i + 1 < j => seq[i + 1] < seq[j]
      BY <1>3, <2>4
    <3>3. QED
      BY <2>1, <2>2, <2>4, <3>1, <3>2
  <2>6. j = i + 1
    BY <2>3, <2>5
  <2>7. QED
    BY <2>1, <2>4, <2>6
<1>6. QED
  BY <1>1, <1>2, <1>3, <1>4, <1>5

\* A group holds days that follow one another and may be loaded, and starts
\* where the day before may not.
Whole(h, v) ==
  /\ \A k \in 1..Len(h) : h[k] = h[1] + k - 1
  /\ \A k \in 1..Len(h) : v[h[k]] \in Additive
  /\ h[1] - 1 \in DOMAIN v => v[h[1] - 1] \notin Additive

Closed(h, v) == h[Len(h)] + 1 \in DOMAIN v => v[h[Len(h)] + 1] \notin Additive

\* The groups after i days: all but the last are closed, the last ends with the
\* day before, and every day that may be loaded is in one of them.
GroupsInv(gs, v, seq, i) ==
  /\ gs \in Seq(Seq(DOMAIN v))
  /\ \A k \in 1..Len(gs) : gs[k] # <<>> => Whole(gs[k], v)
  /\ \A k \in 1..Len(gs) : k # Len(gs) /\ gs[k] # <<>> => Closed(gs[k], v)
  /\ \A m \in 1..i : v[seq[m]] \in Additive =>
       \E k \in 1..Len(gs) : \E l \in 1..Len(gs[k]) : gs[k][l] = seq[m]
  /\ gs # <<>> /\ Last(gs) # <<>> => i # 0 /\ Last(Last(gs)) = seq[i]
  /\ i # 0 /\ v[seq[i]] \in Additive => gs # <<>> /\ Last(gs) # <<>>

\* One day of the loop.
LEMMA GroupsKept ==
  ASSUME NEW v, NEW n \in Nat, NEW seq \in [1..n -> DOMAIN v], DOMAIN v \subseteq Nat,
         \A i \in 1..n : seq[i] + 1 \in DOMAIN v => i < n /\ seq[i + 1] = seq[i] + 1,
         \A d \in DOMAIN v : \E i \in 1..n : seq[i] = d,
         \A i, j \in 1..n : i < j => seq[i] < seq[j],
         NEW i \in 1..n, NEW gs, GroupsInv(gs, v, seq, i - 1)
  PROVE  GroupsInv(Grouped(gs, seq[i], v), v, seq, i)
<1> DEFINE D == DOMAIN v
           d == seq[i]
           w == i - 1
           old == Last(gs)
<1>1. /\ gs \in Seq(Seq(D)) /\ Len(gs) \in Nat
      /\ d \in D /\ d \in Nat /\ \A h \in Seq(D) : Len(h) \in Nat
      /\ w \in Nat /\ w + 1 = i /\ w \in 0..n
  BY DEF GroupsInv
<1>2. gs # <<>> => old = gs[Len(gs)] /\ old \in Seq(D) /\ Len(gs) \in 1..Len(gs) /\ Len(gs) # 0
  BY <1>1 DEF Last
<1>3. gs # <<>> /\ old # <<>> => /\ w \in 1..n /\ old[Len(old)] = seq[w] /\ Len(old) \in 1..Len(old)
                                 /\ Whole(old, v)
  <2>1. SUFFICES ASSUME gs # <<>>, old # <<>>
        PROVE  /\ w \in 1..n /\ old[Len(old)] = seq[w] /\ Len(old) \in 1..Len(old)
               /\ Whole(old, v)
    OBVIOUS
  <2>2. w # 0 /\ Last(old) = seq[w] /\ Whole(old, v)
    BY <1>2, <2>1 DEF GroupsInv
  <2>3. Len(old) \in Nat /\ Len(old) # 0
    BY <1>1, <1>2, <2>1
  <2>4. QED
    BY <1>1, <2>2, <2>3 DEF Last
<1>4. w \in 1..n => /\ seq[w] \in Nat
                    /\ seq[w] + 1 \in D => seq[w] + 1 = d
                    /\ seq[w] < d
  BY <1>1
<1> DEFINE new == Grouped(gs, d, v)
<1> HIDE DEF d, w, D
<1>5. CASE v[d] \notin Additive
  <2>1. new = Append(gs, <<>>)
    BY <1>5 DEF Grouped
  <2>2. <<>> \in Seq(D)
    OBVIOUS
  <2>3. /\ new \in Seq(Seq(D)) /\ Len(new) = Len(gs) + 1
        /\ \A k \in 1..Len(gs) : new[k] = gs[k]
        /\ new[Len(gs) + 1] = <<>>
    BY <1>1, <2>1, <2>2
  <2> HIDE DEF new
  <2>4. /\ \A k \in 1..Len(new) : k = Len(gs) + 1 \/ k \in 1..Len(gs)
        /\ \A k \in 1..Len(gs) : k \in 1..Len(new)
    <3>1. Len(gs) \in Nat /\ Len(new) = Len(gs) + 1
      BY <1>1, <2>3
    <3> QED
      BY <3>1
  <2>5. gs # <<>> /\ old # <<>> => Closed(old, v)
    BY <1>3, <1>4, <1>5 DEF Closed, D
  <2>6. \A k \in 1..Len(new) : new[k] # <<>> => Whole(new[k], v)
    BY <2>3, <2>4 DEF GroupsInv
  <2>7. \A k \in 1..Len(new) : k # Len(new) /\ new[k] # <<>> => Closed(new[k], v)
    <3>1. SUFFICES ASSUME NEW k \in 1..Len(gs), gs[k] # <<>> PROVE Closed(gs[k], v)
      BY <2>3, <2>4
    <3>2. gs # <<>>
      BY <1>1
    <3>3. QED
      BY <1>2, <2>5, <3>1, <3>2 DEF GroupsInv
  <2>8. ASSUME NEW m \in 1..i, v[seq[m]] \in Additive
        PROVE  \E k \in 1..Len(new) : \E l \in 1..Len(new[k]) : new[k][l] = seq[m]
    <3>1. m \in 1..w
      BY <1>1, <1>5, <2>8 DEF d
    <3>2. PICK k \in 1..Len(gs) : \E l \in 1..Len(gs[k]) : gs[k][l] = seq[m]
      BY <2>8, <3>1 DEF GroupsInv, w
    <3>3. k \in 1..Len(new) /\ new[k] = gs[k]
      BY <2>3, <2>4
    <3>4. \E l \in 1..Len(new[k]) : new[k][l] = seq[m]
      BY <3>2, <3>3
    <3>5. QED
      BY <3>3, <3>4
  <2>9. Last(new) = <<>>
    BY <2>3 DEF Last
  <2>10. QED
    BY <1>5, <2>3, <2>6, <2>7, <2>8, <2>9 DEF GroupsInv, D, d, new
<1>6. CASE v[d] \in Additive /\ gs # <<>> /\ old # <<>> /\ d = Last(old) + 1
  <2> DEFINE h == Append(old, d)
  <2>1. new = Append(Front(gs), h)
    BY <1>6 DEF Grouped
  <2>2. old \in Seq(D) /\ old # <<>> /\ Len(old) \in Nat \ {0} /\ Len(gs) \in 1..Len(gs)
    BY <1>1, <1>2, <1>6
  <2>3. /\ h \in Seq(D) /\ Len(h) = Len(old) + 1
        /\ \A k \in 1..Len(old) : h[k] = old[k]
        /\ h[Len(old) + 1] = d
    BY <1>1, <2>2
  <2> HIDE DEF h, old
  <2>4. /\ new \in Seq(Seq(D)) /\ Len(new) = Len(gs)
        /\ \A k \in 1..Len(gs) : new[k] = IF k = Len(gs) THEN h ELSE gs[k]
    <3> DEFINE T == Seq(D)
    <3>1. gs \in Seq(T) /\ h \in T /\ gs # <<>>
      BY <1>1, <1>6, <2>3
    <3> HIDE DEF T, new
    <3>2. /\ Append(Front(gs), h) \in Seq(T)
          /\ Len(Append(Front(gs), h)) = Len(gs)
          /\ \A k \in 1..Len(gs) : Append(Front(gs), h)[k] = IF k = Len(gs) THEN h ELSE gs[k]
      BY <3>1, Extend
    <3>3. QED
      BY <2>1, <3>2 DEF T
  <2> HIDE DEF new
  <2>5. Whole(h, v) /\ h # <<>>
    <3>1. Whole(old, v) /\ old[1] \in D /\ 1 \in 1..Len(old) /\ Len(old) \in 1..Len(old)
      BY <1>3, <1>6, <2>2
    <3>2. \A k \in 1..Len(h) : k \in 1..Len(old) \/ k = Len(old) + 1
      BY <2>2, <2>3
    <3>3. d = old[Len(old)] + 1 /\ old[Len(old)] = old[1] + Len(old) - 1 /\ h[1] = old[1]
      BY <1>6, <2>3, <3>1 DEF Whole, Last
    <3>4. old[1] \in Nat
      BY <3>1 DEF D
    <3>5. d = old[1] + (Len(old) + 1) - 1
      BY <2>2, <3>3, <3>4
    <3>6. \A k \in 1..Len(h) : h[k] = h[1] + k - 1
      BY <2>3, <3>1, <3>2, <3>3, <3>5 DEF Whole
    <3>7. \A k \in 1..Len(h) : v[h[k]] \in Additive
      BY <1>6, <2>3, <3>1, <3>2 DEF Whole
    <3>8. QED
      BY <2>2, <2>3, <3>1, <3>3, <3>6, <3>7 DEF Whole
  <2>6. \A k \in 1..Len(new) : new[k] # <<>> => Whole(new[k], v)
    BY <2>4, <2>5 DEF GroupsInv
  <2>7. \A k \in 1..Len(new) : k # Len(new) /\ new[k] # <<>> => Closed(new[k], v)
    BY <2>4 DEF GroupsInv
  <2>8. ASSUME NEW m \in 1..i, v[seq[m]] \in Additive
        PROVE  \E k \in 1..Len(new) : \E l \in 1..Len(new[k]) : new[k][l] = seq[m]
    <3>1. CASE m = i
      <4>1. new[Len(gs)] = h /\ Len(gs) \in 1..Len(new)
        BY <2>2, <2>4
      <4>2. h[Len(h)] = d /\ Len(h) \in 1..Len(h)
        BY <2>2, <2>3
      <4>3. h[Len(h)] = seq[m]
        BY <3>1, <4>2 DEF d
      <4>4. QED
        BY <4>1, <4>2, <4>3
    <3>2. CASE m # i
      <4>1. m \in 1..w
        BY <1>1, <3>2
      <4>a. PICK k \in 1..Len(gs) : \E l \in 1..Len(gs[k]) : gs[k][l] = seq[m]
        BY <2>8, <4>1 DEF GroupsInv, w
      <4>2. PICK l \in 1..Len(gs[k]) : gs[k][l] = seq[m]
        BY <4>a
      <4>3. l \in 1..Len(new[k]) /\ new[k][l] = gs[k][l]
        <5>1. CASE k = Len(gs)
          <6>1. gs[k] = old /\ new[k] = h
            BY <1>2, <1>6, <2>4, <5>1
          <6>2. QED
            BY <2>2, <2>3, <4>2, <6>1
        <5>2. CASE k # Len(gs)
          BY <2>4, <4>2, <5>2
        <5>3. QED
          BY <5>1, <5>2
      <4>4. QED
        BY <2>4, <4>2, <4>3
    <3>3. QED
      BY <3>1, <3>2
  <2>9. new # <<>> /\ Last(new) = h /\ Last(h) = d
    <3>1. Last(h) = d
      BY <2>3 DEF Last
    <3>2. new[Len(gs)] = h /\ Len(new) = Len(gs) /\ Len(gs) # 0
      BY <1>2, <1>6, <2>4
    <3>3. QED
      BY <3>1, <3>2 DEF Last
  <2>10. QED
    BY <2>4, <2>5, <2>6, <2>7, <2>8, <2>9 DEF GroupsInv, D, d, new
<1>7. CASE v[d] \in Additive /\ ~(gs # <<>> /\ old # <<>> /\ d = Last(old) + 1)
  <2> DEFINE h == <<d>>
  <2>1. new = Append(gs, h)
    BY <1>7 DEF Grouped
  <2>2. h \in Seq(D) /\ Len(h) = 1 /\ h[1] = d
    BY <1>1
  <2> HIDE DEF h
  <2>3. /\ new \in Seq(Seq(D)) /\ Len(new) = Len(gs) + 1
        /\ \A k \in 1..Len(gs) : new[k] = gs[k]
        /\ new[Len(gs) + 1] = h
    BY <1>1, <2>1, <2>2
  <2> HIDE DEF new
  <2>4. /\ \A k \in 1..Len(new) : k = Len(gs) + 1 \/ k \in 1..Len(gs)
        /\ \A k \in 1..Len(gs) : k \in 1..Len(new)
    <3>1. Len(gs) \in Nat /\ Len(new) = Len(gs) + 1
      BY <1>1, <2>3
    <3> QED
      BY <3>1
  <2>5. gs # <<>> /\ old # <<>> => Closed(old, v)
    <3>1. SUFFICES ASSUME gs # <<>>, old # <<>> PROVE Closed(old, v)
      OBVIOUS
    <3>2. Last(old) = seq[w] /\ w \in 1..n /\ old[Len(old)] = seq[w]
      BY <1>3, <3>1 DEF Last
    <3>3. seq[w] + 1 \notin D
      BY <1>4, <1>7, <3>1, <3>2
    <3>4. QED
      BY <3>2, <3>3 DEF Closed, D
  <2>6. d - 1 \in D => v[d - 1] \notin Additive
    <3>1. SUFFICES ASSUME d - 1 \in D, v[d - 1] \in Additive PROVE FALSE
      OBVIOUS
    <3>2. PICK j \in 1..n : seq[j] = d - 1
      BY <3>1 DEF D
    <3>3. j < n /\ seq[j + 1] = d
      <4>1. seq[j] + 1 = d
        BY <1>1, <3>2
      <4>2. QED
        BY <1>1, <4>1 DEF D
    <3>4. j + 1 = i
      <4>1. j + 1 \in 1..n /\ i \in 1..n /\ seq[i] = d /\ d \in Nat
        BY <1>1, <3>3 DEF d
      <4>2. ~ j + 1 < i /\ ~ i < j + 1
        BY <3>3, <4>1
      <4>3. QED
        BY <4>1, <4>2
    <3>5. w = j /\ w # 0
      BY <3>4 DEF w
    <3>6. gs # <<>> /\ old # <<>>
      BY <3>1, <3>2, <3>5 DEF GroupsInv, w
    <3>7. Last(old) + 1 = d
      <4>1. Last(old) = seq[j] /\ seq[j] = d - 1
        BY <1>3, <3>2, <3>5, <3>6 DEF Last
      <4>2. QED
        BY <1>1, <4>1
    <3>8. QED
      BY <1>7, <3>6, <3>7
  <2>7. Whole(h, v) /\ h # <<>>
    <3>1. \A k \in 1..Len(h) : k = 1
      BY <2>2
    <3>2. \A k \in 1..Len(h) : h[k] = h[1] + k - 1 /\ v[h[k]] \in Additive
      BY <1>1, <1>7, <2>2, <3>1
    <3>3. h # <<>>
      BY DEF h
    <3>4. QED
      BY <2>2, <2>6, <3>2, <3>3 DEF Whole, D
  <2>8. \A k \in 1..Len(new) : new[k] # <<>> => Whole(new[k], v)
    BY <2>3, <2>4, <2>7 DEF GroupsInv
  <2>9. \A k \in 1..Len(new) : k # Len(new) /\ new[k] # <<>> => Closed(new[k], v)
    <3>1. SUFFICES ASSUME NEW k \in 1..Len(gs), gs[k] # <<>> PROVE Closed(gs[k], v)
      BY <2>3, <2>4
    <3>2. gs # <<>>
      BY <1>1
    <3>3. QED
      BY <1>2, <2>5, <3>1, <3>2 DEF GroupsInv
  <2>10. ASSUME NEW m \in 1..i, v[seq[m]] \in Additive
         PROVE  \E k \in 1..Len(new) : \E l \in 1..Len(new[k]) : new[k][l] = seq[m]
    <3>1. CASE m = i
      <4>1. Len(new) \in 1..Len(new) /\ new[Len(new)] = h /\ 1 \in 1..Len(h)
        BY <1>1, <2>2, <2>3
      <4>2. QED
        BY <2>2, <3>1, <4>1 DEF d
    <3>2. CASE m # i
      <4>1. m \in 1..w
        BY <1>1, <3>2
      <4>2. PICK k \in 1..Len(gs) : \E l \in 1..Len(gs[k]) : gs[k][l] = seq[m]
        BY <2>10, <4>1 DEF GroupsInv, w
      <4>3. k \in 1..Len(new)
        BY <2>4
      <4>4. QED
        BY <2>3, <4>2, <4>3
    <3>3. QED
      BY <3>1, <3>2
  <2>11. new # <<>> /\ Last(new) = h /\ Last(h) = d
    BY <1>1, <2>2, <2>3 DEF Last
  <2>12. QED
    BY <2>3, <2>7, <2>8, <2>9, <2>10, <2>11 DEF GroupsInv, D, d, new
<1>8. QED
  BY <1>5, <1>6, <1>7

\* The whole loop.
LEMMA GroupsHold ==
  ASSUME NEW v, IsFiniteSet(DOMAIN v), DOMAIN v \subseteq Nat,
         NEW seq, seq = Sorted(DOMAIN v), NEW n, n = Cardinality(DOMAIN v)
  PROVE  GroupsInv(Groups(v), v, seq, n)
<1>1. /\ n \in Nat /\ seq \in [1..n -> DOMAIN v]
      /\ \A i, j \in 1..n : i < j => seq[i] < seq[j]
      /\ \A d \in DOMAIN v : \E i \in 1..n : seq[i] = d
      /\ \A i \in 1..n : seq[i] + 1 \in DOMAIN v => i < n /\ seq[i + 1] = seq[i] + 1
  BY SortedDays
<1>2. DOMAIN seq = 1..n
  BY <1>1
<1>3. /\ After(v, seq, 0) = <<>>
      /\ \A i \in 1..n : After(v, seq, i) = Grouped(After(v, seq, i - 1), seq[i], v)
  BY <1>1, <1>2, OneMoreDay
<1>4. Groups(v) = After(v, seq, n)
  BY <1>2, GroupsIsLoop DEF After
<1> DEFINE Holds(i) == GroupsInv(After(v, seq, i), v, seq, i)
           B == {i \in 0..n : ~Holds(i)}
<1>5. SUFFICES ASSUME B # {} PROVE FALSE
  BY <1>1, <1>4
<1>6. PICK i \in B : \A j \in B : i <= j
  <2>1. B \in SUBSET Nat
    OBVIOUS
  <2> HIDE DEF B
  <2>2. QED
    BY <1>5, <2>1, LeastExists
<1>7. i \in 0..n /\ ~Holds(i) /\ i \in Nat
  BY <1>6
<1>8. Holds(0)
  <2>1. GroupsInv(<<>>, v, seq, 0)
    <3>1. Len(<<>>) = 0 /\ 1..0 = {}
      OBVIOUS
    <3>2. <<>> \in Seq(Seq(DOMAIN v))
      OBVIOUS
    <3>3. QED
      BY <3>1, <3>2 DEF GroupsInv
  <2>2. QED
    BY <1>3, <2>1
<1>9. i # 0 /\ i \in 1..n /\ i - 1 \in 0..n
  <2>1. i # 0
    BY <1>7, <1>8
  <2>2. QED
    BY <1>1, <1>7, <2>1
<1>10. Holds(i - 1)
  <2>1. i - 1 \notin B
    BY <1>6, <1>7
  <2> HIDE DEF Holds
  <2>2. QED
    BY <1>9, <2>1
<1>11. GroupsInv(Grouped(After(v, seq, i - 1), seq[i], v), v, seq, i)
  BY <1>1, <1>9, <1>10, GroupsKept
<1>12. QED
  BY <1>3, <1>7, <1>9, <1>11

\* Among the groups, those with a day are stretches, and they have every day
\* that may be loaded.
LEMMA GroupsAreStretches ==
  ASSUME NEW v, IsFiniteSet(DOMAIN v), DOMAIN v \subseteq Nat
  PROVE  /\ \A h \in ToSet(Groups(v)) : h # <<>> =>
              /\ Head(h) \in DOMAIN v /\ Last(h) \in DOMAIN v /\ Head(h) <= Last(h)
              /\ ToSet(h) = Head(h)..Last(h)
              /\ Stretch(v, Head(h), Last(h))
         /\ \A d \in DOMAIN v : v[d] \in Additive =>
              \E h \in ToSet(Groups(v)) : d \in ToSet(h)
<1> DEFINE D == DOMAIN v
           seq == Sorted(D)
           n == Cardinality(D)
           gs == Groups(v)
<1>1. GroupsInv(gs, v, seq, n)
  BY GroupsHold
<1>2. /\ n \in Nat /\ seq \in [1..n -> D]
      /\ \A d \in D : \E i \in 1..n : seq[i] = d
      /\ \A i \in 1..n : seq[i] + 1 \in D => i < n /\ seq[i + 1] = seq[i] + 1
  BY SortedDays
<1>3. gs \in Seq(Seq(D)) /\ D \subseteq Nat
  BY <1>1 DEF GroupsInv
<1> HIDE DEF gs, seq, n
<1>4. Len(gs) \in Nat /\ DOMAIN gs = 1..Len(gs) /\ \A k \in 1..Len(gs) : gs[k] \in Seq(D)
  BY <1>3
<1>5. ASSUME NEW k \in 1..Len(gs), gs[k] # <<>>
      PROVE  Closed(gs[k], v)
  <2>1. CASE k # Len(gs)
    BY <1>1, <1>5, <2>1 DEF GroupsInv
  <2>2. CASE k = Len(gs)
    <3>1. gs # <<>> /\ Last(gs) = gs[k]
      BY <1>4, <1>5, <2>2 DEF Last
    <3>2. n # 0 /\ Last(gs[k]) = seq[n]
      BY <1>1, <1>5, <3>1 DEF GroupsInv
    <3>3. n \in 1..n /\ seq[n] + 1 \notin D
      BY <1>2, <3>2
    <3>4. QED
      BY <3>2, <3>3 DEF Closed, Last
  <2>3. QED
    BY <2>1, <2>2
<1>6. ASSUME NEW h \in ToSet(gs), h # <<>>
      PROVE  /\ Head(h) \in D /\ Last(h) \in D /\ Head(h) <= Last(h)
             /\ ToSet(h) = Head(h)..Last(h)
             /\ Stretch(v, Head(h), Last(h))
  <2>1. PICK k \in 1..Len(gs) : h = gs[k]
    BY <1>4, <1>6 DEF ToSet
  <2>2. h \in Seq(D) /\ Whole(h, v) /\ Closed(h, v)
    BY <1>1, <1>4, <1>5, <1>6, <2>1 DEF GroupsInv
  <2>3. /\ Len(h) \in Nat /\ Len(h) # 0 /\ DOMAIN h = 1..Len(h)
        /\ Head(h) = h[1] /\ \A l \in 1..Len(h) : h[l] \in D
    BY <1>6, <2>2
  <2> DEFINE a == h[1]
             m == Len(h)
  <2>4. a \in Nat /\ a \in D /\ m \in Nat /\ m # 0
    BY <1>3, <2>3
  <2>5. \A l \in 1..m : h[l] = a + l - 1 /\ h[l] \in D /\ v[h[l]] \in Additive
    BY <2>2, <2>3 DEF Whole
  <2>6. Last(h) = a + m - 1 /\ Last(h) \in D
    BY <2>4, <2>5 DEF Last
  <2>7. ToSet(h) = {h[l] : l \in 1..m}
    BY <2>3 DEF ToSet
  <2>8. a - 1 \in D => v[a - 1] \notin Additive
    BY <2>2 DEF Whole
  <2>9. Last(h) + 1 \in D => v[Last(h) + 1] \notin Additive
    BY <2>2 DEF Closed, Last
  <2> HIDE DEF a, m
  <2>10. \A d \in a..(a + m - 1) : \E l \in 1..m : h[l] = d
    <3> TAKE d \in a..(a + m - 1)
    <3>1. d - a + 1 \in 1..m /\ d = a + (d - a + 1) - 1
      BY <2>4
    <3>2. h[d - a + 1] = d
      BY <2>5, <3>1
    <3>3. QED
      BY <3>1, <3>2
  <2>11. \A l \in 1..m : h[l] \in a..(a + m - 1)
    BY <2>4, <2>5
  <2>12. ToSet(h) = a..(a + m - 1)
    BY <2>7, <2>10, <2>11
  <2>13. \A d \in a..(a + m - 1) : d \in D /\ v[d] \in Additive
    BY <2>5, <2>10
  <2>14. Stretch(v, a, a + m - 1)
    BY <2>6, <2>8, <2>9, <2>13 DEF Stretch
  <2>15. Head(h) = a /\ a <= a + m - 1
    BY <2>3, <2>4 DEF a
  <2>16. QED
    BY <2>4, <2>6, <2>12, <2>14, <2>15
<1>7. ASSUME NEW d \in D, v[d] \in Additive
      PROVE  \E h \in ToSet(gs) : d \in ToSet(h)
  <2>1. PICK i \in 1..n : seq[i] = d
    BY <1>2
  <2>2. PICK k \in 1..Len(gs) : \E l \in 1..Len(gs[k]) : gs[k][l] = d
    BY <1>1, <1>7, <2>1 DEF GroupsInv
  <2>3. PICK l \in 1..Len(gs[k]) : gs[k][l] = d
    BY <2>2
  <2>4. d \in ToSet(gs[k])
    BY <1>4, <2>3 DEF ToSet
  <2>5. gs[k] \in ToSet(gs)
    BY <1>4 DEF ToSet
  <2>6. QED
    BY <2>4, <2>5
<1>8. QED
  BY <1>6, <1>7 DEF gs, D

\* Two stretches that have a day in common are one.
LEMMA StretchesAreApart ==
  ASSUME NEW v, DOMAIN v \subseteq Nat,
         NEW a \in Nat, NEW b \in Nat, NEW x \in Nat, NEW y \in Nat,
         Stretch(v, a, b), Stretch(v, x, y),
         NEW w, w \in a..b, w \in x..y
  PROVE  a = x /\ b = y
<1>1. ASSUME NEW p \in Nat, NEW q \in Nat, NEW r \in Nat, NEW t \in Nat,
             Stretch(v, p, q), Stretch(v, r, t), w \in p..q, w \in r..t
      PROVE  ~ p < r /\ ~ t < q
  <2>1. ASSUME p < r PROVE FALSE
    <3>1. r - 1 \in p..q
      BY <1>1, <2>1
    <3>2. r - 1 \in DOMAIN v /\ v[r - 1] \in Additive
      BY <1>1, <3>1 DEF Stretch
    <3>3. QED
      BY <1>1, <3>2 DEF Stretch
  <2>2. ASSUME t < q PROVE FALSE
    <3>1. t + 1 \in p..q
      BY <1>1, <2>2
    <3>2. t + 1 \in DOMAIN v /\ v[t + 1] \in Additive
      BY <1>1, <3>1 DEF Stretch
    <3>3. QED
      BY <1>1, <3>2 DEF Stretch
  <2>3. QED
    BY <2>1, <2>2
<1>2. ~ a < x /\ ~ y < b /\ ~ x < a /\ ~ b < y
  BY <1>1
<1>3. QED
  BY <1>2

(***************************************************************************)
(* The loop of plan_ranges, for any verdicts on any days: the ranges it    *)
(* finds are exactly the longest stretches of days that may be loaded      *)
(* among which one is worth it.                                            *)
(***************************************************************************)
THEOREM PlanRangesFindsStretches ==
  ASSUME NEW v, IsFiniteSet(DOMAIN v), DOMAIN v \subseteq Nat
  PROVE  PlanRanges(v) = Stretches(v)
<1> DEFINE gs == Groups(v)
           worth == {h \in ToSet(gs) : \E d \in ToSet(h) : v[d] \in WorthLoading}
<1>1. PlanRanges(v) = {<<Head(g), Last(g)>> : g \in worth}
  BY DEF PlanRanges
<1>2. \A h \in ToSet(gs) : h # <<>> =>
        /\ Head(h) \in DOMAIN v /\ Last(h) \in DOMAIN v /\ Head(h) <= Last(h)
        /\ ToSet(h) = Head(h)..Last(h)
        /\ Stretch(v, Head(h), Last(h))
  BY GroupsAreStretches
<1>3. \A d \in DOMAIN v : v[d] \in Additive => \E h \in ToSet(gs) : d \in ToSet(h)
  BY GroupsAreStretches
<1>4. \A h : ToSet(h) # {} => h # <<>>
  BY DEF ToSet
<1> HIDE DEF gs
<1>5. ASSUME NEW h \in worth
      PROVE  <<Head(h), Last(h)>> \in Stretches(v)
  <2>1. h \in ToSet(gs) /\ h # <<>>
    BY <1>4, <1>5
  <2>2. PICK d \in ToSet(h) : v[d] \in WorthLoading
    BY <1>5
  <2>3. d \in Head(h)..Last(h)
    BY <1>2, <2>1, <2>2
  <2>4. QED
    BY <1>2, <2>1, <2>2, <2>3 DEF Stretches
<1>6. ASSUME NEW r \in Stretches(v)
      PROVE  \E h \in worth : r = <<Head(h), Last(h)>>
  <2>1. /\ r[1] \in DOMAIN v /\ r[2] \in DOMAIN v /\ r = <<r[1], r[2]>>
        /\ Stretch(v, r[1], r[2])
    BY <1>6 DEF Stretches
  <2>2. PICK w \in r[1]..r[2] : v[w] \in WorthLoading
    BY <1>6 DEF Stretches
  <2>3. w \in DOMAIN v /\ v[w] \in Additive
    BY <2>1, <2>2 DEF Stretch
  <2>4. PICK h \in ToSet(gs) : w \in ToSet(h)
    BY <1>3, <2>3
  <2>5. h # <<>>
    BY <1>4, <2>4
  <2>6. /\ Head(h) \in DOMAIN v /\ Last(h) \in DOMAIN v /\ w \in Head(h)..Last(h)
        /\ Stretch(v, Head(h), Last(h))
    BY <1>2, <2>4, <2>5
  <2>7. r[1] = Head(h) /\ r[2] = Last(h)
    BY <2>1, <2>2, <2>6, StretchesAreApart
  <2>8. h \in worth
    BY <2>2, <2>4
  <2>9. QED
    BY <2>1, <2>7, <2>8
<1> HIDE DEF worth
<1>7. QED
  BY <1>1, <1>5, <1>6

USE RepairAssumption

-----------------------------------------------------------------------------
(* Rows.                                                                   *)

LEMMA CellsAreIntegers == Cell \subseteq Int
  BY DEF Cell, NoRow

LEMMA StatsType ==
  ASSUME NEW row \in Row
  PROVE  Stats(row) \in DayStats(Sites)
<1>1. SitesOf(row) \in SUBSET Sites
  BY DEF SitesOf
<1>2. IsFiniteSet(SitesOf(row))
  BY <1>1, FS_Subset
<1>3. Cardinality(SitesOf(row)) \in Nat
  BY <1>2, FS_CardinalityType
<1>4. Total(row) \in Nat
  BY TotalAssumption
<1>5. QED
  BY <1>1, <1>3, <1>4 DEF Stats, DayStats

LEMMA ExtractedType ==
  ASSUME NEW row \in Row
  PROVE  Extracted(row) \in Row
<1>1. \A s \in Sites : (IF Grid /\ row[s] = NoRow THEN 0 ELSE row[s]) \in Cell
  BY DEF Row, Cell
<1>2. QED
  BY <1>1 DEF Extracted, Row

LEMMA PartType ==
  ASSUME NEW row \in Row, NEW S \in SUBSET Sites
  PROVE  Part(row, S) \in Row
<1>1. \A s \in Sites : (IF s \in S THEN row[s] ELSE NoRow) \in Cell
  BY DEF Row, Cell
<1>2. QED
  BY <1>1 DEF Part, Row

LEMMA ReplacedType ==
  ASSUME NEW old \in Row, NEW new \in Row
  PROVE  Replaced(old, new) \in Row
  BY DEF Replaced

-----------------------------------------------------------------------------
(* Verdicts and plans.                                                     *)

LEMMA JudgedType ==
  ASSUME NEW source \in [Days -> DayStats(Sites)], NEW dest \in Table
  PROVE  /\ Judged(source, dest) \in [Days -> Verdict]
         /\ \A d \in Days : Judged(source, dest)[d]
                              = ClassifyDay(source[d], Stats(dest[d]), CompareMeasure)
<1>1. \A d \in Days :
        ClassifyDay(source[d], Stats(dest[d]), CompareMeasure) \in Verdict
  BY DEF ClassifyDay, Verdict, Additive, Risky
<1>2. QED
  BY <1>1 DEF Judged, ClassifyRange

LEMMA StretchesType ==
  ASSUME NEW v \in [Days -> Verdict], NEW r \in Stretches(v)
  PROVE  /\ r \in Days \X Days
         /\ r[1]..r[2] \subseteq Days
         /\ \A d \in r[1]..r[2] : v[d] \in Additive
  BY DEF Stretches, Stretch

\* A day without a sale.
NoSale(row) == \A s \in Sites : ~ row[s] > 0

\* classify_day calls a day additive only if the destination has no sale of it.
LEMMA AdditiveHasNoSale ==
  ASSUME NEW row \in Row, NEW source,
         ClassifyDay(source, Stats(row), CompareMeasure) \in Additive
  PROVE  NoSale(row)
<1>1. Stats(row).rows = 0 \/ Stats(row).measure = 0
  BY DEF ClassifyDay, Additive
<1>2. ASSUME Stats(row).rows = 0
      PROVE  NoSale(row)
  <2>1. Cardinality(SitesOf(row)) = 0
    BY <1>2 DEF Stats
  <2>2. IsFiniteSet(SitesOf(row))
    BY FS_Subset DEF SitesOf
  <2>3. SitesOf(row) = {}
    BY <2>1, <2>2, FS_EmptySet
  <2>4. \A s \in Sites : row[s] = NoRow
    BY <2>3 DEF SitesOf
  <2>5. QED
    BY <2>4 DEF NoSale, NoRow
<1>3. ASSUME Stats(row).measure = 0
      PROVE  NoSale(row)
  <2>1. Total(row) = 0
    BY <1>3 DEF Stats
  <2>2. \A s \in Sites : row[s] <= 0 /\ row[s] \in Int
    BY <2>1, TotalAssumption, CellsAreIntegers DEF Row
  <2>3. QED
    BY <2>2 DEF NoSale
<1>4. QED
  BY <1>1, <1>2, <1>3

-----------------------------------------------------------------------------
(* The invariant.                                                          *)

\* The days that are still to be loaded had no sale when the destination was
\* asked, and outside of a run none is half way.
Harmless ==
  /\ \A r \in plan : /\ r[1]..r[2] \subseteq Days
                     /\ \A d \in r[1]..r[2] : NoSale(base[d])
  /\ \A d \in todo : NoSale(base[d])
  /\ pc # "loading" => todo = {}

\* SalesAreKept, before the question as well as after it.
Kept ==
  \A d \in Days \ others, s \in Sites :
    base[d][s] > 0 => gcp[d][s] = base[d][s]

IInv == TypeOK /\ Harmless /\ Kept

LEMMA TypeInit == Init => TypeOK
<1> SUFFICES ASSUME Init PROVE TypeOK
  OBVIOUS
<1>0. erp \in Table /\ gcp \in Table
  BY ContentsAssumption DEF Init, Table
<1>1. origin \in [Days -> DayStats(Sites)]
  BY <1>0, StatsType DEF Init, Table
<1>2. verdicts \in [Days -> Verdict]
  BY DEF Init, Verdict
<1>3. QED
  BY <1>0, <1>1, <1>2 DEF Init, TypeOK

LEMMA TypeStep == TypeOK /\ Harmless /\ [Next]_vars => TypeOK'
<1> SUFFICES ASSUME TypeOK, Harmless, [Next]_vars PROVE TypeOK'
  OBVIOUS
<1>1. CASE ErpChanges
  <2>1. PICK d \in Days, s \in Sites, c \in Cell : erp' = [erp EXCEPT ![d][s] = c]
    BY <1>1 DEF ErpChanges
  <2>2. erp' \in Table
    BY <2>1 DEF TypeOK, Table, Row
  <2>3. changes' \in 0..MaxChanges
    BY <1>1 DEF ErpChanges, TypeOK
  <2>4. QED
    BY <1>1, <2>2, <2>3 DEF ErpChanges, TypeOK, command
<1>2. CASE OtherLoads
  <2>1. PICK d \in Days \ others :
          /\ gcp' = [gcp EXCEPT ![d] = Replaced(@, Extracted(erp[d]))]
          /\ others' = others \union {d}
    BY <1>2 DEF OtherLoads
  <2>2. Replaced(gcp[d], Extracted(erp[d])) \in Row
    BY ExtractedType, ReplacedType DEF TypeOK, Table
  <2>3. gcp' \in Table
    BY <2>1, <2>2 DEF TypeOK, Table
  <2>4. QED
    BY <1>2, <2>1, <2>3 DEF OtherLoads, TypeOK, command
<1>3. CASE AskSource
  <2>1. origin' \in [Days -> DayStats(Sites)]
    BY <1>3, StatsType DEF AskSource, TypeOK, Table
  <2>2. QED
    BY <1>3, <2>1 DEF AskSource, TypeOK
<1>4. CASE Plan
  <2> DEFINE v == Judged(origin, gcp)
  <2>1. v \in [Days -> Verdict]
    BY JudgedType DEF TypeOK
  <2>2. verdicts' = v /\ plan' = Stretches(v)
    BY <1>4 DEF Plan
  <2> HIDE DEF v
  <2>3. plan' \subseteq Days \X Days
    BY <2>1, <2>2, StretchesType
  <2>4. QED
    BY <1>4, <2>1, <2>2, <2>3 DEF Plan, TypeOK
<1>5. CASE Cancel
  BY <1>5 DEF Cancel, TypeOK, observed
<1>6. CASE StartRange
  <2>1. PICK r \in plan : todo' = r[1]..r[2] /\ plan' = plan \ {r}
    BY <1>6 DEF StartRange
  <2>2. todo' \subseteq Days
    BY <2>1 DEF Harmless
  <2>3. QED
    BY <1>6, <2>1, <2>2 DEF StartRange, TypeOK, observed
<1>7. CASE LoadDay
  <2>1. PICK d \in todo :
          /\ gcp' = [gcp EXCEPT ![d] = Replaced(@, Extracted(erp[d]))]
          /\ todo' = todo \ {d}
    BY <1>7 DEF LoadDay
  <2>2. Replaced(gcp[d], Extracted(erp[d])) \in Row
    BY ExtractedType, ReplacedType DEF TypeOK, Table
  <2>3. gcp' \in Table
    BY <2>1, <2>2 DEF TypeOK, Table
  <2>4. QED
    BY <1>7, <2>1, <2>3 DEF LoadDay, TypeOK, observed
<1>8. CASE EndRange
  BY <1>8 DEF EndRange, TypeOK, observed
<1>9. CASE FailRange
  <2>1. PICK d \in todo, S \in SUBSET Sites :
          gcp' = [gcp EXCEPT ![d] = Replaced(@, Part(Extracted(erp[d]), S))]
    BY <1>9 DEF FailRange
  <2>2. Replaced(gcp[d], Part(Extracted(erp[d]), S)) \in Row
    BY ExtractedType, PartType, ReplacedType DEF TypeOK, Table
  <2>3. gcp' \in Table
    BY <2>1, <2>2 DEF TypeOK, Table
  <2>4. faults' \in 0..MaxFaults
    BY <1>9 DEF FailRange, TypeOK
  <2>5. QED
    BY <1>9, <2>3, <2>4 DEF FailRange, TypeOK, observed
<1>10. CASE Finish
  BY <1>10 DEF Finish, TypeOK, observed
<1>11. CASE UNCHANGED vars
  BY <1>11 DEF vars, command, observed, TypeOK
<1>12. QED
  BY <1>1, <1>2, <1>3, <1>4, <1>5, <1>6, <1>7, <1>8, <1>9, <1>10, <1>11 DEF Next

-----------------------------------------------------------------------------
(* What is planned is harmless.                                            *)

\* Nothing but Plan and StartRange takes up days, and Plan asks first.
LEMMA HarmlessStep == TypeOK /\ Harmless /\ [Next]_vars => Harmless'
<1> SUFFICES ASSUME TypeOK, Harmless, [Next]_vars PROVE Harmless'
  OBVIOUS
<1>1. CASE ErpChanges \/ OtherLoads \/ AskSource
  <2>1. UNCHANGED <<plan, todo, base>> /\ (pc' = pc \/ pc # "loading")
    BY <1>1 DEF ErpChanges, OtherLoads, AskSource, command
  <2>2. QED
    BY <2>1 DEF Harmless
<1>2. CASE Plan
  <2> DEFINE v == Judged(origin, gcp)
  <2>1. /\ v \in [Days -> Verdict]
        /\ \A d \in Days : v[d] = ClassifyDay(origin[d], Stats(gcp[d]), CompareMeasure)
    BY JudgedType DEF TypeOK
  <2>2. /\ plan' = Stretches(v) /\ base' = gcp /\ todo' = todo
        /\ pc = "asked" /\ pc' = "planned"
    BY <1>2 DEF Plan
  <2> HIDE DEF v
  <2>3. ASSUME NEW r \in Stretches(v)
        PROVE  r[1]..r[2] \subseteq Days /\ \A d \in r[1]..r[2] : NoSale(gcp[d])
    <3>1. r[1]..r[2] \subseteq Days /\ \A d \in r[1]..r[2] : v[d] \in Additive
      BY <2>1, StretchesType
    <3>2. ASSUME NEW d \in r[1]..r[2]
          PROVE  NoSale(gcp[d])
      <4>1. d \in Days /\ v[d] \in Additive /\ gcp[d] \in Row
        BY <3>1, <3>2 DEF TypeOK, Table
      <4>2. QED
        BY <2>1, <4>1, AdditiveHasNoSale
    <3>3. QED
      BY <3>1, <3>2
  <2>4. todo = {}
    BY <2>2 DEF Harmless
  <2>5. QED
    BY <2>2, <2>3, <2>4 DEF Harmless
<1>3. CASE StartRange
  <2>1. PICK r \in plan : todo' = r[1]..r[2] /\ plan' = plan \ {r}
    BY <1>3 DEF StartRange
  <2>2. base' = base /\ pc' = "loading"
    BY <1>3 DEF StartRange, observed
  <2>3. QED
    BY <2>1, <2>2 DEF Harmless
<1>4. CASE LoadDay \/ EndRange \/ FailRange
  <2>1. /\ todo' \subseteq todo /\ (pc' # "loading" => todo' = {})
        /\ UNCHANGED <<plan, base>>
    BY <1>4 DEF LoadDay, EndRange, FailRange, observed
  <2>2. QED
    BY <2>1 DEF Harmless
<1>5. CASE Cancel \/ Finish
  <2>1. UNCHANGED <<plan, todo, base>> /\ pc # "loading"
    BY <1>5 DEF Cancel, Finish, observed
  <2>2. QED
    BY <2>1 DEF Harmless
<1>6. CASE UNCHANGED vars
  BY <1>6 DEF vars, command, observed, Harmless
<1>7. QED
  BY <1>1, <1>2, <1>3, <1>4, <1>5, <1>6 DEF Next

-----------------------------------------------------------------------------
(* What is kept.                                                           *)

LEMMA KeptStep == TypeOK /\ Harmless /\ Kept /\ [Next]_vars => Kept'
<1> SUFFICES ASSUME TypeOK, Harmless, Kept, [Next]_vars PROVE Kept'
  OBVIOUS
<1>1. CASE OtherLoads
  <2>1. PICK d \in Days \ others : \E new :
          gcp' = [gcp EXCEPT ![d] = new] /\ others' = others \union {d}
    BY <1>1 DEF OtherLoads
  <2>2. base' = base
    BY <1>1 DEF OtherLoads
  <2>3. QED
    BY <2>1, <2>2 DEF Kept, TypeOK, Table
<1>2. CASE Plan
  BY <1>2 DEF Plan, Kept
<1>3. CASE LoadDay \/ FailRange
  <2>1. PICK d \in todo : \E new : gcp' = [gcp EXCEPT ![d] = new]
    BY <1>3 DEF LoadDay, FailRange
  <2>2. base' = base /\ others' = others
    BY <1>3 DEF LoadDay, FailRange, observed
  <2>3. d \in Days /\ \A s \in Sites : ~ base[d][s] > 0
    BY DEF Harmless, NoSale, TypeOK
  <2>4. QED
    BY <2>1, <2>2, <2>3 DEF Kept, TypeOK, Table
<1>4. CASE ErpChanges \/ AskSource \/ Cancel \/ StartRange \/ EndRange \/ Finish
  <2>1. UNCHANGED <<gcp, base, others>>
    BY <1>4 DEF ErpChanges, AskSource, Cancel, StartRange, EndRange, Finish, observed
  <2>2. QED
    BY <2>1 DEF Kept
<1>5. CASE UNCHANGED vars
  BY <1>5 DEF vars, observed, Kept
<1>6. QED
  BY <1>1, <1>2, <1>3, <1>4, <1>5 DEF Next

\* The invariant holds in every state of every repair.
LEMMA InvariantHolds == Spec => []IInv
<1>1. Init => IInv
  <2>1. Init => TypeOK
    BY TypeInit
  <2>2. Init => Harmless /\ Kept
    BY DEF Init, Harmless, Kept
  <2>3. QED
    BY <2>1, <2>2 DEF IInv
<1>2. IInv /\ [Next]_vars => IInv'
  BY TypeStep, HarmlessStep, KeptStep DEF IInv
<1>3. QED
  BY <1>1, <1>2, PTL DEF Spec

(***************************************************************************)
(* Every state of a repair is of the types of TypeOK.  The days that a     *)
(* range loads are days that were looked at: this needs Harmless, not only *)
(* the types.                                                              *)
(***************************************************************************)
THEOREM TypeCorrect == Spec => []TypeOK
<1>1. IInv => TypeOK
  BY DEF IInv
<1>2. QED
  BY <1>1, InvariantHolds, PTL

(***************************************************************************)
(* reparar --aplicar changes no sale that the destination held when it was *)
(* asked, however many days, sites, ERP changes and failing ranges there   *)
(* are, for a table as for a grid, except on days another run has loaded   *)
(* since.                                                                  *)
(***************************************************************************)
THEOREM RepairsKeepSales == Spec => []SalesAreKept
<1>1. IInv => SalesAreKept
  BY DEF IInv, Kept, SalesAreKept
<1>2. QED
  BY <1>1, InvariantHolds, PTL

-----------------------------------------------------------------------------
(* What is left.                                                           *)

\* A day worth loading lies in a stretch: the groups of the loop are stretches,
\* and have it.
LEMMA WorthIsCovered ==
  ASSUME NEW v \in [Days -> Verdict], NEW w \in Days, v[w] \in WorthLoading
  PROVE  \E r \in Stretches(v) : w \in r[1]..r[2]
<1>1. IsFiniteSet(DOMAIN v) /\ DOMAIN v \subseteq Nat /\ w \in DOMAIN v /\ v[w] \in Additive
  BY DEF WorthLoading, Additive
<1>2. PICK h \in ToSet(Groups(v)) : w \in ToSet(h)
  BY <1>1, GroupsAreStretches
<1>3. h # <<>>
  BY <1>2 DEF ToSet
<1>4. /\ Head(h) \in DOMAIN v /\ Last(h) \in DOMAIN v /\ Head(h) <= Last(h)
      /\ w \in Head(h)..Last(h)
      /\ Stretch(v, Head(h), Last(h))
  BY <1>1, <1>2, <1>3, GroupsAreStretches
<1>5. <<Head(h), Last(h)>> \in Stretches(v)
  BY <1>4 DEF Stretches
<1>6. QED
  BY <1>4, <1>5

\* Neither the ERP nor another run has changed anything, and no range failed.
Quiet == rc = 0 /\ stable /\ others = {}

\* The day holds what the ERP has to give for it now.
Loaded(d) == gcp[d] = Replaced(base[d], Extracted(erp[d]))

\* Until the ERP changes, it says what it said.
Fresh == stable => origin = [d \in Days |-> Stats(erp[d])]

Planned == pc \in {"planned", "applying", "loading", "done"}

\* Where nothing has changed and nothing failed, a day is as it was or loaded,
\* and a day of the plan is still in a range, still to do, or loaded.
Covered ==
  /\ pc = "done" => plan = {}
  /\ Planned => verdicts = Judged(origin, base)
  /\ Planned /\ Quiet =>
       /\ \A d \in Days : gcp[d] = base[d] \/ Loaded(d)
       /\ \A r \in Stretches(verdicts) \ plan :
            \A d \in r[1]..r[2] : d \in todo \/ Loaded(d)

\* To load a day twice is to load it once.
LEMMA LoadedAgain ==
  ASSUME NEW old, NEW new
  PROVE  /\ Replaced(Replaced(old, new), new) = Replaced(old, new)
         /\ Replaced(old, new) = old \/ Replaced(old, new) = new
  BY DEF Replaced

LEMMA FreshStep == TypeOK /\ Fresh /\ [Next]_vars => Fresh'
<1> SUFFICES ASSUME TypeOK, Fresh, [Next]_vars PROVE Fresh'
  OBVIOUS
<1>1. CASE ErpChanges
  BY <1>1 DEF ErpChanges, Fresh
<1>2. CASE AskSource
  BY <1>2 DEF AskSource, Fresh
<1>3. ASSUME UNCHANGED <<erp, origin, stable>>
      PROVE  Fresh'
  BY <1>3 DEF Fresh
<1>4. CASE OtherLoads \/ Plan \/ Cancel \/ StartRange \/ LoadDay \/ EndRange
           \/ FailRange \/ Finish \/ UNCHANGED vars
  BY <1>3, <1>4
     DEF OtherLoads, Plan, Cancel, StartRange, LoadDay, EndRange, FailRange, Finish,
         vars, command, observed
<1>5. QED
  BY <1>1, <1>2, <1>4 DEF Next

LEMMA CoveredStep == TypeOK /\ Harmless /\ Covered /\ [Next]_vars => Covered'
<1> SUFFICES ASSUME TypeOK, Harmless, Covered, [Next]_vars PROVE Covered'
  OBVIOUS
<1>1. CASE ErpChanges
  <2>1. ~Quiet' /\ UNCHANGED <<pipeline, pc, plan, verdicts, origin, base>>
    BY <1>1 DEF ErpChanges, Quiet, command
  <2>2. QED
    BY <2>1 DEF Covered, Planned, Judged, CompareMeasure
<1>2. CASE OtherLoads
  <2>1. ~Quiet' /\ UNCHANGED <<pipeline, pc, plan, verdicts, origin, base>>
    BY <1>2 DEF OtherLoads, Quiet, command
  <2>2. QED
    BY <2>1 DEF Covered, Planned, Judged, CompareMeasure
<1>3. CASE AskSource \/ Cancel
  BY <1>3 DEF AskSource, Cancel, Covered, Planned
<1>4. CASE Plan
  <2>1. /\ pc' = "planned" /\ verdicts' = Judged(origin, gcp) /\ plan' = Stretches(verdicts')
        /\ base' = gcp /\ gcp' = gcp /\ origin' = origin /\ pipeline' = pipeline
    BY <1>4 DEF Plan
  <2>2. Judged(origin, base)' = Judged(origin, gcp)
    BY <2>1 DEF Judged, CompareMeasure
  <2>3. QED
    BY <2>1, <2>2 DEF Covered
<1>5. CASE StartRange
  <2>1. PICK r \in plan : todo' = r[1]..r[2] /\ plan' = plan \ {r}
    BY <1>5 DEF StartRange
  <2>2. /\ pc' = "loading" /\ pc \in {"planned", "applying"} /\ todo = {}
        /\ UNCHANGED <<pipeline, erp, gcp, origin, verdicts, rc, stable, others, base>>
    BY <1>5 DEF StartRange, observed, Harmless
  <2>3. Judged(origin, base)' = Judged(origin, base)
    BY <2>2 DEF Judged, CompareMeasure
  <2>4. \A d \in Days : Loaded(d)' <=> Loaded(d)
    BY <2>2 DEF Loaded, Extracted, Grid
  <2>5. Planned /\ (Quiet' => Quiet)
    BY <2>2 DEF Planned, Quiet
  <2>6. ASSUME Quiet', NEW q \in Stretches(verdicts) \ plan', NEW d \in q[1]..q[2]
        PROVE  d \in todo' \/ Loaded(d)'
    <3>1. CASE q = r
      BY <2>1, <2>6, <3>1
    <3>2. CASE q # r
      <4>1. q \in Stretches(verdicts) \ plan
        BY <2>1, <2>6, <3>2
      <4>2. d \in todo \/ Loaded(d)
        BY <2>5, <2>6, <4>1 DEF Covered
      <4>3. d \in Days
        BY <2>6, StretchesType DEF TypeOK
      <4>4. QED
        BY <2>2, <2>4, <4>2, <4>3
    <3>3. QED
      BY <3>1, <3>2
  <2>7. QED
    BY <2>2, <2>3, <2>4, <2>5, <2>6 DEF Covered
<1>6. CASE LoadDay
  <2>1. PICK e \in todo :
          /\ gcp' = [gcp EXCEPT ![e] = Replaced(@, Extracted(erp[e]))]
          /\ todo' = todo \ {e}
    BY <1>6 DEF LoadDay
  <2>2. /\ pc = "loading" /\ e \in Days
        /\ UNCHANGED <<pipeline, erp, pc, origin, verdicts, plan, rc, stable, others, base>>
    BY <1>6 DEF LoadDay, observed, TypeOK
  <2>3. Judged(origin, base)' = Judged(origin, base)
    BY <2>2 DEF Judged, CompareMeasure
  <2>4. Planned /\ (Quiet' => Quiet)
    BY <2>2 DEF Planned, Quiet
  <2>5. \A d \in Days : Extracted(erp[d])' = Extracted(erp[d])
    BY <2>2 DEF Extracted, Grid
  <2>6. \A d \in Days \ {e} : gcp'[d] = gcp[d]
    BY <2>1, <2>2 DEF TypeOK, Table
  <2>7. \A d \in Days \ {e} : Loaded(d)' <=> Loaded(d)
    BY <2>2, <2>5, <2>6 DEF Loaded
  <2>8. ASSUME Quiet' PROVE Loaded(e)'
    <3>1. gcp[e] = base[e] \/ gcp[e] = Replaced(base[e], Extracted(erp[e]))
      BY <2>2, <2>4, <2>8 DEF Covered, Loaded
    <3>2. gcp'[e] = Replaced(gcp[e], Extracted(erp[e]))
      BY <2>1, <2>2 DEF TypeOK, Table
    <3>3. gcp'[e] = Replaced(base[e], Extracted(erp[e]))
      BY <3>1, <3>2, LoadedAgain
    <3>4. QED
      BY <2>2, <2>5, <3>3 DEF Loaded
  <2>9. ASSUME Quiet', NEW q \in Stretches(verdicts) \ plan, NEW d \in q[1]..q[2]
        PROVE  d \in todo' \/ Loaded(d)'
    <3>1. d \in Days
      BY <2>9, StretchesType DEF TypeOK
    <3>2. d \in todo \/ Loaded(d)
      BY <2>4, <2>9 DEF Covered
    <3>3. QED
      BY <2>1, <2>7, <2>8, <2>9, <3>1, <3>2
  <2>10. ASSUME Quiet', NEW d \in Days
         PROVE  gcp'[d] = base[d] \/ Loaded(d)'
    <3>1. gcp[d] = base[d] \/ Loaded(d)
      BY <2>4, <2>10 DEF Covered
    <3>2. QED
      BY <2>6, <2>7, <2>8, <2>10, <3>1
  <2>11. QED
    BY <2>2, <2>3, <2>4, <2>9, <2>10 DEF Covered
<1>7. CASE FailRange
  <2>1. ~Quiet' /\ UNCHANGED <<pipeline, verdicts, origin, base>>
        /\ pc = "loading" /\ pc' = "applying"
    BY <1>7 DEF FailRange, Quiet, observed
  <2>2. QED
    BY <2>1 DEF Covered, Planned, Judged, CompareMeasure
<1>8. ASSUME UNCHANGED <<pipeline, erp, gcp, origin, verdicts, plan, todo, rc, observed>>,
             Planned' => Planned, pc' = "done" => plan = {}
      PROVE  Covered'
  <2>1. Judged(origin, base)' = Judged(origin, base)
    BY <1>8 DEF Judged, CompareMeasure, observed
  <2>2. \A d : Loaded(d)' <=> Loaded(d)
    BY <1>8 DEF Loaded, Extracted, Grid, observed
  <2>3. Quiet' => Quiet
    BY <1>8 DEF Quiet, observed
  <2>4. gcp' = gcp /\ base' = base
    BY <1>8 DEF observed
  <2>5. QED
    BY <1>8, <2>1, <2>2, <2>3, <2>4 DEF Covered
<1>9. CASE EndRange \/ Finish
  <2>1. /\ UNCHANGED <<pipeline, erp, gcp, origin, verdicts, plan, todo, rc, observed>>
        /\ Planned /\ (pc' = "done" => plan = {})
    BY <1>9 DEF EndRange, Finish, Planned
  <2>2. QED
    BY <1>8, <2>1
<1>10. CASE UNCHANGED vars
  <2>1. /\ UNCHANGED <<pipeline, erp, gcp, origin, verdicts, plan, todo, rc, observed, pc>>
    BY <1>10 DEF vars, command
  <2>2. QED
    BY <1>8, <2>1 DEF Covered, Planned
<1>11. QED
  BY <1>1, <1>2, <1>3, <1>4, <1>5, <1>6, <1>7, <1>9, <1>10 DEF Next

\* A day that was loaded and that the ERP still has as it was is not worth
\* loading again.
LEMMA LoadedIsRight ==
  ASSUME NEW row \in Row, NEW old \in Row
  PROVE  ClassifyDay(Stats(row), Stats(Replaced(old, Extracted(row))), CompareMeasure)
           \notin WorthLoading
<1> DEFINE new == Extracted(row)
           held == Replaced(old, new)
<1>1. \A S \in SUBSET Sites : Cardinality(S) = 0 <=> S = {}
  BY FS_Subset, FS_EmptySet
<1>2. SitesOf(row) \in SUBSET Sites /\ SitesOf(held) \in SUBSET Sites
  BY DEF SitesOf
<1>3. SitesOf(row) \subseteq SitesOf(new)
  BY DEF SitesOf, Extracted
<1>4. SUFFICES ASSUME SitesOf(row) # {} PROVE
        ClassifyDay(Stats(row), Stats(held), CompareMeasure) \notin WorthLoading
  <2>1. ASSUME SitesOf(row) = {}
        PROVE ClassifyDay(Stats(row), Stats(held), CompareMeasure) \notin WorthLoading
    <3>1. Stats(row).rows = 0
      BY <1>1, <1>2, <2>1 DEF Stats
    <3>2. QED
      BY <3>1 DEF ClassifyDay, WorthLoading
  <2>2. QED
    BY <1>4, <2>1
<1>5. held = new /\ SitesOf(held) # {}
  BY <1>3, <1>4 DEF Replaced
<1>6. Stats(held).rows # 0
  BY <1>1, <1>2, <1>5 DEF Stats
<1>7. ASSUME Stats(held).sites \subseteq Stats(row).sites
      PROVE  Stats(held).measure = Stats(row).measure
  <2>1. SitesOf(new) \subseteq SitesOf(row)
    BY <1>5, <1>7 DEF Stats
  <2>2. ASSUME NEW s \in Sites PROVE new[s] = row[s]
    <3>1. new[s] = IF Grid /\ row[s] = NoRow THEN 0 ELSE row[s]
      BY DEF Extracted
    <3>2. CASE row[s] # NoRow
      BY <3>1, <3>2
    <3>3. CASE row[s] = NoRow
      <4>1. s \notin SitesOf(new)
        BY <2>1, <3>3 DEF SitesOf
      <4>2. QED
        BY <3>3, <4>1 DEF SitesOf
    <3>4. QED
      BY <3>2, <3>3
  <2>3. new \in Row
    BY ExtractedType
  <2>4. new = row
    BY <2>2, <2>3 DEF Row
  <2>5. QED
    BY <1>5, <2>4
<1> HIDE DEF new, held
<1>8. QED
  BY <1>6, <1>7 DEF ClassifyDay, WorthLoading

LEMMA LeftHolds == Spec => [](Fresh /\ Covered)
<1>1. Init => Fresh /\ Covered
  BY DEF Init, Fresh, Covered, Planned
<1>2. IInv /\ Fresh /\ Covered /\ [Next]_vars => Fresh' /\ Covered'
  BY FreshStep, CoveredStep DEF IInv
<1>3. QED
  BY <1>1, <1>2, InvariantHolds, PTL DEF Spec

(***************************************************************************)
(* A repair that ends with exit code 0, while neither the ERP nor another  *)
(* run changes anything, leaves no range to load: every day worth loading  *)
(* was in a range of the plan, and what was loaded is judged right.        *)
(***************************************************************************)
THEOREM RepairsAreComplete == Spec => []NothingIsLeft
<1>1. IInv /\ Fresh /\ Covered => NothingIsLeft
  <2> SUFFICES ASSUME TypeOK, Harmless, Fresh, Covered,
                      pc = "done", Quiet,
                      NEW r \in Stretches(Judged([d \in Days |-> Stats(erp[d])], gcp))
               PROVE  FALSE
    BY DEF IInv, NothingIsLeft, Quiet
  <2> DEFINE now == Judged(origin, gcp)
  <2>1. origin = [d \in Days |-> Stats(erp[d])] /\ r \in Stretches(now)
    BY DEF Fresh, Quiet
  <2>2. /\ origin \in [Days -> DayStats(Sites)] /\ verdicts \in [Days -> Verdict]
        /\ \A d \in Days : erp[d] \in Row /\ gcp[d] \in Row /\ base[d] \in Row
        /\ gcp \in Table /\ base \in Table
    BY DEF TypeOK, Table
  <2>3. now \in [Days -> Verdict]
    BY <2>2, JudgedType
  <2>4. PICK w \in Days : now[w] \in WorthLoading
    <3> HIDE DEF now
    <3>1. PICK d \in r[1]..r[2] : now[d] \in WorthLoading
      BY <2>1 DEF Stretches
    <3>2. d \in Days
      BY <2>1, <2>3, <3>1, StretchesType
    <3>3. QED
      BY <3>1, <3>2
  <2>5. now[w] = ClassifyDay(Stats(erp[w]), Stats(gcp[w]), CompareMeasure)
    BY <2>1, <2>2, JudgedType
  <2>6. verdicts[w] = ClassifyDay(Stats(erp[w]), Stats(base[w]), CompareMeasure)
    <3>1. verdicts = Judged(origin, base)
      BY DEF Covered, Planned
    <3>2. QED
      BY <2>1, <2>2, <3>1, JudgedType
  <2>7. ~Loaded(w)
    <3>1. ASSUME Loaded(w) PROVE FALSE
      <4>1. gcp[w] = Replaced(base[w], Extracted(erp[w]))
        BY <3>1 DEF Loaded
      <4>2. now[w] \notin WorthLoading
        BY <2>2, <2>5, <4>1, LoadedIsRight
      <4>3. QED
        BY <2>4, <4>2
    <3>2. QED
      BY <3>1
  <2>8. gcp[w] = base[w]
    BY <2>7 DEF Covered, Planned
  <2>9. verdicts[w] \in WorthLoading
    BY <2>4, <2>5, <2>6, <2>8
  <2>10. PICK q \in Stretches(verdicts) : w \in q[1]..q[2]
    BY <2>2, <2>9, WorthIsCovered
  <2>11. plan = {} /\ todo = {}
    BY DEF Covered, Harmless
  <2>12. Loaded(w)
    BY <2>10, <2>11 DEF Covered, Planned
  <2>13. QED
    BY <2>7, <2>12
<1>2. QED
  BY <1>1, InvariantHolds, LeftHolds, PTL

(***************************************************************************)
(* A repair that ends with exit code 0, while neither the ERP nor another  *)
(* run changes anything, has brought every site of every day that was      *)
(* worth loading: no range that failed half way through a day passes for a *)
(* success.  classify_day would not see such a day, so this is no          *)
(* consequence of RepairsAreComplete.                                      *)
(***************************************************************************)
THEOREM RepairsAreWhole == Spec => []RepairedDaysAreWhole
<1>1. IInv /\ Covered => RepairedDaysAreWhole
  <2> SUFFICES ASSUME TypeOK, Harmless, Covered, pc = "done", Quiet,
                      NEW d \in Days, verdicts[d] \in WorthLoading,
                      NEW s \in SitesOf(erp[d])
               PROVE  gcp[d][s] = erp[d][s]
    BY DEF IInv, RepairedDaysAreWhole, Quiet
  <2>1. PICK q \in Stretches(verdicts) : d \in q[1]..q[2]
    BY WorthIsCovered DEF TypeOK
  <2>2. plan = {} /\ todo = {}
    BY DEF Covered, Harmless
  <2>3. gcp[d] = Replaced(base[d], Extracted(erp[d]))
    BY <2>1, <2>2 DEF Covered, Planned, Loaded
  <2>4. s \in Sites /\ erp[d][s] # NoRow
    BY DEF SitesOf
  <2>5. Extracted(erp[d])[s] = erp[d][s]
    BY <2>4 DEF Extracted
  <2>6. SitesOf(Extracted(erp[d])) # {}
    BY <2>4, <2>5 DEF SitesOf
  <2>7. QED
    BY <2>3, <2>5, <2>6 DEF Replaced
<1>2. QED
  BY <1>1, InvariantHolds, LeftHolds, PTL

-----------------------------------------------------------------------------
(* What is planned.                                                        *)

PlanInv == pc = "planned" => plan = Stretches(verdicts)

(***************************************************************************)
(* In every repair the loop of plan_ranges has found the longest stretches *)
(* of days that may be loaded and contain one worth it: no day that is     *)
(* blocked or already right is in a range, no gap of the calendar either,  *)
(* no day worth loading is left out, and no two ranges touch.              *)
(***************************************************************************)
THEOREM PlansAreExact == Spec => []PlanIsStretches
<1>1. Init => PlanInv
  BY DEF Init, PlanInv
<1>2. PlanInv /\ [Next]_vars => PlanInv'
  <2> SUFFICES ASSUME PlanInv, [Next]_vars PROVE PlanInv'
    OBVIOUS
  <2>1. CASE ErpChanges \/ OtherLoads \/ UNCHANGED vars
    BY <2>1 DEF ErpChanges, OtherLoads, vars, command, PlanInv
  <2>2. CASE Plan
    BY <2>2 DEF Plan, PlanInv
  <2>3. CASE AskSource \/ Cancel \/ StartRange \/ EndRange \/ FailRange \/ Finish
    BY <2>3 DEF AskSource, Cancel, StartRange, EndRange, FailRange, Finish, PlanInv
  <2>4. CASE LoadDay
    BY <2>4 DEF LoadDay, PlanInv
  <2>5. QED
    BY <2>1, <2>2, <2>3, <2>4 DEF Next
<1>3. TypeOK /\ PlanInv => PlanIsStretches
  <2> SUFFICES ASSUME TypeOK, PlanInv, pc = "planned" PROVE PlanRanges(verdicts) = plan
    BY DEF PlanIsStretches
  <2>1. IsFiniteSet(DOMAIN verdicts) /\ DOMAIN verdicts \subseteq Nat
    BY DEF TypeOK
  <2>2. QED
    BY <2>1, PlanRangesFindsStretches DEF PlanInv
<1>4. QED
  BY <1>1, <1>2, <1>3, TypeCorrect, PTL DEF Spec

=============================================================================
