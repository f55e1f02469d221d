--------------------------- MODULE AskRouterProofs --------------------------
(***************************************************************************)
(* Theorems about AskRouter, for every set of turns, every list of rungs   *)
(* and every cap.                                                          *)
(*                                                                         *)
(* Both properties add up what each turn has under way.  The first part    *)
(* shows what the sums need: a sum over a finite set does not depend on    *)
(* the order, and a step of one turn changes one term of it.  Induction    *)
(* over finite sets is the well-foundedness of strict inclusion: a set of  *)
(* counterexamples has a smallest one.                                     *)
(***************************************************************************)
EXTENDS AskRouter, FiniteSetTheorems, TLAPS

-----------------------------------------------------------------------------
(* Sums over finite sets.                                                  *)

\* The element that the fold of a set takes first.
Pick(s) == CHOOSE x \in s : TRUE

\* g holds the fold of every subset of S.
Folds(g, f, S) ==
  g = [s \in SUBSET S |-> IF s = {} THEN 0 ELSE f[Pick(s)] + g[s \ {Pick(s)}]]

LEMMA PickIn == \A s : s # {} => Pick(s) \in s
  BY DEF Pick

\* A set of subsets of a finite set has a smallest one.
LEMMA Minimal ==
  ASSUME NEW S, IsFiniteSet(S), NEW B \in SUBSET SUBSET S, B # {}
  PROVE  \E T \in B : \A U \in B : U \subseteq T => U = T
<1>1. IsWellFoundedOn(StrictSubsetOrdering(S), FiniteSubsetsOf(S))
  BY FS_StrictSubsetOrderingWellFounded
<1>2. B \subseteq FiniteSubsetsOf(S)
  BY FS_Subset DEF FiniteSubsetsOf
<1>3. PICK T \in B : \A U \in B : ~ (<<U, T>> \in StrictSubsetOrdering(S))
  BY <1>1, <1>2, WFMin
<1>4. QED
  BY <1>3 DEF StrictSubsetOrdering

\* Two folds agree where both are defined.
LEMMA FoldsUnique ==
  ASSUME NEW S, IsFiniteSet(S), NEW f, NEW T \in SUBSET S, NEW U \in SUBSET S,
         NEW g, NEW h, Folds(g, f, T), Folds(h, f, U)
  PROVE  \A s \in SUBSET (T \cap U) : g[s] = h[s]
<1> SUFFICES ASSUME NEW s0 \in SUBSET (T \cap U), g[s0] # h[s0] PROVE FALSE
  OBVIOUS
<1> DEFINE B == {s \in SUBSET (T \cap U) : g[s] # h[s]}
<1>1. B \in SUBSET SUBSET S /\ B # {}
  OBVIOUS
<1>2. PICK s \in B : \A r \in B : r \subseteq s => r = s
  <2> HIDE DEF B
  <2>1. QED
    BY <1>1, Minimal
<1>3. /\ g[s] = IF s = {} THEN 0 ELSE f[Pick(s)] + g[s \ {Pick(s)}]
      /\ h[s] = IF s = {} THEN 0 ELSE f[Pick(s)] + h[s \ {Pick(s)}]
  BY DEF Folds
<1>4. s # {}
  BY <1>3
<1>5. Pick(s) \in s
  BY <1>4, PickIn
<1>6. g[s \ {Pick(s)}] = h[s \ {Pick(s)}]
  BY <1>2, <1>5
<1>7. QED
  BY <1>3, <1>6

\* Every finite set can be folded: the fold of the definition is one.
LEMMA FoldsExists ==
  ASSUME NEW S, IsFiniteSet(S), NEW f
  PROVE  \E g : Folds(g, f, S)
<1> SUFFICES ASSUME ~ \E g : Folds(g, f, S) PROVE FALSE
  OBVIOUS
<1> DEFINE B == {s \in SUBSET S : ~ \E g : Folds(g, f, s)}
<1>1. B \in SUBSET SUBSET S /\ B # {}
  OBVIOUS
<1>2. PICK T \in B : \A r \in B : r \subseteq T => r = T
  <2> HIDE DEF B
  <2>1. QED
    BY <1>1, Minimal
<1> DEFINE Fold(s) == CHOOSE g : Folds(g, f, s)
           val(s) == Fold(s)[s]
           G == [s \in SUBSET T |-> IF s = {} THEN 0 ELSE f[Pick(s)] + val(s \ {Pick(s)})]
<1>3. \A s \in SUBSET T : s # T => Folds(Fold(s), f, s)
  BY <1>2
<1>4. ASSUME NEW s \in SUBSET T, s # T
      PROVE  G[s] = val(s)
  <2>1. Folds(Fold(s), f, s)
    BY <1>3, <1>4
  <2>2. val(s) = IF s = {} THEN 0 ELSE f[Pick(s)] + Fold(s)[s \ {Pick(s)}]
    BY <2>1 DEF Folds
  <2>3. ASSUME s # {} PROVE Fold(s)[s \ {Pick(s)}] = val(s \ {Pick(s)})
    <3>1. Pick(s) \in s
      BY <2>3, PickIn
    <3>2. Folds(Fold(s \ {Pick(s)}), f, s \ {Pick(s)})
      BY <1>3, <3>1
    <3> DEFINE r == s \ {Pick(s)}
    <3> HIDE DEF Fold
    <3>3. /\ s \in SUBSET S /\ r \in SUBSET S /\ r \in SUBSET (s \cap r)
          /\ Folds(Fold(s), f, s) /\ Folds(Fold(r), f, r)
      BY <2>1, <3>2
    <3> HIDE DEF r
    <3>4. \A t \in SUBSET (s \cap r) : Fold(s)[t] = Fold(r)[t]
      BY <3>3, FoldsUnique
    <3>5. QED
      BY <3>3, <3>4 DEF r
  <2>4. QED
    BY <2>2, <2>3
<1>5. G = [s \in SUBSET T |-> IF s = {} THEN 0 ELSE f[Pick(s)] + G[s \ {Pick(s)}]]
  <2>1. ASSUME NEW s \in SUBSET T, s # {}
        PROVE  val(s \ {Pick(s)}) = G[s \ {Pick(s)}]
    <3>1. Pick(s) \in s
      BY <2>1, PickIn
    <3> HIDE DEF G, val
    <3>2. QED
      BY <1>4, <3>1
  <2> HIDE DEF val
  <2>2. \A s \in SUBSET T : (IF s = {} THEN 0 ELSE f[Pick(s)] + val(s \ {Pick(s)}))
                            = (IF s = {} THEN 0 ELSE f[Pick(s)] + G[s \ {Pick(s)}])
    <3> HIDE DEF G
    <3>1. QED
      BY <2>1
  <2>3. G = [s \in SUBSET T |-> IF s = {} THEN 0 ELSE f[Pick(s)] + val(s \ {Pick(s)})]
    OBVIOUS
  <2> HIDE DEF G
  <2>4. QED
    BY <2>2, <2>3
<1>6. Folds(G, f, T)
  BY <1>5 DEF Folds
<1>7. QED
  BY <1>2, <1>6

\* The fold that SumFunctionOnSet chooses.
Fold(f, S) == CHOOSE g : Folds(g, f, S)

LEMMA SumIsFold ==
  ASSUME NEW f, NEW S
  PROVE  SumFunctionOnSet(f, S) = Fold(f, S)[S]
  BY DEF SumFunctionOnSet, FoldFunctionOnSet, MapThenFoldSet, Fold, Folds, Pick

LEMMA FoldFolds ==
  ASSUME NEW f, NEW S, IsFiniteSet(S)
  PROVE  Folds(Fold(f, S), f, S)
  BY FoldsExists DEF Fold

LEMMA SumEmpty == ASSUME NEW f PROVE SumFunctionOnSet(f, {}) = 0
<1>1. Folds(Fold(f, {}), f, {})
  BY FoldFolds, FS_EmptySet
<1>2. QED
  BY <1>1, SumIsFold DEF Folds

LEMMA SumPick ==
  ASSUME NEW f, NEW S, IsFiniteSet(S), S # {}
  PROVE  SumFunctionOnSet(f, S) = f[Pick(S)] + SumFunctionOnSet(f, S \ {Pick(S)})
<1> DEFINE T == S \ {Pick(S)}
<1>1. Folds(Fold(f, S), f, S)
  BY FoldFolds
<1>2. Fold(f, S)[S] = f[Pick(S)] + Fold(f, S)[T]
  BY <1>1 DEF Folds
<1>3. IsFiniteSet(T) /\ T \in SUBSET S
  BY FS_RemoveElement
<1> HIDE DEF T
<1>4. Folds(Fold(f, T), f, T)
  BY <1>3, FoldFolds
<1>5. Fold(f, S)[T] = Fold(f, T)[T]
  BY <1>1, <1>3, <1>4, FoldsUnique
<1>6. QED
  BY <1>2, <1>5, SumIsFold DEF T

\* A sum of natural numbers is one.
LEMMA SumType ==
  ASSUME NEW S, IsFiniteSet(S), NEW f \in [S -> Nat]
  PROVE  \A T \in SUBSET S : SumFunctionOnSet(f, T) \in Nat
<1> DEFINE B == {s \in SUBSET S : SumFunctionOnSet(f, s) \notin Nat}
<1> SUFFICES ASSUME B # {} PROVE FALSE
  OBVIOUS
<1>1. PICK T \in B : \A r \in B : r \subseteq T => r = T
  <2>1. B \in SUBSET SUBSET S
    OBVIOUS
  <2> HIDE DEF B
  <2>2. QED
    BY <2>1, Minimal
<1>2. T \in SUBSET S /\ IsFiniteSet(T) /\ SumFunctionOnSet(f, T) \notin Nat
  BY <1>1, FS_Subset
<1>3. T # {}
  <2>1. SumFunctionOnSet(f, {}) \in Nat
    BY SumEmpty
  <2>2. QED
    BY <1>2, <2>1
<1>4. Pick(T) \in T /\ f[Pick(T)] \in Nat
  BY <1>2, <1>3, PickIn
<1>5. SumFunctionOnSet(f, T \ {Pick(T)}) \in Nat
  BY <1>1, <1>2, <1>4
<1>6. QED
  BY <1>2, <1>3, <1>4, <1>5, SumPick

\* Any element of a set may be taken first.
LEMMA SumAny ==
  ASSUME NEW S, IsFiniteSet(S), NEW f \in [S -> Nat]
  PROVE  \A T \in SUBSET S : \A x \in T :
           SumFunctionOnSet(f, T) = f[x] + SumFunctionOnSet(f, T \ {x})
<1> DEFINE B == {s \in SUBSET S : \E x \in s :
                   SumFunctionOnSet(f, s) # f[x] + SumFunctionOnSet(f, s \ {x})}
<1> SUFFICES ASSUME B # {} PROVE FALSE
  OBVIOUS
<1>1. PICK T \in B : \A r \in B : r \subseteq T => r = T
  <2>1. B \in SUBSET SUBSET S
    OBVIOUS
  <2> HIDE DEF B
  <2>2. QED
    BY <2>1, Minimal
<1>2. PICK x \in T : SumFunctionOnSet(f, T) # f[x] + SumFunctionOnSet(f, T \ {x})
  OBVIOUS
<1> DEFINE c == Pick(T)
<1>3. c \in T /\ T \in SUBSET S /\ IsFiniteSet(T)
  BY <1>2, PickIn, FS_Subset
<1>4. SumFunctionOnSet(f, T) = f[c] + SumFunctionOnSet(f, T \ {c})
  BY <1>3, SumPick
<1> HIDE DEF c
<1>5. x # c
  BY <1>2, <1>4
<1>6. \A r \in SUBSET T : r # T => \A y \in r :
        SumFunctionOnSet(f, r) = f[y] + SumFunctionOnSet(f, r \ {y})
  BY <1>1
<1>7. SumFunctionOnSet(f, T \ {c}) = f[x] + SumFunctionOnSet(f, (T \ {c}) \ {x})
  BY <1>2, <1>3, <1>5, <1>6
<1>8. SumFunctionOnSet(f, T \ {x}) = f[c] + SumFunctionOnSet(f, (T \ {x}) \ {c})
  BY <1>2, <1>3, <1>5, <1>6
<1>9. (T \ {c}) \ {x} = (T \ {x}) \ {c}
  OBVIOUS
<1>10. /\ f[x] \in Nat /\ f[c] \in Nat
       /\ SumFunctionOnSet(f, (T \ {x}) \ {c}) \in Nat
  BY <1>2, <1>3, SumType
<1> DEFINE rest == SumFunctionOnSet(f, (T \ {x}) \ {c})
<1>11. /\ rest \in Nat
       /\ SumFunctionOnSet(f, T) = f[c] + (f[x] + rest)
       /\ SumFunctionOnSet(f, T \ {x}) = f[c] + rest
  BY <1>4, <1>7, <1>8, <1>9, <1>10
<1> HIDE DEF rest
<1>12. SumFunctionOnSet(f, T) = f[x] + SumFunctionOnSet(f, T \ {x})
  BY <1>10, <1>11
<1>13. QED
  BY <1>2, <1>12

\* A sum depends on its terms only.
LEMMA SumSame ==
  ASSUME NEW S, IsFiniteSet(S), NEW f, NEW g, \A x \in S : f[x] = g[x]
  PROVE  \A T \in SUBSET S : SumFunctionOnSet(f, T) = SumFunctionOnSet(g, T)
<1> DEFINE B == {s \in SUBSET S : SumFunctionOnSet(f, s) # SumFunctionOnSet(g, s)}
<1> SUFFICES ASSUME B # {} PROVE FALSE
  OBVIOUS
<1>1. PICK T \in B : \A r \in B : r \subseteq T => r = T
  <2>1. B \in SUBSET SUBSET S
    OBVIOUS
  <2> HIDE DEF B
  <2>2. QED
    BY <2>1, Minimal
<1>2. T \in SUBSET S /\ IsFiniteSet(T)
  BY FS_Subset
<1>3. T # {}
  BY <1>1, SumEmpty
<1>4. Pick(T) \in T
  BY <1>3, PickIn
<1>5. SumFunctionOnSet(f, T \ {Pick(T)}) = SumFunctionOnSet(g, T \ {Pick(T)})
  BY <1>1, <1>2, <1>4
<1>6. QED
  BY <1>1, <1>2, <1>3, <1>4, <1>5, SumPick

\* No sum is greater than that of as many bounds.
LEMMA SumBound ==
  ASSUME NEW S, IsFiniteSet(S), NEW f \in [S -> Nat],
         NEW bound \in Nat, \A x \in S : f[x] <= bound
  PROVE  \A T \in SUBSET S : SumFunctionOnSet(f, T) <= Cardinality(T) * bound
<1> DEFINE B == {s \in SUBSET S : ~ SumFunctionOnSet(f, s) <= Cardinality(s) * bound}
<1> SUFFICES ASSUME B # {} PROVE FALSE
  OBVIOUS
<1>1. PICK T \in B : \A r \in B : r \subseteq T => r = T
  <2>1. B \in SUBSET SUBSET S
    OBVIOUS
  <2> HIDE DEF B
  <2>2. QED
    BY <2>1, Minimal
<1>2. T \in SUBSET S /\ IsFiniteSet(T)
  BY FS_Subset
<1>3. T # {}
  <2>1. SumFunctionOnSet(f, {}) = 0 /\ Cardinality({}) = 0
    BY SumEmpty, FS_EmptySet
  <2>2. 0 <= 0 * bound
    OBVIOUS
  <2>3. QED
    BY <1>1, <2>1, <2>2
<1>4. Pick(T) \in T
  BY <1>3, PickIn
<1> DEFINE U == T \ {Pick(T)}
<1>5. SumFunctionOnSet(f, U) <= Cardinality(U) * bound
  BY <1>1, <1>2, <1>4
<1>6. /\ IsFiniteSet(U) /\ Cardinality(U) \in Nat
      /\ Cardinality(T) = Cardinality(U) + 1
  <2>1. IsFiniteSet(U) /\ Cardinality(U) = Cardinality(T) - 1
    BY <1>2, <1>4, FS_RemoveElement
  <2>2. Cardinality(T) \in Nat /\ Cardinality(U) \in Nat
    BY <1>2, <2>1, FS_CardinalityType
  <2>3. QED
    BY <2>1, <2>2
<1>7. SumFunctionOnSet(f, T) = f[Pick(T)] + SumFunctionOnSet(f, U)
  BY <1>2, <1>3, SumPick
<1>8. f[Pick(T)] \in Nat /\ f[Pick(T)] <= bound /\ SumFunctionOnSet(f, U) \in Nat
  BY <1>2, <1>4, SumType
<1>9. ~ SumFunctionOnSet(f, T) <= Cardinality(T) * bound
  BY <1>1
<1> HIDE DEF U
<1>10. (Cardinality(U) + 1) * bound = Cardinality(U) * bound + bound
  BY <1>6
<1>11. Cardinality(U) * bound \in Nat
  BY <1>6
<1>12. QED
  BY <1>5, <1>6, <1>7, <1>8, <1>9, <1>10, <1>11

\* A step of one turn changes its term of the sum and no other.
LEMMA SumStep ==
  ASSUME NEW S, IsFiniteSet(S), NEW f \in [S -> Nat], NEW g \in [S -> Nat],
         NEW x \in S, \A y \in S : y # x => f[y] = g[y]
  PROVE  /\ SumFunctionOnSet(g, S) + f[x] = SumFunctionOnSet(f, S) + g[x]
         /\ SumFunctionOnSet(g, S) \in Nat /\ SumFunctionOnSet(f, S) \in Nat
         /\ SumFunctionOnSet(f, S \ {x}) \in Nat
         /\ SumFunctionOnSet(g, S) = g[x] + SumFunctionOnSet(f, S \ {x})
<1>1. SumFunctionOnSet(f, S) = f[x] + SumFunctionOnSet(f, S \ {x})
  BY SumAny
<1>2. SumFunctionOnSet(g, S) = g[x] + SumFunctionOnSet(g, S \ {x})
  BY SumAny
<1>3. SumFunctionOnSet(f, S \ {x}) = SumFunctionOnSet(g, S \ {x})
  <2> DEFINE T == S \ {x}
  <2>1. IsFiniteSet(T) /\ \A y \in T : f[y] = g[y]
    BY FS_RemoveElement
  <2> HIDE DEF T
  <2>2. SumFunctionOnSet(f, T) = SumFunctionOnSet(g, T)
    BY <2>1, SumSame
  <2>3. QED
    BY <2>2 DEF T
<1>4. /\ SumFunctionOnSet(f, S \ {x}) \in Nat /\ f[x] \in Nat /\ g[x] \in Nat
      /\ SumFunctionOnSet(g, S) \in Nat /\ SumFunctionOnSet(f, S) \in Nat
  BY SumType
<1>5. QED
  BY <1>1, <1>2, <1>3, <1>4

-----------------------------------------------------------------------------
(* The turns.                                                              *)

\* A turn calls a rung of the list, and has a bill between its call and its
\* charge only: one that the worst case of its rung covers.
TurnsInv ==
  \A t \in Turns :
    /\ pc[t] \in {"calling", "charging"} => rung[t] \in DOMAIN Rungs
    /\ pc[t] # "charging" => reply[t] = NoReply
    /\ pc[t] = "charging" => reply[t].bill <= Rungs[rung[t]].max

IInv == TypeOK /\ TurnsInv /\ OverspendBounded /\ NothingForgotten

Step(t) == Route(t) \/ Proceed(t) \/ Crash(t)

LEMMA RungType ==
  /\ DOMAIN Rungs = 1 .. Len(Rungs) /\ Len(Rungs) \in Nat
  /\ \A i \in DOMAIN Rungs : Rungs[i].max \in Nat /\ Rungs[i].free \in BOOLEAN
<1>1. Rungs \in Seq(Rung)
  BY RouterAssumption DEF RouterAssumption
<1>2. \A i \in DOMAIN Rungs : Rungs[i] \in Rung
  BY <1>1
<1>3. QED
  BY <1>1, <1>2 DEF Rung

\* Every rung is as dear as the dearest, at most.
LEMMA DearestType ==
  Dearest \in Nat /\ \A i \in DOMAIN Rungs : Rungs[i].max <= Dearest
<1> DEFINE Costs(s) == {0} \cup {Rungs[i].max : i \in s}
           B == {s \in SUBSET (DOMAIN Rungs) :
                   ~ \E m \in Costs(s) : \A n \in Costs(s) : m >= n}
<1>1. IsFiniteSet(DOMAIN Rungs)
  <2> HIDE DEF B, Costs
  <2>1. DOMAIN Rungs = 1 .. Len(Rungs) /\ Len(Rungs) \in Int /\ 1 \in Int
    BY RungType
  <2>2. IsFiniteSet(1 .. Len(Rungs))
    BY <2>1, FS_Interval
  <2>3. QED
    BY <2>1, <2>2
<1>2. B = {}
  <2> SUFFICES ASSUME B # {} PROVE FALSE
    OBVIOUS
  <2>1. PICK s \in B : \A r \in B : r \subseteq s => r = s
    <3>1. B \in SUBSET SUBSET (DOMAIN Rungs)
      OBVIOUS
    <3> HIDE DEF B
    <3>2. QED
      BY <1>1, <3>1, Minimal
  <2>2. s # {}
    <3>1. Costs({}) = {0} /\ 0 >= 0
      OBVIOUS
    <3>2. QED
      BY <2>1, <3>1
  <2>3. PICK i \in s : TRUE
    BY <2>2
  <2>4. PICK m \in Costs(s \ {i}) : \A n \in Costs(s \ {i}) : m >= n
    <3>1. s \ {i} \subseteq s /\ s \ {i} # s /\ s \ {i} \in SUBSET (DOMAIN Rungs)
      BY <2>1, <2>3
    <3>2. s \ {i} \notin B
      BY <2>1, <3>1
    <3> HIDE DEF Costs
    <3>3. QED
      BY <3>1, <3>2
  <2>5. Costs(s) = Costs(s \ {i}) \cup {Rungs[i].max}
    BY <2>3
  <2>6. Costs(s) \subseteq Nat
    BY RungType
  <2>7. \E k \in Costs(s) : \A n \in Costs(s) : k >= n
    <3> HIDE DEF Costs
    <3>1. CASE m >= Rungs[i].max
      BY <2>4, <2>5, <3>1
    <3>2. CASE ~ m >= Rungs[i].max
      <4>1. m \in Nat /\ Rungs[i].max \in Nat
        BY <2>4, <2>5, <2>6
      <4>2. \A n \in Costs(s \ {i}) : n \in Nat /\ Rungs[i].max >= n
        BY <2>4, <2>5, <2>6, <3>2, <4>1
      <4>3. Rungs[i].max >= Rungs[i].max
        BY <4>1
      <4>4. QED
        BY <2>5, <4>2, <4>3
    <3>3. QED
      BY <3>1, <3>2
  <2>8. QED
    BY <2>1, <2>7
<1>3. \E m \in Costs(DOMAIN Rungs) : \A n \in Costs(DOMAIN Rungs) : m >= n
  BY <1>2
<1>4. Costs(DOMAIN Rungs) \subseteq Nat
  BY RungType
<1>5. /\ Dearest \in Costs(DOMAIN Rungs)
      /\ \A n \in Costs(DOMAIN Rungs) : Dearest >= n
  BY <1>3 DEF Dearest, Max
<1>6. QED
  BY <1>4, <1>5

\* What a turn does leaves the others where they are.
LEMMA OthersStand ==
  ASSUME TypeOK, NEW t \in Turns, Step(t), NEW u \in Turns, u # t
  PROVE  pc'[u] = pc[u] /\ rung'[u] = rung[u] /\ reply'[u] = reply[u]
<1> USE DEF TypeOK
<1>1. CASE Route(t)
  BY <1>1 DEF Route, Return, Refuse, Goto
<1>2. CASE SkipRung(t)
  BY <1>2 DEF SkipRung, NextRung, Goto
<1>3. CASE Call(t)
  BY <1>3 DEF Call, Goto
<1>4. CASE Exhausted(t)
  BY <1>4 DEF Exhausted, Refuse, Return, Goto
<1>5. CASE Classified(t)
  BY <1>5 DEF Classified, Goto
<1>6. CASE Charge(t)
  BY <1>6 DEF Charge, Settle, Return, Raise, NextRung, Goto
<1>7. CASE ChargeFails(t)
  BY <1>7 DEF ChargeFails, Raise, Return, Goto
<1>8. CASE Crash(t)
  BY <1>8 DEF Crash, Return, Goto
<1>9. QED
  BY <1>1, <1>2, <1>3, <1>4, <1>5, <1>6, <1>7, <1>8 DEF Step, Proceed

\* The turn that a decision ends is idle at the first rung, without a bill.
LEMMA Returned ==
  ASSUME TypeOK, TurnsInv, NEW t \in Turns,
         NEW d \in [kind : Decisions, rung : 0 .. Len(Rungs), degraded : BOOLEAN],
         Return(t, d)
  PROVE  /\ pc' \in [Turns -> {"idle", "looking", "calling", "charging"}]
         /\ rung' \in [Turns -> 1 .. Len(Rungs) + 1]
         /\ blocked' \in [Turns -> BOOLEAN]
         /\ reply' \in [Turns -> [answer : Answers \cup {"none"}, bill : Nat]]
         /\ decision' \in [Turns -> [kind : Decisions, rung : 0 .. Len(Rungs),
                                     degraded : BOOLEAN]]
         /\ TurnsInv'
         /\ pc'[t] = "idle" /\ reply'[t] = NoReply
<1> USE DEF TypeOK
<1>1. 1 \in 1 .. Len(Rungs) + 1
  BY RungType
<1>2. NoReply \in [answer : Answers \cup {"none"}, bill : Nat]
  BY DEF NoReply
<1>3. /\ pc' = [pc EXCEPT ![t] = "idle"] /\ reply' = [reply EXCEPT ![t] = NoReply]
      /\ rung' = [rung EXCEPT ![t] = 1] /\ blocked' = [blocked EXCEPT ![t] = FALSE]
      /\ decision' = [decision EXCEPT ![t] = d]
  BY DEF Return, Goto
<1>4. TurnsInv'
  <2> SUFFICES ASSUME NEW u \in Turns
               PROVE  /\ pc'[u] \in {"calling", "charging"} => rung'[u] \in DOMAIN Rungs
                      /\ pc'[u] # "charging" => reply'[u] = NoReply
                      /\ pc'[u] = "charging" => reply'[u].bill <= Rungs[rung'[u]].max
    BY DEF TurnsInv
  <2>1. CASE u = t
    BY <1>3, <2>1
  <2>2. CASE u # t
    BY <1>3, <2>2 DEF TurnsInv
  <2>3. QED
    BY <2>1, <2>2
<1>5. QED
  BY <1>1, <1>2, <1>3, <1>4

LEMMA DecisionType ==
  \A kind \in Decisions : [NoDecision EXCEPT !.kind = kind]
    \in [kind : Decisions, rung : 0 .. Len(Rungs), degraded : BOOLEAN]
<1>1. 0 \in 0 .. Len(Rungs)
  BY RungType
<1>2. QED
  BY <1>1 DEF NoDecision

\* The turn that goes on to the next rung looks at it, without a bill.
LEMMA WentOn ==
  ASSUME TypeOK, TurnsInv, NEW t \in Turns, rung[t] \in DOMAIN Rungs, NextRung(t)
  PROVE  /\ pc' \in [Turns -> {"idle", "looking", "calling", "charging"}]
         /\ rung' \in [Turns -> 1 .. Len(Rungs) + 1]
         /\ reply' \in [Turns -> [answer : Answers \cup {"none"}, bill : Nat]]
         /\ TurnsInv'
         /\ pc'[t] = "looking" /\ reply'[t] = NoReply
<1> USE DEF TypeOK
<1>1. rung[t] + 1 \in 1 .. Len(Rungs) + 1
  BY RungType
<1>2. NoReply \in [answer : Answers \cup {"none"}, bill : Nat]
  BY DEF NoReply
<1>3. /\ pc' = [pc EXCEPT ![t] = "looking"] /\ reply' = [reply EXCEPT ![t] = NoReply]
      /\ rung' = [rung EXCEPT ![t] = rung[t] + 1]
  BY DEF NextRung, Goto
<1>4. TurnsInv'
  <2> SUFFICES ASSUME NEW u \in Turns
               PROVE  /\ pc'[u] \in {"calling", "charging"} => rung'[u] \in DOMAIN Rungs
                      /\ pc'[u] # "charging" => reply'[u] = NoReply
                      /\ pc'[u] = "charging" => reply'[u].bill <= Rungs[rung'[u]].max
    BY DEF TurnsInv
  <2>1. CASE u = t
    BY <1>3, <2>1
  <2>2. CASE u # t
    BY <1>3, <2>2 DEF TurnsInv
  <2>3. QED
    BY <2>1, <2>2
<1>5. QED
  BY <1>1, <1>2, <1>3, <1>4

\* What a call is charged is within its worst case, and covers its bill.
LEMMA CostCovers ==
  ASSUME TypeOK, TurnsInv, NEW t \in Turns, pc[t] = "charging"
  PROVE  /\ rung[t] \in DOMAIN Rungs /\ reply[t].bill \in Nat /\ Cost(t) \in Nat
         /\ reply[t].bill <= Cost(t) /\ Cost(t) <= Rungs[rung[t]].max
<1>1. /\ rung[t] \in DOMAIN Rungs /\ reply[t].bill \in Nat
      /\ reply[t].bill <= Rungs[rung[t]].max
  BY DEF TypeOK, TurnsInv
<1>2. Rungs[rung[t]].max \in Nat
  BY <1>1, RungType
<1>3. QED
  BY <1>1, <1>2 DEF Cost

-----------------------------------------------------------------------------
(* The steps.                                                              *)

LEMMA InitOK == Init => TypeOK /\ TurnsInv
<1> SUFFICES ASSUME Init PROVE TypeOK /\ TurnsInv
  OBVIOUS
<1>1. TypeOK
  BY RungType DEF Init, TypeOK, NoReply, NoDecision, Decisions
<1>2. TurnsInv
  BY DEF Init, TurnsInv
<1>3. QED
  BY <1>1, <1>2

LEMMA StepKeepsTurns ==
  ASSUME TypeOK, TurnsInv, NEW t \in Turns, Step(t)
  PROVE  TypeOK' /\ TurnsInv'
<1> USE DEF TypeOK
<1> DEFINE Frame == UNCHANGED <<ledger, billed, lost>>
<1>1. CASE Route(t)
  <2>1. CASE Return(t, [NoDecision EXCEPT !.kind = "routed"]) \/ Refuse(t)
    BY <1>1, <2>1, Returned, DecisionType DEF Route, Refuse, Decisions
  <2>2. CASE /\ Goto(t, "looking")
             /\ decision' = [decision EXCEPT ![t] = NoDecision]
             /\ UNCHANGED <<rung, blocked, reply>>
    <3>1. NoDecision \in [kind : Decisions, rung : 0 .. Len(Rungs), degraded : BOOLEAN]
      BY RungType DEF NoDecision, Decisions
    <3>2. TypeOK'
      BY <1>1, <2>2, <3>1 DEF Route, Goto
    <3>3. TurnsInv'
      BY <1>1, <2>2 DEF Route, Goto, TurnsInv
    <3>4. QED
      BY <3>2, <3>3
  <2>3. QED
    BY <1>1, <2>1, <2>2 DEF Route
<1>2. CASE SkipRung(t)
  <2>1. NextRung(t) /\ rung[t] \in DOMAIN Rungs
    BY <1>2 DEF SkipRung
  <2>2. QED
    BY <1>2, <2>1, WentOn DEF SkipRung
<1>3. CASE Call(t)
  <2>1. TypeOK'
    BY <1>3 DEF Call, Goto
  <2>2. TurnsInv'
    BY <1>3 DEF Call, Goto, TurnsInv
  <2>3. QED
    BY <2>1, <2>2
<1>4. CASE Exhausted(t)
  BY <1>4, Returned, DecisionType DEF Exhausted, Refuse, Decisions
<1>5. CASE Classified(t)
  <2>1. PICK answer \in Answers, bill \in 0 .. Rungs[rung[t]].max :
          /\ reply' = [reply EXCEPT ![t] = [answer |-> answer, bill |-> bill]]
          /\ billed' = billed + bill
    BY <1>5 DEF Classified
  <2>2. rung[t] \in DOMAIN Rungs /\ Rungs[rung[t]].max \in Nat
    BY <1>5, RungType DEF Classified, TurnsInv
  <2>3. bill \in Nat /\ bill <= Rungs[rung[t]].max
    BY <2>2
  <2>4. [answer |-> answer, bill |-> bill] \in [answer : Answers \cup {"none"}, bill : Nat]
    BY <2>3
  <2>5. TypeOK'
    BY <1>5, <2>1, <2>3, <2>4 DEF Classified, Goto
  <2>6. TurnsInv'
    BY <1>5, <2>1, <2>2, <2>3 DEF Classified, Goto, TurnsInv
  <2>7. QED
    BY <2>5, <2>6
<1>6. CASE Charge(t)
  <2>1. pc[t] = "charging" /\ rung[t] \in DOMAIN Rungs /\ Cost(t) \in Nat
    BY <1>6, CostCovers DEF Charge
  <2>2. ledger' \in Nat /\ billed' \in Nat /\ lost' \in Nat
    BY <1>6, <2>1 DEF Charge
  <2>3. CASE reply[t].answer = "valid"
    <3>1. [kind |-> "routed", rung |-> rung[t], degraded |-> blocked[t]]
            \in [kind : Decisions, rung : 0 .. Len(Rungs), degraded : BOOLEAN]
      BY <2>1, RungType DEF Decisions
    <3>2. Return(t, [kind |-> "routed", rung |-> rung[t], degraded |-> blocked[t]])
      BY <1>6, <2>3 DEF Charge, Settle
    <3>3. QED
      BY <2>2, <3>1, <3>2, Returned
  <2>4. CASE reply[t].answer = "nothing"
    <3>1. Raise(t)
      BY <1>6, <2>4 DEF Charge, Settle
    <3>2. QED
      BY <2>2, <3>1, Returned, DecisionType DEF Raise, Decisions
  <2>5. CASE reply[t].answer \notin {"valid", "nothing"}
    <3>1. NextRung(t) /\ UNCHANGED <<blocked, decision>>
      BY <1>6, <2>5 DEF Charge, Settle
    <3>2. QED
      BY <2>1, <2>2, <3>1, WentOn
  <2>6. QED
    BY <2>3, <2>4, <2>5
<1>7. CASE ChargeFails(t)
  <2>1. Raise(t) /\ lost' \in Nat /\ UNCHANGED <<ledger, billed>>
    BY <1>7 DEF ChargeFails
  <2>2. QED
    BY <2>1, Returned, DecisionType DEF Raise, Decisions
<1>8. CASE Crash(t)
  <2>1. Return(t, NoDecision) /\ lost' \in Nat /\ UNCHANGED <<ledger, billed>>
    BY <1>8 DEF Crash
  <2>2. NoDecision \in [kind : Decisions, rung : 0 .. Len(Rungs), degraded : BOOLEAN]
    BY RungType DEF NoDecision, Decisions
  <2> HIDE DEF TypeOK
  <2>3. {ledger, billed, lost}' \subseteq Nat
    BY <2>1 DEF TypeOK
  <2>4. QED
    BY <2>1, <2>2, <2>3, Returned DEF TypeOK
<1>9. QED
  BY <1>1, <1>2, <1>3, <1>4, <1>5, <1>6, <1>7, <1>8 DEF Step, Proceed

\* The terms of the sums are natural numbers, none above the dearest rung.
TermsOK ==
  /\ WorstCase \in [Turns -> Nat] /\ Bills \in [Turns -> Nat]
  /\ \A t \in Turns : WorstCase[t] <= Dearest

LEMMA TermTypes == TypeOK /\ TurnsInv => TermsOK
<1> SUFFICES ASSUME TypeOK, TurnsInv PROVE TermsOK
  OBVIOUS
<1>1. \A t \in Turns :
        LET w == IF pc[t] \in {"calling", "charging"} THEN Rungs[rung[t]].max ELSE 0
        IN  w \in Nat /\ w <= Dearest
  BY RungType, DearestType DEF TurnsInv
<1>2. QED
  BY <1>1 DEF WorstCase, Bills, TypeOK, TermsOK

\* What a step does to the money of its turn: it adds no more than it may still
\* add, or stays within the cap, and forgets nothing of its bill.
LEMMA StepMoney ==
  ASSUME TypeOK, TurnsInv, NEW t \in Turns, Step(t), TypeOK', TurnsInv'
  PROVE  /\ \/ ledger' + WorstCase'[t] <= ledger + WorstCase[t]
            \/ ledger' + WorstCase'[t] <= Cap
         /\ billed' + ledger + lost + Bills[t] <= billed + ledger' + lost' + Bills'[t]
<1> DEFINE w == WorstCase[t]
           w1 == WorstCase'[t]
           b == Bills[t]
           b1 == Bills'[t]
<1>1. /\ w \in Nat /\ w1 \in Nat /\ b \in Nat /\ b1 \in Nat
      /\ ledger \in Nat /\ billed \in Nat /\ lost \in Nat
      /\ ledger' \in Nat /\ billed' \in Nat /\ lost' \in Nat
  <2>1. TermsOK /\ TermsOK'
    BY TermTypes, PTL
  <2>2. QED
    BY <2>1 DEF TypeOK, TermsOK
<1>2. /\ w = IF pc[t] \in {"calling", "charging"} THEN Rungs[rung[t]].max ELSE 0
      /\ w1 = IF pc'[t] \in {"calling", "charging"} THEN Rungs[rung'[t]].max ELSE 0
      /\ b = reply[t].bill /\ b1 = reply'[t].bill
  BY DEF WorstCase, Bills
<1> HIDE DEF w, w1, b, b1
<1> SUFFICES /\ ledger' + w1 <= ledger + w \/ ledger' + w1 <= Cap
             /\ billed' + ledger + lost + b <= billed + ledger' + lost' + b1
  BY DEF w, w1, b, b1
<1>3. pc[t] # "charging" => reply[t] = NoReply /\ b = 0
  BY <1>2 DEF TurnsInv, NoReply
<1>4. NoReply.bill = 0
  BY DEF NoReply
<1>5. ASSUME pc'[t] \in {"idle", "looking"}, reply'[t] = NoReply
      PROVE  w1 = 0 /\ b1 = 0
  BY <1>2, <1>4, <1>5
<1>6. ASSUME NEW d, Return(t, d)
      PROVE  pc'[t] = "idle" /\ reply'[t] = NoReply
  BY <1>6 DEF Return, Goto, TypeOK
<1>7. ASSUME NextRung(t)
      PROVE  pc'[t] = "looking" /\ reply'[t] = NoReply
  BY <1>7 DEF NextRung, Goto, TypeOK
<1>8. CASE Route(t) \/ SkipRung(t) \/ Exhausted(t)
  <2>1. pc'[t] \in {"idle", "looking"} /\ reply'[t] = NoReply
    <3>1. CASE Route(t)
      <4>1. CASE \E d : Return(t, d)
        BY <1>6, <4>1
      <4>2. CASE Goto(t, "looking") /\ UNCHANGED reply
        BY <1>3, <3>1, <4>2 DEF Route, Goto, TypeOK
      <4>3. QED
        BY <3>1, <4>1, <4>2 DEF Route, Refuse
    <3>2. CASE SkipRung(t)
      BY <1>7, <3>2 DEF SkipRung
    <3>3. CASE Exhausted(t)
      BY <1>6, <3>3 DEF Exhausted, Refuse
    <3>4. QED
      BY <1>8, <3>1, <3>2, <3>3
  <2>2. b = 0 /\ UNCHANGED <<ledger, billed, lost>>
    BY <1>3, <1>8 DEF Route, SkipRung, Exhausted
  <2>3. QED
    BY <1>1, <1>5, <2>1, <2>2
<1>9. CASE Call(t)
  <2>1. /\ UNCHANGED <<ledger, billed, lost, reply, rung>> /\ pc[t] = "looking"
        /\ rung[t] \in DOMAIN Rungs
        /\ Rungs[rung[t]].free \/ ledger + Rungs[rung[t]].max <= Cap
    BY <1>9 DEF Call, WithinCap
  <2>2. b1 = b
    BY <1>2, <2>1
  <2>3. w1 = Rungs[rung[t]].max
    BY <1>2, <1>9, <2>1 DEF Call, Goto, TypeOK
  <2>4. Rungs[rung[t]].free => w1 = 0
    BY <2>1, <2>3, RouterAssumption DEF RouterAssumption
  <2>5. QED
    BY <1>1, <2>1, <2>2, <2>3, <2>4
<1>10. CASE Classified(t)
  <2>1. PICK bill \in 0 .. Rungs[rung[t]].max : reply'[t].bill = bill /\ billed' = billed + bill
    BY <1>10 DEF Classified, TypeOK
  <2>2. /\ UNCHANGED <<ledger, lost, rung>> /\ pc[t] = "calling" /\ pc'[t] = "charging"
    BY <1>10 DEF Classified, Goto, TypeOK
  <2>3. b = 0 /\ b1 = bill /\ w1 = w
    BY <1>2, <1>3, <2>1, <2>2
  <2>4. QED
    BY <1>1, <2>1, <2>2, <2>3
<1>11. CASE Charge(t)
  <2>1. /\ pc[t] = "charging" /\ ledger' = ledger + Cost(t)
        /\ UNCHANGED <<billed, lost>>
    BY <1>11 DEF Charge
  <2>2. Cost(t) \in Nat /\ b <= Cost(t) /\ Cost(t) <= w
    BY <1>2, <2>1, CostCovers
  <2>3. pc'[t] \in {"idle", "looking"} /\ reply'[t] = NoReply
    BY <1>6, <1>7, <1>11 DEF Charge, Settle, Raise
  <2>4. QED
    BY <1>1, <1>5, <2>1, <2>2, <2>3
<1>12. CASE ChargeFails(t) \/ Crash(t)
  <2>1. /\ lost' = lost + b /\ UNCHANGED <<ledger, billed>>
        /\ pc'[t] \in {"idle", "looking"} /\ reply'[t] = NoReply
    BY <1>2, <1>6, <1>12 DEF ChargeFails, Crash, Raise
  <2>2. QED
    BY <1>1, <1>5, <2>1
<1>13. QED
  BY <1>8, <1>9, <1>10, <1>11, <1>12 DEF Step, Proceed

\* The terms of the other turns stand.
LEMMA OtherTerms ==
  ASSUME TypeOK, NEW t \in Turns, Step(t), NEW u \in Turns, u # t
  PROVE  WorstCase'[u] = WorstCase[u] /\ Bills'[u] = Bills[u]
<1>1. pc'[u] = pc[u] /\ rung'[u] = rung[u] /\ reply'[u] = reply[u]
  BY OthersStand
<1>2. QED
  BY <1>1 DEF WorstCase, Bills

LEMMA StepKeepsBound ==
  ASSUME TypeOK, TurnsInv, OverspendBounded, NEW t \in Turns, Step(t)
  PROVE  OverspendBounded'
<1>1. TypeOK' /\ TurnsInv'
  BY StepKeepsTurns
<1>2. TermsOK /\ TermsOK'
  BY <1>1, TermTypes, PTL
<1> DEFINE others == SumFunctionOnSet(WorstCase, Turns \ {t})
           room == (Cardinality(Turns) - 1) * Dearest
<1>3. IsFiniteSet(Turns) /\ Cap \in Nat
  BY RouterAssumption DEF RouterAssumption
<1>4. /\ Pending = WorstCase[t] + others /\ Pending' = WorstCase'[t] + others
      /\ others \in Nat
  <2>1. \A u \in Turns : u # t => WorstCase[u] = WorstCase'[u]
    BY OtherTerms
  <2>2. SumFunctionOnSet(WorstCase, Turns) = WorstCase[t] + others
    BY <1>2, <1>3, SumAny DEF TermsOK
  <2>3. SumFunctionOnSet(WorstCase', Turns) = WorstCase'[t] + others /\ others \in Nat
    BY <1>2, <1>3, <2>1, SumStep DEF TermsOK
  <2>4. QED
    BY <2>2, <2>3 DEF Pending
<1>5. others <= room /\ room \in Nat
  <2>1. IsFiniteSet(Turns \ {t}) /\ Cardinality(Turns \ {t}) = Cardinality(Turns) - 1
    BY <1>3, FS_RemoveElement
  <2>2. Cardinality(Turns \ {t}) \in Nat
    BY <2>1, FS_CardinalityType
  <2>3. others <= Cardinality(Turns \ {t}) * Dearest
    BY <1>2, <1>3, DearestType, SumBound DEF TermsOK
  <2>4. Cardinality(Turns \ {t}) * Dearest \in Nat
    BY <2>2, DearestType
  <2>5. QED
    BY <2>1, <2>3, <2>4
<1>6. \/ ledger' + WorstCase'[t] <= ledger + WorstCase[t]
      \/ ledger' + WorstCase'[t] <= Cap
  BY <1>1, StepMoney
<1>7. WorstCase[t] \in Nat /\ WorstCase'[t] \in Nat /\ ledger \in Nat /\ ledger' \in Nat
  BY <1>1, <1>2 DEF TypeOK, TermsOK
<1>8. ledger + Pending <= Cap + room
  BY DEF OverspendBounded
<1> HIDE DEF others, room
<1>9. ledger' + Pending' <= Cap + room
  BY <1>3, <1>4, <1>5, <1>6, <1>7, <1>8
<1>10. QED
  BY <1>9 DEF OverspendBounded, room

LEMMA StepForgetsNothing ==
  ASSUME TypeOK, TurnsInv, NothingForgotten, NEW t \in Turns, Step(t)
  PROVE  NothingForgotten'
<1>1. TypeOK' /\ TurnsInv'
  BY StepKeepsTurns
<1>2. TermsOK /\ TermsOK'
  BY <1>1, TermTypes, PTL
<1> DEFINE sum == SumFunctionOnSet(Bills, Turns)
           sum1 == SumFunctionOnSet(Bills', Turns)
<1>3. sum1 + Bills[t] = sum + Bills'[t] /\ sum \in Nat /\ sum1 \in Nat
  <2>1. \A u \in Turns : u # t => Bills[u] = Bills'[u]
    BY OtherTerms
  <2>2. QED
    <3>1. IsFiniteSet(Turns) /\ Bills \in [Turns -> Nat] /\ Bills' \in [Turns -> Nat]
      BY <1>2, RouterAssumption DEF TermsOK, RouterAssumption
    <3>2. sum \in Nat /\ sum1 \in Nat
      BY <3>1, SumType
    <3>3. /\ sum = Bills[t] + SumFunctionOnSet(Bills, Turns \ {t})
          /\ sum1 = Bills'[t] + SumFunctionOnSet(Bills, Turns \ {t})
      BY <2>1, <3>1, SumAny, SumStep
    <3>4. /\ SumFunctionOnSet(Bills, Turns \ {t}) \in Nat
          /\ Bills[t] \in Nat /\ Bills'[t] \in Nat
      BY <3>1, SumType
    <3> HIDE DEF sum, sum1
    <3>5. QED
      BY <3>2, <3>3, <3>4
<1> DEFINE b == Bills[t]
           b1 == Bills'[t]
           accounted == ledger + lost
           accounted1 == ledger' + lost'
           billed1 == billed'
<1>4. b \in Nat /\ b1 \in Nat
  BY <1>2 DEF TermsOK
<1>5. billed \in Nat /\ billed1 \in Nat /\ accounted \in Nat /\ accounted1 \in Nat
  BY <1>1 DEF TypeOK
<1>6. sum1 + b = sum + b1 /\ sum \in Nat /\ sum1 \in Nat
  BY <1>3
<1>7. (billed1 + accounted) + b <= (billed + accounted1) + b1
  <2>1. billed1 + ledger + lost + b <= billed + ledger' + lost' + b1
    BY <1>1, StepMoney
  <2> DEFINE l1 == ledger'
             o1 == lost'
  <2>2. /\ ledger \in Nat /\ lost \in Nat /\ l1 \in Nat /\ o1 \in Nat
        /\ accounted = ledger + lost /\ accounted1 = l1 + o1
        /\ billed1 + ledger + lost + b <= billed + l1 + o1 + b1
    BY <1>1, <2>1 DEF TypeOK
  <2> HIDE DEF b, b1, l1, o1, accounted, accounted1, billed1
  <2>3. QED
    BY <1>4, <1>5, <2>2
<1>8. billed <= accounted + sum
  BY DEF NothingForgotten
<1> HIDE DEF sum, sum1, b, b1, accounted, accounted1, billed1
<1>9. billed1 <= accounted1 + sum1
  BY <1>4, <1>5, <1>6, <1>7, <1>8
<1>10. QED
  BY <1>9 DEF NothingForgotten, sum1, accounted1, billed1

\* At first nothing is spent, nor billed.
LEMMA InitBound == Init => OverspendBounded /\ NothingForgotten
<1> SUFFICES ASSUME Init PROVE OverspendBounded /\ NothingForgotten
  OBVIOUS
<1>1. TermsOK
  BY InitOK, TermTypes
<1>2. IsFiniteSet(Turns) /\ Turns # {} /\ Cap \in Nat
  BY RouterAssumption DEF RouterAssumption
<1>3. \A t \in Turns : WorstCase[t] <= 0
  BY DEF Init, WorstCase
<1>4. Cardinality(Turns) \in Nat /\ Cardinality(Turns) # 0
  BY <1>2, FS_CardinalityType, FS_EmptySet
<1>5. Pending <= Cardinality(Turns) * 0 /\ Pending \in Nat
  <2>1. SumFunctionOnSet(WorstCase, Turns) <= Cardinality(Turns) * 0
    BY <1>1, <1>2, <1>3, SumBound DEF TermsOK
  <2>2. SumFunctionOnSet(WorstCase, Turns) \in Nat
    BY <1>1, <1>2, SumType DEF TermsOK
  <2>3. QED
    BY <2>1, <2>2 DEF Pending
<1>6. (Cardinality(Turns) - 1) * Dearest \in Nat
  BY <1>4, DearestType
<1>7. OverspendBounded
  <2>1. ledger = 0
    BY DEF Init
  <2>2. Cardinality(Turns) * 0 = 0
    BY <1>4
  <2>3. QED
    BY <1>2, <1>5, <1>6, <2>1, <2>2 DEF OverspendBounded
<1>8. NothingForgotten
  <2>1. SumFunctionOnSet(Bills, Turns) \in Nat
    BY <1>1, <1>2, SumType DEF TermsOK
  <2>2. QED
    BY <2>1 DEF Init, NothingForgotten
<1>9. QED
  BY <1>7, <1>8

LEMMA StutterKeeps == IInv /\ UNCHANGED vars => IInv'
<1> SUFFICES ASSUME IInv, UNCHANGED vars PROVE IInv'
  OBVIOUS
<1> USE DEF IInv, vars, local
<1>1. TypeOK'
  BY DEF TypeOK
<1>2. TurnsInv'
  BY DEF TurnsInv
<1>3. OverspendBounded'
  BY DEF OverspendBounded, Pending, WorstCase
<1>4. NothingForgotten'
  BY DEF NothingForgotten, Bills
<1>5. QED
  BY <1>1, <1>2, <1>3, <1>4

-----------------------------------------------------------------------------
(* Theorems.                                                               *)

\* The strengthened invariant: each turn's bill is within the worst case of a
\* rung of the list, and both sums keep their bounds.
THEOREM InvariantHolds == Spec => []IInv
<1>1. Init => IInv
  BY InitOK, InitBound DEF IInv
<1>2. IInv /\ [Next]_vars => IInv'
  <2>1. ASSUME IInv, NEW t \in Turns, Step(t)
        PROVE  IInv'
    BY <2>1, StepKeepsTurns, StepKeepsBound, StepForgetsNothing DEF IInv
  <2>2. QED
    BY <2>1, StutterKeeps DEF Next, Step
<1>3. QED
  BY <1>1, <1>2, PTL DEF Spec

\* The ledger, the turns and their decisions keep their types.
THEOREM TypeCorrect == Spec => []TypeOK
<1>1. IInv => TypeOK
  BY DEF IInv
<1>2. QED
  BY <1>1, InvariantHolds, PTL

\* However many turns compare the same ledger with the cap, together they pass
\* it by one worst case for each but one of them.
THEOREM OverspendIsBounded == Spec => []OverspendBounded
<1>1. IInv => OverspendBounded
  BY DEF IInv
<1>2. QED
  BY <1>1, InvariantHolds, PTL

\* No call's bill escapes the ledger while its turn lives.
THEOREM NothingIsForgotten == Spec => []NothingForgotten
<1>1. IInv => NothingForgotten
  BY DEF IInv
<1>2. QED
  BY <1>1, InvariantHolds, PTL

\* One question at a time: the hard cap of the module's docstring holds, and
\* the calls under way fit under it.
THEOREM AloneWithinCap ==
  ASSUME Cardinality(Turns) = 1
  PROVE  Spec => []CapHolds
<1>1. IInv => CapHolds
  <2> SUFFICES ASSUME IInv PROVE CapHolds
    OBVIOUS
  <2>1. TermsOK
    BY TermTypes DEF IInv
  <2>2. Pending \in Nat
    BY <2>1, RouterAssumption, SumType DEF TermsOK, Pending, RouterAssumption
  <2>3. (Cardinality(Turns) - 1) * Dearest = 0
    BY DearestType
  <2>4. ledger + Pending <= Cap + 0
    BY <2>3 DEF IInv, OverspendBounded
  <2>5. QED
    BY <2>2, <2>4, RouterAssumption DEF IInv, TypeOK, CapHolds, RouterAssumption
<1>2. QED
  BY <1>1, InvariantHolds, PTL

=============================================================================
