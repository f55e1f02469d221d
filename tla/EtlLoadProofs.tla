--------------------------- MODULE EtlLoadProofs ----------------------------
(***************************************************************************)
(* Theorems about EtlLoad, for every set of runs and ranges, of days,      *)
(* sites and versions, every batch size, every holding of the ERP and any  *)
(* number of troubles.                                                     *)
(***************************************************************************)
EXTENDS EtlLoad, FiniteSetTheorems, WellFoundedInduction, TLAPS

-----------------------------------------------------------------------------
(* The inductive invariant.                                                *)

Aborted == {"failed", "killed"}

\* What a run keeps where it is: rows to write and locks from a batch to its
\* commit only, and nothing to read once the load is over.
RunOK(r) ==
  /\ pc[r] = "idle" =>
       days[r] = RangeOf[r] /\ todo[r] = {} /\ cleared[r] = {} /\ snap[r] = {}
  /\ pc[r] \notin {"clear", "delete", "commit"} => batch[r] = {} /\ dels[r] = {}
  /\ pc[r] # "delete" => seen[r] = {}
  /\ pc[r] # "commit" => ins[r] = {}
  /\ pc[r] = "commit" => ins[r] = batch[r] /\ Uncleared(r) = {}
  /\ pc[r] \in {"refresh", "functions", "report", "done"} => todo[r] = {} /\ days[r] = {}
  /\ pc[r] \notin {"functions", "report"} => entry[r] = NoEntry
  /\ pc[r] = "functions" => entry[r].function = "none"

\* The rows a run has not committed yet.
Owed(r) == todo[r] \union batch[r]

\* A run owes rows of its snapshot only, once each; it deletes no day but those
\* of its batch, and of a day it deletes it has committed nothing.
CursorOK(r) ==
  /\ Owed(r) \subseteq snap[r] /\ todo[r] \intersect batch[r] = {}
  /\ \A t \in snap[r] : t.by = r /\ DayOf(t) \notin days[r]
  /\ \A t, u \in snap[r] : SameKey(t, u) => t = u
  /\ \A t \in dels[r] \union seen[r] :
       /\ DayOf(t) \in cleared[r]
       /\ \E u \in batch[r] : DayOf(u) = DayOf(t)
       /\ DayIn(snap[r], DayOf(t)) \subseteq Owed(r)
  /\ pc[r] \notin Aborted =>
       \A t \in snap[r] : DayOf(t) \notin cleared[r] => t \in Owed(r)

RunsInv == \A r \in Runs : RunOK(r) /\ CursorOK(r)

\* Every row of the table is of the first load or was read by its run.
RowsInv ==
  \A t \in table : t.by = Before \/ (t.by \in Runs /\ t \in snap[t.by])

\* The primary key, and what the open transactions owe to it.
KeyInv ==
  Keyed =>
    /\ \A t, u \in table : SameKey(t, u) => t = u
    /\ \A r \in Runs : \A t \in ins[r], u \in table \ dels[r] : ~SameKey(t, u)
    /\ \A r, o \in Runs : r # o => \A t \in ins[r], u \in ins[o] : ~SameKey(t, u)

\* Nobody is active beside a run that is alone, and the table holds what it has
\* committed of the days it cleared.
LoneOK(r) ==
  alone[r] /\ Active(r) =>
    /\ \A o \in Others(r) : ~Active(o)
    /\ \A d \in cleared[r] :
         DayIn((table \ dels[r]) \ seen[r], d) = DayIn(snap[r], d) \ Owed(r)
LoneInv == \A r \in Runs : LoneOK(r)

\* Every run that read rows of a day read the same.
Agree(d) ==
  \A r, q \in Runs : DayIn(snap[r], d) # {} /\ DayIn(snap[q], d) # {} =>
    Content(snap[r], d) = Content(snap[q], d)

\* While no run has failed: nothing of the first load remains of a day that was
\* cleared, and a row that was committed is there or is owed again.
Persists(x) ==
  \/ \E t \in table : SameKey(t, x)
  \/ \E o \in Runs : \E y \in Owed(o) : SameKey(y, x)
AgreeInv ==
  (\A r \in Runs : pc[r] \notin Aborted) =>
    \A d \in Days : Agree(d) =>
      \A r \in Runs : \A x \in DayIn(snap[r], d) \ Owed(r) : Persists(x)

\* Unless a run is aborted, no row of the first load remains of a day it cleared,
\* but those it is deleting, and the days it committed rows of have some.
LoadedInv ==
  \A r \in Runs : pc[r] \notin Aborted =>
    /\ \A t \in table :
         t.by = Before /\ DayOf(t) \in cleared[r] => t \in dels[r] \union seen[r]
    /\ \A x \in snap[r] \ Owed(r) : DayIn(table, DayOf(x)) # {}

\* A day with rows, none of them of the first load.
Renewed(T, d) == DayIn(T, d) # {} /\ \A t \in DayIn(T, d) : t.by # Before

Refreshing(r) == pc[r] \in {"functions", "report"}
Read(r) == {d \in RangeOf[r] : DayIn(snap[r], d) # {}}

\* What the entries of a run say holds from the moment they are made.
MatviewOK(r) ==
  Refreshing(r) /\ entry[r].matview = "matview" => \A d \in Read(r) : Renewed(matview, d)
LoneViewsOK(r) ==
  alone[r] /\ Refreshing(r) =>
    \A d \in Read(r) :
      /\ entry[r].matview = "matview" => DayIn(matview, d) = DayIn(snap[r], d)
      /\ Rebuilds(r, d) => DayIn(rollup, d) = DayIn(snap[r], d)
ViewsInv == \A r \in Runs : MatviewOK(r) /\ LoneViewsOK(r)

IInv ==
  TypeOK /\ RunsInv /\ RowsInv /\ KeyInv /\ LoneInv /\ LoadedInv /\ ViewsInv /\ AgreeInv

-----------------------------------------------------------------------------
(* The queries.                                                            *)

LEMMA MinIn ==
  ASSUME NEW S \in SUBSET Nat, S # {}
  PROVE  Min(S) \in S
<1>1. IsWellFoundedOn(OpToRel(<,Nat), Nat)
  BY NatLessThanWellFounded
<1>2. PICK x \in S : \A y \in S : ~ (<<y, x>> \in OpToRel(<,Nat))
  BY <1>1, WFMin
<1>3. \A y \in S : ~ y < x
  BY <1>2 DEF OpToRel
<1>4. \A y \in S : x <= y
  <2>1. S \subseteq Nat
    OBVIOUS
  <2>2. QED
    BY <1>3, <2>1
<1>5. \E z \in S : \A y \in S : z <= y
  BY <1>4
<1>6. QED
  BY <1>5 DEF Min

\* A query asks for days still to load, and every row it returns is of one.
LEMMA QueryType ==
  ASSUME TypeOK, NEW D \in SUBSET Days, D # {}
  PROVE  /\ Query(D).asks \subseteq D
         /\ \A k \in Query(D).rows : /\ k \in Rows /\ k[1] \in Query(D).asks
                                     /\ source[k] \in Versions
<1>1. \A E \in SUBSET Days : \A k \in Posted(E) :
        k \in Rows /\ k[1] \in E /\ source[k] \in Versions
  BY DEF Posted, TypeOK, Absent
<1>2. Min(D) \in D
  BY MinIn, EtlAssumption DEF EtlAssumption
<1>3. pipeline \in {"ventas", "margen", "rotacion"}
  BY EtlAssumption DEF TypeOK, EtlAssumption
<1>4. CASE pipeline = "ventas"
  <2>1. Query(D) = VentasQuery(D)
    BY <1>4 DEF Query
  <2>2. QED
    BY <1>1, <2>1 DEF VentasQuery
<1>5. CASE pipeline = "margen"
  <2>1. Query(D) = MargenQuery(D)
    BY <1>5 DEF Query
  <2>2. QED
    BY <1>1, <2>1 DEF MargenQuery
<1>6. CASE pipeline = "rotacion"
  <2>1. Query(D) = RotacionQuery(D)
    BY <1>6 DEF Query
  <2>2. Query(D).asks = {Min(D)} /\ Query(D).rows = Posted({Min(D)})
    BY <2>1 DEF RotacionQuery
  <2>3. {Min(D)} \in SUBSET Days
    BY <1>2
  <2>4. QED
    BY <1>1, <1>2, <2>2, <2>3
<1>7. QED
  BY <1>3, <1>4, <1>5, <1>6

\* What a query gives the run: some rows of days that are then asked for.
Asked(r, C, A) ==
  /\ \A t \in C : t.by = r /\ DayOf(t) \in A
  /\ \A t, u \in C : SameKey(t, u) => t = u
  /\ todo' = [todo EXCEPT ![r] = C]
  /\ snap' = [snap EXCEPT ![r] = snap[r] \union C]
  /\ days' = [days EXCEPT ![r] = days[r] \ A]
  /\ pc' = [pc EXCEPT ![r] = "fetch"]
  /\ UNCHANGED <<pipeline, source, table, built, batch, cleared, seen, dels,
                 ins, entry, troubles>>

LEMMA AskEffect ==
  ASSUME TypeOK, NEW r \in Runs, days[r] # {}, Ask(r)
  PROVE  \E C \in SUBSET Tuple, A \in SUBSET days[r] : Asked(r, C, A)
<1> DEFINE q == Query(days[r])
           C == Cursor(r, q)
<1>1. days[r] \in SUBSET Days
  BY DEF TypeOK
<1>2. /\ q.asks \subseteq days[r]
      /\ \A k \in q.rows : k \in Rows /\ k[1] \in q.asks /\ source[k] \in Versions
  BY <1>1, QueryType
<1> HIDE DEF q
<1>3. \A t \in C : t \in Tuple /\ t.by = r /\ t.row[1] \in q.asks
  BY <1>2 DEF Cursor, Tuple
<1>4. \A t, u \in C : t.row = u.row => t = u
  BY DEF Cursor
<1>5. /\ todo' = [todo EXCEPT ![r] = C]
      /\ snap' = [snap EXCEPT ![r] = snap[r] \union C]
      /\ days' = [days EXCEPT ![r] = days[r] \ q.asks]
      /\ pc' = [pc EXCEPT ![r] = "fetch"]
      /\ UNCHANGED <<pipeline, source, table, built, batch, cleared, seen, dels,
                     ins, entry, troubles>>
  BY DEF Ask, Goto, q
<1> HIDE DEF C
<1>6. C \in SUBSET Tuple /\ q.asks \in SUBSET days[r]
  BY <1>2, <1>3
<1>7. Asked(r, C, q.asks)
  BY <1>3, <1>4, <1>5 DEF Asked, DayOf, SameKey
<1>8. QED
  BY <1>6, <1>7

AskStep(r) == Extract(r) \/ ExtractNext(r)

LEMMA AskStepEffect ==
  ASSUME TypeOK, RunsInv, NEW r \in Runs, AskStep(r)
  PROVE  /\ \E C \in SUBSET Tuple, A \in SUBSET days[r] : Asked(r, C, A)
         /\ todo[r] = {} /\ batch[r] = {} /\ dels[r] = {} /\ seen[r] = {}
         /\ pc[r] \in {"idle", "fetch"}
<1>1. CASE Extract(r)
  <2>1. days[r] = RangeOf[r] /\ pc[r] = "idle"
    BY <1>1 DEF Extract, RunsInv, RunOK
  <2>2. days[r] # {}
    BY <2>1, EtlAssumption DEF EtlAssumption
  <2>3. QED
    BY <1>1, <2>1, <2>2, AskEffect DEF Extract, RunsInv, RunOK
<1>2. CASE ExtractNext(r)
  BY <1>2, AskEffect DEF ExtractNext, RunsInv, RunOK
<1>3. QED
  BY <1>1, <1>2 DEF AskStep

-----------------------------------------------------------------------------
(* The other steps.                                                        *)

NextBatch(r, B) ==
  /\ batch' = [batch EXCEPT ![r] = B]
  /\ todo' = [todo EXCEPT ![r] = todo[r] \ B]
  /\ pc' = [pc EXCEPT ![r] = "clear"]
  /\ UNCHANGED <<pipeline, source, table, built, days, cleared, seen, dels, ins,
                 entry, troubles, observed>>

LoadEnds(r) ==
  /\ todo[r] = {} /\ days[r] = {}
  /\ pc' = [pc EXCEPT ![r] = "refresh"]
  /\ UNCHANGED <<pipeline, source, table, built, days, todo, batch, cleared, seen,
                 dels, ins, entry, troubles, observed>>

LEMMA FetchEffect ==
  ASSUME TypeOK, NEW r \in Runs, Fetch(r)
  PROVE  /\ pc[r] = "fetch"
         /\ (\E B \in SUBSET todo[r] : NextBatch(r, B)) \/ LoadEnds(r)
<1>1. CASE /\ batch' \in {[batch EXCEPT ![r] = B] : B \in Batches(r)}
           /\ todo' = [todo EXCEPT ![r] = @ \ batch'[r]]
           /\ Goto(r, "clear")
  <2>1. PICK B \in Batches(r) : batch' = [batch EXCEPT ![r] = B]
    BY <1>1
  <2>2. B \in SUBSET todo[r]
    BY <2>1 DEF Batches
  <2>3. batch'[r] = B
    BY <2>1 DEF TypeOK
  <2>4. NextBatch(r, B)
    BY <1>1, <2>1, <2>3 DEF Fetch, NextBatch, Goto
  <2>5. QED
    BY <2>2, <2>4 DEF Fetch
<1>2. CASE todo[r] = {} /\ days[r] = {} /\ Goto(r, "refresh") /\ UNCHANGED <<batch, todo>>
  BY <1>2 DEF Fetch, LoadEnds, Goto
<1>3. QED
  BY <1>1, <1>2 DEF Fetch

AbortStep(r) == UniqueViolation(r) \/ Deadlock(r) \/ Raise(r) \/ Kill(r)

\* A run that is aborted gives back its rows and its locks.
GivesBack(r, l) ==
  /\ batch' = [batch EXCEPT ![r] = {}] /\ dels' = [dels EXCEPT ![r] = {}]
  /\ ins' = [ins EXCEPT ![r] = {}] /\ seen' = [seen EXCEPT ![r] = {}]
  /\ pc' = [pc EXCEPT ![r] = l] /\ entry' = [entry EXCEPT ![r] = NoEntry]
  /\ UNCHANGED <<pipeline, source, table, built, days, todo, cleared, observed>>

LEMMA AbortEffect ==
  ASSUME TypeOK, NEW r \in Runs, AbortStep(r)
  PROVE  /\ Active(r) /\ troubles' \in 0 .. MaxTroubles
         /\ \E l \in Aborted : GivesBack(r, l)
<1>1. MaxTroubles \in Nat /\ troubles \in 0 .. MaxTroubles
  BY EtlAssumption DEF EtlAssumption, TypeOK
<1>2. \E l \in Aborted : Abort(r, l)
  BY DEF AbortStep, UniqueViolation, Deadlock, Raise, Kill, Aborted
<1>3. troubles' \in 0 .. MaxTroubles
  BY <1>1 DEF AbortStep, UniqueViolation, Deadlock, Raise, Kill
<1>4. Active(r)
  BY DEF AbortStep, UniqueViolation, Deadlock, Raise, Kill, Active, Ended
<1>5. QED
  BY <1>2, <1>3, <1>4 DEF Abort, Rollback, Goto, GivesBack

\* The steps of a refresh touch the views and its entries only.
RefreshStep(r) == RefreshMatviews(r) \/ RefreshFunctions(r) \/ RefreshRaises(r)

LEMMA RolledType ==
  ASSUME TypeOK, NEW D
  PROVE  Rolled(D) \subseteq Tuple
  BY DEF Rolled, TypeOK

LEMMA RefreshEffect ==
  ASSUME TypeOK, NEW r \in Runs, RefreshStep(r)
  PROVE  /\ pc[r] \in {"refresh", "functions"} /\ troubles' \in 0 .. MaxTroubles
         /\ \E l \in {"functions", "report"} : pc' = [pc EXCEPT ![r] = l]
         /\ \E e \in Entry : entry' = [entry EXCEPT ![r] = e]
         /\ matview' = matview \/ matview' = table
         /\ rollup' \subseteq Tuple
         /\ UNCHANGED <<pipeline, source, table, days, todo, batch, cleared, seen,
                        dels, ins, snap, alone>>
<1>0. MaxTroubles \in Nat /\ troubles \in 0 .. MaxTroubles
  BY EtlAssumption DEF EtlAssumption, TypeOK
<1>1. entry[r] \in Entry /\ NoEntry \in Entry /\ entry = [entry EXCEPT ![r] = entry[r]]
  BY DEF TypeOK, Entry, NoEntry
<1>2. rollup \subseteq Tuple
  BY DEF TypeOK
<1>3. CASE RefreshMatviews(r)
  <2>1. troubles' \in 0 .. MaxTroubles
    BY <1>0, <1>3 DEF RefreshMatviews
  <2>2. \E e \in Entry : entry' = [entry EXCEPT ![r] = e]
    <3>1. CASE \E v \in {"matview", "none", "failed"} : entry' = [entry EXCEPT ![r].matview = v]
      <4>1. PICK v \in {"matview", "none", "failed"} : entry' = [entry EXCEPT ![r].matview = v]
        BY <3>1
      <4>2. [entry[r] EXCEPT !.matview = v] \in Entry
        BY <1>1 DEF Entry
      <4>3. QED
        BY <4>1, <4>2
    <3>2. CASE entry' = entry
      BY <1>1, <3>2
    <3>3. QED
      BY <1>3, <3>1, <3>2 DEF RefreshMatviews
  <2>3. QED
    BY <1>3, <1>2, <2>1, <2>2 DEF RefreshMatviews, Goto, observed
<1>4. CASE RefreshFunctions(r)
  <2>1. troubles' \in 0 .. MaxTroubles
    BY <1>0, <1>4 DEF RefreshFunctions
  <2>2. \E e \in Entry : entry' = [entry EXCEPT ![r] = e]
    <3>1. CASE \E v \in {"full", "incremental", "failed"} : entry' = [entry EXCEPT ![r].function = v]
      <4>1. PICK v \in {"full", "incremental", "failed"} : entry' = [entry EXCEPT ![r].function = v]
        BY <3>1
      <4>2. [entry[r] EXCEPT !.function = v] \in Entry
        BY <1>1 DEF Entry
      <4>3. QED
        BY <4>1, <4>2
    <3>2. CASE entry' = entry
      BY <1>1, <3>2
    <3>3. QED
      BY <1>4, <3>1, <3>2 DEF RefreshFunctions
  <2>3. rollup' = rollup \/ \E D : rollup' = Rolled(D)
    BY <1>4 DEF RefreshFunctions
  <2>4. rollup' \subseteq Tuple
    BY <1>2, <2>3, RolledType
  <2>5. QED
    BY <1>4, <2>1, <2>2, <2>4 DEF RefreshFunctions, Goto, observed
<1>5. CASE RefreshRaises(r)
  <2>1. troubles' \in 0 .. MaxTroubles
    BY <1>0, <1>5 DEF RefreshRaises
  <2>2. /\ pc' = [pc EXCEPT ![r] = "report"] /\ entry' = [entry EXCEPT ![r] = NoEntry]
        /\ pc[r] \in {"refresh", "functions"}
        /\ UNCHANGED <<pipeline, source, table, matview, rollup, days, todo, batch, cleared,
                       seen, dels, ins, snap, alone>>
    BY <1>5 DEF RefreshRaises, Goto, built, observed
  <2>3. QED
    BY <1>1, <1>2, <2>1, <2>2
<1>6. QED
  BY <1>3, <1>4, <1>5 DEF RefreshStep

\* The steps of a run.
RunStep(r) ==
  \/ AskStep(r) \/ Fetch(r) \/ Delete(r) \/ Deleted(r) \/ Insert(r) \/ Commit(r)
  \/ RefreshStep(r) \/ Report(r) \/ AbortStep(r)

LEMMA NextIsRunStep ==
  ASSUME Next
  PROVE  ErpChanges \/ RefreshOnly \/ \E r \in Runs : RunStep(r)
  BY DEF Next, Step, RunStep, AskStep, RefreshStep, AbortStep

-----------------------------------------------------------------------------
(* Types.                                                                  *)

LEMMA InitType == Init => TypeOK
<1> SUFFICES ASSUME Init PROVE TypeOK
  OBVIOUS
<1> USE EtlAssumption DEF EtlAssumption
<1>1. source \in [Rows -> Versions \union {Absent}]
  BY DEF Init, Rows, Absent
<1>2. table \subseteq Tuple /\ matview \subseteq Tuple /\ rollup \subseteq Tuple
  <2>1. \A k \in Rows : source[k] # Absent => source[k] \in Versions
    BY <1>1
  <2>2. QED
    BY <2>1 DEF Init, Tuple
<1>3. QED
  BY <1>1, <1>2 DEF Init, TypeOK, Ended, Entry, NoEntry

LEMMA TypeStep ==
  ASSUME TypeOK, RunsInv, NEW r \in Runs, RunStep(r)
  PROVE  TypeOK'
<1> USE DEF TypeOK, built
<1>0. MaxTroubles \in Nat /\ troubles \in 0 .. MaxTroubles /\ NoEntry \in Entry
  BY EtlAssumption DEF EtlAssumption, Entry, NoEntry
<1>1. CASE AskStep(r)
  <2>1. PICK C \in SUBSET Tuple, A \in SUBSET days[r] : Asked(r, C, A)
    BY <1>1, AskStepEffect
  <2>2. alone' \in [Runs -> BOOLEAN]
    BY <1>1 DEF AskStep, Extract, ExtractNext
  <2>3. QED
    BY <2>1, <2>2 DEF Asked
<1>2. CASE Fetch(r)
  <2>1. CASE \E B \in SUBSET todo[r] : NextBatch(r, B)
    BY <2>1 DEF NextBatch, observed
  <2>2. CASE LoadEnds(r)
    BY <2>2 DEF LoadEnds, observed
  <2>3. QED
    BY <1>2, <2>1, <2>2, FetchEffect
<1>3. CASE Delete(r)
  <2>1. PICK d \in Uncleared(r) :
          /\ cleared' = [cleared EXCEPT ![r] = @ \union {d}]
          /\ seen' = [seen EXCEPT ![r] = {t \in table \ dels[r] : DayOf(t) = d}]
    BY <1>3 DEF Delete
  <2>2. d \in Days
    BY <2>1 DEF Uncleared, Tuple, DayOf, Rows
  <2>3. cleared' \in [Runs -> SUBSET Days] /\ seen' \in [Runs -> SUBSET Tuple]
    BY <2>1, <2>2
  <2>4. QED
    BY <1>3, <2>3 DEF Delete, Goto, observed
<1>4. CASE Deleted(r)
  BY <1>4 DEF Deleted, Goto, observed
<1>5. CASE Insert(r)
  BY <1>5 DEF Insert, Goto, observed
<1>6. CASE Commit(r)
  BY <1>6 DEF Commit, Rollback, Goto, observed
<1>7. CASE RefreshStep(r)
  <2>1. PICK l \in {"functions", "report"} : pc' = [pc EXCEPT ![r] = l]
    BY <1>7, RefreshEffect
  <2>2. PICK e \in Entry : entry' = [entry EXCEPT ![r] = e]
    BY <1>7, RefreshEffect
  <2>3. matview' \subseteq Tuple /\ rollup' \subseteq Tuple /\ troubles' \in 0 .. MaxTroubles
    BY <1>7, RefreshEffect
  <2>4. UNCHANGED <<pipeline, source, table, days, todo, batch, cleared, seen, dels,
                    ins, snap, alone>>
    BY <1>7, RefreshEffect
  <2>5. QED
    BY <2>1, <2>2, <2>3, <2>4
<1>8. CASE Report(r)
  BY <1>8, <1>0 DEF Report, Goto, Ended, observed
<1>9. CASE AbortStep(r)
  <2>1. PICK l \in Aborted : GivesBack(r, l)
    BY <1>9, AbortEffect
  <2>2. troubles' \in 0 .. MaxTroubles
    BY <1>9, AbortEffect
  <2>3. l \in Ended
    BY DEF Aborted, Ended
  <2>4. QED
    BY <1>0, <2>1, <2>2, <2>3 DEF GivesBack, observed
<1>10. QED
  BY <1>1, <1>2, <1>3, <1>4, <1>5, <1>6, <1>7, <1>8, <1>9 DEF RunStep

-----------------------------------------------------------------------------
(* What a run keeps.                                                       *)

\* What a step of one run leaves to another.
Untouched(q) ==
  /\ pc'[q] = pc[q] /\ days'[q] = days[q] /\ todo'[q] = todo[q]
  /\ batch'[q] = batch[q] /\ cleared'[q] = cleared[q] /\ seen'[q] = seen[q]
  /\ dels'[q] = dels[q] /\ ins'[q] = ins[q] /\ entry'[q] = entry[q]
  /\ snap'[q] = snap[q]

LEMMA OthersUntouched ==
  ASSUME TypeOK, RunsInv, NEW r \in Runs, RunStep(r), NEW q \in Runs, q # r
  PROVE  Untouched(q)
<1> USE DEF TypeOK, Untouched
<1>1. CASE AskStep(r)
  <2>1. PICK C \in SUBSET Tuple, A \in SUBSET days[r] : Asked(r, C, A)
    BY <1>1, AskStepEffect
  <2>2. QED
    BY <2>1 DEF Asked
<1>2. CASE Fetch(r)
  <2>1. CASE \E B \in SUBSET todo[r] : NextBatch(r, B)
    BY <2>1 DEF NextBatch, observed
  <2>2. CASE LoadEnds(r)
    BY <2>2 DEF LoadEnds, observed
  <2>3. QED
    BY <1>2, <2>1, <2>2, FetchEffect
<1>3. CASE Delete(r)
  BY <1>3 DEF Delete, Goto, observed
<1>4. CASE Deleted(r)
  BY <1>4 DEF Deleted, Goto, observed
<1>5. CASE Insert(r)
  BY <1>5 DEF Insert, Goto, observed
<1>6. CASE Commit(r)
  BY <1>6 DEF Commit, Rollback, Goto, observed
<1>7. CASE RefreshStep(r)
  BY <1>7, RefreshEffect
<1>8. CASE Report(r)
  BY <1>8 DEF Report, Goto, observed
<1>9. CASE AbortStep(r)
  BY <1>9, AbortEffect DEF GivesBack, observed
<1>10. QED
  BY <1>1, <1>2, <1>3, <1>4, <1>5, <1>6, <1>7, <1>8, <1>9 DEF RunStep

LEMMA UntouchedKeeps ==
  ASSUME NEW q \in Runs, Untouched(q), RunOK(q), CursorOK(q)
  PROVE  RunOK(q)' /\ CursorOK(q)'
<1> USE DEF Untouched
<1>1. RunOK(q)'
  BY DEF RunOK, Uncleared
<1>2. CursorOK(q)'
  BY DEF CursorOK, Owed
<1>3. QED
  BY <1>1, <1>2

LEMMA RunStepKeeps ==
  ASSUME TypeOK, RunsInv, NEW r \in Runs, RunStep(r)
  PROVE  RunOK(r)' /\ CursorOK(r)'
<1>0. RunOK(r) /\ CursorOK(r)
  BY DEF RunsInv
<1> USE DEF TypeOK
<1>1. CASE AskStep(r)
  <2>1. PICK C \in SUBSET Tuple, A \in SUBSET days[r] : Asked(r, C, A)
    BY <1>1, AskStepEffect
  <2>2. todo[r] = {} /\ batch[r] = {} /\ dels[r] = {} /\ seen[r] = {} /\ pc[r] \in {"idle", "fetch"}
    BY <1>1, AskStepEffect
  <2>3. /\ todo'[r] = C /\ snap'[r] = snap[r] \union C /\ days'[r] = days[r] \ A
        /\ pc'[r] = "fetch" /\ batch'[r] = {} /\ dels'[r] = {} /\ seen'[r] = {}
        /\ cleared'[r] = cleared[r] /\ ins'[r] = ins[r] /\ entry'[r] = entry[r]
    BY <2>1, <2>2 DEF Asked
  <2>4. RunOK(r)'
    BY <1>0, <2>2, <2>3 DEF RunOK, Ended
  <2>5. CursorOK(r)'
    <3>1. (Owed(r) \subseteq snap[r] /\ todo[r] \intersect batch[r] = {})'
      BY <2>3 DEF Owed
    <3>2. \A t \in snap'[r] : t.by = r /\ DayOf(t) \notin days'[r]
      BY <1>0, <2>1, <2>3 DEF CursorOK, Asked
    <3>3. \A t, u \in snap'[r] : SameKey(t, u) => t = u
      <4>1. \A t \in snap[r], u \in C : ~SameKey(t, u) /\ ~SameKey(u, t)
        BY <1>0, <2>1 DEF CursorOK, Asked, SameKey, DayOf
      <4>2. QED
        BY <1>0, <2>1, <2>3, <4>1 DEF CursorOK, Asked
    <3>4. \A t \in snap'[r] : DayOf(t) \notin cleared'[r] => t \in Owed(r)'
      <4>1. pc[r] \notin Aborted
        BY <2>2 DEF Aborted
      <4>2. QED
        BY <1>0, <2>2, <2>3, <4>1 DEF CursorOK, Owed
    <3>5. QED
      BY <2>3, <3>1, <3>2, <3>3, <3>4 DEF CursorOK
  <2>6. QED
    BY <2>4, <2>5
<1>2. CASE Fetch(r)
  <2>0. pc[r] = "fetch" /\ batch[r] = {} /\ dels[r] = {} /\ seen[r] = {} /\ ins[r] = {}
    BY <1>0, <1>2 DEF Fetch, RunOK
  <2>1. ASSUME NEW B \in SUBSET todo[r], NextBatch(r, B)
        PROVE  RunOK(r)' /\ CursorOK(r)'
    <3>1. /\ todo'[r] = todo[r] \ B /\ batch'[r] = B /\ pc'[r] = "clear"
          /\ dels'[r] = {} /\ seen'[r] = {} /\ ins'[r] = {} /\ days'[r] = days[r]
          /\ cleared'[r] = cleared[r] /\ entry'[r] = entry[r] /\ snap'[r] = snap[r]
      BY <2>0, <2>1 DEF NextBatch, observed
    <3>2. Owed(r)' = Owed(r)
      BY <2>0, <3>1 DEF Owed
    <3>3. RunOK(r)'
      BY <1>0, <2>0, <3>1 DEF RunOK, Ended
    <3>4. CursorOK(r)'
      BY <1>0, <2>0, <3>1, <3>2 DEF CursorOK, Aborted
    <3>5. QED
      BY <3>3, <3>4
  <2>2. CASE LoadEnds(r)
    <3>1. /\ pc'[r] = "refresh" /\ todo[r] = {} /\ days[r] = {} /\ todo'[r] = todo[r]
          /\ days'[r] = days[r] /\ batch'[r] = batch[r]
          /\ dels'[r] = {} /\ seen'[r] = {} /\ ins'[r] = {}
          /\ cleared'[r] = cleared[r] /\ entry'[r] = entry[r] /\ snap'[r] = snap[r]
      BY <2>0, <2>2 DEF LoadEnds, observed
    <3>2. RunOK(r)'
      BY <1>0, <2>0, <3>1 DEF RunOK, Ended
    <3>3. CursorOK(r)'
      BY <1>0, <2>0, <3>1 DEF CursorOK, Owed, Aborted
    <3>4. QED
      BY <3>2, <3>3
  <2>3. QED
    BY <1>2, <2>1, <2>2, FetchEffect
<1>3. CASE Delete(r)
  <2>1. PICK d \in Uncleared(r) :
          /\ cleared' = [cleared EXCEPT ![r] = @ \union {d}]
          /\ seen' = [seen EXCEPT ![r] = {t \in table \ dels[r] : DayOf(t) = d}]
    BY <1>3 DEF Delete
  <2>2. /\ pc[r] = "clear" /\ pc'[r] = "delete" /\ cleared'[r] = cleared[r] \union {d}
        /\ \A t \in seen'[r] : DayOf(t) = d
        /\ todo'[r] = todo[r] /\ batch'[r] = batch[r] /\ days'[r] = days[r]
        /\ dels'[r] = dels[r] /\ ins'[r] = ins[r] /\ entry'[r] = entry[r]
        /\ snap'[r] = snap[r]
    BY <1>3, <2>1 DEF Delete, Goto, observed
  <2>3. RunOK(r)'
    BY <1>0, <2>2 DEF RunOK, Ended
  <2>4. CursorOK(r)'
    <3>1. d \notin cleared[r] /\ \E u \in batch[r] : DayOf(u) = d
      BY <2>1 DEF Uncleared
    <3>2. DayIn(snap[r], d) \subseteq Owed(r)
      BY <1>0, <2>2, <3>1 DEF CursorOK, Aborted, DayIn
    <3>3. Owed(r)' = Owed(r)
      BY <2>2 DEF Owed
    <3>4. \A t \in dels'[r] \union seen'[r] :
            /\ DayOf(t) \in cleared'[r]
            /\ \E u \in batch'[r] : DayOf(u) = DayOf(t)
            /\ DayIn(snap'[r], DayOf(t)) \subseteq Owed(r)'
      BY <1>0, <2>2, <3>1, <3>2, <3>3 DEF CursorOK
    <3>5. QED
      BY <1>0, <2>2, <3>3, <3>4 DEF CursorOK, Aborted
  <2>5. QED
    BY <2>3, <2>4
<1>4. CASE Deleted(r)
  <2>1. /\ pc[r] = "delete" /\ pc'[r] = "clear" /\ cleared'[r] = cleared[r]
        /\ seen'[r] = {} /\ dels'[r] = dels[r] \union (seen[r] \intersect table)
        /\ todo'[r] = todo[r] /\ batch'[r] = batch[r] /\ days'[r] = days[r]
        /\ ins'[r] = ins[r] /\ entry'[r] = entry[r] /\ snap'[r] = snap[r]
    BY <1>4 DEF Deleted, Goto, observed
  <2>2. RunOK(r)'
    BY <1>0, <2>1 DEF RunOK, Ended
  <2>3. Owed(r)' = Owed(r)
    BY <2>1 DEF Owed
  <2>4. CursorOK(r)'
    BY <1>0, <2>1, <2>3 DEF CursorOK, Aborted
  <2>5. QED
    BY <2>2, <2>4
<1>5. CASE Insert(r)
  <2>1. /\ pc[r] = "clear" /\ pc'[r] = "commit" /\ cleared'[r] = cleared[r]
        /\ ins'[r] = batch[r] /\ dels'[r] = dels[r] /\ seen'[r] = seen[r]
        /\ todo'[r] = todo[r] /\ batch'[r] = batch[r] /\ days'[r] = days[r]
        /\ entry'[r] = entry[r] /\ snap'[r] = snap[r] /\ Uncleared(r) = {}
    BY <1>5 DEF Insert, Goto, observed
  <2>2. RunOK(r)'
    BY <1>0, <2>1 DEF RunOK, Ended, Uncleared
  <2>3. Owed(r)' = Owed(r)
    BY <2>1 DEF Owed
  <2>4. CursorOK(r)'
    BY <1>0, <2>1, <2>3 DEF CursorOK, Aborted
  <2>5. QED
    BY <2>2, <2>4
<1>6. CASE Commit(r)
  <2>1. /\ pc[r] = "commit" /\ pc'[r] = "fetch" /\ cleared'[r] = cleared[r]
        /\ ins'[r] = {} /\ dels'[r] = {} /\ seen'[r] = {} /\ batch'[r] = {}
        /\ todo'[r] = todo[r] /\ days'[r] = days[r]
        /\ entry'[r] = entry[r] /\ snap'[r] = snap[r]
    BY <1>6 DEF Commit, Rollback, Goto, observed
  <2>2. RunOK(r)'
    BY <1>0, <2>1 DEF RunOK, Ended
  <2>3. Owed(r)' = todo[r]
    BY <2>1 DEF Owed
  <2>4. \A t \in batch[r] : DayOf(t) \in cleared[r]
    BY <1>0, <2>1 DEF RunOK, Uncleared
  <2>5. \A t \in snap'[r] : DayOf(t) \notin cleared'[r] => t \in Owed(r)'
    BY <1>0, <2>1, <2>3, <2>4 DEF CursorOK, Owed, Aborted
  <2>6. CursorOK(r)'
    BY <1>0, <2>1, <2>3, <2>5 DEF CursorOK, Owed
  <2>7. QED
    BY <2>2, <2>6
<1>7. CASE RefreshStep(r) \/ Report(r)
  <2>1. /\ \/ pc[r] = "refresh" /\ pc'[r] = "functions"
           \/ pc[r] \in {"refresh", "functions"} /\ pc'[r] = "report"
           \/ pc[r] = "report" /\ pc'[r] = "done" /\ entry'[r] = NoEntry
        /\ cleared'[r] = cleared[r]
        /\ ins'[r] = ins[r] /\ dels'[r] = dels[r] /\ seen'[r] = seen[r]
        /\ batch'[r] = batch[r] /\ todo'[r] = todo[r] /\ days'[r] = days[r]
        /\ snap'[r] = snap[r]
    BY <1>7 DEF RefreshStep, RefreshMatviews, RefreshFunctions, RefreshRaises, Report,
                Goto, observed
  <2>2. pc'[r] = "functions" => entry'[r].function = "none"
    <3>1. pc'[r] = "functions" => RefreshMatviews(r) /\ entry[r] = NoEntry
      BY <1>0, <1>7, <2>1 DEF RefreshStep, RefreshFunctions, RefreshRaises, Report, Goto, RunOK
    <3>2. RefreshMatviews(r) => \/ entry' = entry
                                \/ \E v : entry' = [entry EXCEPT ![r].matview = v]
      BY DEF RefreshMatviews
    <3>3. QED
      BY <3>1, <3>2 DEF NoEntry, Entry
  <2>3. RunOK(r)'
    BY <1>0, <2>1, <2>2 DEF RunOK, Ended
  <2>4. Owed(r)' = Owed(r)
    BY <2>1 DEF Owed
  <2>5. CursorOK(r)'
    BY <1>0, <2>1, <2>4 DEF CursorOK, Aborted
  <2>6. QED
    BY <2>3, <2>5
<1>8. CASE AbortStep(r)
  <2>1. PICK l \in Aborted : GivesBack(r, l)
    BY <1>8, AbortEffect
  <2>2. /\ pc'[r] \in Aborted
        /\ ins'[r] = {} /\ dels'[r] = {} /\ seen'[r] = {} /\ batch'[r] = {}
        /\ cleared'[r] = cleared[r] /\ todo'[r] = todo[r] /\ days'[r] = days[r]
        /\ entry'[r] = NoEntry /\ snap'[r] = snap[r]
    BY <2>1 DEF GivesBack, observed
  <2>3. RunOK(r)'
    BY <1>0, <2>2 DEF RunOK, Ended, Aborted
  <2>4. CursorOK(r)'
    BY <1>0, <2>2 DEF CursorOK, Owed
  <2>5. QED
    BY <2>3, <2>4
<1>9. QED
  BY <1>1, <1>2, <1>3, <1>4, <1>5, <1>6, <1>7, <1>8 DEF RunStep

LEMMA RunsStep ==
  ASSUME TypeOK, RunsInv, NEW r \in Runs, RunStep(r)
  PROVE  RunsInv'
<1>1. \A q \in Runs : RunOK(q)' /\ CursorOK(q)'
  BY RunStepKeeps, OthersUntouched, UntouchedKeeps DEF RunsInv
<1>2. QED
  BY <1>1 DEF RunsInv

-----------------------------------------------------------------------------
(* The table.                                                              *)

Committed(r) == (table \ dels[r]) \union ins[r]

\* Nothing but a commit changes the table.
LEMMA TableChanges ==
  ASSUME TypeOK, RunsInv, NEW r \in Runs, RunStep(r)
  PROVE  table' = table \/ (Commit(r) /\ table' = Committed(r))
<1>1. CASE AskStep(r)
  BY <1>1, AskStepEffect DEF Asked
<1>2. CASE Fetch(r)
  BY <1>2 DEF Fetch
<1>3. CASE AbortStep(r)
  BY <1>3, AbortEffect DEF GivesBack
<1>4. CASE Commit(r)
  BY <1>4 DEF Commit, Committed
<1>5. CASE Delete(r) \/ Deleted(r) \/ Insert(r) \/ RefreshStep(r) \/ Report(r)
  BY <1>5, RefreshEffect DEF Delete, Deleted, Insert, Report
<1>6. QED
  BY <1>1, <1>2, <1>3, <1>4, <1>5 DEF RunStep

LEMMA CommitEffect ==
  ASSUME TypeOK, RunsInv, NEW r \in Runs, Commit(r)
  PROVE  /\ table' = Committed(r) /\ pc[r] = "commit" /\ pc'[r] = "fetch"
         /\ ins[r] = batch[r] /\ ins[r] \subseteq snap[r] /\ seen[r] = {}
         /\ ins'[r] = {} /\ dels'[r] = {} /\ batch'[r] = {} /\ seen'[r] = {}
         /\ snap' = snap /\ todo' = todo /\ cleared' = cleared /\ pipeline' = pipeline
         /\ alone' = alone /\ built' = built
         /\ \A t \in batch[r] : DayOf(t) \in cleared[r]
<1>1. RunOK(r) /\ CursorOK(r)
  BY DEF RunsInv
<1>2. /\ table' = Committed(r) /\ pc[r] = "commit" /\ pc'[r] = "fetch"
      /\ ins'[r] = {} /\ dels'[r] = {} /\ batch'[r] = {} /\ seen'[r] = {}
      /\ snap' = snap /\ todo' = todo /\ cleared' = cleared /\ pipeline' = pipeline
      /\ alone' = alone /\ built' = built
  BY DEF Commit, Committed, Rollback, Goto, TypeOK, observed
<1>3. ins[r] = batch[r] /\ seen[r] = {} /\ Uncleared(r) = {}
  BY <1>1, <1>2 DEF RunOK
<1>4. ins[r] \subseteq snap[r]
  BY <1>1, <1>3 DEF CursorOK, Owed
<1>5. QED
  BY <1>2, <1>3, <1>4 DEF Uncleared

\* The first rows of every day a transaction deletes are in its batch.
LEMMA DaysStay ==
  ASSUME TypeOK, RunsInv, NEW r \in Runs, RunStep(r),
         NEW d \in Days, DayIn(table, d) # {}
  PROVE  DayIn(table', d) # {}
<1>1. CASE table' = table
  BY <1>1
<1>2. CASE Commit(r) /\ table' = Committed(r)
  <2>1. PICK t \in table : DayOf(t) = d
    BY DEF DayIn
  <2>2. CASE t \in dels[r]
    <3>1. \E u \in batch[r] : DayOf(u) = d
      BY <2>1, <2>2 DEF RunsInv, CursorOK
    <3>2. batch[r] \subseteq table'
      BY <1>2, CommitEffect DEF Committed
    <3>3. QED
      BY <3>1, <3>2 DEF DayIn
  <2>3. CASE t \notin dels[r]
    BY <1>2, <2>1, <2>3 DEF Committed, DayIn
  <2>4. QED
    BY <2>2, <2>3
<1>3. QED
  BY <1>1, <1>2, TableChanges

\* A snapshot only grows.
LEMMA SnapGrows ==
  ASSUME TypeOK, RunsInv, NEW r \in Runs, RunStep(r)
  PROVE  \A q \in Runs : snap[q] \subseteq snap'[q]
<1>1. snap[r] \subseteq snap'[r]
  <2>1. CASE AskStep(r)
    BY <2>1, AskStepEffect DEF Asked, TypeOK
  <2>2. CASE AbortStep(r)
    BY <2>2, AbortEffect DEF GivesBack, observed
  <2>3. CASE Fetch(r) \/ Delete(r) \/ Deleted(r) \/ Insert(r) \/ Commit(r) \/ RefreshStep(r) \/ Report(r)
    BY <2>3, RefreshEffect DEF Fetch, Delete, Deleted, Insert, Commit, Report, observed
  <2>4. QED
    BY <2>1, <2>2, <2>3 DEF RunStep
<1>2. QED
  BY <1>1, OthersUntouched DEF Untouched

LEMMA RowsStep ==
  ASSUME TypeOK, RunsInv, RowsInv, NEW r \in Runs, RunStep(r)
  PROVE  RowsInv'
<1> SUFFICES ASSUME NEW t \in table', t.by # Before
             PROVE  t.by \in Runs /\ t \in snap'[t.by]
  BY DEF RowsInv
<1>1. CASE t \in table
  BY <1>1, SnapGrows DEF RowsInv
<1>2. CASE t \notin table
  <2>1. Commit(r) /\ t \in ins[r]
    BY <1>2, TableChanges DEF Committed
  <2>2. t \in snap[r] /\ t.by = r
    BY <2>1, CommitEffect DEF RunsInv, CursorOK
  <2>3. QED
    BY <2>2, SnapGrows
<1>3. QED
  BY <1>1, <1>2

-----------------------------------------------------------------------------
(* The primary key.                                                        *)

LEMMA KeyStep ==
  ASSUME TypeOK, RunsInv, KeyInv, NEW r \in Runs, RunStep(r)
  PROVE  KeyInv'
<1> SUFFICES ASSUME Keyed'
             PROVE  /\ \A t, u \in table' : SameKey(t, u) => t = u
                    /\ \A q \in Runs : \A t \in ins'[q], u \in table' \ dels'[q] : ~SameKey(t, u)
                    /\ \A q, o \in Runs : q # o =>
                         \A t \in ins'[q], u \in ins'[o] : ~SameKey(t, u)
  BY DEF KeyInv, SameKey
<1>1. pipeline' = pipeline
  <2>1. CASE AskStep(r)
    BY <2>1, AskStepEffect DEF Asked
  <2>2. CASE AbortStep(r)
    BY <2>2, AbortEffect DEF GivesBack
  <2>3. CASE Fetch(r) \/ Delete(r) \/ Deleted(r) \/ Insert(r) \/ Commit(r) \/ RefreshStep(r) \/ Report(r)
    BY <2>3, RefreshEffect DEF Fetch, Delete, Deleted, Insert, Commit, Report
  <2>4. QED
    BY <2>1, <2>2, <2>3 DEF RunStep
<1>2. Keyed
  BY <1>1 DEF Keyed
<1>3. /\ \A t, u \in table : SameKey(t, u) => t = u
      /\ \A q \in Runs : \A t \in ins[q], u \in table \ dels[q] : ~SameKey(t, u)
      /\ \A q, o \in Runs : q # o => \A t \in ins[q], u \in ins[o] : ~SameKey(t, u)
  BY <1>2 DEF KeyInv
<1>4. \A q \in Runs : q # r => ins'[q] = ins[q] /\ dels'[q] = dels[q]
  BY OthersUntouched DEF Untouched
<1>5. CASE Insert(r)
  <2>1. /\ ins'[r] = batch[r] /\ dels'[r] = dels[r] /\ table' = table
        /\ WaitsFor(r) = {} /\ ~Collides(r) /\ pc[r] = "clear" /\ Uncleared(r) = {}
    BY <1>5 DEF Insert, Goto, TypeOK
  <2>2. \A t \in ins'[r], u \in table' \ dels'[r] : ~SameKey(t, u)
    BY <1>2, <2>1 DEF Collides
  <2>3. \A o \in Others(r) : \A t \in batch[r] : \A u \in ins[o] \union dels[o] : ~SameKey(t, u)
    BY <1>2, <2>1 DEF WaitsFor
  <2>4. \A o \in Runs : o # r => \A t \in ins'[r], u \in ins'[o] : ~SameKey(t, u) /\ ~SameKey(u, t)
    BY <1>4, <2>1, <2>3 DEF Others, SameKey
  <2>5. \A q \in Runs : q # r => \A t \in ins'[q], u \in table' \ dels'[q] : ~SameKey(t, u)
    BY <1>3, <1>4, <2>1
  <2>6. QED
    BY <1>3, <1>4, <2>1, <2>2, <2>4, <2>5
<1>6. CASE Commit(r)
  <2>1. /\ table' = (table \ dels[r]) \union ins[r] /\ ins'[r] = {} /\ dels'[r] = {}
        /\ ins[r] \subseteq snap[r]
    BY <1>6, CommitEffect DEF Committed
  <2>2. \A t, u \in ins[r] : SameKey(t, u) => t = u
    BY <2>1 DEF RunsInv, CursorOK
  <2>3. \A t \in ins[r], u \in table \ dels[r] : ~SameKey(t, u) /\ ~SameKey(u, t)
    BY <1>3 DEF SameKey
  <2>4. \A t, u \in table' : SameKey(t, u) => t = u
    BY <1>3, <2>1, <2>2, <2>3
  <2>5. \A q \in Runs : q # r => \A t \in ins'[q], u \in table' \ dels'[q] : ~SameKey(t, u)
    BY <1>3, <1>4, <2>1
  <2>6. QED
    BY <1>3, <1>4, <2>1, <2>4, <2>5
<1>7. CASE ~Insert(r) /\ ~Commit(r)
  <2>1. table' = table
    BY <1>7, TableChanges
  <2>2. ins'[r] = {}
    <3>1. CASE AskStep(r)
      BY <3>1, AskStepEffect DEF Asked, RunsInv, RunOK
    <3>2. CASE AbortStep(r)
      BY <3>2, AbortEffect DEF GivesBack, TypeOK
    <3>3. CASE Fetch(r) \/ Delete(r) \/ Deleted(r) \/ RefreshStep(r) \/ Report(r)
      BY <3>3, RefreshEffect DEF Fetch, Delete, Deleted, Report, RunsInv, RunOK
    <3>4. QED
      BY <1>7, <3>1, <3>2, <3>3 DEF RunStep
  <2>3. QED
    BY <1>3, <1>4, <2>1, <2>2
<1>8. QED
  BY <1>5, <1>6, <1>7

-----------------------------------------------------------------------------
(* A run that is alone.                                                    *)

LEMMA ActiveOrExtract ==
  ASSUME TypeOK, RunsInv, NEW r \in Runs, RunStep(r)
  PROVE  Extract(r) \/ (Active(r) /\ alone' = alone)
<1>1. CASE Extract(r)
  BY <1>1
<1>2. CASE ExtractNext(r) \/ Fetch(r)
  BY <1>2 DEF ExtractNext, Fetch, observed, Active, Ended
<1>3. CASE Delete(r) \/ Deleted(r) \/ Insert(r) \/ Commit(r) \/ RefreshStep(r) \/ Report(r)
  BY <1>3, RefreshEffect DEF Delete, Deleted, Insert, Commit, Report, observed, Active, Ended
<1>4. CASE AbortStep(r)
  BY <1>4, AbortEffect DEF GivesBack, observed
<1>5. QED
  BY <1>1, <1>2, <1>3, <1>4 DEF RunStep, AskStep

\* Beside a run that is alone, no other run takes a step.
LEMMA AloneStep ==
  ASSUME TypeOK, RunsInv, LoneInv, NEW r \in Runs, RunStep(r),
         NEW q \in Runs, alone'[q], Active(q)'
  PROVE  /\ q = r
         /\ \A o \in Others(q) : ~Active(o)'
         /\ Extract(q) \/ (alone[q] /\ Active(q))
<1>1. q = r
  <2> SUFFICES ASSUME q # r PROVE FALSE
    OBVIOUS
  <2>1. Active(q)
    BY OthersUntouched DEF Untouched, Active
  <2>2. CASE Extract(r)
    BY <2>1, <2>2 DEF Extract
  <2>3. CASE Active(r) /\ alone' = alone
    BY <2>1, <2>3 DEF LoneInv, LoneOK, Others
  <2>4. QED
    BY <2>2, <2>3, ActiveOrExtract
<1>2. Extract(q) \/ (alone[q] /\ Active(q))
  BY <1>1, ActiveOrExtract
<1>3. \A o \in Others(q) : ~Active(o)
  <2>1. CASE Extract(q)
    BY <2>1 DEF Extract
  <2>2. CASE alone[q] /\ Active(q)
    BY <2>2 DEF LoneInv, LoneOK
  <2>3. QED
    BY <1>2, <2>1, <2>2
<1>4. \A o \in Others(q) : ~Active(o)'
  BY <1>1, <1>3, OthersUntouched DEF Others, Untouched, Active
<1>5. QED
  BY <1>1, <1>2, <1>4

LEMMA LoneStep ==
  ASSUME TypeOK, RunsInv, LoneInv, NEW r \in Runs, RunStep(r)
  PROVE  LoneInv'
<1> SUFFICES ASSUME NEW q \in Runs, alone'[q], Active(q)' PROVE LoneOK(q)'
  BY DEF LoneInv, LoneOK
<1>1. q = r /\ \A o \in Others(r) : ~Active(o)'
  BY AloneStep
<1>2. Extract(r) \/ (alone[r] /\ Active(r))
  BY AloneStep
<1>3. RunOK(r) /\ CursorOK(r)
  BY DEF RunsInv
<1>4. alone[r] /\ Active(r) => \A d \in cleared[r] :
         DayIn((table \ dels[r]) \ seen[r], d) = DayIn(snap[r], d) \ Owed(r)
  BY DEF LoneInv, LoneOK
<1> SUFFICES ASSUME NEW d \in cleared'[r]
             PROVE  DayIn((table' \ dels'[r]) \ seen'[r], d) = DayIn(snap'[r], d) \ Owed(r)'
  BY <1>1 DEF LoneOK
<1>5. CASE AskStep(r)
  <2>1. PICK C \in SUBSET Tuple, A \in SUBSET days[r] : Asked(r, C, A)
    BY <1>5, AskStepEffect
  <2>2. todo[r] = {} /\ batch[r] = {} /\ dels[r] = {} /\ seen[r] = {}
    BY <1>5, AskStepEffect
  <2>3. /\ todo'[r] = C /\ snap'[r] = snap[r] \union C /\ table' = table
        /\ batch'[r] = {} /\ dels'[r] = {} /\ seen'[r] = {} /\ cleared'[r] = cleared[r]
    BY <2>1, <2>2 DEF Asked, TypeOK
  <2>4. ~Extract(r)
    BY <1>3, <2>3 DEF Extract, RunOK
  <2>5. DayIn(table, d) = DayIn(snap[r], d)
    BY <1>2, <1>4, <2>2, <2>3, <2>4 DEF Owed, DayIn
  <2>6. \A t \in snap[r] : t \notin C
    BY <1>3, <2>1 DEF CursorOK, Asked
  <2>7. DayIn(snap'[r], d) \ Owed(r)' = DayIn(snap[r], d)
    BY <2>3, <2>6 DEF Owed, DayIn
  <2>8. QED
    BY <2>3, <2>5, <2>7 DEF DayIn
<1>6. CASE ~AskStep(r)
  <2>0. \A e \in cleared[r] :
          DayIn((table \ dels[r]) \ seen[r], e) = DayIn(snap[r], e) \ Owed(r)
    BY <1>2, <1>4, <1>6 DEF AskStep
  <2>1. CASE Fetch(r)
    <3>0. cleared' = cleared /\ table' = table /\ dels' = dels /\ seen' = seen /\ snap' = snap
      BY <2>1 DEF Fetch, observed
    <3>1. Owed(r)' = Owed(r)
      <4>1. batch[r] = {}
        BY <1>3, <2>1 DEF Fetch, RunOK
      <4>2. ASSUME NEW B \in SUBSET todo[r], NextBatch(r, B) PROVE Owed(r)' = Owed(r)
        BY <4>1, <4>2 DEF NextBatch, TypeOK, Owed
      <4>3. CASE LoadEnds(r)
        BY <4>3 DEF LoadEnds, Owed
      <4>4. QED
        BY <2>1, <4>2, <4>3, FetchEffect
    <3>2. QED
      BY <2>0, <3>0, <3>1
  <2>2. CASE Delete(r)
    <3>1. PICK f \in Uncleared(r) :
            /\ cleared' = [cleared EXCEPT ![r] = @ \union {f}]
            /\ seen' = [seen EXCEPT ![r] = {t \in table \ dels[r] : DayOf(t) = f}]
      BY <2>2 DEF Delete
    <3>2. /\ cleared'[r] = cleared[r] \union {f} /\ table' = table /\ dels' = dels
          /\ seen'[r] = {t \in table \ dels[r] : DayOf(t) = f} /\ snap' = snap
          /\ todo' = todo /\ batch' = batch /\ pc[r] = "clear"
      BY <2>2, <3>1 DEF Delete, TypeOK, observed
    <3>3. Owed(r)' = Owed(r) /\ seen[r] = {}
      BY <1>3, <3>2 DEF Owed, RunOK
    <3>4. CASE d = f
      <4>1. DayIn((table \ dels[r]) \ seen'[r], d) = {}
        BY <3>2, <3>4 DEF DayIn
      <4>2. DayIn(snap[r], d) \subseteq Owed(r)
        BY <1>3, <3>1, <3>2, <3>4 DEF CursorOK, Aborted, DayIn, Uncleared
      <4>3. QED
        BY <3>2, <3>3, <4>1, <4>2
    <3>5. CASE d # f
      <4>1. DayIn((table \ dels[r]) \ seen[r], d) = DayIn(snap[r], d) \ Owed(r)
        BY <2>0, <3>2, <3>5
      <4>2. DayIn((table \ dels[r]) \ seen'[r], d) = DayIn((table \ dels[r]) \ seen[r], d)
        BY <3>2, <3>3, <3>5 DEF DayIn
      <4>3. QED
        BY <3>2, <3>3, <4>1, <4>2
    <3>6. QED
      BY <3>4, <3>5
  <2>3. CASE Deleted(r)
    <3>1. /\ cleared' = cleared /\ table' = table /\ snap' = snap /\ seen'[r] = {}
          /\ dels'[r] = dels[r] \union (seen[r] \intersect table)
          /\ todo' = todo /\ batch' = batch
      BY <2>3 DEF Deleted, TypeOK, observed
    <3>2. (table' \ dels'[r]) \ seen'[r] = (table \ dels[r]) \ seen[r]
      BY <3>1
    <3>3. QED
      BY <2>0, <3>1, <3>2 DEF Owed
  <2>4. CASE Insert(r) \/ RefreshStep(r) \/ Report(r)
    <3>1. /\ cleared' = cleared /\ table' = table /\ snap' = snap /\ seen' = seen
          /\ dels' = dels /\ todo' = todo /\ batch' = batch
      BY <2>4, RefreshEffect DEF Insert, Report, observed
    <3>2. QED
      BY <2>0, <3>1 DEF Owed
  <2>5. CASE Commit(r)
    <3>1. /\ table' = (table \ dels[r]) \union batch[r] /\ snap' = snap /\ cleared' = cleared
          /\ todo' = todo /\ batch'[r] = {} /\ dels'[r] = {} /\ seen'[r] = {} /\ seen[r] = {}
      BY <2>5, CommitEffect DEF Committed
    <3>2. DayIn(table \ dels[r], d) = DayIn(snap[r], d) \ Owed(r)
      BY <2>0, <3>1 DEF DayIn
    <3>3. batch[r] \subseteq snap[r] /\ todo[r] \intersect batch[r] = {}
      BY <1>3 DEF CursorOK, Owed
    <3>4. Owed(r)' = todo[r]
      BY <3>1 DEF Owed
    <3>5. DayIn(table', d) = DayIn(snap[r], d) \ todo[r]
      BY <3>1, <3>2, <3>3 DEF DayIn, Owed
    <3>6. (table' \ dels'[r]) \ seen'[r] = table'
      BY <3>1
    <3>7. QED
      BY <3>1, <3>4, <3>5, <3>6
  <2>6. CASE AbortStep(r)
    <3>1. ~Active(r)'
      BY <2>6, AbortEffect DEF GivesBack, TypeOK, Active, Ended, Aborted
    <3>2. QED
      BY <1>1, <3>1
  <2>7. QED
    BY <1>6, <2>1, <2>2, <2>3, <2>4, <2>5, <2>6 DEF RunStep
<1>7. QED
  BY <1>5, <1>6

-----------------------------------------------------------------------------
(* Runs that agree.                                                        *)

\* What a step does to what the runs have read and owe.
LEMMA ReadAndOwed ==
  ASSUME TypeOK, RunsInv, NEW r \in Runs, RunStep(r), pc'[r] \notin Aborted
  PROVE  /\ \A q \in Runs : \A x \in snap'[q] : x \in snap[q] \/ x \in Owed(q)'
         /\ \A q \in Runs : \A y \in Owed(q) : y \in Owed(q)' \/ (Commit(r) /\ y \in batch[r])
         /\ \A q \in Runs : \A d \in Days : DayIn(snap[q], d) # {} =>
              DayIn(snap'[q], d) = DayIn(snap[q], d)
<1> SUFFICES /\ \A x \in snap'[r] : x \in snap[r] \/ x \in Owed(r)'
             /\ \A y \in Owed(r) : y \in Owed(r)' \/ (Commit(r) /\ y \in batch[r])
             /\ \A d \in Days : DayIn(snap[r], d) # {} =>
                  DayIn(snap'[r], d) = DayIn(snap[r], d)
  <2>1. \A q \in Runs : q # r => Owed(q)' = Owed(q) /\ snap'[q] = snap[q]
    BY OthersUntouched DEF Untouched, Owed
  <2>2. QED
    BY <2>1
<1>1. RunOK(r) /\ CursorOK(r)
  BY DEF RunsInv
<1>2. CASE AskStep(r)
  <2>1. PICK C \in SUBSET Tuple, A \in SUBSET days[r] : Asked(r, C, A)
    BY <1>2, AskStepEffect
  <2>2. /\ todo'[r] = C /\ snap'[r] = snap[r] \union C
    BY <2>1 DEF Asked, TypeOK
  <2>3. Owed(r) = {}
    BY <1>2, AskStepEffect DEF Owed
  <2>4. \A t \in snap[r], u \in C : DayOf(t) # DayOf(u)
    BY <1>1, <2>1 DEF CursorOK, Asked
  <2>5. \A d \in Days : DayIn(snap[r], d) # {} => DayIn(snap'[r], d) = DayIn(snap[r], d)
    BY <2>2, <2>4 DEF DayIn
  <2>6. QED
    BY <2>2, <2>3, <2>5 DEF Owed
<1>3. CASE Fetch(r)
  <2>1. snap' = snap
    BY <1>3 DEF Fetch, observed
  <2>2. ASSUME NEW B \in SUBSET todo[r], NextBatch(r, B) PROVE Owed(r) \subseteq Owed(r)'
    <3>1. batch[r] = {}
      BY <1>1, <1>3 DEF Fetch, RunOK
    <3>2. QED
      BY <2>2, <3>1 DEF NextBatch, TypeOK, Owed
  <2>3. CASE LoadEnds(r)
    BY <2>1, <2>3 DEF LoadEnds, Owed
  <2>4. QED
    BY <1>3, <2>1, <2>2, <2>3, FetchEffect
<1>4. CASE Delete(r) \/ Deleted(r) \/ Insert(r) \/ RefreshStep(r) \/ Report(r)
  <2>1. snap' = snap /\ todo' = todo /\ batch' = batch
    BY <1>4, RefreshEffect DEF Delete, Deleted, Insert, Report, observed
  <2>2. QED
    BY <2>1 DEF Owed
<1>5. CASE Commit(r)
  BY <1>5, CommitEffect DEF Owed
<1>6. ~AbortStep(r)
  BY AbortEffect DEF GivesBack, TypeOK
<1>7. QED
  BY <1>2, <1>3, <1>4, <1>5, <1>6 DEF RunStep

\* A step that aborts no run was taken when none had been.
LEMMA NobodyAborted ==
  ASSUME TypeOK, RunsInv, NEW r \in Runs, RunStep(r),
         \A q \in Runs : pc'[q] \notin Aborted
  PROVE  \A q \in Runs : pc[q] \notin Aborted
<1>1. pc[r] \notin Aborted
  BY ActiveOrExtract DEF Extract, Active, Ended, Aborted
<1>2. QED
  BY <1>1, OthersUntouched DEF Untouched

\* Nothing of the first load remains of a day that is cleared.
LEMMA BeforeGoes ==
  ASSUME TypeOK, RunsInv, LoadedInv, NEW r \in Runs, RunStep(r),
         NEW q \in Runs, pc[q] \notin Aborted, pc'[q] \notin Aborted,
         NEW t \in table', t.by = Before, DayOf(t) \in cleared'[q]
  PROVE  t \in dels'[q] \union seen'[q]
<1>1. t \in table /\ ~(Commit(r) /\ t \in dels[r])
  <2>1. Commit(r) => t \notin ins[r]
    BY CommitEffect, EtlAssumption DEF RunsInv, CursorOK, EtlAssumption
  <2>2. QED
    BY <2>1, TableChanges, CommitEffect DEF Committed
<1>2. DayOf(t) \in cleared[q] => t \in dels[q] \union seen[q]
  BY <1>1 DEF LoadedInv
<1>3. CASE q # r
  BY <1>2, <1>3, OthersUntouched DEF Untouched
<1>4. CASE q = r
  <2>1. CASE AskStep(r) \/ Fetch(r) \/ Insert(r) \/ RefreshStep(r) \/ Report(r)
    <3>1. cleared' = cleared /\ dels' = dels /\ seen' = seen
      BY <2>1, AskStepEffect, RefreshEffect DEF Asked, Fetch, Insert, Report
    <3>2. QED
      BY <1>2, <1>4, <3>1
  <2>2. CASE Delete(r)
    <3>1. PICK d \in Uncleared(r) :
            /\ cleared' = [cleared EXCEPT ![r] = @ \union {d}]
            /\ seen' = [seen EXCEPT ![r] = {u \in table \ dels[r] : DayOf(u) = d}]
      BY <2>2 DEF Delete
    <3>2. cleared'[r] = cleared[r] \union {d} /\ dels' = dels /\ pc[r] = "clear"
          /\ seen'[r] = {u \in table \ dels[r] : DayOf(u) = d}
      BY <2>2, <3>1 DEF Delete, TypeOK
    <3>3. seen[r] = {}
      BY <3>2 DEF RunsInv, RunOK
    <3>4. QED
      BY <1>1, <1>2, <1>4, <3>2, <3>3
  <2>3. CASE Deleted(r)
    BY <1>1, <1>2, <1>4, <2>3 DEF Deleted, TypeOK
  <2>4. CASE Commit(r)
    BY <1>1, <1>2, <1>4, <2>4, CommitEffect
  <2>5. ~AbortStep(r)
    BY <1>4, AbortEffect DEF GivesBack, TypeOK
  <2>6. QED
    BY <2>1, <2>2, <2>3, <2>4, <2>5 DEF RunStep
<1>5. QED
  BY <1>3, <1>4

\* A day a run has committed rows of keeps some, and none of the first load's.
LEMMA LoadedStep ==
  ASSUME TypeOK, RunsInv, LoadedInv, NEW r \in Runs, RunStep(r)
  PROVE  LoadedInv'
<1> SUFFICES ASSUME NEW q \in Runs, pc'[q] \notin Aborted
             PROVE  /\ \A t \in table' :
                         t.by = Before /\ DayOf(t) \in cleared'[q] => t \in dels'[q] \union seen'[q]
                    /\ \A x \in snap'[q] \ Owed(q)' : DayIn(table', DayOf(x)) # {}
  BY DEF LoadedInv
<1>1. pc[q] \notin Aborted
  <2>1. pc[r] \notin Aborted
    BY ActiveOrExtract DEF Extract, Active, Ended, Aborted
  <2>2. QED
    BY <2>1, OthersUntouched DEF Untouched
<1>2. \A x \in snap'[q] \ Owed(q)' : x \in snap[q] \ Owed(q) \/ (Commit(r) /\ x \in batch[r])
  <2>1. CASE q = r
    BY <2>1, ReadAndOwed
  <2>2. CASE q # r
    BY <2>2, OthersUntouched DEF Untouched, Owed
  <2>3. QED
    BY <2>1, <2>2
<1>3. \A x \in snap'[q] \ Owed(q)' : DayIn(table', DayOf(x)) # {}
  <2> SUFFICES ASSUME NEW x \in snap'[q] \ Owed(q)' PROVE DayIn(table', DayOf(x)) # {}
    OBVIOUS
  <2>1. CASE x \in snap[q] \ Owed(q)
    <3>1. DayOf(x) \in Days
      BY <2>1 DEF TypeOK, Tuple, DayOf, Rows
    <3>2. DayIn(table, DayOf(x)) # {}
      BY <1>1, <2>1 DEF LoadedInv
    <3>3. QED
      BY <3>1, <3>2, DaysStay
  <2>2. CASE Commit(r) /\ x \in batch[r]
    BY <2>2, CommitEffect DEF Committed, DayIn
  <2>3. QED
    BY <1>2, <2>1, <2>2
<1>4. QED
  BY <1>1, <1>3, BeforeGoes

-----------------------------------------------------------------------------
(* The views.                                                              *)

\* A run that is about to refresh, or has, finds its days in the table.
LEMMA LoadedDays ==
  ASSUME TypeOK, RunsInv, LoneInv, LoadedInv, NEW r \in Runs,
         pc[r] \in {"refresh", "functions", "report"}, NEW d \in Read(r)
  PROVE  Renewed(table, d) /\ (alone[r] => DayIn(table, d) = DayIn(snap[r], d))
<1>1. RunOK(r) /\ CursorOK(r) /\ LoneOK(r)
  BY DEF RunsInv, LoneInv
<1>2. Owed(r) = {} /\ dels[r] = {} /\ seen[r] = {} /\ pc[r] \notin Aborted
  BY <1>1 DEF RunOK, Owed, Aborted
<1>3. PICK x \in snap[r] : DayOf(x) = d
  BY DEF Read, DayIn
<1>4. d \in cleared[r]
  BY <1>1, <1>2, <1>3 DEF CursorOK
<1>5. Renewed(table, d)
  BY <1>2, <1>3, <1>4 DEF LoadedInv, Renewed, DayIn
<1>6. alone[r] => DayIn(table, d) = DayIn(snap[r], d)
  <2>1. Active(r)
    BY DEF Active, Ended
  <2>2. alone[r] => DayIn((table \ dels[r]) \ seen[r], d) = DayIn(snap[r], d) \ Owed(r)
    BY <1>1, <1>4, <2>1 DEF LoneOK
  <2>3. QED
    BY <1>2, <2>2
<1>7. QED
  BY <1>5, <1>6

\* What is rebuilt of a day is what the function found of it.
LEMMA RolledDay ==
  ASSUME NEW D, NEW d \in D,
         NEW from, from = IF pipeline \in Dependents THEN matview ELSE table,
         DayIn(from, d) # {}
  PROVE  DayIn(Rolled(D), d) = DayIn(from, d)
<1>1. from # {}
  BY DEF DayIn
<1>2. Rolled(D) = {t \in rollup : DayOf(t) \notin D} \union {t \in from : DayOf(t) \in D}
  BY <1>1 DEF Rolled
<1> HIDE DEF Rolled
<1>3. QED
  BY <1>2 DEF DayIn

\* The first steps of a run, and its last, leave the views alone.
LEMMA OtherStepsLeaveViews ==
  ASSUME TypeOK, RunsInv, NEW r \in Runs, RunStep(r), ~RefreshStep(r)
  PROVE  matview' = matview /\ rollup' = rollup /\ pc'[r] \notin {"functions", "report"}
<1>1. CASE AskStep(r)
  BY <1>1, AskStepEffect DEF Asked, TypeOK, built
<1>2. CASE Fetch(r)
  BY <1>2, FetchEffect DEF NextBatch, LoadEnds, TypeOK, built
<1>3. CASE AbortStep(r)
  BY <1>3, AbortEffect DEF GivesBack, TypeOK, Aborted, built
<1>4. CASE Delete(r) \/ Deleted(r) \/ Insert(r) \/ Commit(r) \/ Report(r)
  BY <1>4 DEF Delete, Deleted, Insert, Commit, Report, Goto, TypeOK, built
<1>5. QED
  BY <1>1, <1>2, <1>3, <1>4 DEF RunStep

\* A matview that is shown as refreshed was, after the load of the run.
LEMMA MatviewStep ==
  ASSUME TypeOK, RunsInv, LoneInv, LoadedInv, ViewsInv, NEW r \in Runs, RunStep(r),
         NEW q \in Runs
  PROVE  MatviewOK(q)'
<1> SUFFICES ASSUME Refreshing(q)', entry'[q].matview = "matview", NEW d \in Read(q)'
             PROVE  Renewed(matview', d)
  BY DEF MatviewOK, Renewed, DayIn
<1>1. CASE RefreshStep(r)
  <2>1. snap' = snap /\ table' = table
    BY <1>1, RefreshEffect
  <2>2. d \in Read(q)
    BY <2>1 DEF Read, DayIn
  <2>3. pc[q] \in {"refresh", "functions", "report"}
    BY <1>1, RefreshEffect, OthersUntouched DEF Untouched, Refreshing
  <2>4. CASE matview' = table
    BY <2>2, <2>3, <2>4, LoadedDays
  <2>5. CASE matview' # table
    <3>1. matview' = matview
      BY <1>1, <2>5, RefreshEffect
    <3>2. Refreshing(q) /\ entry[q].matview = "matview"
      <4>1. CASE q # r
        BY <4>1, OthersUntouched DEF Untouched, Refreshing
      <4>2. CASE q = r
        <5>1. ~RefreshRaises(r)
          BY <4>2 DEF RefreshRaises, NoEntry, TypeOK
        <5>2. CASE RefreshMatviews(r)
          <6>1. pc[r] = "refresh" /\ entry[r] = NoEntry
            BY <5>2 DEF RefreshMatviews, RunsInv, RunOK
          <6>2. \/ entry' = entry
                \/ \E v \in {"none", "failed"} : entry' = [entry EXCEPT ![r].matview = v]
            BY <2>5, <5>2 DEF RefreshMatviews
          <6>3. entry'[r].matview # "matview"
            BY <6>1, <6>2 DEF NoEntry, TypeOK, Entry
          <6>4. QED
            BY <4>2, <6>3
        <5>3. CASE RefreshFunctions(r)
          <6>1. pc[r] = "functions"
            BY <5>3 DEF RefreshFunctions
          <6>2. entry' = entry \/ \E v : entry' = [entry EXCEPT ![r].function = v]
            BY <5>3 DEF RefreshFunctions
          <6>3. entry'[r].matview = entry[r].matview
            BY <6>2 DEF TypeOK, Entry
          <6>4. QED
            BY <4>2, <6>1, <6>3 DEF Refreshing
        <5>4. QED
          BY <1>1, <5>1, <5>2, <5>3 DEF RefreshStep
      <4>3. QED
        BY <4>1, <4>2
    <3>3. QED
      BY <2>2, <3>1, <3>2 DEF ViewsInv, MatviewOK
  <2>6. QED
    BY <2>4, <2>5
<1>2. CASE ~RefreshStep(r)
  <2>1. q # r /\ matview' = matview
    BY <1>2, OtherStepsLeaveViews DEF Refreshing
  <2>2. Refreshing(q) /\ entry[q].matview = "matview" /\ d \in Read(q)
    BY <2>1, OthersUntouched DEF Untouched, Refreshing, Read, DayIn
  <2>3. QED
    BY <2>1, <2>2 DEF ViewsInv, MatviewOK
<1>3. QED
  BY <1>1, <1>2

\* The views of a run that is alone follow its load, as far as its entries say.
LEMMA LoneViewsStep ==
  ASSUME TypeOK, RunsInv, LoneInv, LoadedInv, ViewsInv, NEW r \in Runs, RunStep(r),
         NEW q \in Runs
  PROVE  LoneViewsOK(q)'
<1> SUFFICES ASSUME alone'[q], Refreshing(q)', NEW d \in Read(q)'
             PROVE  /\ entry'[q].matview = "matview" => DayIn(matview', d) = DayIn(snap'[q], d)
                    /\ Rebuilds(q, d)' => DayIn(rollup', d) = DayIn(snap'[q], d)
  BY DEF LoneViewsOK
<1>1. q = r
  BY AloneStep DEF Active, Ended, Refreshing
<1>2. RefreshStep(r)
  BY <1>1, OtherStepsLeaveViews DEF Refreshing
<1>3. snap' = snap /\ table' = table /\ alone' = alone /\ pipeline' = pipeline
  BY <1>2, RefreshEffect
<1>4. pc[r] \in {"refresh", "functions"}
  BY <1>2, RefreshEffect
<1>5. d \in Read(r) /\ d \in RangeOf[r] /\ d \in Days
  BY <1>1, <1>3, EtlAssumption DEF Read, DayIn, EtlAssumption
<1>6. DayIn(table, d) = DayIn(snap[r], d) /\ DayIn(table, d) # {}
  BY <1>1, <1>3, <1>4, <1>5, LoadedDays DEF Renewed
<1>7. CASE RefreshMatviews(r)
  <2>1. entry[r] = NoEntry
    BY <1>7 DEF RefreshMatviews, RunsInv, RunOK
  <2>2. /\ entry'[r].function = "none"
        /\ entry'[r].matview = "matview" => matview' = table
    BY <1>7, <2>1 DEF RefreshMatviews, NoEntry, TypeOK, Entry
  <2>3. QED
    BY <1>1, <1>3, <1>6, <2>2 DEF Rebuilds
<1>8. CASE RefreshFunctions(r)
  <2>1. matview' = matview /\ pc[r] = "functions" /\ alone[r]
    BY <1>1, <1>3, <1>8 DEF RefreshFunctions
  <2>2. entry[r].matview = "matview" => DayIn(matview, d) = DayIn(snap[r], d)
    BY <1>5, <2>1 DEF ViewsInv, LoneViewsOK, Refreshing
  <2>3. entry'[r].matview = entry[r].matview
    <3>1. entry' = entry \/ \E v : entry' = [entry EXCEPT ![r].function = v]
      BY <1>8 DEF RefreshFunctions
    <3>2. QED
      BY <3>1 DEF TypeOK, Entry
  <2>4. ASSUME Rebuilds(r, d)' PROVE DayIn(rollup', d) = DayIn(snap[r], d)
    <3>1. entry'[r].function \in {"full", "incremental"}
      BY <2>4 DEF Rebuilds
    <3>2. entry[r].function = "none"
      BY <2>1 DEF RunsInv, RunOK
    <3>3. PICK v \in {"full", "incremental"} :
            /\ rollup' \in {Rolled(D) : D \in Rebuilt(r)[v]}
            /\ entry' = [entry EXCEPT ![r].function = v]
      BY <1>8, <3>1, <3>2 DEF RefreshFunctions, TypeOK, Entry
    <3>4. entry'[r].function = v
      BY <3>3 DEF TypeOK, Entry
    <3>5. PICK D \in Rebuilt(r)[v] : rollup' = Rolled(D)
      BY <3>3
    <3>6. d \in D
      BY <1>5, <2>4, <3>4, <3>5 DEF Rebuilds, Rebuilt
    <3> DEFINE from == IF pipeline \in Dependents THEN matview ELSE table
    <3>7. DayIn(from, d) = DayIn(snap[r], d)
      BY <1>3, <1>6, <2>2, <2>3, <2>4 DEF Rebuilds
    <3>8. DayIn(from, d) # {}
      BY <1>6, <3>7
    <3> HIDE DEF from
    <3>9. DayIn(Rolled(D), d) = DayIn(from, d)
      BY <3>6, <3>8, RolledDay DEF from
    <3>10. QED
      BY <3>5, <3>7, <3>9
  <2>5. QED
    BY <1>1, <1>3, <2>1, <2>2, <2>3, <2>4
<1>9. CASE RefreshRaises(r)
  BY <1>1, <1>9 DEF RefreshRaises, Rebuilds, NoEntry, TypeOK
<1>10. QED
  BY <1>2, <1>7, <1>8, <1>9 DEF RefreshStep

LEMMA ViewsStep ==
  ASSUME TypeOK, RunsInv, LoneInv, LoadedInv, ViewsInv, NEW r \in Runs, RunStep(r)
  PROVE  ViewsInv'
<1>1. \A q \in Runs : MatviewOK(q)' /\ LoneViewsOK(q)'
  BY MatviewStep, LoneViewsStep
<1>2. QED
  BY <1>1 DEF ViewsInv

\* A refresh by hand takes nothing from what the runs say of theirs.
LEMMA ViewsByHand ==
  ASSUME IInv, UNCHANGED <<pipeline, table, run, observed>>,
         matview' = matview \/ (matview' = table),
         rollup' = rollup \/ (rollup' = Rolled(Days))
  PROVE  ViewsInv'
<1> USE DEF run, observed
<1> SUFFICES ASSUME NEW q \in Runs, Refreshing(q), NEW d \in Read(q)
             PROVE  /\ entry[q].matview = "matview" => Renewed(matview', d)
                    /\ alone[q] =>
                         /\ entry[q].matview = "matview" => DayIn(matview', d) = DayIn(snap[q], d)
                         /\ Rebuilds(q, d) => DayIn(rollup', d) = DayIn(snap[q], d)
  <2>1. \A q \in Runs : /\ Refreshing(q)' = Refreshing(q) /\ Read(q)' = Read(q)
                        /\ \A d : Rebuilds(q, d)' = Rebuilds(q, d)
    BY DEF Refreshing, Read, Rebuilds, DayIn
  <2>2. QED
    BY <2>1 DEF ViewsInv, MatviewOK, LoneViewsOK, Renewed, DayIn
<1>1. Renewed(table, d) /\ (alone[q] => DayIn(table, d) = DayIn(snap[q], d))
  BY LoadedDays DEF IInv, Refreshing
<1>2. entry[q].matview = "matview" => Renewed(matview, d)
  BY DEF IInv, ViewsInv, MatviewOK
<1>3. alone[q] => /\ entry[q].matview = "matview" => DayIn(matview, d) = DayIn(snap[q], d)
                  /\ Rebuilds(q, d) => DayIn(rollup, d) = DayIn(snap[q], d)
  BY DEF IInv, ViewsInv, LoneViewsOK
<1>4. alone[q] /\ Rebuilds(q, d) => DayIn(rollup', d) = DayIn(snap[q], d)
  <2> SUFFICES ASSUME alone[q], Rebuilds(q, d), rollup' = Rolled(Days)
               PROVE  DayIn(rollup', d) = DayIn(snap[q], d)
    BY <1>3
  <2> DEFINE from == IF pipeline \in Dependents THEN matview ELSE table
  <2>1. DayIn(from, d) = DayIn(snap[q], d)
    BY <1>1, <1>3 DEF Rebuilds
  <2>2. DayIn(snap[q], d) # {} /\ d \in Days
    BY EtlAssumption DEF Read, EtlAssumption
  <2> HIDE DEF from
  <2>3. DayIn(Rolled(Days), d) = DayIn(from, d)
    BY <2>1, <2>2, RolledDay DEF from
  <2>4. QED
    BY <2>1, <2>3
<1>5. QED
  BY <1>1, <1>2, <1>3, <1>4

\* Runs that agree after a step agreed before it.
LEMMA AgreedBefore ==
  ASSUME TypeOK, RunsInv, NEW r \in Runs, RunStep(r), pc'[r] \notin Aborted,
         NEW d \in Days, Agree(d)'
  PROVE  Agree(d)
<1> SUFFICES ASSUME NEW q \in Runs, NEW o \in Runs,
                    DayIn(snap[q], d) # {}, DayIn(snap[o], d) # {}
             PROVE  Content(snap[q], d) = Content(snap[o], d)
  BY DEF Agree
<1>1. /\ DayIn(snap'[q], d) = DayIn(snap[q], d)
      /\ DayIn(snap'[o], d) = DayIn(snap[o], d)
  BY ReadAndOwed
<1>2. Content(snap'[q], d) = Content(snap'[o], d)
  BY <1>1 DEF Agree
<1>3. QED
  BY <1>1, <1>2 DEF Content

\* A row that was committed stays, or is owed by the run that deletes it.
LEMMA CommittedRowsStay ==
  ASSUME TypeOK, RunsInv, AgreeInv, NEW r \in Runs, RunStep(r),
         \A q \in Runs : pc'[q] \notin Aborted,
         NEW d \in Days, Agree(d)', NEW q \in Runs,
         NEW x \in DayIn(snap'[q], d) \ Owed(q)'
  PROVE  Persists(x)'
<1>1. /\ \A y \in snap'[q] : y \in snap[q] \/ y \in Owed(q)'
      /\ \A o \in Runs : \A y \in Owed(o) : y \in Owed(o)' \/ (Commit(r) /\ y \in batch[r])
  BY ReadAndOwed
<1>2. x \in snap[q] /\ DayOf(x) = d
  BY <1>1 DEF DayIn
<1>3. Commit(r) => batch[r] \subseteq table'
  BY CommitEffect DEF Committed
<1>4. \A o \in Runs : \A y \in Owed(o) : SameKey(y, x) => Persists(x)'
  BY <1>1, <1>3 DEF Persists, SameKey
<1>5. CASE x \in Owed(q)
  BY <1>4, <1>5 DEF SameKey
<1>6. CASE x \notin Owed(q)
  <2>1. Persists(x)
    <3>1. Agree(d)
      BY AgreedBefore
    <3>2. QED
      BY <1>2, <1>6, <3>1, NobodyAborted DEF AgreeInv, DayIn
  <2>2. ASSUME NEW t \in table, SameKey(t, x)
        PROVE  Persists(x)'
    <3>1. CASE t \in table'
      BY <2>2, <3>1 DEF Persists, SameKey
    <3>2. CASE t \notin table'
      <4>1. Commit(r) /\ t \in dels[r]
        BY <3>2, TableChanges DEF Committed
      <4>2. DayOf(t) = d
        BY <1>2, <2>2 DEF SameKey, DayOf
      <4>3. DayIn(snap[r], d) \subseteq Owed(r) /\ \E u \in batch[r] : DayOf(u) = d
        BY <4>1, <4>2 DEF RunsInv, CursorOK
      <4>4. DayIn(snap[r], d) # {} /\ DayIn(snap[q], d) # {}
        BY <1>2, <4>1, <4>3, CommitEffect DEF DayIn
      <4>5. Content(snap[q], d) = Content(snap[r], d)
        BY <4>4, AgreedBefore DEF Agree
      <4>6. \E y \in DayIn(snap[r], d) : y.row = x.row
        <5>1. x \in DayIn(snap[q], d)
          BY <1>2 DEF DayIn
        <5>2. <<x.row, x.ver>> \in Content(snap[r], d)
          BY <4>5, <5>1 DEF Content
        <5>3. \E y \in DayIn(snap[r], d) : <<x.row, x.ver>> = <<y.row, y.ver>>
          BY <5>2 DEF Content
        <5>4. QED
          BY <5>3
      <4>7. QED
        BY <1>4, <4>3, <4>6 DEF SameKey
    <3>3. QED
      BY <3>1, <3>2
  <2>3. QED
    BY <1>4, <2>1, <2>2 DEF Persists
<1>7. QED
  BY <1>5, <1>6

LEMMA AgreeStep ==
  ASSUME TypeOK, RunsInv, AgreeInv, NEW r \in Runs, RunStep(r)
  PROVE  AgreeInv'
<1> SUFFICES ASSUME \A q \in Runs : pc'[q] \notin Aborted
             PROVE  \A d \in Days : Agree(d)' =>
                      \A q \in Runs : \A x \in DayIn(snap'[q], d) \ Owed(q)' : Persists(x)'
  BY DEF AgreeInv
<1>1. QED
  BY CommittedRowsStay

-----------------------------------------------------------------------------
(* The invariant.                                                          *)

LEMMA InitInvariant == Init => IInv
<1> SUFFICES ASSUME Init PROVE IInv
  OBVIOUS
<1>1. TypeOK
  BY InitType
<1>2. \A r \in Runs :
        /\ pc[r] = "idle" /\ days[r] = RangeOf[r] /\ todo[r] = {} /\ batch[r] = {}
        /\ cleared[r] = {} /\ seen[r] = {} /\ dels[r] = {} /\ ins[r] = {}
        /\ entry[r] = NoEntry /\ snap[r] = {} /\ alone[r] = FALSE
  BY DEF Init
<1>3. RunsInv
  BY <1>2 DEF RunsInv, RunOK, CursorOK, Owed
<1>4. \A t \in table : t.by = Before
  BY DEF Init
<1>5. \A t, u \in table : SameKey(t, u) => t = u
  BY DEF Init, SameKey
<1>6. RowsInv /\ LoneInv
  BY <1>2, <1>4 DEF RowsInv, LoneInv, LoneOK
<1>7. KeyInv
  BY <1>2, <1>5 DEF KeyInv
<1>8. LoadedInv /\ ViewsInv
  BY <1>2 DEF LoadedInv, ViewsInv, MatviewOK, LoneViewsOK, Refreshing
<1>9. AgreeInv
  BY <1>2 DEF AgreeInv, DayIn
<1>10. QED
  BY <1>1, <1>3, <1>6, <1>7, <1>8, <1>9 DEF IInv

\* The runs and the table stand when the ERP changes, when somebody refreshes by
\* hand and when nothing happens.
LEMMA NoRunSteps ==
  ASSUME IInv, UNCHANGED <<pipeline, table, run, observed>>, TypeOK',
         matview' = matview \/ (matview' = table),
         rollup' = rollup \/ (rollup' = Rolled(Days))
  PROVE  IInv'
<1> USE DEF IInv, run, observed
<1>1. RunsInv'
  <2>1. \A r \in Runs : Untouched(r)
    BY DEF Untouched
  <2>2. QED
    BY <2>1, UntouchedKeeps DEF RunsInv
<1>2. RowsInv'
  BY DEF RowsInv
<1>3. KeyInv'
  BY DEF KeyInv, Keyed, SameKey
<1>4. LoneInv'
  BY DEF LoneInv, LoneOK, Active, Owed, DayIn
<1>5. LoadedInv' /\ ViewsInv'
  <2>1. ViewsInv'
    BY ViewsByHand
  <2>2. \A r \in Runs : Owed(r)' = Owed(r)
    BY DEF Owed
  <2>3. LoadedInv'
    BY <2>2 DEF LoadedInv, DayIn
  <2>4. QED
    BY <2>1, <2>3
<1>6. AgreeInv'
  <2>1. \A d \in Days : Agree(d)' = Agree(d)
    BY DEF Agree, Content, DayIn
  <2>2. \A x : Persists(x)' = Persists(x)
    BY DEF Persists, SameKey, Owed
  <2>3. \A r \in Runs : Owed(r)' = Owed(r)
    BY DEF Owed
  <2>4. QED
    BY <2>1, <2>2, <2>3 DEF AgreeInv, DayIn
<1>7. QED
  BY <1>1, <1>2, <1>3, <1>4, <1>5, <1>6

LEMMA NextKeeps == IInv /\ [Next]_vars => IInv'
<1>1. ASSUME IInv, NEW r \in Runs, RunStep(r)
      PROVE  IInv'
  BY <1>1, TypeStep, RunsStep, RowsStep, KeyStep, LoneStep, LoadedStep,
     ViewsStep, AgreeStep DEF IInv
<1>2. ASSUME IInv, ErpChanges
      PROVE  IInv'
  <2>1. TypeOK'
    <3>1. PICK k \in Rows, v \in Versions \union {Absent} :
            source' = [source EXCEPT ![k] = v]
      BY <1>2 DEF ErpChanges
    <3>2. source' \in [Rows -> Versions \union {Absent}]
      BY <1>2, <3>1 DEF IInv, TypeOK
    <3>3. troubles' \in 0 .. MaxTroubles
      BY <1>2, EtlAssumption DEF ErpChanges, IInv, TypeOK, EtlAssumption
    <3>4. QED
      BY <1>2, <3>2, <3>3 DEF ErpChanges, IInv, TypeOK, built, run, observed
  <2>2. QED
    BY <1>2, <2>1, NoRunSteps DEF ErpChanges, built
<1>3. ASSUME IInv, RefreshOnly
      PROVE  IInv'
  <2>1. /\ matview' = matview \/ (matview' = table)
        /\ rollup' = rollup \/ (rollup' = Rolled(Days))
    BY <1>3 DEF RefreshOnly
  <2>2. TypeOK'
    <3>1. troubles' \in 0 .. MaxTroubles
      BY <1>3, EtlAssumption DEF RefreshOnly, IInv, TypeOK, EtlAssumption
    <3>2. matview' \subseteq Tuple /\ rollup' \subseteq Tuple
      BY <1>3, <2>1, RolledType DEF IInv, TypeOK
    <3>3. QED
      BY <1>3, <3>1, <3>2 DEF RefreshOnly, IInv, TypeOK, run, observed
  <2>3. QED
    BY <1>3, <2>1, <2>2, NoRunSteps DEF RefreshOnly
<1>4. ASSUME IInv, UNCHANGED vars
      PROVE  IInv'
  <2>1. TypeOK'
    BY <1>4 DEF IInv, TypeOK, vars, built, run, observed
  <2>2. QED
    BY <1>4, <2>1, NoRunSteps DEF vars, built
<1>5. QED
  BY <1>1, <1>2, <1>3, <1>4, NextIsRunStep

-----------------------------------------------------------------------------
(* Theorems.                                                               *)

\* The strengthened invariant: the runs, the rows of the table, the primary
\* key, the run that is alone, the views and the runs that agree.
THEOREM InvariantHolds == Spec => []IInv
  BY InitInvariant, NextKeeps, PTL DEF Spec

\* The table, the runs and what they hold keep their types.
THEOREM TypeCorrect == Spec => []TypeOK
<1>1. IInv => TypeOK
  BY DEF IInv
<1>2. QED
  BY <1>1, InvariantHolds, PTL

\* Whatever runs side by side and however they end, a reader that found rows of
\* a day goes on finding some.
THEOREM NoDayIsEverEmptied == Spec => NoDayIsEmptied
<1> DEFINE Stays == \A d \in Days : DayIn(table, d) # {} => DayIn(table', d) # {}
<1>1. IInv /\ [Next]_vars => [Stays]_vars
  <2> SUFFICES ASSUME IInv, Next PROVE Stays
    OBVIOUS
  <2>1. CASE ErpChanges \/ RefreshOnly
    <3>1. table' = table
      BY <2>1 DEF ErpChanges, RefreshOnly
    <3>2. QED
      BY <3>1 DEF DayIn
  <2>2. ASSUME NEW r \in Runs, RunStep(r) PROVE Stays
    BY <2>2, DaysStay DEF IInv
  <2>3. QED
    BY <2>1, <2>2, NextIsRunStep
<1>2. QED
  BY <1>1, InvariantHolds, PTL DEF Spec, NoDayIsEmptied

\* A run that nothing overlaps leaves each day as its query returned it.
THEOREM ALoneLoadIsExact == Spec => []LoneLoadIsExact
<1>1. IInv => LoneLoadIsExact
  BY LoadedDays DEF IInv, LoneLoadIsExact, Read
<1>2. QED
  BY <1>1, InvariantHolds, PTL

\* A matview that is reported as refreshed has what the run loaded and nothing
\* these rows replaced; a function that is reported too, after it, built the days
\* of a run nothing overlapped from what its query returned.
THEOREM ReportedRefreshesShowTheLoad == Spec => []ReportedRefreshShowsTheLoad
<1>1. IInv => ReportedRefreshShowsTheLoad
  <2> SUFFICES ASSUME IInv, NEW r \in Runs, pc[r] = "report",
                      NEW d \in RangeOf[r], DayIn(snap[r], d) # {}
               PROVE  /\ entry[r].matview = "matview" => Renewed(matview, d)
                      /\ alone[r] /\ Rebuilds(r, d) => DayIn(rollup, d) = DayIn(snap[r], d)
    BY DEF ReportedRefreshShowsTheLoad, Renewed
  <2>1. Refreshing(r) /\ d \in Read(r)
    BY DEF Refreshing, Read
  <2>2. QED
    BY <2>1 DEF IInv, ViewsInv, MatviewOK, LoneViewsOK
<1>2. QED
  BY <1>1, InvariantHolds, PTL

\* What the docstring of margen_rango.py:17 says, of the pipelines whose table
\* has its primary key.
KeyHolds == Keyed => RerunDoesNotDuplicate

\* Where the table has its primary key, no load duplicates a row.
THEOREM NoRowTwice == Spec => []KeyHolds
<1>1. IInv => KeyHolds
  BY DEF IInv, KeyInv, KeyHolds, RerunDoesNotDuplicate
<1>2. QED
  BY <1>1, InvariantHolds, PTL

\* Under the key a day has as many rows as it says things.
LEMMA OneRowEach ==
  ASSUME IInv, Keyed, NEW d \in Days
  PROVE  Cardinality(DayIn(table, d)) = Cardinality(Content(table, d))
<1> DEFINE T == DayIn(table, d)
           key == [t \in T |-> t.row]
           says == [t \in T |-> <<t.row, t.ver>>]
<1>1. \A t, u \in T : t.row = u.row => t = u
  BY DEF IInv, KeyInv, DayIn, SameKey
<1>2. IsFiniteSet(Rows)
  BY FS_Product, EtlAssumption DEF Rows, EtlAssumption
<1>3. IsFiniteSet(T)
  <2>1. key \in Injection(T, Rows)
    <3>1. \A t \in T : t.row \in Rows
      BY DEF IInv, TypeOK, Tuple, DayIn
    <3>2. key \in [T -> Rows] /\ \A t, u \in T : key[t] = key[u] => t = u
      BY <1>1, <3>1
    <3>3. QED
      BY <3>2 DEF Injection, IsInjective
  <2>2. QED
    BY <1>2, <2>1, FS_Injection
<1>4. says \in Bijection(T, Content(table, d))
  <2>1. says \in [T -> Content(table, d)]
    BY DEF Content
  <2>2. \A t, u \in T : says[t] = says[u] => t = u
    BY <1>1
  <2>3. \A c \in Content(table, d) : \E t \in T : says[t] = c
    BY DEF Content
  <2>4. QED
    BY <2>1, <2>2, <2>3 DEF Bijection, Injection, Surjection, IsInjective
<1>5. QED
  BY <1>3, <1>4, FS_Bijection DEF ExistsBijection

\* Runs that read the same and all end well leave what they read, each row
\* once, however they overlapped.
THEOREM AgreeingLoadsAgree == Spec => []AgreeingLoadsAreExact
<1>1. IInv => AgreeingLoadsAreExact
  <2> SUFFICES ASSUME IInv, Keyed, \A r \in Runs : pc[r] = "idle" \/ Loaded(r),
                      NEW d \in Days,
                      \A r, q \in {o \in Runs : Loaded(o) /\ DayIn(snap[o], d) # {}} :
                        Content(snap[r], d) = Content(snap[q], d),
                      NEW r \in Runs, Loaded(r), DayIn(snap[r], d) # {}
               PROVE  /\ Content(table, d) = Content(snap[r], d)
                      /\ Cardinality(DayIn(table, d)) = Cardinality(Content(table, d))
    BY DEF AgreeingLoadsAreExact
  <2>1. \A q \in Runs : RunOK(q) /\ CursorOK(q)
    BY DEF IInv, RunsInv
  <2>2. \A q \in Runs : pc[q] \notin Aborted
    BY DEF Loaded, Aborted
  <2>3. \A q \in Runs : Owed(q) = {} /\ dels[q] = {} /\ seen[q] = {}
    BY <2>1 DEF RunOK, Loaded, Owed
  <2>4. \A q \in Runs : DayIn(snap[q], d) # {} => Loaded(q)
    BY <2>1 DEF RunOK, DayIn
  <2>5. Agree(d)
    BY <2>4 DEF Agree
  <2>6. d \in cleared[r]
    BY <2>1, <2>2, <2>3 DEF CursorOK, DayIn
  <2>7. \A t \in DayIn(table, d) : t.by \in Runs /\ t \in DayIn(snap[t.by], d)
    <3>1. \A t \in DayIn(table, d) : t.by # Before
      BY <2>2, <2>3, <2>6 DEF IInv, LoadedInv, DayIn
    <3>2. QED
      BY <3>1 DEF IInv, RowsInv, DayIn
  <2>8. \A t \in DayIn(table, d) : <<t.row, t.ver>> \in Content(snap[r], d)
    <3> SUFFICES ASSUME NEW t \in DayIn(table, d)
                 PROVE  <<t.row, t.ver>> \in Content(snap[r], d)
      OBVIOUS
    <3>1. Content(snap[t.by], d) = Content(snap[r], d)
      BY <2>5, <2>7 DEF Agree
    <3>2. <<t.row, t.ver>> \in Content(snap[t.by], d)
      BY <2>7 DEF Content
    <3>3. QED
      BY <3>1, <3>2
  <2>9. \A x \in DayIn(snap[r], d) : <<x.row, x.ver>> \in Content(table, d)
    <3> SUFFICES ASSUME NEW x \in DayIn(snap[r], d)
                 PROVE  <<x.row, x.ver>> \in Content(table, d)
      OBVIOUS
    <3>1. Persists(x)
      BY <2>2, <2>3, <2>5 DEF IInv, AgreeInv
    <3>2. PICK t \in table : t.row = x.row
      BY <2>3, <3>1 DEF Persists, SameKey
    <3>3. t \in DayIn(table, d)
      BY <3>2 DEF DayIn, DayOf
    <3>4. PICK y \in DayIn(snap[r], d) : <<t.row, t.ver>> = <<y.row, y.ver>>
      BY <2>8, <3>3 DEF Content
    <3>5. y.row = x.row /\ y.ver = t.ver
      BY <3>2, <3>4
    <3>6. y = x
      BY <2>1, <3>5 DEF CursorOK, SameKey, DayIn
    <3>7. <<t.row, t.ver>> \in Content(table, d)
      BY <3>3 DEF Content
    <3>8. QED
      BY <3>2, <3>5, <3>6, <3>7
  <2>10. Content(table, d) = Content(snap[r], d)
    BY <2>8, <2>9 DEF Content
  <2>11. QED
    BY <2>10, OneRowEach
<1>2. QED
  BY <1>1, InvariantHolds, PTL

=============================================================================
