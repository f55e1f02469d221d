--------------------------- MODULE RotationProofs ---------------------------
(***************************************************************************)
(* Theorems about the five Mercamio rotation loads, for every set of       *)
(* processes, companies, keys, days, documents and arguments, and any      *)
(* number of runs and faults: first RotationDiaria, and from "The other    *)
(* four programs" on RotationJobs, which has the same state around it       *)
(* (RotationRuns).                                                         *)
(***************************************************************************)
EXTENDS RotationDiaria, RotationJobs, FiniteSetTheorems, WellFoundedInduction, TLAPS

-----------------------------------------------------------------------------
(* The inductive invariant.                                                *)

RowFields == {"item", "sold", "foto", "ultima"}
JobFields == {"pc", "todo", "stop", "rolled", "all", "plan", "existing", "previous",
              "rows", "borro", "encima", "visto", "refresh", "hechos", "failures"}

IsRow(r) == r = [k \in RowFields |-> r[k]] /\ r.item \in Items
IsJob(j) == j = [k \in JobFields |-> j[k]]

\* A day: rows, one for each item.
IsDay(rows) ==
    /\ \A r \in rows : IsRow(r)
    /\ \A r, s \in rows : r.item = s.item => r = s

\* Rows have the units v of an item: with them, or absent if there are none.
Agrees(rows, i, v) ==
    /\ \A r \in rows : r.item = i => r.sold = v
    /\ v # 0 => \E r \in rows : r.item = i

SoldOf(src, i, d) == Qty(Ventas(src, i, d))

\* Rows have the units the source says, of every item.
SoldRight(src, d, rows) == \A i \in Items : Agrees(rows, i, SoldOf(src, i, d))

\* The photos of some rows are among others.
PhotosIn(antes, rows) ==
    \A r \in antes : HasPhoto(r) =>
        \E s \in rows : s.item = r.item /\ s.foto = r.foto

\* The tickets that show that an item was sold in the ninety days before.
SoldBefore(e, d, i) ==
    {t \in Inicial[e].docs : /\ t.tipo = "PDV" /\ ~t.z /\ t.qty > 0 /\ t.item = i
                             /\ d - 90 <= t.day /\ t.day < d}

\* Rows of a day know the last sale of an item that had one.
SalesKnown(e, d, rows) ==
    \A r \in rows : SoldBefore(e, d, r.item) # {} => r.ultima # NULL

SourcesInv ==
    /\ hoy \in Int
    /\ erp = [e \in Companies |-> [docs |-> erp[e].docs, resumen |-> erp[e].resumen]]
    /\ \A e \in Companies : /\ Inicial[e].docs \subseteq erp[e].docs
                            /\ \A t \in erp[e].docs : t.day \in Days

TablesInv ==
    /\ tabla = [e \in Companies |-> [d \in Loaded |-> tabla[e][d]]]
    /\ \A e \in Companies, d \in Loaded :
        IsDay(tabla[e][d]) /\ SalesKnown(e, d, tabla[e][d])

\* A clean day has the units the source says: those of the items that were
\* sold and, where the reload met no other, the absence of the rest.
SalesInv ==
    \A e \in Companies, d \in Loaded : <<e, d>> \in limpios =>
        \A i \in Items :
            (SoldOf(erp[e], i, d) # 0 \/ <<e, d>> \in solos) =>
                Agrees(tabla[e][d], i, SoldOf(erp[e], i, d))

Items2Do == [day : Loaded, emp : Companies]

\* A run that has not failed has done what it owes or has it to do.
Accounted(j) ==
    j.failures = 0 =>
        \A x \in j.plan : \/ x \in j.hechos
                          \/ \E k \in 1 .. Len(j.todo) : j.todo[k] = [day |-> x[2], emp |-> x[1]]

\* What a run keeps of the day it is reloading; src is what the sources show.
ReloadOK(j, src) ==
    LET e == Head(j.todo).emp
        d == Head(j.todo).day
    IN  /\ j.todo # <<>>
        /\ SalesKnown(e, d, j.existing) /\ SalesKnown(e, d, j.rows)
        /\ j.pc = "commit" /\ ~j.refresh => PhotosIn(j.existing, j.rows)
        /\ j.pc = "commit" /\ j.visto => SoldRight(src[e], d, j.rows)

JobOK(j, src) ==
    /\ IsJob(j)
    /\ j.pc \in {"item", "delete", "wait", "extract", "commit"}
    /\ j.todo \in Seq(Items2Do)
    /\ j.plan \subseteq Companies \X Loaded
    /\ j.failures \in Nat
    /\ IsDay(j.existing) /\ IsDay(j.rows)
    /\ j.pc # "commit" => j.visto /\ j.rows = {}
    /\ j.pc # "item" => ReloadOK(j, src)
    /\ Accounted(j)

JobsInv ==
    /\ job = [p \in Procs |-> job[p]]
    /\ \A p \in Procs : Busy(p) => JobOK(job[p], erp)

ExitsInv == salida = [p \in Procs |-> salida[p]] /\ ZeroMeansAllDone

IInv == SourcesInv /\ TablesInv /\ SalesInv /\ JobsInv /\ ExitsInv

-----------------------------------------------------------------------------
(* What the source says of a day, and what a reload makes of it.           *)

LEMMA DayRow ==
  ASSUME NEW i \in Items, NEW v, NEW f, NEW u
  PROVE  IsRow([item |-> i, sold |-> v, foto |-> f, ultima |-> u])
  BY DEF IsRow, RowFields

LEMMA RowExcept ==
  ASSUME NEW r, IsRow(r), NEW x
  PROVE  /\ IsRow([r EXCEPT !.ultima = x]) /\ [r EXCEPT !.ultima = x].item = r.item
         /\ [r EXCEPT !.ultima = x].sold = r.sold /\ [r EXCEPT !.ultima = x].foto = r.foto
         /\ [r EXCEPT !.ultima = x].ultima = x
         /\ IsRow([r EXCEPT !.foto = x]) /\ [r EXCEPT !.foto = x].item = r.item
         /\ [r EXCEPT !.foto = x].sold = r.sold /\ [r EXCEPT !.foto = x].ultima = r.ultima
         /\ [r EXCEPT !.foto = x].foto = x
         /\ IsRow([r EXCEPT !.sold = x]) /\ [r EXCEPT !.sold = x].item = r.item
         /\ [r EXCEPT !.sold = x].foto = r.foto /\ [r EXCEPT !.sold = x].ultima = r.ultima
         /\ [r EXCEPT !.sold = x].sold = x
  BY DEF IsRow, RowFields

\* EXTRACT_QUERY returns one row for an item, with the units of the source.
LEMMA ExtractedRows ==
  ASSUME NEW src, NEW d
  PROVE  IsDay(Extracted(src, d)) /\ SoldRight(src, d, Extracted(src, d))
<1> DEFINE foto(i) == Inventario(src, i, d).foto
           ultima(i) == IF SoldOf(src, i, d) # 0 THEN d ELSE Inventario(src, i, d).sale
           row(i) == [item |-> i, sold |-> SoldOf(src, i, d), foto |-> foto(i),
                      ultima |-> ultima(i)]
<1>1. Extracted(src, d) = {r \in {row(i) : i \in Items} : HasSale(r) \/ HasPhoto(r)}
  BY DEF Extracted, SoldOf
<1> HIDE DEF foto, ultima
<1>2. \A i \in Items : IsRow(row(i)) /\ row(i).item = i /\ row(i).sold = SoldOf(src, i, d)
  BY DayRow
<1>3. \A i \in Items : SoldOf(src, i, d) # 0 => row(i) \in Extracted(src, d)
  BY <1>1, <1>2 DEF HasSale
<1> HIDE DEF row
<1>4. \A r \in Extracted(src, d) : \E i \in Items : r = row(i)
  BY <1>1
<1>5. IsDay(Extracted(src, d))
  BY <1>2, <1>4 DEF IsDay
<1>6. SoldRight(src, d, Extracted(src, d))
  BY <1>2, <1>3, <1>4 DEF SoldRight, Agrees
<1>7. QED
  BY <1>5, <1>6

DatedRow(r, previous, seed) ==
    IF r.ultima # NULL THEN r
    ELSE [r EXCEPT !.ultima =
            IF previous[r.item] # NULL THEN previous[r.item] ELSE seed[r.item]]

\* The dates change nothing else, and keep those a row had; one it did not have
\* is the previous day's or the seed's.
LEMMA DatedRows ==
  ASSUME NEW rows, IsDay(rows), NEW previous, NEW seed
  PROVE  /\ IsDay(Dated(rows, previous, seed))
         /\ \A i, v : Agrees(rows, i, v) => Agrees(Dated(rows, previous, seed), i, v)
         /\ \A r \in Dated(rows, previous, seed) :
              seed[r.item] # NULL => r.ultima # NULL
<1> DEFINE days == Dated(rows, previous, seed)
<1>1. days = {DatedRow(r, previous, seed) : r \in rows}
  BY DEF Dated, DatedRow
<1> HIDE DEF days
<1>2. ASSUME NEW r \in rows
      PROVE  /\ IsRow(DatedRow(r, previous, seed))
             /\ DatedRow(r, previous, seed).item = r.item
             /\ DatedRow(r, previous, seed).sold = r.sold
             /\ seed[r.item] # NULL => DatedRow(r, previous, seed).ultima # NULL
  <2> DEFINE x == IF previous[r.item] # NULL THEN previous[r.item] ELSE seed[r.item]
  <2>1. DatedRow(r, previous, seed) = IF r.ultima # NULL THEN r ELSE [r EXCEPT !.ultima = x]
    BY DEF DatedRow
  <2>2. seed[r.item] # NULL => x # NULL
    OBVIOUS
  <2>3. IsRow(r)
    BY DEF IsDay
  <2> HIDE DEF x
  <2>4. CASE r.ultima # NULL
    BY <2>1, <2>3, <2>4
  <2>5. CASE r.ultima = NULL
    BY <2>1, <2>2, <2>3, <2>5 DEF IsRow, RowFields
  <2>6. QED
    BY <2>4, <2>5
<1>3. IsDay(days)
  BY <1>1, <1>2 DEF IsDay
<1>4. \A i, v : Agrees(rows, i, v) => Agrees(days, i, v)
  BY <1>1, <1>2 DEF Agrees
<1>5. \A r \in days : seed[r.item] # NULL => r.ultima # NULL
  BY <1>1, <1>2
<1>6. QED
  BY <1>3, <1>4, <1>5 DEF days

LEMMA RowOfDay ==
  ASSUME NEW rows, IsDay(rows), NEW r \in rows
  PROVE  RowOf(rows, r.item) = r
  BY DEF RowOf, IsDay

LEMMA ItemOfDay ==
  ASSUME NEW rows, IsDay(rows), NEW i \in ItemsOf(rows)
  PROVE  RowOf(rows, i) \in rows /\ RowOf(rows, i).item = i
  BY RowOfDay DEF ItemsOf

\* The rows a reload keeps of those it computed: the same items, units and
\* dates; only an item without sales is left out; those of the day before it
\* have the photos they had.
LEMMA PreparedRows ==
  ASSUME NEW rows, NEW j, IsDay(rows), IsDay(j.existing)
  PROVE  /\ IsDay(Prepared(rows, j))
         /\ \A r \in Prepared(rows, j) : \E s \in rows :
              r.item = s.item /\ r.sold = s.sold /\ r.ultima = s.ultima
         /\ \A s \in rows : s.sold # 0 => \E r \in Prepared(rows, j) : r.item = s.item
         /\ ~j.refresh => \A s \in rows : \A a \in j.existing : s.item = a.item =>
              \E r \in Prepared(rows, j) : r.item = a.item /\ r.foto = a.foto
<1>1. CASE j.refresh \/ j.existing = {}
  <2>1. Prepared(rows, j) = rows
    BY <1>1 DEF Prepared
  <2>2. QED
    BY <1>1, <2>1 DEF IsDay
<1>2. CASE ~j.refresh /\ j.existing # {}
  <2> DEFINE keep == {s \in rows : s.item \in ItemsOf(j.existing) \/ HasSale(s)}
             prep(r) == IF r.item \in ItemsOf(j.existing)
                        THEN Restored(r, RowOf(j.existing, r.item)) ELSE Cleared(r)
  <2>1. Prepared(rows, j) = {prep(r) : r \in keep}
    BY <1>2 DEF Prepared
  <2>2. \A r \in rows : /\ IsRow(prep(r)) /\ prep(r).item = r.item
                         /\ prep(r).sold = r.sold /\ prep(r).ultima = r.ultima
    <3>1. SUFFICES ASSUME NEW r \in rows
                   PROVE  /\ IsRow(prep(r)) /\ prep(r).item = r.item
                          /\ prep(r).sold = r.sold /\ prep(r).ultima = r.ultima
      OBVIOUS
    <3>2. IsRow(r)
      BY DEF IsDay
    <3>3. CASE r.item \in ItemsOf(j.existing)
      BY <3>2, <3>3, RowExcept DEF Restored
    <3>4. CASE r.item \notin ItemsOf(j.existing)
      BY <3>2, <3>4, RowExcept DEF Cleared
    <3>5. QED
      BY <3>3, <3>4
  <2>3. \A s \in rows : \A a \in j.existing :
            s.item = a.item => s \in keep /\ prep(s).foto = a.foto
    BY RowExcept, RowOfDay DEF IsDay, Restored, ItemsOf
  <2>4. \A s \in rows : s.sold # 0 => s \in keep
    BY DEF HasSale
  <2>5. keep \subseteq rows
    OBVIOUS
  <2> HIDE DEF keep, prep
  <2>6. QED
    BY <2>1, <2>2, <2>3, <2>4, <2>5 DEF IsDay
<1>3. QED
  BY <1>1, <1>2

\* The rows of a reload: one for each item, with the units the rows it computed
\* have and dates that they or the day as it was have; unless it is a refresh,
\* every photo of the day is among them.
LEMMA ReloadedRows ==
  ASSUME NEW rows, NEW j, IsDay(rows), IsDay(j.existing),
         NEW new, new = Prepared(rows, j) \cup Remaining(rows, j)
  PROVE  /\ IsDay(new)
         /\ \A i, v : Agrees(rows, i, v) => Agrees(new, i, v)
         /\ \A r \in new : \E s \in rows \cup j.existing : r.item = s.item /\ r.ultima = s.ultima
         /\ ~j.refresh => PhotosIn(j.existing, new)
<1> DEFINE forgotten == {s \in j.existing : HasPhoto(s) /\ s.item \notin ItemsOf(rows)}
           bare(r) == [r EXCEPT !.sold = 0]
<1>1. Remaining(rows, j) = IF j.refresh THEN {} ELSE {bare(r) : r \in forgotten}
  BY DEF Remaining
<1>2. \A r \in forgotten : /\ IsRow(bare(r)) /\ bare(r).item = r.item /\ bare(r).sold = 0
                           /\ bare(r).foto = r.foto /\ bare(r).ultima = r.ultima
  BY DEF IsDay, IsRow, RowFields
<1>3. \A r \in forgotten : r \in j.existing /\ \A s \in rows : s.item # r.item
  BY DEF ItemsOf
<1>4. \A r \in j.existing : HasPhoto(r) => r \in forgotten \/ \E s \in rows : s.item = r.item
  BY DEF ItemsOf
<1> HIDE DEF forgotten, bare
<1>5. \A r \in Remaining(rows, j) : \E s \in forgotten : r = bare(s)
  BY <1>1
<1>6. IsDay(new)
  <2>1. \A r \in new : IsRow(r)
    BY PreparedRows, <1>2, <1>5 DEF IsDay
  <2>2. \A r \in Remaining(rows, j), s \in Prepared(rows, j) : r.item # s.item
    BY PreparedRows, <1>2, <1>3, <1>5
  <2>3. \A r, s \in Remaining(rows, j) : r.item = s.item => r = s
    BY <1>2, <1>3, <1>5 DEF IsDay
  <2>4. \A r, s \in Prepared(rows, j) : r.item = s.item => r = s
    BY PreparedRows DEF IsDay
  <2>5. QED
    BY <2>1, <2>2, <2>3, <2>4 DEF IsDay
<1>7. ASSUME NEW i, NEW v, Agrees(rows, i, v)
      PROVE  Agrees(new, i, v)
  <2>1. \A r \in Prepared(rows, j) : r.item = i => r.sold = v
    BY PreparedRows, <1>7 DEF Agrees
  <2>2. \A r \in Remaining(rows, j) : r.item = i => r.sold = v
    BY <1>2, <1>3, <1>5, <1>7 DEF Agrees
  <2>3. v # 0 => \E r \in Prepared(rows, j) : r.item = i
    BY PreparedRows, <1>7 DEF Agrees
  <2>4. QED
    BY <2>1, <2>2, <2>3 DEF Agrees
<1>8. \A r \in new : \E s \in rows \cup j.existing : r.item = s.item /\ r.ultima = s.ultima
  BY PreparedRows, <1>2, <1>3, <1>5
<1>9. ASSUME ~j.refresh, NEW r \in j.existing, HasPhoto(r)
      PROVE  \E s \in new : s.item = r.item /\ s.foto = r.foto
  <2>1. CASE r \in forgotten
    BY <1>1, <1>2, <1>9, <2>1
  <2>2. CASE \E s \in rows : s.item = r.item
    BY PreparedRows, <1>9, <2>2
  <2>3. QED
    BY <1>4, <1>9, <2>1, <2>2
<1>10. QED
  BY <1>6, <1>7, <1>8, <1>9 DEF PhotosIn

\* The insert leaves the rows of the run, and of those that another put there
\* only items that it does not have.
LEMMA UpsertedRows ==
  ASSUME NEW day, NEW j, IsDay(day), IsDay(j.rows)
  PROVE  /\ IsDay(Upserted(day, j)) /\ j.rows \subseteq Upserted(day, j)
         /\ Upserted(day, j) \subseteq day \cup j.rows
         /\ ~j.encima => Upserted(day, j) = j.rows
         /\ \A i, v : Agrees(j.rows, i, v) /\ (v # 0 \/ ~j.encima) => Agrees(Upserted(day, j), i, v)
<1>1. \A r \in Upserted(day, j) :
        r \in j.rows \/ (j.encima /\ r \in day /\ \A s \in j.rows : s.item # r.item)
  BY DEF Upserted, ItemsOf
<1>2. j.rows \subseteq Upserted(day, j)
  BY DEF Upserted
<1>3. QED
  BY <1>1, <1>2 DEF IsDay, Agrees

-----------------------------------------------------------------------------
(* The last sale the tickets know.                                         *)

LEMMA DaysType == Days \subseteq Nat \ {0} /\ \E n \in Nat : Days = 1 .. n
  BY RotationAssumption, FS_CardinalityType DEF RotationAssumption

LEMMA LastOf ==
  ASSUME NEW S \in SUBSET Days, S # {}
  PROVE  \E d \in S : \A e \in S : e <= d
<1>1. PICK n \in Nat : Days = 1 .. n
  BY DaysType
<1> DEFINE T == {k \in Nat : n - k \in S}
<1>2. T \in SUBSET Nat
  OBVIOUS
<1>3. T # {}
  <2>1. PICK d \in S : TRUE
    OBVIOUS
  <2>2. d \in 1 .. n /\ n - d \in Nat /\ n - (n - d) = d
    BY <1>1
  <2>3. n - d \in T
    BY <2>1, <2>2
  <2>4. QED
    BY <2>3
<1>4. IsWellFoundedOn(OpToRel(<,Nat), Nat)
  BY NatLessThanWellFounded
<1> HIDE DEF T
<1>5. PICK k \in T : \A m \in T : ~ (<<m, k>> \in OpToRel(<,Nat))
  BY <1>2, <1>3, <1>4, WFMin
<1>6. k \in Nat /\ n - k \in S
  BY <1>5 DEF T
<1>7. ASSUME NEW e \in S PROVE e <= n - k
  <2>1. e \in 1 .. n /\ n - e \in Nat /\ n - (n - e) = e
    BY <1>1
  <2>2. n - e \in T
    BY <2>1 DEF T
  <2>3. ~ n - e < k
    BY <1>5, <1>6, <2>1, <2>2 DEF OpToRel
  <2>4. QED
    BY <1>6, <2>1, <2>3
<1>8. QED
  BY <1>6, <1>7

\* A ticket of the ninety days before makes the seed a date.
LEMMA SeedKnows ==
  ASSUME NEW src, NEW d, NEW i \in Items, \A t \in src.docs : t.day \in Days,
         NEW t \in src.docs, t.tipo = "PDV", t.item = i, ~t.z, t.qty > 0,
         d - 90 <= t.day, t.day < d
  PROVE  Seed(src, d)[i] # NULL
<1> DEFINE ts == {u \in src.docs : /\ u.tipo = "PDV" /\ u.item = i /\ ~u.z /\ u.qty > 0
                                  /\ d - 90 <= u.day /\ u.day < d}
           S == {u.day : u \in ts}
<1>1. Seed(src, d)[i] = Latest(ts)
  BY DEF Seed
<1>2. t \in ts
  OBVIOUS
<1>3. S \in SUBSET Days /\ S # {}
  BY <1>2
<1>4. \E e \in S : \A f \in S : f <= e
  BY <1>3, LastOf
<1>5. Latest(ts) = CHOOSE e \in S : \A u \in ts : u.day <= e
  BY <1>2 DEF Latest
<1>6. \E e \in S : \A u \in ts : u.day <= e
  BY <1>4
<1> HIDE DEF ts, S
<1>7. Latest(ts) \in S
  BY <1>5, <1>6
<1>8. QED
  BY <1>1, <1>3, <1>7, DaysType DEF NULL

-----------------------------------------------------------------------------
(* The plan: the items in order, each in its place.                        *)

Antes(a, b) == a[1] < b[1] \/ (a[1] = b[1] /\ a[2] < b[2])
Puesto(S, a) == Cardinality({b \in S : Antes(b, a)}) + 1

LEMMA PlaceGrows ==
  ASSUME NEW S \in SUBSET (Int \X Int), IsFiniteSet(S), NEW a \in S, NEW b \in S, Antes(a, b)
  PROVE  Puesto(S, a) < Puesto(S, b)
<1> DEFINE A == {c \in S : Antes(c, a)}
           B == {c \in S : Antes(c, b)}
<1>1. A \subseteq B
  BY DEF Antes
<1>2. a \in B /\ a \notin A
  BY DEF Antes
<1>3. IsFiniteSet(B) /\ Cardinality(B) \in Nat
  BY FS_Subset, FS_CardinalityType
<1>4. IsFiniteSet(A) /\ Cardinality(A) \in Nat
  BY FS_Subset, FS_CardinalityType
<1> HIDE DEF A, B
<1>5. Cardinality(A) <= Cardinality(B) /\ (Cardinality(B) = Cardinality(A) => B = A)
  BY <1>1, <1>3, FS_Subset
<1>6. Cardinality(A) < Cardinality(B)
  BY <1>2, <1>3, <1>4, <1>5
<1>7. QED
  BY <1>3, <1>4, <1>6 DEF Puesto, A, B

LEMMA PlacesAreDistinct ==
  ASSUME NEW S \in SUBSET (Int \X Int), IsFiniteSet(S), NEW a \in S, NEW b \in S,
         Puesto(S, a) = Puesto(S, b)
  PROVE  a = b
<1>1. Puesto(S, a) \in Int
  <2>1. IsFiniteSet({c \in S : Antes(c, a)})
    BY FS_Subset
  <2>2. QED
    BY <2>1, FS_CardinalityType DEF Puesto
<1>2. Antes(a, b) \/ Antes(b, a) \/ a = b
  <2>1. a = <<a[1], a[2]>> /\ b = <<b[1], b[2]>> /\ a[1] \in Int /\ a[2] \in Int
        /\ b[1] \in Int /\ b[2] \in Int
    OBVIOUS
  <2>2. a[1] = b[1] /\ a[2] = b[2] => a = b
    BY <2>1
  <2>3. QED
    BY <2>1, <2>2 DEF Antes
<1>3. QED
  BY <1>1, <1>2, PlaceGrows

\* Every item has a place, and every place an item.
LEMMA PlacesAreTaken ==
  ASSUME NEW S \in SUBSET (Int \X Int), IsFiniteSet(S)
  PROVE  /\ \A a \in S : Puesto(S, a) \in 1 .. Cardinality(S)
         /\ \A n \in 1 .. Cardinality(S) : \E a \in S : Puesto(S, a) = n
<1>1. ASSUME NEW a \in S PROVE Puesto(S, a) \in 1 .. Cardinality(S)
  <2> DEFINE A == {c \in S : Antes(c, a)}
  <2>1. A \in SUBSET S /\ a \notin A
    BY DEF Antes
  <2>2. IsFiniteSet(A) /\ Cardinality(A) \in Nat /\ Cardinality(S) \in Nat
    BY <2>1, FS_Subset, FS_CardinalityType
  <2>3. Cardinality(A) <= Cardinality(S) /\ (Cardinality(S) = Cardinality(A) => S = A)
    BY <2>1, FS_Subset
  <2>4. Puesto(S, a) = Cardinality(A) + 1
    BY DEF Puesto
  <2> HIDE DEF A
  <2>5. QED
    BY <2>1, <2>2, <2>3, <2>4
<1> DEFINE N == 1 .. Cardinality(S)
           f == [a \in S |-> Puesto(S, a)]
<1>2. f \in Injection(S, N)
  BY <1>1, PlacesAreDistinct DEF Injection, IsInjective
<1>3. Cardinality(S) \in Nat /\ IsFiniteSet(N) /\ Cardinality(N) = Cardinality(S)
  <2>1. Cardinality(S) \in Nat
    BY FS_CardinalityType
  <2>2. QED
    BY <2>1, FS_Interval
<1> HIDE DEF N
<1>4. f \in Surjection(S, N)
  BY <1>2, <1>3, FS_Injection
<1>5. \A n \in N : \E a \in S : f[a] = n
  BY <1>4 DEF Surjection
<1>6. QED
  BY <1>1, <1>5 DEF N

PlanItems(c) ==
    LET w == Window(c)
    IN  (Loaded \cap (w.desde .. w.hasta)) \X (1 .. Len(Empresas))
        \cup IF c.history = NULL THEN {} ELSE FindMissing(c.history, w.hasta)

LEMMA PlanItemsType ==
  ASSUME NEW c
  PROVE  PlanItems(c) \in SUBSET (Loaded \X (1 .. Len(Empresas))) /\ IsFiniteSet(PlanItems(c))
<1>1. PlanItems(c) \in SUBSET (Loaded \X (1 .. Len(Empresas)))
  BY DEF PlanItems, FindMissing
<1>2. Len(Empresas) \in Nat
  BY DiariaAssumption DEF DiariaAssumption
<1>3. IsFiniteSet(1 .. Len(Empresas))
  BY <1>2, FS_Interval
<1>4. IsFiniteSet(Loaded)
  BY RotationAssumption, FS_Subset DEF RotationAssumption, Loaded
<1>5. IsFiniteSet(Loaded \X (1 .. Len(Empresas)))
  BY <1>3, <1>4, FS_Product
<1>6. QED
  BY <1>1, <1>5, FS_Subset

LEMMA WindowType ==
  ASSUME hoy \in Int, NEW p \in Procs, NEW c \in Calls[p]
  PROVE  Window(c).desde \in Int /\ Window(c).hasta \in Int /\ c.history \in Int
<1>1. c.history \in Int /\ (c.rango = <<>> \/ c.rango \in Int \X Int) /\ RollingDays \in Int
  BY DiariaAssumption DEF DiariaAssumption
<1>2. QED
  BY <1>1 DEF Window

\* The plan names days and companies, and everything the run owes.
LEMMA PlanIsWhole ==
  ASSUME hoy \in Int, NEW p \in Procs, NEW c \in Calls[p]
  PROVE  /\ WorkPlan(c) \in Seq(Items2Do)
         /\ \A x \in Owed(c) : \E k \in 1 .. Len(WorkPlan(c)) :
              WorkPlan(c)[k] = [day |-> x[2], emp |-> x[1]]
<1> DEFINE S == PlanItems(c)
           n == Cardinality(S)
           at(k) == CHOOSE x \in S : Puesto(S, x) = k
           todo(k) == [day |-> at(k)[1], emp |-> Empresas[at(k)[2]]]
<1>1. WorkPlan(c) = [k \in 1 .. n |-> todo(k)]
  BY DEF WorkPlan, PlanItems, Puesto, Antes
<1>2. S \in SUBSET (Loaded \X (1 .. Len(Empresas))) /\ IsFiniteSet(S)
  BY PlanItemsType
<1>3. n \in Nat /\ Len(Empresas) \in Nat
  BY <1>2, FS_CardinalityType, DiariaAssumption DEF DiariaAssumption
<1>4. Loaded \subseteq Int
  BY DaysType DEF Loaded
<1>5. S \in SUBSET (Int \X Int)
  <2>1. 1 .. Len(Empresas) \subseteq Int
    BY <1>3
  <2>2. Loaded \X (1 .. Len(Empresas)) \subseteq Int \X Int
    BY <1>4, <2>1
  <2> HIDE DEF S
  <2>3. QED
    BY <1>2, <2>2
<1>6. \A k \in 1 .. n : at(k) \in S
  BY <1>2, <1>5, PlacesAreTaken
<1>7. \A x \in S : Puesto(S, x) \in 1 .. n /\ at(Puesto(S, x)) = x
  <2>1. SUFFICES ASSUME NEW x \in S
                 PROVE  Puesto(S, x) \in 1 .. n /\ at(Puesto(S, x)) = x
    OBVIOUS
  <2>2. Puesto(S, x) \in 1 .. n
    BY <1>2, <1>5, PlacesAreTaken
  <2>3. at(Puesto(S, x)) \in S /\ Puesto(S, at(Puesto(S, x))) = Puesto(S, x)
    OBVIOUS
  <2> HIDE DEF S, at
  <2>4. at(Puesto(S, x)) = x
    BY <1>2, <1>5, <2>3, PlacesAreDistinct
  <2>5. QED
    BY <2>2, <2>4
<1> HIDE DEF S, n, at
<1>8. \A k \in 1 .. Len(Empresas) : Empresas[k] \in Companies
  BY DEF Companies
<1>9. \A k \in 1 .. n : todo(k) \in Items2Do
  BY <1>2, <1>6, <1>8 DEF Items2Do
<1>10. WorkPlan(c) \in Seq(Items2Do) /\ Len(WorkPlan(c)) = n
  <2>1. WorkPlan(c) \in [1 .. n -> Items2Do]
    BY <1>1, <1>9
  <2>2. QED
    BY <1>3, <2>1
<1>11. ASSUME NEW x \in Owed(c)
       PROVE  \E k \in 1 .. Len(WorkPlan(c)) : WorkPlan(c)[k] = [day |-> x[2], emp |-> x[1]]
  <2>1. x \in Companies \X Loaded
    BY DEF Owed
  <2>2. PICK k \in 1 .. Len(Empresas) : x[1] = Empresas[k]
    BY <2>1 DEF Companies
  <2>3. Window(c).desde \in Int /\ Window(c).hasta \in Int /\ x[2] \in Int
    BY <1>4, <2>1, WindowType
  <2>4. <<x[2], k>> \in S
    BY <1>4, <2>1, <2>2, <2>3 DEF Owed, S, PlanItems, FindMissing
  <2>5. todo(Puesto(S, <<x[2], k>>)) = [day |-> x[2], emp |-> x[1]]
    BY <1>7, <2>2, <2>4
  <2> HIDE DEF todo
  <2>6. QED
    BY <1>1, <1>7, <1>10, <2>4, <2>5
<1>12. QED
  BY <1>10, <1>11

-----------------------------------------------------------------------------
(* The jobs.                                                               *)

\* A job with an item fewer to do keeps nothing of the day it was at.
LEMMA NextItemOf ==
  ASSUME NEW j, IsJob(j)
  PROVE  /\ IsJob(NextItem(j)) /\ NextItem(j).pc = "item" /\ NextItem(j).todo = Tail(j.todo)
         /\ NextItem(j).existing = {} /\ NextItem(j).rows = {} /\ NextItem(j).plan = j.plan
         /\ NextItem(j).hechos = j.hechos /\ NextItem(j).failures = j.failures
         /\ ~NextItem(j).encima /\ NextItem(j).visto
  BY DEF IsJob, NextItem, JobFields

LEMMA IdleIsIdle == ASSUME NEW j, j.pc # "idle" PROVE j # Idle
  BY DEF Idle

LEMMA NoRows == IsDay({}) /\ \A e, d : SalesKnown(e, d, {})
  BY DEF IsDay, SalesKnown

\* The rows that a reload computes, whatever the day before says: one for each
\* item, with the units of the source and the last sales the tickets know.
LEMMA FreshRows ==
  ASSUME SourcesInv, NEW e \in Companies, NEW d \in Loaded, NEW previous
  PROVE  LET rows == Dated(Extracted(erp[e], d), previous, Seed(erp[e], d))
         IN  IsDay(rows) /\ SoldRight(erp[e], d, rows) /\ SalesKnown(e, d, rows)
<1> DEFINE src == erp[e]
           read == Extracted(src, d)
           seed == Seed(src, d)
           rows == Dated(read, previous, seed)
<1>1. IsDay(read) /\ SoldRight(src, d, read)
  BY ExtractedRows
<1>2. Inicial[e].docs \subseteq src.docs /\ \A t \in src.docs : t.day \in Days
  BY DEF SourcesInv
<1> HIDE DEF src, read
<1>3. \A i \in Items : SoldBefore(e, d, i) # {} => seed[i] # NULL
  <2>1. SUFFICES ASSUME NEW i \in Items, SoldBefore(e, d, i) # {}
                 PROVE  seed[i] # NULL
    OBVIOUS
  <2>2. PICK t \in src.docs : /\ t.tipo = "PDV" /\ ~t.z /\ t.qty > 0 /\ t.item = i
                              /\ d - 90 <= t.day /\ t.day < d
    BY <1>2, <2>1 DEF SoldBefore
  <2>3. QED
    BY <1>2, <2>2, SeedKnows
<1> HIDE DEF seed
<1>4. IsDay(rows)
  BY <1>1, DatedRows
<1>5. SoldRight(src, d, rows)
  BY <1>1, DatedRows DEF SoldRight
<1>6. \A r \in rows : seed[r.item] # NULL => r.ultima # NULL
  BY <1>1, DatedRows
<1>7. SalesKnown(e, d, rows)
  <2>1. \A r \in rows : r.item \in Items
    BY <1>4 DEF IsDay, IsRow
  <2> HIDE DEF rows
  <2>2. QED
    BY <1>3, <1>6, <2>1 DEF SalesKnown
<1>8. QED
  BY <1>4, <1>5, <1>7 DEF src, read, seed

LEMMA InitHolds == Init => IInv
<1> SUFFICES ASSUME Init PROVE IInv
  OBVIOUS
<1>1. PICK D \in Cargados :
        /\ tabla = [e \in Companies |->
                [d \in Loaded |-> IF d \in D THEN FirstLoad(e, d) ELSE {}]]
        /\ limpios = Companies \X D
        /\ solos = Companies \X D
  BY DEF Init
<1>2. erp = Inicial
  BY DEF Init
<1>3. SourcesInv
  <2>1. hoy \in Int
    BY DEF Init
  <2>2. QED
    BY <1>2, <2>1, DiariaAssumption DEF SourcesInv, DiariaAssumption
<1>4. ASSUME NEW e \in Companies, NEW d \in Loaded
      PROVE  /\ IsDay(FirstLoad(e, d)) /\ SalesKnown(e, d, FirstLoad(e, d))
             /\ SoldRight(erp[e], d, FirstLoad(e, d))
  BY <1>2, <1>3, FreshRows DEF FirstLoad
<1>5. TablesInv
  <2>1. tabla = [e \in Companies |-> [d \in Loaded |-> tabla[e][d]]]
    BY <1>1
  <2>2. \A e \in Companies, d \in Loaded : tabla[e][d] = IF d \in D THEN FirstLoad(e, d) ELSE {}
    BY <1>1
  <2>3. QED
    BY <1>4, <2>1, <2>2, NoRows DEF TablesInv
<1>6. SalesInv
  <2>1. ASSUME NEW e \in Companies, NEW d \in Loaded, <<e, d>> \in limpios
        PROVE  SoldRight(erp[e], d, tabla[e][d])
    <3>1. d \in D
      BY <1>1, <2>1
    <3>2. tabla[e][d] = FirstLoad(e, d)
      BY <1>1, <3>1
    <3>3. QED
      BY <1>4, <3>2
  <2>2. QED
    BY <2>1 DEF SalesInv, SoldRight
<1>7. JobsInv
  BY DEF Init, JobsInv, Busy
<1>8. ExitsInv
  BY DEF Init, ExitsInv, ZeroMeansAllDone, NotRun
<1>9. QED
  BY <1>3, <1>5, <1>6, <1>7, <1>8 DEF IInv

-----------------------------------------------------------------------------
(* The steps of a run that change its job only.                            *)

\* A step that gives one process another job, or none.
LEMMA OneJob ==
  ASSUME JobsInv, NEW p \in Procs, NEW j, j = Idle \/ JobOK(j, erp),
         job' = [job EXCEPT ![p] = j], erp' = erp
  PROVE  JobsInv'
<1>1. job' = [q \in Procs |-> IF q = p THEN j ELSE job[q]]
  BY DEF JobsInv
<1>2. job' = [q \in Procs |-> job'[q]]
  BY <1>1
<1>3. \A q \in Procs : job'[q] # Idle => JobOK(job'[q], erp)
  BY <1>1 DEF JobsInv, Busy
<1>4. QED
  BY <1>2, <1>3 DEF JobsInv, Busy

LEMMA StartHolds ==
  ASSUME IInv, NEW p \in Procs, Start(p)
  PROVE  JobsInv'
<1>1. PICK c \in Calls[p] :
        job' = [job EXCEPT ![p] =
            [pc |-> "item", todo |-> WorkPlan(c), stop |-> c.stop, rolled |-> c,
             all |-> RefreshesAll(c), plan |-> Owed(c),
             existing |-> {}, previous |-> <<>>, rows |-> {}, borro |-> FALSE,
             encima |-> FALSE, visto |-> TRUE, refresh |-> FALSE, hechos |-> {},
             failures |-> 0]]
  BY DEF Start
<1> DEFINE j == [pc |-> "item", todo |-> WorkPlan(c), stop |-> c.stop, rolled |-> c,
                 all |-> RefreshesAll(c), plan |-> Owed(c),
                 existing |-> {}, previous |-> <<>>, rows |-> {}, borro |-> FALSE,
                 encima |-> FALSE, visto |-> TRUE, refresh |-> FALSE, hechos |-> {},
                 failures |-> 0]
<1>2. IsJob(j) /\ j.pc = "item" /\ j.todo = WorkPlan(c) /\ j.plan = Owed(c) /\ j.failures = 0
      /\ j.existing = {} /\ j.rows = {} /\ j.visto
  BY DEF IsJob, JobFields
<1>3. job' = [job EXCEPT ![p] = j]
  BY <1>1
<1> HIDE DEF j
<1>4. hoy \in Int /\ JobsInv
  BY DEF IInv, SourcesInv
<1>5. Accounted(j)
  BY <1>2, <1>4, PlanIsWhole DEF Accounted
<1>6. j.todo \in Seq(Items2Do) /\ j.plan \subseteq Companies \X Loaded
  BY <1>2, <1>4, PlanIsWhole DEF Owed
<1>7. JobOK(j, erp)
  BY <1>2, <1>5, <1>6, NoRows DEF JobOK
<1>8. erp' = erp
  BY DEF Start
<1>9. QED
  BY <1>3, <1>4, <1>7, <1>8, OneJob

\* The item a run is at.
LEMMA ItemType ==
  ASSUME JobsInv, NEW p \in Procs, Busy(p), job[p].todo # <<>>
  PROVE  /\ JobOK(job[p], erp) /\ job[p] \in {job[q] : q \in Procs}
         /\ Item(p) \in Items2Do /\ Item(p).emp \in Companies /\ Item(p).day \in Loaded
<1>1. JobOK(job[p], erp)
  BY DEF JobsInv
<1>2. job[p].todo \in Seq(Items2Do)
  BY <1>1 DEF JobOK
<1>3. Item(p) \in Items2Do
  BY <1>2 DEF Item
<1>4. QED
  BY <1>1, <1>3 DEF Items2Do

LEMMA BeginHolds ==
  ASSUME IInv, NEW p \in Procs, Begin(p)
  PROVE  JobsInv'
<1> DEFINE e == Item(p).emp
           d == Item(p).day
           k == job[p]
           x == tabla[e][d]
           pr == PreviousLastSales(e, d)
           f == k.all \/ d = hoy - 1
           j == [k EXCEPT !.pc = "delete", !.existing = x, !.previous = pr, !.refresh = f]
<1>1. Busy(p) /\ k.pc = "item" /\ k.todo # <<>> /\ JobsInv /\ TablesInv
  BY DEF Begin, At, IInv
<1>2. JobOK(k, erp) /\ e \in Companies /\ d \in Loaded
  BY <1>1, ItemType
<1>3. job' = [job EXCEPT ![p] = j]
  BY DEF Begin, ExistingDay
<1>4. IsDay(x) /\ SalesKnown(e, d, x)
  BY <1>1, <1>2 DEF TablesInv
<1>5. e = Head(k.todo).emp /\ d = Head(k.todo).day
  BY DEF Item
<1> HIDE DEF e, d, k, x, pr, f
<1>6. /\ IsJob(j) /\ j.pc = "delete" /\ j.todo = k.todo /\ j.existing = x /\ j.rows = k.rows
      /\ j.visto = k.visto /\ j.plan = k.plan /\ j.failures = k.failures /\ j.hechos = k.hechos
  BY <1>2 DEF JobOK, IsJob, JobFields
<1> HIDE DEF j
<1>7. ReloadOK(j, erp)
  BY <1>1, <1>2, <1>4, <1>5, <1>6, NoRows DEF ReloadOK, JobOK
<1>8. Accounted(j)
  BY <1>2, <1>6 DEF Accounted, JobOK
<1>9. JobOK(j, erp)
  BY <1>1, <1>2, <1>4, <1>6, <1>7, <1>8 DEF JobOK
<1>10. erp' = erp
  BY DEF Begin
<1>11. QED
  BY <1>1, <1>3, <1>9, <1>10, OneJob

\* A run that waits for a delete, or has made it, has the same job.
LEMMA Moved ==
  ASSUME NEW k, NEW src, JobOK(k, src), k.pc \in {"delete", "wait"},
         NEW pc \in {"wait", "extract"}, NEW b
  PROVE  JobOK([k EXCEPT !.pc = pc, !.borro = b], src) /\ JobOK([k EXCEPT !.pc = pc], src)
<1>1. ASSUME NEW j, IsJob(j), j.pc = pc, j.todo = k.todo, j.existing = k.existing,
             j.rows = k.rows, j.visto = k.visto, j.plan = k.plan, j.failures = k.failures,
             j.hechos = k.hechos
      PROVE  JobOK(j, src)
  <2>1. ReloadOK(j, src)
    BY <1>1 DEF ReloadOK, JobOK
  <2>2. Accounted(j)
    BY <1>1 DEF Accounted, JobOK
  <2>3. QED
    BY <1>1, <2>1, <2>2 DEF JobOK
<1>2. IsJob(k)
  BY DEF JobOK
<1> DEFINE j == [k EXCEPT !.pc = pc, !.borro = b]
           i == [k EXCEPT !.pc = pc]
<1>3. /\ IsJob(j) /\ j.pc = pc /\ j.todo = k.todo /\ j.existing = k.existing /\ j.rows = k.rows
      /\ j.visto = k.visto /\ j.plan = k.plan /\ j.failures = k.failures /\ j.hechos = k.hechos
  BY <1>2 DEF IsJob, JobFields
<1>4. /\ IsJob(i) /\ i.pc = pc /\ i.todo = k.todo /\ i.existing = k.existing /\ i.rows = k.rows
      /\ i.visto = k.visto /\ i.plan = k.plan /\ i.failures = k.failures /\ i.hechos = k.hechos
  BY <1>2 DEF IsJob, JobFields
<1> HIDE DEF j, i
<1>5. JobOK(j, src) /\ JobOK(i, src)
  BY <1>1, <1>3, <1>4
<1>6. QED
  BY <1>5 DEF j, i

LEMMA DeleteHolds ==
  ASSUME IInv, NEW p \in Procs, Delete(p)
  PROVE  JobsInv'
<1>1. JobsInv /\ JobOK(job[p], erp) /\ job[p].pc = "delete" /\ erp' = erp
  BY DEF Delete, At, IInv, JobsInv
<1>2. CASE Locked(p)
  <2>1. job' = [job EXCEPT ![p] = [@ EXCEPT !.pc = "wait"]]
    BY <1>2 DEF Delete
  <2>2. JobOK([job[p] EXCEPT !.pc = "wait"], erp)
    BY <1>1, Moved
  <2>3. QED
    BY <1>1, <2>1, <2>2, OneJob
<1>3. CASE ~Locked(p)
  <2> DEFINE b == tabla[Item(p).emp][Item(p).day] # {}
  <2>1. job' = [job EXCEPT ![p] = [@ EXCEPT !.pc = "extract", !.borro = b]]
    BY <1>3 DEF Delete
  <2> HIDE DEF b
  <2>2. JobOK([job[p] EXCEPT !.pc = "extract", !.borro = b], erp)
    BY <1>1, Moved
  <2>3. QED
    BY <1>1, <2>1, <2>2, OneJob
<1>4. QED
  BY <1>2, <1>3

LEMMA UnblockHolds ==
  ASSUME IInv, NEW p \in Procs, Unblock(p)
  PROVE  JobsInv'
<1>1. JobsInv /\ JobOK(job[p], erp) /\ job[p].pc = "wait" /\ erp' = erp
  BY DEF Unblock, At, IInv, JobsInv
<1> DEFINE b == ~job[p].encima /\ tabla[Item(p).emp][Item(p).day] # {}
<1>2. job' = [job EXCEPT ![p] = [@ EXCEPT !.pc = "extract", !.borro = b]]
  BY DEF Unblock
<1> HIDE DEF b
<1>3. JobOK([job[p] EXCEPT !.pc = "extract", !.borro = b], erp)
  BY <1>1, Moved
<1>4. QED
  BY <1>1, <1>2, <1>3, OneJob

LEMMA ExtractHolds ==
  ASSUME IInv, NEW p \in Procs, Extract(p)
  PROVE  JobsInv'
<1> DEFINE e == Item(p).emp
           d == Item(p).day
           k == job[p]
           rows == Dated(Extracted(erp[e], d), k.previous, Seed(erp[e], d))
           new == Prepared(rows, k) \cup Remaining(rows, k)
           j == [k EXCEPT !.pc = "commit", !.rows = new]
<1>1. Busy(p) /\ k.pc = "extract" /\ JobsInv /\ SourcesInv
  BY DEF Extract, At, IInv
<1>2. k.todo # <<>>
  BY <1>1 DEF JobsInv, JobOK, ReloadOK
<1>3. JobOK(k, erp) /\ e \in Companies /\ d \in Loaded
  BY <1>1, <1>2, ItemType
<1>4. job' = [job EXCEPT ![p] = j]
  BY DEF Extract
<1>5. e = Head(k.todo).emp /\ d = Head(k.todo).day
  BY DEF Item
<1>6. IsDay(rows) /\ SoldRight(erp[e], d, rows) /\ SalesKnown(e, d, rows)
  BY <1>1, <1>3, FreshRows
<1> HIDE DEF e, d, k, rows
<1>7. /\ IsDay(new)
      /\ \A i, v : Agrees(rows, i, v) => Agrees(new, i, v)
      /\ \A r \in new : \E s \in rows \cup k.existing : r.item = s.item /\ r.ultima = s.ultima
      /\ ~k.refresh => PhotosIn(k.existing, new)
  BY <1>3, <1>6, ReloadedRows DEF JobOK
<1> HIDE DEF new
<1>8. SalesKnown(e, d, k.existing)
  BY <1>1, <1>3, <1>5 DEF JobOK, ReloadOK
<1>9. SalesKnown(e, d, new) /\ SoldRight(erp[e], d, new)
  <2>1. \A r \in rows \cup k.existing : SoldBefore(e, d, r.item) # {} => r.ultima # NULL
    BY <1>6, <1>8 DEF SalesKnown
  <2>2. SalesKnown(e, d, new)
    BY <1>7, <2>1 DEF SalesKnown
  <2>3. SoldRight(erp[e], d, new)
    BY <1>6, <1>7 DEF SoldRight
  <2>4. QED
    BY <2>2, <2>3
<1>10. /\ IsJob(j) /\ j.pc = "commit" /\ j.todo = k.todo /\ j.existing = k.existing /\ j.rows = new
       /\ j.refresh = k.refresh /\ j.plan = k.plan /\ j.failures = k.failures /\ j.hechos = k.hechos
  BY <1>3 DEF JobOK, IsJob, JobFields
<1> HIDE DEF j
<1>11. ReloadOK(j, erp)
  BY <1>2, <1>5, <1>7, <1>8, <1>9, <1>10 DEF ReloadOK
<1>12. Accounted(j)
  BY <1>3, <1>10 DEF Accounted, JobOK
<1>13. JobOK(j, erp)
  BY <1>3, <1>7, <1>10, <1>11, <1>12 DEF JobOK
<1>14. erp' = erp
  BY DEF Extract
<1>15. QED
  BY <1>1, <1>4, <1>13, <1>14, OneJob

\* A failed item is not done; a run that failed promises nothing.
LEMMA ReloadFailsHolds ==
  ASSUME IInv, NEW p \in Procs, ReloadFails(p)
  PROVE  JobsInv'
<1> DEFINE k == job[p]
           n == NextItem(k)
           j == [n EXCEPT !.failures = @ + 1]
           i == [j EXCEPT !.todo = <<>>]
<1>1. Busy(p) /\ k.pc # "item" /\ JobsInv /\ erp' = erp
  BY DEF ReloadFails, InTransaction, IInv
<1>2. JobOK(k, erp)
  BY <1>1 DEF JobsInv
<1>3. job' = [job EXCEPT ![p] = IF j.stop THEN i ELSE j]
  BY DEF ReloadFails
<1>4. k.todo \in Seq(Items2Do) /\ k.todo # <<>>
  BY <1>1, <1>2 DEF JobOK, ReloadOK
<1>5. Tail(k.todo) \in Seq(Items2Do)
  BY <1>4
<1> HIDE DEF k
<1>6. /\ IsJob(n) /\ n.pc = "item" /\ n.todo = Tail(k.todo) /\ n.existing = {} /\ n.rows = {}
      /\ n.plan = k.plan /\ n.failures = k.failures /\ n.visto
  BY <1>2, NextItemOf DEF JobOK
<1>7. k.failures \in Nat /\ k.plan \subseteq Companies \X Loaded
  BY <1>2 DEF JobOK
<1> HIDE DEF n
<1>8. /\ IsJob(j) /\ j.pc = "item" /\ j.todo = n.todo /\ j.existing = {} /\ j.rows = {}
      /\ j.plan = k.plan /\ j.failures = k.failures + 1 /\ j.visto
  BY <1>6 DEF IsJob, JobFields
<1> HIDE DEF j
<1>9. /\ IsJob(i) /\ i.pc = "item" /\ i.todo = <<>> /\ i.existing = {} /\ i.rows = {}
      /\ i.plan = k.plan /\ i.failures = k.failures + 1 /\ i.visto
  BY <1>8 DEF IsJob, JobFields
<1> HIDE DEF i
<1>10. JobOK(j, erp)
  BY <1>5, <1>6, <1>7, <1>8, NoRows DEF JobOK, Accounted
<1>11. JobOK(i, erp)
  BY <1>7, <1>9, NoRows DEF JobOK, Accounted
<1>12. JobOK(IF j.stop THEN i ELSE j, erp)
  BY <1>10, <1>11
<1> DEFINE next == IF j.stop THEN i ELSE j
<1>13. job' = [job EXCEPT ![p] = next] /\ JobOK(next, erp)
  BY <1>3, <1>12
<1> HIDE DEF next
<1>14. QED
  BY <1>1, <1>13, OneJob

\* A run that ends with 0 has nothing left to do, and no failure.
LEMMA FinishHolds ==
  ASSUME IInv, NEW p \in Procs, Finish(p)
  PROVE  JobsInv' /\ ExitsInv'
<1>1. JobsInv /\ ExitsInv /\ JobOK(job[p], erp) /\ job[p].todo = <<>> /\ erp' = erp
  BY DEF Finish, At, IInv, JobsInv
<1>2. JobsInv'
  <2>1. job' = [job EXCEPT ![p] = Idle]
    BY DEF Finish
  <2>2. QED
    BY <1>1, <2>1, OneJob
<1> DEFINE out == [code |-> IF job[p].failures > 0 THEN 1 ELSE 0,
                   plan |-> job[p].plan, hechos |-> job[p].hechos]
<1>3. salida' = [q \in Procs |-> IF q = p THEN out ELSE salida[q]]
  BY <1>1 DEF Finish, ExitsInv
<1>4. out.code = 0 => out.plan \subseteq out.hechos
  <2>1. SUFFICES ASSUME out.code = 0 PROVE job[p].plan \subseteq job[p].hechos
    OBVIOUS
  <2>2. job[p].failures \in Nat
    BY <1>1 DEF JobOK
  <2>3. job[p].failures = 0
    BY <2>1, <2>2
  <2>4. Len(job[p].todo) = 0
    BY <1>1
  <2>5. QED
    BY <1>1, <2>3, <2>4 DEF JobOK, Accounted
<1> HIDE DEF out
<1>5. ExitsInv'
  <2>1. salida' = [q \in Procs |-> salida'[q]]
    BY <1>3
  <2>2. \A q \in Procs : salida'[q].code = 0 => salida'[q].plan \subseteq salida'[q].hechos
    BY <1>1, <1>3, <1>4 DEF ExitsInv, ZeroMeansAllDone
  <2>3. QED
    BY <2>1, <2>2 DEF ExitsInv, ZeroMeansAllDone
<1>6. QED
  BY <1>2, <1>5

-----------------------------------------------------------------------------
(* The commit of a day.                                                    *)

\* The run that commits has done the item and goes on to the next.
LEMMA CommittedJob ==
  ASSUME JobsInv, NEW p \in Procs, At(p, "commit"),
         NEW h, h = job[p].hechos \cup {<<Item(p).emp, Item(p).day>>}
  PROVE  JobOK(NextItem([job[p] EXCEPT !.hechos = h]), erp)
<1> DEFINE k == job[p]
           m == [k EXCEPT !.hechos = h]
           n == NextItem(m)
<1>1. JobOK(k, erp) /\ k.todo \in Seq(Items2Do) /\ k.todo # <<>>
  BY DEF At, JobsInv, JobOK, ReloadOK
<1>2. Item(p) = Head(k.todo)
  BY DEF Item
<1> HIDE DEF k
<1>3. IsJob(m) /\ m.todo = k.todo /\ m.plan = k.plan /\ m.failures = k.failures /\ m.hechos = h
  BY <1>1 DEF JobOK, IsJob, JobFields
<1> HIDE DEF m
<1>4. /\ IsJob(n) /\ n.pc = "item" /\ n.todo = Tail(k.todo) /\ n.existing = {} /\ n.rows = {}
      /\ n.plan = k.plan /\ n.hechos = h /\ n.failures = k.failures /\ n.visto
  BY <1>3, NextItemOf
<1> HIDE DEF n
<1>5. ASSUME n.failures = 0, NEW x \in n.plan, x \notin n.hechos
      PROVE  \E i \in 1 .. Len(n.todo) : n.todo[i] = [day |-> x[2], emp |-> x[1]]
  <2>1. x \notin k.hechos /\ x # <<Item(p).emp, Item(p).day>>
    BY <1>4, <1>5 DEF k
  <2>2. PICK i \in 1 .. Len(k.todo) : k.todo[i] = [day |-> x[2], emp |-> x[1]]
    BY <1>1, <1>4, <1>5, <2>1 DEF JobOK, Accounted
  <2>3. x = <<x[1], x[2]>>
    BY <1>1, <1>4, <1>5 DEF JobOK
  <2>4. i # 1
    BY <1>1, <1>2, <2>1, <2>2, <2>3
  <2>5. i - 1 \in 1 .. Len(n.todo) /\ n.todo[i - 1] = k.todo[i]
    BY <1>1, <1>4, <2>2, <2>4
  <2>6. QED
    BY <2>2, <2>5
<1>6. n.todo \in Seq(Items2Do)
  BY <1>1, <1>4
<1>7. JobOK(n, erp)
  BY <1>1, <1>4, <1>5, <1>6, NoRows DEF JobOK, Accounted
<1>8. QED
  BY <1>7 DEF k, m, n

\* A run another has met at its day keeps its job.
LEMMA MetJob ==
  ASSUME NEW k, NEW src, JobOK(k, src)
  PROVE  JobOK([k EXCEPT !.encima = TRUE], src)
<1> DEFINE j == [k EXCEPT !.encima = TRUE]
<1>1. /\ IsJob(j) /\ j.pc = k.pc /\ j.todo = k.todo /\ j.existing = k.existing /\ j.rows = k.rows
      /\ j.visto = k.visto /\ j.refresh = k.refresh /\ j.plan = k.plan
      /\ j.failures = k.failures /\ j.hechos = k.hechos
  BY DEF JobOK, IsJob, JobFields
<1> HIDE DEF j
<1>2. k.pc # "item" => ReloadOK(j, src)
  BY <1>1 DEF ReloadOK, JobOK
<1>3. Accounted(j)
  BY <1>1 DEF Accounted, JobOK
<1>4. JobOK(j, src)
  BY <1>1, <1>2, <1>3 DEF JobOK
<1>5. QED
  BY <1>4 DEF j

LEMMA CommitHolds ==
  ASSUME IInv, NEW p \in Procs, Commit(p)
  PROVE  JobsInv' /\ TablesInv' /\ SalesInv'
<1> DEFINE e == Item(p).emp
           d == Item(p).day
           j == job[p]
           h == j.hechos \cup {<<e, d>>}
           next == NextItem([j EXCEPT !.hechos = h])
           day == Upserted(tabla[e][d], j)
<1>1. At(p, "commit") /\ JobsInv /\ TablesInv /\ SalesInv /\ erp' = erp
  BY DEF Commit, IInv
<1>2. Busy(p) /\ j.pc = "commit" /\ JobOK(j, erp) /\ ReloadOK(j, erp)
  BY <1>1 DEF At, JobsInv, JobOK
<1>3. e \in Companies /\ d \in Loaded
  BY <1>1, <1>2, ItemType DEF ReloadOK
<1>4. /\ tabla' = [tabla EXCEPT ![e][d] = day]
      /\ limpios' = IF j.visto THEN limpios \cup {<<e, d>>} ELSE limpios \ {<<e, d>>}
      /\ solos' = IF j.encima THEN solos \ {<<e, d>>} ELSE solos \cup {<<e, d>>}
      /\ job' = [q \in Procs |->
            IF q = p THEN next
            ELSE IF InTransaction(q) /\ Item(q) = Item(p) /\ job[q].pc # "delete"
                 THEN [job[q] EXCEPT !.encima = TRUE]
            ELSE job[q]]
  BY DEF Commit
<1>5. JobOK(next, erp)
  BY <1>1, CommittedJob
<1> HIDE DEF next
<1>6. JobsInv'
  <2>1. job' = [q \in Procs |-> job'[q]]
    BY <1>4
  <2>2. ASSUME NEW q \in Procs, job'[q] # Idle
        PROVE  JobOK(job'[q], erp)
    <3>1. CASE q = p
      BY <1>4, <1>5, <3>1
    <3>2. CASE q # p /\ InTransaction(q) /\ Item(q) = Item(p) /\ job[q].pc # "delete"
      <4>1. job'[q] = [job[q] EXCEPT !.encima = TRUE]
        BY <1>4, <3>2
      <4>2. JobOK(job[q], erp)
        BY <1>1, <3>2 DEF InTransaction, JobsInv
      <4>3. QED
        BY <4>1, <4>2, MetJob
    <3>3. CASE q # p /\ ~(InTransaction(q) /\ Item(q) = Item(p) /\ job[q].pc # "delete")
      BY <1>1, <1>4, <2>2, <3>3 DEF JobsInv, Busy
    <3>4. QED
      BY <3>1, <3>2, <3>3
  <2>3. QED
    BY <1>1, <2>1, <2>2 DEF JobsInv, Busy
<1>7. IsDay(tabla[e][d]) /\ SalesKnown(e, d, tabla[e][d])
  BY <1>1, <1>3 DEF TablesInv
<1>8. e = Head(j.todo).emp /\ d = Head(j.todo).day
  BY DEF Item
<1>9. IsDay(j.rows) /\ SalesKnown(e, d, j.rows) /\ (j.visto => SoldRight(erp[e], d, j.rows))
  BY <1>2, <1>8 DEF JobOK, ReloadOK
<1> HIDE DEF e, d, j
<1>10. /\ IsDay(day) /\ day \subseteq tabla[e][d] \cup j.rows
       /\ \A i, v : Agrees(j.rows, i, v) /\ (v # 0 \/ ~j.encima) => Agrees(day, i, v)
  BY <1>7, <1>9, UpsertedRows
<1> HIDE DEF day
<1>11. SalesKnown(e, d, day)
  BY <1>7, <1>9, <1>10 DEF SalesKnown
<1>12. /\ tabla' = [a \in Companies |-> [b \in Loaded |-> tabla'[a][b]]]
       /\ tabla'[e][d] = day
       /\ \A a \in Companies, b \in Loaded : <<a, b>> # <<e, d>> => tabla'[a][b] = tabla[a][b]
  <2>1. tabla = [a \in Companies |-> [b \in Loaded |-> tabla[a][b]]]
    BY <1>1 DEF TablesInv
  <2>2. tabla' = [a \in Companies |-> [b \in Loaded |->
                    IF a = e /\ b = d THEN day ELSE tabla[a][b]]]
    BY <1>3, <1>4, <2>1
  <2>3. QED
    BY <1>3, <2>2
<1>13. TablesInv'
  <2>1. ASSUME NEW a \in Companies, NEW b \in Loaded
        PROVE  IsDay(tabla'[a][b]) /\ SalesKnown(a, b, tabla'[a][b])
    <3>1. CASE <<a, b>> = <<e, d>>
      BY <1>10, <1>11, <1>12, <3>1
    <3>2. CASE <<a, b>> # <<e, d>>
      BY <1>1, <1>12, <3>2 DEF TablesInv
    <3>3. QED
      BY <3>1, <3>2
  <2>2. QED
    BY <1>12, <2>1 DEF TablesInv
<1>14. SalesInv'
  <2>1. ASSUME NEW a \in Companies, NEW b \in Loaded, <<a, b>> \in limpios', NEW i \in Items,
               SoldOf(erp[a], i, b) # 0 \/ <<a, b>> \in solos'
        PROVE  Agrees(tabla'[a][b], i, SoldOf(erp[a], i, b))
    <3>1. CASE <<a, b>> = <<e, d>>
      <4>1. j.visto
        BY <1>4, <2>1, <3>1
      <4>2. Agrees(j.rows, i, SoldOf(erp[e], i, d))
        BY <1>9, <4>1 DEF SoldRight
      <4>3. SoldOf(erp[e], i, d) # 0 \/ ~j.encima
        BY <1>4, <2>1, <3>1
      <4>4. QED
        BY <1>10, <1>12, <3>1, <4>2, <4>3
    <3>2. CASE <<a, b>> # <<e, d>>
      <4>1. <<a, b>> \in limpios /\ (<<a, b>> \in solos' => <<a, b>> \in solos)
        BY <1>4, <2>1, <3>2
      <4>2. Agrees(tabla[a][b], i, SoldOf(erp[a], i, b))
        BY <1>1, <2>1, <4>1 DEF SalesInv
      <4>3. QED
        BY <1>12, <3>2, <4>2
    <3>3. QED
      BY <3>1, <3>2
  <2>2. QED
    BY <1>1, <2>1 DEF SalesInv
<1>15. QED
  BY <1>6, <1>13, <1>14

-----------------------------------------------------------------------------
(* The source moves.                                                       *)

\* The units of a day are those of its tickets.
LEMMA SameTickets ==
  ASSUME NEW s, NEW t, NEW d, NEW i, \A u : u.day = d => (u \in s.docs <=> u \in t.docs)
  PROVE  SoldOf(s, i, d) = SoldOf(t, i, d)
<1>1. Ventas(s, i, d) = Ventas(t, i, d)
  BY DEF Ventas, Tickets
<1>2. QED
  BY <1>1 DEF SoldOf

LEMMA PostHolds ==
  ASSUME IInv, Post
  PROVE  SourcesInv' /\ SalesInv' /\ JobsInv'
<1>1. PICK t \in Documents :
        /\ erp' = [erp EXCEPT ![t.emp].docs = @ \cup {t}]
        /\ limpios' = limpios \ {<<t.emp, t.day>>}
        /\ job' = [p \in Procs |->
            IF At(p, "commit") /\ Item(p) = [day |-> t.day, emp |-> t.emp]
            THEN [job[p] EXCEPT !.visto = FALSE] ELSE job[p]]
  BY DEF Post
<1>2. SourcesInv /\ SalesInv /\ JobsInv /\ hoy' = hoy /\ tabla' = tabla /\ solos' = solos
  BY DEF IInv, Post
<1>3. t.emp \in Companies /\ t.day \in Days
  BY DiariaAssumption DEF DiariaAssumption
<1>4. erp' = [e \in Companies |->
                [docs |-> IF e = t.emp THEN erp[e].docs \cup {t} ELSE erp[e].docs,
                 resumen |-> erp[e].resumen]]
  <2> DEFINE src == erp[t.emp]
             more == [src EXCEPT !.docs = @ \cup {t}]
  <2>1. erp = [e \in Companies |-> erp[e]] /\ src = [docs |-> src.docs, resumen |-> src.resumen]
    BY <1>2, <1>3 DEF SourcesInv
  <2>2. erp' = [e \in Companies |-> IF e = t.emp THEN more ELSE erp[e]]
    BY <1>1, <2>1
  <2>3. more = [docs |-> src.docs \cup {t}, resumen |-> src.resumen]
    BY <2>1
  <2>4. \A e \in Companies : erp[e] = [docs |-> erp[e].docs, resumen |-> erp[e].resumen]
    BY <1>2 DEF SourcesInv
  <2> HIDE DEF more
  <2>5. QED
    BY <2>2, <2>3, <2>4
<1>5. SourcesInv'
  <2>1. erp' = [e \in Companies |-> [docs |-> erp'[e].docs, resumen |-> erp'[e].resumen]]
    BY <1>4
  <2>2. \A e \in Companies : erp[e].docs \subseteq erp'[e].docs /\ erp'[e].docs \subseteq erp[e].docs \cup {t}
    BY <1>4
  <2>3. QED
    BY <1>2, <1>3, <2>1, <2>2 DEF SourcesInv
<1>6. ASSUME NEW e \in Companies, NEW d, <<e, d>> # <<t.emp, t.day>>
      PROVE  \A i : SoldOf(erp'[e], i, d) = SoldOf(erp[e], i, d)
  <2>1. \A u : u.day = d => (u \in erp'[e].docs <=> u \in erp[e].docs)
    BY <1>4, <1>6
  <2>2. QED
    BY <2>1, SameTickets
<1>7. SalesInv'
  <2>1. ASSUME NEW e \in Companies, NEW d \in Loaded, <<e, d>> \in limpios', NEW i \in Items,
               SoldOf(erp'[e], i, d) # 0 \/ <<e, d>> \in solos
        PROVE  Agrees(tabla[e][d], i, SoldOf(erp'[e], i, d))
    <3>1. <<e, d>> # <<t.emp, t.day>> /\ <<e, d>> \in limpios
      BY <1>1, <2>1
    <3>2. SoldOf(erp'[e], i, d) = SoldOf(erp[e], i, d)
      BY <1>6, <3>1
    <3>3. QED
      BY <1>2, <2>1, <3>1, <3>2 DEF SalesInv
  <2>2. QED
    BY <1>2, <2>1 DEF SalesInv
<1>8. JobsInv'
  <2>1. job' = [q \in Procs |-> job'[q]]
    BY <1>1
  <2>2. ASSUME NEW q \in Procs, job'[q] # Idle
        PROVE  JobOK(job'[q], erp')
    <3> DEFINE k == job[q]
               j == [k EXCEPT !.visto = FALSE]
               met == At(q, "commit") /\ Item(q) = [day |-> t.day, emp |-> t.emp]
    <3>1. job'[q] = IF met THEN j ELSE k
      BY <1>1
    <3>2. Busy(q)
      BY <2>2, <3>1 DEF At, Busy
    <3>3. JobOK(k, erp)
      BY <1>2, <3>2 DEF JobsInv
    <3>4. CASE met
      <4>1. k.pc = "commit"
        BY <3>4 DEF At
      <4> HIDE DEF k, met
      <4>2. /\ IsJob(j) /\ j.pc = k.pc /\ j.todo = k.todo /\ j.existing = k.existing
            /\ j.rows = k.rows /\ ~j.visto /\ j.refresh = k.refresh /\ j.plan = k.plan
            /\ j.failures = k.failures /\ j.hechos = k.hechos
        BY <3>3 DEF JobOK, IsJob, JobFields
      <4> HIDE DEF j
      <4>3. ReloadOK(j, erp')
        BY <3>3, <4>1, <4>2 DEF ReloadOK, JobOK
      <4>4. Accounted(j)
        BY <3>3, <4>2 DEF Accounted, JobOK
      <4>5. JobOK(j, erp')
        BY <3>3, <4>1, <4>2, <4>3, <4>4 DEF JobOK
      <4>6. QED
        BY <3>1, <3>4, <4>5
    <3>5. CASE ~met
      <4>1. ASSUME k.pc = "commit"
            PROVE  \A i : SoldOf(erp'[Item(q).emp], i, Item(q).day) = SoldOf(erp[Item(q).emp], i, Item(q).day)
        <5>1. k.todo # <<>>
          BY <3>3, <4>1 DEF JobOK, ReloadOK
        <5>2. Item(q) \in Items2Do /\ Item(q).emp \in Companies
          BY <1>2, <3>2, <5>1, ItemType
        <5>3. Item(q) # [day |-> t.day, emp |-> t.emp]
          BY <3>2, <3>5, <4>1 DEF At
        <5>4. <<Item(q).emp, Item(q).day>> # <<t.emp, t.day>>
          BY <5>2, <5>3 DEF Items2Do
        <5>5. QED
          BY <1>6, <5>2, <5>4
      <4>2. Item(q) = Head(k.todo)
        BY DEF Item
      <4> HIDE DEF k, met
      <4>3. k.pc # "item" => ReloadOK(k, erp')
        BY <3>3, <4>1, <4>2 DEF ReloadOK, JobOK, SoldRight
      <4>4. JobOK(k, erp')
        BY <3>3, <4>3 DEF JobOK
      <4>5. QED
        BY <3>1, <3>5, <4>4
    <3>6. QED
      BY <3>4, <3>5
  <2>3. QED
    BY <2>1, <2>2 DEF JobsInv, Busy
<1>9. QED
  BY <1>5, <1>7, <1>8

\* A line of the summary moves no ticket.
LEMMA StockMovesHolds ==
  ASSUME IInv, StockMoves
  PROVE  SourcesInv' /\ SalesInv' /\ JobsInv'
<1>1. PICK c \in Cambios :
        erp' = [erp EXCEPT ![c.emp].resumen[c.item][c.lapso] = c.line]
  BY DEF StockMoves
<1>2. /\ SourcesInv /\ SalesInv /\ JobsInv
      /\ hoy' = hoy /\ tabla' = tabla /\ limpios' = limpios /\ solos' = solos /\ job' = job
  BY DEF IInv, StockMoves
<1>3. /\ erp' = [e \in Companies |-> [docs |-> erp'[e].docs, resumen |-> erp'[e].resumen]]
      /\ \A e \in Companies : erp'[e].docs = erp[e].docs
  <2> DEFINE src == erp[c.emp]
             more == [src EXCEPT !.resumen[c.item][c.lapso] = c.line]
  <2>1. erp = [e \in Companies |-> erp[e]]
    BY <1>2 DEF SourcesInv
  <2>2. erp' = [e \in Companies |-> IF e = c.emp THEN more ELSE erp[e]]
    BY <1>1, <2>1
  <2>3. \A e \in Companies : erp[e] = [docs |-> erp[e].docs, resumen |-> erp[e].resumen]
    BY <1>2 DEF SourcesInv
  <2>4. c.emp \in Companies =>
          more = [docs |-> src.docs, resumen |-> more.resumen] /\ more.docs = src.docs
    <3> DEFINE x == [src.resumen EXCEPT ![c.item][c.lapso] = c.line]
    <3>1. more = [src EXCEPT !.resumen = x]
      OBVIOUS
    <3>2. c.emp \in Companies => src = [docs |-> src.docs, resumen |-> src.resumen]
      BY <2>3
    <3> HIDE DEF x, more, src
    <3>3. c.emp \in Companies => more = [docs |-> src.docs, resumen |-> x]
      BY <3>1, <3>2
    <3>4. QED
      BY <3>3
  <2> HIDE DEF more
  <2>5. QED
    BY <2>2, <2>3, <2>4
<1>4. SourcesInv'
  BY <1>2, <1>3 DEF SourcesInv
<1>5. \A e \in Companies : \A i, d : SoldOf(erp'[e], i, d) = SoldOf(erp[e], i, d)
  BY <1>3, SameTickets
<1>6. SalesInv'
  BY <1>2, <1>5 DEF SalesInv
<1>7. ASSUME NEW q \in Procs, Busy(q)
      PROVE  JobOK(job[q], erp')
  <2>1. JobOK(job[q], erp)
    BY <1>2, <1>7 DEF JobsInv
  <2>2. ASSUME job[q].pc = "commit"
        PROVE  \A i, d : SoldOf(erp'[Item(q).emp], i, d) = SoldOf(erp[Item(q).emp], i, d)
    <3>1. job[q].todo # <<>>
      BY <2>1, <2>2 DEF JobOK, ReloadOK
    <3>2. Item(q).emp \in Companies
      BY <1>2, <1>7, <3>1, ItemType
    <3>3. QED
      BY <1>5, <3>2
  <2>3. Item(q) = Head(job[q].todo)
    BY DEF Item
  <2>4. job[q].pc # "item" => ReloadOK(job[q], erp')
    BY <2>1, <2>2, <2>3 DEF ReloadOK, JobOK, SoldRight
  <2>5. QED
    BY <2>1, <2>4 DEF JobOK
<1>8. JobsInv'
  BY <1>2, <1>7 DEF JobsInv, Busy
<1>9. QED
  BY <1>4, <1>6, <1>8

-----------------------------------------------------------------------------
(* Every step.                                                             *)

LEMMA NextHolds == IInv /\ [Next]_vars => IInv'
<1> SUFFICES ASSUME IInv, [Next]_vars PROVE IInv'
  OBVIOUS
<1> USE DEF IInv
<1>1. ASSUME NEW p \in Procs, Start(p) PROVE IInv'
  <2>1. JobsInv'
    BY <1>1, StartHolds
  <2>2. /\ hoy' = hoy /\ erp' = erp /\ tabla' = tabla /\ limpios' = limpios /\ solos' = solos
        /\ salida' = [salida EXCEPT ![p] = NotRun]
    BY <1>1 DEF Start
  <2>3. SourcesInv' /\ TablesInv' /\ SalesInv'
    BY <2>2 DEF SourcesInv, TablesInv, SalesInv
  <2>4. ExitsInv'
    <3>1. salida' = [q \in Procs |-> IF q = p THEN NotRun ELSE salida[q]]
      BY <2>2 DEF ExitsInv
    <3>2. salida' = [q \in Procs |-> salida'[q]]
      BY <3>1
    <3>3. \A q \in Procs : salida'[q].code = 0 => salida'[q].plan \subseteq salida'[q].hechos
      BY <3>1 DEF ExitsInv, ZeroMeansAllDone, NotRun
    <3>4. QED
      BY <3>2, <3>3 DEF ExitsInv, ZeroMeansAllDone
  <2>5. QED
    BY <2>1, <2>3, <2>4
<1>2. ASSUME NEW p \in Procs, Begin(p) \/ Delete(p) \/ Unblock(p) \/ Extract(p) PROVE IInv'
  <2>1. JobsInv'
    BY <1>2, BeginHolds, DeleteHolds, UnblockHolds, ExtractHolds
  <2>2. /\ hoy' = hoy /\ erp' = erp /\ tabla' = tabla /\ limpios' = limpios /\ solos' = solos
        /\ salida' = salida
    BY <1>2 DEF Begin, Delete, Unblock, Extract
  <2>3. QED
    BY <2>1, <2>2 DEF SourcesInv, TablesInv, SalesInv, ExitsInv, ZeroMeansAllDone
<1>3. ASSUME NEW p \in Procs, Commit(p) PROVE IInv'
  <2>1. JobsInv' /\ TablesInv' /\ SalesInv'
    BY <1>3, CommitHolds
  <2>2. hoy' = hoy /\ erp' = erp /\ salida' = salida
    BY <1>3 DEF Commit
  <2>3. QED
    BY <2>1, <2>2 DEF SourcesInv, ExitsInv, ZeroMeansAllDone
<1>4. ASSUME NEW p \in Procs, ReloadFails(p) PROVE IInv'
  <2>1. JobsInv'
    BY <1>4, ReloadFailsHolds
  <2>2. /\ hoy' = hoy /\ erp' = erp /\ tabla' = tabla /\ limpios' = limpios /\ solos' = solos
        /\ salida' = salida
    BY <1>4 DEF ReloadFails
  <2>3. QED
    BY <2>1, <2>2 DEF SourcesInv, TablesInv, SalesInv, ExitsInv, ZeroMeansAllDone
<1>5. ASSUME NEW p \in Procs, Finish(p) PROVE IInv'
  <2>1. JobsInv' /\ ExitsInv'
    BY <1>5, FinishHolds
  <2>2. hoy' = hoy /\ erp' = erp /\ tabla' = tabla /\ limpios' = limpios /\ solos' = solos
    BY <1>5 DEF Finish
  <2>3. QED
    BY <2>1, <2>2 DEF SourcesInv, TablesInv, SalesInv
<1>6. ASSUME NEW p \in Procs, Crash(p) PROVE IInv'
  <2>1. /\ hoy' = hoy /\ erp' = erp /\ tabla' = tabla /\ limpios' = limpios /\ solos' = solos
        /\ salida' = salida /\ job' = [job EXCEPT ![p] = Idle]
    BY <1>6 DEF Crash
  <2>2. JobsInv'
    BY <2>1, OneJob
  <2>3. QED
    BY <2>1, <2>2 DEF SourcesInv, TablesInv, SalesInv, ExitsInv, ZeroMeansAllDone
<1>7. ASSUME Post PROVE IInv'
  <2>1. SourcesInv' /\ SalesInv' /\ JobsInv'
    BY <1>7, PostHolds
  <2>2. tabla' = tabla /\ salida' = salida
    BY <1>7 DEF Post
  <2>3. QED
    BY <2>1, <2>2 DEF TablesInv, ExitsInv, ZeroMeansAllDone
<1>8. ASSUME StockMoves PROVE IInv'
  <2>1. SourcesInv' /\ SalesInv' /\ JobsInv'
    BY <1>8, StockMovesHolds
  <2>2. tabla' = tabla /\ salida' = salida
    BY <1>8 DEF StockMoves
  <2>3. QED
    BY <2>1, <2>2 DEF TablesInv, ExitsInv, ZeroMeansAllDone
<1>9. ASSUME NewDay PROVE IInv'
  <2>1. /\ hoy' = hoy + 1 /\ erp' = erp /\ tabla' = tabla /\ limpios' = limpios /\ solos' = solos
        /\ salida' = salida /\ job' = job
    BY <1>9 DEF NewDay
  <2>2. SourcesInv'
    BY <2>1 DEF SourcesInv
  <2>3. QED
    BY <2>1, <2>2 DEF TablesInv, SalesInv, JobsInv, Busy, ExitsInv, ZeroMeansAllDone
<1>10. ASSUME UNCHANGED vars PROVE IInv'
  BY <1>10 DEF vars, SourcesInv, TablesInv, SalesInv, JobsInv, Busy, ExitsInv, ZeroMeansAllDone
<1>11. QED
  BY <1>1, <1>2, <1>3, <1>4, <1>5, <1>6, <1>7, <1>8, <1>9, <1>10 DEF Next, Run

-----------------------------------------------------------------------------
(* What follows.                                                           *)

\* The sources, the tables, the jobs and the exits agree in every state of
\* every number of runs of etl_rotacion_diaria_sede_3bd_auto.py at once.
THEOREM InvariantHolds == Spec => []IInv
<1>1. Init => IInv
  BY InitHolds
<1>2. IInv /\ [Next]_vars => IInv'
  BY NextHolds
<1>3. QED
  BY <1>1, <1>2, PTL DEF Spec

\* A day that is done, to which no ticket came since it was read, has the units
\* of the ERP (reload_day_company), whoever else reloads it.
THEOREM DoneDaysAreRight == Spec => []DoneDaysHaveTheSales
<1>1. IInv => DoneDaysHaveTheSales
  <2>1. SUFFICES ASSUME IInv, NEW e \in Companies, NEW d \in Loaded, <<e, d>> \in limpios,
                        NEW i \in Items, SoldOf(erp[e], i, d) # 0 \/ <<e, d>> \in solos
                 PROVE  (IF i \in ItemsOf(tabla[e][d]) THEN RowOf(tabla[e][d], i).sold ELSE 0)
                            = SoldOf(erp[e], i, d)
    BY DEF DoneDaysHaveTheSales, SoldOf
  <2>2. IsDay(tabla[e][d]) /\ Agrees(tabla[e][d], i, SoldOf(erp[e], i, d))
    BY <2>1 DEF IInv, TablesInv, SalesInv
  <2>3. CASE i \in ItemsOf(tabla[e][d])
    BY <2>2, <2>3, ItemOfDay DEF Agrees
  <2>4. CASE i \notin ItemsOf(tabla[e][d])
    BY <2>2, <2>4 DEF Agrees, ItemsOf
  <2>5. QED
    BY <2>3, <2>4
<1>2. QED
  BY <1>1, InvariantHolds, PTL

\* An item that was sold in the ninety days before has a last sale in every
\* row (apply_last_sale_dates and fetch_source_last_sale_seed), whatever the
\* extraction, the day before and the photos kept gave it.
THEOREM RecentSalesAreKnown == Spec => []RecentSaleIsKnown
<1>1. IInv => RecentSaleIsKnown
  <2>1. SUFFICES ASSUME IInv, NEW e \in Companies, NEW d \in Loaded, NEW r \in tabla[e][d],
                        NEW t \in Inicial[e].docs, t.tipo = "PDV", ~t.z, t.qty > 0,
                        t.item = r.item, d - 90 <= t.day, t.day < d
                 PROVE  r.ultima # NULL
    BY DEF RecentSaleIsKnown
  <2>2. SalesKnown(e, d, tabla[e][d])
    BY <2>1 DEF IInv, TablesInv
  <2>3. t \in SoldBefore(e, d, r.item)
    BY <2>1 DEF SoldBefore
  <2>4. QED
    BY <2>2, <2>3 DEF SalesKnown
<1>2. QED
  BY <1>1, InvariantHolds, PTL

\* Exit code 0 means that every company and day of the window, and every one
\* of the history that was not done, was loaded by the run (run and
\* build_work_plan).
THEOREM ZeroIsAllDone == Spec => []ZeroMeansAllDone
<1>1. IInv => ZeroMeansAllDone
  BY DEF IInv, ExitsInv
<1>2. QED
  BY <1>1, InvariantHolds, PTL

\* A reload that is not a refresh keeps every photo of the day it read
\* (restore_inventory_snapshot and remaining_inventory_snapshot_rows).
THEOREM SnapshotsSurvive == Spec => SnapshotSurvives
<1>1. ASSUME IInv, [Next]_vars, NEW p \in Procs, Commit(p), ~job[p].refresh,
             NEW r \in job[p].existing, HasPhoto(r)
      PROVE  \E s \in tabla'[Item(p).emp][Item(p).day] : s.item = r.item /\ s.foto = r.foto
  <2> DEFINE e == Item(p).emp
             d == Item(p).day
             j == job[p]
  <2>1. JobOK(j, erp) /\ ReloadOK(j, erp) /\ j.pc = "commit" /\ Busy(p) /\ JobsInv /\ TablesInv
    BY <1>1 DEF IInv, JobsInv, Commit, At, JobOK
  <2>2. e \in Companies /\ d \in Loaded
    BY <2>1, ItemType DEF ReloadOK
  <2>3. PICK s \in j.rows : s.item = r.item /\ s.foto = r.foto
    BY <1>1, <2>1 DEF ReloadOK, PhotosIn
  <2>4. tabla' = [tabla EXCEPT ![e][d] = Upserted(@, j)]
    BY <1>1 DEF Commit
  <2>5. tabla = [a \in Companies |-> [b \in Loaded |-> tabla[a][b]]]
    BY <2>1 DEF TablesInv
  <2> HIDE DEF e, d, j
  <2>6. tabla'[e][d] = Upserted(tabla[e][d], j)
    BY <2>2, <2>4, <2>5
  <2>7. s \in tabla'[e][d]
    BY <2>3, <2>6 DEF Upserted
  <2>8. QED
    BY <2>3, <2>7 DEF e, d
<1>2. IInv /\ [Next]_vars =>
        [\A p \in Procs :
            (Commit(p) /\ ~job[p].refresh) =>
                \A r \in job[p].existing : HasPhoto(r) =>
                    \E s \in tabla'[Item(p).emp][Item(p).day] :
                        s.item = r.item /\ s.foto = r.foto]_vars
  BY <1>1
<1>3. QED
  BY <1>2, InvariantHolds, PTL DEF Spec, SnapshotSurvives

-----------------------------------------------------------------------------
(* The other four programs (RotationJobs), over the same state: what       *)
(* RotationDiaria assumes of its constants is used by none of the proofs   *)
(* below, nor what RotationJobs assumes by those above.                    *)

Sources == DOMAIN Inicial
Cells == Items \X Days

\* The tickets that program v counts as the sales of an item.
Sold(v, src, i, d) == IF v = "inc" THEN Tickets(src, i, d) ELSE Ventas(src, i, d)

\* The month of a photo is the day's or, while that has no line, an earlier one.
MonthOK(v, e, i, d, m) ==
    /\ m <= Lapso[d]
    /\ v # "v2" => Enero[Lapso[d]] <= m
    /\ Existe(Inicial[e], i, Lapso[d]) => m = Lapso[d]

Columns == {"item", "day", "sold", "foto", "bloqueada"}
IsLine(r) == r = [k \in DOMAIN r |-> r[k]] /\ Columns \subseteq DOMAIN r

\* The programs that start from the sales have no units without a ticket.
StartsFromSales == {"v2", "inc"}

LineOK(v, e, src, r) ==
    /\ IsLine(r) /\ r.item \in Items
    /\ v # "inc" /\ r.day \in Days => MonthOK(v, e, r.item, r.day, r.foto.lapso)
    /\ v \in StartsFromSales /\ Sold(v, src, r.item, r.day) = {} => r.sold = 0

\* The months of the year up to the day's in which an item had a line.
LinesOfYear(e, i, d) ==
    {m \in Lapsos : /\ Enero[Lapso[d]] <= m /\ m <= Lapso[d]
                    /\ Existe(Inicial[e], i, m)}

\* Program v answers for the units of an item on a day.
Answers(v, e, src, i, d) ==
    \/ v \in StartsFromSales
    \/ /\ v = "v4" /\ i \in Tipo4 /\ Maestro[i] # 0 /\ LinesOfYear(e, i, d) # {}
       /\ Cardinality({t.unit : t \in Sold(v, src, i, d)}) <= 1

\* A batch has the units the source says of the items its program answers for.
LotRight(v, e, src, lote, d) ==
    \A i \in Items : Answers(v, e, src, i, d) =>
        /\ v = "v4" \/ Sold(v, src, i, d) # {} => \E r \in lote : r.item = i /\ r.day = d
        /\ \A r \in lote : r.item = i /\ r.day = d => r.sold = Qty(Sold(v, src, i, d))

\* What a run keeps of a month, for the days of that month.
CacheOK(v, e, c) ==
    \A d \in Days : c.mes = Lapso[d] =>
        /\ v = "v3" => \A n \in c.inv : n.item \in Items /\ MonthOK(v, e, n.item, d, n.lapso)
        /\ v = "v4" =>
            /\ DOMAIN c.inv \subseteq Tipo4
            /\ \A i \in DOMAIN c.inv : MonthOK(v, e, i, d, c.inv[i].lapso)
            /\ \A i \in Tipo4 : Maestro[i] # 0 /\ LinesOfYear(e, i, d) # {} =>
                i \in DOMAIN c.inv /\ c.inv[i].cost # 0

\* The steps of a program: the incremental one's may span a month, rolling
\* has no other upsert than that of sales.
StepOK(v, mode, s) ==
    /\ s.op \in {"load", "lock"}
    /\ v # "inc" => s.desde \in Days /\ s.hasta = s.desde
    /\ mode = "rolling" => s.op = "load" /\ s.upsert = "ventas"

ProgOK(v, mode, prog) ==
    \E n \in Nat \ {0} : /\ prog = [k \in 1 .. n |-> prog[k]]
                         /\ \A k \in 1 .. n : StepOK(v, mode, prog[k])

RunFields == {"pc", "mode", "desde", "hasta", "todo", "emp", "prog", "cache", "lote",
              "visto", "cargadas", "errores"}
IsRun(j) == j = [k \in RunFields |-> j[k]]

RunOK(v, j, shown) ==
    /\ IsRun(j) /\ j.pc \in {"next", "step", "commit"}
    /\ j.mode \in {"daily", "rolling", "backfill"}
    /\ j.desde \in Days /\ j.hasta \in Days /\ j.desde <= j.hasta
    /\ j.todo \in Seq(Sources)
    /\ j.pc = "next" => j.cache.mes = NULL
    /\ j.pc # "next" => /\ j.emp \in Sources /\ ProgOK(v, j.mode, j.prog)
                        /\ CacheOK(v, j.emp, j.cache)
    /\ j.pc = "commit" =>
        /\ Head(j.prog).op = "load"
        /\ \A r \in j.lote : /\ LineOK(v, j.emp, shown[j.emp], r)
                              /\ r.day \in Rango(Head(j.prog).desde, Head(j.prog).hasta)
        /\ j.visto => \A d \in Rango(Head(j.prog).desde, Head(j.prog).hasta) :
                        LotRight(v, j.emp, shown[j.emp], j.lote, d)

\* A source: documents are posted and lines of the summary do not go.
ShownOK(e, src) ==
    /\ src = [docs |-> src.docs,
              resumen |-> [i \in Items |-> [m \in Lapsos |-> src.resumen[i][m]]]]
    /\ IsFiniteSet(src.docs)
    /\ \A i \in Items, m \in Lapsos : Existe(Inicial[e], i, m) => Existe(src, i, m)

ShownInv ==
    /\ version \in Versions
    /\ hoy \in Int /\ hoy - 1 \in Days
    /\ erp = [e \in Sources |-> erp[e]]
    /\ \A e \in Sources : ShownOK(e, erp[e])

LinesInv ==
    /\ tabla = [e \in Sources |-> [x \in Cells |-> tabla[e][x]]]
    /\ \A e \in Sources, x \in Cells : tabla[e][x] # NoRow =>
        /\ LineOK(version, e, erp[e], tabla[e][x])
        /\ tabla[e][x].item = x[1] /\ tabla[e][x].day = x[2]

CleanInv ==
    \A e \in Sources, x \in Cells :
        <<e, x[2]>> \in limpios /\ Answers(version, e, erp[e], x[1], x[2]) =>
            /\ version = "v4" \/ Sold(version, erp[e], x[1], x[2]) # {} => tabla[e][x] # NoRow
            /\ tabla[e][x].sold = Qty(Sold(version, erp[e], x[1], x[2]))

RunsInv ==
    /\ job = [p \in Procs |-> job[p]]
    /\ \A p \in Procs : Busy(p) => RunOK(version, job[p], erp)

RotationInv == ShownInv /\ LinesInv /\ CleanInv /\ RunsInv

-----------------------------------------------------------------------------
(* What the programs share.                                                *)

\* No tickets, no units.
LEMMA QtyOfNone == Qty({}) = 0
<1> DEFINE G(g) == g = [s \in SUBSET {} |->
                          IF s = {} THEN 0
                          ELSE LET x == CHOOSE x \in s : TRUE IN x.qty + g[s \ {x}]]
<1>1. G([s \in SUBSET {} |-> 0])
  OBVIOUS
<1>2. G(CHOOSE g : G(g))
  <2> HIDE DEF G
  <2>1. QED
    BY <1>1
<1>3. Qty({}) = (CHOOSE g : G(g))[{}]
  BY DEF Qty, MapThenSumSet, MapThenFoldSet
<1>4. (CHOOSE g : G(g))[{}] = 0
  <2> DEFINE h == CHOOSE g : G(g)
  <2>1. h = [s \in SUBSET {} |->
                          IF s = {} THEN 0
                          ELSE LET x == CHOOSE x \in s : TRUE IN x.qty + h[s \ {x}]]
    BY <1>2
  <2> HIDE DEF h
  <2>2. h[{}] = 0
    BY <2>1
  <2>3. QED
    BY <2>2 DEF h
<1>5. QED
  BY <1>3, <1>4

\* Months are numbers, and the month of a day comes after its January.
LEMMA LapsosType ==
  /\ Lapsos \subseteq Nat /\ NULL \notin Lapsos
  /\ \A d \in Days : Lapso[d] \in Lapsos /\ Lapso[d] \in Nat /\ Enero[Lapso[d]] <= Lapso[d]
  BY RotationAssumption DEF RotationAssumption, NULL

\* A set of naturals with a bound has a last one.
LEMMA LastBelow ==
  ASSUME NEW n \in Nat, NEW S \in SUBSET Nat, S # {}, \A s \in S : s <= n
  PROVE  \E m \in S : \A s \in S : s <= m
<1> DEFINE T == {k \in Nat : n - k \in S}
<1>1. PICK s \in S : TRUE
  OBVIOUS
<1>2. n - s \in T
  <2>1. n - s \in Nat /\ n - (n - s) = s
    BY <1>1
  <2>2. QED
    BY <2>1
<1>3. PICK k \in T : \A l \in T : ~ (<<l, k>> \in OpToRel(<, Nat))
  <2>1. T \subseteq Nat /\ T # {}
    BY <1>2
  <2> HIDE DEF T
  <2>2. QED
    BY <2>1, NatLessThanWellFounded, WFMin
<1>4. \A l \in T : k <= l
  <2>1. \A l \in T : ~ l < k
    BY <1>3 DEF OpToRel
  <2>2. QED
    BY <2>1
<1>5. ASSUME NEW t \in S PROVE t <= n - k
  <2>1. n - t \in Nat /\ n - (n - t) = t
    BY <1>5
  <2>2. n - t \in T
    BY <1>5, <2>1
  <2>3. k \in Nat /\ t \in Nat /\ k <= n - t
    BY <1>4, <2>2
  <2>4. QED
    BY <2>3
<1>6. QED
  BY <1>3, <1>5

\* The latest month with a line, among months up to one.
LEMMA UltimoLapsoIs ==
  ASSUME NEW src, NEW i, NEW d \in Days, NEW S \in SUBSET Lapsos, \A m \in S : m <= Lapso[d]
  PROVE  LET con == {m \in S : Existe(src, i, m)}
             u == UltimoLapso(src, i, S)
         IN  /\ con = {} => u = NULL
             /\ con # {} => u \in con /\ \A m \in con : m <= u
<1> DEFINE con == {m \in S : Existe(src, i, m)}
<1>1. CASE con = {}
  BY <1>1 DEF UltimoLapso
<1>2. CASE con # {}
  <2>1. con \in SUBSET Nat /\ \A m \in con : m <= Lapso[d]
    BY LapsosType
  <2>2. UltimoLapso(src, i, S) = CHOOSE m \in con : \A o \in con : o <= m
    BY <1>2 DEF UltimoLapso
  <2> HIDE DEF con
  <2>3. \E m \in con : \A o \in con : o <= m
    BY <1>2, <2>1, LapsosType, LastBelow
  <2>4. QED
    BY <1>2, <2>2, <2>3 DEF con
<1>3. QED
  BY <1>1, <1>2

\* The months that a program looks at are up to the day's, the day's included.
LEMMA MonthIsRight ==
  ASSUME NEW v, NEW e, NEW src, ShownOK(e, src), NEW i \in Items, NEW d \in Days,
         NEW S \in SUBSET Lapsos, \A m \in S : m <= Lapso[d], Lapso[d] \in S,
         v # "v2" => (\A m \in S : Enero[Lapso[d]] <= m) /\ UltimoLapso(src, i, S) # NULL
  PROVE  MonthOK(v, e, i, d, UltimoLapso(src, i, S))
<1> DEFINE con == {m \in S : Existe(src, i, m)}
           u == UltimoLapso(src, i, S)
<1>1. /\ con = {} => u = NULL
      /\ con # {} => u \in con /\ \A m \in con : m <= u
  BY UltimoLapsoIs
<1>2. Existe(Inicial[e], i, Lapso[d]) => Lapso[d] \in con
  BY LapsosType DEF ShownOK
<1>3. u \in Nat /\ u <= Lapso[d]
  <2>1. CASE con = {}
    BY <1>1, <2>1, LapsosType DEF NULL
  <2>2. CASE con # {}
    <3>1. u \in S
      BY <1>1, <2>2
    <3>2. QED
      BY <3>1, LapsosType
  <2>3. QED
    BY <2>1, <2>2
<1>4. u <= Lapso[d]
  BY <1>3
<1>5. Existe(Inicial[e], i, Lapso[d]) => u = Lapso[d]
  BY <1>1, <1>2, <1>3, <1>4, LapsosType
<1>6. v # "v2" => Enero[Lapso[d]] <= u
  BY <1>1
<1> HIDE DEF u
<1>7. QED
  BY <1>4, <1>5, <1>6 DEF MonthOK, u
-----------------------------------------------------------------------------
(* What the programs read.                                                 *)

\* The instances read the source as RotationSource says.
LEMMA SourceV2 ==
  /\ \A ts : V2!Qty(ts) = Qty(ts)
  /\ \A src, i, d : V2!Ventas(src, i, d) = Ventas(src, i, d)
  /\ \A src, i, S : V2!UltimoLapso(src, i, S) = UltimoLapso(src, i, S)
<1>1. \A ts : V2!Qty(ts) = Qty(ts)
  BY DEF V2!Qty, V2!MapThenSumSet, V2!MapThenFoldSet, Qty, MapThenSumSet, MapThenFoldSet
<1>2. \A src, i, d : V2!Ventas(src, i, d) = Ventas(src, i, d)
  BY DEF V2!Ventas, V2!Tickets, Ventas, Tickets
<1>3. \A src, i, S : V2!UltimoLapso(src, i, S) = UltimoLapso(src, i, S)
  BY DEF V2!UltimoLapso, V2!Existe, V2!SinResumen, V2!NULL,
         UltimoLapso, Existe, SinResumen, NULL
<1>4. QED
  BY <1>1, <1>2, <1>3

\* v2's extract_day: rows of the day, with the units of every item sold.
LEMMA ReadV2 ==
  ASSUME NEW e, NEW src, ShownOK(e, src), NEW d
  PROVE  /\ \A r \in V2!ExtractDay(src, d) : LineOK("v2", e, src, r) /\ r.day = d
         /\ d \in Days => LotRight("v2", e, src, V2!ExtractDay(src, d), d)
<1> DEFINE lote == V2!ExtractDay(src, d)
<1>1. lote = {V2!Fila(src, i, d) : i \in V2!Llaves(src, d)}
  BY DEF V2!ExtractDay
<1>2. ASSUME NEW i \in Items
      PROVE  LET r == V2!Fila(src, i, d)
             IN  /\ IsLine(r) /\ r.item = i /\ r.day = d /\ r.sold = Qty(Ventas(src, i, d))
                 /\ r.foto.lapso = UltimoLapso(src, i, {m \in Lapsos : m <= Lapso[d]})
  <2>1. IsLine(V2!Fila(src, i, d))
    BY DEF V2!Fila, IsLine, Columns
  <2>2. V2!Fila(src, i, d).sold = Qty(Ventas(src, i, d))
    BY SourceV2 DEF V2!Fila, V2!Vendido
  <2>3. V2!Fila(src, i, d).foto.lapso = V2!MaxLapso(src, i, d)
    BY DEF V2!Fila, V2!Foto
  <2>4. V2!MaxLapso(src, i, d) = UltimoLapso(src, i, {m \in Lapsos : m <= Lapso[d]})
    BY SourceV2 DEF V2!MaxLapso
  <2>5. V2!Fila(src, i, d).item = i /\ V2!Fila(src, i, d).day = d
    BY DEF V2!Fila
  <2>6. QED
    BY <2>1, <2>2, <2>3, <2>4, <2>5
<1>3. V2!Llaves(src, d) \subseteq Items /\ \A i \in Items : Ventas(src, i, d) # {} => i \in V2!Llaves(src, d)
  BY SourceV2 DEF V2!Llaves
<1>4. ASSUME NEW r \in lote PROVE LineOK("v2", e, src, r) /\ r.day = d
  <2>1. PICK i \in Items : r = V2!Fila(src, i, d)
    BY <1>1, <1>3
  <2>2. /\ IsLine(r) /\ r.item = i /\ r.day = d /\ r.sold = Qty(Ventas(src, i, d))
        /\ r.foto.lapso = UltimoLapso(src, i, {m \in Lapsos : m <= Lapso[d]})
    BY <1>2, <2>1
  <2>3. d \in Days => MonthOK("v2", e, i, d, r.foto.lapso)
    <3>1. SUFFICES ASSUME d \in Days
                   PROVE  MonthOK("v2", e, i, d, UltimoLapso(src, i, {m \in Lapsos : m <= Lapso[d]}))
      BY <2>2
    <3>2. Lapso[d] \in {m \in Lapsos : m <= Lapso[d]}
      BY <3>1, LapsosType
    <3>3. QED
      BY <3>1, <3>2, MonthIsRight
  <2>4. Ventas(src, i, d) = {} => r.sold = 0
    BY <2>2, QtyOfNone
  <2>5. QED
    BY <2>2, <2>3, <2>4 DEF LineOK, Sold
<1>5. LotRight("v2", e, src, lote, d)
  <2>1. SUFFICES ASSUME NEW i \in Items
                 PROVE  /\ Ventas(src, i, d) # {} => \E r \in lote : r.item = i /\ r.day = d
                        /\ \A r \in lote : r.item = i /\ r.day = d => r.sold = Qty(Ventas(src, i, d))
    BY DEF LotRight, Sold
  <2>2. ASSUME Ventas(src, i, d) # {} PROVE \E r \in lote : r.item = i /\ r.day = d
    <3>1. V2!Fila(src, i, d) \in lote
      BY <1>1, <1>3, <2>2
    <3>2. QED
      BY <1>2, <3>1
  <2>3. ASSUME NEW r \in lote, r.item = i PROVE r.sold = Qty(Ventas(src, i, d))
    <3>1. PICK k \in Items : r = V2!Fila(src, k, d)
      BY <1>1, <1>3
    <3>2. QED
      BY <1>2, <2>3, <3>1
  <2>4. QED
    BY <2>2, <2>3
<1>6. QED
  BY <1>4, <1>5

\* The incremental program's fetch_rows: the same, of the days of a range.
LEMMA ReadInc ==
  ASSUME NEW e, NEW src, NEW desde, NEW hasta, NEW lapso
  PROVE  LET lote == Inc!FetchRows(src, desde, hasta, lapso)
         IN  /\ \A r \in lote : LineOK("inc", e, src, r) /\ r.day \in Rango(desde, hasta)
             /\ \A d \in Rango(desde, hasta) : LotRight("inc", e, src, lote, d)
<1> DEFINE lote == Inc!FetchRows(src, desde, hasta, lapso)
           row(i, d) == [item |-> i, day |-> d, sold |-> Inc!Vendido(src, i, d),
                         foto |-> [lapso |-> Inc!Inventario(src, i, lapso).lapso,
                                   qty |-> Inc!Inventario(src, i, lapso).qty,
                                   valor |-> Inc!Inventario(src, i, lapso).qty
                                               * Inc!Inventario(src, i, lapso).cost],
                         ultima |-> Inc!Inventario(src, i, lapso).sale, bloqueada |-> FALSE]
<1>1. \A src_, i, d : Inc!Tickets(src_, i, d) = Tickets(src_, i, d)
  BY DEF Inc!Tickets, Tickets
<1>2. \A i, d : Inc!Vendido(src, i, d) = Qty(Tickets(src, i, d))
  <2>1. \A ts : Inc!Qty(ts) = Qty(ts)
    BY DEF Inc!Qty, Inc!MapThenSumSet, Inc!MapThenFoldSet, Qty, MapThenSumSet, MapThenFoldSet
  <2>2. QED
    BY <1>1, <2>1 DEF Inc!Vendido
<1>3. Inc!Rango(desde, hasta) = Rango(desde, hasta)
  BY DEF Inc!Rango, Rango
<1>4. lote = UNION {{row(i, d) : i \in {k \in Items : Tickets(src, k, d) # {}}} :
                      d \in Rango(desde, hasta)}
  BY <1>1, <1>3 DEF Inc!FetchRows
<1>5. ASSUME NEW i, NEW d
      PROVE  /\ IsLine(row(i, d)) /\ row(i, d).item = i /\ row(i, d).day = d
             /\ row(i, d).sold = Qty(Tickets(src, i, d))
  <2>1. IsLine(row(i, d))
    BY DEF IsLine, Columns
  <2>2. QED
    BY <1>2, <2>1
<1> HIDE DEF row, lote
<1>6. ASSUME NEW r \in lote
      PROVE  \E i \in Items, d \in Rango(desde, hasta) :
                r = row(i, d) /\ Tickets(src, i, d) # {}
  BY <1>4
<1>7. ASSUME NEW r \in lote PROVE LineOK("inc", e, src, r) /\ r.day \in Rango(desde, hasta)
  <2>1. PICK i \in Items, d \in Rango(desde, hasta) : r = row(i, d) /\ Tickets(src, i, d) # {}
    BY <1>6
  <2>2. QED
    BY <1>5, <2>1 DEF LineOK, Sold
<1>8. ASSUME NEW d \in Rango(desde, hasta) PROVE LotRight("inc", e, src, lote, d)
  <2>1. SUFFICES ASSUME NEW i \in Items
                 PROVE  /\ Tickets(src, i, d) # {} => \E r \in lote : r.item = i /\ r.day = d
                        /\ \A r \in lote : r.item = i /\ r.day = d => r.sold = Qty(Tickets(src, i, d))
    BY DEF LotRight, Sold
  <2>2. ASSUME Tickets(src, i, d) # {} PROVE \E r \in lote : r.item = i /\ r.day = d
    <3>1. row(i, d) \in lote
      BY <1>4, <2>2
    <3>2. QED
      BY <1>5, <3>1
  <2>3. ASSUME NEW r \in lote, r.item = i, r.day = d PROVE r.sold = Qty(Tickets(src, i, d))
    <3>1. PICK k \in Items, f \in Rango(desde, hasta) : r = row(k, f)
      BY <1>6
    <3>2. QED
      BY <1>5, <2>3, <3>1
  <2>4. QED
    BY <2>2, <2>3
<1>9. QED
  BY <1>7, <1>8 DEF lote

\* The months of the year of a day, up to the day's.
MonthsOf(mes) == {m \in Lapsos : Enero[mes] <= m /\ m <= mes}

\* The month of v3's photo of an item.
LEMMA PhotoV3 ==
  ASSUME NEW e, NEW src, ShownOK(e, src), NEW mes, NEW i \in V3!ConFoto(src, mes)
  PROVE  /\ i \in Tipo4 /\ i \in Items
         /\ \A d \in Days : mes = Lapso[d] => MonthOK("v3", e, i, d, V3!Foto(src, i, mes).lapso)
<1>1. V3!UltimoLapso(src, i, MonthsOf(mes)) = UltimoLapso(src, i, MonthsOf(mes))
  BY DEF V3!UltimoLapso, V3!Existe, V3!SinResumen, V3!NULL,
         UltimoLapso, Existe, SinResumen, NULL
<1>2. V3!MaxLapso(src, i, mes) = UltimoLapso(src, i, MonthsOf(mes))
  BY <1>1 DEF V3!MaxLapso, MonthsOf
<1>3. /\ V3!Foto(src, i, mes).lapso = UltimoLapso(src, i, MonthsOf(mes))
      /\ UltimoLapso(src, i, MonthsOf(mes)) # NULL
  BY <1>2 DEF V3!Foto, V3!ConFoto, V3!NULL, NULL
<1>4. i \in Tipo4 /\ i \in Items
  BY RotationAssumption DEF V3!ConFoto, RotationAssumption
<1>5. ASSUME NEW d \in Days, mes = Lapso[d]
      PROVE  MonthOK("v3", e, i, d, UltimoLapso(src, i, MonthsOf(mes)))
  <2>1. /\ MonthsOf(mes) \in SUBSET Lapsos /\ Lapso[d] \in MonthsOf(mes)
        /\ \A m \in MonthsOf(mes) : m <= Lapso[d] /\ Enero[Lapso[d]] <= m
    BY <1>5, LapsosType DEF MonthsOf
  <2>2. QED
    BY <1>3, <1>4, <2>1, MonthIsRight
<1>6. QED
  BY <1>3, <1>4, <1>5

\* A row of v3 has the month of the inventory line it is made from.
LEMMA RowV3 ==
  ASSUME NEW e, NEW src, NEW i \in Items, NEW d, NEW inv, NEW v, NEW ultima,
         d \in Days => MonthOK("v3", e, i, d, inv.lapso)
  PROVE  LET r == V3!Fila(i, d, inv, v, ultima)
         IN  LineOK("v3", e, src, r) /\ r.day = d
<1> DEFINE r == V3!Fila(i, d, inv, v, ultima)
<1>1. IsLine(r)
  BY DEF V3!Fila, IsLine, Columns
<1>2. r.item = i /\ r.day = d /\ r.foto.lapso = inv.lapso
  BY DEF V3!Fila
<1> HIDE DEF r
<1>3. LineOK("v3", e, src, r)
  BY <1>1, <1>2 DEF LineOK, StartsFromSales
<1>4. QED
  BY <1>2, <1>3 DEF r

\* v3's extract_day: rows of the day, with a right month.
LEMMA ReadV3 ==
  ASSUME NEW e, NEW src, ShownOK(e, src), NEW d
  PROVE  \A r \in V3!ExtractDay(src, d) : LineOK("v3", e, src, r) /\ r.day = d
<1> SUFFICES ASSUME NEW r \in V3!ExtractDay(src, d)
             PROVE  LineOK("v3", e, src, r) /\ r.day = d
  OBVIOUS
<1>2. PICK i \in V3!ConFoto(src, Lapso[d]) : \E v, ultima :
        r = V3!Fila(i, d, V3!Foto(src, i, Lapso[d]), v, ultima)
  BY DEF V3!ExtractDay
<1>3. PICK v, ultima : r = V3!Fila(i, d, V3!Foto(src, i, Lapso[d]), v, ultima)
  BY <1>2
<1>4. i \in Items /\ (d \in Days => MonthOK("v3", e, i, d, V3!Foto(src, i, Lapso[d]).lapso))
  BY PhotoV3
<1>5. QED
  BY <1>3, <1>4, RowV3

\* v3's extract_inventory_month: what it keeps is right of the days of that
\* month.
LEMMA KeepV3 ==
  ASSUME NEW e, NEW src, ShownOK(e, src), NEW mes, NEW mov
  PROVE  CacheOK("v3", e, [mes |-> mes, inv |-> V3!ExtractInventoryMonth(src, mes), mov |-> mov])
<1> SUFFICES ASSUME NEW d \in Days, mes = Lapso[d], NEW n \in V3!ExtractInventoryMonth(src, mes)
             PROVE  n.item \in Items /\ MonthOK("v3", e, n.item, d, n.lapso)
  BY DEF CacheOK
<1>1. PICK i \in V3!ConFoto(src, mes) : n.item = i /\ n.lapso = V3!Foto(src, i, mes).lapso
  BY DEF V3!ExtractInventoryMonth
<1>2. QED
  BY <1>1, PhotoV3

\* v3's merge_day, with what was kept of the month of the day.
LEMMA MergeV3 ==
  ASSUME NEW e, NEW src, NEW c, CacheOK("v3", e, c), NEW d \in Days, c.mes = Lapso[d], NEW sales
  PROVE  \A r \in V3!MergeDay(c.inv, sales, d) : LineOK("v3", e, src, r) /\ r.day = d
<1> SUFFICES ASSUME NEW r \in V3!MergeDay(c.inv, sales, d)
             PROVE  LineOK("v3", e, src, r) /\ r.day = d
  OBVIOUS
<1>1. PICK n \in c.inv : \E v, ultima : r = V3!Fila(n.item, d, n, v, ultima)
  BY DEF V3!MergeDay
<1>2. n.item \in Items /\ MonthOK("v3", e, n.item, d, n.lapso)
  BY DEF CacheOK
<1>3. QED
  BY <1>1, <1>2, RowV3

\* v4 keeps a line for every item with one in the year and a cost, the one of
\* the item master at least.
LEMMA KeepV4 ==
  ASSUME NEW e, NEW src, ShownOK(e, src), NEW mes, NEW mov
  PROVE  CacheOK("v4", e, [mes |-> mes, inv |-> V4!ExtractInventoryMonth(src, mes), mov |-> mov])
<1> DEFINE inv == V4!ExtractInventoryMonth(src, mes)
           ultimo(i) == UltimoLapso(src, i, MonthsOf(mes))
           coste(i) == IF src.resumen[i][ultimo(i)].cost # 0
                       THEN src.resumen[i][ultimo(i)].cost ELSE Maestro[i]
<1> SUFFICES ASSUME NEW d \in Days, mes = Lapso[d]
             PROVE  /\ DOMAIN inv \subseteq Tipo4
                    /\ \A i \in DOMAIN inv : MonthOK("v4", e, i, d, inv[i].lapso)
                    /\ \A i \in Tipo4 : Maestro[i] # 0 /\ LinesOfYear(e, i, d) # {} =>
                          i \in DOMAIN inv /\ inv[i].cost # 0
  BY DEF CacheOK
<1>1. \A i : V4!UltimoLapso(src, i, MonthsOf(mes)) = ultimo(i)
  BY DEF V4!UltimoLapso, V4!Existe, V4!SinResumen, V4!NULL,
         UltimoLapso, Existe, SinResumen, NULL
<1>2. ASSUME NEW i
      PROVE  V4!Resumen(src, i, mes) =
                IF ultimo(i) = NULL THEN SinResumen
                ELSE [qty |-> src.resumen[i][ultimo(i)].qty, cost |-> coste(i),
                      sale |-> src.resumen[i][ultimo(i)].sale, lapso |-> ultimo(i)]
  BY <1>1 DEF V4!Resumen, MonthsOf, V4!NULL, NULL, V4!SinResumen, SinResumen
<1>3. /\ MonthsOf(mes) \in SUBSET Lapsos /\ Lapso[d] \in MonthsOf(mes)
      /\ \A m \in MonthsOf(mes) : m <= Lapso[d] /\ Enero[Lapso[d]] <= m
  BY LapsosType DEF MonthsOf
<1> HIDE DEF ultimo, coste
<1>4. ASSUME NEW i, ultimo(i) # NULL
      PROVE  /\ V4!Resumen(src, i, mes) # SinResumen
             /\ V4!Resumen(src, i, mes).lapso = ultimo(i)
             /\ V4!Resumen(src, i, mes).cost = coste(i)
  <2> DEFINE r == [qty |-> src.resumen[i][ultimo(i)].qty, cost |-> coste(i),
                   sale |-> src.resumen[i][ultimo(i)].sale, lapso |-> ultimo(i)]
  <2>1. V4!Resumen(src, i, mes) = r
    BY <1>2, <1>4
  <2>2. "lapso" \in DOMAIN r /\ "lapso" \notin DOMAIN SinResumen
    BY DEF SinResumen
  <2>3. r.lapso = ultimo(i) /\ r.cost = coste(i)
    OBVIOUS
  <2>4. QED
    BY <2>1, <2>2, <2>3
<1>5. /\ \A i : i \in DOMAIN inv <=>
            /\ i \in Tipo4 /\ V4!Resumen(src, i, mes) # SinResumen
            /\ V4!Resumen(src, i, mes).qty # 0 \/ V4!Resumen(src, i, mes).cost # 0
      /\ \A i \in DOMAIN inv : inv[i] = V4!Resumen(src, i, mes)
  BY DEF V4!ExtractInventoryMonth, V4!SinResumen, SinResumen
<1> HIDE DEF inv
<1>6. ASSUME NEW i \in DOMAIN inv
      PROVE  MonthOK("v4", e, i, d, inv[i].lapso)
  <2>1. ultimo(i) # NULL
    BY <1>2, <1>5
  <2>2. i \in Items
    BY <1>5, RotationAssumption DEF RotationAssumption
  <2>3. MonthOK("v4", e, i, d, ultimo(i))
    BY <1>3, <2>1, <2>2, MonthIsRight DEF ultimo
  <2>4. QED
    BY <1>4, <1>5, <2>1, <2>3
<1>7. ASSUME NEW i \in Tipo4, Maestro[i] # 0, LinesOfYear(e, i, d) # {}
      PROVE  i \in DOMAIN inv /\ inv[i].cost # 0
  <2>1. PICK m \in MonthsOf(mes) : Existe(src, i, m)
    BY <1>7, RotationAssumption DEF LinesOfYear, MonthsOf, ShownOK, RotationAssumption
  <2>2. ultimo(i) # NULL
    <3>1. ultimo(i) \in MonthsOf(mes)
      BY <1>3, <2>1, UltimoLapsoIs DEF ultimo
    <3>2. QED
      BY <1>3, <3>1, LapsosType
  <2>3. coste(i) # 0
    BY <1>7 DEF coste
  <2>4. QED
    BY <1>4, <1>5, <2>2, <2>3
<1>8. QED
  BY <1>5, <1>6, <1>7

\* The sales of an item in a single unit are one group.
LEMMA OneUnit ==
  ASSUME NEW ts, IsFiniteSet(ts), Cardinality({t.unit : t \in ts}) <= 1, NEW v \in PorUnidad(ts)
  PROVE  v.qty = Qty(ts)
<1> DEFINE units == {t.unit : t \in ts}
           g(u) == {t \in ts : t.unit = u}
<1>1. PICK u \in units : v = [unit |-> u, qty |-> Qty(g(u)), cost |-> Cost(g(u))]
  BY DEF PorUnidad
<1>2. units = {u}
  <2>1. [t \in ts |-> t.unit] \in Surjection(ts, units)
    BY DEF Surjection
  <2>2. IsFiniteSet(units)
    BY <2>1, FS_Surjection
  <2>3. Cardinality(units) \in Nat /\ (Cardinality(units) = 0 <=> units = {})
    BY <2>2, FS_CardinalityType, FS_EmptySet
  <2>4. Cardinality(units) = 1
    BY <1>1, <2>3
  <2>5. \E w : units = {w}
    BY <2>2, <2>4, FS_Singleton
  <2>6. QED
    BY <1>1, <2>5
<1>3. g(u) = ts
  BY <1>2
<1>4. QED
  BY <1>1, <1>3

\* v4's merge_day: rows of the day, with the units of the items it answers for.
LEMMA MergeV4 ==
  ASSUME NEW e, NEW src, IsFiniteSet(src.docs), NEW c, CacheOK("v4", e, c),
         NEW d \in Days, c.mes = Lapso[d],
         NEW sales \in V4!ExtractSalesDay(src, d), NEW mov, NEW costs
  PROVE  LET lote == V4!MergeDay(c.inv, mov, sales, costs, d)
         IN  /\ \A r \in lote : LineOK("v4", e, src, r) /\ r.day = d
             /\ LotRight("v4", e, src, lote, d)
<1> DEFINE lote == V4!MergeDay(c.inv, mov, sales, costs, d)
           sinVenta == [unit |-> "maestro", qty |-> 0, cost |-> 0]
           venta(i) == IF i \in DOMAIN sales THEN sales[i] ELSE sinVenta
           costo(i) == IF c.inv[i].cost # 0 THEN c.inv[i].cost ELSE mov[i].costo
           fila(i) ==
             [item |-> i, day |-> d, unit |-> venta(i).unit, sold |-> venta(i).qty,
              cost |-> IF costs[i] = 0 /\ venta(i).qty > 0
                       THEN venta(i).qty * costo(i) ELSE costs[i],
              ultima |-> mov[i].venta, ingreso |-> mov[i].ingreso,
              foto |-> [lapso |-> c.inv[i].lapso, qty |-> c.inv[i].qty,
                        cost |-> costo(i), day |-> d],
              bloqueada |-> FALSE]
<1>1. lote = {fila(i) : i \in {k \in DOMAIN c.inv :
                venta(k).qty # 0 \/ c.inv[k].qty # 0 \/ costo(k) # 0}}
  BY DEF V4!MergeDay
<1>2. ASSUME NEW i
      PROVE  /\ IsLine(fila(i)) /\ fila(i).item = i /\ fila(i).day = d
             /\ fila(i).sold = venta(i).qty /\ fila(i).foto.lapso = c.inv[i].lapso
  <2>1. IsLine(fila(i))
    BY DEF IsLine, Columns
  <2>2. QED
    BY <2>1
<1> HIDE DEF fila
<1>3. /\ DOMAIN c.inv \subseteq Tipo4
      /\ \A i \in DOMAIN c.inv : MonthOK("v4", e, i, d, c.inv[i].lapso)
      /\ \A i \in Tipo4 : Maestro[i] # 0 /\ LinesOfYear(e, i, d) # {} =>
            i \in DOMAIN c.inv /\ c.inv[i].cost # 0
  BY DEF CacheOK
<1>4. ASSUME NEW r \in lote PROVE LineOK("v4", e, src, r) /\ r.day = d
  <2>1. PICK i \in DOMAIN c.inv : r = fila(i)
    BY <1>1
  <2>2. i \in Items
    BY <1>3, RotationAssumption DEF RotationAssumption
  <2>3. QED
    BY <1>2, <1>3, <2>1, <2>2 DEF LineOK, StartsFromSales
<1>5. /\ DOMAIN sales = {i \in Tipo4 : Ventas(src, i, d) # {}}
      /\ \A i \in DOMAIN sales : sales[i] \in PorUnidad(Ventas(src, i, d))
  <2>1. \A i, f : V4!Ventas(src, i, f) = Ventas(src, i, f)
    BY DEF V4!Ventas, V4!Tickets, Ventas, Tickets
  <2>2. \A ts : V4!Qty(ts) = Qty(ts) /\ V4!Cost(ts) = Cost(ts)
    BY DEF V4!Qty, V4!Cost, V4!MapThenSumSet, V4!MapThenFoldSet,
           Qty, Cost, MapThenSumSet, MapThenFoldSet
  <2>3. \A ts : V4!PorUnidad(ts) = PorUnidad(ts)
    BY <2>2 DEF V4!PorUnidad, PorUnidad
  <2>4. QED
    BY <2>1, <2>3 DEF V4!ExtractSalesDay
<1>6. ASSUME NEW i \in Items, Answers("v4", e, src, i, d)
      PROVE  /\ i \in DOMAIN c.inv /\ c.inv[i].cost # 0
             /\ venta(i).qty = Qty(Ventas(src, i, d))
  <2>1. /\ i \in Tipo4 /\ Maestro[i] # 0 /\ LinesOfYear(e, i, d) # {}
        /\ Cardinality({t.unit : t \in Ventas(src, i, d)}) <= 1
    BY <1>6 DEF Answers, StartsFromSales, Sold
  <2>2. CASE Ventas(src, i, d) = {}
    BY <1>3, <1>5, <2>1, <2>2, QtyOfNone
  <2>3. CASE Ventas(src, i, d) # {}
    <3>1. venta(i) \in PorUnidad(Ventas(src, i, d))
      BY <1>5, <2>1, <2>3
    <3>2. IsFiniteSet(Ventas(src, i, d))
      BY FS_Subset DEF Ventas, Tickets
    <3>3. QED
      BY <1>3, <2>1, <3>1, <3>2, OneUnit
  <2>4. QED
    BY <2>2, <2>3
<1>7. LotRight("v4", e, src, lote, d)
  <2>1. SUFFICES ASSUME NEW i \in Items, Answers("v4", e, src, i, d)
                 PROVE  /\ \E r \in lote : r.item = i /\ r.day = d
                        /\ \A r \in lote : r.item = i /\ r.day = d => r.sold = Qty(Ventas(src, i, d))
    BY DEF LotRight, Sold
  <2>2. fila(i) \in lote
    BY <1>1, <1>6, <2>1
  <2>3. ASSUME NEW r \in lote, r.item = i PROVE r.sold = Qty(Ventas(src, i, d))
    <3>1. PICK k : r = fila(k)
      BY <1>1
    <3>2. QED
      BY <1>2, <1>6, <2>1, <2>3, <3>1
  <2>4. QED
    BY <1>2, <2>2, <2>3
<1>8. QED
  BY <1>4, <1>7

-----------------------------------------------------------------------------
(* The steps of a program.                                                 *)

\* The first step of a program, and what is left after it.
LEMMA ProgStep ==
  ASSUME NEW v, NEW mode, NEW prog, ProgOK(v, mode, prog)
  PROVE  /\ StepOK(v, mode, Head(prog))
         /\ Len(prog) > 1 => ProgOK(v, mode, Tail(prog))
<1>1. PICK n \in Nat \ {0} : /\ prog = [k \in 1 .. n |-> prog[k]]
                             /\ \A k \in 1 .. n : StepOK(v, mode, prog[k])
  BY DEF ProgOK
<1>2. prog \in Seq({prog[k] : k \in 1 .. n}) /\ Len(prog) = n
  BY <1>1
<1>3. Head(prog) = prog[1]
  BY <1>1, <1>2
<1>4. ASSUME n > 1 PROVE ProgOK(v, mode, Tail(prog))
  <2>1. n - 1 \in Nat \ {0}
    BY <1>4
  <2>2. /\ Tail(prog) \in Seq({prog[k] : k \in 1 .. n}) /\ Len(Tail(prog)) = n - 1
        /\ \A k \in 1 .. n - 1 : Tail(prog)[k] = prog[k + 1]
    <3> DEFINE S == {prog[k] : k \in 1 .. n}
    <3>1. prog \in Seq(S) /\ prog # <<>> /\ Len(prog) = n
      BY <1>2, <1>4
    <3> HIDE DEF S
    <3>2. Tail(prog) \in Seq(S) /\ Len(Tail(prog)) = n - 1
      BY <3>1
    <3>3. \A k \in 1 .. n - 1 : Tail(prog)[k] = prog[k + 1]
      BY <3>1
    <3>4. QED
      BY <3>2, <3>3 DEF S
  <2>3. \A k \in 1 .. n - 1 : StepOK(v, mode, Tail(prog)[k])
    BY <1>1, <2>2
  <2>4. Tail(prog) = [k \in 1 .. n - 1 |-> Tail(prog)[k]]
    <3> DEFINE S == {prog[k] : k \in 1 .. n}
               t == Tail(prog)
    <3>1. t \in Seq(S) /\ Len(t) = n - 1
      BY <2>2
    <3> HIDE DEF S, t
    <3>2. t = [k \in 1 .. n - 1 |-> t[k]]
      BY <3>1
    <3>3. QED
      BY <3>2 DEF t
  <2>5. QED
    BY <2>1, <2>3, <2>4 DEF ProgOK
<1>5. QED
  BY <1>1, <1>2, <1>3, <1>4

\* One step for each day of a range.
LEMMA DiaPorDiaIs ==
  ASSUME NEW v, NEW mode, NEW desde \in Int, NEW hasta \in Int, Rango(desde, hasta) # {},
         NEW upsert, mode = "rolling" => upsert = "ventas"
  PROVE  ProgOK(v, mode, DiaPorDia(desde, hasta, upsert))
<1> DEFINE primero == IF desde < 1 THEN 1 ELSE desde
           n == Cardinality(Rango(desde, hasta))
           prog == DiaPorDia(desde, hasta, upsert)
<1>1. PICK z \in Nat : Days = 1 .. z
  BY DaysType
<1>2. Rango(desde, hasta) \subseteq primero .. z /\ primero \in Nat \ {0}
  BY <1>1 DEF Rango
<1>3. primero <= z
  BY <1>1, <1>2
<1>4. IsFiniteSet(primero .. z) /\ Cardinality(primero .. z) = z - primero + 1
  <2>1. primero \in Int /\ z \in Int
    BY <1>2
  <2> HIDE DEF primero
  <2>2. ~ primero > z
    BY <1>2, <1>3
  <2>3. QED
    BY <2>1, <2>2, FS_Interval
<1>5. /\ IsFiniteSet(Rango(desde, hasta)) /\ n <= z - primero + 1
      /\ n \in Nat \ {0}
  <2>1. IsFiniteSet(Rango(desde, hasta)) /\ n <= z - primero + 1
    BY <1>2, <1>4, FS_Subset
  <2>2. n \in Nat /\ n # 0
    BY <2>1, FS_CardinalityType, FS_EmptySet
  <2>3. QED
    BY <2>1, <2>2
<1> HIDE DEF n
<1>6. prog = [k \in 1 .. n |-> Cargar(primero + k - 1, primero + k - 1, upsert)]
  BY DEF DiaPorDia, n
<1> HIDE DEF primero, prog
<1>7. ASSUME NEW k \in 1 .. n PROVE StepOK(v, mode, prog[k])
  <2>1. primero + k - 1 \in Days
    BY <1>1, <1>2, <1>3, <1>5
  <2>2. prog[k] = Cargar(primero + k - 1, primero + k - 1, upsert)
    BY <1>6
  <2>3. QED
    BY <2>1, <2>2 DEF Cargar, StepOK
<1>8. prog = [k \in 1 .. n |-> prog[k]]
  BY <1>6
<1>9. QED
  BY <1>5, <1>7, <1>8 DEF ProgOK, prog

\* process_daily: a load of the day and, in v2, v3 and v4, its lock.
LEMMA DailyIs ==
  ASSUME NEW v, NEW d \in Days
  PROVE  /\ ProgOK(v, "daily", <<Cargar(d, d, "full"), Bloquear(d)>>)
         /\ ProgOK("inc", "daily", <<Cargar(d, d, "full")>>)
<1>1. StepOK(v, "daily", Cargar(d, d, "full")) /\ StepOK(v, "daily", Bloquear(d))
  BY DEF StepOK, Cargar, Bloquear
<1>2. ProgOK(v, "daily", <<Cargar(d, d, "full"), Bloquear(d)>>)
  <2> DEFINE prog == <<Cargar(d, d, "full"), Bloquear(d)>>
  <2>1. prog = [k \in 1 .. 2 |-> prog[k]] /\ \A k \in 1 .. 2 : StepOK(v, "daily", prog[k])
    BY <1>1
  <2> HIDE DEF prog
  <2>2. QED
    BY <2>1 DEF ProgOK, prog
<1>3. ProgOK("inc", "daily", <<Cargar(d, d, "full")>>)
  <2> DEFINE prog == <<Cargar(d, d, "full")>>
  <2>1. prog = [k \in 1 .. 1 |-> prog[k]] /\ \A k \in 1 .. 1 : StepOK("inc", "daily", prog[k])
    BY DEF StepOK, Cargar
  <2> HIDE DEF prog
  <2>2. QED
    BY <2>1 DEF ProgOK, prog
<1>4. QED
  BY <1>2, <1>3

\* The incremental program's backfill has a step for each month of the range.
LEMMA BackfillIncIs ==
  ASSUME NEW desde, NEW hasta, Rango(desde, hasta) # {}
  PROVE  ProgOK("inc", "backfill", Inc!Backfill(desde, hasta))
<1> DEFINE meses == {Lapso[d] : d \in Inc!Rango(desde, hasta)}
           n == Inc!Cardinality(meses)
           prog == Inc!Backfill(desde, hasta)
<1>1. Inc!Rango(desde, hasta) = Rango(desde, hasta)
  BY DEF Inc!Rango, Rango
<1>2. n \in Nat \ {0}
  <2>1. IsFiniteSet(Rango(desde, hasta))
    BY RotationAssumption, FS_Subset DEF RotationAssumption, Rango
  <2>2. [d \in Rango(desde, hasta) |-> Lapso[d]] \in Surjection(Rango(desde, hasta), meses)
    BY <1>1 DEF Surjection
  <2>3. IsFiniteSet(meses)
    BY <2>1, <2>2, FS_Surjection
  <2>4. meses # {}
    BY <1>1
  <2>5. Cardinality(meses) \in Nat \ {0}
    BY <2>3, <2>4, FS_CardinalityType, FS_EmptySet
  <2>6. n = Cardinality(meses)
    BY DEF Inc!Cardinality, Cardinality
  <2>7. QED
    BY <2>5, <2>6
<1>3. Len(Inc!MonthsInRange(desde, hasta)) = n
  <2> HIDE DEF n
  <2>1. \E f : Inc!MonthsInRange(desde, hasta) = [k \in 1 .. n |-> f[k]]
    <3> DEFINE g == Inc!MonthsInRange(desde, hasta)
    <3>1. g = [k \in 1 .. n |-> g[k]]
      BY DEF Inc!MonthsInRange, n
    <3> HIDE DEF g
    <3>2. \E f : g = [k \in 1 .. n |-> f[k]]
      BY <3>1
    <3>3. QED
      BY <3>2 DEF g
  <2>2. QED
    BY <1>2, <2>1
<1> HIDE DEF n
<1>4. /\ prog = [k \in 1 .. n |-> prog[k]]
      /\ \A k \in 1 .. n : \E a, b : prog[k] = Inc!Cargar(a, b, "full")
  BY <1>3 DEF Inc!Backfill
<1> HIDE DEF prog
<1>5. \A k \in 1 .. n : StepOK("inc", "backfill", prog[k])
  BY <1>4 DEF Inc!Cargar, StepOK
<1>6. QED
  BY <1>2, <1>4, <1>5 DEF ProgOK, prog

\* What version does for a company, in any mode.
LEMMA ProgramIsOK ==
  ASSUME ShownInv, NEW mode \in {"daily", "rolling", "backfill"},
         NEW desde \in Days, NEW hasta \in Days, desde <= hasta
  PROVE  ProgOK(version, mode, Program(mode, desde, hasta))
<1>1. version \in {"inc", "v2", "v3", "v4"} /\ RollingDays \in Nat \ {0}
  BY JobsAssumption DEF ShownInv
<1>2. /\ desde \in Int /\ hasta \in Int /\ hoy - 1 \in Int /\ hoy - RollingDays \in Int
      /\ hoy - 1 \in Days
  BY <1>1, DaysType DEF ShownInv
<1>3. Rango(desde, hasta) # {} /\ Rango(hoy - RollingDays, hoy - 1) # {}
  <2>1. desde \in Rango(desde, hasta)
    BY <1>2 DEF Rango
  <2>2. hoy - 1 \in Rango(hoy - RollingDays, hoy - 1)
    BY <1>1, <1>2 DEF Rango, ShownInv
  <2>3. QED
    BY <2>1, <2>2
<1>4. /\ \A v : ProgOK(v, "rolling", DiaPorDia(hoy - RollingDays, hoy - 1, "ventas"))
      /\ \A v : ProgOK(v, "backfill", DiaPorDia(desde, hasta, "full"))
  BY <1>2, <1>3, DiaPorDiaIs
<1> DEFINE ayer == hoy - 1
           diario == <<Cargar(ayer, ayer, "full"), Bloquear(ayer)>>
<1>5. (\A v : ProgOK(v, "daily", diario)) /\ ProgOK("inc", "daily", <<Cargar(ayer, ayer, "full")>>)
  <2>1. ayer \in Days
    BY <1>2
  <2> HIDE DEF ayer
  <2>2. QED
    BY <2>1, DailyIs
<1>6. CASE version = "inc"
  <2>1. Inc!Daily(hoy) = <<Cargar(ayer, ayer, "full")>>
    BY DEF Inc!Daily, Inc!Cargar, Cargar
  <2>2. ProgOK("inc", "rolling", Inc!Rolling(hoy, RollingDays))
    <3> DEFINE s == Inc!Cargar(hoy - RollingDays, hoy - 1, "ventas")
               prog == <<s>>
    <3>1. StepOK("inc", "rolling", s)
      BY DEF StepOK, Inc!Cargar
    <3> HIDE DEF s
    <3>2. prog = [k \in 1 .. 1 |-> prog[k]] /\ \A k \in 1 .. 1 : StepOK("inc", "rolling", prog[k])
      BY <3>1
    <3>3. Inc!Rolling(hoy, RollingDays) = prog
      BY DEF Inc!Rolling, s
    <3> HIDE DEF prog
    <3>4. 1 \in Nat \ {0}
      OBVIOUS
    <3>5. ProgOK("inc", "rolling", prog)
      BY <3>2, <3>4 DEF ProgOK
    <3>6. QED
      BY <3>3, <3>5
  <2>3. ProgOK("inc", "backfill", Inc!Backfill(desde, hasta))
    BY <1>3, BackfillIncIs
  <2>4. ProgOK("inc", "daily", Inc!Daily(hoy))
    BY <1>5, <2>1
  <2>5. QED
    BY <1>6, <2>2, <2>3, <2>4 DEF Program
<1>7. CASE version = "v2"
  <2>1. V2!Daily(hoy) = diario
    BY DEF V2!Daily, V2!Cargar, Cargar, V2!Bloquear, Bloquear
  <2>2. \A a, b, u : V2!DiaPorDia(a, b, u) = DiaPorDia(a, b, u)
    BY DEF V2!Rango, Rango, DiaPorDia, V2!DiaPorDia, Cargar, V2!Cargar,
           Cardinality, V2!Cardinality
  <2>3. /\ V2!Rolling(hoy, RollingDays) = DiaPorDia(hoy - RollingDays, hoy - 1, "ventas")
        /\ V2!Backfill(desde, hasta) = DiaPorDia(desde, hasta, "full")
    BY <2>2 DEF V2!Rolling, V2!Backfill
  <2>4. ProgOK("v2", "daily", V2!Daily(hoy))
    BY <1>5, <2>1
  <2>5. QED
    BY <1>4, <1>7, <2>3, <2>4 DEF Program
<1>8. CASE version = "v3"
  <2>1. V3!Daily(hoy) = diario
    BY DEF V3!Daily, V3!Cargar, Cargar, V3!Bloquear, Bloquear
  <2>2. \A a, b, u : V3!DiaPorDia(a, b, u) = DiaPorDia(a, b, u)
    BY DEF V3!Rango, Rango, DiaPorDia, V3!DiaPorDia, Cargar, V3!Cargar,
           Cardinality, V3!Cardinality
  <2>3. /\ V3!Rolling(hoy, RollingDays) = DiaPorDia(hoy - RollingDays, hoy - 1, "ventas")
        /\ V3!Backfill(desde, hasta) = DiaPorDia(desde, hasta, "full")
    BY <2>2 DEF V3!Rolling, V3!Backfill
  <2>4. ProgOK("v3", "daily", V3!Daily(hoy))
    BY <1>5, <2>1
  <2>5. QED
    BY <1>4, <1>8, <2>3, <2>4 DEF Program
<1>9. CASE version = "v4"
  <2>1. V4!Daily(hoy) = diario
    BY DEF V4!Daily, V4!Cargar, Cargar, V4!Bloquear, Bloquear
  <2>2. \A a, b, u : V4!DiaPorDia(a, b, u) = DiaPorDia(a, b, u)
    BY DEF V4!Rango, Rango, DiaPorDia, V4!DiaPorDia, Cargar, V4!Cargar,
           Cardinality, V4!Cardinality
  <2>3. /\ V4!Rolling(hoy, RollingDays) = DiaPorDia(hoy - RollingDays, hoy - 1, "ventas")
        /\ V4!Backfill(desde, hasta) = DiaPorDia(desde, hasta, "full")
    BY <2>2 DEF V4!Rolling, V4!Backfill
  <2>4. ProgOK("v4", "daily", V4!Daily(hoy))
    BY <1>5, <2>1
  <2>5. QED
    BY <1>4, <1>9, <2>3, <2>4 DEF Program
<1>10. QED
  BY <1>1, <1>6, <1>7, <1>8, <1>9

-----------------------------------------------------------------------------
(* What an upsert keeps.                                                   *)

\* A row written over another: its figures are the new row's; its photo is
\* one of the two, the old one when the upsert is of sales, and in v3 and v4
\* when the old row is locked, which it remains.
LEMMA UpsertIs ==
  ASSUME version \in Versions, NEW kind, NEW old, NEW new,
         IsLine(old), IsLine(new)
  PROVE  LET r == Upsert(kind, old, new)
         IN  /\ IsLine(r) /\ r.item = new.item /\ r.day = new.day /\ r.sold = new.sold
             /\ r.foto = old.foto \/ r.foto = new.foto
             /\ kind = "ventas" => r.foto = old.foto
             /\ version \in {"v3", "v4"} /\ old.bloqueada =>
                    r.foto = old.foto /\ r.bloqueada
<1>1. version \in {"inc", "v2", "v3", "v4"}
  BY JobsAssumption
<1> DEFINE f(x) == [new EXCEPT !.foto = x]
           g(x) == [new EXCEPT !.foto = x, !.bloqueada = old.bloqueada]
<1>2. ASSUME NEW x
      PROVE  /\ IsLine(f(x)) /\ f(x).item = new.item /\ f(x).day = new.day
             /\ f(x).sold = new.sold /\ f(x).foto = x
  BY DEF IsLine, Columns
<1>3. ASSUME NEW x
      PROVE  /\ IsLine(g(x)) /\ g(x).item = new.item /\ g(x).day = new.day
             /\ g(x).sold = new.sold /\ g(x).foto = x /\ g(x).bloqueada = old.bloqueada
  BY DEF IsLine, Columns
<1>4. CASE version = "inc"
  <2>1. Upsert(kind, old, new) = IF kind = "full" THEN new ELSE f(old.foto)
    BY <1>4 DEF Upsert, Inc!UpsertFull, Inc!UpsertVentas
  <2> HIDE DEF f
  <2>2. QED
    BY <1>2, <1>4, <2>1
<1>5. CASE version = "v2"
  <2>1. Upsert(kind, old, new) = IF kind = "full" THEN new ELSE g(old.foto)
    BY <1>5 DEF Upsert, V2!UpsertFull, V2!UpsertVentas
  <2> HIDE DEF g
  <2>2. QED
    BY <1>3, <1>5, <2>1
<1>6. CASE version \in {"v3", "v4"}
  <2>1. Upsert(kind, old, new) =
          IF kind = "full" THEN g(IF old.bloqueada THEN old.foto ELSE new.foto) ELSE g(old.foto)
    BY <1>6 DEF Upsert, V3!UpsertFull, V3!UpsertVentas, V4!UpsertFull, V4!UpsertVentas
  <2> HIDE DEF g
  <2>2. CASE kind = "full"
    BY <1>3, <1>6, <2>1, <2>2
  <2>3. CASE kind # "full"
    BY <1>3, <1>6, <2>1, <2>3
  <2>4. QED
    BY <2>2, <2>3
<1>7. QED
  BY <1>1, <1>4, <1>5, <1>6

-----------------------------------------------------------------------------
(* The source moves.                                                       *)

\* What counts as sold depends on the documents only, and on those of the day.
LEMMA SoldIs ==
  ASSUME NEW v, NEW src, NEW i, NEW d
  PROVE  Sold(v, src, i, d) = {t \in src.docs : /\ t.tipo = "PDV" /\ t.item = i /\ t.day = d
                                                /\ v # "inc" => ~t.z}
  BY DEF Sold, Ventas, Tickets

\* A line stays right while documents are added.
LEMMA SoldGrows ==
  ASSUME NEW v, NEW e, NEW old, NEW new, old.docs \subseteq new.docs, NEW r, LineOK(v, e, old, r)
  PROVE  LineOK(v, e, new, r)
<1>1. Sold(v, old, r.item, r.day) \subseteq Sold(v, new, r.item, r.day)
  BY SoldIs
<1>2. QED
  BY <1>1 DEF LineOK

\* Documents of another day change nothing of a day.
LEMMA SoldStays ==
  ASSUME NEW v, NEW e, NEW old, NEW new, NEW d,
         \A t : t.day = d => (t \in old.docs <=> t \in new.docs)
  PROVE  /\ \A i : Sold(v, new, i, d) = Sold(v, old, i, d)
         /\ \A i : Answers(v, e, new, i, d) <=> Answers(v, e, old, i, d)
         /\ \A lote : LotRight(v, e, old, lote, d) => LotRight(v, e, new, lote, d)
<1>1. ASSUME NEW i PROVE Sold(v, new, i, d) = Sold(v, old, i, d)
  <2>1. \A t : t \in Sold(v, new, i, d) <=> t \in Sold(v, old, i, d)
    BY SoldIs
  <2>2. QED
    BY <2>1
<1>2. ASSUME NEW i PROVE Answers(v, e, new, i, d) <=> Answers(v, e, old, i, d)
  BY <1>1 DEF Answers
<1>3. ASSUME NEW lote, LotRight(v, e, old, lote, d) PROVE LotRight(v, e, new, lote, d)
  BY <1>1, <1>2, <1>3 DEF LotRight
<1>4. QED
  BY <1>1, <1>2, <1>3

\* The source is now another: documents of day d of company x were added.
MovedAt(now, x, d) ==
    \A e \in Sources : /\ erp[e].docs \subseteq now[e].docs
                       /\ \A t : <<e, t.day>> # <<x, d>> =>
                            (t \in now[e].docs <=> t \in erp[e].docs)

\* Run p is about to commit a batch of that day.
InHand(p, x, d) ==
    /\ job[p].pc = "commit" /\ job[p].emp = x
    /\ d \in Rango(Head(job[p].prog).desde, Head(job[p].prog).hasta)

\* The lines, the clean days and the runs are right of the new source, but
\* for the clean day it is and for the batches in hand.
RightOf(now, x, d) ==
    /\ \A e \in Sources, c \in Cells : tabla[e][c] # NoRow =>
            LineOK(version, e, now[e], tabla[e][c])
    /\ \A e \in Sources, c \in Cells :
            (/\ <<e, c[2]>> \in limpios /\ <<e, c[2]>> # <<x, d>>
             /\ Answers(version, e, now[e], c[1], c[2]))
            => /\ version = "v4" \/ Sold(version, now[e], c[1], c[2]) # {} =>
                    tabla[e][c] # NoRow
               /\ tabla[e][c].sold = Qty(Sold(version, now[e], c[1], c[2]))
    /\ \A p \in Procs : Busy(p) /\ ~InHand(p, x, d) => RunOK(version, job[p], now)
    /\ \A p \in Procs : Busy(p) => RunOK(version, [job[p] EXCEPT !.visto = FALSE], now)

\* The lines, the clean days and the runs live with a source that moves.
LEMMA SourceMoves ==
  ASSUME ShownInv, RunsInv, LinesInv, CleanInv, NEW now, NEW x, NEW d, MovedAt(now, x, d)
  PROVE  RightOf(now, x, d)
<1>1. \A e \in Sources : /\ erp[e].docs \subseteq now[e].docs
                         /\ \A t : <<e, t.day>> # <<x, d>> =>
                                (t \in now[e].docs <=> t \in erp[e].docs)
  BY DEF MovedAt
<1>2. ASSUME NEW e \in Sources, NEW c \in Cells, tabla[e][c] # NoRow
      PROVE  LineOK(version, e, now[e], tabla[e][c])
  BY <1>2, <1>1, SoldGrows DEF LinesInv
<1>3. ASSUME NEW e \in Sources, NEW f, <<e, f>> # <<x, d>>
      PROVE  \A t : t.day = f => (t \in erp[e].docs <=> t \in now[e].docs)
  BY <1>3, <1>1
<1>4. ASSUME NEW e \in Sources, NEW c \in Cells, <<e, c[2]>> \in limpios,
             <<e, c[2]>> # <<x, d>>, Answers(version, e, now[e], c[1], c[2])
      PROVE  /\ version = "v4" \/ Sold(version, now[e], c[1], c[2]) # {} =>
                    tabla[e][c] # NoRow
             /\ tabla[e][c].sold = Qty(Sold(version, now[e], c[1], c[2]))
  <2>1. \A t : t.day = c[2] => (t \in erp[e].docs <=> t \in now[e].docs)
    BY <1>3, <1>4
  <2>2. /\ Sold(version, now[e], c[1], c[2]) = Sold(version, erp[e], c[1], c[2])
        /\ Answers(version, e, now[e], c[1], c[2]) <=> Answers(version, e, erp[e], c[1], c[2])
    BY <2>1, SoldStays
  <2>3. QED
    BY <1>4, <2>2 DEF CleanInv
<1>5. ASSUME NEW p \in Procs, Busy(p)
      PROVE  /\ job[p].pc = "commit" => \A r \in job[p].lote : LineOK(version, job[p].emp, now[job[p].emp], r)
             /\ job[p].pc = "commit" /\ job[p].visto =>
                    \A f \in Rango(Head(job[p].prog).desde, Head(job[p].prog).hasta) :
                        <<job[p].emp, f>> # <<x, d>> =>
                            LotRight(version, job[p].emp, now[job[p].emp], job[p].lote, f)
  <2>1. RunOK(version, job[p], erp)
    BY <1>5 DEF RunsInv
  <2>2. SUFFICES ASSUME job[p].pc = "commit"
                 PROVE  /\ \A r \in job[p].lote : LineOK(version, job[p].emp, now[job[p].emp], r)
                        /\ job[p].visto =>
                             \A f \in Rango(Head(job[p].prog).desde, Head(job[p].prog).hasta) :
                               <<job[p].emp, f>> # <<x, d>> =>
                                 LotRight(version, job[p].emp, now[job[p].emp], job[p].lote, f)
    OBVIOUS
  <2>3. job[p].emp \in Sources
    BY <2>1, <2>2 DEF RunOK
  <2>4. \A r \in job[p].lote : LineOK(version, job[p].emp, now[job[p].emp], r)
    BY <1>1, <2>1, <2>2, <2>3, SoldGrows DEF RunOK
  <2>5. ASSUME job[p].visto, NEW f \in Rango(Head(job[p].prog).desde, Head(job[p].prog).hasta),
               <<job[p].emp, f>> # <<x, d>>
        PROVE  LotRight(version, job[p].emp, now[job[p].emp], job[p].lote, f)
    <3>1. LotRight(version, job[p].emp, erp[job[p].emp], job[p].lote, f)
      BY <2>1, <2>2, <2>5 DEF RunOK
    <3> DEFINE old == erp[job[p].emp]
               new == now[job[p].emp]
    <3>2. \A t : t.day = f => (t \in old.docs <=> t \in new.docs)
      BY <1>3, <2>3, <2>5
    <3>3. LotRight(version, job[p].emp, old, job[p].lote, f)
      BY <3>1
    <3> HIDE DEF old, new
    <3>4. LotRight(version, job[p].emp, new, job[p].lote, f)
      BY <3>2, <3>3, SoldStays
    <3>5. QED
      BY <3>4 DEF new
  <2>6. QED
    BY <2>4, <2>5
<1>6. ASSUME NEW p \in Procs, Busy(p), ~InHand(p, x, d)
      PROVE  RunOK(version, job[p], now)
  <2>1. RunOK(version, job[p], erp)
    BY <1>6 DEF RunsInv
  <2>2. QED
    BY <1>5, <1>6, <2>1 DEF RunOK, InHand
<1>7. ASSUME NEW p \in Procs, Busy(p)
      PROVE  RunOK(version, [job[p] EXCEPT !.visto = FALSE], now)
  <2> DEFINE j == [job[p] EXCEPT !.visto = FALSE]
  <2>1. RunOK(version, job[p], erp)
    BY <1>7 DEF RunsInv
  <2>2. /\ IsRun(j) /\ j.visto = FALSE
        /\ \A k \in RunFields \ {"visto"} : j[k] = job[p][k]
    BY <2>1 DEF RunOK, IsRun, RunFields
  <2>3. /\ j.pc = job[p].pc /\ j.mode = job[p].mode /\ j.desde = job[p].desde
        /\ j.hasta = job[p].hasta /\ j.todo = job[p].todo /\ j.emp = job[p].emp
        /\ j.prog = job[p].prog /\ j.cache = job[p].cache /\ j.lote = job[p].lote
    BY <2>2 DEF RunFields
  <2> HIDE DEF j
  <2>4. RunOK(version, j, now)
    BY <1>5, <1>7, <2>1, <2>2, <2>3 DEF RunOK
  <2>5. QED
    BY <2>4 DEF j
<1>8. QED
  BY <1>2, <1>4, <1>6, <1>7 DEF RightOf

-----------------------------------------------------------------------------
(* A run's own steps.                                                      *)

\* One run takes a step and the others are as they were.
LEMMA OneRun ==
  ASSUME RunsInv, NEW p \in Procs, NEW j, job' = [job EXCEPT ![p] = j],
         erp' = erp, version' = version, j # Idle => RunOK(version, j, erp)
  PROVE  RunsInv'
<1>1. job' = [q \in Procs |-> IF q = p THEN j ELSE job[q]]
  BY DEF RunsInv
<1>2. job' = [q \in Procs |-> job'[q]]
  BY <1>1
<1>3. ASSUME NEW q \in Procs, job'[q] # Idle PROVE RunOK(version, job'[q], erp)
  BY <1>1, <1>3 DEF RunsInv, Busy
<1>4. QED
  BY <1>2, <1>3 DEF RunsInv, Busy

\* A run that starts has what the invariant says of a run, and so has it
\* after each of its steps.
LEMMA StartIs ==
  ASSUME RunsInv, NEW p \in Procs, StartRun(p)
  PROVE  RunsInv'
<1>1. PICK mode \in Modes[p], desde \in Days, hasta \in Days :
        /\ desde <= hasta
        /\ job' = [job EXCEPT ![p] =
                [pc |-> "next", mode |-> mode, desde |-> desde, hasta |-> hasta,
                 todo |-> Listas[p], emp |-> "none", prog |-> <<>>, cache |-> NoCache,
                 lote |-> {}, visto |-> TRUE, cargadas |-> {}, errores |-> 0]]
  BY DEF StartRun
<1> DEFINE j == [pc |-> "next", mode |-> mode, desde |-> desde, hasta |-> hasta,
                 todo |-> Listas[p], emp |-> "none", prog |-> <<>>, cache |-> NoCache,
                 lote |-> {}, visto |-> TRUE, cargadas |-> {}, errores |-> 0]
<1>2. IsRun(j)
  BY DEF IsRun, RunFields
<1>3. mode \in {"daily", "rolling", "backfill"} /\ Listas[p] \in Seq(Sources)
  BY <1>1, JobsAssumption DEF Sources
<1>4. /\ j.pc = "next" /\ j.mode = mode /\ j.desde = desde /\ j.hasta = hasta
      /\ j.todo = Listas[p] /\ j.cache.mes = NULL
  BY DEF NoCache, NULL
<1>5. erp' = erp /\ version' = version
  BY DEF StartRun
<1>6. job' = [job EXCEPT ![p] = j]
  BY <1>1
<1> HIDE DEF j
<1>7. RunOK(version, j, erp)
  BY <1>1, <1>2, <1>3, <1>4 DEF RunOK
<1>8. QED
  BY <1>5, <1>6, <1>7, OneRun

\* The next company's source answers: its program begins.
LEMMA ConnectIs ==
  ASSUME ShownInv, RunsInv, NEW p \in Procs, Connect(p)
  PROVE  RunsInv'
<1> DEFINE a == job[p]
           prog == Program(a.mode, a.desde, a.hasta)
           j == [a EXCEPT !.pc = "step", !.emp = Head(a.todo), !.todo = Tail(a.todo),
                          !.prog = prog]
<1>1. RunOK(version, a, erp) /\ a.pc = "next" /\ a.todo # <<>>
  BY DEF Connect, RunsInv
<1>2. job' = [job EXCEPT ![p] = j] /\ erp' = erp /\ version' = version
  BY DEF Connect
<1>3. ProgOK(version, a.mode, prog)
  BY <1>1, ProgramIsOK DEF RunOK
<1>4. Head(a.todo) \in Sources /\ Tail(a.todo) \in Seq(Sources)
  BY <1>1 DEF RunOK
<1> HIDE DEF prog
<1>5. IsRun(a)
  BY <1>1 DEF RunOK
<1>6. /\ IsRun(j) /\ j.pc = "step" /\ j.mode = a.mode /\ j.desde = a.desde /\ j.hasta = a.hasta
      /\ j.emp = Head(a.todo) /\ j.todo = Tail(a.todo) /\ j.prog = prog /\ j.cache = a.cache
  BY <1>5 DEF IsRun, RunFields
<1>7. CacheOK(version, j.emp, j.cache)
  BY <1>1, <1>6, LapsosType DEF RunOK, CacheOK
<1> HIDE DEF j, a
<1>8. RunOK(version, j, erp)
  BY <1>1, <1>3, <1>4, <1>6, <1>7 DEF RunOK
<1>9. QED
  BY <1>2, <1>8, OneRun DEF a, j

\* The next company's source does not answer.
LEMMA ConnectFailsIs ==
  ASSUME RunsInv, NEW p \in Procs, ConnectFails(p)
  PROVE  RunsInv'
<1> DEFINE a == job[p]
           j == [a EXCEPT !.todo = Tail(a.todo), !.errores = a.errores + 1]
<1>1. RunOK(version, a, erp) /\ a.pc = "next" /\ a.todo # <<>>
  BY DEF ConnectFails, RunsInv
<1>2. job' = [job EXCEPT ![p] = j] /\ erp' = erp /\ version' = version
  BY DEF ConnectFails
<1>3. IsRun(a) /\ Tail(a.todo) \in Seq(Sources)
  BY <1>1 DEF RunOK
<1>4. /\ IsRun(j) /\ j.pc = "next" /\ j.mode = a.mode /\ j.desde = a.desde /\ j.hasta = a.hasta
      /\ j.todo = Tail(a.todo) /\ j.cache = a.cache
  BY <1>1, <1>3 DEF IsRun, RunFields
<1> HIDE DEF j, a
<1>5. RunOK(version, j, erp)
  BY <1>1, <1>3, <1>4 DEF RunOK
<1>6. QED
  BY <1>2, <1>5, OneRun

\* A month is read and kept.
LEMMA ReadMonthIs ==
  ASSUME ShownInv, RunsInv, NEW p \in Procs, ReadMonth(p)
  PROVE  RunsInv'
<1> DEFINE a == job[p]
           mes == Lapso[Step(p).desde]
           c == MonthReading(a.emp, mes)
           j == [a EXCEPT !.cache = c]
<1>1. RunOK(version, a, erp) /\ a.pc = "step" /\ Keeps(a)
  BY DEF ReadMonth, Ready, RunsInv
<1>2. job' = [job EXCEPT ![p] = j] /\ erp' = erp /\ version' = version
  BY DEF ReadMonth, RunsInv
<1>3. IsRun(a) /\ a.emp \in Sources
  BY <1>1 DEF RunOK
<1>4. ShownOK(a.emp, erp[a.emp])
  BY <1>3 DEF ShownInv
<1>5. CacheOK(version, a.emp, c)
  <2>1. CASE version = "v3"
    BY <1>4, <2>1, KeepV3 DEF MonthReading
  <2>2. CASE version = "v4"
    BY <1>4, <2>2, KeepV4 DEF MonthReading
  <2>3. QED
    BY <1>1, <2>1, <2>2 DEF Keeps
<1> HIDE DEF c
<1>6. /\ IsRun(j) /\ j.pc = "step" /\ j.mode = a.mode /\ j.desde = a.desde /\ j.hasta = a.hasta
      /\ j.emp = a.emp /\ j.todo = a.todo /\ j.prog = a.prog /\ j.cache = c
  BY <1>1, <1>3 DEF IsRun, RunFields
<1> HIDE DEF j, a
<1>7. RunOK(version, j, erp)
  BY <1>1, <1>5, <1>6 DEF RunOK
<1>8. QED
  BY <1>2, <1>7, OneRun

\* A batch that has been read is right of the days of its step.
LEMMA BatchIs ==
  ASSUME ShownInv, NEW e \in Sources, NEW j, NEW s,
         CacheOK(version, e, j.cache), StepOK(version, j.mode, s),
         Keeps(j) => MonthIsKept(j, s.desde), NEW lote \in Readings(e, j, s)
  PROVE  /\ \A r \in lote : LineOK(version, e, erp[e], r) /\ r.day \in Rango(s.desde, s.hasta)
         /\ \A d \in Rango(s.desde, s.hasta) : LotRight(version, e, erp[e], lote, d)
<1>1. version \in {"inc", "v2", "v3", "v4"}
  BY JobsAssumption DEF ShownInv
<1>2. ShownOK(e, erp[e])
  BY DEF ShownInv
<1>3. version # "inc" => s.desde \in Days /\ s.hasta = s.desde
  BY DEF StepOK
<1>4. \A d \in Days : d \in Rango(d, d) /\ Rango(d, d) = {d}
  BY DaysType DEF Rango
<1>5. CASE version = "inc"
  <2>1. lote = Inc!FetchRows(erp[e], s.desde, s.hasta, Lapso[s.hasta])
    BY <1>5 DEF Readings
  <2>2. QED
    BY <1>5, <2>1, ReadInc
<1>6. CASE version = "v2"
  <2>1. lote = V2!ExtractDay(erp[e], s.desde)
    BY <1>6 DEF Readings
  <2>2. /\ \A r \in lote : LineOK("v2", e, erp[e], r) /\ r.day = s.desde
        /\ LotRight("v2", e, erp[e], lote, s.desde)
    BY <1>2, <1>3, <1>6, <2>1, ReadV2
  <2>3. QED
    BY <1>3, <1>4, <1>6, <2>2
<1>7. CASE version = "v3"
  <2>1. \A r \in lote : LineOK("v3", e, erp[e], r) /\ r.day = s.desde
    <3>1. CASE Keeps(j)
      <4>1. PICK sales \in V3!ExtractSalesDay(erp[e], s.desde) :
              lote = V3!MergeDay(j.cache.inv, sales, s.desde)
        BY <1>7, <3>1 DEF Readings
      <4> DEFINE c == j.cache
                 d == s.desde
      <4>2. CacheOK("v3", e, c) /\ d \in Days /\ c.mes = Lapso[d]
        BY <1>3, <1>7, <3>1 DEF MonthIsKept
      <4>3. lote = V3!MergeDay(c.inv, sales, d)
        BY <4>1
      <4> DEFINE src == erp[e]
      <4> HIDE DEF c, d, src
      <4>4. ASSUME NEW r \in lote PROVE LineOK("v3", e, src, r) /\ r.day = d
        <5>1. LineOK("v3", e, src, r)
          BY <4>2, <4>3, <4>4, MergeV3
        <5>2. r.day = d
          BY <4>3, <4>4 DEF V3!MergeDay, V3!Fila
        <5>3. QED
          BY <5>1, <5>2
      <4>5. QED
        BY <4>4 DEF d, src
    <3>2. CASE ~Keeps(j)
      <4>1. lote = V3!ExtractDay(erp[e], s.desde)
        BY <1>7, <3>2 DEF Readings
      <4>2. QED
        BY <1>2, <4>1, ReadV3
    <3>3. QED
      BY <3>1, <3>2
  <2>2. \A d : LotRight("v3", e, erp[e], lote, d)
    BY DEF LotRight, Answers, StartsFromSales
  <2>3. QED
    BY <1>3, <1>4, <1>7, <2>1, <2>2
<1>8. CASE version = "v4"
  <2>1. Keeps(j)
    BY <1>8 DEF Keeps
  <2> DEFINE c == j.cache
             d == s.desde
             costs == V4!ExtractCostDay(erp[e], d)
             src == erp[e]
  <2>2. CacheOK("v4", e, c) /\ d \in Days /\ c.mes = Lapso[d] /\ IsFiniteSet(src.docs)
    BY <1>2, <1>3, <1>8, <2>1 DEF MonthIsKept, ShownOK
  <2>3. PICK sales \in V4!ExtractSalesDay(src, d) :
          lote = V4!MergeDay(c.inv, c.mov, sales, costs, d)
    BY <1>8 DEF Readings
  <2> HIDE DEF c, d, costs, src
  <2>4. \A mov : LET l == V4!MergeDay(c.inv, mov, sales, costs, d)
                IN  /\ \A r \in l : LineOK("v4", e, src, r) /\ r.day = d
                    /\ LotRight("v4", e, src, l, d)
    BY <2>2, MergeV4
  <2>5. /\ \A r \in lote : LineOK("v4", e, src, r) /\ r.day = d
        /\ LotRight("v4", e, src, lote, d)
    BY <2>3, <2>4
  <2>6. QED
    BY <1>3, <1>4, <1>8, <2>5 DEF d, src
<1>9. QED
  BY <1>1, <1>5, <1>6, <1>7, <1>8

\* A batch is read.
LEMMA ExtractIs ==
  ASSUME ShownInv, RunsInv, NEW p \in Procs, ExtractStep(p)
  PROVE  RunsInv'
<1> DEFINE a == job[p]
           s == Head(a.prog)
<1>1. /\ RunOK(version, a, erp) /\ a.pc = "step" /\ s.op = "load"
      /\ Keeps(a) => MonthIsKept(a, s.desde)
  BY DEF ExtractStep, Ready, Step, RunsInv
<1>2. PICK lote \in Readings(a.emp, a, s) :
        job' = [job EXCEPT ![p] = [a EXCEPT !.pc = "commit", !.lote = lote, !.visto = TRUE]]
  BY DEF ExtractStep, Step, RunsInv
<1>3. erp' = erp /\ version' = version
  BY DEF ExtractStep
<1> DEFINE j == [a EXCEPT !.pc = "commit", !.lote = lote, !.visto = TRUE]
<1>4. IsRun(a) /\ a.emp \in Sources /\ CacheOK(version, a.emp, a.cache)
  BY <1>1 DEF RunOK
<1>5. StepOK(version, a.mode, s)
  BY <1>1, ProgStep DEF RunOK
<1>6. /\ \A r \in lote : /\ LineOK(version, a.emp, erp[a.emp], r)
                         /\ r.day \in Rango(s.desde, s.hasta)
      /\ \A d \in Rango(s.desde, s.hasta) : LotRight(version, a.emp, erp[a.emp], lote, d)
  <2> HIDE DEF a, s
  <2>1. QED
    BY <1>1, <1>2, <1>4, <1>5, BatchIs
<1>7. /\ IsRun(j) /\ j.pc = "commit" /\ j.mode = a.mode /\ j.desde = a.desde
      /\ j.hasta = a.hasta /\ j.emp = a.emp /\ j.todo = a.todo /\ j.prog = a.prog
      /\ j.cache = a.cache /\ j.lote = lote
  BY <1>1, <1>4 DEF IsRun, RunFields
<1>8. job' = [job EXCEPT ![p] = j]
  BY <1>2
<1> HIDE DEF j, a
<1>9. RunOK(version, j, erp)
  BY <1>1, <1>6, <1>7 DEF RunOK
<1>10. QED
  BY <1>3, <1>8, <1>9, OneRun

\* After a step the run is at the next one, or its company is done.
LEMMA AdvanceIs ==
  ASSUME NEW v, NEW j, NEW shown, RunOK(v, j, shown), j.pc # "next"
  PROVE  RunOK(v, Advance(j), shown)
<1>1. IsRun(j) /\ ProgOK(v, j.mode, j.prog)
  BY DEF RunOK
<1>2. CASE Len(j.prog) > 1
  <2> DEFINE k == [j EXCEPT !.pc = "step", !.prog = Tail(j.prog), !.lote = {}]
  <2>1. Advance(j) = k
    BY <1>2 DEF Advance
  <2>2. /\ IsRun(k) /\ k.pc = "step" /\ k.mode = j.mode /\ k.desde = j.desde
        /\ k.hasta = j.hasta /\ k.emp = j.emp /\ k.todo = j.todo /\ k.prog = Tail(j.prog)
        /\ k.cache = j.cache
    BY <1>1 DEF IsRun, RunFields
  <2>3. ProgOK(v, j.mode, Tail(j.prog))
    BY <1>1, <1>2, ProgStep
  <2> HIDE DEF k
  <2>4. RunOK(v, k, shown)
    BY <2>2, <2>3 DEF RunOK
  <2>5. QED
    BY <2>1, <2>4
<1>3. CASE ~ Len(j.prog) > 1
  <2> DEFINE k == [j EXCEPT !.pc = "next", !.prog = <<>>, !.lote = {}, !.cache = NoCache,
                            !.cargadas = j.cargadas \cup {j.emp}]
  <2>1. Advance(j) = k
    BY <1>3 DEF Advance
  <2>2. /\ IsRun(k) /\ k.pc = "next" /\ k.mode = j.mode /\ k.desde = j.desde
        /\ k.hasta = j.hasta /\ k.todo = j.todo /\ k.cache = NoCache
    BY <1>1 DEF IsRun, RunFields
  <2>3. k.cache.mes = NULL
    BY <2>2 DEF NoCache, NULL
  <2> HIDE DEF k
  <2>4. RunOK(v, k, shown)
    BY <2>2, <2>3 DEF RunOK
  <2>5. QED
    BY <2>1, <2>4
<1>4. QED
  BY <1>2, <1>3

\* A query or a commit fails.
LEMMA StepFailsIs ==
  ASSUME RunsInv, NEW p \in Procs, StepFails(p)
  PROVE  RunsInv'
<1> DEFINE a == job[p]
           j == [a EXCEPT !.pc = "next", !.prog = <<>>, !.lote = {}, !.cache = NoCache,
                          !.errores = a.errores + 1]
<1>1. RunOK(version, a, erp)
  BY DEF StepFails, RunsInv
<1>2. job' = [job EXCEPT ![p] = j] /\ erp' = erp /\ version' = version
  BY DEF StepFails, GiveUp, RunsInv
<1>3. IsRun(a)
  BY <1>1 DEF RunOK
<1>4. /\ IsRun(j) /\ j.pc = "next" /\ j.mode = a.mode /\ j.desde = a.desde
      /\ j.hasta = a.hasta /\ j.todo = a.todo /\ j.cache.mes = NULL
  BY <1>3 DEF IsRun, RunFields, NoCache, NULL
<1> HIDE DEF j, a
<1>5. RunOK(version, j, erp)
  BY <1>1, <1>4 DEF RunOK
<1>6. QED
  BY <1>2, <1>5, OneRun

-----------------------------------------------------------------------------
(* A commit.                                                               *)

\* A load leaves a cell as it was, when its batch has no row for it; else it
\* puts one there or writes one over.
LEMMA LoadCells ==
  ASSUME LinesInv, RunsInv, NEW p \in Procs, Load(p)
  PROVE  LET a == job[p]
             s == Head(a.prog)
         IN  /\ RunOK(version, a, erp) /\ a.pc = "commit" /\ a.emp \in Sources
             /\ tabla' = [e \in Sources |-> [x \in Cells |-> tabla'[e][x]]]
             /\ \A e \in Sources, x \in Cells :
                  \/ /\ tabla'[e][x] = tabla[e][x]
                     /\ e = a.emp => ~ \E r \in a.lote : r.item = x[1] /\ r.day = x[2]
                  \/ /\ e = a.emp
                     /\ \E r \in a.lote :
                          /\ r.item = x[1] /\ r.day = x[2]
                          /\ tabla'[e][x] = IF tabla[e][x] = NoRow THEN r
                                            ELSE Upsert(s.upsert, tabla[e][x], r)
<1> DEFINE a == job[p]
           s == Head(a.prog)
           nuevas(x) == {r \in a.lote : r.item = x[1] /\ r.day = x[2]}
           nueva(x) == CHOOSE n \in nuevas(x) : TRUE
           celda(x) == IF nuevas(x) = {} THEN tabla[a.emp][x]
                       ELSE IF tabla[a.emp][x] = NoRow THEN nueva(x)
                       ELSE Upsert(s.upsert, tabla[a.emp][x], nueva(x))
<1>1. RunOK(version, a, erp) /\ a.pc = "commit" /\ a.emp \in Sources
  BY DEF Load, RunsInv, RunOK
<1>2. tabla' = [tabla EXCEPT ![a.emp] = [x \in Items \X Days |-> celda(x)]]
  BY DEF Load, Step
<1> HIDE DEF celda
<1>3. tabla' = [e \in Sources |-> IF e = a.emp THEN [x \in Cells |-> celda(x)] ELSE tabla[e]]
  BY <1>2 DEF LinesInv, Cells
<1>4. tabla' = [e \in Sources |-> [x \in Cells |-> tabla'[e][x]]]
  <2>1. ASSUME NEW e \in Sources PROVE tabla'[e] = [x \in Cells |-> tabla'[e][x]]
    <3>1. CASE e = a.emp
      BY <1>3, <3>1
    <3>2. CASE e # a.emp
      <4>1. tabla'[e] = tabla[e]
        BY <1>3, <3>2
      <4>2. tabla[e] = [x \in Cells |-> tabla[e][x]]
        BY DEF LinesInv
      <4>3. QED
        BY <4>1, <4>2
    <3>3. QED
      BY <3>1, <3>2
  <2>2. tabla' = [e \in Sources |-> tabla'[e]]
    BY <1>3
  <2>3. QED
    BY <2>1, <2>2
<1>5. ASSUME NEW x \in Cells
      PROVE  \/ celda(x) = tabla[a.emp][x] /\ nuevas(x) = {}
             \/ \E r \in nuevas(x) :
                  celda(x) = IF tabla[a.emp][x] = NoRow THEN r
                             ELSE Upsert(s.upsert, tabla[a.emp][x], r)
  <2>1. CASE nuevas(x) = {}
    BY <2>1 DEF celda
  <2>2. CASE nuevas(x) # {}
    <3>1. nueva(x) \in nuevas(x)
      BY <2>2
    <3>2. celda(x) = IF tabla[a.emp][x] = NoRow THEN nueva(x)
                     ELSE Upsert(s.upsert, tabla[a.emp][x], nueva(x))
      BY <2>2 DEF celda
    <3>3. QED
      BY <3>1, <3>2
  <2>3. QED
    BY <2>1, <2>2
<1>6. ASSUME NEW e \in Sources, NEW x \in Cells
      PROVE  \/ /\ tabla'[e][x] = tabla[e][x]
                /\ e = a.emp => ~ \E r \in a.lote : r.item = x[1] /\ r.day = x[2]
             \/ /\ e = a.emp
                /\ \E r \in a.lote :
                     /\ r.item = x[1] /\ r.day = x[2]
                     /\ tabla'[e][x] = IF tabla[e][x] = NoRow THEN r
                                       ELSE Upsert(s.upsert, tabla[e][x], r)
  <2>1. CASE e # a.emp
    BY <1>3, <2>1
  <2>2. CASE e = a.emp
    <3>1. tabla'[e][x] = celda(x)
      BY <1>3, <2>2
    <3>2. CASE celda(x) = tabla[a.emp][x] /\ nuevas(x) = {}
      BY <2>2, <3>1, <3>2
    <3>3. ASSUME NEW r \in nuevas(x),
                 celda(x) = IF tabla[a.emp][x] = NoRow THEN r
                            ELSE Upsert(s.upsert, tabla[a.emp][x], r)
          PROVE  /\ r \in a.lote /\ r.item = x[1] /\ r.day = x[2]
                 /\ tabla'[e][x] = IF tabla[e][x] = NoRow THEN r
                                   ELSE Upsert(s.upsert, tabla[e][x], r)
      BY <2>2, <3>1, <3>3
    <3>4. QED
      BY <1>5, <2>2, <3>2, <3>3
  <2>3. QED
    BY <2>1, <2>2
<1>7. QED
  BY <1>1, <1>4, <1>6

\* A line is no empty cell.
LEMMA LinesAreRows ==
  ASSUME NEW r, IsLine(r)
  PROVE  r # NoRow
<1>1. "item" \in DOMAIN r
  BY DEF IsLine, Columns
<1>2. "item" \notin DOMAIN NoRow
  BY DEF NoRow
<1>3. QED
  BY <1>1, <1>2

\* What a commit writes is a line of its cell, with the units of the batch.
LEMMA LoadWrites ==
  ASSUME ShownInv, LinesInv, RunsInv, NEW p \in Procs, Load(p),
         NEW x \in Cells, NEW r \in job[p].lote, r.item = x[1], r.day = x[2],
         NEW new, new = IF tabla[job[p].emp][x] = NoRow THEN r
                        ELSE Upsert(Head(job[p].prog).upsert, tabla[job[p].emp][x], r)
  PROVE  /\ LineOK(version, job[p].emp, erp[job[p].emp], new)
         /\ new.item = x[1] /\ new.day = x[2] /\ new.sold = r.sold
<1> DEFINE e == job[p].emp
           old == tabla[job[p].emp][x]
<1>1. LineOK(version, e, erp[e], r) /\ e \in Sources
  BY LoadCells DEF RunOK
<1>2. x[1] \in Items /\ x[2] \in Days
  BY DEF Cells
<1>3. CASE old = NoRow
  BY <1>1, <1>3
<1>4. CASE old # NoRow
  <2>1. LineOK(version, e, erp[e], old) /\ old.item = x[1] /\ old.day = x[2]
    BY <1>1, <1>4 DEF LinesInv
  <2> DEFINE up == Head(job[p].prog).upsert
  <2>2. new = Upsert(up, old, r)
    BY <1>4
  <2>3. IsLine(old) /\ IsLine(r) /\ version \in Versions
    BY <1>1, <2>1 DEF LineOK, ShownInv
  <2> HIDE DEF e, old, up
  <2>4. /\ IsLine(new) /\ new.item = r.item /\ new.day = r.day /\ new.sold = r.sold
        /\ new.foto = old.foto \/ new.foto = r.foto
    BY <2>2, <2>3, UpsertIs
  <2>5. LineOK(version, e, erp[e], new)
    BY <1>1, <2>1, <2>4 DEF LineOK
  <2>6. QED
    BY <2>4, <2>5 DEF e
<1>5. QED
  BY <1>3, <1>4

\* load_rows keeps the invariant: the units of a clean day are the batch's, or
\* the item has no ticket and no old units.
LEMMA LoadIs ==
  ASSUME ShownInv, LinesInv, CleanInv, RunsInv, NEW p \in Procs, Load(p)
  PROVE  LinesInv' /\ CleanInv' /\ RunsInv'
<1> DEFINE a == job[p]
           s == Head(a.prog)
<1>1. /\ RunOK(version, a, erp) /\ a.pc = "commit" /\ a.emp \in Sources
      /\ tabla' = [e \in Sources |-> [x \in Cells |-> tabla'[e][x]]]
      /\ \A e \in Sources, x \in Cells :
           \/ /\ tabla'[e][x] = tabla[e][x]
              /\ e = a.emp => ~ \E r \in a.lote : r.item = x[1] /\ r.day = x[2]
           \/ /\ e = a.emp
              /\ \E r \in a.lote :
                   /\ r.item = x[1] /\ r.day = x[2]
                   /\ tabla'[e][x] = IF tabla[e][x] = NoRow THEN r
                                     ELSE Upsert(s.upsert, tabla[e][x], r)
  BY LoadCells
<1>2. /\ erp' = erp /\ version' = version /\ hoy' = hoy
      /\ job' = [job EXCEPT ![p] = Advance(a)]
      /\ limpios' = IF a.visto THEN limpios \cup {<<a.emp, d>> : d \in Rango(s.desde, s.hasta)}
                    ELSE limpios \ {<<a.emp, d>> : d \in Rango(s.desde, s.hasta)}
  BY DEF Load, Step, RunsInv
<1>3. ASSUME NEW x \in Cells, NEW r \in a.lote, r.item = x[1], r.day = x[2],
             tabla'[a.emp][x] = IF tabla[a.emp][x] = NoRow THEN r
                                ELSE Upsert(s.upsert, tabla[a.emp][x], r)
      PROVE  /\ LineOK(version, a.emp, erp[a.emp], tabla'[a.emp][x])
             /\ tabla'[a.emp][x].item = x[1] /\ tabla'[a.emp][x].day = x[2]
             /\ tabla'[a.emp][x].sold = r.sold
  BY <1>3, LoadWrites
<1>4. LinesInv'
  <2>1. ASSUME NEW e \in Sources, NEW x \in Cells, tabla'[e][x] # NoRow
        PROVE  /\ LineOK(version, e, erp[e], tabla'[e][x])
               /\ tabla'[e][x].item = x[1] /\ tabla'[e][x].day = x[2]
    <3>1. CASE tabla'[e][x] = tabla[e][x]
      BY <2>1, <3>1 DEF LinesInv
    <3>2. CASE tabla'[e][x] # tabla[e][x]
      BY <1>1, <1>3, <3>2
    <3>3. QED
      BY <3>1, <3>2
  <2>2. QED
    BY <1>1, <1>2, <2>1 DEF LinesInv
<1>5. CleanInv'
  <2>1. SUFFICES ASSUME NEW e \in Sources, NEW x \in Cells, <<e, x[2]>> \in limpios',
                        Answers(version, e, erp[e], x[1], x[2])
                 PROVE  /\ version = "v4" \/ Sold(version, erp[e], x[1], x[2]) # {} =>
                                tabla'[e][x] # NoRow
                        /\ tabla'[e][x].sold = Qty(Sold(version, erp[e], x[1], x[2]))
    BY <1>2 DEF CleanInv
  <2>2. x[1] \in Items /\ x[2] \in Days
    BY DEF Cells
  <2>3. CASE e = a.emp /\ x[2] \in Rango(s.desde, s.hasta)
    <3>1. a.visto
      BY <1>2, <2>1, <2>3
    <3>2. LotRight(version, e, erp[e], a.lote, x[2])
      BY <1>1, <2>3, <3>1 DEF RunOK
    <3>3. /\ version = "v4" \/ Sold(version, erp[e], x[1], x[2]) # {} =>
                \E r \in a.lote : r.item = x[1] /\ r.day = x[2]
          /\ \A r \in a.lote : r.item = x[1] /\ r.day = x[2] =>
                r.sold = Qty(Sold(version, erp[e], x[1], x[2]))
      BY <2>1, <2>2, <3>2 DEF LotRight
    <3>4. CASE \E r \in a.lote : r.item = x[1] /\ r.day = x[2]
      <4>1. PICK r \in a.lote : /\ r.item = x[1] /\ r.day = x[2]
                                /\ tabla'[e][x] = IF tabla[e][x] = NoRow THEN r
                                                  ELSE Upsert(s.upsert, tabla[e][x], r)
        <5>1. \/ ~ \E r \in a.lote : r.item = x[1] /\ r.day = x[2]
              \/ \E r \in a.lote : /\ r.item = x[1] /\ r.day = x[2]
                                   /\ tabla'[e][x] = IF tabla[e][x] = NoRow THEN r
                                                     ELSE Upsert(s.upsert, tabla[e][x], r)
          BY <1>1, <2>3
        <5>2. QED
          BY <3>4, <5>1
      <4>2. LineOK(version, e, erp[e], tabla'[e][x]) /\ tabla'[e][x].sold = r.sold
        BY <1>3, <2>3, <4>1
      <4>3. tabla'[e][x] # NoRow
        BY <4>2, LinesAreRows DEF LineOK
      <4>4. QED
        BY <3>3, <4>1, <4>2, <4>3
    <3>5. CASE ~ \E r \in a.lote : r.item = x[1] /\ r.day = x[2]
      <4>1. version \in StartsFromSales /\ Sold(version, erp[e], x[1], x[2]) = {}
        BY <2>1, <3>3, <3>5 DEF Answers
      <4>2. tabla'[e][x] = tabla[e][x]
        BY <1>1, <3>5
      <4>3. tabla[e][x].sold = 0
        <5>1. CASE tabla[e][x] = NoRow
          BY <5>1 DEF NoRow
        <5>2. CASE tabla[e][x] # NoRow
          BY <4>1, <5>2 DEF LinesInv, LineOK
        <5>3. QED
          BY <5>1, <5>2
      <4>4. version # "v4"
        BY <4>1 DEF StartsFromSales
      <4>5. QED
        BY <4>1, <4>2, <4>3, <4>4, QtyOfNone
    <3>6. QED
      BY <3>4, <3>5
  <2>4. CASE ~ (e = a.emp /\ x[2] \in Rango(s.desde, s.hasta))
    <3>1. <<e, x[2]>> \in limpios
      BY <1>2, <2>1, <2>4
    <3>2. tabla'[e][x] = tabla[e][x]
      BY <1>1, <2>4 DEF RunOK
    <3>3. QED
      BY <2>1, <3>1, <3>2 DEF CleanInv
  <2>5. QED
    BY <2>3, <2>4
<1>6. RunsInv'
  <2>1. RunOK(version, Advance(a), erp)
    BY <1>1, AdvanceIs
  <2>2. QED
    BY <1>2, <2>1, OneRun
<1>7. QED
  BY <1>4, <1>5, <1>6

\* lock_inventory_snapshot leaves a cell as it was or sets its lock.
LEMMA LockCells ==
  ASSUME LinesInv, RunsInv, NEW p \in Procs, Lock(p)
  PROVE  /\ RunOK(version, job[p], erp) /\ job[p].pc = "step"
         /\ tabla' = [e \in Sources |-> [x \in Cells |-> tabla'[e][x]]]
         /\ \A e \in Sources, x \in Cells :
              \/ tabla'[e][x] = tabla[e][x]
              \/ /\ tabla[e][x] # NoRow
                 /\ tabla'[e][x] = [tabla[e][x] EXCEPT !.bloqueada = TRUE]
<1> DEFINE a == job[p]
           s == Head(a.prog)
           celda(x) == IF x[2] = s.desde /\ tabla[a.emp][x] # NoRow
                       THEN [tabla[a.emp][x] EXCEPT !.bloqueada = TRUE] ELSE tabla[a.emp][x]
<1>1. RunOK(version, a, erp) /\ a.pc = "step" /\ a.emp \in Sources
  BY DEF Lock, Ready, RunsInv, RunOK
<1>2. tabla' = [tabla EXCEPT ![a.emp] = [x \in Items \X Days |-> celda(x)]]
  BY DEF Lock, Step
<1>3. \A x \in Cells : \/ celda(x) = tabla[a.emp][x]
                       \/ /\ tabla[a.emp][x] # NoRow
                          /\ celda(x) = [tabla[a.emp][x] EXCEPT !.bloqueada = TRUE]
  OBVIOUS
<1> HIDE DEF celda
<1>4. tabla' = [e \in Sources |-> IF e = a.emp THEN [x \in Cells |-> celda(x)] ELSE tabla[e]]
  BY <1>2 DEF LinesInv, Cells
<1>5. tabla' = [e \in Sources |-> [x \in Cells |-> tabla'[e][x]]]
  <2>1. ASSUME NEW e \in Sources PROVE tabla'[e] = [x \in Cells |-> tabla'[e][x]]
    <3>1. CASE e = a.emp
      BY <1>4, <3>1
    <3>2. CASE e # a.emp
      <4>1. tabla'[e] = tabla[e]
        BY <1>4, <3>2
      <4>2. tabla[e] = [x \in Cells |-> tabla[e][x]]
        BY DEF LinesInv
      <4>3. QED
        BY <4>1, <4>2
    <3>3. QED
      BY <3>1, <3>2
  <2>2. tabla' = [e \in Sources |-> tabla'[e]]
    BY <1>4
  <2>3. QED
    BY <2>1, <2>2
<1>6. ASSUME NEW e \in Sources, NEW x \in Cells
      PROVE  \/ tabla'[e][x] = tabla[e][x]
             \/ /\ tabla[e][x] # NoRow
                /\ tabla'[e][x] = [tabla[e][x] EXCEPT !.bloqueada = TRUE]
  BY <1>3, <1>4
<1>7. QED
  BY <1>1, <1>5, <1>6

\* A lock changes nothing else of a line.
LEMMA LockedIs ==
  ASSUME NEW r, IsLine(r)
  PROVE  LET k == [r EXCEPT !.bloqueada = TRUE]
         IN  /\ IsLine(k) /\ k.bloqueada
             /\ k.item = r.item /\ k.day = r.day /\ k.sold = r.sold /\ k.foto = r.foto
  BY DEF IsLine, Columns

\* lock_inventory_snapshot keeps the invariant.
LEMMA LockIs ==
  ASSUME LinesInv, CleanInv, RunsInv, NEW p \in Procs, Lock(p)
  PROVE  LinesInv' /\ CleanInv' /\ RunsInv'
<1>1. /\ RunOK(version, job[p], erp) /\ job[p].pc = "step"
      /\ tabla' = [e \in Sources |-> [x \in Cells |-> tabla'[e][x]]]
      /\ \A e \in Sources, x \in Cells :
           \/ tabla'[e][x] = tabla[e][x]
           \/ /\ tabla[e][x] # NoRow
              /\ tabla'[e][x] = [tabla[e][x] EXCEPT !.bloqueada = TRUE]
  BY LockCells
<1>2. /\ erp' = erp /\ version' = version /\ limpios' = limpios
      /\ job' = [job EXCEPT ![p] = Advance(job[p])]
  BY DEF Lock, RunsInv
<1>3. ASSUME NEW e \in Sources, NEW x \in Cells
      PROVE  /\ tabla'[e][x] # NoRow =>
                    /\ LineOK(version, e, erp[e], tabla'[e][x])
                    /\ tabla'[e][x].item = x[1] /\ tabla'[e][x].day = x[2]
             /\ tabla[e][x] # NoRow => tabla'[e][x] # NoRow
             /\ tabla'[e][x].sold = tabla[e][x].sold
  <2> DEFINE old == tabla[e][x]
             new == tabla'[e][x]
  <2>1. old # NoRow => LineOK(version, e, erp[e], old) /\ old.item = x[1] /\ old.day = x[2]
    BY DEF LinesInv
  <2>2. new = old \/ (old # NoRow /\ new = [old EXCEPT !.bloqueada = TRUE])
    BY <1>1
  <2> HIDE DEF old, new
  <2>3. CASE new = old
    BY <2>1, <2>3 DEF old, new
  <2>4. CASE old # NoRow /\ new = [old EXCEPT !.bloqueada = TRUE]
    <3>1. IsLine(old)
      BY <2>1, <2>4 DEF LineOK
    <3>2. /\ IsLine(new) /\ new.item = old.item /\ new.day = old.day
          /\ new.sold = old.sold /\ new.foto = old.foto
      BY <2>4, <3>1, LockedIs
    <3>3. new # NoRow
      BY <3>2, LinesAreRows
    <3>4. LineOK(version, e, erp[e], new)
      BY <2>1, <2>4, <3>2 DEF LineOK
    <3>5. QED
      BY <2>1, <2>4, <3>2, <3>3, <3>4 DEF old, new
  <2>5. QED
    BY <2>2, <2>3, <2>4
<1>4. LinesInv'
  BY <1>1, <1>2, <1>3 DEF LinesInv
<1>5. CleanInv'
  BY <1>2, <1>3 DEF CleanInv
<1>6. RunsInv'
  <2>1. RunOK(version, Advance(job[p]), erp)
    BY <1>1, AdvanceIs
  <2>2. QED
    BY <1>2, <2>1, OneRun
<1>7. QED
  BY <1>4, <1>5, <1>6

-----------------------------------------------------------------------------
(* What happens around the runs.                                           *)

\* A ticket is posted: its day is clean no more, and no batch in hand of that
\* day will make it so.
LEMMA PostIs ==
  ASSUME ShownInv, LinesInv, CleanInv, RunsInv, PostTicket
  PROVE  ShownInv' /\ LinesInv' /\ CleanInv' /\ RunsInv'
<1>1. PICK t \in Documents :
        /\ erp' = [erp EXCEPT ![t.emp].docs = erp[t.emp].docs \cup {t}]
        /\ limpios' = limpios \ {<<t.emp, t.day>>}
        /\ job' = [p \in Procs |->
                IF Busy(p) /\ job[p].pc = "commit" /\ job[p].emp = t.emp
                   /\ t.day \in Rango(Step(p).desde, Step(p).hasta)
                THEN [job[p] EXCEPT !.visto = FALSE] ELSE job[p]]
  BY DEF PostTicket
<1>2. version' = version /\ hoy' = hoy /\ tabla' = tabla
  BY DEF PostTicket
<1>3. ASSUME NEW e \in Sources
      PROVE  /\ e # t.emp => erp'[e] = erp[e]
             /\ e = t.emp => /\ erp'[e].docs = erp[e].docs \cup {t}
                             /\ erp'[e].resumen = erp[e].resumen
                             /\ erp'[e] = [docs |-> erp[e].docs \cup {t},
                                           resumen |-> erp[e].resumen]
  <2>1. erp[e] = [docs |-> erp[e].docs,
                  resumen |-> [i \in Items |-> [m \in Lapsos |-> erp[e].resumen[i][m]]]]
    BY DEF ShownInv, ShownOK
  <2>2. erp'[e] = IF e = t.emp THEN [erp[e] EXCEPT !.docs = erp[e].docs \cup {t}] ELSE erp[e]
    BY <1>1 DEF ShownInv
  <2>3. QED
    BY <2>1, <2>2
<1>4. erp' = [e \in Sources |-> erp'[e]]
  BY <1>1 DEF ShownInv
<1>5. ShownInv'
  <2>1. ASSUME NEW e \in Sources PROVE ShownOK(e, erp'[e])
    <3>1. ShownOK(e, erp[e])
      BY DEF ShownInv
    <3>2. CASE e = t.emp
      <4>1. IsFiniteSet(erp[e].docs \cup {t})
        BY <3>1, FS_AddElement DEF ShownOK
      <4> DEFINE res == erp[e].resumen
      <4>2. /\ erp'[e] = [docs |-> erp[e].docs \cup {t}, resumen |-> res]
            /\ erp'[e].docs = erp[e].docs \cup {t} /\ erp'[e].resumen = res
        BY <1>3, <3>2
      <4>3. res = [i \in Items |-> [m \in Lapsos |-> res[i][m]]]
        <5>1. erp[e] = [docs |-> erp[e].docs,
                        resumen |-> [i \in Items |-> [m \in Lapsos |-> res[i][m]]]]
          BY <3>1 DEF ShownOK
        <5>2. QED
          BY <5>1
      <4> HIDE DEF res
      <4>4. erp'[e] = [docs |-> erp'[e].docs,
                       resumen |-> [i \in Items |-> [m \in Lapsos |-> erp'[e].resumen[i][m]]]]
        BY <4>2, <4>3
      <4>5. \A i \in Items, m \in Lapsos : Existe(Inicial[e], i, m) => Existe(erp'[e], i, m)
        BY <3>1, <4>2 DEF ShownOK, Existe, res
      <4>6. QED
        BY <4>1, <4>2, <4>4, <4>5 DEF ShownOK
    <3>3. CASE e # t.emp
      BY <1>3, <3>1, <3>3
    <3>4. QED
      BY <3>2, <3>3
  <2>2. QED
    BY <1>2, <1>4, <2>1 DEF ShownInv
<1>6. MovedAt(erp', t.emp, t.day)
  BY <1>3 DEF MovedAt
<1>7. RightOf(erp', t.emp, t.day)
  <2> DEFINE now == erp'
             x == t.emp
             d == t.day
  <2>1. MovedAt(now, x, d)
    BY <1>6
  <2> HIDE DEF now, x, d
  <2>2. RightOf(now, x, d)
    BY <2>1, SourceMoves
  <2>3. QED
    BY <2>2 DEF now, x, d
<1>8. LinesInv'
  BY <1>2, <1>7 DEF LinesInv, RightOf
<1>9. CleanInv'
  BY <1>1, <1>2, <1>7 DEF CleanInv, RightOf
<1>10. RunsInv'
  <2>1. ASSUME NEW p \in Procs, job'[p] # Idle PROVE RunOK(version, job'[p], erp')
    <3>2. CASE /\ Busy(p) /\ job[p].pc = "commit" /\ job[p].emp = t.emp
               /\ t.day \in Rango(Step(p).desde, Step(p).hasta)
      BY <1>1, <1>7, <3>2 DEF RightOf
    <3>3. CASE ~ (/\ Busy(p) /\ job[p].pc = "commit" /\ job[p].emp = t.emp
                  /\ t.day \in Rango(Step(p).desde, Step(p).hasta))
      <4>1. job'[p] = job[p]
        BY <1>1, <3>3
      <4>2. Busy(p)
        BY <2>1, <4>1 DEF Busy
      <4>3. QED
        BY <1>7, <3>3, <4>1, <4>2 DEF Step, RightOf, InHand
    <3>4. QED
      BY <3>2, <3>3
  <2>2. job' = [p \in Procs |-> job'[p]]
    BY <1>1
  <2>3. QED
    BY <1>2, <2>1, <2>2 DEF RunsInv, Busy
<1>11. QED
  BY <1>5, <1>8, <1>9, <1>10

\* A line of the summary moves: the documents are the ones there were.
LEMMA StockMovesIs ==
  ASSUME ShownInv, LinesInv, CleanInv, RunsInv, SummaryMoves
  PROVE  ShownInv' /\ LinesInv' /\ CleanInv' /\ RunsInv'
<1>1. PICK c \in Cambios : erp' = [erp EXCEPT ![c.emp].resumen[c.item][c.lapso] = c.line]
  BY DEF SummaryMoves
<1>2. /\ version' = version /\ hoy' = hoy /\ tabla' = tabla /\ job' = job /\ limpios' = limpios
      /\ c.line # SinResumen
  BY JobsAssumption DEF SummaryMoves
<1>3. ASSUME NEW e \in Sources
      PROVE  erp'[e].docs = erp[e].docs /\ ShownOK(e, erp'[e])
  <2>1. ShownOK(e, erp[e])
    BY DEF ShownInv
  <2>2. CASE e # c.emp
    BY <1>1, <2>1, <2>2 DEF ShownInv
  <2>3. CASE e = c.emp
    <3> DEFINE res == erp[e].resumen
               new == [res EXCEPT ![c.item][c.lapso] = c.line]
    <3>1. erp[e] = [docs |-> erp[e].docs,
                    resumen |-> [i \in Items |-> [m \in Lapsos |-> res[i][m]]]]
      BY <2>1 DEF ShownOK
    <3>2. res = [i \in Items |-> [m \in Lapsos |-> res[i][m]]]
      BY <3>1
    <3>3. erp'[e] = [erp[e] EXCEPT !.resumen = new]
      BY <1>1, <2>3 DEF ShownInv
    <3>4. erp'[e] = [docs |-> erp[e].docs, resumen |-> new]
      BY <3>1, <3>3
    <3>5. /\ new = [i \in Items |-> [m \in Lapsos |-> new[i][m]]]
          /\ \A i \in Items, m \in Lapsos : new[i][m] \in {res[i][m], c.line}
      <4> DEFINE otra == [res[c.item] EXCEPT ![c.lapso] = c.line]
      <4>1. new = [res EXCEPT ![c.item] = otra]
        OBVIOUS
      <4> HIDE DEF res, new
      <4>2. \A i \in Items : res[i] = [m \in Lapsos |-> res[i][m]]
        BY <3>2
      <4>3. c.item \in Items => /\ otra = [m \in Lapsos |-> otra[m]]
                                /\ \A m \in Lapsos : otra[m] \in {res[c.item][m], c.line}
        BY <4>2
      <4> HIDE DEF otra
      <4>4. /\ new = [i \in Items |-> new[i]]
            /\ \A i \in Items : new[i] = IF i = c.item THEN otra ELSE res[i]
        BY <3>2, <4>1
      <4>5. \A i \in Items : new[i] = [m \in Lapsos |-> new[i][m]]
        BY <4>2, <4>3, <4>4
      <4>6. \A i \in Items, m \in Lapsos : new[i][m] \in {res[i][m], c.line}
        BY <4>3, <4>4
      <4>7. QED
        BY <4>4, <4>5, <4>6
    <3>6. erp'[e].docs = erp[e].docs /\ erp'[e].resumen = new
      BY <3>4
    <3> HIDE DEF new
    <3>7. \A i \in Items, m \in Lapsos : Existe(Inicial[e], i, m) => Existe(erp'[e], i, m)
      BY <1>2, <2>1, <3>5, <3>6 DEF ShownOK, Existe
    <3>8. erp'[e] = [docs |-> erp'[e].docs,
                     resumen |-> [i \in Items |-> [m \in Lapsos |-> erp'[e].resumen[i][m]]]]
      BY <3>4, <3>5, <3>6
    <3>9. IsFiniteSet(erp'[e].docs)
      BY <2>1, <3>6 DEF ShownOK
    <3>10. QED
      BY <3>6, <3>7, <3>8, <3>9 DEF ShownOK
  <2>4. QED
    BY <2>2, <2>3
<1>4. ShownInv'
  <2>1. erp' = [e \in Sources |-> erp'[e]]
    BY <1>1 DEF ShownInv
  <2>2. QED
    BY <1>2, <1>3, <2>1 DEF ShownInv
<1>5. RightOf(erp', c.emp, NULL)
  <2> DEFINE now == erp'
             k == c.emp
             d == NULL
  <2>1. MovedAt(now, k, d)
    BY <1>3 DEF MovedAt
  <2> HIDE DEF now, k, d
  <2>2. RightOf(now, k, d)
    BY <2>1, SourceMoves
  <2>3. QED
    BY <2>2 DEF now, k, d
<1>6. /\ \A a, b : NULL \notin Rango(a, b)
      /\ \A x \in Cells : x[2] # NULL
  BY DaysType DEF Rango, NULL, Cells
<1>7. LinesInv'
  BY <1>2, <1>5 DEF LinesInv, RightOf
<1>8. CleanInv'
  BY <1>2, <1>5, <1>6 DEF CleanInv, RightOf
<1>9. RunsInv'
  BY <1>2, <1>5, <1>6 DEF RunsInv, Busy, RightOf, InHand
<1>10. QED
  BY <1>4, <1>7, <1>8, <1>9

\* The day turns.
LEMMA NewDayIs ==
  ASSUME ShownInv, LinesInv, CleanInv, RunsInv, DateTurns
  PROVE  ShownInv' /\ LinesInv' /\ CleanInv' /\ RunsInv'
<1>1. /\ version' = version /\ erp' = erp /\ tabla' = tabla /\ job' = job /\ limpios' = limpios
      /\ hoy' = hoy + 1 /\ hoy + 1 \in Days
  BY DEF DateTurns
<1>2. hoy' \in Int /\ hoy' - 1 \in Days
  <2>1. hoy \in Int /\ hoy - 1 \in Days
    BY DEF ShownInv
  <2>2. PICK n \in Nat : Days = 1 .. n
    BY DaysType
  <2>3. QED
    BY <1>1, <2>1, <2>2
<1>3. ShownInv'
  BY <1>1, <1>2 DEF ShownInv
<1>4. QED
  BY <1>1, <1>3 DEF LinesInv, CleanInv, RunsInv, Busy

-----------------------------------------------------------------------------
(* The inductive invariant.                                                *)

\* An empty table and no runs.
LEMMA JobsInitIs ==
  ASSUME JobsInit
  PROVE  RotationInv
<1>1. ShownInv
  <2>1. version \in Versions /\ hoy = 2 /\ erp = Inicial
    BY DEF JobsInit
  <2>2. hoy \in Int /\ hoy - 1 \in Days
    BY <2>1, JobsAssumption
  <2>3. /\ Inicial = [e \in Sources |->
                        [docs |-> Inicial[e].docs,
                         resumen |-> [i \in Items |-> [m \in Lapsos |-> Inicial[e].resumen[i][m]]]]]
        /\ \A e \in Sources : IsFiniteSet(Inicial[e].docs)
    <3>1. /\ Inicial = [e \in DOMAIN Inicial |->
                [docs |-> Inicial[e].docs,
                 resumen |-> [i \in Items |-> [m \in Lapsos |-> Inicial[e].resumen[i][m]]]]]
          /\ \A e \in DOMAIN Inicial : IsFiniteSet(Inicial[e].docs)
      BY JobsAssumption
    <3>2. QED
      BY <3>1 DEF Sources
  <2>4. Inicial = [e \in Sources |-> Inicial[e]]
    BY <2>3
  <2>5. \A e \in Sources : ShownOK(e, Inicial[e])
    BY <2>3 DEF ShownOK
  <2>6. QED
    BY <2>1, <2>2, <2>4, <2>5 DEF ShownInv
<1>2. /\ tabla = [e \in Sources |-> [x \in Cells |-> NoRow]]
      /\ job = [p \in Procs |-> Idle] /\ limpios = {}
  BY DEF JobsInit, Sources, Cells
<1>3. LinesInv
  <2>1. tabla = [e \in Sources |-> [x \in Cells |-> tabla[e][x]]]
    BY <1>2
  <2>2. \A e \in Sources, x \in Cells : tabla[e][x] = NoRow
    BY <1>2
  <2>3. QED
    BY <2>1, <2>2 DEF LinesInv
<1>4. CleanInv
  BY <1>2 DEF CleanInv
<1>5. RunsInv
  BY <1>2 DEF RunsInv, Busy
<1>6. QED
  BY <1>1, <1>3, <1>4, <1>5 DEF RotationInv

\* A step of a run that leaves the source and the table alone.
LEMMA TableStays ==
  ASSUME RotationInv, RunsInv', UNCHANGED <<version, hoy, erp, tabla, limpios>>
  PROVE  RotationInv'
  BY DEF RotationInv, ShownInv, LinesInv, CleanInv

\* Every step keeps the invariant.
LEMMA JobsStep ==
  ASSUME RotationInv, JobsNext
  PROVE  RotationInv'
<1> USE DEF RotationInv
<1>1. ASSUME NEW p \in Procs, StartRun(p) PROVE RotationInv'
  <2>1. UNCHANGED <<version, hoy, erp, tabla, limpios>>
    BY <1>1 DEF StartRun
  <2>2. QED
    BY <1>1, <2>1, StartIs, TableStays
<1>2. ASSUME NEW p \in Procs, Connect(p) PROVE RotationInv'
  <2>1. UNCHANGED <<version, hoy, erp, tabla, limpios>>
    BY <1>2 DEF Connect
  <2>2. QED
    BY <1>2, <2>1, ConnectIs, TableStays
<1>3. ASSUME NEW p \in Procs, ReadMonth(p) PROVE RotationInv'
  <2>1. UNCHANGED <<version, hoy, erp, tabla, limpios>>
    BY <1>3 DEF ReadMonth
  <2>2. QED
    BY <1>3, <2>1, ReadMonthIs, TableStays
<1>4. ASSUME NEW p \in Procs, ExtractStep(p) PROVE RotationInv'
  <2>1. UNCHANGED <<version, hoy, erp, tabla, limpios>>
    BY <1>4 DEF ExtractStep
  <2>2. QED
    BY <1>4, <2>1, ExtractIs, TableStays
<1>5. ASSUME NEW p \in Procs, Load(p) PROVE RotationInv'
  <2>1. UNCHANGED <<version, hoy, erp>>
    BY <1>5 DEF Load
  <2>2. ShownInv'
    BY <2>1 DEF ShownInv
  <2>3. QED
    BY <1>5, <2>2, LoadIs
<1>6. ASSUME NEW p \in Procs, Lock(p) PROVE RotationInv'
  <2>1. UNCHANGED <<version, hoy, erp>>
    BY <1>6 DEF Lock
  <2>2. ShownInv'
    BY <2>1 DEF ShownInv
  <2>3. QED
    BY <1>6, <2>2, LockIs
<1>7. ASSUME NEW p \in Procs, Exit(p) PROVE RotationInv'
  <2>1. UNCHANGED <<version, hoy, erp, tabla, limpios>> /\ job' = [job EXCEPT ![p] = Idle]
    BY <1>7 DEF Exit
  <2>2. QED
    BY <2>1, OneRun, TableStays
<1>8. ASSUME NEW p \in Procs, ConnectFails(p) PROVE RotationInv'
  <2>1. UNCHANGED <<version, hoy, erp, tabla, limpios>>
    BY <1>8 DEF ConnectFails
  <2>2. QED
    BY <1>8, <2>1, ConnectFailsIs, TableStays
<1>9. ASSUME NEW p \in Procs, StepFails(p) PROVE RotationInv'
  <2>1. UNCHANGED <<version, hoy, erp, tabla, limpios>>
    BY <1>9 DEF StepFails
  <2>2. QED
    BY <1>9, <2>1, StepFailsIs, TableStays
<1>10. ASSUME NEW p \in Procs, CrashRun(p) PROVE RotationInv'
  <2>1. UNCHANGED <<version, hoy, erp, tabla, limpios>> /\ job' = [job EXCEPT ![p] = Idle]
    BY <1>10 DEF CrashRun
  <2>2. QED
    BY <2>1, OneRun, TableStays
<1>11. CASE PostTicket
  BY <1>11, PostIs
<1>12. CASE SummaryMoves
  BY <1>12, StockMovesIs
<1>13. CASE DateTurns
  BY <1>13, NewDayIs
<1>14. QED
  BY <1>1, <1>2, <1>3, <1>4, <1>5, <1>6, <1>7, <1>8, <1>9, <1>10, <1>11, <1>12, <1>13
     DEF JobsNext, RunSteps

THEOREM RotationInvariant ==
  JobsSpec => []RotationInv
<1>1. JobsInit => RotationInv
  BY JobsInitIs
<1>2. RotationInv /\ [JobsNext]_jobsVars => RotationInv'
  <2>1. SUFFICES ASSUME RotationInv, [JobsNext]_jobsVars PROVE RotationInv'
    OBVIOUS
  <2>2. CASE JobsNext
    BY <2>1, <2>2, JobsStep
  <2>3. CASE UNCHANGED jobsVars
    BY <2>1, <2>3 DEF jobsVars, RotationInv, ShownInv, LinesInv, CleanInv, RunsInv, Busy
  <2>4. QED
    BY <2>1, <2>2, <2>3
<1>3. QED
  BY <1>1, <1>2, PTL DEF JobsSpec

\* PhotoIsOfItsMonth: the month of every photo is the day's or an earlier one
\* with data, of the same year in v3 and v4 (MAX(id_lapso) of the queries; the
\* month that v3's backfill and v4 keep), for any dates and any stock.
THEOREM PhotosAreOfTheirMonth ==
  JobsSpec => []PhotoIsOfItsMonth
<1>1. RotationInv => PhotoIsOfItsMonth
  <2>1. SUFFICES ASSUME RotationInv, version # "inc", NEW e \in DOMAIN tabla,
                        NEW i \in Items, NEW d \in Days, tabla[e][<<i, d>>] # NoRow
                 PROVE  /\ tabla[e][<<i, d>>].foto.lapso <= Lapso[d]
                        /\ version # "v2" => Enero[Lapso[d]] <= tabla[e][<<i, d>>].foto.lapso
                        /\ Existe(Inicial[e], i, Lapso[d]) =>
                                tabla[e][<<i, d>>].foto.lapso = Lapso[d]
    BY DEF PhotoIsOfItsMonth, Exists
  <2> DEFINE x == <<i, d>>
  <2>2. x \in Cells /\ x[1] = i /\ x[2] = d
    BY DEF Cells
  <2>3. e \in Sources
    BY <2>1 DEF RotationInv, LinesInv
  <2>4. LineOK(version, e, erp[e], tabla[e][x]) /\ tabla[e][x].item = i /\ tabla[e][x].day = d
    BY <2>1, <2>2, <2>3 DEF RotationInv, LinesInv
  <2>5. MonthOK(version, e, i, d, tabla[e][x].foto.lapso)
    BY <2>1, <2>4 DEF LineOK
  <2>6. QED
    BY <2>1, <2>5 DEF MonthOK
<1>2. QED
  BY <1>1, RotationInvariant, PTL

\* SalesAreTheErps: where a load committed (load_rows) and no ticket came
\* after its reading, the table has the units of the ERP, with the items and
\* days each program answers for, whatever other runs wrote meanwhile.
THEOREM CleanDaysHaveTheSales ==
  JobsSpec => []SalesAreTheErps
<1>1. RotationInv => SalesAreTheErps
  <2>1. SUFFICES ASSUME RotationInv, NEW e \in DOMAIN tabla, NEW i \in Items, NEW d \in Days,
                        <<e, d>> \in limpios
                 PROVE  LET all == Tickets(erp[e], i, d)
                            ts == IF version = "inc" THEN all ELSE Ventas(erp[e], i, d)
                            meses == {m \in Lapsos : /\ Enero[Lapso[d]] <= m /\ m <= Lapso[d]
                                                     /\ Existe(Inicial[e], i, m)}
                        IN  /\ version \in {"v2", "inc"} =>
                                 /\ ts # {} => Exists(e, i, d)
                                 /\ tabla[e][<<i, d>>].sold = Qty(ts)
                            /\ (/\ version = "v4" /\ i \in Tipo4 /\ meses # {} /\ Maestro[i] # 0
                                /\ Cardinality({t.unit : t \in ts}) <= 1)
                                 => Exists(e, i, d) /\ tabla[e][<<i, d>>].sold = Qty(ts)
    BY DEF SalesAreTheErps
  <2> DEFINE ts == IF version = "inc" THEN Tickets(erp[e], i, d) ELSE Ventas(erp[e], i, d)
             meses == {m \in Lapsos : /\ Enero[Lapso[d]] <= m /\ m <= Lapso[d]
                                      /\ Existe(Inicial[e], i, m)}
             x == <<i, d>>
  <2>2. ts = Sold(version, erp[e], i, d) /\ meses = LinesOfYear(e, i, d)
    BY DEF Sold, LinesOfYear
  <2>3. Exists(e, i, d) <=> tabla[e][x] # NoRow
    BY DEF Exists
  <2>4. x \in Cells /\ x[1] = i /\ x[2] = d
    BY DEF Cells
  <2>5. e \in Sources
    BY <2>1 DEF RotationInv, LinesInv
  <2>6. Answers(version, e, erp[e], i, d) =>
            /\ version = "v4" \/ Sold(version, erp[e], i, d) # {} => tabla[e][x] # NoRow
            /\ tabla[e][x].sold = Qty(Sold(version, erp[e], i, d))
    BY <2>1, <2>4, <2>5 DEF RotationInv, CleanInv
  <2> HIDE DEF ts, meses
  <2>7. /\ version \in {"v2", "inc"} =>
              /\ ts # {} => Exists(e, i, d)
              /\ tabla[e][<<i, d>>].sold = Qty(ts)
        /\ (/\ version = "v4" /\ i \in Tipo4 /\ meses # {} /\ Maestro[i] # 0
            /\ Cardinality({t.unit : t \in ts}) <= 1)
              => Exists(e, i, d) /\ tabla[e][<<i, d>>].sold = Qty(ts)
    BY <2>2, <2>3, <2>6 DEF Answers, StartsFromSales
  <2>8. QED
    BY <2>7 DEF ts, meses
<1>2. QED
  BY <1>1, RotationInvariant, PTL

\* LockedPhotoStays: v3 and v4's CASE WHEN inv_foto_bloqueada keeps a locked
\* photo through every later load, in any mode and by any process.
THEOREM LockedPhotosStay ==
  JobsSpec => LockedPhotoStays
<1>1. RotationInv /\ [JobsNext]_jobsVars => [(version \in {"v3", "v4"}) => PhotoKept]_jobsVars
  <2>1. SUFFICES ASSUME RotationInv, JobsNext, version \in {"v3", "v4"}, NEW e \in DOMAIN tabla,
                        NEW x \in Items \X Days, tabla[e][x] # NoRow, tabla[e][x].bloqueada
                 PROVE  /\ tabla'[e][x] # NoRow /\ tabla'[e][x].bloqueada
                        /\ tabla'[e][x].foto = tabla[e][x].foto
    BY DEF PhotoKept
  <2>2. LinesInv /\ RunsInv /\ e \in Sources /\ x \in Cells
    BY <2>1 DEF RotationInv, LinesInv, Cells
  <2>3. LineOK(version, e, erp[e], tabla[e][x]) /\ IsLine(tabla[e][x])
    BY <2>1, <2>2 DEF LinesInv, LineOK
  <2>4. ASSUME NEW p \in Procs, Load(p)
        PROVE  /\ tabla'[e][x] # NoRow /\ tabla'[e][x].bloqueada
               /\ tabla'[e][x].foto = tabla[e][x].foto
    <3> DEFINE up == Head(job[p].prog).upsert
               old == tabla[e][x]
               new == tabla'[e][x]
    <3>1. \/ new = old
          \/ \E r \in job[p].lote : new = Upsert(up, old, r) /\ e = job[p].emp
      BY <2>1, <2>2, <2>4, LoadCells
    <3>2. ASSUME NEW r \in job[p].lote, new = Upsert(up, old, r)
          PROVE  IsLine(new) /\ new.bloqueada /\ new.foto = old.foto
      <4>1. IsLine(r)
        BY <2>2, <2>4, <3>2, LoadCells DEF RunOK, LineOK
      <4>2. version \in Versions /\ old.bloqueada /\ IsLine(old)
        BY <2>1, <2>3 DEF RotationInv, ShownInv
      <4> HIDE DEF up, old, new
      <4>3. /\ IsLine(new)
            /\ version \in {"v3", "v4"} /\ old.bloqueada =>
                    new.foto = old.foto /\ new.bloqueada
        BY <3>2, <4>1, <4>2, UpsertIs
      <4>4. QED
        BY <2>1, <4>2, <4>3
    <3>3. QED
      BY <2>1, <3>1, <3>2, LinesAreRows
  <2>5. ASSUME NEW p \in Procs, Lock(p)
        PROVE  /\ tabla'[e][x] # NoRow /\ tabla'[e][x].bloqueada
               /\ tabla'[e][x].foto = tabla[e][x].foto
    <3>1. tabla'[e][x] = tabla[e][x] \/ tabla'[e][x] = [tabla[e][x] EXCEPT !.bloqueada = TRUE]
      BY <2>2, <2>5, LockCells
    <3>2. CASE tabla'[e][x] = [tabla[e][x] EXCEPT !.bloqueada = TRUE]
      <4>1. /\ IsLine(tabla'[e][x]) /\ tabla'[e][x].bloqueada
            /\ tabla'[e][x].foto = tabla[e][x].foto
        BY <2>3, <3>2, LockedIs
      <4>2. QED
        BY <4>1, LinesAreRows
    <3>3. QED
      BY <2>1, <3>1, <3>2
  <2>6. (\E p \in Procs : Load(p) \/ Lock(p)) \/ tabla' = tabla
    BY <2>1 DEF JobsNext, RunSteps, StartRun, Connect, ReadMonth, ExtractStep, Exit,
                ConnectFails, StepFails, CrashRun, PostTicket, SummaryMoves, DateTurns
  <2>7. QED
    BY <2>1, <2>4, <2>5, <2>6
<1>2. QED
  BY <1>1, RotationInvariant, PTL DEF JobsSpec, LockedPhotoStays

\* RollingKeepsPhotos: the rolling mode of every program writes with
\* UPSERT_VENTAS_SQL, and the photos of the rows that are there stay.
THEOREM RollingKeepsThePhotos ==
  JobsSpec => RollingKeepsPhotos
<1> DEFINE Kept == \A p \in Procs : \A e \in DOMAIN tabla : \A x \in Items \X Days :
              (Busy(p) /\ job[p].mode = "rolling" /\ Load(p) /\ tabla[e][x] # NoRow)
                  => tabla'[e][x].foto = tabla[e][x].foto
<1>1. RotationInv => Kept
  <2>1. SUFFICES ASSUME RotationInv, NEW p \in Procs, NEW e \in DOMAIN tabla,
                        NEW x \in Items \X Days, job[p].mode = "rolling", Load(p),
                        tabla[e][x] # NoRow
                 PROVE  tabla'[e][x].foto = tabla[e][x].foto
    OBVIOUS
  <2> DEFINE up == Head(job[p].prog).upsert
             old == tabla[e][x]
             new == tabla'[e][x]
  <2>2. LinesInv /\ RunsInv /\ e \in Sources /\ x \in Cells
    BY <2>1 DEF RotationInv, LinesInv, Cells
  <2>3. RunOK(version, job[p], erp) /\ job[p].pc = "commit"
    BY <2>1, <2>2, LoadCells
  <2>4. up = "ventas"
    <3>1. StepOK(version, job[p].mode, Head(job[p].prog))
      BY <2>3, ProgStep DEF RunOK
    <3>2. QED
      BY <2>1, <3>1 DEF StepOK
  <2>5. \/ new = old
        \/ \E r \in job[p].lote : new = Upsert(up, old, r)
    BY <2>1, <2>2, LoadCells
  <2>6. ASSUME NEW r \in job[p].lote, new = Upsert(up, old, r) PROVE new.foto = old.foto
    <3>1. IsLine(r) /\ IsLine(old) /\ version \in Versions
      BY <2>1, <2>2, <2>3, <2>6 DEF RunOK, LineOK, LinesInv, RotationInv, ShownInv
    <3> HIDE DEF up, old, new
    <3>2. QED
      BY <2>4, <2>6, <3>1, UpsertIs
  <2>7. QED
    BY <2>5, <2>6
<1>2. RotationInv /\ [JobsNext]_jobsVars => [Kept]_jobsVars
  BY <1>1
<1>3. QED
  BY <1>2, RotationInvariant, PTL DEF JobsSpec, RollingKeepsPhotos

-----------------------------------------------------------------------------
(* The companies of a run.                                                 *)

\* A list names a company once.
OnceEach(L) == \A k, l \in 1 .. Len(L) : L[k] = L[l] => k = l

\* The first n of a list.
FirstOf(L, n) == {L[k] : k \in 1 .. n}

\* A list that names each once has as many members as places.
LEMMA FirstOfIs ==
  ASSUME NEW S, NEW L \in Seq(S), OnceEach(L), NEW n \in 0 .. Len(L)
  PROVE  IsFiniteSet(FirstOf(L, n)) /\ Cardinality(FirstOf(L, n)) = n
<1>1. n \in Nat /\ Len(L) \in Nat /\ n <= Len(L)
  OBVIOUS
<1> DEFINE f == [k \in 1 .. n |-> L[k]]
<1>2. f \in Surjection(1 .. n, FirstOf(L, n))
  BY DEF Surjection, FirstOf
<1>3. f \in Injection(1 .. n, FirstOf(L, n))
  <2>1. \A k, l \in 1 .. n : L[k] = L[l] => k = l
    BY <1>1 DEF OnceEach
  <2>2. QED
    BY <2>1 DEF Injection, IsInjective, FirstOf
<1>4. IsFiniteSet(1 .. n) /\ Cardinality(1 .. n) = n
  BY <1>1, FS_Interval
<1> HIDE DEF f
<1>5. QED
  BY <1>2, <1>3, <1>4, FS_Surjection

\* Of the companies a run has begun, each was loaded or is an error, but for
\* the one in hand.
AccountOK(L, j) ==
    \E n \in 0 .. Len(L) :
        /\ Len(j.todo) = Len(L) - n
        /\ \A k \in 1 .. Len(j.todo) : j.todo[k] = L[n + k]
        /\ j.errores \in Nat /\ IsFiniteSet(j.cargadas)
        /\ IF j.pc = "next"
           THEN /\ j.cargadas \subseteq FirstOf(L, n)
                /\ Cardinality(j.cargadas) + j.errores = n
           ELSE /\ n # 0 /\ j.emp = L[n]
                /\ j.cargadas \subseteq FirstOf(L, n - 1)
                /\ Cardinality(j.cargadas) + j.errores = n - 1

\* What a run that ended says.
SaidOK(s) ==
    s.code # -1 => /\ Cardinality(s.cargadas) + s.errores = Cardinality(s.lista)
                   /\ s.code = 0 <=> s.cargadas = s.lista

AccountsInv ==
    /\ salida = [p \in Procs |-> salida[p]]
    /\ \A p \in Procs : SaidOK(salida[p])
    /\ \A p \in Procs : Busy(p) => AccountOK(Listas[p], job[p])

ListsAreSets == \A p \in Procs : OnceEach(Listas[p])

\* One run takes a step and the accounts of the others are as they were.
LEMMA OneAccount ==
  ASSUME RunsInv, AccountsInv, NEW p \in Procs, NEW j, job' = [job EXCEPT ![p] = j],
         salida' = salida, j # Idle => AccountOK(Listas[p], j)
  PROVE  AccountsInv'
<1>1. job' = [q \in Procs |-> IF q = p THEN j ELSE job[q]]
  BY DEF RunsInv
<1>2. ASSUME NEW q \in Procs, job'[q] # Idle PROVE AccountOK(Listas[q], job'[q])
  BY <1>1, <1>2 DEF AccountsInv, Busy
<1>3. QED
  BY <1>2 DEF AccountsInv, Busy

\* Reading and merging change neither the list nor the counts.
LEMMA SameAccount ==
  ASSUME NEW L, NEW j, NEW k, AccountOK(L, j), k.todo = j.todo, k.errores = j.errores,
         k.cargadas = j.cargadas, k.emp = j.emp, k.pc = "next" <=> j.pc = "next"
  PROVE  AccountOK(L, k)
  BY DEF AccountOK

\* The company in hand is loaded to its end.
LEMMA LoadedAccount ==
  ASSUME NEW S, NEW L \in Seq(S), OnceEach(L), NEW j, NEW k, AccountOK(L, j),
         j.pc # "next", k.pc = "next", k.todo = j.todo, k.errores = j.errores,
         k.cargadas = j.cargadas \cup {j.emp}
  PROVE  AccountOK(L, k)
<1>1. PICK n \in 0 .. Len(L) :
        /\ Len(j.todo) = Len(L) - n
        /\ \A i \in 1 .. Len(j.todo) : j.todo[i] = L[n + i]
        /\ j.errores \in Nat /\ IsFiniteSet(j.cargadas)
        /\ n # 0 /\ j.emp = L[n]
        /\ j.cargadas \subseteq FirstOf(L, n - 1)
        /\ Cardinality(j.cargadas) + j.errores = n - 1
  BY DEF AccountOK
<1>2. n \in Nat /\ Len(L) \in Nat /\ n <= Len(L) /\ n \in 1 .. n
  BY <1>1
<1>3. L[n] \notin FirstOf(L, n - 1)
  BY <1>2 DEF FirstOf, OnceEach
<1>4. /\ IsFiniteSet(k.cargadas)
      /\ Cardinality(k.cargadas) = Cardinality(j.cargadas) + 1
  <2>1. L[n] \notin j.cargadas
    BY <1>1, <1>3
  <2> DEFINE A == j.cargadas
             y == L[n]
  <2>2. IsFiniteSet(A) /\ y \notin A /\ k.cargadas = A \cup {y}
    BY <1>1, <2>1
  <2> HIDE DEF A, y
  <2>3. IsFiniteSet(k.cargadas) /\ Cardinality(k.cargadas) = Cardinality(A) + 1
    BY <2>2, FS_AddElement
  <2>4. QED
    BY <2>3 DEF A
<1>5. k.cargadas \subseteq FirstOf(L, n)
  <2>1. FirstOf(L, n - 1) \subseteq FirstOf(L, n) /\ L[n] \in FirstOf(L, n)
    BY <1>2 DEF FirstOf
  <2>2. QED
    BY <1>1, <2>1
<1>6. Cardinality(k.cargadas) + k.errores = n
  <2>1. Cardinality(j.cargadas) \in Nat
    BY <1>1, FS_CardinalityType
  <2>2. QED
    BY <1>1, <1>2, <1>4, <2>1
<1>7. QED
  BY <1>1, <1>4, <1>5, <1>6 DEF AccountOK

\* The company in hand, or the next one, is an error.
LEMMA FailedAccount ==
  ASSUME NEW S, NEW L \in Seq(S), NEW j, NEW k, AccountOK(L, j),
         j.pc # "next", k.pc = "next", k.todo = j.todo, k.errores = j.errores + 1,
         k.cargadas = j.cargadas
  PROVE  AccountOK(L, k)
<1>1. PICK n \in 0 .. Len(L) :
        /\ Len(j.todo) = Len(L) - n
        /\ \A i \in 1 .. Len(j.todo) : j.todo[i] = L[n + i]
        /\ j.errores \in Nat /\ IsFiniteSet(j.cargadas)
        /\ n # 0 /\ j.emp = L[n]
        /\ j.cargadas \subseteq FirstOf(L, n - 1)
        /\ Cardinality(j.cargadas) + j.errores = n - 1
  BY DEF AccountOK
<1>2. n \in Nat /\ Len(L) \in Nat /\ Cardinality(j.cargadas) \in Nat
  BY <1>1, FS_CardinalityType
<1>3. FirstOf(L, n - 1) \subseteq FirstOf(L, n)
  BY <1>2 DEF FirstOf
<1>4. k.errores \in Nat /\ Cardinality(k.cargadas) + k.errores = n
  <2> DEFINE c == Cardinality(j.cargadas)
             r == j.errores
  <2>1. c \in Nat /\ r \in Nat /\ n \in Nat /\ c + r = n - 1
    BY <1>1, <1>2
  <2>2. Cardinality(k.cargadas) = c /\ k.errores = r + 1
    OBVIOUS
  <2> HIDE DEF c, r
  <2>3. QED
    BY <2>1, <2>2
<1>5. QED
  BY <1>1, <1>3, <1>4 DEF AccountOK

\* The next company is begun, or it is an error.
LEMMA NextAccount ==
  ASSUME NEW S, NEW L \in Seq(S), NEW j, NEW k, AccountOK(L, j), j.pc = "next",
         j.todo \in Seq(S), j.todo # <<>>, k.todo = Tail(j.todo), k.cargadas = j.cargadas,
         \/ k.pc = "next" /\ k.errores = j.errores + 1
         \/ k.pc # "next" /\ k.errores = j.errores /\ k.emp = Head(j.todo)
  PROVE  AccountOK(L, k)
<1>1. PICK n \in 0 .. Len(L) :
        /\ Len(j.todo) = Len(L) - n
        /\ \A i \in 1 .. Len(j.todo) : j.todo[i] = L[n + i]
        /\ j.errores \in Nat /\ IsFiniteSet(j.cargadas)
        /\ j.cargadas \subseteq FirstOf(L, n)
        /\ Cardinality(j.cargadas) + j.errores = n
  BY DEF AccountOK
<1>2. /\ n \in Nat /\ Len(L) \in Nat /\ Len(j.todo) \in Nat \ {0}
      /\ Cardinality(j.cargadas) \in Nat
  BY <1>1, FS_CardinalityType
<1>3. /\ Len(k.todo) = Len(j.todo) - 1 /\ Head(j.todo) = j.todo[1]
      /\ \A i \in 1 .. Len(k.todo) : k.todo[i] = j.todo[i + 1]
  OBVIOUS
<1>4. n + 1 \in 0 .. Len(L) /\ Len(k.todo) = Len(L) - (n + 1)
  BY <1>1, <1>2, <1>3
<1>5. \A i \in 1 .. Len(k.todo) : k.todo[i] = L[(n + 1) + i]
  <2>1. ASSUME NEW i \in 1 .. Len(k.todo) PROVE k.todo[i] = L[(n + 1) + i]
    <3>1. i + 1 \in 1 .. Len(j.todo) /\ n + (i + 1) = (n + 1) + i
      BY <1>2, <1>3
    <3>2. QED
      BY <1>1, <1>3, <3>1
  <2>2. QED
    BY <2>1
<1>6. Head(j.todo) = L[n + 1]
  <2>1. 1 \in 1 .. Len(j.todo)
    BY <1>2
  <2>2. QED
    BY <1>1, <1>3, <2>1
<1>7. FirstOf(L, n) \subseteq FirstOf(L, n + 1)
  BY <1>2 DEF FirstOf
<1>8. (n + 1) - 1 = n /\ n + 1 # 0
  BY <1>2
<1>9. k.errores \in Nat
  BY <1>1
<1>10. CASE k.pc = "next" /\ k.errores = j.errores + 1
  <2>1. Cardinality(k.cargadas) + k.errores = n + 1
    BY <1>1, <1>2, <1>10
  <2>2. QED
    BY <1>1, <1>4, <1>5, <1>7, <1>9, <1>10, <2>1 DEF AccountOK
<1>11. CASE k.pc # "next" /\ k.errores = j.errores /\ k.emp = Head(j.todo)
  BY <1>1, <1>4, <1>5, <1>6, <1>8, <1>9, <1>11 DEF AccountOK
<1>12. QED
  BY <1>10, <1>11

\* A step ends: of the company in hand, or with it the company.
LEMMA AdvanceAccount ==
  ASSUME NEW S, NEW L \in Seq(S), OnceEach(L), NEW j, IsRun(j), AccountOK(L, j), j.pc # "next"
  PROVE  AccountOK(L, Advance(j))
<1>1. CASE Len(j.prog) > 1
  <2> DEFINE k == [j EXCEPT !.pc = "step", !.prog = Tail(j.prog), !.lote = {}]
  <2>1. Advance(j) = k
    BY <1>1 DEF Advance
  <2>2. /\ k.pc = "step" /\ k.todo = j.todo /\ k.errores = j.errores
        /\ k.cargadas = j.cargadas /\ k.emp = j.emp
    BY DEF IsRun, RunFields
  <2> HIDE DEF k
  <2>3. AccountOK(L, k)
    BY <2>2, SameAccount
  <2>4. QED
    BY <2>1, <2>3
<1>2. CASE ~ Len(j.prog) > 1
  <2> DEFINE k == [j EXCEPT !.pc = "next", !.prog = <<>>, !.lote = {}, !.cache = NoCache,
                            !.cargadas = j.cargadas \cup {j.emp}]
  <2>1. Advance(j) = k
    BY <1>2 DEF Advance
  <2>2. /\ k.pc = "next" /\ k.todo = j.todo /\ k.errores = j.errores
        /\ k.cargadas = j.cargadas \cup {j.emp}
    BY DEF IsRun, RunFields
  <2> HIDE DEF k
  <2>3. AccountOK(L, k)
    BY <2>2, LoadedAccount
  <2>4. QED
    BY <2>1, <2>3
<1>3. QED
  BY <1>1, <1>2

\* A run that ends has an entry for each of its companies.
LEMMA ExitSays ==
  ASSUME NEW S, NEW L \in Seq(S), OnceEach(L), NEW j, AccountOK(L, j), j.pc = "next",
         j.todo = <<>>, NEW s,
         s = [cargadas |-> j.cargadas, errores |-> j.errores,
              lista |-> {L[k] : k \in 1 .. Len(L)},
              code |-> IF j.errores = 0 THEN 0 ELSE 1]
  PROVE  SaidOK(s)
<1>1. PICK n \in 0 .. Len(L) :
        /\ Len(j.todo) = Len(L) - n
        /\ j.errores \in Nat /\ IsFiniteSet(j.cargadas)
        /\ j.cargadas \subseteq FirstOf(L, n)
        /\ Cardinality(j.cargadas) + j.errores = n
  BY DEF AccountOK
<1> DEFINE lista == FirstOf(L, Len(L))
           c == Cardinality(j.cargadas)
           r == j.errores
<1>2. n = Len(L) /\ Len(L) \in Nat
  BY <1>1
<1>3. IsFiniteSet(lista) /\ Cardinality(lista) = Len(L)
  BY <1>2, FirstOfIs
<1>4. c \in Nat /\ r \in Nat /\ c + r = Len(L)
  BY <1>1, <1>2, FS_CardinalityType
<1>5. j.cargadas \subseteq lista
  BY <1>1, <1>2
<1>6. r = 0 <=> j.cargadas = lista
  <2>1. ASSUME r = 0 PROVE j.cargadas = lista
    <3>1. c = Cardinality(lista)
      BY <1>3, <1>4, <2>1
    <3>2. QED
      BY <1>3, <1>5, <3>1, FS_Subset
  <2>2. ASSUME j.cargadas = lista PROVE r = 0
    <3>1. c = Len(L)
      BY <1>3, <2>2
    <3> HIDE DEF c, r
    <3>2. QED
      BY <1>4, <3>1
  <2>3. QED
    BY <2>1, <2>2
<1>7. s.cargadas = j.cargadas /\ s.errores = r /\ s.lista = lista /\ s.code = IF r = 0 THEN 0 ELSE 1
  BY DEF FirstOf
<1>8. Cardinality(s.cargadas) + s.errores = Cardinality(s.lista)
  BY <1>3, <1>4, <1>7
<1>9. s.code = 0 <=> s.cargadas = s.lista
  <2> HIDE DEF c, r, lista
  <2>1. CASE r = 0
    <3>1. s.code = 0 /\ s.cargadas = s.lista
      BY <1>6, <1>7, <2>1
    <3>2. QED
      BY <3>1
  <2>2. CASE r # 0
    <3>1. s.code = 1 /\ s.cargadas # s.lista
      BY <1>6, <1>7, <2>2
    <3>2. QED
      BY <3>1
  <2>3. QED
    BY <2>1, <2>2
<1>10. QED
  BY <1>8, <1>9 DEF SaidOK

\* No run, nothing said.
LEMMA AccountsInit ==
  ASSUME JobsInit
  PROVE  AccountsInv
<1>1. salida = [p \in Procs |-> Nothing] /\ job = [p \in Procs |-> Idle]
  BY DEF JobsInit
<1>2. SaidOK(Nothing)
  BY DEF Nothing, SaidOK
<1>3. QED
  BY <1>1, <1>2 DEF AccountsInv, Busy

\* Every step keeps the accounts.
LEMMA AccountsStep ==
  ASSUME ListsAreSets, RotationInv, AccountsInv, JobsNext
  PROVE  AccountsInv'
<1>1. RunsInv
  BY DEF RotationInv
<1>2. ASSUME NEW p \in Procs
      PROVE  /\ Listas[p] \in Seq(Sources) /\ OnceEach(Listas[p])
             /\ Busy(p) => /\ IsRun(job[p]) /\ job[p].todo \in Seq(Sources)
                             /\ AccountOK(Listas[p], job[p])
  BY <1>1, JobsAssumption DEF ListsAreSets, Sources, RunsInv, RunOK, AccountsInv
<1>3. ASSUME NEW p \in Procs, StartRun(p) PROVE AccountsInv'
  <2>1. PICK mode, desde, hasta :
          job' = [job EXCEPT ![p] =
                [pc |-> "next", mode |-> mode, desde |-> desde, hasta |-> hasta,
                 todo |-> Listas[p], emp |-> "none", prog |-> <<>>, cache |-> NoCache,
                 lote |-> {}, visto |-> TRUE, cargadas |-> {}, errores |-> 0]]
    BY <1>3 DEF StartRun
  <2> DEFINE j == [pc |-> "next", mode |-> mode, desde |-> desde, hasta |-> hasta,
                   todo |-> Listas[p], emp |-> "none", prog |-> <<>>, cache |-> NoCache,
                   lote |-> {}, visto |-> TRUE, cargadas |-> {}, errores |-> 0]
             L == Listas[p]
  <2>2. salida' = [salida EXCEPT ![p] = Nothing] /\ job' = [job EXCEPT ![p] = j]
    BY <1>3, <2>1 DEF StartRun
  <2>3. /\ j.pc = "next" /\ j.todo = L /\ j.cargadas = {} /\ j.errores = 0
    OBVIOUS
  <2> HIDE DEF j
  <2>4. AccountOK(L, j)
    <3>1. L \in Seq(Sources) /\ Len(L) \in Nat
      BY <1>2
    <3>2. IsFiniteSet({}) /\ Cardinality({}) = 0
      BY FS_EmptySet
    <3> HIDE DEF L
    <3>3. 0 \in 0 .. Len(L) /\ Len(L) = Len(L) - 0 /\ \A k \in 1 .. Len(L) : L[k] = L[0 + k]
      BY <3>1
    <3>4. /\ Len(j.todo) = Len(L) - 0
          /\ \A k \in 1 .. Len(j.todo) : j.todo[k] = L[0 + k]
      BY <2>3, <3>3
    <3>5. /\ j.errores \in Nat /\ IsFiniteSet(j.cargadas)
          /\ j.cargadas \subseteq FirstOf(L, 0)
          /\ Cardinality(j.cargadas) + j.errores = 0
      BY <2>3, <3>2
    <3>6. QED
      BY <2>3, <3>3, <3>4, <3>5 DEF AccountOK
  <2>5. SaidOK(Nothing)
    BY DEF Nothing, SaidOK
  <2>6. /\ job' = [q \in Procs |-> IF q = p THEN j ELSE job[q]]
        /\ salida' = [q \in Procs |-> IF q = p THEN Nothing ELSE salida[q]]
    BY <1>1, <2>2 DEF RunsInv, AccountsInv
  <2>7. ASSUME NEW q \in Procs PROVE SaidOK(salida'[q])
    BY <2>5, <2>6 DEF AccountsInv
  <2>8. ASSUME NEW q \in Procs, job'[q] # Idle PROVE AccountOK(Listas[q], job'[q])
    BY <2>4, <2>6, <2>8 DEF AccountsInv, Busy
  <2>9. salida' = [q \in Procs |-> salida'[q]]
    BY <2>6
  <2>10. QED
    BY <2>7, <2>8, <2>9 DEF AccountsInv, Busy
<1>4. ASSUME NEW p \in Procs, Connect(p) PROVE AccountsInv'
  <2> DEFINE a == job[p]
             L == Listas[p]
             prog == Program(a.mode, a.desde, a.hasta)
             j == [a EXCEPT !.pc = "step", !.emp = Head(a.todo), !.todo = Tail(a.todo),
                            !.prog = prog]
  <2>1. job' = [job EXCEPT ![p] = j] /\ salida' = salida
    BY <1>4 DEF Connect
  <2>2. Busy(p) /\ a.pc = "next" /\ a.todo # <<>>
    BY <1>4 DEF Connect
  <2>3. IsRun(a) /\ a.todo \in Seq(Sources) /\ AccountOK(L, a) /\ L \in Seq(Sources)
    BY <1>2, <2>2
  <2> HIDE DEF prog
  <2>4. /\ j.pc = "step" /\ j.emp = Head(a.todo) /\ j.todo = Tail(a.todo)
        /\ j.errores = a.errores /\ j.cargadas = a.cargadas
    BY <2>3 DEF IsRun, RunFields
  <2> HIDE DEF j, a, L
  <2>5. AccountOK(L, j)
    <3>1. j.pc # "next"
      BY <2>4
    <3>2. QED
      BY <2>2, <2>3, <2>4, <3>1, NextAccount
  <2>6. QED
    BY <1>1, <2>1, <2>5, OneAccount DEF L
<1>5. ASSUME NEW p \in Procs, ConnectFails(p) PROVE AccountsInv'
  <2> DEFINE a == job[p]
             L == Listas[p]
             j == [a EXCEPT !.todo = Tail(a.todo), !.errores = a.errores + 1]
  <2>1. job' = [job EXCEPT ![p] = j] /\ salida' = salida
    BY <1>5 DEF ConnectFails
  <2>2. Busy(p) /\ a.pc = "next" /\ a.todo # <<>>
    BY <1>5 DEF ConnectFails
  <2>3. IsRun(a) /\ a.todo \in Seq(Sources) /\ AccountOK(L, a) /\ L \in Seq(Sources)
    BY <1>2, <2>2
  <2>4. /\ j.pc = "next" /\ j.todo = Tail(a.todo)
        /\ j.errores = a.errores + 1 /\ j.cargadas = a.cargadas
    BY <2>2, <2>3 DEF IsRun, RunFields
  <2> HIDE DEF j, a, L
  <2>5. AccountOK(L, j)
    BY <2>2, <2>3, <2>4, NextAccount
  <2>6. QED
    BY <1>1, <2>1, <2>5, OneAccount DEF L
<1>6. ASSUME NEW p \in Procs, ReadMonth(p) \/ ExtractStep(p) PROVE AccountsInv'
  <2> DEFINE a == job[p]
  <2>1. Busy(p) /\ a.pc = "step" /\ salida' = salida
    BY <1>6 DEF ReadMonth, ExtractStep, Ready
  <2>2. IsRun(a) /\ AccountOK(Listas[p], a)
    BY <1>2, <2>1
  <2>3. \E j : /\ job' = [job EXCEPT ![p] = j]
               /\ j.pc # "next" /\ j.todo = a.todo /\ j.errores = a.errores
               /\ j.cargadas = a.cargadas /\ j.emp = a.emp
    <3>1. CASE ReadMonth(p)
      <4> DEFINE c == MonthReading(a.emp, Lapso[Step(p).desde])
                 j == [a EXCEPT !.cache = c]
      <4>1. job' = [job EXCEPT ![p] = j]
        BY <1>1, <3>1 DEF ReadMonth, RunsInv
      <4> HIDE DEF c
      <4>2. /\ j.pc # "next" /\ j.todo = a.todo /\ j.errores = a.errores
            /\ j.cargadas = a.cargadas /\ j.emp = a.emp
        BY <2>1, <2>2 DEF IsRun, RunFields
      <4> HIDE DEF j
      <4>3. QED
        BY <4>1, <4>2
    <3>2. CASE ExtractStep(p)
      <4>1. PICK lote : job' = [job EXCEPT ![p] =
                [a EXCEPT !.pc = "commit", !.lote = lote, !.visto = TRUE]]
        BY <1>1, <3>2 DEF ExtractStep, RunsInv
      <4> DEFINE j == [a EXCEPT !.pc = "commit", !.lote = lote, !.visto = TRUE]
      <4>2. /\ j.pc # "next" /\ j.todo = a.todo /\ j.errores = a.errores
            /\ j.cargadas = a.cargadas /\ j.emp = a.emp
        BY <2>2 DEF IsRun, RunFields
      <4>3. job' = [job EXCEPT ![p] = j]
        BY <4>1
      <4> HIDE DEF j
      <4>4. QED
        BY <4>2, <4>3
    <3>3. QED
      BY <1>6, <3>1, <3>2
  <2>4. PICK j : /\ job' = [job EXCEPT ![p] = j]
                 /\ j.pc # "next" /\ j.todo = a.todo /\ j.errores = a.errores
                 /\ j.cargadas = a.cargadas /\ j.emp = a.emp
    BY <2>3
  <2>5. AccountOK(Listas[p], j)
    <3>1. a.pc # "next"
      BY <2>1
    <3> HIDE DEF a
    <3>2. QED
      BY <2>2, <2>4, <3>1, SameAccount
  <2>6. QED
    BY <1>1, <2>1, <2>4, <2>5, OneAccount
<1>7. ASSUME NEW p \in Procs, Load(p) \/ Lock(p) PROVE AccountsInv'
  <2> DEFINE a == job[p]
             L == Listas[p]
  <2>1. /\ Busy(p) /\ a.pc # "next" /\ salida' = salida
        /\ job' = [job EXCEPT ![p] = Advance(a)]
    BY <1>1, <1>7 DEF Load, Lock, Ready, RunsInv
  <2>2. IsRun(a) /\ AccountOK(L, a) /\ L \in Seq(Sources) /\ OnceEach(L)
    BY <1>2, <2>1
  <2>3. AccountOK(L, Advance(a))
    <3> HIDE DEF a, L
    <3>1. QED
      BY <2>1, <2>2, AdvanceAccount
  <2>4. QED
    BY <1>1, <2>1, <2>3, OneAccount
<1>8. ASSUME NEW p \in Procs, StepFails(p) PROVE AccountsInv'
  <2> DEFINE a == job[p]
             L == Listas[p]
             j == [a EXCEPT !.pc = "next", !.prog = <<>>, !.lote = {}, !.cache = NoCache,
                            !.errores = a.errores + 1]
  <2>1. /\ Busy(p) /\ a.pc # "next" /\ salida' = salida
        /\ job' = [job EXCEPT ![p] = j]
    BY <1>1, <1>8 DEF StepFails, GiveUp, RunsInv
  <2>2. IsRun(a) /\ AccountOK(L, a) /\ L \in Seq(Sources)
    BY <1>2, <2>1
  <2>3. /\ j.pc = "next" /\ j.todo = a.todo /\ j.errores = a.errores + 1
        /\ j.cargadas = a.cargadas
    BY <2>2 DEF IsRun, RunFields
  <2> HIDE DEF j, a, L
  <2>4. AccountOK(L, j)
    BY <2>1, <2>2, <2>3, FailedAccount
  <2>5. QED
    BY <1>1, <2>1, <2>4, OneAccount DEF L
<1>9. ASSUME NEW p \in Procs, Exit(p) PROVE AccountsInv'
  <2> DEFINE a == job[p]
             L == Listas[p]
             s == [cargadas |-> a.cargadas, errores |-> a.errores,
                   lista |-> {L[k] : k \in 1 .. Len(L)},
                   code |-> IF a.errores = 0 THEN 0 ELSE 1]
  <2>1. /\ Busy(p) /\ a.pc = "next" /\ a.todo = <<>>
        /\ salida' = [salida EXCEPT ![p] = s] /\ job' = [job EXCEPT ![p] = Idle]
    BY <1>9 DEF Exit
  <2>2. AccountOK(L, a) /\ L \in Seq(Sources) /\ OnceEach(L)
    BY <1>2, <2>1
  <2>3. \A t : t = s => SaidOK(t)
    <3> HIDE DEF a, L
    <3>1. QED
      BY <2>1, <2>2, ExitSays
  <2>4. SaidOK(s)
    BY <2>3
  <2> HIDE DEF s
  <2>5. /\ job' = [q \in Procs |-> IF q = p THEN Idle ELSE job[q]]
        /\ salida' = [q \in Procs |-> IF q = p THEN s ELSE salida[q]]
    BY <1>1, <2>1 DEF RunsInv, AccountsInv
  <2>6. ASSUME NEW q \in Procs PROVE SaidOK(salida'[q])
    BY <2>4, <2>5 DEF AccountsInv
  <2>7. ASSUME NEW q \in Procs, job'[q] # Idle PROVE AccountOK(Listas[q], job'[q])
    BY <2>5, <2>7 DEF AccountsInv, Busy
  <2>8. salida' = [q \in Procs |-> salida'[q]]
    BY <2>5
  <2>9. QED
    BY <2>6, <2>7, <2>8 DEF AccountsInv, Busy
<1>10. ASSUME NEW p \in Procs, CrashRun(p) PROVE AccountsInv'
  <2>1. job' = [job EXCEPT ![p] = Idle] /\ salida' = salida
    BY <1>10 DEF CrashRun
  <2>2. QED
    BY <1>1, <2>1, OneAccount
<1>11. CASE PostTicket
  <2>1. salida' = salida
    BY <1>11 DEF PostTicket
  <2>2. /\ job' = [p \in Procs |-> job'[p]]
        /\ \A p \in Procs : job'[p] = job[p] \/ (Busy(p) /\ job'[p] = [job[p] EXCEPT !.visto = FALSE])
    BY <1>11 DEF PostTicket
  <2>3. ASSUME NEW p \in Procs, job'[p] # Idle PROVE AccountOK(Listas[p], job'[p])
    <3>1. CASE job'[p] = job[p]
      BY <2>3, <3>1 DEF AccountsInv, Busy
    <3>2. CASE Busy(p) /\ job'[p] = [job[p] EXCEPT !.visto = FALSE]
      <4> DEFINE a == job[p]
                 j == [a EXCEPT !.visto = FALSE]
      <4>1. IsRun(a) /\ AccountOK(Listas[p], a)
        BY <1>2, <3>2
      <4>2. /\ j.pc = a.pc /\ j.todo = a.todo /\ j.errores = a.errores
            /\ j.cargadas = a.cargadas /\ j.emp = a.emp
        BY <4>1 DEF IsRun, RunFields
      <4>3. job'[p] = j
        BY <3>2
      <4> HIDE DEF a, j
      <4>4. AccountOK(Listas[p], j)
        BY <4>1, <4>2, SameAccount
      <4>5. QED
        BY <4>3, <4>4
    <3>3. QED
      BY <2>2, <3>1, <3>2
  <2>4. QED
    BY <2>1, <2>3 DEF AccountsInv, Busy
<1>12. CASE SummaryMoves \/ DateTurns
  BY <1>12 DEF SummaryMoves, DateTurns, AccountsInv, Busy
<1>13. QED
  BY <1>3, <1>4, <1>5, <1>6, <1>7, <1>8, <1>9, <1>10, <1>11, <1>12 DEF JobsNext, RunSteps

\* EveryCompanyIsAccountedFor: run() counts each company it was given, as
\* loaded to its end or as an error, and its exit code is 0 only if all were
\* loaded, when each was named once.
THEOREM EveryCompanyCounts ==
  ASSUME ListsAreSets
  PROVE  JobsSpec => []EveryCompanyIsAccountedFor
<1>1. JobsInit => RotationInv /\ AccountsInv
  BY JobsInitIs, AccountsInit
<1>2. RotationInv /\ AccountsInv /\ [JobsNext]_jobsVars => RotationInv' /\ AccountsInv'
  <2>1. SUFFICES ASSUME RotationInv, AccountsInv, [JobsNext]_jobsVars
                 PROVE  RotationInv' /\ AccountsInv'
    OBVIOUS
  <2>2. CASE JobsNext
    BY <2>1, <2>2, JobsStep, AccountsStep
  <2>3. CASE UNCHANGED jobsVars
    BY <2>1, <2>3 DEF jobsVars, RotationInv, ShownInv, LinesInv, CleanInv, RunsInv,
                      AccountsInv, Busy
  <2>4. QED
    BY <2>1, <2>2, <2>3
<1>3. AccountsInv => EveryCompanyIsAccountedFor
  BY DEF AccountsInv, SaidOK, EveryCompanyIsAccountedFor
<1>4. QED
  BY <1>1, <1>2, <1>3, PTL DEF JobsSpec
=============================================================================
