--------------------------- MODULE RotationSource ---------------------------
(***************************************************************************)
(* What the Mercamio rotation loads (src/empresas/mercamio/etl-rotacion)   *)
(* read: one company's point-of-sale tickets and inventory movements, and  *)
(* its monthly inventory summary.  The five programs of that directory     *)
(* query the same ERP tables; this module holds the vocabulary they share, *)
(* and RotationInc, RotationV2, RotationV3 and RotationV4 say what each    *)
(* one computes from it.                                                   *)
(*                                                                         *)
(* A key (sede, bodega, item, extension) is one member of Items: the       *)
(* queries never relate two keys.  Money follows quantity, so a sum of     *)
(* sales is zero when the sum of units is.                                 *)
(***************************************************************************)
EXTENDS Integers, Sequences, FiniteSets, FiniteSetsExt

CONSTANTS
    Items,       \* the keys of the ERP
    Tipo4,       \* those whose id_tipo is '4', the only ones v3 and v4 read
    Maestro,     \* Maestro[i]: the cost kept in the item master, 0 if none
    Days,        \* consecutive days, from 1
    Lapsos,      \* months, as numbers
    Lapso,       \* Lapso[d]: the month of a day
    Enero,       \* Enero[m]: January of the year of month m
    Documents    \* every ticket and movement that may come to be posted:
                 \*   [emp, tipo, item, day, unit, qty, cost, z]
                 \* tipo "PDV" is a till ticket, "RV" a sale and "EA" an
                 \* entry in the inventory movements; z is TRUE for a ticket
                 \* whose docto_acumulacion starts with Z

NULL == 0        \* no date: the days start at 1

ASSUME RotationAssumption ==
    /\ IsFiniteSet(Days) /\ Days = 1 .. Cardinality(Days)
    /\ Tipo4 \subseteq Items
    /\ \A d, e \in Days : d <= e => Lapso[d] <= Lapso[e]
    /\ \A d \in Days : Lapso[d] \in Lapsos /\ Enero[Lapso[d]] <= Lapso[d]
    /\ \A m \in Lapsos : m \in Nat \ {0}

\* A summary line of cmresumen_inventario: existence, unit cost and the date
\* of the last sale.  SinResumen is a month without a line.
SinResumen == [qty |-> 0, cost |-> 0, sale |-> -1]

\* The company as the source database shows it at one moment: the documents
\* posted so far and the summary line of every item and month.
Existe(erp, i, m) == erp.resumen[i][m] # SinResumen

\* The latest month with a line, among the months of a set.
UltimoLapso(erp, i, meses) ==
    LET con == {m \in meses : Existe(erp, i, m)}
    IN  IF con = {} THEN NULL ELSE CHOOSE m \in con : \A o \in con : o <= m

Tickets(erp, i, d) ==
    {t \in erp.docs : t.tipo = "PDV" /\ t.item = i /\ t.day = d}

\* Tickets without the Z notes, which every query but the incremental one's
\* leaves out.
Ventas(erp, i, d) == {t \in Tickets(erp, i, d) : ~t.z}

Qty(ts)  == LET q(t) == t.qty  IN MapThenSumSet(q, ts)
Cost(ts) == LET c(t) == t.cost IN MapThenSumSet(c, ts)

Latest(ts) == IF ts = {} THEN NULL
              ELSE CHOOSE d \in {t.day : t \in ts} : \A t \in ts : t.day <= d

\* The groups GROUP BY id_unidad makes of a day's sales of an item.
PorUnidad(ts) ==
    {LET g == {t \in ts : t.unit = u}
     IN  [unit |-> u, qty |-> Qty(g), cost |-> Cost(g)] : u \in {t.unit : t \in ts}}

\* The days of a range that the model has.
Rango(desde, hasta) == {d \in Days : desde <= d /\ d <= hasta}

\* A step of a job: read the days of a range and commit them with one upsert,
\* or lock a day's photo.
Cargar(desde, hasta, upsert) ==
    [op |-> "load", desde |-> desde, hasta |-> hasta, upsert |-> upsert]
Bloquear(d) == [op |-> "lock", desde |-> d, hasta |-> d, upsert |-> "none"]

\* One step per day of a range, oldest first.
DiaPorDia(desde, hasta, upsert) ==
    LET primero == IF desde < 1 THEN 1 ELSE desde
        n == Cardinality(Rango(desde, hasta))
    IN  [k \in 1 .. n |-> Cargar(primero + k - 1, primero + k - 1, upsert)]
=============================================================================
