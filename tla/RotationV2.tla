----------------------------- MODULE RotationV2 -----------------------------
(***************************************************************************)
(* etl_rotacion_v2.py: what a day's row holds, what its two upserts do to  *)
(* a row that is already there, and the steps of each mode.                *)
(***************************************************************************)
EXTENDS RotationSource

\* SOURCE_SQL, ventas_dia: units sold of an item, Z notes left out.
Vendido(erp, i, d) == Qty(Ventas(erp, i, d))

\* SOURCE_SQL, inventario_max_lapso: the latest month with data, whatever
\* its year, not after the month of the day.
MaxLapso(erp, i, d) == UltimoLapso(erp, i, {m \in Lapsos : m <= Lapso[d]})

\* SOURCE_SQL, inventario_foto: the running balance of that month, as it is
\* when the query runs.
Foto(erp, i, d) ==
    LET m == MaxLapso(erp, i, d)
        r == IF m = NULL THEN [qty |-> 0, cost |-> 0, sale |-> NULL]
                         ELSE erp.resumen[i][m]
    IN  [lapso |-> m, qty |-> r.qty, valor |-> r.qty * r.cost, sale |-> r.sale]

\* A bug: only what is in stock.
LlavesInStock(erp, d) == {i \in Items : Foto(erp, i, d).qty > 0}

\* SOURCE_SQL, llaves: what was sold that day, and what is in stock.
Llaves(erp, d) ==
    {i \in Items : \/ Ventas(erp, i, d) # {}
                   \/ Foto(erp, i, d).qty > 0
                   \/ Foto(erp, i, d).valor > 0}

\* SOURCE_SQL, the main SELECT.  A last sale after the day gives no age
\* (dias -1 stands for NULL).
Fila(erp, i, d) ==
    LET inv == Foto(erp, i, d)
        v == Vendido(erp, i, d)
    IN  [item |-> i, day |-> d, sold |-> v,
         foto |-> [lapso |-> inv.lapso, qty |-> inv.qty, valor |-> inv.valor],
         ultima |-> IF v > 0 THEN d ELSE inv.sale,
         dias |-> IF v > 0 THEN 0
                  ELSE IF inv.sale # NULL /\ inv.sale <= d THEN d - inv.sale
                  ELSE -1,
         quiebre |-> v > 0 /\ inv.qty <= 0,
         sinRotacion |-> v = 0 /\ inv.qty > 0,
         bloqueada |-> FALSE]

\* extract_day: the rows of one day.
ExtractDay(erp, d) == {Fila(erp, i, d) : i \in Llaves(erp, d)}

\* UPSERT_FULL_SQL on a row that exists: every column, the lock included.
UpsertFull(old, new) == new

\* A bug: the rolling upsert takes the photo that was just read.
UpsertVentasAll(old, new) == [new EXCEPT !.bloqueada = old.bloqueada]

\* UPSERT_VENTAS_SQL on a row that exists: all but the photo and its lock.
\* The two flags are the new query's, made with the inventory it read.
UpsertVentas(old, new) ==
    [new EXCEPT !.foto = old.foto, !.bloqueada = old.bloqueada]

\* process_daily: yesterday in full, then the lock in a commit of its own.
Daily(hoy) == <<Cargar(hoy - 1, hoy - 1, "full"), Bloquear(hoy - 1)>>

\* process_rolling: the last n closed days, sales only.
Rolling(hoy, n) == DiaPorDia(hoy - n, hoy - 1, "ventas")

\* process_backfill: the range in full, and no lock.
Backfill(desde, hasta) == DiaPorDia(desde, hasta, "full")
=============================================================================
