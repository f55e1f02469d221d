---------------------------- MODULE RotationInc -----------------------------
(***************************************************************************)
(* etl_rotacion_incremental_3bd.py, the program the rolling timer of       *)
(* deploy/systemd starts: the rows it extracts, its two upserts and the    *)
(* steps of its three modes.  It has no lock on the photo.                 *)
(***************************************************************************)
EXTENDS RotationSource

\* SOURCE_SQL, ventas_dia: every ticket, Z notes too.
Vendido(erp, i, d) == Qty(Tickets(erp, i, d))

\* SOURCE_SQL, inventario_actual: the line of the month asked for, whatever
\* the day of the row.
Inventario(erp, i, lapso) ==
    LET r == erp.resumen[i][lapso]
    IN  IF Existe(erp, i, lapso)
        THEN [lapso |-> lapso, qty |-> r.qty, cost |-> r.cost, sale |-> r.sale]
        ELSE [lapso |-> NULL, qty |-> 0, cost |-> 0, sale |-> NULL]

\* fetch_rows: a row for every item with a ticket in the days of the range;
\* stock alone makes no row.
FetchRows(erp, desde, hasta, lapso) ==
    UNION {{LET inv == Inventario(erp, i, lapso)
            IN  [item |-> i, day |-> d, sold |-> Vendido(erp, i, d),
                 foto |-> [lapso |-> inv.lapso, qty |-> inv.qty,
                           valor |-> inv.qty * inv.cost],
                 ultima |-> inv.sale, bloqueada |-> FALSE] :
            i \in {j \in Items : Tickets(erp, j, d) # {}}} :
           d \in Rango(desde, hasta)}

\* UPSERT_FULL_SQL and UPSERT_VENTAS_SQL on a row that exists.
UpsertFull(old, new) == new
UpsertVentas(old, new) == [new EXCEPT !.foto = old.foto]

\* months_in_range: the months of a range, each with the days it has there.
MonthsInRange(desde, hasta) ==
    LET meses == {Lapso[d] : d \in Rango(desde, hasta)}
        nth(k) == CHOOSE m \in meses : Cardinality({o \in meses : o < m}) = k - 1
        dias(m) == {d \in Rango(desde, hasta) : Lapso[d] = m}
    IN  [k \in 1 .. Cardinality(meses) |->
            [lapso |-> nth(k),
             desde |-> CHOOSE d \in dias(nth(k)) : \A e \in dias(nth(k)) : d <= e,
             hasta |-> CHOOSE d \in dias(nth(k)) : \A e \in dias(nth(k)) : e <= d]]

\* process_daily, process_rolling and process_backfill.  One query and one
\* commit per range; every one reads the month of the last day it covers.
Daily(hoy) == <<Cargar(hoy - 1, hoy - 1, "full")>>
Rolling(hoy, n) == <<Cargar(hoy - n, hoy - 1, "ventas")>>
Backfill(desde, hasta) ==
    [k \in 1 .. Len(MonthsInRange(desde, hasta)) |->
        LET mes == MonthsInRange(desde, hasta)[k]
        IN  Cargar(mes.desde, mes.hasta, "full")]
=============================================================================
