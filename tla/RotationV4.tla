----------------------------- MODULE RotationV4 -----------------------------
(***************************************************************************)
(* etl_rotacion_v4.py: v3's rows with the costs and dates of the inventory *)
(* movements, in a table of its own.  The three modes use the same four    *)
(* readings; inventory and movements are read once per month and kept.     *)
(***************************************************************************)
EXTENDS RotationSource

\* extract_inventory_month: the line of the latest month of the year up to
\* the one asked for, with the cost of the master when it has none.
Resumen(erp, i, mes) ==
    LET m == UltimoLapso(erp, i, {o \in Lapsos : Enero[mes] <= o /\ o <= mes})
        r == erp.resumen[i][m]
    IN  IF m = NULL THEN SinResumen
        ELSE [qty |-> r.qty, cost |-> IF r.cost # 0 THEN r.cost ELSE Maestro[i],
              sale |-> r.sale, lapso |-> m]

ExtractInventoryMonth(erp, mes) ==
    LET resumen == [i \in Tipo4 |-> Resumen(erp, i, mes)]
        con == {i \in Tipo4 : /\ resumen[i] # SinResumen
                              /\ resumen[i].qty # 0 \/ resumen[i].cost # 0}
    IN  [i \in con |-> resumen[i]]

\* extract_movements_month: the last sale and the last entry from January to
\* the END of the month, which for a day before it may be after the day.
ExtractMovementsMonth(erp, mes) ==
    LET movs(i, tipo) == {t \in erp.docs :
                            /\ t.tipo = tipo /\ t.item = i
                            /\ Enero[mes] <= Lapso[t.day] /\ Lapso[t.day] <= mes}
        ultimo(i) == {t \in movs(i, "EA") : t.day = Latest(movs(i, "EA"))}
    IN  [i \in Tipo4 |->
            [venta |-> Latest(movs(i, "RV")), ingreso |-> Latest(movs(i, "EA")),
             costo |-> IF ultimo(i) = {} THEN 0
                       ELSE (CHOOSE t \in ultimo(i) : TRUE).cost]]

\* extract_sales_day: keyed without the unit, so one group of an item's
\* sales is kept; every dictionary that may come out.
ExtractSalesDay(erp, d) ==
    LET vendidos == {i \in Tipo4 : Ventas(erp, i, d) # {}}
        grupos(i) == PorUnidad(Ventas(erp, i, d))
    IN  {s \in [vendidos -> UNION {grupos(i) : i \in vendidos}] :
            \A i \in vendidos : s[i] \in grupos(i)}

\* extract_cost_day: the cost of the day's sale movements.
ExtractCostDay(erp, d) ==
    [i \in Tipo4 |-> Cost({t \in erp.docs : t.tipo = "RV" /\ t.item = i /\ t.day = d})]

\* merge_day: one row per inventory line.  Only a row with no sales, no stock
\* and no cost is left out, so that a stock that falls to zero is written.
MergeDay(inventory, movements, sales, costs, d) ==
    LET venta(i) == IF i \in DOMAIN sales THEN sales[i]
                    ELSE [unit |-> "maestro", qty |-> 0, cost |-> 0]
        costo(i) == IF inventory[i].cost # 0 THEN inventory[i].cost
                    ELSE movements[i].costo
        fila(i) ==
            [item |-> i, day |-> d, unit |-> venta(i).unit, sold |-> venta(i).qty,
             cost |-> IF costs[i] = 0 /\ venta(i).qty > 0
                      THEN venta(i).qty * costo(i) ELSE costs[i],
             ultima |-> movements[i].venta, ingreso |-> movements[i].ingreso,
             foto |-> [lapso |-> inventory[i].lapso, qty |-> inventory[i].qty,
                       cost |-> costo(i), day |-> d],
             bloqueada |-> FALSE]
    IN  {fila(i) : i \in {j \in DOMAIN inventory :
            venta(j).qty # 0 \/ inventory[j].qty # 0 \/ costo(j) # 0}}

\* UPSERT_FULL_SQL on a row that exists: a locked photo stays, and the lock.
UpsertFull(old, new) ==
    [new EXCEPT !.foto = IF old.bloqueada THEN old.foto ELSE @,
                !.bloqueada = old.bloqueada]

\* UPSERT_VENTAS_SQL on a row that exists: the photo is never touched.
UpsertVentas(old, new) ==
    [new EXCEPT !.foto = old.foto, !.bloqueada = old.bloqueada]

\* process_daily, process_rolling and process_backfill.
Daily(hoy) == <<Cargar(hoy - 1, hoy - 1, "full"), Bloquear(hoy - 1)>>
Rolling(hoy, n) == DiaPorDia(hoy - n, hoy - 1, "ventas")
Backfill(desde, hasta) == DiaPorDia(desde, hasta, "full")
=============================================================================
