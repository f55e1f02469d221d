----------------------------- MODULE RotationV3 -----------------------------
(***************************************************************************)
(* etl_rotacion_v3.py.  A day's rows come from the inventory and the sales *)
(* are joined to them.  daily and rolling run one query per day            *)
(* (SOURCE_SQL_BACKFILL: every caller of extract_day passes backfill=True) *)
(* while backfill keeps the inventory of a month in memory and merges each *)
(* day's sales with it.                                                    *)
(***************************************************************************)
EXTENDS RotationSource

\* items_cat4: the cost kept in the master, for kits and items whose summary
\* has none.
CostoMaestro(i) == Maestro[i]

\* SOURCE_SQL_BACKFILL, inventario_max_lapso: the latest month with data, in
\* the year of the day and not after its month.
MaxLapso(erp, i, mes) ==
    UltimoLapso(erp, i, {m \in Lapsos : Enero[mes] <= m /\ m <= mes})

\* SOURCE_SQL_BACKFILL, inventario_foto, for the items it has.
Foto(erp, i, mes) ==
    LET m == MaxLapso(erp, i, mes)
        r == erp.resumen[i][m]
    IN  [lapso |-> m, qty |-> r.qty, cost |-> r.cost, sale |-> r.sale]

ConFoto(erp, mes) == {i \in Tipo4 : MaxLapso(erp, i, mes) # NULL}

\* SOURCE_SQL_BACKFILL, ventas_dia: one group per unit of sale.
VentasDia(erp, i, d) == PorUnidad(Ventas(erp, i, d))
SinVenta == [unit |-> "maestro", qty |-> 0, cost |-> 0]

CostoUnitario(i, inv) == IF inv.cost # 0 THEN inv.cost ELSE CostoMaestro(i)

\* The columns of a row: an inventory line joined with one group of sales.
Fila(i, d, inv, v, ultima) ==
    [item |-> i, day |-> d, unit |-> v.unit, sold |-> v.qty,
     cost |-> IF v.cost = 0 /\ v.qty > 0
              THEN v.qty * CostoUnitario(i, inv) ELSE v.cost,
     ultima |-> ultima, estado |-> ultima # NULL,
     foto |-> [lapso |-> inv.lapso, qty |-> inv.qty,
               cost |-> CostoUnitario(i, inv), day |-> d],
     bloqueada |-> FALSE]

\* extract_day with SOURCE_SQL_BACKFILL: the movements read are the day's
\* own, so the last sale of a row is the day or nothing; an item sold in two
\* units comes in two rows; a row without sales and stock is left out.
ExtractDay(erp, d) ==
    {f \in UNION {LET inv == Foto(erp, i, Lapso[d])
                      vs == VentasDia(erp, i, d)
                      ultima == IF vs = {} THEN NULL ELSE d
                  IN  {Fila(i, d, inv, v, ultima) :
                        v \in IF vs = {} THEN {SinVenta} ELSE vs} :
                  i \in ConFoto(erp, Lapso[d])} :
        f.sold # 0 \/ f.foto.qty # 0}

\* extract_inventory_month: the inventory of a month, read once and kept.
ExtractInventoryMonth(erp, mes) ==
    {[item |-> i, lapso |-> Foto(erp, i, mes).lapso, qty |-> Foto(erp, i, mes).qty,
      cost |-> Foto(erp, i, mes).cost, sale |-> Foto(erp, i, mes).sale] :
        i \in {j \in ConFoto(erp, mes) :
                 LET inv == Foto(erp, j, mes)
                 IN  inv.qty # 0 \/ inv.cost # 0 \/ CostoMaestro(j) # 0}}

\* extract_sales_day: a dictionary without the unit in its key, so of the
\* groups of an item the last one the cursor returns is kept.  The result is
\* the set of dictionaries that may come out.
ExtractSalesDay(erp, d) ==
    LET vendidos == {i \in Tipo4 : Ventas(erp, i, d) # {}}
    IN  {s \in [vendidos -> UNION {VentasDia(erp, i, d) : i \in vendidos}] :
            \A i \in vendidos : s[i] \in VentasDia(erp, i, d)}

\* merge_day: the month's inventory with the day's sales.
MergeDay(inventory, sales, d) ==
    {f \in {LET vendio == inv.item \in DOMAIN sales
            IN  Fila(inv.item, d, inv,
                     IF vendio THEN sales[inv.item] ELSE SinVenta,
                     IF vendio THEN d ELSE NULL) : inv \in inventory} :
        f.sold # 0 \/ f.foto.qty # 0}

\* A bug: the lock is kept but not asked.
UpsertFullBlind(old, new) == [new EXCEPT !.bloqueada = old.bloqueada]

\* UPSERT_FULL_SQL on a row that exists: a locked photo stays, and the lock
\* with it.
UpsertFull(old, new) ==
    [new EXCEPT !.foto = IF old.bloqueada THEN old.foto ELSE @,
                !.bloqueada = old.bloqueada]

\* UPSERT_VENTAS_SQL on a row that exists: the photo is never touched.
UpsertVentas(old, new) ==
    [new EXCEPT !.foto = old.foto, !.bloqueada = old.bloqueada]

\* process_daily, process_rolling and process_backfill.
Daily(hoy) == <<Cargar(hoy - 1, hoy - 1, "full"), Bloquear(hoy - 1)>>
Rolling(hoy, n) == DiaPorDia(hoy - n, hoy - 1, "ventas")
Backfill(desde, hasta) == DiaPorDia(desde, hasta, "full")
=============================================================================
