--------------------------- MODULE RotationDiaria ---------------------------
(***************************************************************************)
(* etl_rotacion_diaria_sede_3bd_auto.py: a run plans the closed days of a  *)
(* window and those the tracking table does not call done, and reloads     *)
(* them company by company, each in one transaction that deletes the day   *)
(* and writes it again with the inventory photos it had.  Transactions are *)
(* READ COMMITTED on the target and the source is read through connections *)
(* of its own, so two runs may meet over a day.                            *)
(*                                                                         *)
(* Day 1 is there for its month and its tickets; days from 2 are loaded.   *)
(***************************************************************************)
EXTENDS RotationRuns

CONSTANTS
    Empresas,    \* companies, in the order of their names: a sequence
    Calls,       \* Calls[p]: the arguments p is started with, records
                 \*   [rango |-> <<desde, hasta>> or <<>>, history, refresh,
                 \*    stop, hoy]: --fecha-inicio and --fecha-fin,
                 \*   --history-start (NULL if absent), --refresh-inventory,
                 \*   --stop-on-error, --procesar-hoy
    Cargados     \* the days that may be loaded at first: a set of sets

Companies == {Empresas[k] : k \in 1 .. Len(Empresas)}
Loaded == Days \ {1}

\* The companies have names and their sources documents of the days modelled;
\* dates are dates (an argument that is none ends the program before it runs).
ASSUME DiariaAssumption ==
    /\ Empresas \in Seq(Companies)
    /\ Inicial = [e \in Companies |->
                    [docs |-> Inicial[e].docs, resumen |-> Inicial[e].resumen]]
    /\ \A e \in Companies : \A t \in Inicial[e].docs : t.day \in Days
    /\ \A t \in Documents : t.emp \in Companies /\ t.day \in Days
    /\ Cargados \subseteq SUBSET Loaded
    /\ RollingDays \in Int
    /\ \A p \in Procs : \A c \in Calls[p] :
        /\ c.history \in Int
        /\ c.rango = <<>> \/ c.rango \in Int \X Int

VARIABLES
    estado,   \* estado[e][d]: ventas_item_carga_dias, or "none"
    solos     \* <<e, d>> whose last reload met no other

vars == <<hoy, erp, tabla, estado, job, salida, limpios, solos, runs, faults, posts, stock>>

NotRun == [code |-> -1, plan |-> {}, hechos |-> {}]

-----------------------------------------------------------------------------
(* What the source says of a day.                                          *)

SinFoto == [qty |-> 0, valor |-> 0]
HasSale(r) == r.sold # 0
HasPhoto(r) == r.foto.qty # 0 \/ r.foto.valor # 0
RowOf(rows, i) == CHOOSE r \in rows : r.item = i
ItemsOf(rows) == {r.item : r \in rows}

\* EXTRACT_QUERY, inventario: the line of the latest month with one, up to
\* the month of the day before.
Inventario(src, i, d) ==
    LET m == UltimoLapso(src, i, {o \in Lapsos : o <= Lapso[d - 1]})
    IN  IF m = NULL THEN [foto |-> SinFoto, sale |-> NULL]
        ELSE LET r == src.resumen[i][m]
             IN  [foto |-> [qty |-> r.qty, valor |-> r.qty * r.cost], sale |-> r.sale]

\* EXTRACT_QUERY: an item of the sales or of the inventory, unless all its
\* figures are zero.  A day's sale dates it; else the summary does.
Extracted(src, d) ==
    {r \in {LET v == Qty(Ventas(src, i, d))
                inv == Inventario(src, i, d)
            IN  [item |-> i, sold |-> v, foto |-> inv.foto,
                 ultima |-> IF v # 0 THEN d ELSE inv.sale] : i \in Items} :
        HasSale(r) \/ HasPhoto(r)}

\* A bug: the tickets are not asked.
SeedNothing(src, d) == [i \in Items |-> NULL]

\* fetch_source_last_sale_seed: the last ticket of each key in the 90 days
\* before the day, NULL if none.
Seed(src, d) ==
    [i \in Items |-> Latest({t \in src.docs :
        /\ t.tipo = "PDV" /\ t.item = i /\ ~t.z /\ t.qty > 0
        /\ d - 90 <= t.day /\ t.day < d})]

\* fetch_existing_day_rows: the day as the table has it.
ExistingDay(e, d) == tabla[e][d]

\* SELECT_PREVIOUS_DAY_SQL: the latest day before that the table has.
PreviousDay(e, d) ==
    LET antes == {o \in Loaded : o < d /\ tabla[e][o] # {}}
    IN  IF antes = {} THEN NULL ELSE CHOOSE o \in antes : \A n \in antes : n <= o

\* fetch_previous_last_sale_rows: the last sales that day has.
PreviousLastSales(e, d) ==
    LET rows == IF PreviousDay(e, d) = NULL THEN {} ELSE ExistingDay(e, PreviousDay(e, d))
    IN  [i \in Items |-> IF i \in ItemsOf(rows) THEN RowOf(rows, i).ultima ELSE NULL]

\* apply_last_sale_dates, after the seed: a row the extraction left without a
\* last sale takes the previous day's or, failing that, the seed's.
Dated(rows, previous, seed) ==
    {IF r.ultima # NULL THEN r
     ELSE [r EXCEPT !.ultima =
            IF previous[r.item] # NULL THEN previous[r.item] ELSE seed[r.item]] : r \in rows}

\* restore_inventory_snapshot: the photo of the day, with the last sale that
\* was just computed; clear_inventory_snapshot: none.
Restored(r, antes) == [r EXCEPT !.foto = antes.foto]
Cleared(r) == [r EXCEPT !.foto = SinFoto]

\* prepare_rows_for_reprocess.  A photo the day already had is put back; on
\* a first load the source's serves; an item that is new to a day already
\* loaded comes without a photo, and only if it was sold.
Prepared(rows, j) ==
    IF j.refresh \/ j.existing = {} THEN rows
    ELSE {IF r.item \in ItemsOf(j.existing)
          THEN Restored(r, RowOf(j.existing, r.item))
          ELSE Cleared(r) :
            r \in {s \in rows : s.item \in ItemsOf(j.existing) \/ HasSale(s)}}

\* A bug: the photos of items the source no longer returns go with the day.
RemainingNone(rows, j) == {}

\* A bug: they stay, with the sales they had.
RemainingWithSales(rows, j) ==
    {r \in j.existing : ~j.refresh /\ HasPhoto(r) /\ r.item \notin ItemsOf(rows)}

\* remaining_inventory_snapshot_rows: the photos of items the source no
\* longer returns, with no sales.
Remaining(rows, j) ==
    IF j.refresh THEN {}
    ELSE {[r EXCEPT !.sold = 0] :
            r \in {s \in j.existing : HasPhoto(s) /\ s.item \notin ItemsOf(rows)}}

-----------------------------------------------------------------------------
(* The plan.                                                               *)

\* A bug: a day that was tried is not missing.
FindMissingUntried(desde, hasta) ==
    {x \in Loaded \X (1 .. Len(Empresas)) :
        /\ desde <= x[1] /\ x[1] <= hasta
        /\ estado[Empresas[x[2]]][x[1]] = "none"}

\* find_missing_items: the days of the history that are not done.
FindMissing(desde, hasta) ==
    {x \in Loaded \X (1 .. Len(Empresas)) :
        /\ desde <= x[1] /\ x[1] <= hasta
        /\ estado[Empresas[x[2]]][x[1]] # "done"}

\* resolve_explicit_range and resolve_automatic_range.
Window(c) ==
    LET hasta == IF c.hoy THEN hoy ELSE hoy - 1
    IN  IF c.rango # <<>> THEN [desde |-> c.rango[1], hasta |-> c.rango[2]]
        ELSE [desde |-> hasta - RollingDays + 1, hasta |-> hasta]

\* build_work_plan: the window and the missing days, by day and company.
WorkPlan(c) ==
    LET w == Window(c)
        ventana == (Loaded \cap (w.desde .. w.hasta)) \X (1 .. Len(Empresas))
        falta == IF c.history = NULL THEN {} ELSE FindMissing(c.history, w.hasta)
        antes(a, b) == a[1] < b[1] \/ (a[1] = b[1] /\ a[2] < b[2])
        items == ventana \cup falta
        puesto(a) == Cardinality({b \in items : antes(b, a)}) + 1
    IN  [n \in 1 .. Cardinality(items) |->
            LET a == CHOOSE x \in items : puesto(x) = n
            IN  [day |-> a[1], emp |-> Empresas[a[2]]]]

\* What a run owes: the days of its window, and those of its history that are
\* not done, of every company.
Owed(c) ==
    {x \in Companies \X Loaded :
        \/ Window(c).desde <= x[2] /\ x[2] <= Window(c).hasta
        \/ /\ c.history # NULL /\ c.history <= x[2] /\ x[2] <= Window(c).hasta
           /\ estado[x[1]][x[2]] # "done"}

\* A day that was loaded once, from the source as it is at first.
FirstLoad(e, d) ==
    Dated(Extracted(Inicial[e], d), [i \in Items |-> NULL], Seed(Inicial[e], d))

Init ==
    /\ hoy = 3
    /\ erp = Inicial
    /\ \E D \in Cargados :
        /\ tabla = [e \in Companies |->
                [d \in Loaded |-> IF d \in D THEN FirstLoad(e, d) ELSE {}]]
        /\ estado = [e \in Companies |->
                [d \in Loaded |-> IF d \in D THEN "done" ELSE "none"]]
        /\ limpios = Companies \X D
        /\ solos = Companies \X D
    /\ job = [p \in Procs |-> Idle]
    /\ salida = [p \in Procs |-> NotRun]
    /\ runs = 0 /\ faults = 0 /\ posts = 0 /\ stock = 0

-----------------------------------------------------------------------------
(* A run.                                                                  *)

Item(p) == Head(job[p].todo)
At(p, pc) == Busy(p) /\ job[p].pc = pc
InTransaction(p) == Busy(p) /\ job[p].pc # "item"

\* The rows of a day that p has deleted stay locked until it ends.
Holds(p, e, d) == /\ Busy(p) /\ job[p].pc \in {"extract", "commit"} /\ job[p].borro
                  /\ Item(p) = [day |-> d, emp |-> e]

Locked(p) == \E q \in Procs \ {p} : Holds(q, Item(p).emp, Item(p).day)

NextItem(j) == [j EXCEPT !.pc = "item", !.todo = Tail(@), !.existing = {},
                         !.previous = <<>>, !.rows = {}, !.borro = FALSE,
                         !.encima = FALSE, !.visto = TRUE, !.refresh = FALSE]

\* maybe_enable_refresh_inventory: an empty table makes every item of the run
\* refresh its inventory.
RefreshesAll(c) == c.refresh \/ \A e \in Companies, d \in Loaded : tabla[e][d] = {}

\* run: the plan is made once.
Start(p) ==
    /\ ~Busy(p) /\ runs < MaxRuns
    /\ \E c \in Calls[p] :
        /\ Window(c).desde <= Window(c).hasta
        /\ c.history # NULL => c.history <= Window(c).hasta
        /\ job' = [job EXCEPT ![p] =
            [pc |-> "item", todo |-> WorkPlan(c), stop |-> c.stop, rolled |-> c,
             all |-> RefreshesAll(c),
             plan |-> Owed(c),
             existing |-> {}, previous |-> <<>>, rows |-> {}, borro |-> FALSE,
             encima |-> FALSE, visto |-> TRUE, refresh |-> FALSE, hechos |-> {},
             failures |-> 0]]
    /\ runs' = runs + 1
    /\ salida' = [salida EXCEPT ![p] = NotRun]
    /\ UNCHANGED <<hoy, erp, tabla, estado, limpios, solos, faults, posts, stock>>

\* should_refresh_inventory asks for the date at each item; then
\* reload_day_company reads the day it will replace and the one before.
Begin(p) ==
    /\ At(p, "item") /\ job[p].todo # <<>>
    /\ LET e == Item(p).emp
           d == Item(p).day
       IN  job' = [job EXCEPT ![p] =
            [@ EXCEPT !.pc = "delete", !.existing = ExistingDay(e, d),
                      !.previous = PreviousLastSales(e, d),
                      !.refresh = job[p].all \/ d = hoy - 1]]
    /\ UNCHANGED <<hoy, erp, tabla, estado, salida, limpios, solos, bounds>>

\* DELETE_DAY_SQL: what is committed, unless another run has deleted it; then
\* it waits, and rows that run puts in its place are not seen.
Delete(p) ==
    /\ At(p, "delete")
    /\ job' = [job EXCEPT ![p] =
            IF Locked(p) THEN [@ EXCEPT !.pc = "wait"]
            ELSE [@ EXCEPT !.pc = "extract", !.borro = tabla[Item(p).emp][Item(p).day] # {}]]
    /\ UNCHANGED <<hoy, erp, tabla, estado, salida, limpios, solos, bounds>>

Unblock(p) ==
    /\ At(p, "wait") /\ ~Locked(p)
    /\ job' = [job EXCEPT ![p] =
            [@ EXCEPT !.pc = "extract",
                      !.borro = ~job[p].encima /\ tabla[Item(p).emp][Item(p).day] # {}]]
    /\ UNCHANGED <<hoy, erp, tabla, estado, salida, limpios, solos, bounds>>

\* iter_source_chunks, the seed, and the rows the day will have.
Extract(p) ==
    /\ At(p, "extract")
    /\ LET src == erp[Item(p).emp]
           d == Item(p).day
           rows == Dated(Extracted(src, d), job[p].previous, Seed(src, d))
       IN  job' = [job EXCEPT ![p] =
            [@ EXCEPT !.pc = "commit",
                      !.rows = Prepared(rows, job[p]) \cup Remaining(rows, job[p])]]
    /\ UNCHANGED <<hoy, erp, tabla, estado, salida, limpios, solos, bounds>>

\* INSERT_SQL: over whatever another run has committed since the delete, a row
\* that is there takes every column of the new one (ON CONFLICT DO UPDATE).
Upserted(day, j) ==
    {r \in day : j.encima /\ r.item \notin ItemsOf(j.rows)} \cup j.rows

\* upsert_load_day: the day's status, whatever it was.
MarkDay(e, d, status) == estado' = [estado EXCEPT ![e][d] = status]

\* The inserts and the day's status, in the transaction of the delete.
Commit(p) ==
    LET e == Item(p).emp
        d == Item(p).day
        j == job[p]
    IN  /\ At(p, "commit") /\ ~Locked(p)
        /\ tabla' = [tabla EXCEPT ![e][d] = Upserted(@, j)]
        /\ MarkDay(e, d, "done")
        /\ limpios' = IF j.visto THEN limpios \cup {<<e, d>>} ELSE limpios \ {<<e, d>>}
        /\ solos' = IF j.encima THEN solos \ {<<e, d>>} ELSE solos \cup {<<e, d>>}
        /\ job' = [q \in Procs |->
            IF q = p THEN NextItem([j EXCEPT !.hechos = @ \cup {<<e, d>>}])
            ELSE IF InTransaction(q) /\ Item(q) = Item(p) /\ job[q].pc # "delete"
                 THEN [job[q] EXCEPT !.encima = TRUE]
            ELSE job[q]]
        /\ UNCHANGED <<hoy, erp, salida, bounds>>

\* reload_day_company, except: the transaction is rolled back, the day is
\* marked failed whatever it was (write_failure_day), or not even that, and
\* the run goes on unless --stop-on-error.
ReloadFails(p) ==
    LET e == Item(p).emp
        d == Item(p).day
        j == [NextItem(job[p]) EXCEPT !.failures = @ + 1]
    IN  /\ InTransaction(p) /\ faults < MaxFaults
        /\ \/ MarkDay(e, d, "failed")
           \/ estado' = estado
        /\ job' = [job EXCEPT ![p] = IF j.stop THEN [j EXCEPT !.todo = <<>>] ELSE j]
        /\ faults' = faults + 1
        /\ UNCHANGED <<hoy, erp, tabla, salida, limpios, solos, runs, posts, stock>>

\* run: the exit code.  An empty plan ends the run with 0.
Finish(p) ==
    /\ At(p, "item") /\ job[p].todo = <<>>
    /\ salida' = [salida EXCEPT ![p] =
            [code |-> IF job[p].failures > 0 THEN 1 ELSE 0,
             plan |-> job[p].plan, hechos |-> job[p].hechos]]
    /\ job' = [job EXCEPT ![p] = Idle]
    /\ UNCHANGED <<hoy, erp, tabla, estado, limpios, solos, bounds>>

\* The process is killed; the database rolls its transaction back.
Crash(p) ==
    /\ Busy(p) /\ faults < MaxFaults
    /\ job' = [job EXCEPT ![p] = Idle]
    /\ faults' = faults + 1
    /\ UNCHANGED <<hoy, erp, tabla, estado, salida, limpios, solos, runs, posts, stock>>

-----------------------------------------------------------------------------
(* The source and the clock.                                               *)

Post ==
    /\ posts < MaxPosts
    /\ \E t \in Documents :
        /\ t \notin erp[t.emp].docs /\ t.day <= hoy
        /\ erp' = [erp EXCEPT ![t.emp].docs = @ \cup {t}]
        /\ limpios' = limpios \ {<<t.emp, t.day>>}
        /\ job' = [p \in Procs |->
            IF At(p, "commit") /\ Item(p) = [day |-> t.day, emp |-> t.emp]
            THEN [job[p] EXCEPT !.visto = FALSE] ELSE job[p]]
    /\ posts' = posts + 1
    /\ UNCHANGED <<hoy, tabla, estado, salida, solos, runs, faults, stock>>

StockMoves ==
    /\ stock < MaxStock
    /\ \E c \in Cambios :
        /\ c.lapso <= Lapso[hoy] /\ erp[c.emp].resumen[c.item][c.lapso] # c.line
        /\ erp' = [erp EXCEPT ![c.emp].resumen[c.item][c.lapso] = c.line]
    /\ stock' = stock + 1
    /\ UNCHANGED <<hoy, tabla, estado, job, salida, limpios, solos, runs, faults, posts>>

NewDay ==
    /\ hoy + 1 \in Days
    /\ hoy' = hoy + 1
    /\ UNCHANGED <<erp, tabla, estado, job, salida, limpios, solos, bounds>>

Run(p) == \/ Begin(p) \/ Delete(p) \/ Unblock(p) \/ Extract(p)
          \/ Commit(p) \/ ReloadFails(p) \/ Finish(p)

Next == \/ \E p \in Procs : Start(p) \/ Run(p) \/ Crash(p)
        \/ Post \/ StockMoves \/ NewDay

Spec == Init /\ [][Next]_vars

-----------------------------------------------------------------------------
(* Properties.                                                             *)

\* A reload that is not a refresh takes no photo from the day it read and
\* changes none: items the source has forgotten keep theirs, and so do those
\* whose sales changed.  (Where another run replaced the day after it was
\* read, the photos are the ones this run read.)
SnapshotSurvives ==
    [][\A p \in Procs :
        (Commit(p) /\ ~job[p].refresh) =>
            \A r \in job[p].existing : HasPhoto(r) =>
                \E s \in tabla'[Item(p).emp][Item(p).day] :
                    s.item = r.item /\ s.foto = r.foto]_vars

\* A day that is done, to which no ticket was posted since it was read, has
\* the units the ERP says: every item sold is there with them, also when two
\* runs reload the day at once, and an item that was not is absent or has none,
\* a photo kept from before included.  (Where a run met another, a row of the
\* other that it does not have itself stays.)
DoneDaysHaveTheSales ==
    \A e \in Companies, d \in Loaded : <<e, d>> \in limpios =>
        \A i \in Items :
            LET rows == tabla[e][d]
                sold == Qty(Ventas(erp[e], i, d))
            IN  (sold # 0 \/ <<e, d>> \in solos) =>
                    (IF i \in ItemsOf(rows) THEN RowOf(rows, i).sold ELSE 0) = sold

\* The last sale of an item is known: a row of one that was sold in the ninety
\* days before has a date, from its own sales, the summary, the day before in
\* the table or the tickets.
RecentSaleIsKnown ==
    \A e \in Companies, d \in Loaded : \A r \in tabla[e][d] :
        (\E t \in Inicial[e].docs :
            /\ t.tipo = "PDV" /\ ~t.z /\ t.qty > 0
            /\ t.item = r.item /\ d - 90 <= t.day /\ t.day < d)
                => r.ultima # NULL

\* A run ends with 0 only if it loaded every company and day of its window
\* and every one of its history that was not done when it started.
ZeroMeansAllDone ==
    \A p \in Procs : salida[p].code = 0 => salida[p].plan \subseteq salida[p].hechos
=============================================================================
