---------------------------- MODULE RotationJobs ----------------------------
(***************************************************************************)
(* The runs of a Mercamio rotation load over its table: run() takes the    *)
(* companies in turn, and a company's mode is a sequence of steps, each    *)
(* read from the source and then committed.  Meanwhile tickets are posted, *)
(* stock moves, the day turns, and a timer's run and one by hand may       *)
(* overlap.  The four programs share this driver and each writes its own   *)
(* rows, so a behaviour is of one program (Versions).                      *)
(***************************************************************************)
EXTENDS RotationRuns

CONSTANTS
    Versions,     \* the programs: a subset of {"inc", "v2", "v3", "v4"}
    Modes,        \* Modes[p]: the modes p is started in, of "daily",
                  \* "rolling" and "backfill"
    Listas        \* Listas[p]: the companies of its --empresas, in order

\* The companies asked for are companies with a source, and the lines of the
\* summary move or appear, and do not go.  A rolling load is of a day at least.
ASSUME JobsAssumption ==
    /\ Versions \subseteq {"inc", "v2", "v3", "v4"}
    /\ 1 \in Days /\ RollingDays \in Nat \ {0}
    /\ \A p \in Procs : /\ Modes[p] \subseteq {"daily", "rolling", "backfill"}
                        /\ Listas[p] \in Seq(DOMAIN Inicial)
    /\ Inicial = [e \in DOMAIN Inicial |->
                    [docs |-> Inicial[e].docs,
                     resumen |-> [i \in Items |-> [m \in Lapsos |-> Inicial[e].resumen[i][m]]]]]
    /\ \A e \in DOMAIN Inicial : IsFiniteSet(Inicial[e].docs)
    /\ \A c \in Cambios : c.line # SinResumen

Inc == INSTANCE RotationInc
V2 == INSTANCE RotationV2
V3 == INSTANCE RotationV3
V4 == INSTANCE RotationV4

VARIABLE
    version    \* the program in use; tabla[e][<<i, d>>] is a row or NoRow

jobsVars == <<version, hoy, erp, tabla, job, salida, limpios, runs, faults, posts, stock>>

NoRow == [sold |-> 0, day |-> NULL]
NoCache == [mes |-> NULL]
Exists(e, i, d) == tabla[e][<<i, d>>] # NoRow
Nothing == [cargadas |-> {}, errores |-> 0, lista |-> {}, code |-> -1]

JobsInit ==
    /\ version \in Versions
    /\ hoy = 2
    /\ erp = Inicial
    /\ tabla = [e \in DOMAIN Inicial |->
                    [x \in Items \X Days |-> NoRow]]
    /\ job = [p \in Procs |-> Idle]
    /\ salida = [p \in Procs |-> Nothing]
    /\ limpios = {}
    /\ runs = 0 /\ faults = 0 /\ posts = 0 /\ stock = 0

-----------------------------------------------------------------------------
(* What a mode does for a company: the program in use decides.             *)

Program(mode, desde, hasta) ==
    CASE version = "inc" -> (CASE mode = "daily"    -> Inc!Daily(hoy)
                               [] mode = "rolling"  -> Inc!Rolling(hoy, RollingDays)
                               [] mode = "backfill" -> Inc!Backfill(desde, hasta))
      [] version = "v2"  -> (CASE mode = "daily"    -> V2!Daily(hoy)
                               [] mode = "rolling"  -> V2!Rolling(hoy, RollingDays)
                               [] mode = "backfill" -> V2!Backfill(desde, hasta))
      [] version = "v3"  -> (CASE mode = "daily"    -> V3!Daily(hoy)
                               [] mode = "rolling"  -> V3!Rolling(hoy, RollingDays)
                               [] mode = "backfill" -> V3!Backfill(desde, hasta))
      [] version = "v4"  -> (CASE mode = "daily"    -> V4!Daily(hoy)
                               [] mode = "rolling"  -> V4!Rolling(hoy, RollingDays)
                               [] mode = "backfill" -> V4!Backfill(desde, hasta))

\* v3's backfill and every mode of v4 keep what they read of a month.
Keeps(j) == version = "v4" \/ (version = "v3" /\ j.mode = "backfill")

MonthReading(e, mes) ==
    IF version = "v3"
    THEN [mes |-> mes, inv |-> V3!ExtractInventoryMonth(erp[e], mes), mov |-> NULL]
    ELSE [mes |-> mes, inv |-> V4!ExtractInventoryMonth(erp[e], mes),
          mov |-> V4!ExtractMovementsMonth(erp[e], mes)]

\* The batches of rows a load step may read.
Readings(e, j, s) ==
    LET d == s.desde IN
    CASE version = "inc" -> {Inc!FetchRows(erp[e], s.desde, s.hasta, Lapso[s.hasta])}
      [] version = "v2"  -> {V2!ExtractDay(erp[e], d)}
      [] version = "v3" /\ ~Keeps(j) -> {V3!ExtractDay(erp[e], d)}
      [] version = "v3" /\ Keeps(j) ->
            {V3!MergeDay(j.cache.inv, sales, d) : sales \in V3!ExtractSalesDay(erp[e], d)}
      [] version = "v4" ->
            {V4!MergeDay(j.cache.inv, j.cache.mov, sales, V4!ExtractCostDay(erp[e], d), d) :
                sales \in V4!ExtractSalesDay(erp[e], d)}

Upsert(kind, old, new) ==
    IF kind = "full"
    THEN CASE version = "inc" -> Inc!UpsertFull(old, new)
           [] version = "v2"  -> V2!UpsertFull(old, new)
           [] version = "v3"  -> V3!UpsertFull(old, new)
           [] version = "v4"  -> V4!UpsertFull(old, new)
    ELSE CASE version = "inc" -> Inc!UpsertVentas(old, new)
           [] version = "v2"  -> V2!UpsertVentas(old, new)
           [] version = "v3"  -> V3!UpsertVentas(old, new)
           [] version = "v4"  -> V4!UpsertVentas(old, new)

-----------------------------------------------------------------------------
(* A run.                                                                  *)

Step(p) == Head(job[p].prog)
Ready(p, op) == Busy(p) /\ job[p].pc = "step" /\ Step(p).op = op

\* The company's program ends: it is counted as loaded.
Advance(j) ==
    IF Len(j.prog) > 1 THEN [j EXCEPT !.pc = "step", !.prog = Tail(@), !.lote = {}]
    ELSE [j EXCEPT !.pc = "next", !.prog = <<>>, !.lote = {}, !.cache = NoCache,
                   !.cargadas = @ \cup {j.emp}]

\* psycopg2.Error in a company: roll back, count it, go on with the next.
GiveUp(j) == [j EXCEPT !.pc = "next", !.prog = <<>>, !.lote = {}, !.cache = NoCache,
                       !.errores = @ + 1]

\* run: a mode is chosen, the target answers and its table is there.
\* Ranges that fail the checks of a backfill, and a target that does not
\* answer, end the run with 1 before anything is read.
StartRun(p) ==
    /\ ~Busy(p) /\ runs < MaxRuns
    /\ \E mode \in Modes[p], desde, hasta \in Days :
        /\ desde <= hasta /\ hasta < hoy
        /\ mode # "backfill" => desde = 1 /\ hasta = 1
        /\ job' = [job EXCEPT ![p] =
                [pc |-> "next", mode |-> mode, desde |-> desde, hasta |-> hasta,
                 todo |-> Listas[p], emp |-> "none", prog |-> <<>>, cache |-> NoCache,
                 lote |-> {}, visto |-> TRUE, cargadas |-> {}, errores |-> 0]]
    /\ runs' = runs + 1
    /\ salida' = [salida EXCEPT ![p] = Nothing]
    /\ UNCHANGED <<version, hoy, erp, tabla, limpios, faults, posts, stock>>

\* run: the next company's source answers, and its mode begins.  daily and
\* rolling ask for the date now, so a run over midnight changes days between
\* two companies.
Connect(p) ==
    /\ Busy(p) /\ job[p].pc = "next" /\ job[p].todo # <<>>
    /\ job' = [job EXCEPT ![p] =
            [job[p] EXCEPT !.pc = "step", !.emp = Head(job[p].todo), !.todo = Tail(@),
                           !.prog = Program(job[p].mode, job[p].desde, job[p].hasta)]]
    /\ UNCHANGED <<version, hoy, erp, tabla, salida, limpios, bounds>>

\* A bug: the company is skipped without being counted.
ConnectFailsSilently(p) ==
    /\ Busy(p) /\ job[p].pc = "next" /\ job[p].todo # <<>> /\ faults < MaxFaults
    /\ job' = [job EXCEPT ![p].todo = Tail(@)]
    /\ faults' = faults + 1
    /\ UNCHANGED <<version, hoy, erp, tabla, salida, limpios, runs, posts, stock>>

\* run: the source does not answer; the company is skipped and counted.
ConnectFails(p) ==
    /\ Busy(p) /\ job[p].pc = "next" /\ job[p].todo # <<>> /\ faults < MaxFaults
    /\ job' = [job EXCEPT ![p] =
            [job[p] EXCEPT !.todo = Tail(@), !.errores = @ + 1]]
    /\ faults' = faults + 1
    /\ UNCHANGED <<version, hoy, erp, tabla, salida, limpios, runs, posts, stock>>

\* A bug: what was read for the first day serves for all of them.
AnyMonthIsKept(j, d) == j.cache # NoCache
MonthIsKept(j, d) == j.cache.mes = Lapso[d]

\* process_backfill of v3 and v4, rolling and daily of v4: when the month of
\* the day is not the one kept, read its inventory (and movements).
ReadMonth(p) ==
    /\ Ready(p, "load") /\ Keeps(job[p])
    /\ ~MonthIsKept(job[p], Step(p).desde)
    /\ job' = [job EXCEPT ![p].cache = MonthReading(job[p].emp, Lapso[Step(p).desde])]
    /\ UNCHANGED <<version, hoy, erp, tabla, salida, limpios, bounds>>

\* extract_day, fetch_rows, or the merge of a day's sales with the month.
ExtractStep(p) ==
    /\ Ready(p, "load")
    /\ Keeps(job[p]) => MonthIsKept(job[p], Step(p).desde)
    /\ \E lote \in Readings(job[p].emp, job[p], Step(p)) :
        job' = [job EXCEPT ![p] = [@ EXCEPT !.pc = "commit", !.lote = lote, !.visto = TRUE]]
    /\ UNCHANGED <<version, hoy, erp, tabla, salida, limpios, bounds>>

\* Two rows with one key in a batch: ON CONFLICT DO UPDATE refuses to touch a
\* row twice.
Repeated(lote) == \E r, s \in lote : r # s /\ r.item = s.item /\ r.day = s.day

\* load_rows: every row of the batch in one transaction.
Load(p) ==
    LET e == job[p].emp
        dias == {<<e, d>> : d \in Rango(Step(p).desde, Step(p).hasta)}
    IN  /\ Busy(p) /\ job[p].pc = "commit" /\ ~Repeated(job[p].lote)
        /\ tabla' = [tabla EXCEPT ![e] = [x \in Items \X Days |->
                LET nuevas == {r \in job[p].lote : r.item = x[1] /\ r.day = x[2]}
                    r == CHOOSE n \in nuevas : TRUE
                IN  IF nuevas = {} THEN @[x]
                    ELSE IF @[x] = NoRow THEN r
                    ELSE Upsert(Step(p).upsert, @[x], r)]]
        /\ limpios' = IF job[p].visto THEN limpios \cup dias ELSE limpios \ dias
        /\ job' = [job EXCEPT ![p] = Advance(@)]
        /\ UNCHANGED <<version, hoy, erp, salida, bounds>>

\* lock_inventory_snapshot: every row of the day, in a commit of its own.
Lock(p) ==
    LET e == job[p].emp IN
    /\ Ready(p, "lock")
    /\ tabla' = [tabla EXCEPT ![e] = [x \in Items \X Days |->
            IF x[2] = Step(p).desde /\ @[x] # NoRow
            THEN [@[x] EXCEPT !.bloqueada = TRUE] ELSE @[x]]]
    /\ job' = [job EXCEPT ![p] = Advance(@)]
    /\ UNCHANGED <<version, hoy, erp, salida, limpios, bounds>>

\* run, except psycopg2.Error: a query or a commit fails.
StepFails(p) ==
    /\ Busy(p) /\ job[p].pc \in {"step", "commit"}
    /\ \/ Repeated(job[p].lote) /\ faults' = faults
       \/ faults < MaxFaults /\ faults' = faults + 1
    /\ job' = [job EXCEPT ![p] = GiveUp(@)]
    /\ UNCHANGED <<version, hoy, erp, tabla, salida, limpios, runs, posts, stock>>

\* run: no company is left; the exit code says whether one of them failed.
Exit(p) ==
    /\ Busy(p) /\ job[p].pc = "next" /\ job[p].todo = <<>>
    /\ salida' = [salida EXCEPT ![p] =
            [cargadas |-> job[p].cargadas, errores |-> job[p].errores,
             lista |-> {Listas[p][k] : k \in 1 .. Len(Listas[p])},
             code |-> IF job[p].errores = 0 THEN 0 ELSE 1]]
    /\ job' = [job EXCEPT ![p] = Idle]
    /\ UNCHANGED <<version, hoy, erp, tabla, limpios, bounds>>

\* The process is killed between two commits.
CrashRun(p) ==
    /\ Busy(p) /\ faults < MaxFaults
    /\ job' = [job EXCEPT ![p] = Idle]
    /\ faults' = faults + 1
    /\ UNCHANGED <<version, hoy, erp, tabla, salida, limpios, runs, posts, stock>>

-----------------------------------------------------------------------------
(* The source.                                                             *)

\* A ticket or a movement is posted, on its day or later.
PostTicket ==
    /\ posts < MaxPosts
    /\ \E t \in Documents :
        /\ t \notin erp[t.emp].docs /\ t.day <= hoy
        /\ erp' = [erp EXCEPT ![t.emp].docs = @ \cup {t}]
        /\ limpios' = limpios \ {<<t.emp, t.day>>}
        /\ job' = [p \in Procs |->
                IF Busy(p) /\ job[p].pc = "commit" /\ job[p].emp = t.emp
                   /\ t.day \in Rango(Step(p).desde, Step(p).hasta)
                THEN [job[p] EXCEPT !.visto = FALSE] ELSE job[p]]
    /\ posts' = posts + 1
    /\ UNCHANGED <<version, hoy, tabla, salida, runs, faults, stock>>

\* The running balance of a month moves, or the month gets its first line.
SummaryMoves ==
    /\ stock < MaxStock
    /\ \E c \in Cambios :
        /\ c.lapso <= Lapso[hoy] /\ erp[c.emp].resumen[c.item][c.lapso] # c.line
        /\ erp' = [erp EXCEPT ![c.emp].resumen[c.item][c.lapso] = c.line]
    /\ stock' = stock + 1
    /\ UNCHANGED <<version, hoy, tabla, job, salida, limpios, runs, faults, posts>>

DateTurns ==
    /\ hoy + 1 \in Days
    /\ hoy' = hoy + 1
    /\ UNCHANGED <<version, erp, tabla, job, salida, limpios, bounds>>

RunSteps(p) == \/ Connect(p) \/ ReadMonth(p) \/ ExtractStep(p) \/ Load(p) \/ Lock(p)
          \/ Exit(p) \/ ConnectFails(p) \/ StepFails(p)

JobsNext == \/ \E p \in Procs : StartRun(p) \/ RunSteps(p) \/ CrashRun(p)
        \/ PostTicket \/ SummaryMoves \/ DateTurns

JobsSpec == JobsInit /\ [][JobsNext]_jobsVars

-----------------------------------------------------------------------------
(* Properties.                                                             *)

PhotoKept ==
    \A e \in DOMAIN tabla : \A x \in Items \X Days :
        (tabla[e][x] # NoRow /\ tabla[e][x].bloqueada)
            => /\ tabla'[e][x] # NoRow
               /\ tabla'[e][x].bloqueada
               /\ tabla'[e][x].foto = tabla[e][x].foto

\* Once a photo is locked no later run changes it, whatever its mode and
\* whatever the stock has become: v3 and v4's CASE WHEN inv_foto_bloqueada.
LockedPhotoStays == [][(version \in {"v3", "v4"}) => PhotoKept]_jobsVars

\* A rolling run corrects sales and leaves every photo there is as it was.
RollingKeepsPhotos ==
    [][\A p \in Procs : \A e \in DOMAIN tabla : \A x \in Items \X Days :
        (Busy(p) /\ job[p].mode = "rolling" /\ Load(p) /\ tabla[e][x] # NoRow)
            => tabla'[e][x].foto = tabla[e][x].foto]_jobsVars

\* A photo is of the day's own month or, while that has no line, of an
\* earlier one, in v3 and v4 of the same year: a run over several months must
\* read again at each.  (The incremental program is left out: its rolling
\* inserts rows with the month of yesterday.)
PhotoIsOfItsMonth ==
    version # "inc" => \A e \in DOMAIN tabla : \A i \in Items, d \in Days :
        Exists(e, i, d) =>
            LET m == tabla[e][<<i, d>>].foto.lapso
            IN  /\ m <= Lapso[d]
                /\ version # "v2" => Enero[Lapso[d]] <= m
                /\ Existe(Inicial[e], i, Lapso[d]) => m = Lapso[d]

\* Where a load committed and no ticket was posted after its reading, the
\* table has what the ERP says was sold.  v2 and the incremental program
\* start from the sales: no item with a ticket is missing and none keeps an
\* old figure.  v4 starts from the inventory it keeps of the month, which may
\* be older than the first line of an item and than a row another run has
\* made of it, and keeps one unit of sale: it answers for the items with a
\* line of the year from the first and sold in a single unit, and has a row
\* of every one.
SalesAreTheErps ==
    \A e \in DOMAIN tabla : \A i \in Items, d \in Days :
        <<e, d>> \in limpios =>
            LET all == Tickets(erp[e], i, d)
                ts == IF version = "inc" THEN all ELSE Ventas(erp[e], i, d)
                meses == {m \in Lapsos : /\ Enero[Lapso[d]] <= m /\ m <= Lapso[d]
                                         /\ Existe(Inicial[e], i, m)}
            IN  /\ version \in {"v2", "inc"} =>
                        /\ ts # {} => Exists(e, i, d)
                        /\ tabla[e][<<i, d>>].sold = Qty(ts)
                /\ (/\ version = "v4" /\ i \in Tipo4 /\ meses # {} /\ Maestro[i] # 0
                    /\ Cardinality({t.unit : t \in ts}) <= 1)
                        => Exists(e, i, d) /\ tabla[e][<<i, d>>].sold = Qty(ts)

\* A run that ends says so of every company: either it was loaded to the end
\* or it is one of the errors, and the exit code is 0 only with no error.
EveryCompanyIsAccountedFor ==
    \A p \in Procs : LET s == salida[p] IN
        s.code # -1 => /\ Cardinality(s.cargadas) + s.errores = Cardinality(s.lista)
                       /\ s.code = 0 <=> s.cargadas = s.lista
=============================================================================
