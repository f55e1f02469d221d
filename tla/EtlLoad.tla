------------------------------ MODULE EtlLoad ------------------------------
(***************************************************************************)
(* The daily loads of the Dinastia pipelines                               *)
(* (src/empresas/dinastia/<pipeline>: common/loader.py, etl/*_rango.py,    *)
(* scripts/run_pipeline.py).  The three pipelines share this code but for  *)
(* their queries and tables, so a behaviour is of one of them.             *)
(*                                                                         *)
(* A run reads the days of its range from the ERP, with one query or, in   *)
(* rotacion, one per day, and writes them to PostgreSQL in batches, one    *)
(* transaction each.  Under replace_by_date the first batch that touches a *)
(* day deletes it.  Timers and operators start runs whose ranges overlap,  *)
(* and nothing keeps two of them apart but the row locks of the database,  *)
(* which runs at READ COMMITTED, and the primary key of the table, which   *)
(* margen has not.                                                         *)
(***************************************************************************)
EXTENDS Integers, FiniteSets, FiniteSetsExt

CONSTANTS
  Pipelines,   \* a subset of {"ventas", "margen", "rotacion"}
  Runs,        \* the runs that may happen, in any order or side by side
  RangeOf,     \* the days each run loads, from its mode or its arguments
  Days, Sites, \* a row stands for what one site sold in one day
  Versions,    \* what the ERP may say of a day and a site
  Holdings,    \* what the ERP may hold at first
  Before,      \* who wrote the rows the table holds at first
  BatchSize,   \* rows per batch of the source cursor
  Dependents,  \* pipelines with a materialized view over their table
  Declared,    \* pipelines with a function in refresh_views
  MaxTroubles  \* bound: changes of the ERP, runs that raise or are killed,
               \* refreshes that fail, and refreshes by hand

ASSUME EtlAssumption ==
  /\ Days \subseteq Nat /\ IsFiniteSet(Days) /\ IsFiniteSet(Sites)
  /\ RangeOf \in [Runs -> (SUBSET Days) \ {{}}]
  /\ 0 \notin Versions
  /\ Before \notin Runs
  /\ Holdings \subseteq [Days \X Sites -> Versions \union {0}]
  /\ BatchSize \in Nat \ {0}
  /\ Pipelines \subseteq {"ventas", "margen", "rotacion"}
  /\ MaxTroubles \in Nat

VARIABLES
  pipeline,  \* the pipeline whose runs these are
  source,    \* the ERP: a version of each row, or Absent
  table,     \* the committed rows of the destination
  matview,   \* the rows the dependent materialized view was built from
  rollup,    \* the rows behind what the declared function built
  pc,        \* where each run is
  days,      \* the days of its range that each run has not asked for yet
  todo,      \* the rows of the cursor that a run has not fetched yet
  batch,     \* the rows it fetched and has not committed
  cleared,   \* _cleared_partitions of each run
  seen,      \* what the DELETE a run executes saw when it began
  dels, ins, \* what the open transaction of each run deletes and inserts
  entry,     \* refresh_result: what each run reports of its matview and function
  troubles,
  \* What follows is observed by the properties only.
  snap,      \* what that query returned
  alone      \* no other run was active while the run was

built == <<matview, rollup>>
run == <<pc, days, todo, batch, cleared, seen, dels, ins, entry>>
observed == <<snap, alone>>
vars == <<pipeline, source, table, built, run, troubles, observed>>

-----------------------------------------------------------------------------
Absent == 0
Rows == Days \X Sites
DayOf(t) == t.row[1]

\* A row as a run wrote it: runs that write the same row write different tuples.
Tuple == [row : Rows, ver : Versions, by : Runs \union {Before}]
SameKey(t, u) == t.row = u.row

Ended == {"done", "failed", "killed"}
Active(r) == pc[r] \notin Ended \union {"idle"}
Others(r) == Runs \ {r}

\* The lines of the report on the refresh.
Entry == [matview : {"none", "matview", "failed"},
          function : {"none", "full", "incremental", "failed"}]
NoEntry == [matview |-> "none", function |-> "none"]

\* margen's TARGET_SCHEMA has no primary key.
Keyed == pipeline # "margen"

\* What the ERP has of some days.
Posted(D) == {k \in Rows : k[1] \in D /\ source[k] # Absent}

\* The query of each pipeline over days still to load: the days it asks for, the
\* rows that come back, and which come before a row.  ventas orders its rows by
\* the day, margen by nothing; rotacion asks for one day and orders by the site.
VentasQuery(D) ==
  [asks |-> D, rows |-> Posted(D), before |-> [k \in Rows |-> {j \in Rows : j[1] < k[1]}]]
MargenQuery(D) ==
  [asks |-> D, rows |-> Posted(D), before |-> [k \in Rows |-> {}]]
RotacionQuery(D) ==
  LET d == Min(D)
  IN [asks |-> {d}, rows |-> Posted({d}),
      before |-> [k \in Rows |-> {j \in Rows : j[2] < k[2]}]]

Query(D) ==
  CASE pipeline = "ventas" -> VentasQuery(D)
    [] pipeline = "margen" -> MargenQuery(D)
    [] pipeline = "rotacion" -> RotacionQuery(D)

\* fetchmany: the next rows of the cursor, in one of the orders it may have.
Batches(r) ==
  LET before == Query(RangeOf[r]).before
      n == Min({BatchSize, Cardinality(todo[r])})
  IN {B \in SUBSET todo[r] :
        /\ Cardinality(B) = n
        /\ \A t \in B, u \in todo[r] \ B : u.row \notin before[t.row]}

\* The days of the batch that _clear_partitions has still to delete.
Uncleared(r) == {DayOf(t) : t \in batch[r]} \ cleared[r]

-----------------------------------------------------------------------------
(* PostgreSQL.                                                             *)

\* The transactions a statement waits for: those that are deleting a row the
\* DELETE found, or under a primary key that insert or delete a row of the key
\* to insert.
WaitsFor(r) ==
  {o \in Others(r) :
     \/ pc[r] = "delete" /\ seen[r] \intersect dels[o] # {}
     \/ /\ Keyed /\ pc[r] = "clear" /\ Uncleared(r) = {}
        /\ \E t \in batch[r] :
             \E u \in ins[o] \union dels[o] : SameKey(t, u)}

\* A bug: a table without a primary key.
CollidesNever(r) == r \notin Runs

\* The primary key: a live row that this transaction does not delete.
Collides(r) ==
  Keyed /\ \E t \in batch[r], u \in table \ dels[r] : SameKey(t, u)

\* A bug: a transaction that ends keeps its row locks.
RollbackLeavingLocks(r) ==
  /\ ins' = [ins EXCEPT ![r] = {}]
  /\ seen' = [seen EXCEPT ![r] = {}]
  /\ batch' = [batch EXCEPT ![r] = {}]
  /\ UNCHANGED dels
Rollback(r) ==
  /\ dels' = [dels EXCEPT ![r] = {}]
  /\ ins' = [ins EXCEPT ![r] = {}]
  /\ seen' = [seen EXCEPT ![r] = {}]
  /\ batch' = [batch EXCEPT ![r] = {}]

-----------------------------------------------------------------------------
(* The ERP.                                                                *)

\* Sites post late, correct what they posted, and days have got lost.
ErpChanges ==
  /\ troubles < MaxTroubles
  /\ \E k \in Rows, v \in Versions \union {Absent} :
       v # source[k] /\ source' = [source EXCEPT ![k] = v]
  /\ troubles' = troubles + 1
  /\ UNCHANGED <<pipeline, table, built, run, observed>>

-----------------------------------------------------------------------------
(* A run.                                                                  *)

Goto(r, l) == pc' = [pc EXCEPT ![r] = l]

\* The rows of a query, as the run will write them.
Cursor(r, q) == {[row |-> k, ver |-> source[k], by |-> r] : k \in q.rows}

\* extract executes the query.
Ask(r) ==
  LET q == Query(days[r])
  IN /\ todo' = [todo EXCEPT ![r] = Cursor(r, q)]
     /\ snap' = [snap EXCEPT ![r] = @ \union Cursor(r, q)]
     /\ days' = [days EXCEPT ![r] = @ \ q.asks]
     /\ Goto(r, "fetch")
     /\ UNCHANGED <<pipeline, source, table, built, batch, cleared, seen, dels,
                    ins, entry, troubles>>

Extract(r) ==
  /\ pc[r] = "idle"
  /\ Ask(r)
  /\ alone' = [o \in Runs |->
       IF o = r THEN \A q \in Others(r) : ~Active(q)
       ELSE alone[o] /\ ~Active(o)]

\* rotacion's loop over the days.
ExtractNext(r) ==
  /\ pc[r] = "fetch" /\ todo[r] = {} /\ days[r] # {}
  /\ Ask(r)
  /\ UNCHANGED alone

\* The next batch of the cursor, or the end of the last one.
Fetch(r) ==
  /\ pc[r] = "fetch"
  /\ \/ /\ todo[r] # {}
        /\ batch' \in {[batch EXCEPT ![r] = B] : B \in Batches(r)}
        /\ todo' = [todo EXCEPT ![r] = @ \ batch'[r]]
        /\ Goto(r, "clear")
     \/ /\ todo[r] = {} /\ days[r] = {}
        /\ Goto(r, "refresh")
        /\ UNCHANGED <<batch, todo>>
  /\ UNCHANGED <<pipeline, source, table, built, days, cleared, seen, dels, ins,
                 entry, troubles, observed>>

\* _clear_partitions: one DELETE for each day that no earlier batch cleared, in
\* the order of the rows. It sees the rows committed when it begins.
Delete(r) ==
  /\ pc[r] = "clear"
  /\ \E d \in Uncleared(r) :
       /\ pipeline = "ventas" => d = Min(Uncleared(r))
       /\ cleared' = [cleared EXCEPT ![r] = @ \union {d}]
       /\ seen' = [seen EXCEPT ![r] = {t \in table \ dels[r] : DayOf(t) = d}]
  /\ Goto(r, "delete")
  /\ UNCHANGED <<pipeline, source, table, built, days, todo, batch, dels, ins,
                 entry, troubles, observed>>

\* A bug: the deletes are committed before the batch is inserted.
DeletedForGood(r) ==
  /\ pc[r] = "delete"
  /\ WaitsFor(r) = {}
  /\ table' = table \ seen[r]
  /\ seen' = [seen EXCEPT ![r] = {}]
  /\ Goto(r, "clear")
  /\ UNCHANGED <<pipeline, source, built, days, todo, batch, cleared, dels, ins,
                 entry, troubles, observed>>

\* The rows that others deleted meanwhile are skipped.
Deleted(r) ==
  /\ pc[r] = "delete"
  /\ WaitsFor(r) = {}
  /\ dels' = [dels EXCEPT ![r] = @ \union (seen[r] \intersect table)]
  /\ seen' = [seen EXCEPT ![r] = {}]
  /\ Goto(r, "clear")
  /\ UNCHANGED <<pipeline, source, table, built, days, todo, batch, cleared, ins,
                 entry, troubles, observed>>

Insert(r) ==
  /\ pc[r] = "clear"
  /\ Uncleared(r) = {}
  /\ WaitsFor(r) = {}
  /\ ~Collides(r)
  /\ ins' = [ins EXCEPT ![r] = batch[r]]
  /\ Goto(r, "commit")
  /\ UNCHANGED <<pipeline, source, table, built, days, todo, batch, cleared, seen,
                 dels, entry, troubles, observed>>

\* A bug: every batch clears its days again.
CommitForgetting(r) ==
  /\ pc[r] = "commit"
  /\ table' = (table \ dels[r]) \union ins[r]
  /\ cleared' = [cleared EXCEPT ![r] = {}]
  /\ Rollback(r)
  /\ Goto(r, "fetch")
  /\ UNCHANGED <<pipeline, source, built, days, todo, entry, troubles, observed>>
Commit(r) ==
  /\ pc[r] = "commit"
  /\ table' = (table \ dels[r]) \union ins[r]
  /\ Rollback(r)
  /\ Goto(r, "fetch")
  /\ UNCHANGED <<pipeline, source, built, days, todo, cleared, entry,
                 troubles, observed>>

\* What a refresh function leaves when it rebuilds the days of D: it reads the
\* matview where there is one, and skips its work when it finds it empty.
Rolled(D) ==
  LET from == IF pipeline \in Dependents THEN matview ELSE table
  IN IF from = {} THEN rollup
     ELSE {t \in rollup : DayOf(t) \notin D} \union {t \in from : DayOf(t) \in D}

\* A function with no arguments rebuilds every day, one with two the range; of
\* these, one that takes its dates as text misses the first day, for _iso writes
\* them with dashes and the tables without.
Rebuilt(r) ==
  [full |-> {Days}, incremental |-> {RangeOf[r], RangeOf[r] \ {Min(RangeOf[r])}}]

\* A bug: the functions go first.
FunctionsFirst(r) ==
  /\ pc[r] = "refresh"
  /\ matview' = IF pipeline \in Dependents THEN table ELSE matview
  /\ rollup' = IF pipeline \in Declared THEN Rolled(Days) ELSE rollup
  /\ entry' = [entry EXCEPT ![r] =
       [matview |-> IF pipeline \in Dependents THEN "matview" ELSE "none",
        function |-> IF pipeline \in Declared THEN "full" ELSE "none"]]
  /\ Goto(r, "report")
  /\ UNCHANGED <<pipeline, source, table, days, todo, batch, cleared, seen, dels,
                 ins, troubles, observed>>

\* refresh_materialized_views, after the load and whatever it loaded, begins with
\* the matviews that the catalogue says depend on the table. A query of the
\* catalogue that fails finds none; a matview that fails is an entry.
RefreshMatviews(r) ==
  /\ pc[r] = "refresh"
  /\ \/ /\ pipeline \in Dependents
        /\ matview' = table
        /\ entry' = [entry EXCEPT ![r].matview = "matview"]
        /\ UNCHANGED troubles
     \/ /\ pipeline \in Dependents
        /\ troubles < MaxTroubles /\ troubles' = troubles + 1
        /\ \E e \in {"none", "failed"} : entry' = [entry EXCEPT ![r].matview = e]
        /\ UNCHANGED matview
     \/ pipeline \notin Dependents /\ UNCHANGED <<matview, entry, troubles>>
  /\ Goto(r, "functions")
  /\ UNCHANGED <<pipeline, source, table, rollup, days, todo, batch, cleared, seen,
                 dels, ins, observed>>

\* Then the functions of refresh_views, whatever became of the matviews.
RefreshFunctions(r) ==
  /\ pc[r] = "functions"
  /\ \/ /\ pipeline \in Declared
        /\ \E e \in {"full", "incremental"} :
             /\ rollup' \in {Rolled(D) : D \in Rebuilt(r)[e]}
             /\ entry' = [entry EXCEPT ![r].function = e]
        /\ UNCHANGED troubles
     \/ /\ pipeline \in Declared
        /\ troubles < MaxTroubles /\ troubles' = troubles + 1
        /\ entry' = [entry EXCEPT ![r].function = "failed"]
        /\ UNCHANGED rollup
     \/ pipeline \notin Declared /\ UNCHANGED <<rollup, entry, troubles>>
  /\ Goto(r, "report")
  /\ UNCHANGED <<pipeline, source, table, matview, days, todo, batch, cleared, seen,
                 dels, ins, observed>>

\* What the refresh raises (it cannot connect, or an error without a text) is
\* swallowed, with the entries it had.
RefreshRaises(r) ==
  /\ pc[r] \in {"refresh", "functions"}
  /\ troubles < MaxTroubles /\ troubles' = troubles + 1
  /\ entry' = [entry EXCEPT ![r] = NoEntry]
  /\ Goto(r, "report")
  /\ UNCHANGED <<pipeline, source, table, built, days, todo, batch, cleared, seen,
                 dels, ins, observed>>

\* report_run: Telegram may not take it, which does not fail the run.
Report(r) ==
  /\ pc[r] = "report"
  /\ entry' = [entry EXCEPT ![r] = NoEntry]
  /\ Goto(r, "done")
  /\ UNCHANGED <<pipeline, source, table, built, days, todo, batch, cleared, seen,
                 dels, ins, troubles, observed>>

-----------------------------------------------------------------------------
(* How a run ends before its end.  run() closes the connection, which      *)
(* rolls the batch back, and main() catches nothing that run() raises.     *)

Abort(r, l) ==
  /\ Rollback(r)
  /\ entry' = [entry EXCEPT ![r] = NoEntry]
  /\ Goto(r, l)
  /\ UNCHANGED <<pipeline, source, table, built, days, todo, cleared, observed>>

\* The insert finds its key taken.
UniqueViolation(r) ==
  /\ pc[r] = "clear"
  /\ Uncleared(r) = {}
  /\ WaitsFor(r) = {}
  /\ Collides(r)
  /\ Abort(r, "failed")
  /\ UNCHANGED troubles

\* Two runs wait for each other: PostgreSQL ends one of them.
Deadlock(r) ==
  /\ pc[r] \in {"clear", "delete"}
  /\ \E o \in WaitsFor(r) : r \in WaitsFor(o)
  /\ Abort(r, "failed")
  /\ UNCHANGED troubles

\* The ERP or the destination drops the connection.
Raise(r) ==
  /\ troubles < MaxTroubles
  /\ Active(r) /\ pc[r] \notin {"refresh", "functions", "report"}
  /\ Abort(r, "failed")
  /\ troubles' = troubles + 1

\* TimeoutStartSec of the unit, the parent's timeout, or the machine.
Kill(r) ==
  /\ troubles < MaxTroubles
  /\ Active(r)
  /\ Abort(r, "killed")
  /\ troubles' = troubles + 1

\* run_pipeline --refresh-only, by hand and without dates: the matview, the
\* function, or one after the other.
RefreshOnly ==
  /\ troubles < MaxTroubles /\ troubles' = troubles + 1
  /\ \/ pipeline \in Dependents /\ matview' = table /\ UNCHANGED rollup
     \/ pipeline \in Declared /\ rollup' = Rolled(Days) /\ UNCHANGED matview
  /\ built' # built
  /\ UNCHANGED <<pipeline, source, table, run, observed>>

-----------------------------------------------------------------------------
Step(r) ==
  \/ ExtractNext(r) \/ Fetch(r) \/ Delete(r) \/ Deleted(r) \/ Insert(r)
  \/ Commit(r) \/ UniqueViolation(r) \/ Deadlock(r)
  \/ RefreshMatviews(r) \/ RefreshFunctions(r) \/ RefreshRaises(r) \/ Report(r)

\* The table holds the first load of some days, complete and up to date.
Init ==
  /\ pipeline \in Pipelines
  /\ source \in Holdings
  /\ \E D \in SUBSET Days :
       table = {[row |-> k, ver |-> source[k], by |-> Before] :
                  k \in {j \in Rows : j[1] \in D /\ source[j] # Absent}}
  /\ matview = IF pipeline \in Dependents THEN table ELSE {}
  /\ rollup = IF pipeline \in Declared THEN table ELSE {}
  /\ pc = [r \in Runs |-> "idle"]
  /\ days = RangeOf
  /\ todo = [r \in Runs |-> {}]
  /\ batch = [r \in Runs |-> {}]
  /\ cleared = [r \in Runs |-> {}]
  /\ seen = [r \in Runs |-> {}]
  /\ dels = [r \in Runs |-> {}]
  /\ ins = [r \in Runs |-> {}]
  /\ entry = [r \in Runs |-> NoEntry]
  /\ troubles = 0
  /\ snap = [r \in Runs |-> {}]
  /\ alone = [r \in Runs |-> FALSE]

Next ==
  \/ ErpChanges \/ RefreshOnly
  \/ \E r \in Runs : Extract(r) \/ Step(r) \/ Raise(r) \/ Kill(r)

Spec == Init /\ [][Next]_vars

\* The database answers, and a process that can go on does.
FairSpec == Spec /\ \A r \in Runs : WF_vars(Step(r))

-----------------------------------------------------------------------------
(* What a load promises.                                                   *)

DayIn(T, d) == {t \in T : DayOf(t) = d}
Loaded(r) == pc[r] \in {"refresh", "functions", "report", "done"}

\* What a day says, whoever wrote it.
Content(T, d) == {<<t.row, t.ver>> : t \in DayIn(T, d)}

TypeOK ==
  /\ source \in [Rows -> Versions \union {Absent}]
  /\ table \subseteq Tuple /\ matview \subseteq Tuple /\ rollup \subseteq Tuple
  /\ pc \in [Runs -> {"idle", "fetch", "clear", "delete", "commit", "refresh",
                      "functions", "report"} \union Ended]
  /\ pipeline \in Pipelines
  /\ days \in [Runs -> SUBSET Days]
  /\ todo \in [Runs -> SUBSET Tuple]
  /\ batch \in [Runs -> SUBSET Tuple]
  /\ snap \in [Runs -> SUBSET Tuple]
  /\ cleared \in [Runs -> SUBSET Days]
  /\ seen \in [Runs -> SUBSET Tuple]
  /\ dels \in [Runs -> SUBSET Tuple] /\ ins \in [Runs -> SUBSET Tuple]
  /\ entry \in [Runs -> Entry]
  /\ alone \in [Runs -> BOOLEAN]
  /\ troubles \in 0..MaxTroubles

(***************************************************************************)
(* A reload never takes from the readers the last row of a day, not even   *)
(* for the time it lasts, and not when the ERP has lost the day: deleting  *)
(* a day and inserting its first rows is one transaction.                  *)
(***************************************************************************)
NoDayIsEmptied ==
  [][\A d \in Days : DayIn(table, d) # {} => DayIn(table', d) # {}]_vars

(***************************************************************************)
(* A run that nothing overlaps leaves every day it read rows for as its    *)
(* query returned it: no batch undoes an earlier one, whether it starts in *)
(* the middle of a day or not, and no row of before remains.               *)
(***************************************************************************)
LoneLoadIsExact ==
  \A r \in Runs : pc[r] \in {"refresh", "functions", "report"} /\ alone[r] =>
    \A d \in RangeOf[r] :
      DayIn(snap[r], d) # {} => DayIn(table, d) = DayIn(snap[r], d)

(***************************************************************************)
(* Overlapping runs that read the same and all end well leave what they    *)
(* read, and each row once: the rows one deletes of the other are its own  *)
(* to insert, and where they meet the primary key makes one of them fail.  *)
(* (margen has no such key.)                                               *)
(***************************************************************************)
AgreeingLoadsAreExact ==
  Keyed /\ (\A r \in Runs : pc[r] = "idle" \/ Loaded(r)) =>
    \A d \in Days :
      LET L == {r \in Runs : Loaded(r) /\ DayIn(snap[r], d) # {}}
      IN (\A r, q \in L : Content(snap[r], d) = Content(snap[q], d)) =>
           \A r \in L :
             /\ Content(table, d) = Content(snap[r], d)
             /\ Cardinality(DayIn(table, d)) = Cardinality(Content(table, d))

\* The entries say that the day was rebuilt, from a matview refreshed before.
Rebuilds(r, d) ==
  /\ pipeline \in Dependents => entry[r].matview = "matview"
  /\ \/ entry[r].function = "full"
     \/ entry[r].function = "incremental" /\ d # Min(RangeOf[r])

(***************************************************************************)
(* A matview that a report shows as refreshed has every day the run loaded *)
(* and no row of before of them, whatever ran beside it; and if its        *)
(* function is shown as done too, what this built of the days of a run     *)
(* that nothing overlapped is what the query of the run returned, except   *)
(* the first day of an incremental rebuild.                                *)
(***************************************************************************)
ReportedRefreshShowsTheLoad ==
  \A r \in Runs : pc[r] = "report" =>
    \A d \in RangeOf[r] : DayIn(snap[r], d) # {} =>
      /\ entry[r].matview = "matview" =>
           DayIn(matview, d) # {} /\ \A t \in DayIn(matview, d) : t.by # Before
      /\ alone[r] /\ Rebuilds(r, d) => DayIn(rollup, d) = DayIn(snap[r], d)

(***************************************************************************)
(* No run waits for ever for the rows of another, whether that one ends    *)
(* well, fails or is killed in the middle of a transaction.                *)
(***************************************************************************)
EveryRunEnds == \A r \in Runs : Active(r) ~> ~Active(r)

(***************************************************************************)
(* What the docstring of margen_rango.py:17 says: running the load again   *)
(* does not duplicate rows.                                                *)
(***************************************************************************)
RerunDoesNotDuplicate == \A t, u \in table : SameKey(t, u) => t = u

=============================================================================
