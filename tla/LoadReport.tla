---------------------------- MODULE LoadReport -----------------------------
(***************************************************************************)
(* The health-check a Dinastia load sends when it ends (report_run of      *)
(* common/post_run.py, which the three pipelines share): what it asks of   *)
(* the destination and of the ERP, and the severity it concludes.          *)
(*                                                                         *)
(* The ERP and the table are functions that give the rows of a day and a   *)
(* store.  What a probe answers is a set with one element, or the empty    *)
(* set when it failed: every probe fails softly.                           *)
(***************************************************************************)
EXTENDS LoadCalendar, FiniteSets, Functions

CONSTANTS
  Days, Stores,
  Watch,         \* the stores whose silence is told
  SilentDays,    \* days a store may pass without posting
  StoreLookback, \* days back that the last sale of a store is looked for
  Normal         \* the median of the rows of a day

ASSUME ReportAssumption ==
  /\ Days \subseteq Nat \ {0} /\ IsFiniteSet(Days)
  /\ IsFiniteSet(Stores) /\ Watch \subseteq Stores
  /\ SilentDays \in Nat /\ StoreLookback \in Nat /\ Normal \in Nat \ {0}

Keys == Days \X Stores

\* The days of a range that the model tells apart.
_range_days(from, to) == {d \in Days : from <= d /\ d <= to}

RowsOf(T, from, to) ==
  SumFunctionOnSet(T, {k \in Keys : k[1] \in _range_days(from, to)})

-----------------------------------------------------------------------------
(* The destination.                                                        *)

DaysWith(T) == {k[1] : k \in {j \in Keys : T[j] > 0}}

\* The rows of the range and the last day of the table, zero for an empty one.
_range_stats(T, from, to) ==
  [rows |-> RowsOf(T, from, to), last |-> Max(DaysWith(T) \cup {0})]

\* The stores that have rows, day by day.
_dest_sedes_por_dia(T, from, to) ==
  {k \in Keys : k[1] \in _range_days(from, to) /\ T[k] > 0}

\* The median counts for ranges of one day only.
_quality_stats(T, from, to, hoy) ==
  [median    |-> IF from = to THEN {Normal} ELSE {},
   yesterday |-> RowsOf(T, get_yesterday(hoy), get_yesterday(hoy))]

-----------------------------------------------------------------------------
(* The ERP.                                                                *)

\* The last sale of each store that sold since the look-back began.
LastSale(S, s, to) ==
  LET sold == {d \in Days : d >= to - StoreLookback /\ S[<<d, s>>] > 0}
  IN IF sold = {} THEN {} ELSE {Max(sold)}

_source_stats(S, from, to) ==
  [rows    |-> RowsOf(S, from, to),
   last    |-> [s \in Stores |-> LastSale(S, s, to)],
   por_dia |-> _dest_sedes_por_dia(S, from, to)]

-----------------------------------------------------------------------------
(* The warnings of report_run.                                             *)

\* Nothing was loaded: three situations that ask for opposite actions.
NoRows(stats, src) ==
  {w \in {"sin datos", "origen vacio", "carga perdida"} :
     \E t \in stats :
       /\ t.rows = 0
       /\ w = IF src = {} THEN "sin datos"
              ELSE IF \A e \in src : e.rows = 0 THEN "origen vacio"
              ELSE "carga perdida"}

\* A bug: a store that the look-back does not find is not silent.
SilentStoresSeen(src, to) ==
  {s \in Watch : \E e \in src : \E d \in e.last[s] : to - d >= SilentDays}

\* A store without posting: the ones seen, and those that were not even seen.
SilentStores(src, to) ==
  {s \in Watch : \E e \in src : \/ \E d \in e.last[s] : to - d >= SilentDays
                                \/ e.last[s] = {}}

\* SEDE SIN CARGAR. A map without entries reads like a map that failed.
MissingStores(src, dest) ==
  {k \in Keys : /\ k[2] \in Watch
                /\ \E e \in src : k \in e.por_dia
                /\ \E m \in dest : m # {} /\ k \notin m}

Stale(stats, to) == \E t \in stats : t.last < to

\* Less than 60 % of what is normal for a day.
LowVolume(stats, quality) ==
  \E t \in stats, q \in quality :
    t.rows > 0 /\ \E n \in q.median : 10 * t.rows < 6 * n

YesterdayEmpty(quality, from, to, hoy) ==
  /\ \E q \in quality : q.yesterday = 0
  /\ from <= get_yesterday(hoy) /\ get_yesterday(hoy) <= to

\* The severity: main() gives the report of a run that ended well only, since
\* run() returns zero or raises.
head(stats, src, dest, quality, refreshed, from, to, hoy) ==
  IF ~refreshed THEN "error"
  ELSE IF \/ NoRows(stats, src) # {}
          \/ SilentStores(src, to) # {} \/ MissingStores(src, dest) # {}
          \/ Stale(stats, to)
          \/ LowVolume(stats, quality)
          \/ YesterdayEmpty(quality, from, to, hoy)
       THEN "aviso"
  ELSE "bien"

=============================================================================
