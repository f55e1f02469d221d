------------------------------ MODULE Backfill ------------------------------
(***************************************************************************)
(* Which days may be loaded again (src/os_system_agent/backfill.py): the   *)
(* verdict on one day, from what the source and the destination say of it, *)
(* and the plan, the ranges of days a repair loads.  A day is the number   *)
(* of a calendar day, a measure an amount in cents.                        *)
(***************************************************************************)
EXTENDS Integers, Sequences, FiniteSets, SequencesExt

Additive == {"missing", "both_empty", "hollow"}
WorthLoading == {"missing", "hollow"}
Risky == {"source_empty", "risky_sede", "risky_measure"}
Verdict == Additive \union Risky \union {"ok"}

\* What one side says of a day; a side that says nothing has no rows.
DayStats(Site) == [rows : Nat, sites : SUBSET Site, measure : Nat]

\* The source may fall short of the destination by less than this, in percent.
Tolerance == 1

-----------------------------------------------------------------------------
(* classify_day: the first line that applies.                              *)

Short(source, dest) ==
  dest.measure > 0 /\ 100 * source.measure < (100 - Tolerance) * dest.measure

\* A bug: any smaller measure is a hollow day, whichever sites it is of.
ClassifyDayByMeasure(source, dest, compareMeasure) ==
  IF source.rows = 0
  THEN IF dest.rows = 0 THEN "both_empty" ELSE "source_empty"
  ELSE IF dest.rows = 0 THEN "missing"
  ELSE IF dest.measure < source.measure THEN "hollow"
  ELSE IF ~(dest.sites \subseteq source.sites) THEN "risky_sede"
  ELSE IF compareMeasure /\ Short(source, dest) THEN "risky_measure"
  ELSE "ok"
ClassifyDay(source, dest, compareMeasure) ==
  IF source.rows = 0
  THEN IF dest.rows = 0 THEN "both_empty" ELSE "source_empty"
  ELSE IF dest.rows = 0 THEN "missing"
  ELSE IF ~(dest.sites \subseteq source.sites) THEN "risky_sede"
  ELSE IF dest.measure = 0 /\ source.measure > 0 THEN "hollow"
  ELSE IF compareMeasure /\ Short(source, dest) THEN "risky_measure"
  ELSE "ok"

ClassifyRange(days, source, dest, compareMeasure) ==
  [d \in days |-> ClassifyDay(source[d], dest[d], compareMeasure)]

-----------------------------------------------------------------------------
(* plan_ranges, the loop: v gives each day of a range its verdict.         *)

\* A bug: a blocked day does not end a group.
GroupedByOrder(groups, d, v) ==
  IF v[d] \notin Additive THEN groups
  ELSE IF groups # <<>>
  THEN Append(Front(groups), Append(Last(groups), d))
  ELSE <<<<d>>>>

\* One day joins the last group, or opens a group, or closes the last one with
\* an empty group that no day joins.
Grouped(groups, d, v) ==
  IF v[d] \notin Additive THEN Append(groups, <<>>)
  ELSE IF /\ groups # <<>> /\ Last(groups) # <<>>
          /\ d = Last(Last(groups)) + 1
  THEN Append(Front(groups), Append(Last(groups), d))
  ELSE Append(groups, <<d>>)

\* The days in their order.
Sorted(S) ==
  CHOOSE s \in [1..Cardinality(S) -> S] : \A i, j \in DOMAIN s : i < j => s[i] < s[j]

Groups(v) ==
  FoldLeft(LAMBDA groups, d : Grouped(groups, d, v), <<>>, Sorted(DOMAIN v))

PlanRanges(v) ==
  {<<Head(g), Last(g)>> :
     g \in {h \in ToSet(Groups(v)) : \E d \in ToSet(h) : v[d] \in WorthLoading}}

BlockedDays(v) == {d \in DOMAIN v : v[d] \in Risky}

-----------------------------------------------------------------------------
(* The plan said in one sentence: the longest stretches of days that are   *)
(* all additive and among which one is worth loading.                      *)

Stretch(v, a, b) ==
  /\ a..b \subseteq DOMAIN v
  /\ \A d \in a..b : v[d] \in Additive
  /\ \A d \in {a - 1, b + 1} \intersect DOMAIN v : v[d] \notin Additive

Stretches(v) ==
  {r \in (DOMAIN v) \X (DOMAIN v) :
     /\ r[1] <= r[2]
     /\ Stretch(v, r[1], r[2])
     /\ \E d \in r[1]..r[2] : v[d] \in WorthLoading}

=============================================================================
