------------------------------- MODULE Repair -------------------------------
(***************************************************************************)
(* Repairing the gaps of a destination table                               *)
(* (src/empresas/dinastia/tools/dinastia_ops.py, "reparar --aplicar"): ask *)
(* the ERP, ask the destination, plan, and run the deployed pipeline over  *)
(* one range after the other, while the ERP goes on changing and the       *)
(* timers load days of their own.  The verdicts are as old as the plan.    *)
(*                                                                         *)
(* A day is loaded whole here or fails after some of its sites; EtlLoad    *)
(* has the batches.  The query of rotacion returns a grid: every site of   *)
(* the inventory, with nothing sold where the ERP has no sales.  The plan  *)
(* is Stretches; PlanIsStretches says that the loop of plan_ranges, which  *)
(* Backfill has too, finds the same.                                       *)
(***************************************************************************)
EXTENDS Backfill

CONSTANTS
  Days,           \* the days that are looked at
  Sites,
  Measures,       \* what a site may have sold in a day
  Total(_),       \* SUM of what the sites of a day have sold
  Pipelines,      \* those that may be repaired
  Contents,       \* what the ERP and the destination may hold of a day at first
  MaxChanges,     \* bound: changes of the ERP
  MaxFaults,      \* bound: ranges that fail
  MaxOthers       \* bound: days the timers load

ASSUME RepairAssumption ==
  /\ Days \subseteq Nat /\ IsFiniteSet(Days) /\ IsFiniteSet(Sites)
  /\ Measures \subseteq Nat
  /\ 0 \in Measures
  /\ Pipelines \subseteq {"ventas", "margen", "rotacion"}
  /\ MaxChanges \in Nat /\ MaxFaults \in Nat /\ MaxOthers \in Nat

NoRow == -1
Cell == Measures \union {NoRow}
Row == [Sites -> Cell]
Table == [Days -> Row]

ASSUME ContentsAssumption == Contents \subseteq Row \X Row

\* Refunds do not make up for sales: a day sums up to nothing if nothing was
\* sold.
ASSUME TotalAssumption ==
  \A row \in Row :
    /\ Total(row) \in Nat
    /\ Total(row) = 0 => \A s \in Sites : row[s] <= 0

VARIABLES
  pipeline,   \* the one that is repaired
  erp, gcp,   \* what each side holds of a day and a site
  pc,         \* where the command is
  origin,     \* leer_origen: what the ERP said
  verdicts,   \* what the plan was made from
  plan,       \* the ranges that are left
  todo,       \* the days that the run over the current range has still to load
  rc,         \* rc_total
  changes, faults,
  \* What follows is observed by the properties only.
  base,       \* what the destination held when it was asked
  stable,     \* the ERP has not changed since it was asked
  others      \* the days that a timer has loaded since

command == <<pc, origin, verdicts, plan, todo, rc>>
observed == <<base, stable, others>>
vars == <<pipeline, erp, gcp, command, changes, faults, observed>>

-----------------------------------------------------------------------------
(* What a day looks like from outside.                                     *)

\* Only ventas measures what the ERP does (compara_medida).
CompareMeasure == pipeline = "ventas"
Grid == pipeline = "rotacion"

SitesOf(row) == {s \in Sites : row[s] # NoRow}
Stats(row) ==
  [rows |-> Cardinality(SitesOf(row)),
   sites |-> SitesOf(row),
   measure |-> Total(row)]

Judged(source, dest) ==
  ClassifyRange(Days, source, [d \in Days |-> Stats(dest[d])], CompareMeasure)

\* The rows the query of the pipeline returns for a day.
Extracted(row) ==
  [s \in Sites |-> IF Grid /\ row[s] = NoRow THEN 0 ELSE row[s]]

\* Those of some of the sites.
Part(row, S) == [s \in Sites |-> IF s \in S THEN row[s] ELSE NoRow]

\* replace_by_date, whose first batch deletes the day: no rows, no batch.
Replaced(old, new) == IF SitesOf(new) = {} THEN old ELSE new

-----------------------------------------------------------------------------
(* Around the command.                                                     *)

ErpChanges ==
  /\ changes < MaxChanges
  /\ \E d \in Days, s \in Sites, c \in Cell :
       c # erp[d][s] /\ erp' = [erp EXCEPT ![d][s] = c]
  /\ changes' = changes + 1
  /\ stable' = FALSE
  /\ UNCHANGED <<pipeline, gcp, command, faults, base, others>>

\* A timer, or dinastia_ops cargar, loads a day without asking the rules.
OtherLoads ==
  /\ Cardinality(others) < MaxOthers
  /\ \E d \in Days \ others :
       /\ gcp' = [gcp EXCEPT ![d] = Replaced(@, Extracted(erp[d]))]
       /\ others' = others \union {d}
  /\ UNCHANGED <<pipeline, erp, command, changes, faults, base, stable>>

-----------------------------------------------------------------------------
(* reparar.                                                                *)

AskSource ==
  /\ pc = "idle"
  /\ origin' = [d \in Days |-> Stats(erp[d])]
  /\ stable' = TRUE
  /\ pc' = "asked"
  /\ UNCHANGED <<pipeline, erp, gcp, verdicts, plan, todo, rc, changes, faults, base, others>>

Plan ==
  LET v == Judged(origin, gcp)
  IN /\ pc = "asked"
     /\ verdicts' = v
     /\ plan' = Stretches(v)
     /\ base' = gcp
     /\ others' = {}
     /\ pc' = "planned"
     /\ UNCHANGED <<pipeline, erp, gcp, origin, todo, rc, changes, faults, stable>>

\* Without --aplicar, or without the operator's word, nothing is written.
Cancel ==
  /\ pc = "planned"
  /\ plan # {}
  /\ pc' = "cancelled"
  /\ UNCHANGED <<pipeline, erp, gcp, origin, verdicts, plan, todo, rc, changes, faults, observed>>

\* _correr_rango starts run_pipeline.py over the first range that is left.
StartRange ==
  /\ pc \in {"planned", "applying"}
  /\ \E r \in plan :
       /\ \A q \in plan : r[1] <= q[1]
       /\ todo' = r[1]..r[2]
       /\ plan' = plan \ {r}
  /\ pc' = "loading"
  /\ UNCHANGED <<pipeline, erp, gcp, origin, verdicts, rc, changes, faults, observed>>

\* One day, with what the ERP holds by then.
LoadDay ==
  /\ pc = "loading"
  /\ \E d \in todo :
       /\ \A e \in todo : d <= e
       /\ gcp' = [gcp EXCEPT ![d] = Replaced(@, Extracted(erp[d]))]
       /\ todo' = todo \ {d}
  /\ UNCHANGED <<pipeline, erp, pc, origin, verdicts, plan, rc, changes, faults, observed>>

\* A bug: the exit code is that of the last range.
EndRangeOverwriting ==
  /\ pc = "loading"
  /\ todo = {}
  /\ rc' = 0
  /\ pc' = "applying"
  /\ UNCHANGED <<pipeline, erp, gcp, origin, verdicts, plan, todo, changes, faults, observed>>

EndRange ==
  /\ pc = "loading"
  /\ todo = {}
  /\ pc' = "applying"
  /\ UNCHANGED <<pipeline, erp, gcp, origin, verdicts, plan, todo, rc, changes, faults, observed>>

\* A bug: the exit code of the range is not kept.
FailRangeQuietly ==
  /\ pc = "loading"
  /\ todo # {} /\ faults < MaxFaults
  /\ faults' = faults + 1
  /\ todo' = {}
  /\ pc' = "applying"
  /\ UNCHANGED <<pipeline, erp, gcp, origin, verdicts, plan, rc, changes, observed>>

\* The run fails, maybe after some of the sites of a day; the next range is
\* tried all the same.
FailRange ==
  /\ pc = "loading"
  /\ faults < MaxFaults
  /\ faults' = faults + 1
  /\ \E d \in todo :
       /\ \A e \in todo : d <= e
       /\ \E S \in SUBSET Sites :
            gcp' = [gcp EXCEPT ![d] = Replaced(@, Part(Extracted(erp[d]), S))]
  /\ rc' = 1
  /\ todo' = {}
  /\ pc' = "applying"
  /\ UNCHANGED <<pipeline, erp, origin, verdicts, plan, changes, observed>>

Finish ==
  /\ pc \in {"planned", "applying"}
  /\ plan = {}
  /\ pc' = "done"
  /\ UNCHANGED <<pipeline, erp, gcp, origin, verdicts, plan, todo, rc, changes, faults, observed>>

-----------------------------------------------------------------------------
\* A grid that was loaded holds every site.
Init ==
  /\ pipeline \in Pipelines
  /\ \E held \in [Days -> Contents] :
       /\ erp = [d \in Days |-> held[d][1]]
       /\ gcp = [d \in Days |-> held[d][2]]
  /\ Grid => \A d \in Days : SitesOf(gcp[d]) \in {{}, Sites}
  /\ pc = "idle"
  /\ origin = [d \in Days |-> Stats(erp[d])]
  /\ verdicts = [d \in Days |-> "ok"]
  /\ plan = {}
  /\ todo = {}
  /\ rc = 0
  /\ changes = 0
  /\ faults = 0
  /\ base = gcp
  /\ stable = TRUE
  /\ others = {}

Next ==
  \/ ErpChanges \/ OtherLoads
  \/ AskSource \/ Plan \/ Cancel \/ StartRange \/ LoadDay \/ EndRange
  \/ FailRange \/ Finish

Spec == Init /\ [][Next]_vars

-----------------------------------------------------------------------------
TypeOK ==
  /\ pipeline \in Pipelines
  /\ erp \in Table /\ gcp \in Table /\ base \in Table
  /\ pc \in {"idle", "asked", "planned", "applying", "loading", "cancelled",
            "done"}
  /\ origin \in [Days -> DayStats(Sites)]
  /\ verdicts \in [Days -> Verdict]
  /\ plan \subseteq Days \X Days
  /\ todo \subseteq Days
  /\ rc \in {0, 1}
  /\ changes \in 0..MaxChanges /\ faults \in 0..MaxFaults
  /\ stable \in BOOLEAN /\ others \subseteq Days

(***************************************************************************)
(* The loop of plan_ranges finds exactly the longest stretches of days     *)
(* that may be loaded and contain one worth it: no day that is blocked or  *)
(* already right is in a range, nor is a gap of the calendar, no day worth *)
(* loading is left out, and no two ranges touch.                           *)
(***************************************************************************)
PlanIsStretches == pc = "planned" => PlanRanges(verdicts) = plan

(***************************************************************************)
(* A repair changes no sale the destination held when it was asked,        *)
(* whatever the ERP loses meanwhile and wherever a load fails, except on   *)
(* days that another run has loaded since.                                 *)
(***************************************************************************)
SalesAreKept ==
  \A d \in Days \ others, s \in Sites :
    pc # "idle" /\ base[d][s] > 0 => gcp[d][s] = base[d][s]

(***************************************************************************)
(* When a repair has ended well, and neither the ERP nor another run has   *)
(* changed anything since, asking again finds nothing to load.             *)
(***************************************************************************)
NothingIsLeft ==
  pc = "done" /\ rc = 0 /\ stable /\ others = {} =>
    Stretches(Judged([d \in Days |-> Stats(erp[d])], gcp)) = {}

(***************************************************************************)
(* When a repair has ended well, and neither the ERP nor another run has   *)
(* changed anything since, the destination holds of each day that was      *)
(* worth loading what the ERP holds of every site.  NothingIsLeft does not *)
(* say so: classify_day calls a day "ok" that lacks some of its sites, so  *)
(* of a range that fails half way through a day only the exit code tells.  *)
(***************************************************************************)
RepairedDaysAreWhole ==
  pc = "done" /\ rc = 0 /\ stable /\ others = {} =>
    \A d \in Days :
      verdicts[d] \in WorthLoading =>
        \A s \in SitesOf(erp[d]) : gcp[d][s] = erp[d][s]

(***************************************************************************)
(* What the docstring of backfill.py:10 says: a reload of days that the    *)
(* ERP has lost does not delete them, because nothing comes to replace     *)
(* them with.                                                              *)
(***************************************************************************)
LostDaysSurvive ==
  [][\A d \in Days :
       SitesOf(erp[d]) = {} => \A s \in Sites : gcp[d][s] > 0 => gcp'[d][s] > 0]_vars

(***************************************************************************)
(* What spec 008 says (spec.md:25): the repair cannot delete what is       *)
(* there.                                                                  *)
(***************************************************************************)
RepairDeletesNothing ==
  [][LoadDay \/ FailRange =>
       \A d \in Days, s \in Sites : gcp[d][s] > 0 => gcp'[d][s] > 0]_vars

(***************************************************************************)
(* What the docstring of Verdict.SOURCE_EMPTY says (backfill.py:49): the   *)
(* destination has rows that the source no longer has.  A day that was     *)
(* empty on both sides, and that the ERP has not touched since, is none.   *)
(***************************************************************************)
EmptyDaysStayUnblocked ==
  stable /\ others = {} =>
    \A d \in Days :
      verdicts[d] = "both_empty" =>
        Judged([e \in Days |-> Stats(erp[e])], gcp)[d] # "source_empty"

=============================================================================
