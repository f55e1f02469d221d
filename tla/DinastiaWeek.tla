--------------------------- MODULE DinastiaWeek ----------------------------
(***************************************************************************)
(* The weeks of one Dinastia pipeline: stores post their days to the ERP,  *)
(* some of them late; the timers start the daily, weekly and monthly loads *)
(* (run_pipeline.py); the server goes down and comes back; an operator     *)
(* runs the orchestrator; every load reports on itself, and the monitor    *)
(* judges the daily service by what systemd says of it.                    *)
(*                                                                         *)
(* A load commits its days in order, and loads follow one another.  What   *)
(* happens inside a day, and when two loads write the same days, is        *)
(* EtlLoad's; days the ERP loses are Repair's.                             *)
(***************************************************************************)
EXTENDS SystemdStatus, LoadReport, Orchestrator

CONSTANTS
  Weekdays,     \* what sunday may be, of 0..6
  Start,        \* the day in whose evening the model begins, days before it loaded
  LateSets,     \* which days of stores may be late, with the rows they post in time
  Part, Full,   \* rows of a day of a store, posted in part and in full
  MaxTroubles,  \* bound: outages, loads that raise, runs by hand, late stores
  LastTrouble   \* bound: the last day on which one of these begins

Loader == "ventas_linea"  \* the ETL that writes the table

ASSUME WeekAssumption ==
  /\ Loader \in ETLs
  /\ Weekdays \subseteq 0..6 /\ Start \in Days
  /\ \A l \in LateSets :
       /\ DOMAIN l \subseteq {k \in Keys : k[1] >= Start}
       /\ \A k \in DOMAIN l : l[k] \in {0, Part}
  /\ Part \in Nat \ {0} /\ Full \in Nat /\ Part < Full
  /\ MaxTroubles \in Nat /\ LastTrouble \in Days

VARIABLES
  hoy, part,       \* the day, and the part of it
  sunday,          \* which days are Sundays
  up,              \* the server is running
  due,             \* the modes whose timer elapsed and whose load did not start
  runs,            \* the load of each mode
  erp, gcp,        \* the rows of each day and store, there and in the table
  late,            \* the days of stores that are late, with the rows posted in time
  postedAt,        \* when the rest of these was posted, zero before it
  report,          \* the report that has just gone out, if one has
  \* What follows is observed by the properties only, or bounds the model.
  outages, faults, byHand,
  outage,          \* the days the server went down and came back
  weeklyDone       \* a weekly load has ended well since the server went down

world == <<sunday, late>>
tables == <<erp, gcp>>
troubles == <<outages, faults, byHand, outage>>
weekVars == <<vars, orchestrator, hoy, part, world, up, due, runs, tables,
              postedAt, report, troubles, weeklyDone>>

-----------------------------------------------------------------------------
Now == 3 * hoy + part
Late == DOMAIN late
Idle == [stage |-> "idle"]
Active(m) == runs[m] # Idle
NoLoad == \A m \in Modes : ~Active(m)
Quiet == up /\ due = {} /\ NoLoad /\ orq # "running"
MayGetInTrouble ==
  outages + faults + byHand < MaxTroubles - (IF Late = {} THEN 0 ELSE 1)
  /\ hoy <= LastTrouble

\* The table once the days of a range are loaded as the ERP has them.
LoadedDays(from, to) ==
  [k \in Keys |-> IF from <= k[1] /\ k[1] <= to /\ erp[k] > 0 THEN erp[k] ELSE gcp[k]]

-----------------------------------------------------------------------------
(* Stores and time.                                                        *)

\* The stores that were late post the rest.
Post ==
  /\ postedAt = 0 /\ Late # {} /\ \A k \in Late : k[1] < hoy
  /\ erp' = [k \in Keys |-> IF k \in Late THEN Full ELSE erp[k]]
  /\ postedAt' = Now
  /\ UNCHANGED <<vars, orchestrator, hoy, part, world, up, due, runs, gcp, troubles, weeklyDone>>

\* At midnight the stores that are not late have posted their day.
Closed(d) ==
  erp' = [k \in Keys |->
            IF k[1] # d THEN erp[k] ELSE IF k \in Late THEN late[k] ELSE Full]

\* Loads have time limits that keep them within a part of the day. A timer that
\* elapses while the server is down is Persistent: it is due when it comes back.
TimePasses ==
  /\ up => Quiet
  /\ \/ part # Evening /\ hoy' = hoy /\ part' = part + 1 /\ UNCHANGED erp
     \/ /\ part = Evening /\ hoy + 1 \in Days
        /\ hoy' = hoy + 1 /\ part' = Night /\ Closed(hoy)
  /\ due' = due \cup {m \in Modes : Elapses(m, hoy', part', sunday)}
  /\ Tick
  /\ ForgetRun
  /\ UNCHANGED <<world, up, runs, gcp, postedAt, troubles, weeklyDone>>

\* The server goes down, with the loads that are running; a batch that was
\* committed stays.
GoesDown ==
  /\ up /\ MayGetInTrouble /\ orq # "running"
  /\ up' = FALSE
  /\ Reboot
  /\ runs' = [m \in Modes |-> Idle]
  /\ outages' = outages + 1
  /\ outage' = <<hoy, hoy>>
  /\ weeklyDone' = FALSE
  /\ UNCHANGED <<orchestrator, hoy, part, world, due, tables, postedAt, faults,
                 byHand>>

ComesBack ==
  /\ ~up
  /\ up' = TRUE
  /\ outage' = [outage EXCEPT ![2] = hoy]
  /\ UNCHANGED <<vars, orchestrator, hoy, part, world, due, runs, tables,
                 postedAt, outages, faults, byHand, weeklyDone>>

-----------------------------------------------------------------------------
(* A load, run_pipeline.py --mode.                                         *)

OfDaily(m, A, B) == IF m = "daily" THEN A ELSE B

\* The timer starts the service, and main() computes the range.
Starts(m) ==
  /\ up /\ m \in due /\ NoLoad
  /\ due' = due \ {m}
  /\ LET range == _range_for_mode(m, hoy)
     IN runs' = [runs EXCEPT ![m] =
                   [stage |-> "load", from |-> range[1], to |-> range[2],
                    stats |-> {}, src |-> {}]]
  /\ OfDaily(m, TimerFires, UNCHANGED vars)
  /\ UNCHANGED <<orchestrator, hoy, part, world, up, tables, postedAt,
                 troubles, weeklyDone>>

\* run() has loaded the range.
Loads(m) ==
  /\ runs[m].stage = "load"
  /\ gcp' = LoadedDays(runs[m].from, runs[m].to)
  /\ runs' = [runs EXCEPT ![m] = [@ EXCEPT !.stage = "stats"]]
  /\ UNCHANGED <<vars, orchestrator, hoy, part, world, up, due, erp, postedAt, troubles, weeklyDone>>

\* run() raises, or the service exceeds its time, with some days committed. There
\* is no report: main() does not catch it.
Raises(m) ==
  /\ runs[m].stage = "load" /\ MayGetInTrouble
  /\ \E d \in runs[m].from - 1 .. runs[m].to : gcp' = LoadedDays(runs[m].from, d)
  /\ runs' = [runs EXCEPT ![m] = Idle]
  /\ OfDaily(m, Fails, UNCHANGED vars)
  /\ faults' = faults + 1
  /\ UNCHANGED <<orchestrator, hoy, part, world, up, due, erp, postedAt,
                 outages, byHand, outage, weeklyDone>>

\* report_run asks the destination, then the ERP, then the destination again;
\* each may not answer.
Answers(x) == {{}, {x}}

AsksDestination(m) ==
  /\ runs[m].stage = "stats"
  /\ \E stats \in Answers(_range_stats(gcp, runs[m].from, runs[m].to)) :
       runs' = [runs EXCEPT ![m] = [@ EXCEPT !.stage = "source", !.stats = stats]]
  /\ UNCHANGED <<vars, orchestrator, hoy, part, world, up, due, tables, postedAt, troubles, weeklyDone>>

AsksErp(m) ==
  /\ runs[m].stage = "source"
  /\ \E src \in Answers(_source_stats(erp, runs[m].from, runs[m].to)) :
       runs' = [runs EXCEPT ![m] = [@ EXCEPT !.stage = "report", !.src = src]]
  /\ UNCHANGED <<vars, orchestrator, hoy, part, world, up, due, tables, postedAt, troubles, weeklyDone>>

\* The report goes out, whether or not the views could be refreshed.
Reports(m) ==
  /\ runs[m].stage = "report"
  /\ LET r == runs[m] IN
     \E refreshed \in BOOLEAN :
     \E dest \in Answers(_dest_sedes_por_dia(gcp, r.from, r.to)),
        quality \in Answers(_quality_stats(gcp, r.from, r.to, hoy)) :
       report' =
         {[head |-> head(r.stats, r.src, dest, quality, refreshed, r.from, r.to, hoy),
           mode |-> m, src |-> r.src, from |-> r.from, to |-> r.to,
           answered |-> r.stats # {} /\ r.src # {} /\ dest # {} /\ quality # {}]}
  /\ runs' = [runs EXCEPT ![m] = Idle]
  /\ OfDaily(m, Succeeds, UNCHANGED vars)
  /\ weeklyDone' = (weeklyDone \/ m = "weekly")
  /\ UNCHANGED <<orchestrator, hoy, part, world, up, due, tables, postedAt,
                 troubles>>

-----------------------------------------------------------------------------
(* The orchestrator, by hand.                                              *)

OrchestratorOnly ==
  UNCHANGED <<vars, hoy, part, world, up, due, runs, erp, postedAt,
              outages, faults, outage, weeklyDone>>

RunsByHand ==
  /\ Quiet /\ MayGetInTrouble
  /\ \/ StartRun(<<get_yesterday(hoy), get_yesterday(hoy)>>)
     \/ IF should_run_validation(hoy, ValidationWeeks)
          THEN StartRun(get_month_range(hoy)) ELSE AbortRun
  /\ byHand' = byHand + 1
  /\ OrchestratorOnly /\ UNCHANGED gcp

\* An attempt that ends badly has committed some days.
AttemptEnds(e) ==
  /\ \/ /\ EndAttempt(e, "success")
        /\ gcp' = IF e = Loader THEN LoadedDays(rango[1], rango[2]) ELSE gcp
     \/ /\ \E status \in {"failed", "timeout"} : EndAttempt(e, status)
        /\ \E d \in {rango[1] - 1, rango[2]} :
             gcp' = IF e = Loader THEN LoadedDays(rango[1], d) ELSE gcp
  /\ OrchestratorOnly /\ UNCHANGED byHand

OrchestratorStep ==
  /\ Exit \/ \E e \in ETLs : ScriptNotFound(e) \/ BeginAttempt(e) \/ RunRaises(e)
  /\ OrchestratorOnly /\ UNCHANGED <<gcp, byHand>>

-----------------------------------------------------------------------------
WeekInit ==
  /\ Init /\ InitOrchestrator
  /\ hoy = Start /\ part = Evening
  /\ sunday \in Weekdays
  /\ up = TRUE
  /\ due = {}
  /\ runs = [m \in Modes |-> Idle]
  /\ erp = [k \in Keys |-> IF k[1] < Start THEN Full ELSE 0]
  /\ gcp = erp
  /\ late \in LateSets
  /\ postedAt = 0
  /\ report = {}
  /\ outages = 0 /\ faults = 0 /\ byHand = 0
  /\ outage = <<0, 0>>
  /\ weeklyDone = FALSE

WeekNext ==
  \/ /\ \/ Post \/ TimePasses \/ GoesDown \/ ComesBack
        \/ \E m \in Modes : \/ Starts(m) \/ Loads(m) \/ Raises(m)
                            \/ AsksDestination(m) \/ AsksErp(m)
        \/ RunsByHand \/ OrchestratorStep \/ \E e \in ETLs : AttemptEnds(e)
     /\ report' = {}
  \/ \E m \in Modes : Reports(m)

WeekSpec == WeekInit /\ [][WeekNext]_weekVars

-----------------------------------------------------------------------------
(* What the timetable promises.                                            *)

\* When the day of a store was posted in full, {} if it was not.
Posted(k) ==
  IF k \in Late THEN {postedAt} \ {0}
  ELSE {t \in {3 * (k[1] + 1)} : t <= Now}

\* The day of the first daily load that starts after moment t.
FirstDaily(t) == IF t % 3 = Night THEN t \div 3 ELSE t \div 3 + 1
HasHadDaily(t) == 3 * FirstDaily(t) + Day <= Now

(***************************************************************************)
(* What a store posts late is picked up by the daily load of the next      *)
(* morning, up to Lookback days late, as run_pipeline.py:43 says; nobody   *)
(* has to look at the day again.                                           *)
(***************************************************************************)
LateSalesArrive ==
  Quiet /\ outages + faults + byHand = 0 =>
    \A k \in Keys : \A t \in Posted(k) :
      HasHadDaily(t) /\ FirstDaily(t) - k[1] <= Lookback + 1 => gcp[k] = Full

(***************************************************************************)
(* The server may be down once for a week: the loads that were due are     *)
(* made when it comes back, the daily one first reaches back Lookback      *)
(* days, and the next weekly load finds every day that is still missing.   *)
(***************************************************************************)
OutageIsRecovered ==
  Quiet /\ outages <= 1 /\ faults = 0 /\ weeklyDone /\ outage[2] - outage[1] <= 7 =>
    \A k \in Keys \ Late : \A t \in Posted(k) : HasHadDaily(t) => gcp[k] = Full

(***************************************************************************)
(* A report that says all is well, of a run whose questions were answered, *)
(* means that the table has rows of every watched store and day that the   *)
(* ERP had rows of, and that every watched store keeps posting: neither    *)
(* hides behind the total of the others, or behind having been silent for  *)
(* so long that the look-back does not find the store.                     *)
(***************************************************************************)
GreenMeansLoaded ==
  \A r \in report : r.head = "bien" /\ r.answered =>
    \A e \in r.src, s \in Watch :
      /\ \A d \in _range_days(r.from, r.to) : <<d, s>> \in e.por_dia => gcp[<<d, s>>] > 0
      /\ \E d \in e.last[s] : r.to - d < SilentDays

(***************************************************************************)
(* When the monitor says nothing of a daily service at rest that is not    *)
(* due, the sales of yesterday are in the table, but for what the stores   *)
(* had not posted.                                                         *)
(***************************************************************************)
SilentMeansYesterday ==
  up /\ ~active /\ "daily" \notin due /\ evaluate_systemd = "INFO" =>
    \A s \in Stores : \A k \in {<<IF part = Night THEN hoy - 2 ELSE hoy - 1, s>>} \cap Keys :
      k \notin Late => gcp[k] = Full

(***************************************************************************)
(* When the orchestrator ends with zero and no future was lost, everything *)
(* of its range that had been posted before (at midnight, or late in an    *)
(* earlier part of the day) is in the table, whatever was tried again over *)
(* the batches that a failed attempt had committed.                        *)
(***************************************************************************)
ZeroMeansLoaded ==
  exitCode = {0} /\ (\A e \in ETLs : results[e] \in Statuses) =>
    \A k \in Keys : rango[1] <= k[1] /\ k[1] <= rango[2] =>
      \A t \in Posted(k) : t < Now \/ k \notin Late => gcp[k] = Full

=============================================================================
