------------------------- MODULE DinastiaWeekProofs -------------------------
(***************************************************************************)
(* Theorems about DinastiaWeek and the modules it composes (SystemdStatus, *)
(* LoadReport, LoadCalendar, Orchestrator), for any days, stores, calendar *)
(* and ETLs.                                                               *)
(*                                                                         *)
(* The table is never emptied of a full day, so what has to be shown of a  *)
(* day is that some load covered it once its stores had posted: each       *)
(* promise of the timetable is kept, or the load that keeps it is due or   *)
(* under way.                                                              *)
(***************************************************************************)
EXTENDS DinastiaWeek, FiniteSetTheorems, TLAPS

-----------------------------------------------------------------------------
(* The inductive invariant.                                                *)

OnTime == Keys \ Late

WeekTypes ==
  /\ hoy \in Days /\ part \in {Night, Day, Evening}
  /\ sunday \in 0..6
  /\ up \in BOOLEAN /\ due \subseteq Modes
  /\ late \in LateSets /\ postedAt \in Nat
  /\ erp \in [Keys -> Nat] /\ gcp \in [Keys -> Nat]
  /\ outages \in Nat /\ faults \in Nat /\ byHand \in Nat
  /\ outage \in Nat \X Nat /\ weeklyDone \in BOOLEAN

\* An exit time that success left behind is that of the last success.
StatusInv ==
  /\ active \in BOOLEAN
  /\ exitAge \subseteq Nat
  /\ result # "success" => outcome = "exit-code"
  /\ exitAge # {} /\ result = "success" => goodAge = exitAge

\* The ERP has the days that were closed, in full but for late stores that did
\* not post the rest; what the table has in full, the ERP has.
ErpInv ==
  /\ postedAt <= Now
  /\ \A k \in Keys : k[1] >= hoy => erp[k] = 0
  /\ \A k \in OnTime : k[1] < hoy => erp[k] = Full
  /\ postedAt # 0 => \A k \in Late :
       erp[k] = Full /\ k[1] < hoy /\ 3 * (k[1] + 1) <= postedAt
  /\ \A k \in Keys : gcp[k] = Full => erp[k] = Full

Stages == {"load", "stats", "source", "report"}

IsLoad(r) ==
  /\ r = [stage |-> r.stage, from |-> r.from, to |-> r.to, stats |-> r.stats, src |-> r.src]
  /\ r.stage \in Stages

\* What a load under way has done, and what it was told.
LoadOK(m, r) ==
  /\ IsLoad(r)
  /\ r.from = _range_for_mode(m, hoy)[1] /\ r.to = hoy - 1
  /\ r.stage # "load" => \A k \in OnTime : r.from <= k[1] /\ k[1] <= r.to => gcp[k] = Full
  /\ r.stage \in {"source", "report"} => r.stats \in Answers(_range_stats(gcp, r.from, r.to))
  /\ r.stage = "report" => \A e \in r.src, s \in Stores : e.last[s] \subseteq Days

\* Loads follow one another, and neither the orchestrator nor an outage leaves
\* one beside it.
RunInv ==
  /\ runs = [m \in Modes |-> runs[m]]
  /\ \A m \in Modes : Active(m) => LoadOK(m, runs[m])
  /\ \A m, n \in Modes : Active(m) /\ Active(n) => m = n
  /\ active <=> Active("daily")
  /\ ~up => NoLoad /\ orq # "running" /\ exitAge = {}
  /\ orq = "running" => due = {} /\ NoLoad

\* The ETL that writes the table, once it succeeded, has loaded the range.
OrqInv ==
  /\ results = [e \in ETLs |-> results[e]]
  /\ attempt = [e \in ETLs |-> attempt[e]]
  /\ orq = "running" => rango[2] = hoy - 1 /\ exitCode = {}
  /\ results[Loader] = "success" =>
       \A k \in Keys : /\ rango[1] <= k[1] /\ k[1] <= rango[2]
                       /\ k \in Late => postedAt # 0 /\ postedAt < Now
                       => gcp[k] = Full
  /\ exitCode = {0} /\ (\A e \in ETLs : results[e] \in Statuses) => results[Loader] = "success"

\* The daily load of day d has not loaded yet.
DailyPends(d) ==
  hoy = d /\ part = Day /\ ("daily" \in due \/ runs["daily"].stage = "load")

\* Without troubles, what was posted has arrived or the daily load will bring it.
ArriveInv ==
  outages + faults + byHand = 0 =>
    /\ up /\ orq # "running"
    /\ \A k \in Keys : \A t \in Posted(k) :
         HasHadDaily(t) /\ FirstDaily(t) - k[1] <= Lookback + 1 =>
           gcp[k] = Full \/ DailyPends(FirstDaily(t))

IInv == WeekTypes /\ StatusInv /\ ErpInv /\ RunInv /\ OrqInv /\ ArriveInv /\ GreenMeansLoaded

-----------------------------------------------------------------------------
(* An outage.                                                              *)

OutageTimes ==
  /\ ~up => outages # 0 /\ ~weeklyDone /\ outage[2] = outage[1]
  /\ outages # 0 => outage[1] <= outage[2] /\ outage[2] <= hoy

\* The days that the daily loads bring: those until two before the server went
\* down, and those since it came back.
Daily(k) ==
  /\ 3 * (k[1] + 1) + Day <= Now
  /\ outages = 0 \/ k[1] <= outage[1] - 2 \/ (up /\ outage[2] <= k[1])

DailiesInv ==
  faults = 0 /\ outages <= 1 =>
    \A k \in OnTime : Daily(k) => gcp[k] = Full \/ DailyPends(k[1] + 1)

Short == outage[2] - outage[1] <= 7

\* A weekly load is due or under way.
WeeklyComes == "weekly" \in due \/ Active("weekly")

\* No weekly timer has elapsed since the day the server went down.
NoneElapsed ==
  \A d \in outage[1] + 1 .. hoy : IsSunday(d + 1, sunday) => Now < 3 * d + Evening

\* The days around the outage are in the table.
Recovered ==
  \A k \in OnTime : outage[1] - 1 <= k[1] /\ k[1] <= outage[2] - 1 => gcp[k] = Full

\* The first weekly load after the server went down is at most seven days after,
\* or when it comes back, and brings the days between.
WeeklyInv ==
  faults = 0 /\ outages = 1 =>
    /\ ~weeklyDone /\ ~WeeklyComes => NoneElapsed
    /\ up /\ Short /\ ~weeklyDone /\ WeeklyComes => hoy <= outage[1] + 7
    /\ Short /\ weeklyDone => Recovered

OutageInv == OutageTimes /\ DailiesInv /\ WeeklyInv

-----------------------------------------------------------------------------
(* What the age of the last exit says.                                     *)

\* The last success loaded the days before it, and is today's or older than the
\* daily timer.
AgeInv ==
  /\ result = "success" =>
       \A x \in exitAge : x < Oldest => \A k \in OnTime :
         LET d == (Now - x) \div 3
         IN d - 1 - Lookback <= k[1] /\ k[1] <= d - 1 => gcp[k] = Full
  /\ up /\ part # Night /\ "daily" \notin due /\ ~active =>
       \A x \in exitAge : x <= part - Day

-----------------------------------------------------------------------------
(* Sums over finite sets.                                                  *)

\* The element that the fold of a set takes first.
Pick(s) == CHOOSE x \in s : TRUE

\* g holds the fold of every subset of S.
Folds(g, f, S) ==
  g = [s \in SUBSET S |-> IF s = {} THEN 0 ELSE f[Pick(s)] + g[s \ {Pick(s)}]]

LEMMA PickIn == \A s : s # {} => Pick(s) \in s
  BY DEF Pick

\* A set of subsets of a finite set has a smallest one.
LEMMA Minimal ==
  ASSUME NEW S, IsFiniteSet(S), NEW B \in SUBSET SUBSET S, B # {}
  PROVE  \E T \in B : \A U \in B : U \subseteq T => U = T
<1>1. IsWellFoundedOn(StrictSubsetOrdering(S), FiniteSubsetsOf(S))
  BY FS_StrictSubsetOrderingWellFounded
<1>2. B \subseteq FiniteSubsetsOf(S)
  BY FS_Subset DEF FiniteSubsetsOf
<1>3. PICK T \in B : \A U \in B : ~ (<<U, T>> \in StrictSubsetOrdering(S))
  BY <1>1, <1>2, WFMin
<1>4. QED
  BY <1>3 DEF StrictSubsetOrdering

\* Two folds agree where both are defined.
LEMMA FoldsUnique ==
  ASSUME NEW S, IsFiniteSet(S), NEW f, NEW T \in SUBSET S, NEW U \in SUBSET S,
         NEW g, NEW h, Folds(g, f, T), Folds(h, f, U)
  PROVE  \A s \in SUBSET (T \cap U) : g[s] = h[s]
<1> SUFFICES ASSUME NEW s0 \in SUBSET (T \cap U), g[s0] # h[s0] PROVE FALSE
  OBVIOUS
<1> DEFINE B == {s \in SUBSET (T \cap U) : g[s] # h[s]}
<1>1. B \in SUBSET SUBSET S /\ B # {}
  OBVIOUS
<1>2. PICK s \in B : \A r \in B : r \subseteq s => r = s
  <2> HIDE DEF B
  <2>1. QED
    BY <1>1, Minimal
<1>3. /\ g[s] = IF s = {} THEN 0 ELSE f[Pick(s)] + g[s \ {Pick(s)}]
      /\ h[s] = IF s = {} THEN 0 ELSE f[Pick(s)] + h[s \ {Pick(s)}]
  BY DEF Folds
<1>4. s # {}
  BY <1>3
<1>5. Pick(s) \in s
  BY <1>4, PickIn
<1>6. g[s \ {Pick(s)}] = h[s \ {Pick(s)}]
  BY <1>2, <1>5
<1>7. QED
  BY <1>3, <1>6

\* Every finite set can be folded: the fold of the definition is one.
LEMMA FoldsExists ==
  ASSUME NEW S, IsFiniteSet(S), NEW f
  PROVE  \E g : Folds(g, f, S)
<1> SUFFICES ASSUME ~ \E g : Folds(g, f, S) PROVE FALSE
  OBVIOUS
<1> DEFINE B == {s \in SUBSET S : ~ \E g : Folds(g, f, s)}
<1>1. B \in SUBSET SUBSET S /\ B # {}
  OBVIOUS
<1>2. PICK T \in B : \A r \in B : r \subseteq T => r = T
  <2> HIDE DEF B
  <2>1. QED
    BY <1>1, Minimal
<1> DEFINE Fold(s) == CHOOSE g : Folds(g, f, s)
           val(s) == Fold(s)[s]
           G == [s \in SUBSET T |-> IF s = {} THEN 0 ELSE f[Pick(s)] + val(s \ {Pick(s)})]
<1>3. \A s \in SUBSET T : s # T => Folds(Fold(s), f, s)
  BY <1>2
<1>4. ASSUME NEW s \in SUBSET T, s # T
      PROVE  G[s] = val(s)
  <2>1. Folds(Fold(s), f, s)
    BY <1>3, <1>4
  <2>2. val(s) = IF s = {} THEN 0 ELSE f[Pick(s)] + Fold(s)[s \ {Pick(s)}]
    BY <2>1 DEF Folds
  <2>3. ASSUME s # {} PROVE Fold(s)[s \ {Pick(s)}] = val(s \ {Pick(s)})
    <3>1. Pick(s) \in s
      BY <2>3, PickIn
    <3>2. Folds(Fold(s \ {Pick(s)}), f, s \ {Pick(s)})
      BY <1>3, <3>1
    <3> DEFINE r == s \ {Pick(s)}
    <3> HIDE DEF Fold
    <3>3. /\ s \in SUBSET S /\ r \in SUBSET S /\ r \in SUBSET (s \cap r)
          /\ Folds(Fold(s), f, s) /\ Folds(Fold(r), f, r)
      BY <2>1, <3>2
    <3> HIDE DEF r
    <3>4. \A t \in SUBSET (s \cap r) : Fold(s)[t] = Fold(r)[t]
      BY <3>3, FoldsUnique
    <3>5. QED
      BY <3>3, <3>4 DEF r
  <2>4. QED
    BY <2>2, <2>3
<1>5. G = [s \in SUBSET T |-> IF s = {} THEN 0 ELSE f[Pick(s)] + G[s \ {Pick(s)}]]
  <2>1. ASSUME NEW s \in SUBSET T, s # {}
        PROVE  val(s \ {Pick(s)}) = G[s \ {Pick(s)}]
    <3>1. Pick(s) \in s
      BY <2>1, PickIn
    <3> HIDE DEF G, val
    <3>2. QED
      BY <1>4, <3>1
  <2> HIDE DEF val
  <2>2. \A s \in SUBSET T : (IF s = {} THEN 0 ELSE f[Pick(s)] + val(s \ {Pick(s)}))
                            = (IF s = {} THEN 0 ELSE f[Pick(s)] + G[s \ {Pick(s)}])
    <3> HIDE DEF G
    <3>1. QED
      BY <2>1
  <2>3. G = [s \in SUBSET T |-> IF s = {} THEN 0 ELSE f[Pick(s)] + val(s \ {Pick(s)})]
    OBVIOUS
  <2> HIDE DEF G
  <2>4. QED
    BY <2>2, <2>3
<1>6. Folds(G, f, T)
  BY <1>5 DEF Folds
<1>7. QED
  BY <1>2, <1>6

\* The fold that SumFunctionOnSet chooses.
Fold(f, S) == CHOOSE g : Folds(g, f, S)

LEMMA SumIsFold ==
  ASSUME NEW f, NEW S
  PROVE  SumFunctionOnSet(f, S) = Fold(f, S)[S]
  BY DEF SumFunctionOnSet, FoldFunctionOnSet, MapThenFoldSet, Fold, Folds, Pick

LEMMA FoldFolds ==
  ASSUME NEW f, NEW S, IsFiniteSet(S)
  PROVE  Folds(Fold(f, S), f, S)
  BY FoldsExists DEF Fold

LEMMA SumEmpty == ASSUME NEW f PROVE SumFunctionOnSet(f, {}) = 0
<1>1. Folds(Fold(f, {}), f, {})
  BY FoldFolds, FS_EmptySet
<1>2. QED
  BY <1>1, SumIsFold DEF Folds

LEMMA SumPick ==
  ASSUME NEW f, NEW S, IsFiniteSet(S), S # {}
  PROVE  SumFunctionOnSet(f, S) = f[Pick(S)] + SumFunctionOnSet(f, S \ {Pick(S)})
<1> DEFINE T == S \ {Pick(S)}
<1>1. Folds(Fold(f, S), f, S)
  BY FoldFolds
<1>2. Fold(f, S)[S] = f[Pick(S)] + Fold(f, S)[T]
  BY <1>1 DEF Folds
<1>3. IsFiniteSet(T) /\ T \in SUBSET S
  BY FS_RemoveElement
<1> HIDE DEF T
<1>4. Folds(Fold(f, T), f, T)
  BY <1>3, FoldFolds
<1>5. Fold(f, S)[T] = Fold(f, T)[T]
  BY <1>1, <1>3, <1>4, FoldsUnique
<1>6. QED
  BY <1>2, <1>5, SumIsFold DEF T

\* A sum of zeros is zero.
LEMMA SumZero ==
  ASSUME NEW S, IsFiniteSet(S), NEW f, \A x \in S : f[x] = 0
  PROVE  SumFunctionOnSet(f, S) = 0
<1> DEFINE B == {s \in SUBSET S : SumFunctionOnSet(f, s) # 0}
<1> SUFFICES ASSUME B # {} PROVE FALSE
  OBVIOUS
<1>1. PICK T \in B : \A r \in B : r \subseteq T => r = T
  <2>1. B \in SUBSET SUBSET S
    OBVIOUS
  <2> HIDE DEF B
  <2>2. QED
    BY <2>1, Minimal
<1>2. T \in SUBSET S /\ IsFiniteSet(T) /\ SumFunctionOnSet(f, T) # 0
  BY <1>1, FS_Subset
<1>3. T # {}
  BY <1>2, SumEmpty
<1>4. Pick(T) \in T
  BY <1>3, PickIn
<1>5. SumFunctionOnSet(f, T \ {Pick(T)}) = 0
  BY <1>1, <1>2, <1>4
<1> QED
  BY <1>2, <1>3, <1>4, <1>5, SumPick

-----------------------------------------------------------------------------
(* Operators.                                                              *)

LEMMA Constants ==
  /\ Days \subseteq Nat \ {0} /\ IsFiniteSet(Days) /\ IsFiniteSet(Stores)
  /\ Watch \subseteq Stores /\ SilentDays \in Nat /\ Lookback \in Nat
  /\ Full \in Nat \ {0} /\ Start \in Days /\ Loader \in ETLs
  /\ Warning \in Nat /\ Critical \in Nat /\ Oldest \in Nat
  /\ Warning <= Critical /\ Critical < Oldest
  BY WeekAssumption, ReportAssumption, CalendarAssumption, StatusAssumption
  DEF WeekAssumption, ReportAssumption, CalendarAssumption, StatusAssumption

LEMMA KeyOf ==
  ASSUME NEW k \in Keys
  PROVE  k[1] \in Days /\ k[1] \in Nat \ {0} /\ k[2] \in Stores /\ k = <<k[1], k[2]>>
<1>1. k \in Days \X Stores
  BY DEF Keys
<1>2. k[1] \in Days /\ k[2] \in Stores /\ k = <<k[1], k[2]>>
  BY <1>1
<1>3. QED
  BY <1>2, Constants

LEMMA KeysFinite == IsFiniteSet(Keys)
  BY Constants, FS_Product DEF Keys

LEMMA LateKeys == ASSUME WeekTypes PROVE Late \subseteq Keys
  BY WeekAssumption DEF WeekTypes, WeekAssumption, Late

LEMMA TimeType ==
  ASSUME WeekTypes PROVE hoy \in Nat \ {0} /\ part \in {0, 1, 2} /\ Now \in Nat
  BY Constants DEF WeekTypes, Now, Night, Day, Evening

LEMMA Ranges ==
  ASSUME NEW m \in Modes, NEW d \in Int
  PROVE  /\ _range_for_mode(m, d)[2] = d - 1
         /\ m = "daily" => _range_for_mode(m, d)[1] = d - 1 - Lookback
         /\ m = "weekly" => _range_for_mode(m, d)[1] = d - 8
  BY Constants
  DEF _range_for_mode, Modes, get_yesterday, get_month_range, WEEKLY_DAYS

LEMMA FirstDailyType ==
  ASSUME NEW t \in Nat
  PROVE  /\ FirstDaily(t) \in Nat
         /\ t <= 3 * FirstDaily(t) /\ 3 * FirstDaily(t) <= t + 2
  BY DEF FirstDaily, Night

\* A load keeps the days that are full, and brings those of its range that the
\* ERP has in full.
LEMMA LoadedDaysType ==
  ASSUME WeekTypes, ErpInv, NEW a, NEW b
  PROVE  /\ LoadedDays(a, b) \in [Keys -> Nat]
         /\ \A k \in Keys : gcp[k] = Full => LoadedDays(a, b)[k] = Full
         /\ \A k \in Keys : a <= k[1] /\ k[1] <= b /\ erp[k] = Full => LoadedDays(a, b)[k] = Full
         /\ \A k \in Keys : LoadedDays(a, b)[k] = Full => erp[k] = Full
<1>1. \A k \in Keys : LoadedDays(a, b)[k] =
        IF a <= k[1] /\ k[1] <= b /\ erp[k] > 0 THEN erp[k] ELSE gcp[k]
  BY DEF LoadedDays
<1>2. LoadedDays(a, b) \in [Keys -> Nat]
  BY DEF LoadedDays, WeekTypes
<1>3. Full > 0
  BY Constants
<1>4. \A k \in Keys : gcp[k] = Full => erp[k] = Full
  BY DEF ErpInv
<1> HIDE DEF LoadedDays
<1>5. QED
  BY <1>1, <1>2, <1>3, <1>4

LEMMA IdleOrLoad ==
  ASSUME RunInv, NEW m \in Modes
  PROVE  /\ Active(m) => runs[m].stage \in Stages
         /\ runs[m].stage \in Stages => Active(m)
<1>1. ASSUME Active(m) PROVE runs[m].stage \in Stages
  BY <1>1 DEF RunInv, LoadOK, IsLoad
<1>2. ASSUME runs[m].stage \in Stages PROVE Active(m)
  <2>1. Idle.stage \notin Stages
    BY DEF Idle, Stages
  <2>2. QED
    BY <1>2, <2>1 DEF Active
<1>3. QED
  BY <1>1, <1>2

-----------------------------------------------------------------------------
(* The monitor's input.                                                    *)

LEMMA StatusInit == WeekInit => StatusInv
  BY DEF WeekInit, Init, StatusInv

LEMMA OlderType == ASSUME NEW age, age \subseteq Nat PROVE Older(age) \subseteq Nat
<1>1. ASSUME NEW a \in age PROVE (IF a < Oldest THEN a + 1 ELSE a) \in Nat
  <2>1. a \in Nat
    OBVIOUS
  <2> QED
    BY <2>1
<1> QED
  BY <1>1 DEF Older

LEMMA StatusTick == StatusInv /\ Tick => StatusInv'
<1> SUFFICES ASSUME StatusInv, Tick PROVE StatusInv'
  OBVIOUS
<1>1. exitAge' \subseteq Nat
  BY OlderType DEF StatusInv, Tick
<1>2. exitAge' # {} => exitAge # {}
  BY DEF Tick, Older
<1> QED
  BY <1>1, <1>2 DEF StatusInv, Tick

LEMMA StatusUnit ==
  StatusInv /\ (TimerFires \/ Succeeds \/ Fails \/ Reboot \/ UNCHANGED vars) => StatusInv'
<1> SUFFICES ASSUME StatusInv,
                    TimerFires \/ Succeeds \/ Fails \/ Reboot \/ UNCHANGED vars
             PROVE  StatusInv'
  OBVIOUS
<1>1. CASE TimerFires
  BY <1>1 DEF StatusInv, TimerFires, truth
<1>2. CASE Succeeds
  <2>1. active' \in BOOLEAN /\ result' = "success" /\ exitAge' = {0}
    BY <1>2 DEF Succeeds, Finish
  <2>2. goodAge' = {0}
    BY <1>2 DEF Succeeds, Finish
  <2>3. exitAge' \subseteq Nat
    BY <2>1
  <2>4. QED
    BY <2>1, <2>2, <2>3 DEF StatusInv
<1>3. CASE Fails
  <2>1. active' \in BOOLEAN /\ result' = "exit-code" /\ exitAge' = {0}
    BY <1>3 DEF Fails, Finish
  <2>2. outcome' = result'
    BY <1>3 DEF Fails, Finish
  <2>3. exitAge' \subseteq Nat
    BY <2>1
  <2>4. QED
    BY <2>1, <2>2, <2>3 DEF StatusInv
<1>4. CASE Reboot
  BY <1>4 DEF StatusInv, Reboot
<1>5. CASE UNCHANGED vars
  BY <1>5 DEF StatusInv, vars, unit, truth
<1> QED
  BY <1>1, <1>2, <1>3, <1>4, <1>5

\* What each step does to the service of the daily load.
LEMMA UnitSteps ==
  [WeekNext]_weekVars =>
    Tick \/ TimerFires \/ Succeeds \/ Fails \/ Reboot \/ UNCHANGED vars
<1> SUFFICES ASSUME [WeekNext]_weekVars
             PROVE  Tick \/ TimerFires \/ Succeeds \/ Fails \/ Reboot \/ UNCHANGED vars
  OBVIOUS
<1>1. CASE TimePasses
  BY <1>1 DEF TimePasses
<1>2. CASE GoesDown
  BY <1>2 DEF GoesDown
<1>3. CASE Post \/ ComesBack
  BY <1>3 DEF Post, ComesBack
<1>4. ASSUME NEW m \in Modes, Starts(m) \/ Raises(m) \/ Reports(m)
      PROVE  TimerFires \/ Succeeds \/ Fails \/ UNCHANGED vars
  BY <1>4 DEF Starts, Raises, Reports, OfDaily
<1>5. ASSUME NEW m \in Modes, Loads(m) \/ AsksDestination(m) \/ AsksErp(m)
      PROVE  UNCHANGED vars
  BY <1>5 DEF Loads, AsksDestination, AsksErp
<1>6. ASSUME RunsByHand \/ OrchestratorStep \/ \E e \in ETLs : AttemptEnds(e)
      PROVE  UNCHANGED vars
  BY <1>6 DEF RunsByHand, OrchestratorStep, AttemptEnds, OrchestratorOnly
<1>7. CASE UNCHANGED weekVars
  BY <1>7 DEF weekVars
<1> QED
  BY <1>1, <1>2, <1>3, <1>4, <1>5, <1>6, <1>7 DEF WeekNext

LEMMA StatusStep == StatusInv /\ [WeekNext]_weekVars => StatusInv'
  BY StatusTick, StatusUnit, UnitSteps

LEMMA StatusSafe == StatusInv => NoFalseAlarm
<1> SUFFICES ASSUME StatusInv, evaluate_systemd = "CRITICAL", outcome # "exit-code"
             PROVE  Old(goodAge) \/ Old(triggerAge)
  BY DEF NoFalseAlarm
<1>1. result = "success"
  BY DEF StatusInv
<1>2. CASE exitAge = {}
  <2>1. ~active
    BY <1>1, <1>2 DEF evaluate_systemd, StatusInv
  <2>2. AtLeastWarning(classify_freshness(triggerAge)) = "CRITICAL"
    BY <1>1, <1>2, <2>1 DEF evaluate_systemd
  <2>3. QED
    BY <2>2 DEF AtLeastWarning, classify_freshness, Old
<1>3. CASE exitAge # {}
  <2>1. classify_freshness(exitAge) = "CRITICAL"
    BY <1>1, <1>3 DEF evaluate_systemd
  <2>2. goodAge = exitAge
    BY <1>1, <1>3 DEF StatusInv
  <2>3. QED
    BY <2>1, <2>2 DEF classify_freshness, Old
<1> QED
  BY <1>2, <1>3

-----------------------------------------------------------------------------
(* Types.                                                                  *)

LEMMA LateRows ==
  ASSUME WeekTypes, NEW k \in Late
  PROVE  k \in Keys /\ k[1] >= Start /\ late[k] \in Nat
<1>1. late \in LateSets
  BY DEF WeekTypes
<1>2. late[k] \in {0, Part} /\ k \in Keys /\ k[1] >= Start
  BY <1>1, WeekAssumption DEF WeekAssumption, Late
<1> QED
  BY <1>2, WeekAssumption DEF WeekAssumption

LEMMA TypesInit == WeekInit => WeekTypes
<1> SUFFICES ASSUME WeekInit PROVE WeekTypes
  OBVIOUS
<1>1. erp \in [Keys -> Nat] /\ gcp \in [Keys -> Nat]
  BY Constants DEF WeekInit
<1>2. sunday \in 0..6
  BY WeekAssumption DEF WeekAssumption, WeekInit
<1> QED
  BY <1>1, <1>2, Constants DEF WeekInit, WeekTypes

LEMMA ClosedType ==
  ASSUME WeekTypes, Closed(hoy) PROVE erp' \in [Keys -> Nat]
<1>1. \A k \in Keys :
        (IF k[1] # hoy THEN erp[k] ELSE IF k \in Late THEN late[k] ELSE Full) \in Nat
  BY LateRows, Constants DEF WeekTypes
<1> QED
  BY <1>1 DEF Closed

LEMMA TypesStep == WeekTypes /\ ErpInv /\ [WeekNext]_weekVars => WeekTypes'
<1> SUFFICES ASSUME WeekTypes, ErpInv, [WeekNext]_weekVars PROVE WeekTypes'
  OBVIOUS
<1> USE DEF world, tables, troubles
<1>1. CASE Post
  <2>1. erp' \in [Keys -> Nat]
    BY <1>1, Constants DEF Post, WeekTypes
  <2> QED
    BY <1>1, <2>1, TimeType DEF Post, WeekTypes
<1>2. CASE TimePasses
  <2>1. due' \subseteq Modes
    BY <1>2 DEF TimePasses, WeekTypes
  <2>2. hoy' \in Days /\ part' \in {Night, Day, Evening} /\ erp' \in [Keys -> Nat]
    BY <1>2, ClosedType DEF TimePasses, WeekTypes, Night, Day, Evening
  <2> QED
    BY <1>2, <2>1, <2>2 DEF TimePasses, WeekTypes
<1>3. CASE GoesDown
  <2>1. outage' \in Nat \X Nat
    BY <1>3, TimeType DEF GoesDown
  <2>2. up' = FALSE /\ weeklyDone' = FALSE /\ outages' = outages + 1
    BY <1>3 DEF GoesDown
  <2>3. UNCHANGED <<hoy, part, sunday, late, due, erp, gcp, postedAt, faults, byHand>>
    BY <1>3 DEF GoesDown
  <2>4. up' \in BOOLEAN /\ weeklyDone' \in BOOLEAN
    BY <2>2
  <2>5. outages' \in Nat
    BY <2>2 DEF WeekTypes
  <2> QED
    BY <2>1, <2>3, <2>4, <2>5 DEF WeekTypes
<1>4. CASE ComesBack
  <2>1. outage' \in Nat \X Nat
    BY <1>4, TimeType DEF ComesBack, WeekTypes
  <2> QED
    BY <1>4, <2>1 DEF ComesBack, WeekTypes
<1>5. ASSUME NEW m \in Modes, Starts(m) PROVE WeekTypes'
  BY <1>5 DEF Starts, WeekTypes
<1>6. ASSUME NEW m \in Modes, Loads(m) PROVE WeekTypes'
  <2>1. gcp' \in [Keys -> Nat]
    BY <1>6, LoadedDaysType DEF Loads
  <2> QED
    BY <1>6, <2>1 DEF Loads, WeekTypes
<1>7. ASSUME NEW m \in Modes, Raises(m) PROVE WeekTypes'
  <2>1. gcp' \in [Keys -> Nat]
    BY <1>7, LoadedDaysType DEF Raises
  <2> QED
    BY <1>7, <2>1 DEF Raises, WeekTypes
<1>8. ASSUME NEW m \in Modes, AsksDestination(m) \/ AsksErp(m) PROVE WeekTypes'
  BY <1>8 DEF AsksDestination, AsksErp, WeekTypes
<1>9. ASSUME NEW m \in Modes, Reports(m) PROVE WeekTypes'
  BY <1>9 DEF Reports, WeekTypes
<1>10. CASE RunsByHand
  BY <1>10 DEF RunsByHand, OrchestratorOnly, WeekTypes
<1>11. CASE OrchestratorStep
  BY <1>11 DEF OrchestratorStep, OrchestratorOnly, WeekTypes
<1>12. ASSUME NEW e \in ETLs, AttemptEnds(e) PROVE WeekTypes'
  <2>1. gcp' \in [Keys -> Nat]
    BY <1>12, LoadedDaysType DEF AttemptEnds, WeekTypes
  <2> QED
    BY <1>12, <2>1 DEF AttemptEnds, OrchestratorOnly, WeekTypes
<1>13. CASE UNCHANGED weekVars
  BY <1>13 DEF weekVars, WeekTypes
<1> QED
  BY <1>1, <1>2, <1>3, <1>4, <1>5, <1>6, <1>7, <1>8, <1>9, <1>10, <1>11, <1>12, <1>13
  DEF WeekNext

-----------------------------------------------------------------------------
(* The ERP and the table.                                                  *)

Loading ==
  /\ \E a, b : gcp' = LoadedDays(a, b)
  /\ UNCHANGED <<hoy, part, late, erp, postedAt>>

\* What a step does to the table.
LEMMA TableSteps == [WeekNext]_weekVars => UNCHANGED gcp \/ Loading
<1> SUFFICES ASSUME [WeekNext]_weekVars PROVE UNCHANGED gcp \/ Loading
  OBVIOUS
<1> USE DEF world, tables
<1>1. ASSUME Post \/ TimePasses \/ GoesDown \/ ComesBack PROVE UNCHANGED gcp
  BY <1>1 DEF Post, TimePasses, GoesDown, ComesBack
<1>2. ASSUME NEW m \in Modes, Loads(m) \/ Raises(m) PROVE Loading
  BY <1>2 DEF Loads, Raises, Loading
<1>3. ASSUME NEW m \in Modes, Starts(m) \/ AsksDestination(m) \/ AsksErp(m) \/ Reports(m)
      PROVE  UNCHANGED gcp
  BY <1>3 DEF Starts, AsksDestination, AsksErp, Reports
<1>4. ASSUME RunsByHand \/ OrchestratorStep PROVE UNCHANGED gcp
  BY <1>4 DEF RunsByHand, OrchestratorStep
<1>5. ASSUME NEW e \in ETLs, AttemptEnds(e) PROVE UNCHANGED gcp \/ Loading
  BY <1>5 DEF AttemptEnds, OrchestratorOnly, Loading
<1>6. ASSUME UNCHANGED weekVars PROVE UNCHANGED gcp
  BY <1>6 DEF weekVars
<1> QED
  BY <1>1, <1>2, <1>3, <1>4, <1>5, <1>6 DEF WeekNext

\* A day that the table has in full stays there.
LEMMA FullStays ==
  ASSUME WeekTypes, ErpInv, [WeekNext]_weekVars, NEW k \in Keys, gcp[k] = Full
  PROVE  gcp'[k] = Full
  BY TableSteps, LoadedDaysType DEF Loading

\* What a step does to the ERP.
LEMMA ErpSteps ==
  [WeekNext]_weekVars => Post \/ TimePasses \/ UNCHANGED <<hoy, part, late, erp, postedAt>>
<1> SUFFICES ASSUME [WeekNext]_weekVars, ~Post, ~TimePasses
             PROVE  UNCHANGED <<hoy, part, late, erp, postedAt>>
  OBVIOUS
<1> USE DEF world, tables
<1>1. CASE GoesDown \/ ComesBack
  BY <1>1 DEF GoesDown, ComesBack
<1>2. ASSUME NEW m \in Modes, Starts(m) \/ Loads(m) \/ Raises(m)
      PROVE  UNCHANGED <<hoy, part, late, erp, postedAt>>
  BY <1>2 DEF Starts, Loads, Raises
<1>3. ASSUME NEW m \in Modes, AsksDestination(m) \/ AsksErp(m) \/ Reports(m)
      PROVE  UNCHANGED <<hoy, part, late, erp, postedAt>>
  BY <1>3 DEF AsksDestination, AsksErp, Reports
<1>4. ASSUME RunsByHand \/ OrchestratorStep \/ \E e \in ETLs : AttemptEnds(e)
      PROVE  UNCHANGED <<hoy, part, late, erp, postedAt>>
  BY <1>4 DEF RunsByHand, OrchestratorStep, AttemptEnds, OrchestratorOnly
<1>5. CASE UNCHANGED weekVars
  BY <1>5 DEF weekVars
<1> QED
  BY <1>1, <1>2, <1>3, <1>4, <1>5 DEF WeekNext

LEMMA LateIsKept == WeekTypes /\ [WeekNext]_weekVars => Late' = Late /\ OnTime' = OnTime
<1>1. [WeekNext]_weekVars => late' = late
  BY ErpSteps DEF Post, TimePasses, world
<1> QED
  BY <1>1 DEF Late, OnTime

LEMMA ErpInit == WeekInit => ErpInv
<1> SUFFICES ASSUME WeekInit PROVE ErpInv
  OBVIOUS
<1>1. WeekTypes
  BY TypesInit
<1>2. \A k \in Keys : erp[k] = IF k[1] < Start THEN Full ELSE 0
  BY DEF WeekInit
<1>3. postedAt = 0 /\ hoy = Start /\ gcp = erp
  BY DEF WeekInit
<1>4. Now \in Nat
  BY <1>1, TimeType
<1>5. \A k \in Keys : k[1] \in Nat
  BY KeyOf
<1>6. \A k \in OnTime : k \in Keys
  BY DEF OnTime
<1>7. Start \in Nat /\ Full \in Nat
  BY Constants
<1>8. postedAt <= Now /\ \A k \in Keys : gcp[k] = Full => erp[k] = Full
  BY <1>3, <1>4
<1>9. \A k \in Keys : k[1] >= hoy => erp[k] = 0
  BY <1>2, <1>3, <1>5, <1>7
<1>10. \A k \in OnTime : k[1] < hoy => erp[k] = Full
  BY <1>2, <1>3, <1>6
<1> QED
  BY <1>3, <1>8, <1>9, <1>10 DEF ErpInv

LEMMA ErpStep == WeekTypes /\ ErpInv /\ [WeekNext]_weekVars => ErpInv'
<1> SUFFICES ASSUME WeekTypes, ErpInv, [WeekNext]_weekVars PROVE ErpInv'
  OBVIOUS
<1>1. Late' = Late /\ OnTime' = OnTime /\ WeekTypes'
  BY LateIsKept, TypesStep
<1>2. /\ hoy \in Nat /\ part \in {0, 1, 2} /\ Now = 3 * hoy + part
      /\ hoy' \in Nat /\ part' \in {0, 1, 2} /\ Now' = 3 * hoy' + part'
  <2>1. hoy \in Nat /\ part \in {0, 1, 2} /\ Now = 3 * hoy + part
    BY TimeType DEF Now
  <2>2. hoy' \in Nat /\ part' \in {0, 1, 2}
    BY <1>1, Constants DEF WeekTypes, Night, Day, Evening
  <2> QED
    BY <2>1, <2>2 DEF Now
<1>3. \A k \in Keys : k[1] \in Nat
  BY KeyOf
<1>4. Late \subseteq Keys /\ OnTime = Keys \ Late
  BY LateKeys DEF OnTime
<1>5. CASE Post
  <2>1. /\ UNCHANGED <<hoy, part, gcp>> /\ postedAt' = Now
        /\ \A k \in Late : k[1] < hoy
        /\ \A k \in Keys : erp'[k] = IF k \in Late THEN Full ELSE erp[k]
    BY <1>5 DEF Post, tables
  <2> QED
    BY <1>1, <1>2, <1>3, <1>4, <2>1 DEF ErpInv
<1>6. CASE TimePasses
  <2>1. UNCHANGED <<gcp, postedAt>>
    BY <1>6 DEF TimePasses
  <2>2. CASE hoy' = hoy /\ part' = part + 1 /\ UNCHANGED erp
    <3>1. postedAt' <= Now'
      BY <1>2, <2>1, <2>2 DEF ErpInv, WeekTypes
    <3> QED
      BY <1>1, <2>1, <2>2, <3>1 DEF ErpInv
  <2>3. CASE part = Evening /\ hoy' = hoy + 1 /\ part' = Night /\ Closed(hoy)
    <3>1. \A k \in Keys : erp'[k] =
            IF k[1] # hoy THEN erp[k] ELSE IF k \in Late THEN late[k] ELSE Full
      BY <2>3 DEF Closed
    <3>2. postedAt' <= Now'
      BY <1>2, <2>1, <2>3 DEF ErpInv, WeekTypes, Evening, Night
    <3>3. \A k \in Keys : k[1] >= hoy' => erp'[k] = 0
      BY <1>2, <1>3, <2>3, <3>1 DEF ErpInv
    <3>4. \A k \in OnTime' : k[1] < hoy' => erp'[k] = Full
      BY <1>1, <1>2, <1>3, <1>4, <2>3, <3>1 DEF ErpInv
    <3>5. postedAt' # 0 => \A k \in Late' :
            erp'[k] = Full /\ k[1] < hoy' /\ 3 * (k[1] + 1) <= postedAt'
      BY <1>1, <1>2, <1>3, <1>4, <2>1, <2>3, <3>1 DEF ErpInv
    <3>6. \A k \in Keys : gcp'[k] = Full => erp'[k] = Full
      BY <1>2, <1>3, <2>1, <3>1, Constants DEF ErpInv
    <3> QED
      BY <3>2, <3>3, <3>4, <3>5, <3>6 DEF ErpInv
  <2> QED
    BY <1>6, <2>2, <2>3 DEF TimePasses
<1>7. CASE UNCHANGED <<hoy, part, late, erp, postedAt>>
  <2>1. \A k \in Keys : gcp'[k] = Full => erp'[k] = Full
    <3>1. \A k \in Keys : gcp'[k] = Full => erp[k] = Full
      BY TableSteps, LoadedDaysType DEF ErpInv, Loading
    <3> QED
      BY <1>7, <3>1
  <2> QED
    BY <1>1, <1>7, <2>1, <1>2 DEF ErpInv
<1> QED
  BY <1>5, <1>6, <1>7, ErpSteps

-----------------------------------------------------------------------------
(* The loads.                                                              *)

LEMMA StageOf ==
  ASSUME NEW r, IsLoad(r), NEW s \in Stages, NEW x
  PROVE  /\ [r EXCEPT !.stage = s] =
              [stage |-> s, from |-> r.from, to |-> r.to, stats |-> r.stats, src |-> r.src]
         /\ [r EXCEPT !.stage = s, !.stats = x] =
              [stage |-> s, from |-> r.from, to |-> r.to, stats |-> x, src |-> r.src]
         /\ [r EXCEPT !.stage = s, !.src = x] =
              [stage |-> s, from |-> r.from, to |-> r.to, stats |-> r.stats, src |-> x]
<1>1. PICK a, b, c, d, e : r = [stage |-> a, from |-> b, to |-> c, stats |-> d, src |-> e]
  BY DEF IsLoad
<1>2. /\ r.from = b /\ r.to = c /\ r.stats = d /\ r.src = e
      /\ [r EXCEPT !.stage = s] =
              [stage |-> s, from |-> b, to |-> c, stats |-> d, src |-> e]
  BY <1>1
<1>3. [r EXCEPT !.stage = s, !.stats = x] =
              [stage |-> s, from |-> b, to |-> c, stats |-> x, src |-> e]
  <2>1. [r EXCEPT !.stage = s, !.stats = x] = [[r EXCEPT !.stage = s] EXCEPT !.stats = x]
    OBVIOUS
  <2>2. ASSUME NEW q, q = [stage |-> s, from |-> b, to |-> c, stats |-> d, src |-> e]
        PROVE  [q EXCEPT !.stats = x] =
                 [stage |-> s, from |-> b, to |-> c, stats |-> x, src |-> e]
    BY <2>2
  <2> QED
    BY <1>2, <2>1, <2>2
<1>4. [r EXCEPT !.stage = s, !.src = x] =
              [stage |-> s, from |-> b, to |-> c, stats |-> d, src |-> x]
  <2>1. [r EXCEPT !.stage = s, !.src = x] = [[r EXCEPT !.stage = s] EXCEPT !.src = x]
    OBVIOUS
  <2>2. ASSUME NEW q, q = [stage |-> s, from |-> b, to |-> c, stats |-> d, src |-> e]
        PROVE  [q EXCEPT !.src = x] =
                 [stage |-> s, from |-> b, to |-> c, stats |-> d, src |-> x]
    BY <2>2
  <2> QED
    BY <1>2, <2>1, <2>2
<1> QED
  BY <1>2, <1>3, <1>4

\* After a step of a load every other mode rests.
LEMMA OneLoad ==
  ASSUME RunInv, NEW m \in Modes, NEW r, Active(m) \/ NoLoad,
         runs' = [runs EXCEPT ![m] = r]
  PROVE  /\ runs' = [n \in Modes |-> runs'[n]]
         /\ runs'[m] = r
         /\ \A n \in Modes \ {m} : runs[n] = Idle /\ runs'[n] = Idle
<1>1. runs = [n \in Modes |-> runs[n]]
  BY DEF RunInv
<1>2. \A n \in Modes \ {m} : runs[n] = Idle
  BY DEF RunInv, NoLoad, Active
<1> QED
  BY <1>1, <1>2

HasMax(S) == \E x \in S : \A y \in S : x >= y

LEMMA MaxExists ==
  ASSUME NEW S, IsFiniteSet(S)
  PROVE  S \subseteq Nat /\ S # {} => HasMax(S)
<1> DEFINE B == {s \in SUBSET S : s \subseteq Nat /\ s # {} /\ ~HasMax(s)}
<1> SUFFICES ASSUME B # {} PROVE FALSE
  OBVIOUS
<1>1. PICK T \in B : \A r \in B : r \subseteq T => r = T
  <2>1. B \in SUBSET SUBSET S
    OBVIOUS
  <2> HIDE DEF B
  <2>2. QED
    BY <2>1, Minimal
<1>2. T \subseteq Nat /\ ~HasMax(T)
  OBVIOUS
<1>3. PICK x \in T : TRUE
  OBVIOUS
<1> DEFINE U == T \ {x}
<1>4. U # {}
  BY <1>2, <1>3 DEF HasMax
<1>5. HasMax(U)
  BY <1>1, <1>3, <1>4
<1>6. PICK m \in U : \A y \in U : m >= y
  BY <1>5 DEF HasMax
<1>7. m \in Nat /\ x \in Nat /\ m \in T
  BY <1>2
<1>8. CASE m >= x
  BY <1>2, <1>6, <1>7, <1>8 DEF HasMax
<1>9. CASE x >= m
  <2>1. \A y \in T : x >= y
    BY <1>2, <1>6, <1>7, <1>9
  <2> QED
    BY <1>2, <1>3, <2>1 DEF HasMax
<1> QED
  BY <1>7, <1>8, <1>9

LEMMA MaxIn ==
  ASSUME NEW S, S \subseteq Nat, IsFiniteSet(S), S # {}
  PROVE  Max(S) \in S /\ \A x \in S : x <= Max(S)
<1>1. \E x \in S : \A y \in S : x >= y
  BY MaxExists DEF HasMax
<1>2. Max(S) \in S /\ \A y \in S : Max(S) >= y
  BY <1>1 DEF Max
<1> QED
  BY <1>2

\* What the ERP answers about a store is a day.
LEMMA LastSaleType ==
  ASSUME NEW S, NEW s, NEW to PROVE LastSale(S, s, to) \subseteq Days
<1> DEFINE sold == {d \in Days : d >= to - StoreLookback /\ S[<<d, s>>] > 0}
<1>1. sold \subseteq Days /\ sold \subseteq Nat
  BY Constants
<1>2. IsFiniteSet(sold)
  BY <1>1, Constants, FS_Subset
<1>3. LastSale(S, s, to) = IF sold = {} THEN {} ELSE {Max(sold)}
  BY DEF LastSale
<1> HIDE DEF sold
<1>4. sold # {} => Max(sold) \in Days
  BY <1>1, <1>2, MaxIn
<1> QED
  BY <1>3, <1>4

LEMMA SourceType ==
  ASSUME NEW S, NEW from, NEW to, NEW e \in Answers(_source_stats(S, from, to)),
         NEW x \in e, NEW s \in Stores
  PROVE  x.last[s] \subseteq Days
<1>1. x = _source_stats(S, from, to)
  BY DEF Answers
<1>2. x.last[s] = LastSale(S, s, to)
  BY <1>1 DEF _source_stats
<1> QED
  BY <1>2, LastSaleType

\* Where every load rests, little is left to say.
LEMMA AtRest ==
  ASSUME runs' = [m \in Modes |-> Idle], active' = FALSE,
         ~up' => orq' # "running" /\ exitAge' = {},
         orq' = "running" => due' = {}
  PROVE  RunInv'
<1>1. \A m \in Modes : ~Active(m)'
  BY DEF Active
<1>2. runs' = [m \in Modes |-> runs'[m]] /\ NoLoad' /\ "daily" \in Modes
  BY <1>1 DEF NoLoad, Modes
<1> QED
  BY <1>1, <1>2 DEF RunInv

LEMMA Resting ==
  ASSUME RunInv, StatusInv, NoLoad
  PROVE  runs = [m \in Modes |-> Idle] /\ active = FALSE
<1>1. runs = [m \in Modes |-> runs[m]] /\ "daily" \in Modes
  BY DEF RunInv, Modes
<1>2. \A m \in Modes : runs[m] = Idle
  BY DEF NoLoad, Active
<1>3. ~active
  BY <1>1 DEF NoLoad, RunInv
<1>4. active = FALSE
  BY <1>3 DEF StatusInv
<1> QED
  BY <1>1, <1>2, <1>4

LEMMA RunInit == WeekInit => RunInv
<1> SUFFICES ASSUME WeekInit PROVE RunInv
  OBVIOUS
<1>1. /\ runs = [m \in Modes |-> Idle] /\ ~active /\ up
      /\ orq = "idle"
  BY DEF WeekInit, Init, InitOrchestrator
<1>2. \A m \in Modes : ~Active(m)
  BY <1>1 DEF Active
<1>3. runs = [m \in Modes |-> runs[m]] /\ "daily" \in Modes
  BY <1>1 DEF Modes
<1> QED
  BY <1>1, <1>2, <1>3 DEF RunInv

LEMMA RunKept ==
  ASSUME RunInv, UNCHANGED <<runs, hoy, gcp, late, active, up, orq, due, exitAge>>
  PROVE  RunInv'
<1>1. OnTime' = OnTime
  BY DEF OnTime, Late
<1>2. ASSUME NEW m \in Modes, LoadOK(m, runs[m]) PROVE LoadOK(m, runs[m])'
  BY <1>1, <1>2 DEF LoadOK
<1>3. \A m \in Modes : Active(m)' <=> Active(m)
  BY DEF Active
<1>4. NoLoad' <=> NoLoad
  BY <1>3 DEF NoLoad
<1>5. "daily" \in Modes
  BY DEF Modes
<1>6. \A m \in Modes : Active(m)' => LoadOK(m, runs[m])'
  BY <1>2, <1>3 DEF RunInv
<1> QED
  BY <1>3, <1>4, <1>5, <1>6 DEF RunInv

LEMMA RunStarts ==
  ASSUME WeekTypes, StatusInv, RunInv, NEW m \in Modes, Starts(m)
  PROVE  RunInv'
<1> DEFINE range == _range_for_mode(m, hoy)
<1> SUFFICES ASSUME NEW r, r = [stage |-> "load", from |-> range[1], to |-> range[2],
                                stats |-> {}, src |-> {}]
             PROVE  RunInv'
  OBVIOUS
<1>1. up /\ m \in due /\ NoLoad /\ runs' = [runs EXCEPT ![m] = r]
  BY DEF Starts
<1>2. UNCHANGED <<hoy, up, orq>>
  BY DEF Starts, orchestrator
<1>3. range[2] = hoy - 1
  BY Ranges, TimeType
<1>4. r.stage = "load" /\ r.from = range[1] /\ r.to = range[2]
  OBVIOUS
<1>5. r.stage \in Stages /\ IsLoad(r)
  BY DEF Stages, IsLoad
<1>6. r # Idle
  BY <1>4 DEF Idle
<1>7. LoadOK(m, r)'
  BY <1>2, <1>3, <1>4, <1>5 DEF LoadOK
<1>8. /\ runs' = [n \in Modes |-> runs'[n]]
      /\ runs'[m] = r
      /\ \A n \in Modes \ {m} : runs'[n] = Idle
  BY <1>1, OneLoad
<1>9. orq' # "running"
  BY <1>1, <1>2 DEF RunInv
<1>10. active' <=> m = "daily"
  <2>1. ~active
    BY <1>1 DEF RunInv, NoLoad, Modes
  <2>2. CASE m = "daily"
    BY <2>2 DEF Starts, OfDaily, TimerFires
  <2>3. CASE m # "daily"
    BY <2>1, <2>3 DEF Starts, OfDaily, vars, unit
  <2> QED
    BY <2>2, <2>3
<1>11. \A n \in Modes : Active(n)' <=> n = m
  BY <1>6, <1>8 DEF Active
<1>12. "daily" \in Modes
  BY DEF Modes
<1>13. \A n \in Modes : Active(n)' => LoadOK(n, runs[n])'
  BY <1>7, <1>8, <1>11
<1> QED
  BY <1>1, <1>2, <1>8, <1>9, <1>10, <1>11, <1>12, <1>13 DEF RunInv

\* A step of a load that goes on.
LEMMA RunGoesOn ==
  ASSUME WeekTypes, RunInv, NEW m \in Modes, Active(m), NEW r,
         runs' = [runs EXCEPT ![m] = r], LoadOK(m, r)',
         UNCHANGED <<up, orq, active>>
  PROVE  RunInv'
<1>1. /\ runs' = [n \in Modes |-> runs'[n]]
      /\ runs'[m] = r
      /\ \A n \in Modes \ {m} : runs[n] = Idle /\ runs'[n] = Idle
  BY OneLoad
<1>2. r # Idle
  BY DEF LoadOK, IsLoad, Idle, Stages
<1>3. \A n \in Modes : (Active(n) <=> n = m) /\ (Active(n)' <=> n = m)
  BY <1>1, <1>2 DEF Active
<1>4. ~NoLoad /\ up /\ orq # "running"
  BY DEF NoLoad, RunInv
<1>5. "daily" \in Modes
  BY DEF Modes
<1>6. \A n \in Modes : Active(n)' => LoadOK(n, runs[n])'
  BY <1>1, <1>3
<1> QED
  BY <1>1, <1>3, <1>4, <1>5, <1>6 DEF RunInv

LEMMA RunLoads ==
  ASSUME WeekTypes, ErpInv, RunInv, NEW m \in Modes, Loads(m)
  PROVE  RunInv'
<1>1. Active(m) /\ LoadOK(m, runs[m])
  BY IdleOrLoad DEF Loads, Stages, RunInv
<1> SUFFICES ASSUME NEW q, q = [runs[m] EXCEPT !.stage = "stats"]
             PROVE  RunInv'
  OBVIOUS
<1>2. q = [stage |-> "stats", from |-> runs[m].from, to |-> runs[m].to,
           stats |-> runs[m].stats, src |-> runs[m].src]
  BY <1>1, StageOf DEF LoadOK, Stages
<1>3. q.stage = "stats" /\ q.from = runs[m].from /\ q.to = runs[m].to /\ IsLoad(q)
  BY <1>2 DEF IsLoad, Stages
<1>4. /\ UNCHANGED <<hoy, late, up, orq, active>>
      /\ gcp' = LoadedDays(q.from, q.to)
      /\ runs' = [runs EXCEPT ![m] = q]
  BY <1>3 DEF Loads, world, vars, unit, orchestrator
<1>5. OnTime' = OnTime /\ OnTime \subseteq Keys
  BY <1>4 DEF OnTime, Late
<1>6. q.from = _range_for_mode(m, hoy)[1] /\ q.to = hoy - 1
  BY <1>1, <1>3 DEF LoadOK
<1>7. ASSUME NEW k \in OnTime, q.from <= k[1], k[1] <= q.to PROVE gcp'[k] = Full
  <2>1. k \in Keys /\ k[1] \in Nat /\ hoy \in Nat
    BY <1>5, KeyOf, TimeType
  <2>2. erp[k] = Full
    BY <1>6, <1>7, <2>1 DEF ErpInv
  <2> QED
    BY <1>4, <1>7, <2>1, <2>2, LoadedDaysType
<1>8. LoadOK(m, q)'
  BY <1>3, <1>4, <1>5, <1>6, <1>7 DEF LoadOK
<1> QED
  BY <1>1, <1>4, <1>8, RunGoesOn

LEMMA RunAsksDestination ==
  ASSUME WeekTypes, RunInv, NEW m \in Modes, AsksDestination(m)
  PROVE  RunInv'
<1>1. Active(m) /\ LoadOK(m, runs[m])
  BY IdleOrLoad DEF AsksDestination, Stages, RunInv
<1>2. PICK stats \in Answers(_range_stats(gcp, runs[m].from, runs[m].to)) :
        runs' = [runs EXCEPT ![m] = [runs[m] EXCEPT !.stage = "source", !.stats = stats]]
  BY DEF AsksDestination
<1> SUFFICES ASSUME NEW q, q = [runs[m] EXCEPT !.stage = "source", !.stats = stats]
             PROVE  RunInv'
  OBVIOUS
<1>3. q = [stage |-> "source", from |-> runs[m].from, to |-> runs[m].to,
           stats |-> stats, src |-> runs[m].src]
  BY <1>1, StageOf DEF LoadOK, Stages
<1>4. /\ q.stage = "source" /\ q.from = runs[m].from /\ q.to = runs[m].to
      /\ q.stats = stats /\ IsLoad(q)
  BY <1>3 DEF IsLoad, Stages
<1>5. /\ UNCHANGED <<hoy, late, up, orq, active, gcp>>
      /\ runs' = [runs EXCEPT ![m] = q]
  BY <1>2 DEF AsksDestination, world, tables, vars, unit, orchestrator
<1>6. OnTime' = OnTime
  BY <1>5 DEF OnTime, Late
<1>7. q.stats \in Answers(_range_stats(gcp, q.from, q.to))
  BY <1>2, <1>4
<1>8. runs[m].stage = "stats"
  BY DEF AsksDestination
<1>9. LoadOK(m, q)'
  BY <1>1, <1>4, <1>5, <1>6, <1>7, <1>8 DEF LoadOK
<1> QED
  BY <1>1, <1>5, <1>9, RunGoesOn

LEMMA RunAsksErp ==
  ASSUME WeekTypes, RunInv, NEW m \in Modes, AsksErp(m)
  PROVE  RunInv'
<1>1. Active(m) /\ LoadOK(m, runs[m])
  BY IdleOrLoad DEF AsksErp, Stages, RunInv
<1>2. PICK src \in Answers(_source_stats(erp, runs[m].from, runs[m].to)) :
        runs' = [runs EXCEPT ![m] = [runs[m] EXCEPT !.stage = "report", !.src = src]]
  BY DEF AsksErp
<1> SUFFICES ASSUME NEW q, q = [runs[m] EXCEPT !.stage = "report", !.src = src]
             PROVE  RunInv'
  OBVIOUS
<1>3. q = [stage |-> "report", from |-> runs[m].from, to |-> runs[m].to,
           stats |-> runs[m].stats, src |-> src]
  BY <1>1, StageOf DEF LoadOK, Stages
<1>4. /\ q.stage = "report" /\ q.from = runs[m].from /\ q.to = runs[m].to
      /\ q.stats = runs[m].stats /\ q.src = src /\ IsLoad(q)
  BY <1>3 DEF IsLoad, Stages
<1>5. /\ UNCHANGED <<hoy, late, up, orq, active, gcp>>
      /\ runs' = [runs EXCEPT ![m] = q]
  BY <1>2 DEF AsksErp, world, tables, vars, unit, orchestrator
<1>6. OnTime' = OnTime
  BY <1>5 DEF OnTime, Late
<1>7. \A e \in q.src, s \in Stores : e.last[s] \subseteq Days
  BY <1>2, <1>4, SourceType
<1>8. runs[m].stage = "source"
  BY DEF AsksErp
<1>9. LoadOK(m, q)'
  BY <1>1, <1>4, <1>5, <1>6, <1>7, <1>8 DEF LoadOK
<1> QED
  BY <1>1, <1>5, <1>9, RunGoesOn

LEMMA RunStep ==
  WeekTypes /\ StatusInv /\ ErpInv /\ RunInv /\ [WeekNext]_weekVars => RunInv'
<1> SUFFICES ASSUME WeekTypes, StatusInv, ErpInv, RunInv, [WeekNext]_weekVars PROVE RunInv'
  OBVIOUS
<1>1. CASE Post
  BY <1>1, RunKept DEF Post, world, vars, unit, orchestrator
<1>2. CASE TimePasses
  <2>1. NoLoad /\ (~up => exitAge = {})
    BY <1>2 DEF TimePasses, Quiet, RunInv
  <2>2. /\ UNCHANGED <<up, runs, active>> /\ orq' = "idle"
        /\ exitAge' = Older(exitAge)
    BY <1>2 DEF TimePasses, Tick, ForgetRun
  <2>3. ~up' => exitAge' = {}
    BY <2>1, <2>2 DEF Older
  <2> QED
    BY <2>1, <2>2, <2>3, Resting, AtRest
<1>3. CASE GoesDown
  BY <1>3, AtRest DEF GoesDown, Reboot, orchestrator
<1>4. CASE ComesBack
  <2>1. NoLoad /\ orq # "running"
    BY <1>4 DEF ComesBack, RunInv
  <2>2. UNCHANGED <<runs, active, orq>> /\ up'
    BY <1>4 DEF ComesBack, vars, unit, orchestrator
  <2> QED
    BY <2>1, <2>2, Resting, AtRest
<1>5. ASSUME NEW m \in Modes, Starts(m) PROVE RunInv'
  BY <1>5, RunStarts
<1>6. ASSUME NEW m \in Modes, Loads(m) PROVE RunInv'
  BY <1>6, RunLoads
<1>7. ASSUME NEW m \in Modes, Raises(m) \/ Reports(m) PROVE RunInv'
  <2>1. Active(m)
    BY <1>7, IdleOrLoad DEF Raises, Reports, Stages
  <2>2. up /\ orq # "running" /\ UNCHANGED <<up, orq>> /\ runs' = [runs EXCEPT ![m] = Idle]
    BY <1>7, <2>1 DEF Raises, Reports, RunInv, NoLoad, orchestrator
  <2>3. runs' = [n \in Modes |-> Idle]
    BY <2>1, <2>2, OneLoad
  <2>4. active' = FALSE
    <3>1. CASE m = "daily"
      BY <1>7, <3>1 DEF Raises, Reports, OfDaily, Fails, Succeeds, Finish
    <3>2. CASE m # "daily"
      <4>1. ~Active("daily")
        BY <2>1, <3>2 DEF RunInv, Modes
      <4>2. active = FALSE
        BY <4>1 DEF RunInv, StatusInv
      <4> QED
        BY <1>7, <3>2, <4>2 DEF Raises, Reports, OfDaily, vars, unit
    <3> QED
      BY <3>1, <3>2
  <2> QED
    BY <2>2, <2>3, <2>4, AtRest
<1>8. ASSUME NEW m \in Modes, AsksDestination(m) PROVE RunInv'
  BY <1>8, RunAsksDestination
<1>9. ASSUME NEW m \in Modes, AsksErp(m) PROVE RunInv'
  BY <1>9, RunAsksErp
<1>10. ASSUME RunsByHand \/ OrchestratorStep \/ \E e \in ETLs : AttemptEnds(e) PROVE RunInv'
  <2>1. UNCHANGED <<runs, active, up, due>>
    BY <1>10 DEF RunsByHand, OrchestratorStep, AttemptEnds, OrchestratorOnly, vars, unit
  <2>2. up /\ due = {} /\ NoLoad
    <3>1. CASE RunsByHand
      BY <3>1 DEF RunsByHand, Quiet
    <3>2. CASE orq = "running"
      BY <3>2 DEF RunInv
    <3>3. OrchestratorStep => orq = "running"
      BY DEF OrchestratorStep, Exit, ScriptNotFound, BeginAttempt, RunRaises, MayRun
    <3>4. ASSUME NEW e \in ETLs, AttemptEnds(e) PROVE orq = "running"
      BY <3>4 DEF AttemptEnds, EndAttempt, MayRun
    <3> QED
      BY <1>10, <3>1, <3>2, <3>3, <3>4
  <2> QED
    BY <2>1, <2>2, Resting, AtRest
<1>11. CASE UNCHANGED weekVars
  BY <1>11, RunKept DEF weekVars, world, tables, vars, unit, orchestrator
<1> QED
  BY <1>1, <1>2, <1>3, <1>4, <1>5, <1>6, <1>7, <1>8, <1>9, <1>10, <1>11 DEF WeekNext

-----------------------------------------------------------------------------
(* The report.                                                             *)

LEMMA HeadSays ==
  ASSUME NEW stats, NEW src, NEW dest, NEW quality, NEW refreshed,
         NEW from, NEW to, NEW h,
         head(stats, src, dest, quality, refreshed, from, to, h) = "bien"
  PROVE  NoRows(stats, src) = {} /\ SilentStores(src, to) = {} /\ MissingStores(src, dest) = {}
  BY DEF head

\* A table with a row in the range answers with a row, day by day.
LEMMA RowsAreSomewhere ==
  ASSUME WeekTypes, NEW from, NEW to, RowsOf(gcp, from, to) # 0
  PROVE  _dest_sedes_por_dia(gcp, from, to) # {}
<1> DEFINE K == {k \in Keys : k[1] \in _range_days(from, to)}
<1>1. IsFiniteSet(K)
  BY KeysFinite, FS_Subset
<1>2. SumFunctionOnSet(gcp, K) # 0
  BY DEF RowsOf
<1>3. PICK k \in K : gcp[k] # 0
  <2> HIDE DEF K
  <2> QED
    BY <1>1, <1>2, SumZero
<1>4. gcp[k] > 0
  BY <1>3 DEF WeekTypes
<1> QED
  BY <1>3, <1>4 DEF _dest_sedes_por_dia

LEMMA GreenReport ==
  ASSUME WeekTypes, NEW from, NEW to \in Int, NEW src,
         \A e \in src, s \in Stores : e.last[s] \subseteq Days,
         src # {},
         NoRows({_range_stats(gcp, from, to)}, src) = {},
         SilentStores(src, to) = {},
         MissingStores(src, {_dest_sedes_por_dia(gcp, from, to)}) = {},
         NEW e \in src, NEW s \in Watch
  PROVE  /\ \A d \in _range_days(from, to) : <<d, s>> \in e.por_dia => gcp[<<d, s>>] > 0
         /\ \E d \in e.last[s] : to - d < SilentDays
<1>1. s \in Stores
  BY Constants
<1>2. _range_stats(gcp, from, to).rows # 0
  BY DEF NoRows
<1>3. RowsOf(gcp, from, to) # 0
  BY <1>2 DEF _range_stats
<1>4. _dest_sedes_por_dia(gcp, from, to) # {}
  BY <1>3, RowsAreSomewhere
<1>5. ASSUME NEW d \in _range_days(from, to), <<d, s>> \in e.por_dia
      PROVE  gcp[<<d, s>>] > 0
  <2>1. <<d, s>> \in Keys /\ <<d, s>>[2] = s
    BY <1>1 DEF Keys, _range_days
  <2>2. <<d, s>> \in _dest_sedes_por_dia(gcp, from, to)
    BY <1>4, <1>5, <2>1 DEF MissingStores
  <2> QED
    BY <2>2 DEF _dest_sedes_por_dia
<1>6. e.last[s] # {} /\ \A d \in e.last[s] : ~ (to - d >= SilentDays)
  BY DEF SilentStores
<1>7. e.last[s] \subseteq Int
  <2>1. e.last[s] \subseteq Days
    BY <1>1
  <2>2. Days \subseteq Int
    BY Constants
  <2> QED
    BY <2>1, <2>2
<1>8. \E d \in e.last[s] : to - d < SilentDays
  BY <1>6, <1>7, Constants
<1> QED
  BY <1>5, <1>8

LEMMA GreenStep ==
  WeekTypes /\ RunInv /\ GreenMeansLoaded /\ [WeekNext]_weekVars => GreenMeansLoaded'
<1> SUFFICES ASSUME WeekTypes, RunInv, GreenMeansLoaded, [WeekNext]_weekVars
             PROVE  GreenMeansLoaded'
  OBVIOUS
<1>1. CASE report' = {}
  BY <1>1 DEF GreenMeansLoaded
<1>2. ASSUME NEW m \in Modes, Reports(m) PROVE GreenMeansLoaded'
  <2>1. Active(m) /\ LoadOK(m, runs[m]) /\ runs[m].stage = "report"
    BY <1>2, IdleOrLoad DEF Reports, Stages, RunInv
  <2> SUFFICES ASSUME NEW r, r = runs[m] PROVE GreenMeansLoaded'
    OBVIOUS
  <2>2. PICK refreshed \in BOOLEAN,
             dest \in Answers(_dest_sedes_por_dia(gcp, r.from, r.to)),
             quality \in Answers(_quality_stats(gcp, r.from, r.to, hoy)) :
          report' =
            {[head |-> head(r.stats, r.src, dest, quality, refreshed, r.from, r.to, hoy),
              mode |-> m, src |-> r.src, from |-> r.from, to |-> r.to,
              answered |-> r.stats # {} /\ r.src # {} /\ dest # {} /\ quality # {}]}
    BY <1>2 DEF Reports
  <2>3. gcp' = gcp
    BY <1>2 DEF Reports, tables
  <2>4. r.to \in Int
    BY <2>1, TimeType DEF LoadOK
  <2>5. SUFFICES ASSUME NEW p \in report', p.head = "bien", p.answered,
                        NEW e \in p.src, NEW s \in Watch
                 PROVE  /\ \A d \in _range_days(p.from, p.to) :
                             <<d, s>> \in e.por_dia => gcp[<<d, s>>] > 0
                        /\ \E d \in e.last[s] : p.to - d < SilentDays
    BY <2>3 DEF GreenMeansLoaded
  <2>6. /\ p.head = head(r.stats, r.src, dest, quality, refreshed, r.from, r.to, hoy)
        /\ p.src = r.src /\ p.from = r.from /\ p.to = r.to
        /\ p.answered = (r.stats # {} /\ r.src # {} /\ dest # {} /\ quality # {})
    BY <2>2
  <2>7. r.stats # {} /\ r.src # {} /\ dest # {}
    BY <2>5, <2>6
  <2>8. /\ r.stats = {_range_stats(gcp, r.from, r.to)}
        /\ dest = {_dest_sedes_por_dia(gcp, r.from, r.to)}
    BY <2>1, <2>7 DEF LoadOK, Answers
  <2>9. \A x \in r.src, y \in Stores : x.last[y] \subseteq Days
    BY <2>1 DEF LoadOK
  <2>10. /\ NoRows(r.stats, r.src) = {} /\ SilentStores(r.src, r.to) = {}
         /\ MissingStores(r.src, dest) = {}
    BY <2>5, <2>6, HeadSays
  <2>11. e \in r.src
    BY <2>6
  <2>12. /\ \A d \in _range_days(r.from, r.to) : <<d, s>> \in e.por_dia => gcp[<<d, s>>] > 0
         /\ \E d \in e.last[s] : r.to - d < SilentDays
    BY <2>4, <2>7, <2>8, <2>9, <2>10, <2>11, GreenReport
  <2> QED
    BY <2>6, <2>12
<1>3. CASE UNCHANGED weekVars
  BY <1>3 DEF weekVars, tables, GreenMeansLoaded
<1> QED
  BY <1>1, <1>2, <1>3 DEF WeekNext

-----------------------------------------------------------------------------
(* The orchestrator.                                                       *)

LEMMA OrqInit == WeekInit => OrqInv
<1> SUFFICES ASSUME WeekInit PROVE OrqInv
  OBVIOUS
<1>1. /\ results = [e \in ETLs |-> "none"] /\ attempt = [e \in ETLs |-> 0]
      /\ orq = "idle" /\ exitCode = {}
  BY DEF WeekInit, InitOrchestrator
<1> QED
  BY <1>1, Constants DEF OrqInv

\* A run that has just begun, or did not, has no results.
LEMMA NoResults ==
  ASSUME results' = [e \in ETLs |-> "none"], attempt' = [e \in ETLs |-> 0],
         orq' = "running" => rango'[2] = hoy' - 1 /\ exitCode' = {}
  PROVE  OrqInv'
<1>1. results'[Loader] = "none" /\ Loader \in ETLs
  BY Constants
<1>2. "none" \notin Statuses
  BY DEF Statuses
<1> QED
  BY <1>1, <1>2 DEF OrqInv

LEMMA OrqKept ==
  ASSUME WeekTypes, ErpInv, OrqInv, [WeekNext]_weekVars,
         UNCHANGED <<hoy, rango, late>>, orq' = "running" => orq = "running",
         results' = [e \in ETLs |-> results'[e]], attempt' = [e \in ETLs |-> attempt'[e]],
         exitCode' = exitCode \/ orq' = "exited",
         exitCode' = {0} /\ (\A e \in ETLs : results'[e] \in Statuses) =>
           results'[Loader] = "success",
         results'[Loader] = "success" => results[Loader] = "success",
         (postedAt' = postedAt /\ part' = part) \/ postedAt' = Now'
  PROVE  OrqInv'
<1>1. Late' = Late
  BY DEF Late
<1>2. ASSUME results'[Loader] = "success", NEW k \in Keys,
             rango'[1] <= k[1], k[1] <= rango'[2],
             k \in Late' => postedAt' # 0 /\ postedAt' < Now'
      PROVE  gcp'[k] = Full
  <2>1. gcp[k] = Full
    <3>1. CASE postedAt' = postedAt /\ part' = part
      <4>1. Now' = Now
        BY <3>1 DEF Now
      <4> QED
        BY <1>1, <1>2, <3>1, <4>1 DEF OrqInv
    <3>2. CASE postedAt' = Now'
      <4>1. Now' \in Nat
        BY TypesStep, TimeType DEF Now, WeekTypes, Night, Day, Evening
      <4>2. ~ (postedAt' < Now')
        BY <3>2, <4>1
      <4> QED
        BY <1>1, <1>2, <4>2 DEF OrqInv
    <3> QED
      BY <3>1, <3>2
  <2> QED
    BY <2>1, FullStays
<1>3. orq' = "running" => rango'[2] = hoy' - 1 /\ exitCode' = {}
  BY DEF OrqInv
<1> QED
  BY <1>2, <1>3 DEF OrqInv

LEMMA SettleType ==
  ASSUME OrqInv, NEW e \in ETLs, NEW s, Settle(e, s)
  PROVE  /\ results' = [x \in ETLs |-> results'[x]] /\ attempt' = [x \in ETLs |-> attempt'[x]]
         /\ results'[e] = s /\ \A x \in ETLs \ {e} : results'[x] = results[x]
         /\ UNCHANGED <<orq, rango, exitCode>>
<1>1. results = [x \in ETLs |-> results[x]] /\ attempt = [x \in ETLs |-> attempt[x]]
  BY DEF OrqInv
<1>2. /\ results' = [results EXCEPT ![e] = s] /\ attempt' = [attempt EXCEPT ![e] = 0]
      /\ UNCHANGED <<orq, rango, exitCode>>
  BY DEF Settle
<1> QED
  BY <1>1, <1>2

\* An attempt that goes on, or is tried again.
LEMMA AttemptType ==
  ASSUME OrqInv, NEW e \in ETLs, NEW n, attempt' = [attempt EXCEPT ![e] = n],
         UNCHANGED <<orq, rango, results, exitCode>>
  PROVE  /\ results' = [x \in ETLs |-> results'[x]] /\ attempt' = [x \in ETLs |-> attempt'[x]]
<1>1. results = [x \in ETLs |-> results[x]] /\ attempt = [x \in ETLs |-> attempt[x]]
  BY DEF OrqInv
<1> QED
  BY <1>1

\* The ETL that writes the table succeeds.
LEMMA LoaderSucceeds ==
  ASSUME WeekTypes, ErpInv, OrqInv, orq = "running", Settle(Loader, "success"),
         gcp' = LoadedDays(rango[1], rango[2]), UNCHANGED <<hoy, part, late, erp, postedAt>>
  PROVE  OrqInv'
<1>1. Loader \in ETLs
  BY Constants
<1>2. /\ results' = [x \in ETLs |-> results'[x]] /\ attempt' = [x \in ETLs |-> attempt'[x]]
      /\ results'[Loader] = "success" /\ UNCHANGED <<orq, rango, exitCode>>
  BY <1>1, SettleType
<1>3. Late' = Late /\ Now' = Now
  BY DEF Late, Now
<1>4. rango[2] = hoy - 1 /\ exitCode = {}
  BY DEF OrqInv
<1>5. ASSUME NEW k \in Keys, rango[1] <= k[1], k[1] <= rango[2],
             k \in Late => postedAt # 0
      PROVE  gcp'[k] = Full
  <2>1. erp[k] = Full
    <3>1. k[1] \in Nat /\ hoy \in Nat
      BY KeyOf, TimeType
    <3>2. CASE k \in Late
      BY <1>5, <3>2 DEF ErpInv
    <3>3. CASE k \notin Late
      BY <1>4, <1>5, <3>1, <3>3 DEF ErpInv, OnTime
    <3> QED
      BY <3>2, <3>3
  <2> QED
    BY <1>5, <2>1, LoadedDaysType
<1> QED
  BY <1>2, <1>3, <1>4, <1>5 DEF OrqInv

LEMMA OrqAttemptEnds ==
  ASSUME WeekTypes, ErpInv, OrqInv, [WeekNext]_weekVars, NEW e \in ETLs, AttemptEnds(e)
  PROVE  OrqInv'
<1>1. UNCHANGED <<hoy, part, late, erp, postedAt>>
  BY DEF AttemptEnds, OrchestratorOnly, world
<1>2. PICK status \in Statuses :
        /\ EndAttempt(e, status)
        /\ status = "success" /\ e = Loader => gcp' = LoadedDays(rango[1], rango[2])
  BY DEF AttemptEnds, Statuses
<1>3. orq = "running" /\ ~Settled(e)
  BY <1>2 DEF EndAttempt, MayRun
<1>4. exitCode = {}
  BY <1>3 DEF OrqInv
<1>5. CASE Settle(e, status)
  <2>1. /\ results' = [x \in ETLs |-> results'[x]] /\ attempt' = [x \in ETLs |-> attempt'[x]]
        /\ results'[e] = status /\ \A x \in ETLs \ {e} : results'[x] = results[x]
        /\ UNCHANGED <<orq, rango, exitCode>>
    BY <1>5, SettleType
  <2>2. CASE e = Loader /\ status = "success"
    BY <1>1, <1>2, <1>3, <1>5, <2>2, LoaderSucceeds
  <2>3. CASE ~ (e = Loader /\ status = "success")
    <3>1. results'[Loader] = "success" => results[Loader] = "success"
      BY <2>1, <2>3, Constants
    <3> QED
      BY <1>1, <1>3, <1>4, <2>1, <3>1, OrqKept
  <2> QED
    BY <2>2, <2>3
<1>6. CASE /\ attempt' = [attempt EXCEPT ![e] = @ + 1]
           /\ UNCHANGED <<orq, rango, results, exitCode>>
  <2>1. /\ results' = [x \in ETLs |-> results'[x]] /\ attempt' = [x \in ETLs |-> attempt'[x]]
    BY <1>6, AttemptType
  <2> QED
    BY <1>1, <1>3, <1>4, <1>6, <2>1, OrqKept
<1> QED
  BY <1>2, <1>5, <1>6 DEF EndAttempt

LEMMA OrqOwnStep ==
  ASSUME WeekTypes, ErpInv, OrqInv, [WeekNext]_weekVars, OrchestratorStep
  PROVE  OrqInv'
<1>1. UNCHANGED <<hoy, part, late, postedAt>>
  BY DEF OrchestratorStep, OrchestratorOnly, world
<1>2. CASE Exit
  <2>1. /\ orq' = "exited" /\ UNCHANGED <<rango, attempt, results>>
        /\ exitCode' = {IF \E e \in ETLs : results[e] \in Statuses \ {"success"} THEN 1 ELSE 0}
    BY <1>2 DEF Exit
  <2>2. exitCode' = {0} /\ (\A e \in ETLs : results'[e] \in Statuses) =>
          results'[Loader] = "success"
    BY <2>1, Constants
  <2>3. /\ results' = [x \in ETLs |-> results'[x]] /\ attempt' = [x \in ETLs |-> attempt'[x]]
    BY <2>1 DEF OrqInv
  <2> QED
    BY <1>1, <2>1, <2>2, <2>3, OrqKept
<1>3. ASSUME NEW e \in ETLs, NEW s, s # "success", orq = "running", Settle(e, s)
      PROVE  OrqInv'
  <2>1. /\ results' = [x \in ETLs |-> results'[x]] /\ attempt' = [x \in ETLs |-> attempt'[x]]
        /\ results'[e] = s /\ \A x \in ETLs \ {e} : results'[x] = results[x]
        /\ UNCHANGED <<orq, rango, exitCode>>
    BY <1>3, SettleType
  <2>2. results'[Loader] = "success" => results[Loader] = "success"
    BY <1>3, <2>1, Constants
  <2>3. exitCode' = {}
    BY <1>3, <2>1 DEF OrqInv
  <2> QED
    BY <1>1, <2>1, <2>2, <2>3, OrqKept
<1>4. ASSUME NEW e \in ETLs, ScriptNotFound(e) PROVE OrqInv'
  BY <1>3, <1>4 DEF ScriptNotFound, MayRun
<1>5. ASSUME NEW e \in ETLs, BeginAttempt(e) PROVE OrqInv'
  <2>1. /\ attempt' = [attempt EXCEPT ![e] = 1] /\ orq = "running"
        /\ UNCHANGED <<orq, rango, results, exitCode>>
    BY <1>5 DEF BeginAttempt, MayRun
  <2>2. /\ results' = [x \in ETLs |-> results'[x]] /\ attempt' = [x \in ETLs |-> attempt'[x]]
    BY <2>1, AttemptType
  <2>3. exitCode' = {}
    BY <2>1 DEF OrqInv
  <2> QED
    BY <1>1, <2>1, <2>2, <2>3, OrqKept
<1>6. ASSUME NEW e \in ETLs, RunRaises(e) PROVE OrqInv'
  <2>1. CASE e \in Parallel
    BY <1>3, <1>6, <2>1 DEF RunRaises, MayRun
  <2>2. CASE e \notin Parallel
    <3>1. orq' = "exited" /\ exitCode' = {2} /\ UNCHANGED <<rango, attempt, results>>
      BY <1>6, <2>2 DEF RunRaises
    <3>2. /\ results' = [x \in ETLs |-> results'[x]] /\ attempt' = [x \in ETLs |-> attempt'[x]]
      BY <3>1 DEF OrqInv
    <3> QED
      BY <1>1, <3>1, <3>2, OrqKept
  <2> QED
    BY <2>1, <2>2
<1> QED
  BY <1>2, <1>4, <1>5, <1>6 DEF OrchestratorStep

LEMMA OrqStep == WeekTypes /\ ErpInv /\ OrqInv /\ [WeekNext]_weekVars => OrqInv'
<1> SUFFICES ASSUME WeekTypes, ErpInv, OrqInv, [WeekNext]_weekVars PROVE OrqInv'
  OBVIOUS
<1>1. ASSUME UNCHANGED <<orchestrator, hoy, late>>,
             (postedAt' = postedAt /\ part' = part) \/ postedAt' = Now'
      PROVE  OrqInv'
  <2>1. UNCHANGED <<orq, rango, attempt, results, exitCode>>
    BY <1>1 DEF orchestrator
  <2>2. /\ results' = [x \in ETLs |-> results'[x]] /\ attempt' = [x \in ETLs |-> attempt'[x]]
    BY <2>1 DEF OrqInv
  <2>3. exitCode' = {0} /\ (\A e \in ETLs : results'[e] \in Statuses) =>
           results'[Loader] = "success"
    BY <2>1 DEF OrqInv
  <2> QED
    BY <1>1, <2>1, <2>2, <2>3, OrqKept
<1> USE DEF world, tables
<1>2. CASE Post
  BY <1>1, <1>2 DEF Post, Now
<1>3. CASE TimePasses
  BY <1>3, NoResults DEF TimePasses, ForgetRun
<1>4. CASE GoesDown \/ ComesBack
  BY <1>1, <1>4 DEF GoesDown, ComesBack
<1>5. ASSUME NEW m \in Modes, Starts(m) \/ Loads(m) \/ Raises(m) PROVE OrqInv'
  BY <1>1, <1>5 DEF Starts, Loads, Raises
<1>6. ASSUME NEW m \in Modes, AsksDestination(m) \/ AsksErp(m) \/ Reports(m) PROVE OrqInv'
  BY <1>1, <1>6 DEF AsksDestination, AsksErp, Reports
<1>7. CASE RunsByHand
  <2>1. hoy' = hoy /\ get_month_range(hoy)[2] = hoy - 1
    BY <1>7 DEF RunsByHand, OrchestratorOnly, get_month_range, get_yesterday
  <2>2. CASE AbortRun
    BY <2>2, NoResults DEF AbortRun
  <2>3. ASSUME NEW range, range[2] = hoy - 1, StartRun(range) PROVE OrqInv'
    BY <2>1, <2>3, NoResults DEF StartRun
  <2>4. <<get_yesterday(hoy), get_yesterday(hoy)>>[2] = hoy - 1
    BY DEF get_yesterday
  <2> QED
    BY <1>7, <2>1, <2>2, <2>3, <2>4 DEF RunsByHand
<1>8. CASE OrchestratorStep
  BY <1>8, OrqOwnStep
<1>9. ASSUME NEW e \in ETLs, AttemptEnds(e) PROVE OrqInv'
  BY <1>9, OrqAttemptEnds
<1>10. CASE UNCHANGED weekVars
  BY <1>1, <1>10 DEF weekVars
<1> QED
  BY <1>2, <1>3, <1>4, <1>5, <1>6, <1>7, <1>8, <1>9, <1>10 DEF WeekNext

LEMMA OrqSafe == WeekTypes /\ OrqInv => ZeroMeansLoaded
<1> SUFFICES ASSUME WeekTypes, OrqInv,
                    exitCode = {0}, \A e \in ETLs : results[e] \in Statuses,
                    NEW k \in Keys, rango[1] <= k[1], k[1] <= rango[2],
                    NEW t \in Posted(k), t < Now \/ k \notin Late
             PROVE  gcp[k] = Full
  BY DEF ZeroMeansLoaded
<1>1. results[Loader] = "success"
  BY DEF OrqInv
<1>2. k \in Late => postedAt # 0 /\ postedAt < Now
  BY DEF Posted
<1> QED
  BY <1>1, <1>2 DEF OrqInv

-----------------------------------------------------------------------------
(* What is posted arrives.                                                 *)

\* The day of a store that posted is over, and the ERP has it in full.
LEMMA PostedIsFull ==
  ASSUME WeekTypes, ErpInv, NEW k \in Keys, NEW t \in Posted(k)
  PROVE  /\ t \in Nat /\ t <= Now /\ 3 * (k[1] + 1) <= t
         /\ erp[k] = Full
<1>1. k[1] \in Nat /\ hoy \in Nat /\ part \in {0, 1, 2} /\ Now = 3 * hoy + part
  BY KeyOf, TimeType DEF Now
<1>2. CASE k \in Late
  <2>1. t = postedAt /\ t # 0
    BY <1>2 DEF Posted
  <2> QED
    BY <1>2, <2>1 DEF ErpInv, WeekTypes
<1>3. CASE k \notin Late
  <2>1. t = 3 * (k[1] + 1) /\ t <= Now
    BY <1>3 DEF Posted
  <2>2. k[1] < hoy
    BY <1>1, <2>1
  <2> QED
    BY <1>1, <1>3, <2>1, <2>2 DEF ErpInv, OnTime
<1> QED
  BY <1>2, <1>3

\* The daily load loads the days it drags along.
LEMMA DailyLoads ==
  ASSUME WeekTypes, ErpInv, RunInv, Loads("daily"), NEW k \in Keys,
         hoy - 1 - Lookback <= k[1], k[1] <= hoy - 1, erp[k] = Full
  PROVE  gcp'[k] = Full
<1>1. "daily" \in Modes
  BY DEF Modes
<1>2. LoadOK("daily", runs["daily"])
  BY <1>1, IdleOrLoad DEF Loads, Stages, RunInv
<1>3. runs["daily"].from = hoy - 1 - Lookback /\ runs["daily"].to = hoy - 1
  BY <1>1, <1>2, Ranges, TimeType DEF LoadOK
<1>4. gcp' = LoadedDays(runs["daily"].from, runs["daily"].to)
  BY DEF Loads
<1> QED
  BY <1>3, <1>4, LoadedDaysType

\* A load that is due or under way goes on being so, or loads.
LEMMA PendsOrLoads ==
  ASSUME RunInv, [WeekNext]_weekVars, ~TimePasses, ~GoesDown, UNCHANGED faults, faults \in Nat,
         NEW d, DailyPends(d)
  PROVE  DailyPends(d)' \/ Loads("daily")
<1> USE DEF world, tables
<1>1. hoy = d /\ part = Day /\ ("daily" \in due \/ runs["daily"].stage = "load")
  BY DEF DailyPends
<1>2. ASSUME UNCHANGED <<hoy, part, due, runs>> PROVE DailyPends(d)'
  BY <1>1, <1>2 DEF DailyPends
<1>3. CASE Post \/ ComesBack
  BY <1>2, <1>3 DEF Post, ComesBack
<1>4. ASSUME NEW m \in Modes, Starts(m) PROVE DailyPends(d)'
  <2>1. NoLoad /\ due' = due \ {m} /\ UNCHANGED <<hoy, part>>
    BY <1>4 DEF Starts
  <2>2. "daily" \in due
    BY <1>1, <2>1 DEF NoLoad, Active, Idle, Modes
  <2>3. CASE m # "daily"
    BY <1>1, <2>1, <2>2, <2>3 DEF DailyPends
  <2>4. CASE m = "daily"
    <3> DEFINE range == _range_for_mode(m, hoy)
    <3>1. PICK r : /\ r = [stage |-> "load", from |-> range[1], to |-> range[2],
                           stats |-> {}, src |-> {}]
                   /\ runs' = [runs EXCEPT ![m] = r]
      BY <1>4 DEF Starts
    <3>2. runs'[m] = r /\ r.stage = "load"
      BY <2>1, <3>1, OneLoad
    <3> QED
      BY <1>1, <2>1, <2>4, <3>1, <3>2 DEF DailyPends
  <2> QED
    BY <2>3, <2>4
<1>5. ASSUME NEW m \in Modes, (Loads(m) /\ m # "daily") \/ AsksDestination(m) \/ AsksErp(m) \/ Reports(m)
      PROVE  DailyPends(d)'
  <2>1. runs[m].stage \in Stages /\ (m = "daily" => runs[m].stage # "load")
    BY <1>5 DEF Loads, AsksDestination, AsksErp, Reports, Stages
  <2>2. runs["daily"].stage # "load"
    <3>1. CASE m = "daily"
      BY <2>1, <3>1
    <3>2. CASE m # "daily"
      <4>1. ~Active("daily")
        BY <2>1, <3>2, IdleOrLoad DEF RunInv, Modes
      <4> QED
        BY <4>1 DEF Active, Idle
    <3> QED
      BY <3>1, <3>2
  <2>3. UNCHANGED <<hoy, part, due>>
    BY <1>5 DEF Loads, AsksDestination, AsksErp, Reports
  <2> QED
    BY <1>1, <2>2, <2>3 DEF DailyPends
<1>6. ASSUME NEW m \in Modes, Raises(m) PROVE FALSE
  BY <1>6 DEF Raises
<1>7. CASE RunsByHand \/ OrchestratorStep
  BY <1>2, <1>7 DEF RunsByHand, OrchestratorStep, OrchestratorOnly
<1>8. ASSUME NEW e \in ETLs, AttemptEnds(e) PROVE DailyPends(d)'
  BY <1>2, <1>8 DEF AttemptEnds, OrchestratorOnly
<1>9. CASE UNCHANGED weekVars
  BY <1>2, <1>9 DEF weekVars
<1> QED
  BY <1>3, <1>4, <1>5, <1>6, <1>7, <1>8, <1>9 DEF WeekNext

\* The troubles are never fewer.
LEMMA TroublesGrow ==
  ASSUME WeekTypes, [WeekNext]_weekVars
  PROVE  outages <= outages' /\ faults <= faults' /\ byHand <= byHand'
<1>1. outages \in Nat /\ faults \in Nat /\ byHand \in Nat
  BY DEF WeekTypes
<1> USE DEF troubles
<1>2. CASE Post \/ TimePasses
  BY <1>1, <1>2 DEF Post, TimePasses
<1>3. CASE GoesDown \/ ComesBack
  BY <1>1, <1>3 DEF GoesDown, ComesBack
<1>4. ASSUME NEW m \in Modes, Starts(m) \/ Loads(m) \/ Raises(m)
      PROVE  outages <= outages' /\ faults <= faults' /\ byHand <= byHand'
  BY <1>1, <1>4 DEF Starts, Loads, Raises
<1>5. ASSUME NEW m \in Modes, AsksDestination(m) \/ AsksErp(m) \/ Reports(m)
      PROVE  outages <= outages' /\ faults <= faults' /\ byHand <= byHand'
  <2>1. UNCHANGED <<outages, faults, byHand>>
    BY <1>5 DEF AsksDestination, AsksErp, Reports
  <2> QED
    BY <1>1, <2>1
<1>6. CASE RunsByHand \/ OrchestratorStep
  BY <1>1, <1>6 DEF RunsByHand, OrchestratorStep, OrchestratorOnly
<1>7. ASSUME NEW e \in ETLs, AttemptEnds(e)
      PROVE  outages <= outages' /\ faults <= faults' /\ byHand <= byHand'
  BY <1>1, <1>7 DEF AttemptEnds, OrchestratorOnly
<1>8. CASE UNCHANGED weekVars
  BY <1>1, <1>8 DEF weekVars
<1> QED
  BY <1>2, <1>3, <1>4, <1>5, <1>6, <1>7, <1>8 DEF WeekNext

LEMMA ArriveInit == WeekInit => ArriveInv
<1> SUFFICES ASSUME WeekInit, NEW k \in Keys, NEW t \in Posted(k), HasHadDaily(t)
             PROVE  up /\ orq # "running" /\ gcp[k] = Full
  BY DEF ArriveInv, WeekInit, InitOrchestrator
<1>1. WeekTypes /\ ErpInv
  BY TypesInit, ErpInit
<1>2. up /\ orq # "running" /\ hoy = Start /\ part = 2 /\ postedAt = 0 /\ gcp = erp
  BY DEF WeekInit, InitOrchestrator, Evening
<1>3. erp[k] = Full
  BY <1>1, PostedIsFull
<1> QED
  BY <1>2, <1>3

LEMMA ArriveTimePasses ==
  ASSUME WeekTypes, ErpInv, RunInv, ArriveInv, TimePasses
  PROVE  ArriveInv'
<1> USE DEF world, tables, troubles
<1>1. UNCHANGED <<up, gcp, late, postedAt, outages, faults, byHand>> /\ orq' = "idle"
  BY DEF TimePasses, ForgetRun
<1> SUFFICES ASSUME outages + faults + byHand = 0,
                    NEW k \in Keys, NEW t \in Posted(k)', HasHadDaily(t)',
                    FirstDaily(t) - k[1] <= Lookback + 1
             PROVE  gcp[k] = Full \/ DailyPends(FirstDaily(t))'
  BY <1>1 DEF ArriveInv
<1>2. up /\ Quiet
  BY DEF ArriveInv, TimePasses
<1>3. /\ hoy \in Nat /\ part \in {0, 1, 2} /\ Now = 3 * hoy + part
      /\ hoy' \in Nat /\ part' \in {0, 1, 2} /\ Now' = 3 * hoy' + part' /\ Now' = Now + 1
  BY TimeType DEF Now, TimePasses, Evening, Night
<1> DEFINE f == FirstDaily(t)
<1>4. t \in Nat
  <2>1. CASE k \in Late
    BY <1>1, <2>1 DEF Posted, Late, WeekTypes
  <2>2. CASE k \notin Late
    BY <1>1, <2>2, KeyOf DEF Posted, Late
  <2> QED
    BY <2>1, <2>2
<1>5. f \in Nat /\ t <= 3 * f /\ 3 * f + 1 <= Now'
  BY <1>4, FirstDailyType DEF HasHadDaily, Day
<1>9. Now \in Nat /\ Now' = Now + 1
  BY <1>3, TimeType
<1>6. t \in Posted(k)
  <2>1. t <= Now
    <3> HIDE DEF f
    <3> QED
      BY <1>4, <1>5, <1>9
  <2> QED
    BY <1>1, <2>1 DEF Posted, Late
<1>7. CASE 3 * FirstDaily(t) + 1 <= Now
  <2>1. gcp[k] = Full \/ DailyPends(FirstDaily(t))
    BY <1>6, <1>7 DEF ArriveInv, HasHadDaily, Day
  <2>2. ~DailyPends(FirstDaily(t))
    BY <1>2 DEF DailyPends, Quiet, NoLoad, Active, Idle, Modes
  <2> QED
    BY <2>1, <2>2
<1>8. CASE ~ (3 * FirstDaily(t) + 1 <= Now)
  <2>1. hoy' = FirstDaily(t) /\ part' = 1
    <3>1. ~ (3 * f + 1 <= Now)
      BY <1>8
    <3> HIDE DEF f
    <3>2. Now = 3 * f
      BY <1>5, <1>9, <3>1
    <3>3. 3 * hoy' + part' = 3 * f + 1
      BY <1>3, <3>2
    <3>4. ASSUME NEW h \in Nat, NEW p \in {0, 1, 2}, 3 * h + p = 3 * f + 1
          PROVE  h = f /\ p = 1
      BY <1>5, <3>4
    <3>5. hoy' = f /\ part' = 1
      BY <1>3, <3>3, <3>4
    <3> QED
      BY <3>5 DEF f
  <2>2. "daily" \in due'
    BY <2>1 DEF TimePasses, Elapses, Day, Modes
  <2> QED
    BY <2>1, <2>2 DEF DailyPends, Day
<1> QED
  BY <1>7, <1>8

LEMMA ArrivePost ==
  ASSUME WeekTypes, ErpInv, ArriveInv, Post
  PROVE  ArriveInv'
<1> USE DEF world, troubles
<1>1. /\ UNCHANGED <<hoy, part, up, due, runs, gcp, late, outages, faults, byHand, orq>>
      /\ postedAt' = Now
  BY DEF Post, orchestrator
<1> SUFFICES ASSUME outages + faults + byHand = 0,
                    NEW k \in Keys, NEW t \in Posted(k)', HasHadDaily(t)',
                    FirstDaily(t) - k[1] <= Lookback + 1
             PROVE  gcp[k] = Full \/ DailyPends(FirstDaily(t))'
  BY <1>1 DEF ArriveInv
<1>2. Late' = Late /\ Now' = Now /\ Now \in Nat
  BY <1>1, TimeType DEF Late, Now
<1>3. CASE k \in Late
  <2>1. t = Now
    BY <1>1, <1>2, <1>3 DEF Posted
  <2>2. FirstDaily(t) \in Nat /\ t <= 3 * FirstDaily(t)
    BY <1>2, <2>1, FirstDailyType
  <2> QED
    BY <1>2, <2>1, <2>2 DEF HasHadDaily, Day
<1>4. CASE k \notin Late
  <2>1. t \in Posted(k) /\ HasHadDaily(t)
    BY <1>2, <1>4 DEF Posted, HasHadDaily
  <2>2. gcp[k] = Full \/ DailyPends(FirstDaily(t))
    BY <2>1 DEF ArriveInv
  <2> QED
    BY <1>1, <2>2 DEF DailyPends
<1> QED
  BY <1>3, <1>4

LEMMA ArriveStep ==
  WeekTypes /\ ErpInv /\ RunInv /\ ArriveInv /\ [WeekNext]_weekVars => ArriveInv'
<1> SUFFICES ASSUME WeekTypes, ErpInv, RunInv, ArriveInv, [WeekNext]_weekVars,
                    outages' + faults' + byHand' = 0
             PROVE  ArriveInv'
  BY DEF ArriveInv
<1>1. /\ outages = 0 /\ faults = 0 /\ byHand = 0
      /\ outages' = 0 /\ faults' = 0 /\ byHand' = 0
  BY TypesStep, TroublesGrow DEF WeekTypes
<1>2. up /\ orq # "running"
  BY <1>1 DEF ArriveInv
<1>3. ~GoesDown /\ ~ComesBack /\ ~RunsByHand
  BY <1>1, <1>2 DEF GoesDown, ComesBack, RunsByHand
<1>4. ~OrchestratorStep /\ \A e \in ETLs : ~AttemptEnds(e)
  BY <1>2 DEF OrchestratorStep, Exit, ScriptNotFound, BeginAttempt, RunRaises, AttemptEnds,
              EndAttempt, MayRun
<1>5. CASE TimePasses
  BY <1>5, ArriveTimePasses
<1>6. CASE Post
  BY <1>6, ArrivePost
<1>7. CASE ~TimePasses /\ ~Post
  <2>1. UNCHANGED <<hoy, part, late, erp, postedAt>>
    BY <1>7, ErpSteps
  <2>2. UNCHANGED <<up, orq>>
    <3>1. ASSUME NEW m \in Modes, Starts(m) \/ Loads(m) \/ Raises(m)
          PROVE  UNCHANGED <<up, orq>>
      BY <3>1 DEF Starts, Loads, Raises, orchestrator
    <3>2. ASSUME NEW m \in Modes, AsksDestination(m) \/ AsksErp(m) \/ Reports(m)
          PROVE  UNCHANGED <<up, orq>>
      BY <3>2 DEF AsksDestination, AsksErp, Reports, orchestrator
    <3>3. CASE UNCHANGED weekVars
      BY <3>3 DEF weekVars, orchestrator
    <3> QED
      BY <1>3, <1>4, <1>7, <3>1, <3>2, <3>3 DEF WeekNext
  <2>3. ASSUME NEW k \in Keys, NEW t \in Posted(k), HasHadDaily(t),
               FirstDaily(t) - k[1] <= Lookback + 1
        PROVE  gcp'[k] = Full \/ DailyPends(FirstDaily(t))'
    <3>1. CASE gcp[k] = Full
      BY <3>1, FullStays
    <3>2. CASE DailyPends(FirstDaily(t)) /\ Loads("daily")
      <4>1. hoy = FirstDaily(t)
        BY <3>2 DEF DailyPends
      <4>2. t \in Nat /\ 3 * (k[1] + 1) <= t /\ erp[k] = Full
        BY PostedIsFull
      <4>3. k[1] \in Nat /\ t <= 3 * FirstDaily(t) /\ hoy \in Nat
        BY <4>2, KeyOf, FirstDailyType, TimeType
      <4>4. hoy - 1 - Lookback <= k[1] /\ k[1] <= hoy - 1
        BY <2>3, <4>1, <4>2, <4>3, Constants
      <4> QED
        BY <3>2, <4>2, <4>4, DailyLoads
    <3>3. CASE DailyPends(FirstDaily(t)) /\ ~Loads("daily")
      BY <1>1, <1>3, <1>7, <3>3, PendsOrLoads
    <3> QED
      BY <1>1, <2>3, <3>1, <3>2, <3>3 DEF ArriveInv
  <2>4. \A k \in Keys : Posted(k)' = Posted(k)
    BY <2>1 DEF Posted, Late, Now
  <2>5. \A t : HasHadDaily(t)' <=> HasHadDaily(t)
    BY <2>1 DEF HasHadDaily, Now
  <2> QED
    BY <1>2, <2>2, <2>3, <2>4, <2>5 DEF ArriveInv
<1> QED
  BY <1>5, <1>6, <1>7

LEMMA ArriveSafe == ArriveInv => LateSalesArrive
<1> SUFFICES ASSUME ArriveInv, Quiet, outages + faults + byHand = 0,
                    NEW k \in Keys, NEW t \in Posted(k), HasHadDaily(t),
                    FirstDaily(t) - k[1] <= Lookback + 1
             PROVE  gcp[k] = Full
  BY DEF LateSalesArrive
<1>1. gcp[k] = Full \/ DailyPends(FirstDaily(t))
  BY DEF ArriveInv
<1>2. ~DailyPends(FirstDaily(t))
  BY DEF DailyPends, Quiet, NoLoad, Active, Idle, Modes
<1> QED
  BY <1>1, <1>2

\* A daily load stays due until its service starts.
LEMMA DuePersists ==
  ASSUME RunInv, [WeekNext]_weekVars, "daily" \in due, ~active'
  PROVE  "daily" \in due'
<1>1. CASE Post \/ GoesDown \/ ComesBack
  BY <1>1 DEF Post, GoesDown, ComesBack
<1>2. CASE TimePasses
  BY <1>2 DEF TimePasses
<1>3. ASSUME NEW m \in Modes, Starts(m) PROVE "daily" \in due'
  BY <1>3 DEF Starts, OfDaily, TimerFires
<1>4. ASSUME NEW m \in Modes, Loads(m) \/ Raises(m) PROVE "daily" \in due'
  BY <1>4 DEF Loads, Raises
<1>5. ASSUME NEW m \in Modes, AsksDestination(m) \/ AsksErp(m) \/ Reports(m) PROVE "daily" \in due'
  BY <1>5 DEF AsksDestination, AsksErp, Reports
<1>6. ASSUME RunsByHand \/ OrchestratorStep \/ \E e \in ETLs : AttemptEnds(e)
      PROVE  "daily" \in due'
  BY <1>6 DEF RunsByHand, OrchestratorStep, AttemptEnds, OrchestratorOnly
<1>7. CASE UNCHANGED weekVars
  BY <1>7 DEF weekVars
<1> QED
  BY <1>1, <1>2, <1>3, <1>4, <1>5, <1>6, <1>7 DEF WeekNext

-----------------------------------------------------------------------------
(* What the monitor's silence says.                                        *)

\* What a step does to the service, and with it to the age of the last exit.
LEMMA ExitSteps ==
  ASSUME WeekTypes, StatusInv, RunInv, [WeekNext]_weekVars
  PROVE  \/ TimePasses /\ Tick
         \/ exitAge' = {} /\ UNCHANGED <<hoy, part>>
         \/ \E m \in Modes : (Raises(m) \/ Reports(m)) /\ m = "daily" /\ UNCHANGED <<hoy, part>>
         \/ UNCHANGED <<vars, hoy, part>>
<1>1. CASE TimePasses
  BY <1>1 DEF TimePasses
<1>2. CASE GoesDown
  BY <1>2 DEF GoesDown, Reboot
<1>3. CASE Post \/ ComesBack
  BY <1>3 DEF Post, ComesBack
<1>4. ASSUME NEW m \in Modes, Starts(m)
      PROVE  (exitAge' = {} /\ UNCHANGED <<hoy, part>>) \/ UNCHANGED <<vars, hoy, part>>
  BY <1>4 DEF Starts, OfDaily, TimerFires
<1>5. ASSUME NEW m \in Modes, Loads(m) \/ AsksDestination(m) \/ AsksErp(m)
      PROVE  UNCHANGED <<vars, hoy, part>>
  BY <1>5 DEF Loads, AsksDestination, AsksErp
<1>6. ASSUME NEW m \in Modes, Raises(m) \/ Reports(m)
      PROVE  UNCHANGED <<hoy, part>> /\ (m # "daily" => UNCHANGED vars)
  BY <1>6 DEF Raises, Reports, OfDaily
<1>7. ASSUME RunsByHand \/ OrchestratorStep \/ \E e \in ETLs : AttemptEnds(e)
      PROVE  UNCHANGED <<vars, hoy, part>>
  BY <1>7 DEF RunsByHand, OrchestratorStep, AttemptEnds, OrchestratorOnly
<1>8. CASE UNCHANGED weekVars
  BY <1>8 DEF weekVars
<1> QED
  BY <1>1, <1>2, <1>3, <1>4, <1>5, <1>6, <1>7, <1>8 DEF WeekNext

Exited(x) == result = "success" /\ x \in exitAge /\ x < Oldest

LoadedBefore(d) == \A k \in OnTime : d - 1 - Lookback <= k[1] /\ k[1] <= d - 1 => gcp[k] = Full

SuccessLoaded == \A x : Exited(x) => LoadedBefore((Now - x) \div 3)

DoneToday ==
  up /\ part # Night /\ "daily" \notin due /\ ~active => \A x \in exitAge : x <= part - Day

LEMMA AgeParts == AgeInv <=> SuccessLoaded /\ DoneToday
  BY DEF AgeInv, SuccessLoaded, DoneToday, Exited, LoadedBefore

LEMMA SuccessLoadedStep ==
  WeekTypes /\ StatusInv /\ ErpInv /\ RunInv /\ SuccessLoaded /\ [WeekNext]_weekVars => SuccessLoaded'
<1> SUFFICES ASSUME WeekTypes, StatusInv, ErpInv, RunInv, SuccessLoaded, [WeekNext]_weekVars,
                    NEW x, Exited(x)', NEW day, day = (Now' - x) \div 3
             PROVE  LoadedBefore(day)'
  BY DEF SuccessLoaded, LoadedBefore
<1>1. OnTime' = OnTime /\ OnTime \subseteq Keys
  BY LateIsKept DEF OnTime
<1>2. ASSUME NEW d, LoadedBefore(d) PROVE LoadedBefore(d)'
  BY <1>1, <1>2, FullStays DEF LoadedBefore
<1>3. CASE TimePasses /\ Tick
  <2>1. PICK a \in exitAge : x = IF a < Oldest THEN a + 1 ELSE a
    BY <1>3 DEF Exited, Tick, Older
  <2>2. a \in Nat /\ x < Oldest /\ result = "success"
    BY <1>3 DEF StatusInv, Exited, Tick
  <2>3. a < Oldest /\ x = a + 1
    BY <2>1, <2>2, Constants
  <2>4. Now \in Nat /\ Now' = Now + 1
    BY <1>3, TimeType DEF Now, TimePasses, Evening, Night
  <2>5. Now' - x = Now - a
    BY <2>2, <2>3, <2>4
  <2>6. LoadedBefore((Now - a) \div 3)
    BY <2>2, <2>3 DEF SuccessLoaded, Exited
  <2> QED
    BY <1>2, <2>5, <2>6
<1>4. CASE exitAge' = {}
  BY <1>4 DEF Exited
<1>5. CASE UNCHANGED <<vars, hoy, part>>
  <2>1. LoadedBefore((Now - x) \div 3)
    BY <1>5 DEF SuccessLoaded, Exited, vars, unit
  <2>2. Now' = Now
    BY <1>5 DEF Now
  <2> QED
    BY <1>2, <2>1, <2>2
<1>6. CASE Raises("daily") /\ "daily" \in Modes
  BY <1>6 DEF Raises, OfDaily, Fails, Finish, Exited
<1>7. CASE Reports("daily") /\ UNCHANGED <<hoy, part>>
  <2>1. x = 0
    BY <1>7 DEF Reports, OfDaily, Succeeds, Finish, Exited
  <2>2. hoy \in Nat /\ part \in {0, 1, 2}
    BY TimeType
  <2>3. Now' = 3 * hoy + part
    BY <1>7 DEF Now
  <2>4. (Now' - x) \div 3 = hoy
    BY <2>1, <2>2, <2>3
  <2>5. "daily" \in Modes
    BY DEF Modes
  <2>6. LoadOK("daily", runs["daily"]) /\ runs["daily"].stage = "report"
    BY <1>7, <2>5, IdleOrLoad DEF Reports, Stages, RunInv
  <2>7. LoadedBefore(hoy)
    BY <2>2, <2>5, <2>6, Ranges DEF LoadOK, LoadedBefore
  <2> QED
    BY <1>2, <2>4, <2>7
<1> QED
  BY <1>3, <1>4, <1>5, <1>6, <1>7, ExitSteps

LEMMA DoneTodayStep ==
  WeekTypes /\ StatusInv /\ RunInv /\ DoneToday /\ [WeekNext]_weekVars => DoneToday'
<1> SUFFICES ASSUME WeekTypes, StatusInv, RunInv, DoneToday, [WeekNext]_weekVars,
                    up', part' # Night, "daily" \notin due', ~active', NEW x \in exitAge'
             PROVE  x <= part' - Day
  BY DEF DoneToday
<1>1. CASE TimePasses /\ Tick
  <2>1. /\ up /\ UNCHANGED active /\ exitAge' = Older(exitAge)
        /\ due' = due \cup {m \in Modes : Elapses(m, hoy', part', sunday)}
    BY <1>1 DEF TimePasses, Tick
  <2>2. part' # Day
    BY <2>1 DEF Elapses, Modes
  <2>3. part = Day /\ part' = Evening
    BY <1>1, <2>2 DEF TimePasses, WeekTypes, Night, Day, Evening
  <2>4. PICK a \in exitAge : x = IF a < Oldest THEN a + 1 ELSE a
    BY <2>1 DEF Older
  <2>5. a \in Nat /\ a <= part - Day
    BY <2>1, <2>3, <2>4 DEF DoneToday, StatusInv, Night, Day
  <2> QED
    BY <2>3, <2>4, <2>5 DEF Day, Evening
<1>2. CASE exitAge' = {}
  BY <1>2
<1>3. CASE (Raises("daily") \/ Reports("daily")) /\ UNCHANGED <<hoy, part>>
  <2>1. x = 0
    BY <1>3 DEF Raises, Reports, OfDaily, Fails, Succeeds, Finish
  <2>2. part' \in {1, 2}
    BY <1>3 DEF WeekTypes, Night, Day, Evening
  <2>3. \A p \in {1, 2} : 0 <= p - 1
    OBVIOUS
  <2> QED
    BY <2>1, <2>2, <2>3 DEF Day
<1>4. CASE UNCHANGED <<vars, hoy, part>>
  <2>1. UNCHANGED <<active, exitAge>>
    BY <1>4 DEF vars, unit
  <2>2. CASE ~up
    BY <2>1, <2>2 DEF RunInv
  <2>3. CASE up
    <3>1. "daily" \notin due
      BY <1>4, <2>1, DuePersists
    <3> QED
      BY <1>4, <2>1, <2>3, <3>1 DEF DoneToday
  <2> QED
    BY <2>2, <2>3
<1> QED
  BY <1>1, <1>2, <1>3, <1>4, ExitSteps

LEMMA AgeInit == WeekInit => AgeInv
  BY DEF WeekInit, Init, AgeInv

LEMMA AgeStep ==
  WeekTypes /\ StatusInv /\ ErpInv /\ RunInv /\ AgeInv /\ [WeekNext]_weekVars => AgeInv'
<1>1. AgeInv' <=> SuccessLoaded' /\ DoneToday'
  BY AgeParts, PTL
<1> QED
  BY <1>1, AgeParts, SuccessLoadedStep, DoneTodayStep

\* INFO is said of a service at rest whose last exit is a recent success.
LEMMA InfoSays ==
  ASSUME StatusInv, ~active, evaluate_systemd = "INFO"
  PROVE  result = "success" /\ \E x \in exitAge : x \in Nat /\ x < Warning /\ x < Oldest
<1>1. result = "success"
  BY DEF evaluate_systemd
<1>2. exitAge # {}
  BY <1>1 DEF evaluate_systemd, AtLeastWarning
<1>3. classify_freshness(exitAge) = "INFO"
  BY <1>1, <1>2 DEF evaluate_systemd
<1>4. \A x \in exitAge : x \in Nat /\ ~ (x >= Warning)
  BY <1>3 DEF classify_freshness, StatusInv
<1> QED
  BY <1>1, <1>2, <1>4, Constants

LEMMA AgeSafe ==
  ASSUME Warning <= 4, Lookback >= 1, WeekTypes, StatusInv, AgeInv
  PROVE  SilentMeansYesterday
<1> SUFFICES ASSUME up, ~active, "daily" \notin due, evaluate_systemd = "INFO",
                    NEW k \in OnTime, k[1] = IF part = Night THEN hoy - 2 ELSE hoy - 1
             PROVE  gcp[k] = Full
  BY DEF SilentMeansYesterday, OnTime
<1>1. PICK x \in exitAge : result = "success" /\ x \in Nat /\ x < Warning /\ x < Oldest
  BY InfoSays
<1>2. x \in Nat /\ x <= 3
  BY <1>1, Constants
<1>3. hoy \in Nat /\ part \in {0, 1, 2} /\ Now = 3 * hoy + part
  BY TimeType DEF Now
<1> DEFINE d == (Now - x) \div 3
<1>4. LoadedBefore(d)
  BY <1>1, AgeParts DEF SuccessLoaded, Exited
<1>5. CASE part = Night
  <2>1. d \in {hoy - 1, hoy}
    BY <1>2, <1>3, <1>5 DEF Night
  <2>2. k[1] = hoy - 2
    BY <1>5
  <2> HIDE DEF d
  <2> QED
    BY <1>3, <1>4, <2>1, <2>2, Constants DEF LoadedBefore
<1>6. CASE part # Night
  <2>1. x <= part - 1
    BY <1>6, AgeParts DEF DoneToday, Day
  <2>2. d = hoy
    BY <1>2, <1>3, <2>1
  <2>3. k[1] = hoy - 1
    BY <1>6
  <2> HIDE DEF d
  <2> QED
    BY <1>3, <1>4, <2>2, <2>3, Constants DEF LoadedBefore
<1> QED
  BY <1>5, <1>6

-----------------------------------------------------------------------------
(* An outage is recovered from.                                            *)

\* A load that goes on does not become idle.
LEMMA GoesOn ==
  ASSUME RunInv, NEW m \in Modes, Loads(m) \/ AsksDestination(m) \/ AsksErp(m)
  PROVE  \A n \in Modes : Active(n)' <=> Active(n)
<1>1. runs[m].stage \in Stages
  BY DEF Loads, AsksDestination, AsksErp, Stages
<1>2. Active(m) /\ IsLoad(runs[m])
  BY <1>1, IdleOrLoad DEF RunInv, LoadOK
<1>3. {"stats", "source", "report"} \subseteq Stages
  BY DEF Stages
<1>4. PICK r : runs' = [runs EXCEPT ![m] = r] /\ r.stage \in Stages
  <2>1. CASE Loads(m)
    <3>1. PICK q : q = [runs[m] EXCEPT !.stage = "stats"] /\ runs' = [runs EXCEPT ![m] = q]
      BY <2>1 DEF Loads
    <3>2. q = [stage |-> "stats", from |-> runs[m].from, to |-> runs[m].to,
               stats |-> runs[m].stats, src |-> runs[m].src]
      BY <1>2, <1>3, <3>1, StageOf
    <3>3. q.stage \in Stages
      BY <3>2 DEF Stages
    <3> QED
      BY <3>1, <3>3
  <2>2. CASE AsksDestination(m)
    <3>1. PICK x, q : /\ q = [runs[m] EXCEPT !.stage = "source", !.stats = x]
                      /\ runs' = [runs EXCEPT ![m] = q]
      BY <2>2 DEF AsksDestination
    <3>2. q = [stage |-> "source", from |-> runs[m].from, to |-> runs[m].to,
               stats |-> x, src |-> runs[m].src]
      BY <1>2, <1>3, <3>1, StageOf
    <3>3. q.stage \in Stages
      BY <3>2 DEF Stages
    <3> QED
      BY <3>1, <3>3
  <2>3. CASE AsksErp(m)
    <3>1. PICK x, q : /\ q = [runs[m] EXCEPT !.stage = "report", !.src = x]
                      /\ runs' = [runs EXCEPT ![m] = q]
      BY <2>3 DEF AsksErp
    <3>2. q = [stage |-> "report", from |-> runs[m].from, to |-> runs[m].to,
               stats |-> runs[m].stats, src |-> x]
      BY <1>2, <1>3, <3>1, StageOf
    <3>3. q.stage \in Stages
      BY <3>2 DEF Stages
    <3> QED
      BY <3>1, <3>3
  <2> QED
    BY <2>1, <2>2, <2>3
<1>5. r # Idle
  BY <1>4 DEF Idle, Stages
<1> QED
  BY <1>2, <1>4, <1>5, OneLoad DEF Active

\* What the steps of the loads and of the orchestrator do to an outage.
LEMMA OutageSteps ==
  ASSUME WeekTypes, RunInv, [WeekNext]_weekVars, ~TimePasses, ~GoesDown, ~ComesBack
  PROVE  /\ UNCHANGED <<hoy, part, sunday, late, up, outages, outage>>
         /\ faults' = 0 => \/ weeklyDone' = weeklyDone /\ (WeeklyComes' <=> WeeklyComes)
                           \/ weeklyDone' /\ Reports("weekly")
         /\ ~up => weeklyDone' = weeklyDone
<1> DEFINE same == UNCHANGED <<hoy, part, sunday, late, up, outages, outage>>
           steps == \/ weeklyDone' = weeklyDone /\ (WeeklyComes' <=> WeeklyComes)
                    \/ weeklyDone' /\ Reports("weekly")
           goal == same /\ (faults' = 0 => steps) /\ (~up => weeklyDone' = weeklyDone)
<1> USE DEF world, tables, troubles
<1>1. faults \in Nat /\ weeklyDone \in BOOLEAN /\ "weekly" \in Modes
  BY DEF WeekTypes, Modes
<1>2. ASSUME UNCHANGED <<due, runs, weeklyDone, hoy, part, sunday, late, up, outages, outage>>
      PROVE  goal
  BY <1>2 DEF WeeklyComes, Active
<1>3. CASE Post
  BY <1>2, <1>3 DEF Post
<1>4. ASSUME NEW m \in Modes, Starts(m) PROVE goal
  <2>1. /\ UNCHANGED <<weeklyDone, hoy, part, sunday, late, up, outages, outage>>
        /\ NoLoad /\ m \in due /\ due' = due \ {m}
    BY <1>4 DEF Starts
  <2> DEFINE range == _range_for_mode(m, hoy)
  <2>2. PICK r : /\ r = [stage |-> "load", from |-> range[1], to |-> range[2],
                         stats |-> {}, src |-> {}]
                 /\ runs' = [runs EXCEPT ![m] = r]
    BY <1>4 DEF Starts
  <2>3. r # Idle
    BY <2>2 DEF Idle
  <2>4. runs'[m] = r /\ \A n \in Modes \ {m} : runs[n] = Idle /\ runs'[n] = Idle
    BY <2>1, <2>2, OneLoad
  <2>5. WeeklyComes' <=> WeeklyComes
    BY <1>1, <2>1, <2>3, <2>4 DEF WeeklyComes, Active
  <2> QED
    BY <2>1, <2>5
<1>5. ASSUME NEW m \in Modes, Loads(m) \/ AsksDestination(m) \/ AsksErp(m) PROVE goal
  <2>1. UNCHANGED <<due, weeklyDone, hoy, part, sunday, late, up, outages, outage>>
    BY <1>5 DEF Loads, AsksDestination, AsksErp
  <2>2. WeeklyComes' <=> WeeklyComes
    BY <1>1, <1>5, <2>1, GoesOn DEF WeeklyComes
  <2> QED
    BY <2>1, <2>2
<1>6. ASSUME NEW m \in Modes, Raises(m) PROVE goal
  <2>1. UNCHANGED <<hoy, part, sunday, late, up, outages, outage, weeklyDone>> /\ faults' = faults + 1
    BY <1>6 DEF Raises
  <2> QED
    BY <1>1, <2>1
<1>7. ASSUME NEW m \in Modes, Reports(m) PROVE goal
  <2>1. /\ UNCHANGED <<due, hoy, part, sunday, late, up, outages, outage>>
        /\ weeklyDone' = (weeklyDone \/ m = "weekly")
        /\ runs' = [runs EXCEPT ![m] = Idle] /\ runs[m].stage = "report"
    BY <1>7 DEF Reports
  <2>2. up
    BY <2>1, IdleOrLoad DEF RunInv, NoLoad, Stages
  <2>3. CASE m = "weekly"
    BY <1>7, <2>1, <2>2, <2>3
  <2>4. CASE m # "weekly"
    <3>1. weeklyDone' = weeklyDone
      BY <1>1, <2>1, <2>4
    <3>2. runs'["weekly"] = runs["weekly"]
      BY <1>1, <2>1, <2>4 DEF RunInv
    <3>3. WeeklyComes' <=> WeeklyComes
      BY <2>1, <3>2 DEF WeeklyComes, Active
    <3> QED
      BY <2>1, <3>1, <3>3
  <2> QED
    BY <2>3, <2>4
<1>8. ASSUME RunsByHand \/ OrchestratorStep \/ \E e \in ETLs : AttemptEnds(e) PROVE goal
  BY <1>2, <1>8 DEF RunsByHand, OrchestratorStep, AttemptEnds, OrchestratorOnly
<1>9. CASE UNCHANGED weekVars
  BY <1>2, <1>9 DEF weekVars
<1> QED
  BY <1>3, <1>4, <1>5, <1>6, <1>7, <1>8, <1>9 DEF WeekNext

LEMMA OutageInit == WeekInit => OutageInv
<1> SUFFICES ASSUME WeekInit PROVE OutageInv
  OBVIOUS
<1>1. WeekTypes /\ ErpInv
  BY TypesInit, ErpInit
<1>2. /\ outages = 0 /\ faults = 0 /\ byHand = 0 /\ up
      /\ hoy = Start /\ part = 2 /\ gcp = erp
  BY DEF WeekInit, Evening
<1>3. ASSUME NEW k \in OnTime, 3 * (k[1] + 1) + 1 <= Now PROVE gcp[k] = Full
  <2>1. k \in Keys /\ k[1] \in Nat /\ hoy \in Nat /\ Now = 3 * hoy + 2
    BY <1>1, <1>2, KeyOf, TimeType DEF OnTime, Now
  <2>2. k[1] < hoy
    BY <1>3, <2>1
  <2> QED
    BY <1>1, <1>2, <2>2 DEF ErpInv
<1> QED
  BY <1>2, <1>3 DEF OutageInv, OutageTimes, DailiesInv, Daily, WeeklyInv, Day

\* The step of the server that goes down, and of the one that comes back.
LEMMA GoesDownSays ==
  ASSUME WeekTypes, GoesDown
  PROVE  /\ outages' = outages + 1 /\ outages \in Nat
         /\ ~up' /\ ~weeklyDone' /\ outage' = <<hoy, hoy>>
         /\ UNCHANGED <<hoy, part, gcp, faults>>
  BY DEF GoesDown, tables, WeekTypes

LEMMA ComesBackSays ==
  ASSUME WeekTypes, OutageTimes, ComesBack
  PROVE  /\ ~up /\ up' /\ outages # 0 /\ ~weeklyDone /\ ~weeklyDone'
         /\ outage'[1] = outage[1] /\ outage'[2] = hoy
         /\ UNCHANGED <<hoy, part, sunday, due, runs, gcp, late, outages, faults, byHand>>
<1>1. ~up /\ outages # 0 /\ ~weeklyDone
  BY DEF ComesBack, OutageTimes
<1>2. outage'[1] = outage[1] /\ outage'[2] = hoy
  BY DEF ComesBack, WeekTypes
<1> QED
  BY <1>1, <1>2 DEF ComesBack, world, tables

LEMMA OutageTimesStep ==
  ASSUME WeekTypes, RunInv, OutageTimes, [WeekNext]_weekVars
  PROVE  OutageTimes'
<1>1. outage[1] \in Nat /\ outage[2] \in Nat /\ hoy \in Nat
  BY TimeType DEF WeekTypes
<1>2. CASE TimePasses
  <2>1. UNCHANGED <<up, outages, outage, weeklyDone>>
    BY <1>2 DEF TimePasses, troubles
  <2>2. hoy <= hoy' /\ hoy' \in Nat
    BY <1>1, <1>2 DEF TimePasses
  <2> QED
    BY <1>1, <2>1, <2>2 DEF OutageTimes
<1>3. CASE GoesDown
  BY <1>1, <1>3, GoesDownSays DEF OutageTimes
<1>4. CASE ComesBack
  BY <1>1, <1>4, ComesBackSays DEF OutageTimes
<1>5. CASE ~TimePasses /\ ~GoesDown /\ ~ComesBack
  <2>1. UNCHANGED <<hoy, up, outages, outage>> /\ (~up => weeklyDone' = weeklyDone)
    BY <1>5, OutageSteps
  <2> QED
    BY <2>1 DEF OutageTimes
<1> QED
  BY <1>2, <1>3, <1>4, <1>5

LEMMA DailiesStep ==
  ASSUME WeekTypes, ErpInv, RunInv, OutageTimes, DailiesInv, [WeekNext]_weekVars
  PROVE  DailiesInv'
<1> SUFFICES ASSUME faults' = 0, outages' <= 1, NEW k \in OnTime, Daily(k)'
             PROVE  gcp'[k] = Full \/ DailyPends(k[1] + 1)'
  BY LateIsKept DEF DailiesInv
<1>1. k \in Keys /\ k[1] \in Nat \ {0}
  BY KeyOf DEF OnTime
<1>2. /\ outage[1] \in Nat /\ outage[2] \in Nat /\ hoy \in Nat /\ part \in {0, 1, 2}
      /\ outages \in Nat /\ faults \in Nat /\ Now = 3 * hoy + part
  BY TimeType DEF WeekTypes, Now
<1>3. faults = 0 /\ outages <= 1
  <2>1. outages' \in Nat
    BY TypesStep DEF WeekTypes
  <2> QED
    BY <1>2, <2>1, TroublesGrow
<1>4. Daily(k) => gcp[k] = Full \/ DailyPends(k[1] + 1)
  BY <1>3 DEF DailiesInv
<1>5. gcp[k] = Full => gcp'[k] = Full
  BY <1>1, FullStays
<1>6. CASE TimePasses
  <2>1. UNCHANGED <<up, outages, faults, outage, gcp>> /\ (up => Quiet)
    BY <1>6 DEF TimePasses, troubles, tables
  <2>2. /\ hoy' \in Nat /\ part' \in {0, 1, 2} /\ Now' = 3 * hoy' + part'
    BY <1>2, <1>6 DEF Now, TimePasses, Evening, Night
  <2>3. Now' = Now + 1 /\ Now \in Nat
    BY <1>2, <1>6, TimeType DEF Now, TimePasses, Evening, Night
  <2>4. 3 * (k[1] + 1) + 1 <= Now'
    BY DEF Daily, Day
  <2>5. CASE 3 * (k[1] + 1) + 1 <= Now
    <3>1. Daily(k)
      BY <2>1, <2>5 DEF Daily, Day
    <3>2. ~DailyPends(k[1] + 1)
      <4>1. CASE up
        BY <2>1, <4>1 DEF DailyPends, Quiet, NoLoad, Active, Idle, Modes
      <4>2. CASE ~up
        <5>1. k[1] <= outage[1] - 2 /\ outage[1] <= hoy
          BY <1>2, <3>1, <4>2 DEF Daily, OutageTimes
        <5> QED
          BY <1>1, <1>2, <5>1 DEF DailyPends
      <4> QED
        BY <4>1, <4>2
    <3> QED
      BY <1>4, <1>5, <3>1, <3>2
  <2>6. CASE ~ (3 * (k[1] + 1) + 1 <= Now)
    <3>1. 3 * hoy' + part' = 3 * (k[1] + 1) + 1
      <4>1. ASSUME NEW c \in Nat, NEW n \in Nat, NEW p, p = n + 1, c <= p, ~ (c <= n) PROVE p = c
        BY <4>1
      <4>2. 3 * (k[1] + 1) + 1 \in Nat
        BY <1>1
      <4> QED
        BY <2>2, <2>3, <2>4, <2>6, <4>1, <4>2
    <3>2. ASSUME NEW h \in Nat, NEW p \in {0, 1, 2}, NEW f \in Nat, 3 * h + p = 3 * f + 1
          PROVE  h = f /\ p = 1
      BY <3>2
    <3>3. hoy' = k[1] + 1 /\ part' = 1
      BY <1>1, <2>2, <3>1, <3>2
    <3>4. "daily" \in due'
      BY <1>6, <3>3 DEF TimePasses, Elapses, Day, Modes
    <3> QED
      BY <3>3, <3>4 DEF DailyPends, Day
  <2> QED
    BY <2>5, <2>6
<1>7. CASE GoesDown
  <2>1. /\ outages = 0 /\ outages' = 1 /\ ~up' /\ outage' = <<hoy, hoy>>
        /\ UNCHANGED <<hoy, part>>
    BY <1>2, <1>7, GoesDownSays
  <2>2. k[1] <= hoy - 2 /\ Now' = Now
    BY <2>1 DEF Daily, Now
  <2>3. Daily(k)
    BY <2>1, <2>2 DEF Daily
  <2>4. ~DailyPends(k[1] + 1)
    BY <1>1, <1>2, <2>2 DEF DailyPends
  <2> QED
    BY <1>4, <1>5, <2>3, <2>4
<1>8. CASE ComesBack
  <2>1. /\ ~up /\ outages # 0 /\ outage'[1] = outage[1] /\ outage'[2] = hoy
        /\ UNCHANGED <<hoy, part, due, runs, outages>>
    BY <1>8, ComesBackSays
  <2>2. Now' = Now /\ 3 * (k[1] + 1) + 1 <= Now
    BY <2>1 DEF Daily, Day, Now
  <2>3. k[1] < hoy
    BY <1>1, <1>2, <2>2
  <2>4. k[1] <= outage[1] - 2
    BY <1>1, <1>2, <2>1, <2>3 DEF Daily
  <2>5. Daily(k)
    BY <2>2, <2>4 DEF Daily, Day
  <2> QED
    BY <1>4, <1>5, <2>1, <2>5 DEF DailyPends
<1>9. CASE ~TimePasses /\ ~GoesDown /\ ~ComesBack
  <2>1. UNCHANGED <<hoy, part, up, outages, outage>>
    BY <1>9, OutageSteps
  <2>2. Daily(k) /\ Now' = Now
    BY <2>1 DEF Daily, Now
  <2>3. CASE gcp[k] = Full
    BY <1>5, <2>3
  <2>4. CASE DailyPends(k[1] + 1) /\ Loads("daily")
    <3>1. hoy = k[1] + 1
      BY <2>4 DEF DailyPends
    <3>2. erp[k] = Full
      BY <1>1, <1>2, <3>1 DEF ErpInv
    <3>3. hoy - 1 - Lookback <= k[1] /\ k[1] <= hoy - 1
      BY <1>1, <1>2, <3>1, Constants
    <3> QED
      BY <1>1, <2>4, <3>2, <3>3, DailyLoads
  <2>5. CASE DailyPends(k[1] + 1) /\ ~Loads("daily")
    BY <1>2, <1>3, <1>9, <2>5, PendsOrLoads
  <2> QED
    BY <1>4, <2>2, <2>3, <2>4, <2>5
<1> QED
  BY <1>6, <1>7, <1>8, <1>9

LEMMA WeeklyTimePasses ==
  ASSUME WeekTypes, WeeklyInv, OutageTimes, TimePasses
  PROVE  WeeklyInv'
<1> SUFFICES ASSUME faults = 0, outages = 1 PROVE WeeklyInv'
  BY DEF TimePasses, troubles, WeeklyInv
<1>1. /\ outage[1] \in Nat /\ outage[2] \in Nat
      /\ hoy \in Nat /\ part \in {0, 1, 2} /\ Now = 3 * hoy + part
  BY TimeType DEF WeekTypes, Now
<1>2. /\ hoy' \in Nat /\ part' \in {0, 1, 2} /\ Now' = 3 * hoy' + part'
      /\ hoy' # hoy => hoy' = hoy + 1 /\ part' = 0
  <2>1. hoy' \in Nat /\ part' \in {0, 1, 2}
    BY <1>1 DEF TimePasses, Evening, Night
  <2>2. hoy' # hoy => hoy' = hoy + 1 /\ part' = 0
    BY DEF TimePasses, Night
  <2> QED
    BY <2>1, <2>2 DEF Now
<1>3. Now' = Now + 1
  BY <1>1, TimeType DEF Now, TimePasses, Evening, Night
<1>4. Now \in Nat
  BY TimeType
<1>5. /\ UNCHANGED <<up, runs, gcp, sunday, late, outages, outage, weeklyDone>>
      /\ due' = due \cup {m \in Modes : Elapses(m, hoy', part', sunday)}
      /\ up => Quiet
  BY DEF TimePasses, world, troubles
<1>6. up => ~WeeklyComes
  BY <1>5 DEF Quiet, NoLoad, WeeklyComes, Modes
<1>7. WeeklyComes => WeeklyComes'
  BY <1>5 DEF WeeklyComes, Active
<1>8. ASSUME IsSunday(hoy' + 1, sunday), part' = 2 PROVE WeeklyComes'
  BY <1>5, <1>8 DEF WeeklyComes, Elapses, Evening, Modes
<1>9. ASSUME ~weeklyDone, ~WeeklyComes' PROVE NoneElapsed'
  <2> SUFFICES ASSUME NEW d \in outage[1] + 1 .. hoy', IsSunday(d + 1, sunday),
                      ~ (Now' < 3 * d + 2)
               PROVE  FALSE
    BY <1>5 DEF NoneElapsed, Evening
  <2>1. d \in Nat /\ d <= hoy'
    BY <1>1, <1>2
  <2>2. hoy' = d /\ part' = 2 => FALSE
    BY <1>8, <1>9
  <2>3. ASSUME NEW h \in Nat, NEW p \in {0, 1, 2}, d <= h, ~ (h = d /\ p = 2),
               ~ (3 * h + p < 3 * d + 2)
        PROVE  d + 1 <= h
    BY <2>1, <2>3
  <2>4. d + 1 <= hoy'
    BY <1>2, <2>1, <2>2, <2>3
  <2>5. d <= hoy
    BY <1>1, <1>2, <2>1, <2>4
  <2>6. Now < 3 * d + 2
    BY <1>1, <1>7, <1>9, <2>1, <2>5 DEF WeeklyInv, NoneElapsed, Evening
  <2>7. ASSUME NEW n \in Nat, NEW h \in Nat, NEW p \in {0, 1, 2},
               3 * h + p = n + 1, n < 3 * d + 2, d + 1 <= h
        PROVE  FALSE
    BY <2>1, <2>7
  <2> QED
    BY <1>2, <1>3, <1>4, <2>4, <2>6, <2>7
<1>10. ASSUME up, Short, ~weeklyDone, WeeklyComes' PROVE hoy' <= outage[1] + 7
  <2>1. IsSunday(hoy' + 1, sunday) /\ part' = 2
    BY <1>5, <1>6, <1>10 DEF WeeklyComes, Active, Elapses, Evening, Modes
  <2>2. hoy' = hoy
    BY <1>2, <2>1
  <2>3. NoneElapsed
    BY <1>6, <1>10 DEF WeeklyInv
  <2>4. ASSUME ~ (hoy <= outage[1] + 7) PROVE FALSE
    <3>1. hoy - 7 \in outage[1] + 1 .. hoy
      BY <1>1, <2>4
    <3>2. IsSunday(hoy - 7 + 1, sunday)
      <4>1. (hoy + 1) % 7 = sunday
        BY <2>1, <2>2 DEF IsSunday
      <4>2. (hoy - 7 + 1) % 7 = (hoy + 1) % 7
        BY <1>1
      <4> QED
        BY <4>1, <4>2 DEF IsSunday
    <3>3. Now < 3 * (hoy - 7) + 2
      BY <2>3, <3>1, <3>2 DEF NoneElapsed, Evening
    <3> QED
      BY <1>1, <3>3
  <2> QED
    BY <2>2, <2>4
<1>11. ASSUME Short, weeklyDone PROVE Recovered'
  <2>1. Recovered /\ OnTime' = OnTime
    BY <1>5, <1>11 DEF WeeklyInv, OnTime, Late
  <2> QED
    BY <1>5, <2>1 DEF Recovered
<1> QED
  BY <1>5, <1>9, <1>10, <1>11 DEF WeeklyInv, Short

\* The weekly load that ends well has brought the days around a short outage.
LEMMA WeeklyLoads ==
  ASSUME WeekTypes, RunInv, OutageTimes, WeeklyInv, faults = 0, outages = 1, Short, ~weeklyDone,
         Reports("weekly")
  PROVE  Recovered
<1>1. "weekly" \in Modes /\ runs["weekly"].stage = "report"
  BY DEF Reports, Modes
<1>2. Active("weekly") /\ LoadOK("weekly", runs["weekly"])
  BY <1>1, IdleOrLoad DEF Stages, RunInv
<1>3. up
  BY <1>1, <1>2 DEF RunInv, NoLoad
<1>4. /\ hoy \in Nat /\ outage[1] \in Nat /\ outage[2] \in Nat
      /\ outage[2] <= hoy /\ hoy <= outage[1] + 7
  BY <1>2, <1>3, TimeType DEF WeeklyInv, WeeklyComes, OutageTimes, WeekTypes
<1>5. runs["weekly"].from = hoy - 8 /\ runs["weekly"].to = hoy - 1
  BY <1>1, <1>2, <1>4, Ranges DEF LoadOK
<1>6. \A k \in OnTime : k[1] \in Nat
  BY KeyOf DEF OnTime
<1> QED
  BY <1>1, <1>2, <1>4, <1>5, <1>6 DEF LoadOK, Recovered

LEMMA WeeklyStep ==
  ASSUME WeekTypes, ErpInv, RunInv, OutageTimes, WeeklyInv, [WeekNext]_weekVars
  PROVE  WeeklyInv'
<1>1. OnTime' = OnTime /\ OnTime \subseteq Keys
  BY LateIsKept DEF OnTime
<1>2. \A k \in Keys : gcp[k] = Full => gcp'[k] = Full
  BY FullStays
<1>3. CASE TimePasses
  BY <1>3, WeeklyTimePasses
<1>4. CASE GoesDown
  <2>1. ~up' /\ ~weeklyDone' /\ outage'[1] = hoy /\ hoy' = hoy
    BY <1>4, GoesDownSays
  <2>2. NoneElapsed'
    <3>1. hoy + 1 .. hoy = {}
      BY TimeType
    <3> QED
      BY <2>1, <3>1 DEF NoneElapsed
  <2> QED
    BY <2>1, <2>2 DEF WeeklyInv
<1>5. CASE ComesBack
  <2>1. /\ ~up /\ outages # 0 /\ ~weeklyDone /\ ~weeklyDone'
        /\ outage'[1] = outage[1] /\ outage'[2] = hoy
        /\ UNCHANGED <<hoy, part, sunday, due, runs, outages, faults>>
    BY <1>5, ComesBackSays
  <2>2. WeeklyComes' <=> WeeklyComes
    BY <2>1 DEF WeeklyComes, Active
  <2>3. NoneElapsed' <=> NoneElapsed
    BY <2>1 DEF NoneElapsed, Now
  <2>4. Short' => hoy' <= outage'[1] + 7
    <3>1. hoy \in Nat /\ outage[1] \in Nat
      BY TimeType DEF WeekTypes
    <3> QED
      BY <2>1, <3>1 DEF Short
  <2> QED
    BY <2>1, <2>2, <2>3, <2>4 DEF WeeklyInv
<1>6. CASE ~TimePasses /\ ~GoesDown /\ ~ComesBack
  <2>1. UNCHANGED <<hoy, part, sunday, up, outages, outage>>
    BY <1>6, OutageSteps
  <2>2. /\ NoneElapsed' <=> NoneElapsed
        /\ Short' <=> Short
    BY <2>1 DEF NoneElapsed, Now, Short
  <2>3. Recovered => Recovered'
    BY <1>1, <1>2, <2>1 DEF Recovered
  <2> SUFFICES ASSUME faults' = 0, outages = 1 PROVE WeeklyInv'
    BY <2>1 DEF WeeklyInv
  <2>6. faults = 0
    BY TroublesGrow DEF WeekTypes
  <2>4. CASE weeklyDone' = weeklyDone /\ (WeeklyComes' <=> WeeklyComes)
    BY <2>1, <2>2, <2>3, <2>4, <2>6 DEF WeeklyInv
  <2>5. CASE weeklyDone' /\ Reports("weekly")
    <3>1. ASSUME Short PROVE Recovered
      BY <2>5, <2>6, <3>1, WeeklyLoads DEF WeeklyInv
    <3> QED
      BY <2>2, <2>3, <2>5, <3>1 DEF WeeklyInv
  <2> QED
    BY <1>6, <2>4, <2>5, OutageSteps
<1> QED
  BY <1>3, <1>4, <1>5, <1>6

LEMMA OutageStep ==
  WeekTypes /\ ErpInv /\ RunInv /\ OutageInv /\ [WeekNext]_weekVars
    => OutageInv'
  BY OutageTimesStep, DailiesStep, WeeklyStep DEF OutageInv

LEMMA OutageSafe ==
  ASSUME WeekTypes, OutageInv
  PROVE  OutageIsRecovered
<1> SUFFICES ASSUME Quiet, outages <= 1, faults = 0, weeklyDone, outage[2] - outage[1] <= 7,
                    NEW k \in OnTime, NEW t \in Posted(k), HasHadDaily(t)
             PROVE  gcp[k] = Full
  BY DEF OutageIsRecovered, OnTime
<1>1. k[1] \in Nat
  BY KeyOf DEF OnTime
<1>2. t = 3 * (k[1] + 1)
  BY DEF Posted, OnTime
<1>3. FirstDaily(t) = k[1] + 1
  BY <1>1, <1>2 DEF FirstDaily, Night
<1>4. 3 * (k[1] + 1) + Day <= Now
  BY <1>3 DEF HasHadDaily
<1>5. ~DailyPends(k[1] + 1)
  BY DEF DailyPends, Quiet, NoLoad, Active, Idle, Modes
<1>6. /\ outages \in Nat /\ faults \in Nat /\ byHand \in Nat
      /\ outage[1] \in Nat /\ outage[2] \in Nat
  BY DEF WeekTypes
<1>7. outages = 0 \/ outages = 1
  BY <1>6
<1>8. CASE outages = 0 \/ k[1] <= outage[1] - 2 \/ outage[2] <= k[1]
  BY <1>4, <1>5, <1>8 DEF OutageInv, DailiesInv, Daily, Quiet
<1>9. CASE outages = 1 /\ outage[1] - 1 <= k[1] /\ k[1] <= outage[2] - 1
  BY <1>9 DEF OutageInv, WeeklyInv, Recovered, Short
<1> QED
  BY <1>1, <1>6, <1>7, <1>8, <1>9

-----------------------------------------------------------------------------
(* The theorems.                                                           *)

LEMMA GreenInit == WeekInit => GreenMeansLoaded
  BY DEF WeekInit, GreenMeansLoaded

(***************************************************************************)
(* The inductive invariant: types, what systemd remembers, what the ERP    *)
(* and the table have, one load at a time and each of the range its mode   *)
(* has that day, what an exit code of zero stands for, and where each day  *)
(* that was posted is on its way to the table.                             *)
(***************************************************************************)
THEOREM InvariantHolds == WeekSpec => []IInv
<1>1. WeekInit => IInv
  BY TypesInit, StatusInit, ErpInit, RunInit, OrqInit, ArriveInit, GreenInit DEF IInv
<1>2. IInv /\ [WeekNext]_weekVars => IInv'
  BY TypesStep, StatusStep, ErpStep, RunStep, OrqStep, ArriveStep, GreenStep DEF IInv
<1> QED
  BY <1>1, <1>2, PTL DEF WeekSpec

(***************************************************************************)
(* A daily service that is CRITICAL has failed, or has neither a recent    *)
(* success nor a recent start: a load under way or an outage does not      *)
(* alarm by itself.                                                        *)
(***************************************************************************)
THEOREM NoFalseAlarmIsRaised == WeekSpec => []NoFalseAlarm
<1>1. IInv => NoFalseAlarm
  BY StatusSafe DEF IInv
<1> QED
  BY <1>1, InvariantHolds, PTL

(***************************************************************************)
(* A day of a store that is posted late is in the table after the daily    *)
(* load of the next morning, whatever the lookback and however late, as    *)
(* long as the day is one that load drags along.                           *)
(***************************************************************************)
THEOREM LateSalesDoArrive == WeekSpec => []LateSalesArrive
<1>1. IInv => LateSalesArrive
  BY ArriveSafe DEF IInv
<1> QED
  BY <1>1, InvariantHolds, PTL

(***************************************************************************)
(* A report that says all is well, of a run whose questions were answered, *)
(* is of a range in which every watched store and day the ERP had rows of  *)
(* has rows, and no watched store has gone silent.                         *)
(***************************************************************************)
THEOREM GreenIsLoaded == WeekSpec => []GreenMeansLoaded
<1>1. IInv => GreenMeansLoaded
  BY DEF IInv
<1> QED
  BY <1>1, InvariantHolds, PTL

(***************************************************************************)
(* When the orchestrator exits with zero and every ETL has a result, what  *)
(* had been posted of its range is in the table, however many attempts     *)
(* failed before, at any number of retries.                                *)
(***************************************************************************)
THEOREM ZeroIsLoaded == WeekSpec => []ZeroMeansLoaded
<1>1. IInv => ZeroMeansLoaded
  BY OrqSafe DEF IInv
<1> QED
  BY <1>1, InvariantHolds, PTL

(***************************************************************************)
(* When the monitor warns of exits no older than four parts of the day and *)
(* the daily load looks back at least a day, its silence on a service at   *)
(* rest means that the sales of yesterday are in the table.                *)
(***************************************************************************)
THEOREM SilenceIsYesterday ==
  ASSUME Warning <= 4, Lookback >= 1
  PROVE  WeekSpec => []SilentMeansYesterday
<1>1. WeekInit => IInv /\ AgeInv
  BY TypesInit, StatusInit, ErpInit, RunInit, OrqInit, ArriveInit, GreenInit, AgeInit DEF IInv
<1>2. (IInv /\ AgeInv) /\ [WeekNext]_weekVars => (IInv /\ AgeInv)'
  BY TypesStep, StatusStep, ErpStep, RunStep, OrqStep, ArriveStep, GreenStep, AgeStep DEF IInv
<1>3. IInv /\ AgeInv => SilentMeansYesterday
  BY AgeSafe DEF IInv
<1> QED
  BY <1>1, <1>2, <1>3, PTL DEF WeekSpec

(***************************************************************************)
(* When the server was down once, for seven days at most, and a weekly     *)
(* load has ended well since, with no load that raised, every day of the   *)
(* stores that posted in time is in the table; the weekly load need not be *)
(* one that was due when the server came back.                             *)
(***************************************************************************)
THEOREM OutagesAreRecovered == WeekSpec => []OutageIsRecovered
<1>1. WeekInit => IInv /\ OutageInv
  BY TypesInit, StatusInit, ErpInit, RunInit, OrqInit, ArriveInit, GreenInit, OutageInit DEF IInv
<1>2. (IInv /\ OutageInv) /\ [WeekNext]_weekVars => (IInv /\ OutageInv)'
  BY TypesStep, StatusStep, ErpStep, RunStep, OrqStep, ArriveStep, GreenStep, OutageStep DEF IInv
<1>3. IInv /\ OutageInv => OutageIsRecovered
  BY OutageSafe DEF IInv
<1> QED
  BY <1>1, <1>2, <1>3, PTL DEF WeekSpec
=============================================================================
