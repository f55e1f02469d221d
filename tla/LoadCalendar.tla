--------------------------- MODULE LoadCalendar ----------------------------
(***************************************************************************)
(* The dates the Dinastia pipelines load: the range of each mode of        *)
(* run_pipeline.py (scripts/run_pipeline.py, common/utils.py) and when     *)
(* their timers elapse (systemd/*.timer).  A day is a number; sunday is    *)
(* what the numbers of Sundays leave when divided by seven.                *)
(***************************************************************************)
EXTENDS Integers, FiniteSetsExt

CONSTANTS
  Firsts,    \* the first days of months, the first of them before all others
  Lookback   \* source.daily_lookback_days

ASSUME CalendarAssumption ==
  /\ Firsts \subseteq Int /\ Firsts # {}
  /\ Lookback \in Nat

Modes == {"daily", "weekly", "monthly"}

-----------------------------------------------------------------------------
\* A bug: a week has no day to spare.
WEEKLY_DAYSShort == 7
WEEKLY_DAYS == 8

FirstOfMonth(d) == Max({f \in Firsts : f <= d})
DayOfMonth(d) == d - FirstOfMonth(d) + 1

get_yesterday(hoy) == hoy - 1

\* The first of the month that yesterday is in, until yesterday.
get_month_range(hoy) == <<FirstOfMonth(get_yesterday(hoy)), get_yesterday(hoy)>>

\* The weeks of the month count from its first day.
should_run_validation(hoy, weeks) == (DayOfMonth(hoy) - 1) \div 7 + 1 \in weeks

\* A bug: the ranges count from today.
_range_for_modeFromToday(mode, hoy) ==
  CASE mode = "daily"   -> <<hoy - Lookback, get_yesterday(hoy)>>
    [] mode = "weekly"  -> <<hoy - WEEKLY_DAYS, get_yesterday(hoy)>>
    [] mode = "monthly" -> get_month_range(hoy)

\* daily: yesterday and the days it drags along; weekly: the last WEEKLY_DAYS.
_range_for_mode(mode, hoy) ==
  CASE mode = "daily"   -> <<get_yesterday(hoy) - Lookback, get_yesterday(hoy)>>
    [] mode = "weekly"  -> <<get_yesterday(hoy) - (WEEKLY_DAYS - 1), get_yesterday(hoy)>>
    [] mode = "monthly" -> get_month_range(hoy)

-----------------------------------------------------------------------------
(* OnCalendar= of the timers.  The day has three parts: before 07:00, until  *)
(* the evening, and after the evening's timers.                              *)
Night == 0
Day == 1
Evening == 2

IsSunday(d, sunday) == d % 7 = sunday

Elapses(mode, d, part, sunday) ==
  \/ mode = "daily" /\ part = Day
  \/ mode = "weekly" /\ part = Evening /\ IsSunday(d + 1, sunday)
  \/ mode = "monthly" /\ part = Evening /\ IsSunday(d, sunday) /\ DayOfMonth(d) <= 7

=============================================================================
