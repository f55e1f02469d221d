--------------------------- MODULE SystemdStatus ----------------------------
(***************************************************************************)
(* What the monitor concludes from systemd about one ETL job               *)
(* (monitors/systemd.py, severity.py), against what really became of the   *)
(* job.                                                                    *)
(*                                                                         *)
(* The job is a service started by its timer.  It runs, succeeds, fails,   *)
(* hangs, or is cut short by a reboot, which makes systemd forget the      *)
(* result and the exit time of the service but not the last trigger of a   *)
(* persistent timer.  Times are ages in ticks, told apart up to Oldest.    *)
(***************************************************************************)
EXTENDS Integers

CONSTANTS
  Warning,   \* warning_after_minutes, in ticks
  Critical,  \* critical_after_minutes, in ticks
  Oldest     \* bound: older ages are not told apart

ASSUME StatusAssumption ==
  /\ Warning \in Nat /\ Critical \in Nat /\ Oldest \in Nat
  /\ Warning <= Critical   \* _parse_job refuses anything else
  /\ Critical < Oldest

VARIABLES
  active,      \* ActiveState: the service is running
  result,      \* Result
  exitAge,     \* age of ExecMainExitTimestamp, {} when it is empty
  triggerAge,  \* age of the timer's LastTriggerUSec, {} when it is empty
  \* What follows is observed by the properties only.
  outcome,     \* how the last run to end did end
  goodAge      \* age of the last run that succeeded, {} when there is none

unit == <<active, result, exitAge, triggerAge>>
truth == <<outcome, goodAge>>
vars == <<unit, truth>>

-----------------------------------------------------------------------------
(* The monitor.                                                            *)

\* classify_freshness fails closed: an unknown delay is CRITICAL.
classify_freshness(delay) ==
  IF delay = {} \/ \E d \in delay : d >= Critical THEN "CRITICAL"
  ELSE IF \E d \in delay : d >= Warning THEN "WARNING" ELSE "INFO"

AtLeastWarning(severity) == IF severity = "INFO" THEN "WARNING" ELSE severity

\* A bug: a unit without exit time never ran.
evaluate_systemdNeverRan ==
  IF result # "success" \/ exitAge = {} THEN "CRITICAL" ELSE classify_freshness(exitAge)

\* A bug: the severity does not depend on the result of the last run.
evaluate_systemdNoResult ==
  CASE exitAge = {} /\ active -> "INFO"
    [] exitAge = {} /\ ~active -> AtLeastWarning(classify_freshness(triggerAge))
    [] OTHER -> classify_freshness(exitAge)

\* evaluate_systemd.  Without exit time the unit runs, or has lost the time in
\* a reboot (judged by its trigger, at least WARNING), or never ran.
evaluate_systemd ==
  CASE result # "success" -> "CRITICAL"
    [] result = "success" /\ exitAge = {} /\ active -> "INFO"
    [] result = "success" /\ exitAge = {} /\ ~active ->
         AtLeastWarning(classify_freshness(triggerAge))
    [] OTHER -> classify_freshness(exitAge)

-----------------------------------------------------------------------------
(* The job.                                                                *)

\* The timer starts the service.  Whether Result survives until the end of the
\* new run is systemd's affair; the exit time does not.
TimerFires ==
  /\ ~active
  /\ active' = TRUE
  /\ result' \in {"success", result}
  /\ exitAge' = {}
  /\ triggerAge' = {0}
  /\ UNCHANGED truth

Finish(ending) ==
  /\ active
  /\ active' = FALSE
  /\ result' = ending
  /\ exitAge' = {0}
  /\ outcome' = ending
  /\ goodAge' = IF ending = "success" THEN {0} ELSE goodAge
  /\ UNCHANGED triggerAge

Succeeds == Finish("success")

Fails == Finish("exit-code")

Reboot ==
  /\ active' = FALSE
  /\ result' = "success"
  /\ exitAge' = {}
  /\ outcome' = IF active THEN "killed" ELSE outcome
  /\ UNCHANGED <<triggerAge, goodAge>>

Older(age) == {IF a < Oldest THEN a + 1 ELSE a : a \in age}

Tick ==
  /\ exitAge' = Older(exitAge)
  /\ triggerAge' = Older(triggerAge)
  /\ goodAge' = Older(goodAge)
  /\ UNCHANGED <<active, result, outcome>>

Init ==
  /\ active = FALSE
  /\ result = "success"
  /\ exitAge = {}
  /\ triggerAge = {}
  /\ outcome = "never"
  /\ goodAge = {}

-----------------------------------------------------------------------------
(* Properties.                                                             *)

Old(age) == age = {} \/ \E a \in age : a >= Critical

\* A CRITICAL job has failed, or has no recent success, or no recent start:
\* neither a running job nor a reboot raises a CRITICAL alarm by itself.
NoFalseAlarm ==
  evaluate_systemd = "CRITICAL" =>
    outcome = "exit-code" \/ Old(goodAge) \/ Old(triggerAge)

=============================================================================
