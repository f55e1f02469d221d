--------------------------- MODULE Orchestrator ----------------------------
(***************************************************************************)
(* The orchestrator of the ventas pipeline, run by hand                    *)
(* (scripts/pipeline_orchestrator.py, scripts/etl_runner.py): the light    *)
(* ETLs in threads and then the heavy ones in turn, each a subprocess that *)
(* is tried again when it fails or exceeds its time.                       *)
(*                                                                         *)
(* Which rows an attempt leaves behind is up to the module that composes   *)
(* this one with the tables.                                               *)
(***************************************************************************)
EXTENDS Integers, Sequences, SequencesExt

CONSTANTS
  Parallel,        \* the ETLs of etls.parallel, a set
  Sequential,      \* the ETLs of etls.sequential, a sequence
  MaxRetries,      \* execution.max_retries
  ValidationWeeks  \* execution.validation_weeks

ETLs == Parallel \cup ToSet(Sequential)

ASSUME OrchestratorAssumption ==
  /\ Parallel \cap ToSet(Sequential) = {} /\ IsInjective(Sequential)
  /\ MaxRetries \in Nat

VARIABLES
  orq,      \* "idle", "running" or "exited"
  rango,    \* the range of the run
  attempt,  \* the attempt of each ETL that is being run, or zero
  results,  \* what became of each ETL: a status, "none", or "lost" in a future
  exitCode  \* the exit code of the last run, {} before it

orchestrator == <<orq, rango, attempt, results, exitCode>>

-----------------------------------------------------------------------------
Statuses == {"success", "failed", "timeout"}
Settled(e) == results[e] # "none"

\* Threads run side by side; the rest wait for them and for one another.
MayRun(e) ==
  /\ orq = "running" /\ ~Settled(e)
  /\ e \in ToSet(Sequential) =>
       /\ \A p \in Parallel : Settled(p)
       /\ \E i \in DOMAIN Sequential :
            Sequential[i] = e /\ \A j \in 1..(i - 1) : Settled(Sequential[j])

StartRun(range) ==
  /\ orq # "running"
  /\ orq' = "running"
  /\ rango' = range
  /\ attempt' = [e \in ETLs |-> 0]
  /\ results' = [e \in ETLs |-> "none"]
  /\ exitCode' = {}

\* run_monthly_validation on any other week: nothing is run, and that is well.
AbortRun ==
  /\ orq # "running"
  /\ orq' = "exited"
  /\ attempt' = [e \in ETLs |-> 0]
  /\ results' = [e \in ETLs |-> "none"]
  /\ exitCode' = {0}
  /\ UNCHANGED rango

Settle(e, status) ==
  /\ results' = [results EXCEPT ![e] = status]
  /\ attempt' = [attempt EXCEPT ![e] = 0]
  /\ UNCHANGED <<orq, rango, exitCode>>

\* The script of the ETL is not there: a failure without attempts.
ScriptNotFound(e) == MayRun(e) /\ attempt[e] = 0 /\ Settle(e, "failed")

BeginAttempt(e) ==
  /\ MayRun(e) /\ attempt[e] = 0 /\ MaxRetries > 0
  /\ attempt' = [attempt EXCEPT ![e] = 1]
  /\ UNCHANGED <<orq, rango, results, exitCode>>

\* A bug: a time-out is not a failure.
EndAttemptLenient(e, status) ==
  /\ MayRun(e) /\ attempt[e] > 0
  /\ IF status = "failed" /\ attempt[e] < MaxRetries
       THEN /\ attempt' = [attempt EXCEPT ![e] = @ + 1]
            /\ UNCHANGED <<orq, rango, results, exitCode>>
       ELSE Settle(e, IF status = "failed" THEN status ELSE "success")

\* An attempt succeeds, or is followed by the next one, or was the last.
EndAttempt(e, status) ==
  /\ MayRun(e) /\ attempt[e] > 0
  /\ IF status # "success" /\ attempt[e] < MaxRetries
       THEN /\ attempt' = [attempt EXCEPT ![e] = @ + 1]
            /\ UNCHANGED <<orq, rango, results, exitCode>>
       ELSE Settle(e, status)

\* run_etl raises: the script cannot be looked at, or no attempt is allowed. Of
\* a future only a line of the log remains; otherwise the orchestrator dies.
RunRaises(e) ==
  /\ MayRun(e) /\ attempt[e] = 0
  /\ IF e \in Parallel THEN Settle(e, "lost")
     ELSE /\ orq' = "exited"
          /\ exitCode' = {2}
          /\ UNCHANGED <<rango, attempt, results>>

\* The results that there are decide the exit code.
Exit ==
  /\ orq = "running" /\ \A e \in ETLs : Settled(e)
  /\ orq' = "exited"
  /\ exitCode' = {IF \E e \in ETLs : results[e] \in Statuses \ {"success"} THEN 1 ELSE 0}
  /\ UNCHANGED <<rango, attempt, results>>

\* The process is gone, and its exit code read.
ForgetRun ==
  /\ orq' = "idle"
  /\ rango' = <<0, 0>>
  /\ attempt' = [e \in ETLs |-> 0]
  /\ results' = [e \in ETLs |-> "none"]
  /\ exitCode' = {}

InitOrchestrator ==
  /\ orq = "idle"
  /\ rango = <<0, 0>>
  /\ attempt = [e \in ETLs |-> 0]
  /\ results = [e \in ETLs |-> "none"]
  /\ exitCode = {}

=============================================================================
