--------------------------- MODULE AlertIncidents ---------------------------
(***************************************************************************)
(* The proactive incident alerts (scripts/alert_incidents.py, alerting.py, *)
(* and the delivery of notify.py).                                         *)
(*                                                                         *)
(* A timer runs alert_incidents again and again; people run it by hand.    *)
(* Each run probes the server, reads the severity of the jobs, compares    *)
(* them with the state file, sends what has changed in chunks and then     *)
(* rewrites the state file, which is all that the next run knows of what   *)
(* the operator was told.                                                  *)
(*                                                                         *)
(* A state, or what the operator believes, gives every id a level; INFO    *)
(* stands for an id that is absent from the code's dictionary.             *)
(***************************************************************************)
EXTENDS Integers, FiniteSets

CONSTANTS
  Jobs,            \* the jobs of the catalog that have a systemd unit
  SERVER_DOWN_ID,  \* the synthetic id of the server itself
  Runs,            \* runs of the script that may overlap
  Senders,         \* the runs that have --send, a target and a token
  ChunkLines,      \* lines of an alert that fit into one message
  MaxChanges,      \* bound: changes of the severity of a job
  MaxOutages,      \* bound: times the server becomes unreachable
  MaxFaults        \* bound: failed sends and killed runs

ASSUME AlertAssumption ==
  /\ SERVER_DOWN_ID \notin Jobs
  /\ Senders \subseteq Runs
  /\ IsFiniteSet(Jobs)
  /\ ChunkLines \in Nat \ {0}
  /\ {MaxChanges, MaxOutages, MaxFaults} \subseteq Nat

VARIABLES
  severity,   \* the true level of each job, as evaluate_systemd would tell it
  reachable,  \* the server answers SSH
  stateFile,  \* .alert-state.json
  pc,         \* where each run stands in main
  current,    \* what each run has collected
  unsent,     \* the ids whose line each run has still to send
  belief,     \* what the operator was last told of each id
  changes, outages, faults,
  \* What follows is observed by the properties only.
  told,       \* the ids each run has sent a line about
  unsure,     \* ids told by a run that could not say so in the state file
  since,      \* the levels each job has had since the operator last heard of it
  repeated    \* a line told the operator what he had been told before

env == <<severity, reachable, changes, outages>>
run == <<pc, current, unsent, told>>
operator == <<belief, since, repeated>>
vars == <<env, stateFile, run, operator, faults, unsure>>

-----------------------------------------------------------------------------

Levels == {"INFO", "WARNING", "CRITICAL"}

Ids == Jobs \cup {SERVER_DOWN_ID}

Reports == [Ids -> Levels]

NoIncidents == [i \in Ids |-> "INFO"]

\* server_down_status: the only incident of a server that does not answer.
ServerDown == [NoIncidents EXCEPT ![SERVER_DOWN_ID] = "CRITICAL"]

\* A unit that is not in the output of systemctl is CRITICAL (collect_live).
AllUnknown == [i \in Ids |-> IF i \in Jobs THEN "CRITICAL" ELSE "INFO"]

\* A bug: the blocks of systemctl show are matched to the jobs by position.
ObservedByPosition ==
  [i \in Ids |-> IF i \in Jobs THEN severity[CHOOSE j \in Jobs : j # i] ELSE "INFO"]

\* collect_statuses: what systemd says of each job.
Observed == [i \in Ids |-> IF i \in Jobs THEN severity[i] ELSE "INFO"]

StateFile == [state : {"missing", "torn", "valid"}, alerted : Reports]

\* _load_state: no incident is known of a file that is absent or invalid.
Loaded == IF stateFile.state = "valid" THEN stateFile.alerted ELSE NoIncidents

\* A bug: an incident whose severity changed makes no line.
DiffWithoutEscalation(previous, now) ==
  {i \in Ids : (previous[i] = "INFO") # (now[i] = "INFO")}

\* diff_incidents: the new and changed incidents, and the recovered ones.
Diff(previous, now) == {i \in Ids : previous[i] # now[i]}

Goto(r, step) == pc' = [pc EXCEPT ![r] = step]

-----------------------------------------------------------------------------
(* One run of main().                                                      *)

\* _server_reachable; without it, the server is the only incident.
Probe(r) ==
  /\ pc[r] = "idle"
  /\ IF reachable
       THEN Goto(r, "probed") /\ UNCHANGED current
       ELSE Goto(r, "collected") /\ current' = [current EXCEPT ![r] = ServerDown]
  /\ UNCHANGED <<env, stateFile, unsent, told, operator, faults, unsure>>

Exit(r) ==
  /\ Goto(r, "idle")
  /\ unsent' = [unsent EXCEPT ![r] = {}]
  /\ told' = [told EXCEPT ![r] = {}]
  /\ current' = [current EXCEPT ![r] = NoIncidents]

\* collect_live: one more SSH command.  When the connection is lost it times
\* out, which ends the run, or prints nothing, which nobody looks at.
Collect(r) ==
  /\ pc[r] = "probed"
  /\ \/ /\ reachable
        /\ current' = [current EXCEPT ![r] = Observed]
        /\ Goto(r, "collected")
        /\ UNCHANGED <<unsent, told>>
     \/ /\ ~reachable
        /\ current' = [current EXCEPT ![r] = AllUnknown]
        /\ Goto(r, "collected")
        /\ UNCHANGED <<unsent, told>>
     \/ ~reachable /\ Exit(r)
  /\ UNCHANGED <<env, stateFile, operator, faults, unsure>>

\* _load_state and diff_incidents.  A run that may not send ends here, unless
\* there is nothing to send: then even a dry run saves the state.
Compare(r) ==
  /\ pc[r] = "collected"
  /\ LET news == Diff(Loaded, current[r])
     IN  IF news = {}
           THEN Goto(r, "saving") /\ UNCHANGED <<unsent, current, told>>
           ELSE IF r \in Senders
             THEN /\ unsent' = [unsent EXCEPT ![r] = news]
                  /\ Goto(r, "sending")
                  /\ UNCHANGED <<current, told>>
             ELSE Exit(r)
  /\ UNCHANGED <<env, stateFile, operator, faults, unsure>>

\* The messages send_chunked may send next.
Chunks(r) ==
  {c \in SUBSET unsent[r] :
     Cardinality(c) = IF Cardinality(unsent[r]) < ChunkLines
                        THEN Cardinality(unsent[r]) ELSE ChunkLines}

\* The operator receives the lines of ids in chunk.
Receive(r, chunk) ==
  /\ belief' = [i \in Ids |-> IF i \in chunk THEN current[r][i] ELSE belief[i]]
  /\ since' = [j \in Jobs |-> IF j \in chunk THEN {severity[j]} ELSE since[j]]
  /\ repeated' = (repeated \/ \E i \in chunk \ unsure : belief[i] = current[r][i])

Send(r) ==
  /\ pc[r] = "sending"
  /\ \E chunk \in Chunks(r) :
       /\ Receive(r, chunk)
       /\ told' = [told EXCEPT ![r] = @ \cup chunk]
       /\ unsent' = [unsent EXCEPT ![r] = @ \ chunk]
       /\ Goto(r, IF chunk = unsent[r] THEN "saving" ELSE "sending")
  /\ UNCHANGED <<env, stateFile, current, faults, unsure>>

\* A bug: a failed send is swallowed and the state advances.
SendFailsSwallowed(r) ==
  /\ pc[r] = "sending"
  /\ faults < MaxFaults
  /\ faults' = faults + 1
  /\ unsent' = [unsent EXCEPT ![r] = {}]
  /\ Goto(r, "saving")
  /\ UNCHANGED <<env, stateFile, current, told, operator, unsure>>

\* The sender raises, before or after the message is out, and ends the run.
SendFails(r) ==
  /\ pc[r] = "sending"
  /\ faults < MaxFaults
  /\ faults' = faults + 1
  /\ \E chunk \in Chunks(r) \cup {{}} :
       /\ Receive(r, chunk)
       /\ unsure' = unsure \cup told[r] \cup chunk
  /\ Exit(r)
  /\ UNCHANGED <<env, stateFile>>

\* write_text opens the file, which empties it, ...
Truncate(r) ==
  /\ pc[r] = "saving"
  /\ stateFile' = [state |-> "torn", alerted |-> NoIncidents]
  /\ Goto(r, "truncated")
  /\ UNCHANGED <<env, current, unsent, told, operator, faults, unsure>>

\* A bug: only the lines of this run are remembered.
WriteStateTold(r) ==
  /\ pc[r] = "truncated"
  /\ stateFile' = [state |-> "valid",
                   alerted |-> [i \in Ids |-> IF i \in told[r] THEN current[r][i] ELSE "INFO"]]
  /\ unsure' = unsure \ told[r]
  /\ Exit(r)
  /\ UNCHANGED <<env, operator, faults>>

\* ... and writes the new state.
WriteState(r) ==
  /\ pc[r] = "truncated"
  /\ stateFile' = [state |-> "valid", alerted |-> current[r]]
  /\ unsure' = unsure \ told[r]
  /\ Exit(r)
  /\ UNCHANGED <<env, operator, faults>>

\* The run is killed (TimeoutStartSec, a reboot).
Kill(r) ==
  /\ pc[r] # "idle"
  /\ faults < MaxFaults
  /\ faults' = faults + 1
  /\ unsure' = unsure \cup IF pc[r] = "truncated"
                             THEN {i \in Ids : belief[i] # "INFO"} ELSE told[r]
  /\ Exit(r)
  /\ UNCHANGED <<env, stateFile, operator>>

-----------------------------------------------------------------------------
(* The server.                                                             *)

Change ==
  /\ changes < MaxChanges
  /\ changes' = changes + 1
  /\ \E j \in Jobs, level \in Levels :
       /\ level # severity[j]
       /\ severity' = [severity EXCEPT ![j] = level]
       /\ since' = [since EXCEPT ![j] = @ \cup {level}]
  /\ UNCHANGED <<reachable, outages, stateFile, run, belief, repeated, faults, unsure>>

Outage ==
  /\ reachable
  /\ outages < MaxOutages
  /\ reachable' = FALSE
  /\ outages' = outages + 1
  /\ UNCHANGED <<severity, changes, stateFile, run, operator, faults, unsure>>

Return ==
  /\ ~reachable
  /\ reachable' = TRUE
  /\ UNCHANGED <<severity, changes, outages, stateFile, run, operator, faults, unsure>>

Init ==
  /\ severity = [j \in Jobs |-> "INFO"]
  /\ reachable = TRUE
  /\ stateFile = [state |-> "missing", alerted |-> NoIncidents]
  /\ pc = [r \in Runs |-> "idle"]
  /\ current = [r \in Runs |-> NoIncidents]
  /\ unsent = [r \in Runs |-> {}]
  /\ belief = NoIncidents
  /\ changes = 0 /\ outages = 0 /\ faults = 0
  /\ told = [r \in Runs |-> {}]
  /\ unsure = {}
  /\ since = [j \in Jobs |-> {"INFO"}]
  /\ repeated = FALSE

\* What a run does when nothing kills it.
Step(r) ==
  \/ Probe(r) \/ Collect(r) \/ Compare(r) \/ Send(r) \/ Truncate(r) \/ WriteState(r)

Next ==
  \/ Change \/ Outage \/ Return
  \/ \E r \in Runs : Step(r) \/ SendFails(r) \/ Kill(r)

Spec == Init /\ [][Next]_vars

\* The timer starts a run every two hours, and every command in it has a timeout.
FairSpec == Spec /\ \A r \in Runs : WF_vars(Step(r))

-----------------------------------------------------------------------------
(* Properties.                                                             *)

\* The types of the file, of the runs and of what the operator knows.
TypeOK ==
  /\ severity \in [Jobs -> Levels]
  /\ reachable \in BOOLEAN
  /\ stateFile \in StateFile
  /\ pc \in [Runs -> {"idle", "probed", "collected", "sending", "saving", "truncated"}]
  /\ current \in [Runs -> Reports]
  /\ unsent \in [Runs -> SUBSET Ids]
  /\ belief \in Reports
  /\ {changes, outages, faults} \subseteq Nat
  /\ told \in [Runs -> SUBSET Ids]
  /\ unsure \subseteq Ids
  /\ since \in [Jobs -> SUBSET Levels]
  /\ repeated \in BOOLEAN

\* Between runs, the state file holds what the operator was last told of every
\* id, those excepted that an interrupted run told him of.
BeliefFollowsFile ==
  (\A r \in Runs : pc[r] = "idle") => \A i \in Ids \ unsure : belief[i] = Loaded[i]

\* No alert fatigue (spec 003, NFR-1): no line tells again what was told.
NoRepeats == ~repeated

\* Until the server goes away for the first time, what a line says of a job was
\* true of it at some time since the last line.
TruthfulLines ==
  [][outages = 0 =>
       \A j \in Jobs : belief'[j] # belief[j] => belief'[j] \in since[j]]_vars

\* When the server and the jobs settle, the operator knows their state,
\* the ids of interrupted runs excepted.
EventuallyInformed ==
  <>[](/\ belief[SERVER_DOWN_ID] = (IF reachable THEN "INFO" ELSE "CRITICAL")
          \/ SERVER_DOWN_ID \in unsure
       /\ \A j \in Jobs \ unsure : reachable => belief[j] = severity[j])

-----------------------------------------------------------------------------
(* What spec 003 promises.                                                 *)

\* A job reported as recovered was healthy at some time since it was alerted.
RecoveredIsHealthy ==
  [][\A j \in Jobs : belief'[j] = "INFO" /\ belief[j] # "INFO" => "INFO" \in since[j]]_vars

\* A server that does not answer makes one alert, and none for each job.
OutageIsOneAlert ==
  [][\A j \in Jobs : belief'[j] = "CRITICAL" /\ belief[j] # "CRITICAL"
                       => "CRITICAL" \in since[j]]_vars

\* Every incident and every recovery is told in the end, retries included.
RecoveryTold == <>[](\A j \in Jobs : reachable => belief[j] = severity[j])

=============================================================================
