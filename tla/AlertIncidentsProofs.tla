------------------------ MODULE AlertIncidentsProofs ------------------------
(***************************************************************************)
(* Theorems about AlertIncidents, for every set of jobs, any size of a     *)
(* message and any number of changes, outages, failed sends and kills.     *)
(*                                                                         *)
(* The types hold whatever runs overlap.  What the operator is told needs  *)
(* the runs to come one after the other, as those of a systemd timer do:   *)
(* then the lines a run has sent and the ones it still has to send are     *)
(* the difference between the state file and what the run has collected,   *)
(* and the state file is behind what the operator knows by the lines sent. *)
(***************************************************************************)
EXTENDS AlertIncidents, TLAPS

\* No run overlaps another: a oneshot unit that runs is not started again.
OneRunAtATime == \E timer : Runs = {timer}

-----------------------------------------------------------------------------
(* Operators.                                                              *)

LEMMA ReportsType ==
  /\ NoIncidents \in Reports
  /\ ServerDown \in Reports
  /\ AllUnknown \in Reports
<1>1. NoIncidents \in Reports
  BY DEF NoIncidents, Reports, Levels
<1>2. ServerDown \in Reports
  BY <1>1 DEF ServerDown, Reports, Levels
<1>3. AllUnknown \in Reports
  BY DEF AllUnknown, Reports, Levels
<1>4. QED
  BY <1>1, <1>2, <1>3

LEMMA ObservedType ==
  ASSUME severity \in [Jobs -> Levels]
  PROVE  Observed \in Reports
<1>1. \A i \in Ids : (IF i \in Jobs THEN severity[i] ELSE "INFO") \in Levels
  BY DEF Levels
<1>2. QED
  BY <1>1 DEF Observed, Reports

LEMMA LoadedType ==
  ASSUME stateFile \in StateFile
  PROVE  Loaded \in Reports
  BY ReportsType DEF Loaded, StateFile

\* A run that exits keeps the types of the runs.
LEMMA ExitType ==
  ASSUME TypeOK, NEW r \in Runs, Exit(r)
  PROVE  /\ pc' \in [Runs -> {"idle", "probed", "collected", "sending", "saving", "truncated"}]
         /\ current' \in [Runs -> Reports]
         /\ unsent' \in [Runs -> SUBSET Ids]
         /\ told' \in [Runs -> SUBSET Ids]
  BY ReportsType DEF TypeOK, Exit, Goto

\* A message is of lines still to send.
LEMMA ReceiveType ==
  ASSUME TypeOK, NEW r \in Runs, NEW chunk \in SUBSET unsent[r], Receive(r, chunk)
  PROVE  /\ belief' \in Reports
         /\ since' \in [Jobs -> SUBSET Levels]
         /\ repeated' \in BOOLEAN
<1>1. belief' \in Reports
  BY DEF TypeOK, Receive, Reports
<1>2. since' \in [Jobs -> SUBSET Levels]
  BY DEF TypeOK, Receive
<1>3. repeated' \in BOOLEAN
  BY DEF TypeOK, Receive
<1>4. QED
  BY <1>1, <1>2, <1>3

-----------------------------------------------------------------------------
(* Types.                                                                  *)

LEMMA TypeInit == Init => TypeOK
<1> SUFFICES ASSUME Init PROVE TypeOK
  OBVIOUS
<1>1. NoIncidents \in Reports
  BY ReportsType
<1>2. since \in [Jobs -> SUBSET Levels] /\ severity \in [Jobs -> Levels]
  BY DEF Init, Levels
<1>3. stateFile \in StateFile /\ belief \in Reports
  BY <1>1 DEF Init, StateFile
<1>4. /\ pc \in [Runs -> {"idle", "probed", "collected", "sending", "saving", "truncated"}]
      /\ current \in [Runs -> Reports]
      /\ unsent \in [Runs -> SUBSET Ids] /\ told \in [Runs -> SUBSET Ids]
  BY <1>1 DEF Init
<1>5. reachable \in BOOLEAN /\ repeated \in BOOLEAN
  BY DEF Init
<1>6. {changes, outages, faults} \subseteq Nat /\ unsure \subseteq Ids
  BY DEF Init
<1>7. QED
  BY <1>2, <1>3, <1>4, <1>5, <1>6 DEF TypeOK

LEMMA TypeStep == TypeOK /\ [Next]_vars => TypeOK'
<1> SUFFICES ASSUME TypeOK, [Next]_vars PROVE TypeOK'
  OBVIOUS
<1>1. CASE Change
  <2>1. PICK j \in Jobs, level \in Levels :
          /\ severity' = [severity EXCEPT ![j] = level]
          /\ since' = [since EXCEPT ![j] = @ \cup {level}]
    BY <1>1 DEF Change
  <2>2. severity' \in [Jobs -> Levels] /\ since' \in [Jobs -> SUBSET Levels]
    BY <2>1 DEF TypeOK
  <2>3. QED
    BY <1>1, <2>2 DEF Change, TypeOK, run
<1>2. CASE Outage \/ Return
  <2>1. reachable' \in BOOLEAN
    BY <1>2 DEF Outage, Return
  <2>2. outages \in Nat
    BY DEF TypeOK
  <2>3. outages' \in Nat
    BY <1>2, <2>2 DEF Outage, Return
  <2>4. /\ UNCHANGED <<severity, changes, stateFile, pc, current, unsent, told>>
        /\ UNCHANGED <<belief, since, repeated, faults, unsure>>
    BY <1>2 DEF Outage, Return, run, operator
  <2>5. QED
    BY <2>1, <2>3, <2>4 DEF TypeOK
<1>3. ASSUME NEW r \in Runs, Probe(r) PROVE TypeOK'
  <2>1. /\ pc' \in [Runs -> {"idle", "probed", "collected", "sending", "saving", "truncated"}]
        /\ current' \in [Runs -> Reports]
    BY <1>3, ReportsType DEF Probe, Goto, TypeOK
  <2>2. QED
    BY <1>3, <2>1 DEF Probe, TypeOK, env, operator
<1>4. ASSUME NEW r \in Runs, Collect(r) PROVE TypeOK'
  <2>1. /\ pc' \in [Runs -> {"idle", "probed", "collected", "sending", "saving", "truncated"}]
        /\ current' \in [Runs -> Reports]
        /\ unsent' \in [Runs -> SUBSET Ids]
        /\ told' \in [Runs -> SUBSET Ids]
    <3>1. CASE ~reachable /\ Exit(r)
      BY <3>1, ExitType
    <3>2. CASE ~ (~reachable /\ Exit(r))
      <4>1. /\ current' \in {[current EXCEPT ![r] = Observed], [current EXCEPT ![r] = AllUnknown]}
            /\ Goto(r, "collected")
            /\ UNCHANGED <<unsent, told>>
        BY <1>4, <3>2 DEF Collect
      <4>2. Observed \in Reports /\ AllUnknown \in Reports
        BY ObservedType, ReportsType DEF TypeOK
      <4>3. QED
        BY <4>1, <4>2 DEF Goto, TypeOK
    <3>3. QED
      BY <3>1, <3>2
  <2>2. QED
    BY <1>4, <2>1 DEF Collect, TypeOK, env, operator
<1>5. ASSUME NEW r \in Runs, Compare(r) PROVE TypeOK'
  <2>1. /\ pc' \in [Runs -> {"idle", "probed", "collected", "sending", "saving", "truncated"}]
        /\ current' \in [Runs -> Reports]
        /\ unsent' \in [Runs -> SUBSET Ids]
        /\ told' \in [Runs -> SUBSET Ids]
    <3>1. CASE Exit(r)
      BY <3>1, ExitType
    <3>2. CASE ~Exit(r)
      <4>1. Diff(Loaded, current[r]) \subseteq Ids
        BY DEF Diff
      <4>2. QED
        BY <1>5, <3>2, <4>1 DEF Compare, Goto, TypeOK
    <3>3. QED
      BY <3>1, <3>2
  <2>2. QED
    BY <1>5, <2>1 DEF Compare, TypeOK, env, operator
<1>6. ASSUME NEW r \in Runs, Send(r) PROVE TypeOK'
  <2>1. PICK chunk \in Chunks(r) :
          /\ Receive(r, chunk)
          /\ told' = [told EXCEPT ![r] = @ \cup chunk]
          /\ unsent' = [unsent EXCEPT ![r] = @ \ chunk]
          /\ Goto(r, IF chunk = unsent[r] THEN "saving" ELSE "sending")
    BY <1>6 DEF Send
  <2>2. chunk \in SUBSET unsent[r] /\ chunk \subseteq Ids
    BY DEF Chunks, TypeOK
  <2>3. /\ belief' \in Reports /\ since' \in [Jobs -> SUBSET Levels] /\ repeated' \in BOOLEAN
    BY <2>1, <2>2, ReceiveType
  <2>4. told' \in [Runs -> SUBSET Ids] /\ unsent' \in [Runs -> SUBSET Ids]
    BY <2>1, <2>2 DEF TypeOK
  <2>5. pc' \in [Runs -> {"idle", "probed", "collected", "sending", "saving", "truncated"}]
    BY <2>1 DEF Goto, TypeOK
  <2>6. QED
    BY <1>6, <2>3, <2>4, <2>5 DEF Send, TypeOK, env
<1>7. ASSUME NEW r \in Runs, SendFails(r) PROVE TypeOK'
  <2>1. PICK chunk \in Chunks(r) \cup {{}} :
          /\ Receive(r, chunk)
          /\ unsure' = unsure \cup told[r] \cup chunk
    BY <1>7 DEF SendFails
  <2>2. chunk \in SUBSET unsent[r] /\ chunk \subseteq Ids
    BY DEF Chunks, TypeOK
  <2>3. /\ belief' \in Reports /\ since' \in [Jobs -> SUBSET Levels] /\ repeated' \in BOOLEAN
    BY <2>1, <2>2, ReceiveType
  <2>4. unsure' \subseteq Ids
    BY <2>1, <2>2 DEF TypeOK
  <2>5. faults' \in Nat
    BY <1>7 DEF SendFails, TypeOK
  <2>6. QED
    BY <1>7, <2>3, <2>4, <2>5, ExitType DEF SendFails, TypeOK, env
<1>8. ASSUME NEW r \in Runs, Truncate(r) PROVE TypeOK'
  BY <1>8, ReportsType DEF Truncate, Goto, TypeOK, StateFile, env, operator
<1>9. ASSUME NEW r \in Runs, WriteState(r) PROVE TypeOK'
  <2>1. stateFile' \in StateFile
    BY <1>9 DEF WriteState, TypeOK, StateFile
  <2>2. unsure' \subseteq Ids
    BY <1>9 DEF WriteState, TypeOK
  <2>3. QED
    BY <1>9, <2>1, <2>2, ExitType DEF WriteState, TypeOK, env, operator
<1>10. ASSUME NEW r \in Runs, Kill(r) PROVE TypeOK'
  <2>1. unsure' \subseteq Ids
    BY <1>10 DEF Kill, TypeOK
  <2>2. faults' \in Nat
    BY <1>10 DEF Kill, TypeOK
  <2>3. QED
    BY <1>10, <2>1, <2>2, ExitType DEF Kill, TypeOK, env, operator
<1>11. CASE UNCHANGED vars
  BY <1>11 DEF vars, env, run, operator, TypeOK
<1>12. QED
  BY <1>1, <1>2, <1>3, <1>4, <1>5, <1>6, <1>7, <1>8, <1>9, <1>10, <1>11 DEF Next, Step

(***************************************************************************)
(* The state file, the runs and what the operator was told keep the types  *)
(* of TypeOK, whatever runs overlap and wherever they are killed.          *)
(***************************************************************************)
THEOREM TypeCorrect == Spec => []TypeOK
  BY TypeInit, TypeStep, PTL DEF Spec

-----------------------------------------------------------------------------
(* The invariant of runs that do not overlap.                              *)

\* The operator was last told what the file says, but of the ids in S.
Known(S) == \A i \in Ids \ S : belief[i] = Loaded[i]

\* The lines of a run are what has changed: those it has sent the operator
\* knows, and of the other ids he knows what the file says.
Midway(r) ==
  /\ unsent[r] \cup told[r] = Diff(Loaded, current[r])
  /\ unsent[r] \cap told[r] = {}
  /\ \A i \in told[r] : belief[i] = current[r][i]
  /\ Known(unsure \cup told[r])

\* What holds of a run at each place of main.
RunInv(r) ==
  /\ pc[r] \in {"idle", "probed", "collected"} =>
       unsent[r] = {} /\ told[r] = {} /\ Known(unsure)
  /\ pc[r] = "sending" => Midway(r)
  /\ pc[r] = "saving" => unsent[r] = {} /\ Midway(r)
  /\ pc[r] = "truncated" =>
       /\ Loaded = NoIncidents
       /\ unsent[r] = {}
       /\ \A i \in told[r] : belief[i] = current[r][i]
       /\ \A i \in Ids \ unsure : belief[i] = current[r][i]

BeliefInv == \A r \in Runs : RunInv(r)

IInv == TypeOK /\ BeliefInv /\ NoRepeats

\* What a chunk of lines does to what the operator knows.
LEMMA ReceiveTells ==
  ASSUME TypeOK, NoRepeats, NEW r \in Runs, Midway(r),
         NEW chunk \in SUBSET unsent[r], Receive(r, chunk)
  PROVE  /\ \A i \in chunk \cup told[r] : belief'[i] = current[r][i]
         /\ \A i \in Ids \ chunk : belief'[i] = belief[i]
         /\ ~repeated'
<1>1. chunk \subseteq Ids /\ told[r] \subseteq Ids
  BY DEF TypeOK
<1>2. \A i \in Ids : belief'[i] = IF i \in chunk THEN current[r][i] ELSE belief[i]
  BY DEF Receive
<1>3. \A i \in told[r] : belief[i] = current[r][i]
  BY DEF Midway
<1>4. ASSUME NEW i \in chunk \ unsure PROVE belief[i] # current[r][i]
  <2>1. i \in Ids /\ i \notin told[r] /\ i \in Diff(Loaded, current[r])
    BY <1>1 DEF Midway
  <2>2. belief[i] = Loaded[i] /\ Loaded[i] # current[r][i]
    BY <2>1 DEF Midway, Known, Diff
  <2>3. QED
    BY <2>2
<1>5. ~repeated'
  BY <1>4 DEF Receive, NoRepeats
<1>6. QED
  BY <1>1, <1>2, <1>3, <1>5

\* A run that ends keeps nothing.
LEMMA ExitForgets ==
  ASSUME TypeOK, NEW r \in Runs, Exit(r)
  PROVE  pc'[r] = "idle" /\ unsent'[r] = {} /\ told'[r] = {}
  BY DEF TypeOK, Exit, Goto

LEMMA BeliefInit == Init => BeliefInv /\ NoRepeats
  BY DEF Init, BeliefInv, RunInv, Known, Loaded, NoIncidents, NoRepeats

LEMMA BeliefStep ==
  OneRunAtATime /\ TypeOK /\ BeliefInv /\ NoRepeats /\ [Next]_vars
    => BeliefInv' /\ NoRepeats'
<1> SUFFICES ASSUME OneRunAtATime, TypeOK, BeliefInv, NoRepeats, [Next]_vars
             PROVE  BeliefInv' /\ NoRepeats'
  OBVIOUS
<1>0. \A r \in Runs : RunInv(r)' /\ ~repeated' => BeliefInv' /\ NoRepeats'
  BY DEF OneRunAtATime, BeliefInv, NoRepeats
<1>1. ASSUME UNCHANGED <<stateFile, pc, unsent, told, belief, repeated, unsure>>,
             \A r \in Runs : current'[r] = current[r]
      PROVE  BeliefInv' /\ NoRepeats'
  BY <1>1 DEF BeliefInv, RunInv, Midway, Known, Loaded, NoRepeats
<1>2. CASE Change \/ Outage \/ Return \/ UNCHANGED vars
  <2>1. UNCHANGED <<stateFile, pc, unsent, told, belief, repeated, unsure, current>>
    BY <1>2 DEF Change, Outage, Return, vars, run, operator
  <2>2. QED
    BY <1>1, <2>1
<1>3. ASSUME NEW r \in Runs, Probe(r) \/ Collect(r) \/ Compare(r)
      PROVE  BeliefInv' /\ NoRepeats'
  <2>1. /\ pc[r] \in {"idle", "probed", "collected"}
        /\ UNCHANGED <<stateFile, belief, repeated, unsure>>
    BY <1>3 DEF Probe, Collect, Compare, operator
  <2>2. unsent[r] = {} /\ told[r] = {} /\ Known(unsure)
    BY <2>1 DEF BeliefInv, RunInv
  <2>3. Known(unsure)'
    BY <2>1, <2>2 DEF Known, Loaded
  <2>4. CASE Exit(r)
    BY <1>0, <2>1, <2>3, <2>4, ExitForgets DEF RunInv, NoRepeats
  <2>5. CASE pc'[r] \in {"probed", "collected"} /\ unsent' = unsent /\ told' = told
    BY <1>0, <2>1, <2>2, <2>3, <2>5 DEF RunInv, NoRepeats
  <2>6. CASE Compare(r) /\ ~Exit(r)
    <3>1. /\ current' = current /\ told' = told
          /\ \/ /\ Diff(Loaded, current[r]) = {} /\ unsent' = unsent /\ pc'[r] = "saving"
             \/ unsent'[r] = Diff(Loaded, current[r]) /\ pc'[r] = "sending"
      BY <2>6 DEF Compare, Goto, TypeOK
    <3>2. Midway(r)'
      <4>1. Loaded' = Loaded
        BY <2>1 DEF Loaded
      <4>2. Diff(Loaded, current[r])' = Diff(Loaded, current[r])
        BY <3>1, <4>1 DEF Diff
      <4>3. Known(unsure \cup told[r])'
        BY <2>2, <2>3, <3>1 DEF Known
      <4>4. QED
        BY <2>2, <3>1, <4>2, <4>3 DEF Midway
    <3>3. pc'[r] = "saving" => unsent'[r] = {}
      BY <2>2, <3>1
    <3>4. QED
      BY <1>0, <2>1, <3>1, <3>2, <3>3 DEF RunInv, NoRepeats
  <2>7. QED
    BY <1>3, <2>2, <2>4, <2>5, <2>6 DEF Probe, Collect, Goto, TypeOK
<1>4. ASSUME NEW r \in Runs, Send(r) PROVE BeliefInv' /\ NoRepeats'
  <2>1. PICK chunk \in Chunks(r) :
          /\ Receive(r, chunk)
          /\ told' = [told EXCEPT ![r] = @ \cup chunk]
          /\ unsent' = [unsent EXCEPT ![r] = @ \ chunk]
          /\ Goto(r, IF chunk = unsent[r] THEN "saving" ELSE "sending")
    BY <1>4 DEF Send
  <2>2. /\ pc[r] = "sending" /\ UNCHANGED <<stateFile, current, unsure>>
        /\ chunk \in SUBSET unsent[r]
    BY <1>4 DEF Send, Chunks
  <2>3. Midway(r)
    BY <2>2 DEF BeliefInv, RunInv
  <2>4. /\ \A i \in chunk \cup told[r] : belief'[i] = current[r][i]
        /\ \A i \in Ids \ chunk : belief'[i] = belief[i]
        /\ ~repeated'
    BY <2>1, <2>2, <2>3, ReceiveTells
  <2>5. /\ told'[r] = told[r] \cup chunk /\ unsent'[r] = unsent[r] \ chunk
        /\ pc'[r] = IF chunk = unsent[r] THEN "saving" ELSE "sending"
    BY <2>1 DEF Goto, TypeOK
  <2>6. Midway(r)'
    <3>1. Loaded' = Loaded /\ Diff(Loaded, current[r])' = Diff(Loaded, current[r])
      BY <2>2 DEF Loaded, Diff
    <3>2. /\ unsent'[r] \cup told'[r] = Diff(Loaded, current[r])
          /\ unsent'[r] \cap told'[r] = {}
      BY <2>2, <2>3, <2>5 DEF Midway
    <3>3. \A i \in told'[r] : belief'[i] = current'[r][i]
      BY <2>2, <2>4, <2>5
    <3>4. Known(unsure \cup told[r])'
      BY <2>2, <2>3, <2>4, <2>5, <3>1 DEF Midway, Known
    <3>5. QED
      BY <3>1, <3>2, <3>3, <3>4 DEF Midway
  <2>7. RunInv(r)'
    BY <2>5, <2>6 DEF RunInv
  <2>8. QED
    BY <1>0, <2>4, <2>7
<1>5. ASSUME NEW r \in Runs, SendFails(r) PROVE BeliefInv' /\ NoRepeats'
  <2>1. PICK chunk \in Chunks(r) \cup {{}} :
          /\ Receive(r, chunk)
          /\ unsure' = unsure \cup told[r] \cup chunk
    BY <1>5 DEF SendFails
  <2>2. /\ pc[r] = "sending" /\ stateFile' = stateFile /\ Exit(r)
        /\ chunk \in SUBSET unsent[r]
    BY <1>5 DEF SendFails, Chunks
  <2>3. Midway(r)
    BY <2>2 DEF BeliefInv, RunInv
  <2>4. /\ \A i \in Ids \ chunk : belief'[i] = belief[i]
        /\ ~repeated'
    BY <2>1, <2>2, <2>3, ReceiveTells
  <2>5. Known(unsure)'
    BY <2>1, <2>2, <2>3, <2>4 DEF Midway, Known, Loaded
  <2>6. QED
    BY <1>0, <2>2, <2>4, <2>5, ExitForgets DEF RunInv
<1>6. ASSUME NEW r \in Runs, Truncate(r) PROVE BeliefInv' /\ NoRepeats'
  <2>1. /\ pc[r] = "saving" /\ pc'[r] = "truncated"
        /\ UNCHANGED <<current, unsent, told, belief, repeated, unsure>>
    BY <1>6 DEF Truncate, Goto, TypeOK, operator
  <2>2. Loaded' = NoIncidents'
    BY <1>6 DEF Truncate, Loaded, NoIncidents
  <2>3. unsent[r] = {} /\ Midway(r)
    BY <2>1 DEF BeliefInv, RunInv
  <2>4. \A i \in Ids \ unsure : belief[i] = current[r][i]
    BY <2>3 DEF Midway, Known, Diff
  <2>5. QED
    BY <1>0, <2>1, <2>2, <2>3, <2>4 DEF RunInv, Midway, NoRepeats
<1>7. ASSUME NEW r \in Runs, WriteState(r) PROVE BeliefInv' /\ NoRepeats'
  <2>1. /\ pc[r] = "truncated" /\ Exit(r)
        /\ stateFile' = [state |-> "valid", alerted |-> current[r]]
        /\ unsure' = unsure \ told[r]
        /\ UNCHANGED <<belief, repeated>>
    BY <1>7 DEF WriteState, operator
  <2>2. /\ \A i \in told[r] : belief[i] = current[r][i]
        /\ \A i \in Ids \ unsure : belief[i] = current[r][i]
    BY <2>1 DEF BeliefInv, RunInv
  <2>3. Loaded' = current[r]
    BY <2>1 DEF Loaded
  <2>4. Known(unsure)'
    BY <2>1, <2>2, <2>3 DEF Known
  <2>5. QED
    BY <1>0, <2>1, <2>4, ExitForgets DEF RunInv, NoRepeats
<1>8. ASSUME NEW r \in Runs, Kill(r) PROVE BeliefInv' /\ NoRepeats'
  <2>1. /\ Exit(r) /\ UNCHANGED <<stateFile, belief, repeated>>
        /\ unsure' = unsure \cup IF pc[r] = "truncated"
                                   THEN {i \in Ids : belief[i] # "INFO"} ELSE told[r]
    BY <1>8 DEF Kill, operator
  <2>2. Loaded' = Loaded
    BY <2>1 DEF Loaded
  <2>3. CASE pc[r] = "truncated"
    <3>1. Loaded = NoIncidents
      BY <2>3 DEF BeliefInv, RunInv
    <3>2. Known(unsure)'
      BY <2>1, <2>2, <2>3, <3>1 DEF Known, NoIncidents
    <3>3. QED
      BY <1>0, <2>1, <3>2, ExitForgets DEF RunInv, NoRepeats
  <2>4. CASE pc[r] # "truncated"
    <3>1. Known(unsure \cup told[r])
      BY <2>4 DEF BeliefInv, RunInv, Midway, Known, TypeOK
    <3>2. Known(unsure)'
      BY <2>1, <2>2, <2>4, <3>1 DEF Known
    <3>3. QED
      BY <1>0, <2>1, <3>2, ExitForgets DEF RunInv, NoRepeats
  <2>5. QED
    BY <2>3, <2>4
<1>9. QED
  BY <1>2, <1>3, <1>4, <1>5, <1>6, <1>7, <1>8 DEF Next, Step

LEMMA InvariantHolds ==
  ASSUME OneRunAtATime
  PROVE  Spec => []IInv
<1>1. Init => IInv
  BY TypeInit, BeliefInit DEF IInv
<1>2. IInv /\ [Next]_vars => IInv'
  BY OneRunAtATime, TypeStep, BeliefStep DEF IInv
<1>3. QED
  BY <1>1, <1>2, PTL DEF Spec

(***************************************************************************)
(* When no run is under way, the state file holds what the operator was    *)
(* last told of every id, but for the lines of interrupted runs: however   *)
(* many messages an alert takes, and whichever of them fails.              *)
(***************************************************************************)
THEOREM FileHoldsBelief ==
  ASSUME OneRunAtATime
  PROVE  Spec => []BeliefFollowsFile
<1>1. IInv => BeliefFollowsFile
  <2> SUFFICES ASSUME IInv, \A r \in Runs : pc[r] = "idle", NEW i \in Ids \ unsure
               PROVE  belief[i] = Loaded[i]
    BY DEF BeliefFollowsFile
  <2>1. PICK r \in Runs : RunInv(r) /\ pc[r] = "idle"
    BY OneRunAtATime DEF IInv, BeliefInv, OneRunAtATime
  <2>2. QED
    BY <2>1 DEF RunInv, Known
<1>2. QED
  BY <1>1, InvariantHolds, PTL

(***************************************************************************)
(* No line tells the operator what he was told before, but for the lines   *)
(* of interrupted runs (spec 003, NFR-1).                                  *)
(***************************************************************************)
THEOREM NothingIsToldTwice ==
  ASSUME OneRunAtATime
  PROVE  Spec => []NoRepeats
<1>1. IInv => NoRepeats
  BY DEF IInv
<1>2. QED
  BY <1>1, InvariantHolds, PTL

-----------------------------------------------------------------------------
(* What the lines say.                                                     *)

\* Until the first outage the server answers, the level a job has is one it
\* has had since the operator last heard of it, and so is the one a run says.
TruthInv ==
  /\ \A j \in Jobs : severity[j] \in since[j]
  /\ outages = 0 =>
       /\ reachable
       /\ \A r \in Runs : pc[r] = "collected" =>
            \A j \in Jobs : current[r][j] \in since[j]
       /\ \A r \in Runs : pc[r] = "sending" =>
            \A j \in Jobs \cap unsent[r] : current[r][j] \in since[j]

LEMMA TruthInit == Init => TruthInv
  BY DEF Init, TruthInv

LEMMA TruthStep ==
  OneRunAtATime /\ TypeOK /\ TruthInv /\ [Next]_vars => TruthInv'
<1> SUFFICES ASSUME OneRunAtATime, TypeOK, TruthInv, [Next]_vars
             PROVE  TruthInv'
  OBVIOUS
<1>1. CASE Change
  <2>1. PICK j \in Jobs, level \in Levels :
          /\ severity' = [severity EXCEPT ![j] = level]
          /\ since' = [since EXCEPT ![j] = @ \cup {level}]
    BY <1>1 DEF Change
  <2>2. UNCHANGED <<reachable, outages, pc, current, unsent>>
    BY <1>1 DEF Change, run
  <2>3. \A k \in Jobs : since[k] \subseteq since'[k] /\ severity'[k] \in since'[k]
    BY <2>1 DEF TypeOK, TruthInv
  <2>4. QED
    BY <2>2, <2>3 DEF TruthInv
<1>2. CASE Outage
  <2>1. outages \in Nat
    BY DEF TypeOK
  <2>2. outages' # 0 /\ UNCHANGED <<severity, since>>
    BY <1>2, <2>1 DEF Outage, operator
  <2>3. QED
    BY <2>2 DEF TruthInv
<1>3. CASE Return
  BY <1>3 DEF Return, TruthInv, run, operator
<1>4. ASSUME NEW r \in Runs, Step(r) \/ SendFails(r) \/ Kill(r) PROVE TruthInv'
  <2>0. /\ UNCHANGED <<severity, reachable, outages>>
        /\ \A q \in Runs : q = r
    BY <1>4 DEF Step, Probe, Collect, Compare, Send, SendFails, Truncate, WriteState, Kill,
                env, OneRunAtATime
  <2>1. CASE Send(r) \/ SendFails(r)
    <3>1. PICK chunk \in SUBSET unsent[r] : Receive(r, chunk)
      BY <2>1 DEF Send, SendFails, Chunks
    <3>2. \A j \in Jobs : since'[j] = IF j \in chunk THEN {severity[j]} ELSE since[j]
      BY <3>1 DEF Receive
    <3>3. pc[r] = "sending" /\ pc'[r] # "collected"
      BY <2>1 DEF Send, SendFails, Exit, Goto, TypeOK
    <3>4. ASSUME outages = 0, pc'[r] = "sending", NEW j \in Jobs \cap unsent'[r]
          PROVE  current'[r][j] \in since'[j]
      <4>1. PICK c \in SUBSET unsent[r] :
              /\ Receive(r, c) /\ unsent'[r] = unsent[r] \ c /\ current' = current
        BY <2>1, <3>4 DEF Send, SendFails, Exit, Goto, Chunks, TypeOK
      <4>2. since'[j] = since[j] /\ j \in unsent[r]
        BY <4>1 DEF Receive
      <4>3. QED
        BY <3>3, <3>4, <4>1, <4>2 DEF TruthInv
    <3>5. \A j \in Jobs : severity[j] \in since'[j]
      BY <3>2 DEF TruthInv
    <3>6. QED
      BY <2>0, <3>3, <3>4, <3>5 DEF TruthInv
  <2>2. CASE ~ (Send(r) \/ SendFails(r))
    <3>1. since' = since
      BY <1>4, <2>2 DEF Step, Probe, Collect, Compare, Truncate, WriteState, Kill, operator
    <3>2. outages = 0 /\ pc'[r] = "collected" =>
            \A j \in Jobs : current'[r][j] \in since[j]
      <4> SUFFICES ASSUME outages = 0, pc'[r] = "collected", NEW j \in Jobs
                   PROVE  current'[r][j] \in since[j]
        OBVIOUS
      <4>1. reachable
        BY DEF TruthInv
      <4>2. Collect(r)
        BY <1>4, <2>2, <4>1 DEF Step, Probe, Compare, Truncate, WriteState, Kill, Exit, Goto, TypeOK
      <4>3. current'[r] = Observed
        BY <4>1, <4>2 DEF Collect, TypeOK
      <4>4. QED
        BY <4>3 DEF Observed, Ids, TruthInv
    <3>3. outages = 0 /\ pc'[r] = "sending" =>
            \A j \in Jobs \cap unsent'[r] : current'[r][j] \in since[j]
      <4> SUFFICES ASSUME outages = 0, pc'[r] = "sending"
                   PROVE  \A j \in Jobs : current'[r][j] \in since[j]
        OBVIOUS
      <4>1. Compare(r)
        BY <1>4, <2>2 DEF Step, Probe, Collect, Truncate, WriteState, Kill, Exit, Goto, TypeOK
      <4>2. pc[r] = "collected" /\ current' = current
        BY <4>1 DEF Compare, Exit, Goto, TypeOK
      <4>3. QED
        BY <4>2 DEF TruthInv
    <3>4. QED
      BY <2>0, <3>1, <3>2, <3>3 DEF TruthInv
  <2>3. QED
    BY <2>1, <2>2
<1>5. CASE UNCHANGED vars
  BY <1>5 DEF vars, env, run, operator, TruthInv
<1>6. QED
  BY <1>1, <1>2, <1>3, <1>4, <1>5 DEF Next

(***************************************************************************)
(* Until the server goes away for the first time, what a line says of a    *)
(* job was true of it at some time since the line before: no line is sent  *)
(* from a reading older than what the operator was told last.              *)
(***************************************************************************)
THEOREM LinesAreTruthful ==
  ASSUME OneRunAtATime
  PROVE  Spec => TruthfulLines
<1> DEFINE Truthful ==
      outages = 0 =>
        \A j \in Jobs : belief'[j] # belief[j] => belief'[j] \in since[j]
<1>1. Init => TypeOK /\ TruthInv
  BY TypeInit, TruthInit
<1>2. TypeOK /\ TruthInv /\ [Next]_vars => (TypeOK /\ TruthInv)'
  BY OneRunAtATime, TypeStep, TruthStep
<1>3. TypeOK /\ TruthInv /\ [Next]_vars => [Truthful]_vars
  <2> SUFFICES ASSUME TypeOK, TruthInv, Next, outages = 0,
                      NEW j \in Jobs, belief'[j] # belief[j]
               PROVE  belief'[j] \in since[j]
    OBVIOUS
  <2>1. PICK r \in Runs : Send(r) \/ SendFails(r)
    BY DEF Next, Step, Change, Outage, Return, Probe, Collect, Compare, Truncate,
           WriteState, Kill, operator
  <2>2. PICK chunk \in SUBSET unsent[r] : Receive(r, chunk)
    BY <2>1 DEF Send, SendFails, Chunks
  <2>3. pc[r] = "sending"
    BY <2>1 DEF Send, SendFails
  <2>4. j \in chunk /\ belief'[j] = current[r][j]
    BY <2>2 DEF Receive, Ids
  <2>5. QED
    BY <2>3, <2>4 DEF TruthInv
<1>4. QED
  BY <1>1, <1>2, <1>3, PTL DEF Spec, TruthfulLines

=============================================================================
