--------------------------- MODULE MCLoginBudget ---------------------------
(***************************************************************************)
(* Instances of LoginBudget for TLC.                                       *)
(*                                                                         *)
(* Only differences between times matter to the program, and only up to    *)
(* WINDOW or STALE.  The run of MutualExclusion identifies the states that *)
(* agree on these ages, and the interchangeable processes; its MaxTime and *)
(* MaxCrashes are never reached.  The other run checks a liveness property *)
(* as well, and stops its clock instead.                                   *)
(***************************************************************************)
EXTENDS LoginBudget, TLC

Symmetric == Permutations(Procs)

\* How old time t is, told apart up to the given limit.
Age(t, limit) == IF now - t < limit THEN now - t ELSE limit

Ages ==
  << {<<f.owner, Age(f.mtime, STALE)>> : f \in lockFile},
     budgetFile.state, Age(budgetFile.window.started, WINDOW),
     budgetFile.window.failures, pc,
     [p \in Procs |-> IF pc[p] = "drafted"
                        THEN <<Age(draft[p].started, WINDOW), draft[p].failures>>
                        ELSE <<>>],
     {<<Len(portalFails) - k, now - portalFails[k]>> :
        k \in {j \in 1 .. Len(portalFails) : now - portalFails[j] < WINDOW}},
     spent, {Age(t, WINDOW) : t \in limitedAt}, robbed >>

=============================================================================
