---------------------------- MODULE MCStateStore ----------------------------
(***************************************************************************)
(* Instances of StateStore for TLC.  The tables share the write lock and   *)
(* nothing else, so a history writes to the ledger only, or to the         *)
(* incidents only, or to the budget only.                                  *)
(***************************************************************************)
EXTENDS StateStore, FiniteSets, TLC

Symmetric == Permutations(Procs) \cup Permutations(Intents)
              \cup Permutations(Jobs) \cup Permutations(Days)

TableOf == [attempt |-> "ledger", outcome |-> "ledger", open |-> "incident",
            close |-> "incident", reserve |-> "budget_day"]

TablesInUse ==
  (IF db.ledger # <<>> THEN {"ledger"} ELSE {})
  \cup (IF db.incidents # <<>> THEN {"incident"} ELSE {})
  \cup (IF db.spent # EmptyDatabase.spent THEN {"budget_day"} ELSE {})
  \cup {TableOf[request[p].op] : p \in {q \in Procs : pc[q] # "idle"}}

\* Only incidents keep a time.
OneTable ==
  /\ Cardinality(TablesInUse) <= 1
  /\ now > 0 => TablesInUse \subseteq {"incident"}

=============================================================================
