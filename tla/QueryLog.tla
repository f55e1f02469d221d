------------------------------ MODULE QueryLog ------------------------------
(***************************************************************************)
(* What the audit ledger promises to its readers, without rows or hashes:  *)
(* a log of queries, each written once, each resolved at most once, none   *)
(* ever forgotten (state/schema.sql, table ledger, and the reader          *)
(* reconstruct_queries of state/store.py).                                 *)
(***************************************************************************)
EXTENDS Integers

CONSTANT Intents  \* what a query may be about

VARIABLE queries  \* the queries by sequence number: intent and status

Outcomes == {"success", "failure"}

Query == [intent : Intents, status : {"attempted"} \cup Outcomes]

Record(seq, query) ==
  queries' = [s \in DOMAIN queries \cup {seq} |-> IF s = seq THEN query ELSE queries[s]]

\* A query enters the log behind every other one, before it is sent.
Attempt ==
  \E seq \in DOMAIN queries' \ DOMAIN queries, intent \in Intents :
    /\ \A s \in DOMAIN queries : s < seq
    /\ Record(seq, [intent |-> intent, status |-> "attempted"])

\* A query that has no outcome yet gets one.
Resolve ==
  \E seq \in DOMAIN queries, outcome \in Outcomes :
    /\ queries[seq].status = "attempted"
    /\ Record(seq, [queries[seq] EXCEPT !.status = outcome])

Init == DOMAIN queries = {}

Next == Attempt \/ Resolve

Spec == Init /\ [][Next]_queries

=============================================================================
