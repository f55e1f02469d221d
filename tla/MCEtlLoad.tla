----------------------------- MODULE MCEtlLoad -----------------------------
(* One or two runs over one or two days of two sites.                       *)
EXTENDS EtlLoad, TLC

CONSTANTS daily, weekly

\* The weekly run reloads the day before the one the daily run loads.
TwoRanges == (daily :> {2}) @@ (weekly :> {1, 2})
SameRanges == [r \in Runs |-> Days]

\* Every site has posted every day, or one has not posted the first day yet: then
\* batches of two rows leave the second day to two of them.
AllPosted == {[k \in Rows |-> 1]}
OneLate == {[k \in Rows |-> IF k = <<Min(Days), 1>> THEN 0 ELSE 1]}
=============================================================================
