---------------------------- MODULE MCAskRouter -----------------------------
(***************************************************************************)
(* Instances of AskRouter for TLC: the ladder of rungs the run uses.       *)
(***************************************************************************)
EXTENDS AskRouter, TLC

Free == [free |-> TRUE, max |-> 0]
Paid(max) == [free |-> FALSE, max |-> max]

\* A dear paid rung before a cheap one.
TwoPaid == <<Free, Paid(2), Paid(1)>>

=============================================================================
