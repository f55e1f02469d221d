------------------------------ MODULE MCRepair ------------------------------
(* A repair of three days that follow one another.                         *)
EXTENDS Repair

LOCAL INSTANCE FiniteSetsExt

Sum(row) == MapThenSumSet(LAMBDA s : row[s], SitesOf(row))

\* What two sites have sold; -1 is no row.
Sold(a, b) == [s \in Sites |-> IF s = 1 THEN a ELSE b]

\* A day for each verdict, and some on the edge of one.
EveryVerdict ==
  { <<Sold(1, 1), Sold(1, 1)>>,      \* ok
    <<Sold(1, 1), Sold(-1, -1)>>,    \* missing
    <<Sold(-1, -1), Sold(-1, -1)>>,  \* both_empty
    <<Sold(1, 1), Sold(0, 0)>>,      \* hollow
    <<Sold(-1, -1), Sold(1, 1)>>,    \* source_empty
    <<Sold(1, -1), Sold(1, 1)>>,     \* risky_sede
    <<Sold(1, 0), Sold(1, 1)>>,      \* risky_measure, of ventas
    <<Sold(1, 1), Sold(1, -1)>>,     \* ok: a site that has come late
    <<Sold(1, -1), Sold(0, 0)>> }    \* risky_sede before hollow

EveryContent == Row \X Row
=============================================================================
