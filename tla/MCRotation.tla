----------------------------- MODULE MCRotation -----------------------------
(***************************************************************************)
(* Three days over a turn of month, January 31st to February 2nd, after a  *)
(* December that has inventory of its own; two items, one of them sold in  *)
(* two units.  The second company is there for the run to go on to.        *)
(***************************************************************************)
EXTENDS RotationJobs, TLC

CONSTANTS pieza, caja, timer, hand

MCLapso == <<2, 3, 3>>
MCEnero == <<1, 2, 2>>
MCMaestro == [i \in Items |-> 1]
Line(q, s) == [qty |-> q, cost |-> 0, sale |-> s]

Pdv(e, i, d, un, q, z) ==
    [emp |-> e, tipo |-> "PDV", item |-> i, day |-> d, unit |-> un, qty |-> q,
     cost |-> 0, z |-> z]
Mov(t, i, d, c) ==
    [emp |-> "one", tipo |-> t, item |-> i, day |-> d, unit |-> pieza, qty |-> 1,
     cost |-> c, z |-> FALSE]

\* The timers run every company; a range is loaded by hand, for one.
MCModes == (timer :> {"daily", "rolling"}) @@ (hand :> {"backfill"})
MCListas == (timer :> <<"one", "two">>) @@ (hand :> <<"one">>)

MCDocuments ==
    {Pdv("one", 1, 1, pieza, 1, FALSE), Pdv("one", 1, 1, caja, 2, FALSE),
     Pdv("one", 1, 1, pieza, -1, FALSE), Pdv("one", 2, 2, pieza, 1, TRUE),
     Pdv("one", 2, 2, pieza, 1, FALSE), Mov("EA", 2, 1, 2)}
MCCambios ==
    {[emp |-> "one", item |-> 1, lapso |-> 3, line |-> Line(5, 1)],
     [emp |-> "one", item |-> 2, lapso |-> 3, line |-> Line(4, 2)]}

\* Company one: item 1 has a line in January and February, item 2 only in
\* December.  Company two: item 1 has one in January, and item 2, without
\* stock, is sold on the first day.
MCInicial ==
    [e \in {"one", "two"} |->
        [docs |-> IF e = "two" THEN {Pdv("two", 2, 1, pieza, 1, FALSE)}
                 ELSE {Pdv("one", 1, 1, pieza, 1, FALSE)},
         resumen |-> [i \in Items |-> [m \in Lapsos |->
            IF i = 1 /\ (m = 2 \/ (m = 3 /\ e = "one")) THEN Line(m - 1, 0)
            ELSE IF i = 2 /\ m = 1 /\ e = "one" THEN Line(2, 0)
            ELSE SinResumen]]]]
=============================================================================
