-------------------------- MODULE MCRotationDiaria --------------------------
(***************************************************************************)
(* Days 2 to 4 over a turn of month (days 1 and 2 in the first), one       *)
(* company, a nightly run with history beside one started by hand.         *)
(***************************************************************************)
EXTENDS RotationDiaria, TLC

CONSTANTS timer, hand, u

MCLapso == <<1, 1, 2, 2>>
MCEnero == <<1, 1>>
MCMaestro == [i \in Items |-> 0]
\* The nightly run of this morning has loaded day 2, or nothing is loaded yet.
MCCargados == {{}, {2}}
MCOne == <<"one">>

Pdv(e, i, d, q, z) == [emp |-> e, tipo |-> "PDV", item |-> i, day |-> d, unit |-> u,
                       qty |-> q, cost |-> 0, z |-> z]
Line(q, s) == [qty |-> q, cost |-> 1, sale |-> s]

MCDocuments == {Pdv("one", 1, 2, -1, FALSE), Pdv("one", 2, 2, 2, FALSE),
                Pdv("one", 2, 3, 1, TRUE), Pdv("one", 2, 3, 2, FALSE)}
MCCambios == {[emp |-> "one", item |-> 1, lapso |-> 1, line |-> Line(0, 0)],
              [emp |-> "one", item |-> 1, lapso |-> 1, line |-> Line(5, 0)]}

\* Item 1 of the first company is in stock and was sold on days 1 and 2, which
\* the summary does not say; item 2 has no stock and was sold on day 2.
MCInicial ==
    [e \in {"one"} |->
        [docs |-> {Pdv(e, 1, 1, 1, FALSE), Pdv(e, 1, 2, 1, FALSE), Pdv(e, 2, 2, 1, FALSE)},
         resumen |-> [i \in Items |-> [m \in Lapsos |->
            IF i = 1 /\ m = 1 THEN Line(2, 0) ELSE SinResumen]]]]

Nightly == [rango |-> <<>>, history |-> 2, refresh |-> FALSE, stop |-> FALSE, hoy |-> FALSE]
MCCalls ==
    (timer :> {Nightly}) @@
    (hand :> {[Nightly EXCEPT !.rango = <<2, 2>>, !.history = NULL],
              [Nightly EXCEPT !.rango = <<2, 3>>, !.history = NULL, !.refresh = TRUE,
                              !.stop = TRUE],
              [Nightly EXCEPT !.hoy = TRUE]})
=============================================================================
