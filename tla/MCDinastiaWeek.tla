-------------------------- MODULE MCDinastiaWeek ---------------------------
(***************************************************************************)
(* Some two weeks with the turn of a month in them, whatever the day of    *)
(* the week they begin on.  Of the days of two stores one is late at most, *)
(* as a whole or in part, or a day of both, or the days of a store for     *)
(* longer than the look-back of the report.                                *)
(***************************************************************************)
EXTENDS DinastiaWeek

LateIn(L, rows) == [k \in L |-> rows]
Silent == Start .. Start + StoreLookback + 1

LateDays == {LateIn({}, 0), LateIn({<<Start + 1, 1>>}, 0), LateIn({<<Start + 1, 1>>}, Part),
             LateIn({Start} \X Stores, Part), LateIn(Silent \X {1}, 0)}

AWeekAndMore == 1 .. 20
TurnOfMonth == {-20, Start + 3}
Heavy == <<"lineas">>

=============================================================================
