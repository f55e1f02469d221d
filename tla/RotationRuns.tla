---------------------------- MODULE RotationRuns ----------------------------
(***************************************************************************)
(* What the runs of every Mercamio rotation load have around them, the     *)
(* four of RotationJobs and the daily one of RotationDiaria: the processes *)
(* that run it, the date, the sources and the table they write.            *)
(***************************************************************************)
EXTENDS RotationSource

CONSTANTS
    Procs,        \* processes that run the program
    RollingDays,  \* --rolling-days
    Inicial,      \* Inicial[e]: what the source of company e has at first
    Cambios,      \* summary lines [emp, item, lapso, line] that may appear
    MaxRuns, MaxFaults, MaxPosts, MaxStock  \* bounds on runs and events

VARIABLES
    hoy,       \* date.today()
    erp,       \* erp[e]: what the source of company e shows
    tabla,     \* tabla[e]: the rows of the target table
    job,       \* job[p]: the run of process p, or Idle
    salida,    \* salida[p]: how its last run ended
    limpios,   \* <<e, d>> last loaded with every ticket posted to them so far
    runs, faults, posts, stock   \* counts against the bounds

bounds == <<runs, faults, posts, stock>>

Idle == [pc |-> "idle"]
Busy(p) == job[p] # Idle
=============================================================================
