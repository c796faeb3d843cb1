--------------------------- MODULE MCEngieBeClient ---------------------------
(* Small instances of EngieBeClient for TLC.                               *)
EXTENDS EngieBeClient

CONSTANTS t1, t2, drainer

MCTasks == {t1, t2, drainer}
MCOneCaller == {t1, drainer}

\* The calling tasks are interchangeable, the drain task is not one of them.
CallerSymmetry == Permutations(Callers)
=============================================================================
