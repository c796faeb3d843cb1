-------------------------- MODULE MCTokenLifecycle --------------------------
(* Small instances of TokenLifecycle for TLC.                              *)
EXTENDS TokenLifecycle

CONSTANTS t1, t2, drainer

MCTasks == {t1, t2, drainer}

\* The calling tasks are interchangeable, the drain task is not one of them.
CallerSymmetry == Permutations(Callers)
=============================================================================
