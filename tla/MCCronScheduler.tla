--------------------------- MODULE MCCronScheduler ---------------------------
(* Finite instances of CronScheduler.                                        *)
EXTENDS CronScheduler, TLC

CONSTANTS w1, w2

MCWorker == {w1, w2}
\* A run every two units, past the end of the clock so that a next run exists.
MCSlots == {2, 4, 6, 8}
Symmetry == Permutations(MCWorker)
=============================================================================
