-------------------------- MODULE MCAlertDeliveries --------------------------
(* Finite instances of AlertDeliveries.                                      *)
EXTENDS AlertDeliveries, TLC

CONSTANTS w1, w2, s1, s2, a1, a2

MCWorker == {w1, w2}
MCOneWorker == {w1}
MCSweepers == {s1, s2}
MCOneSweeper == {s1}
MCAlerts == {a1, a2}
MCOneAlert == {a1}
\* One delay: two attempts.
MCRetryDelay == <<1>>
Symmetry == Permutations(MCSweepers) \cup Permutations(MCAlerts)
=============================================================================
