--------------------------- MODULE MCCreditMetering ---------------------------
(* Finite instances of CreditMetering.                                        *)
EXTENDS CreditMetering, TLC

CONSTANTS c1, c2, c3

MCCall == {c1, c2}
MCOneCall == {c1}
MCCaller == {c1, c2, c3}
MCAmount == {1, 3}
MCCredits == {2}
\* With one call, the two other users of the balance are interchangeable.
Symmetry == Permutations(MCCaller \ MCOneCall)
=============================================================================
