------------------------------ MODULE Allowance ------------------------------
(***************************************************************************)
(* What packages/meter promises of one balance: within a period the credits *)
(* taken, less those given back, never pass the allowance, whoever takes    *)
(* them and in whatever order.                                              *)
(***************************************************************************)
EXTENDS Integers

CONSTANT Null  \* no limit

VARIABLES limit,   \* the allowance of this period
          spent    \* what is gone of it

vars == <<limit, spent>>

Fits(n) == limit # Null => n <= limit

Init == limit \in Nat \cup {Null} /\ spent = 0

Charge == spent' > spent /\ Fits(spent') /\ UNCHANGED limit

GiveBack == spent' < spent /\ UNCHANGED limit

\* A purchase makes room; it takes nothing back.
Widen == limit # Null /\ limit' # Null /\ limit' > limit /\ UNCHANGED spent

\* A new plan, or a new period of this one.
Renew == limit' \in Nat \cup {Null} /\ spent' = 0

Next == Charge \/ GiveBack \/ Widen \/ Renew

Spec == Init /\ [][Next]_vars
=============================================================================
