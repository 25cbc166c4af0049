----------------------------- MODULE FencedLease -----------------------------
(***************************************************************************)
(* What the scheduler promises about the executions of one task, without   *)
(* any of its machinery: at any time at most one execution holds the       *)
(* task's fence; the fence passes from an execution that has not published *)
(* its result to another one only after a whole lease; a result is         *)
(* published by the holder alone, once, and in the order of the fences.    *)
(***************************************************************************)
EXTENDS Integers

CONSTANTS Lease,    \* how long a holder is left alone
          NoOwner   \* the fence when nobody holds it; not a natural number

VARIABLES owner,      \* the fencing token of the execution that holds the task
          published   \* the tokens whose result was accepted

vars == <<owner, published>>

Init == owner = NoOwner /\ published = {}

\* Somebody takes the fence: the free one, or a holder's whose lease has run out.
Acquire ==
    /\ owner' \in Nat
    /\ owner # NoOwner => owner' > owner + Lease
    /\ \A p \in published : p < owner'
    /\ UNCHANGED published

\* The holder's result is accepted, and with it the fence is free.
Publish ==
    /\ owner # NoOwner
    /\ published' = published \cup {owner}
    /\ owner' = NoOwner

\* The task is deleted under its holder.
Revoke == owner # NoOwner /\ owner' = NoOwner /\ UNCHANGED published

Next == Acquire \/ Publish \/ Revoke

Spec == Init /\ [][Next]_vars
=============================================================================
