----------------------------- MODULE MCQueueJobs -----------------------------
(* Finite instances of QueueJobs.                                            *)
EXTENDS QueueJobs

CONSTANTS c1, c2, a1, a2, k1, MaxServed

MCCaller == {c1, c2}
MCConsole == {a1, a2}
MCKey == {k1}
MCBound == {"high", "low"}
MCChainBound == {"high"}
Keyed == [key |-> k1, pri |-> "high", chain |-> "none", known |-> TRUE]
\* A job with a chain; a batch with a job of a type nobody handles, one under the same key
\* on another queue, whose chain has no queue, and that key again on a queue that is not
\* bound.
MCBatches == {<<[Keyed EXCEPT !.chain = "high"]>>,
              <<[Keyed EXCEPT !.key = NoKey, !.known = FALSE],
                [Keyed EXCEPT !.pri = "low", !.chain = "low"],
                [Keyed EXCEPT !.pri = "normal"]>>}
\* The dispatcher reads nothing the consumer or the console writes, and they nothing of its
\* own; one message's invocation reads nothing another's writes, and the console works on
\* letters no invocation has in hand.  Such steps commute, so it is enough to let the
\* callers go first, then the messages in turn, with the console between deliveries.
Untouched == work = [i \in JobIds |-> Waiting] /\ stored = {}
Answered == \A c \in Caller : caller[c].pc = "idle"
Turn(i) == \A j \in 1 .. i - 1 : work[j].pc = "gone"
BetweenDeliveries == \A i \in JobIds : work[i].pc \in {"wait", "gone"}
MCNext ==
    \/ Untouched /\ Dispatch
    \/ Answered /\ BetweenDeliveries /\ Letters
    \/ Answered /\ \E i \in 1 .. MaxServed : Turn(i) /\ Consume(i)
MCSpec == Init /\ [][MCNext]_vars
Symmetry == Permutations(MCCaller) \cup Permutations(MCConsole)
=============================================================================
