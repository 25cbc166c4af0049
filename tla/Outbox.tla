-------------------------------- MODULE Outbox --------------------------------
(***************************************************************************)
(* What packages/alerts promises of the deliveries to one channel, without *)
(* attempts, claims, batches and clocks.  An alert is handed to the        *)
(* service only while it is owed, and only while nobody knows, or is about *)
(* to record, that the service has it; the exception is a double, an alert *)
(* that two batches took at once.  It is recorded as gone out only if the  *)
(* service has it, and then stays so; one given up may be asked for again. *)
(* Closing the channel ends the order of these, and no more.               *)
(***************************************************************************)
EXTENDS Naturals

CONSTANT Alert

VARIABLES open,      \* whether the channel is there
          state,     \* what is recorded of each alert's delivery
          accepted,  \* messages naming the alert that the service accepted
          doubted,   \* of those, how many nobody will learn of
          doubled    \* of the rest, how many were doubles

vars == <<open, state, accepted, doubted, doubled>>

Gone == {"sent", "digested"}   \* in a message of its own, or in a batch

Init ==
    /\ open = TRUE
    /\ state = [a \in Alert |-> "none"]
    /\ accepted = [a \in Alert |-> 0] /\ doubted = [a \in Alert |-> 0]
    /\ doubled = [a \in Alert |-> 0]

Ready(a) == state[a] = "owed" \/ (~open /\ state[a] # "none")
DoublesStay(a) == doubled'[a] = doubled[a]
CountsStay(a) == accepted'[a] = accepted[a] /\ doubted'[a] = doubted[a] /\ DoublesStay(a)
Stays(a) == state'[a] = state[a]

Owe(a) == state[a] \in {"none", "dead"} /\ state'[a] = "owed" /\ CountsStay(a)

\* The service takes it; the answer arrives, or is lost on the way.  Where a double came
\* first, it may be recorded already.
HandOver(a) ==
    /\ Ready(a) \/ doubled[a] > 0
    /\ Stays(a) /\ DoublesStay(a)
    /\ accepted[a] <= doubted[a] + doubled[a]
    /\ accepted'[a] = accepted[a] + 1
    /\ doubted'[a] \in {doubted[a], doubted[a] + 1}

\* A second batch with the alert in it goes out.
Double(a) ==
    /\ Ready(a) \/ state[a] = "digested"
    /\ Stays(a) /\ doubted'[a] = doubted[a]
    /\ accepted'[a] = accepted[a] + 1 /\ doubled'[a] = doubled[a] + 1

\* Whoever has the answer dies with it.
Forget(a) ==
    /\ doubted[a] + doubled[a] < accepted[a] /\ doubted'[a] = doubted[a] + 1
    /\ Stays(a) /\ accepted'[a] = accepted[a] /\ DoublesStay(a)

Record(a) == Ready(a) /\ accepted[a] > 0 /\ state'[a] \in Gone /\ CountsStay(a)

GiveUp(a) == Ready(a) /\ state'[a] = "dead" /\ CountsStay(a)

Rest(a) == Stays(a) /\ CountsStay(a)

\* A batch moves several alerts at once.
Next ==
    /\ open' => open
    /\ \A a \in Alert :
         \/ Rest(a) \/ Owe(a) \/ HandOver(a) \/ Double(a)
         \/ Forget(a) \/ Record(a) \/ GiveUp(a)

Spec == Init /\ [][Next]_vars
=============================================================================
