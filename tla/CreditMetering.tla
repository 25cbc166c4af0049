---------------------------- MODULE CreditMetering ----------------------------
(***************************************************************************)
(* Platform-paid AI calls metered against a balance of packages/meter:      *)
(* createCreditMetering (packages/ottaai) with the adapter of otta-web's    *)
(* worker/lib/ai.ts.  A call asks for room for an estimate, runs, and after *)
(* it completed has the tokens it really used debited, in the background;   *)
(* what does not fit is cut to what is left.  Calls race each other, other  *)
(* users of the same balance, and whoever renews it.                        *)
(***************************************************************************)
EXTENDS Meter

CONSTANTS Call,      \* AI calls, each a caller of the meter
          Estimate,  \* credits the pre-call check asks room for
          MaxOps     \* bound: what the other callers take

ASSUME CallAssumption == Call \subseteq Caller /\ Null \notin Call
ASSUME EstimateAssumption == Estimate \in Nat \ {0} /\ MaxOps \in Nat

VARIABLES call,  \* each call: where it is, and what it used
          ops    \* what the other callers have taken so far

vars == <<meterVars, call, ops>>

CallRecord == [pc : {"new", "run", "debit", "rest", "done"}, tokens : Nat,
               raced : BOOLEAN,  \* history: another changed the balance since the check
               dead : BOOLEAN]   \* history: it never finished

TypeOK ==
    /\ MeterTypeOK
    /\ call \in [Call -> CallRecord] /\ ops \in 0 .. MaxOps

Init ==
    /\ MeterInit
    /\ call = [c \in Call |-> [pc |-> "new", tokens |-> 0, raced |-> FALSE, dead |-> FALSE]]
    /\ ops = 0

-----------------------------------------------------------------------------
\* requireCredits, as hasCredits asks it.
HasCredits(n) == bal.exists /\ Open(now) /\ (Remaining # Null => Remaining >= n)

\* The quota hook fails closed: a ledger that cannot answer refuses the call.
Check(c) ==
    /\ call[c].pc = "new"
    /\ \/ HasCredits(Estimate) /\ call' = [call EXCEPT ![c].pc = "run"]
       \/ call' = [call EXCEPT ![c].pc = "done"]
    /\ UNCHANGED <<meterVars, ops>>

\* call.completed: tokens are debited; a call that failed, or whose reply could not be
\* read, costs nothing.
Complete(c) ==
    /\ call[c].pc = "run"
    /\ \/ \E n \in Amount :
            /\ call' = [call EXCEPT ![c].pc = "debit", ![c].tokens = n]
            /\ BeginConsume(c, n)
       \/ call' = [call EXCEPT ![c].pc = "done"] /\ UNCHANGED op
    /\ UNCHANGED <<now, bal, ledger, charged, taken, lost, admin, ops>>

\* Mutant of TakesRest: a refused debit is left at that.
TakesRestNever(o) == FALSE

\* The adapter's condition for a second consume, of what is left.
TakesRest(o) == o.out = "INSUFFICIENT" /\ o.remaining \notin {Null, 0}

Settle(c) ==
    /\ call[c].pc = "debit" /\ op[c].pc = "idle"
    /\ \/ /\ TakesRest(op[c])
          /\ call' = [call EXCEPT ![c].pc = "rest"]
          /\ op' = [op EXCEPT ![c] = [NoOp EXCEPT !.pc = "take", !.amount = op[c].remaining,
                                                  !.at = now]]
       \/ /\ ~TakesRest(op[c])
          /\ call' = [call EXCEPT ![c].pc = "done"]
          /\ UNCHANGED op
    /\ UNCHANGED <<now, bal, ledger, charged, taken, lost, admin, ops>>

SettleRest(c) ==
    /\ call[c].pc = "rest" /\ op[c].pc = "idle"
    /\ call' = [call EXCEPT ![c].pc = "done"]
    /\ UNCHANGED <<meterVars, ops>>

\* The debit dies where it is: the response does not wait for it.
Die(c) ==
    /\ call[c].pc \in {"run", "debit", "rest"}
    /\ \/ MeterCrash(c)
       \/ op[c].pc = "idle" /\ UNCHANGED meterVars
    /\ call' = [call EXCEPT ![c].pc = "done", ![c].dead = TRUE]
    /\ UNCHANGED ops

-----------------------------------------------------------------------------
\* Who changed the balance raced with every call under way but their own.
Races(c) ==
    call' = [d \in Call |->
               IF d # c /\ bal' # bal /\ call[d].pc \in {"run", "debit", "rest"}
               THEN [call[d] EXCEPT !.raced = TRUE] ELSE call[d]]

MeterStep(c) ==
    /\ Take(c) \/ Explain(c) \/ Ledger(c)
    /\ Races(c)
    /\ UNCHANGED ops

\* Another user of the balance: the metered routes of an app, which consume first and
\* give back when the work fails.
Other(c) ==
    \/ /\ ops < MaxOps /\ ops' = ops + 1
       /\ \E n \in Amount : BeginConsume(c, n)
       /\ UNCHANGED <<now, bal, ledger, charged, taken, lost, admin, call>>
    \/ /\ Refund(c) \/ MeterCrash(c)
       /\ Races(c)
       /\ UNCHANGED ops

Admin ==
    /\ AdminSteps
    /\ Races(Null)
    /\ UNCHANGED ops

Next ==
    \/ \E c \in Call : Check(c) \/ Complete(c) \/ Settle(c) \/ SettleRest(c) \/ Die(c)
    \/ \E c \in Caller : MeterStep(c)
    \/ \E c \in Caller \ Call : Other(c)
    \/ Admin
    \/ Tick /\ UNCHANGED <<call, ops>>

Spec == Init /\ [][Next]_vars

-----------------------------------------------------------------------------
\* A free ride is the price of a race or of a period's end, never of an overrun: a call
\* that used tokens and comes to its end with nothing paid had another change the balance
\* after its check, or finds the period it was checked in over, whose credits the adapter
\* does not ask for (ai.ts:317 tries again on INSUFFICIENT only).
FreeOnlyIfRacedOrLate ==
    [][\A c \in Call :
         (/\ call[c].pc \in {"debit", "rest"} /\ call'[c].pc = "done" /\ ~call'[c].dead
          /\ charged[c] = 0)
             => call[c].raced \/ ~Open(now)]_vars

-----------------------------------------------------------------------------
\* credits.ts:14 says "Post-call: `call.completed` debits the ACTUAL tokens".
NeverOvercharged == \A c \in Call : charged[c] <= call[c].tokens

\* ai.ts:314 says of a call that costs more than is left "Take what is left instead: the
\* balance hits zero and the next check refuses".
OverrunEmpties ==
    [][\A c \in Call :
         (/\ call[c].pc = "rest" /\ op[c].pc = "idle" /\ op[c].out # "PERIOD_ENDED"
          /\ call'[c].pc = "done")
             => Remaining = 0]_vars
=============================================================================
