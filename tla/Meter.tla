-------------------------------- MODULE Meter --------------------------------
(***************************************************************************)
(* packages/meter: one subject's balance of one meter, taken from by any    *)
(* number of requests at once.  The money path is a conditional UPDATE, but *)
(* what a request reports, logs and gives back comes from later statements, *)
(* so each statement is a step.                                             *)
(***************************************************************************)
EXTENDS Integers

CONSTANTS Caller,    \* requests that may be inside consume or refund at once
          Amount,    \* amounts asked for
          Credits,   \* allowances a plan, a renewal or a purchase may carry
          Null,      \* SQL NULL: no limit, no end of period, nothing to reset to
          Period,    \* length of a period
          MaxTime,   \* bound on the clock
          MaxAdmin   \* bound on grants, purchases and renewals

ASSUME AmountAssumption == Amount \subseteq Nat \ {0}
ASSUME CreditsAssumption == Credits \subseteq Nat /\ Null \notin Int
ASSUME MeterBoundsAssumption == Period \in Nat \ {0} /\ MaxTime \in Nat /\ MaxAdmin \in Nat

VARIABLES
    now,      \* the clock
    bal,      \* the meter_balances row
    op,       \* what each request is doing
    ledger,   \* meter_usage: the sum of each request's rows
    charged,  \* history: credits each request took, less those it gave back
    taken,    \* history: the same of all requests, since the period started
    lost,     \* history: requests whose ledger row was never written
    admin     \* grants, purchases and renewals so far

meterVars == <<now, bal, op, ledger, charged, taken, lost, admin>>

NatOrNull == Nat \cup {Null}
Balance == [exists : BOOLEAN, credits : NatOrNull, used : Nat, end : NatOrNull,
            resetCredits : NatOrNull]
Op == [pc : {"idle", "take", "denied", "ledger"},
       amount : Int,    \* negative: a refund
       at : Nat,        \* now() as the request read it
       out : {"none", "ok", "NO_BALANCE", "INSUFFICIENT", "PERIOD_ENDED"},
       remaining : NatOrNull]  \* as a refusal reports it

MeterTypeOK ==
    /\ now \in 0 .. MaxTime /\ admin \in 0 .. MaxAdmin
    /\ bal \in Balance /\ op \in [Caller -> Op]
    /\ ledger \in [Caller -> Int] /\ charged \in [Caller -> Int]
    /\ taken \in Int /\ lost \subseteq Caller

NoBalance == [exists |-> FALSE, credits |-> 0, used |-> 0, end |-> Null, resetCredits |-> Null]
NoOp == [pc |-> "idle", amount |-> 0, at |-> 0, out |-> "none", remaining |-> 0]

MeterInit ==
    /\ now = 0 /\ admin = 0
    /\ \/ bal = NoBalance
       \/ \E c \in Credits :
            bal = [exists |-> TRUE, credits |-> c, used |-> 0, end |-> Period,
                   resetCredits |-> c]
    /\ op = [c \in Caller |-> NoOp]
    /\ ledger = [c \in Caller |-> 0] /\ charged = [c \in Caller |-> 0]
    /\ taken = 0 /\ lost = {}

Open(at) == bal.end # Null => bal.end > at

\* rowToBalance's remaining.
Remaining ==
    IF bal.credits = Null THEN Null
    ELSE IF bal.credits > bal.used THEN bal.credits - bal.used ELSE 0

-----------------------------------------------------------------------------
(* consume and refund.                                                     *)

BeginConsume(c, n) ==
    /\ op[c].pc = "idle"
    /\ op' = [op EXCEPT ![c] = [NoOp EXCEPT !.pc = "take", !.amount = n, !.at = now]]

\* Mutant of CanTake: the balance is tested before the amount is added.
CanTakeLast(n, at) == bal.exists /\ (bal.credits # Null => bal.used < bal.credits) /\ Open(at)

\* consumeBalance's WHERE clause.
CanTake(n, at) == bal.exists /\ (bal.credits # Null => bal.used + n <= bal.credits) /\ Open(at)

\* What a taken amount leaves is read only for the answer.
Take(c) ==
    LET n == op[c].amount IN
    /\ op[c].pc = "take"
    /\ \/ /\ CanTake(n, op[c].at)
          /\ bal' = [bal EXCEPT !.used = @ + n]
          /\ op' = [op EXCEPT ![c].pc = "ledger"]
          /\ charged' = [charged EXCEPT ![c] = @ + n]
          /\ taken' = taken + n
       \/ /\ ~CanTake(n, op[c].at)
          /\ op' = [op EXCEPT ![c].pc = "denied"]
          /\ UNCHANGED <<bal, charged, taken>>
    /\ UNCHANGED <<now, ledger, lost, admin>>

\* Why it was refused, as the row stands now.
Reason(at) ==
    IF ~bal.exists THEN "NO_BALANCE"
    ELSE IF ~Open(at) THEN "PERIOD_ENDED"
    ELSE "INSUFFICIENT"

Explain(c) ==
    /\ op[c].pc = "denied"
    /\ op' = [op EXCEPT ![c] = [NoOp EXCEPT !.out = Reason(op[c].at),
                                           !.remaining = IF bal.exists THEN Remaining ELSE Null]]
    /\ UNCHANGED <<now, bal, ledger, charged, taken, lost, admin>>

\* The usage row is best effort: a write that fails is only logged.
Ledger(c) ==
    /\ op[c].pc = "ledger"
    /\ \/ ledger' = [ledger EXCEPT ![c] = @ + op[c].amount] /\ UNCHANGED lost
       \/ UNCHANGED ledger /\ lost' = lost \cup {c}
    /\ op' = [op EXCEPT ![c] = [NoOp EXCEPT !.out = "ok"]]
    /\ UNCHANGED <<now, bal, charged, taken, admin>>

\* Mutant of AfterRefund: a refund larger than what is used goes below zero.
AfterRefundUnclipped(n) == bal.used - n

\* refundBalance's new value of used.
AfterRefund(n) == IF bal.used > n THEN bal.used - n ELSE 0

\* Mutant of RefundRow: the ledger shows the refund as use.
RefundRowPositive(n) == [NoOp EXCEPT !.pc = "ledger", !.amount = n]

\* A refund about to write its ledger row.
RefundRow(n) == [NoOp EXCEPT !.pc = "ledger", !.amount = -n]

\* A request gives back what it took, whether or not the period it took it in goes on.
Refund(c) ==
    /\ op[c].pc = "idle" /\ charged[c] > 0 /\ bal.exists
    /\ bal' = [bal EXCEPT !.used = AfterRefund(charged[c])]
    /\ taken' = taken - charged[c]
    /\ charged' = [charged EXCEPT ![c] = 0]
    /\ op' = [op EXCEPT ![c] = RefundRow(charged[c])]
    /\ UNCHANGED <<now, ledger, lost, admin>>

\* The request dies, or a statement of it rejects.
MeterCrash(c) ==
    /\ op[c].pc # "idle"
    /\ op' = [op EXCEPT ![c] = NoOp]
    /\ lost' = IF op[c].pc = "ledger" THEN lost \cup {c} ELSE lost
    /\ UNCHANGED <<now, bal, ledger, charged, taken, admin>>

-----------------------------------------------------------------------------
(* Plans, purchases and renewals.                                          *)

AdminStep == admin < MaxAdmin /\ admin' = admin + 1

Ends == {Null, now + Period}

Grant ==
    /\ AdminStep
    /\ \E credits, resetCredits \in Credits \cup {Null}, end \in Ends :
         bal' = [exists |-> TRUE, credits |-> credits, used |-> 0, end |-> end,
                 resetCredits |-> resetCredits]
    /\ taken' = 0
    /\ UNCHANGED <<now, op, ledger, charged, lost>>

TopUp ==
    /\ AdminStep
    /\ bal.exists /\ bal.credits # Null
    /\ \E n \in Credits \ {0} : bal' = [bal EXCEPT !.credits = @ + n]
    /\ UNCHANGED <<now, op, ledger, charged, taken, lost>>

\* resetBalance's new row: COALESCE(reset_credits, credits).
AfterReset(end) ==
    [bal EXCEPT !.used = 0,
                !.credits = IF bal.resetCredits = Null THEN @ ELSE bal.resetCredits,
                !.end = end]

Reset ==
    /\ AdminStep
    /\ bal.exists
    /\ \E end \in Ends \cup {bal.end} : bal' = AfterReset(end)
    /\ taken' = 0
    /\ UNCHANGED <<now, op, ledger, charged, lost>>

-----------------------------------------------------------------------------
Tick == now < MaxTime /\ now' = now + 1 /\ UNCHANGED <<bal, op, ledger, charged, taken, lost, admin>>

OpStep(c) == Take(c) \/ Explain(c) \/ Ledger(c) \/ MeterCrash(c)

AdminSteps == Grant \/ TopUp \/ Reset

\* assertAmount takes any positive integer.
MeterNext ==
    \/ \E c \in Caller, n \in Nat \ {0} :
         BeginConsume(c, n) /\ UNCHANGED <<now, bal, ledger, charged, taken, lost, admin>>
    \/ \E c \in Caller : OpStep(c) \/ Refund(c)
    \/ AdminSteps \/ Tick

MeterSpec == MeterInit /\ [][MeterNext]_meterVars

-----------------------------------------------------------------------------
\* "Two requests racing for the last credit cannot both win": what the requests of a
\* period took, less what came back, is within what the row counts as used, and that
\* within the allowance, though a refund may give back what an earlier period took.
NetSpend ==
    /\ taken <= bal.used
    /\ bal.credits # Null => bal.used <= bal.credits

\* The ledger differs from what moved only by the rows under way and by rows a failure
\* lost: nothing is logged that was refused, nothing twice.
LedgerFollows ==
    \A c \in Caller \ lost :
        ledger[c] = IF op[c].pc = "ledger" THEN charged[c] - op[c].amount
                    ELSE charged[c]

\* The balance is a period's allowance.
TheAllowance == INSTANCE Allowance WITH limit <- bal.credits, spent <- taken
ImplementsAllowance == TheAllowance!Spec
=============================================================================
