------------------------- MODULE CreditMeteringProofs -------------------------
(***************************************************************************)
(* Theorems about Meter and CreditMetering for every set of callers and     *)
(* calls, every allowance, amount, period and number of renewals.           *)
(***************************************************************************)
EXTENDS CreditMetering, TLAPS

(* The inductive invariant of the meter: a request about to take asks for   *)
(* something, and the counts of the row, the ledger and the period agree.   *)
Asking == \A c \in Caller : op[c].pc = "take" => op[c].amount > 0

MeterInv == MeterTypeOK /\ Asking /\ NetSpend /\ LedgerFollows

-----------------------------------------------------------------------------
(* Types of the records the actions build.                                 *)

LEMMA NoOpType == NoOp \in Op
BY DEF NoOp, Op, NatOrNull

LEMMA AskType ==
    ASSUME NEW n \in Nat \ {0}, NEW t \in Nat
    PROVE  [NoOp EXCEPT !.pc = "take", !.amount = n, !.at = t] \in Op
<1>1. n \in Int
  OBVIOUS
<1>2. QED BY <1>1, NoOpType, Zenon DEF Op

LEMMA RemainingType ==
    ASSUME bal \in Balance
    PROVE  Remaining \in NatOrNull
BY DEF Remaining, Balance, NatOrNull

-----------------------------------------------------------------------------
LEMMA MeterInvInit == MeterInit => MeterInv
<1> SUFFICES ASSUME MeterInit PROVE MeterInv
  OBVIOUS
<1>1. bal \in Balance /\ (bal.credits # Null => bal.used <= bal.credits) /\ bal.used = 0
  <2>1. CASE bal = NoBalance
    BY <2>1 DEF NoBalance, Balance, NatOrNull
  <2>2. ASSUME NEW c \in Credits,
               bal = [exists |-> TRUE, credits |-> c, used |-> 0, end |-> Period,
                      resetCredits |-> c]
        PROVE  bal \in Balance /\ bal.used <= bal.credits /\ bal.used = 0
    <3>1. c \in Nat /\ Period \in Nat
      BY CreditsAssumption, MeterBoundsAssumption
    <3>2. QED BY <2>2, <3>1 DEF Balance, NatOrNull
  <2>3. QED BY <2>1, <2>2 DEF MeterInit
<1>2. op \in [Caller -> Op] /\ \A c \in Caller : op[c].pc = "idle"
  BY NoOpType DEF MeterInit, NoOp
<1>3. QED
  BY <1>1, <1>2, MeterBoundsAssumption
     DEF MeterInit, MeterInv, MeterTypeOK, Asking, NetSpend, LedgerFollows

LEMMA BeginStep ==
    ASSUME MeterInv, NEW c \in Caller, NEW n \in Nat \ {0}, BeginConsume(c, n),
           UNCHANGED <<now, bal, ledger, charged, taken, lost, admin>>
    PROVE  MeterInv'
<1>1. now \in Nat
  BY MeterBoundsAssumption DEF MeterInv, MeterTypeOK
<1> DEFINE o == [NoOp EXCEPT !.pc = "take", !.amount = n, !.at = now]
<1>2. o \in Op /\ o.pc = "take" /\ o.amount = n
  BY <1>1, AskType DEF NoOp
<1>3. op' = [op EXCEPT ![c] = o] /\ op[c].pc = "idle"
  BY DEF BeginConsume
<1> HIDE DEF o
<1>4. QED
  BY <1>2, <1>3 DEF MeterInv, MeterTypeOK, Asking, NetSpend, LedgerFollows

LEMMA TakeStep ==
    ASSUME MeterInv, NEW c \in Caller, Take(c)
    PROVE  MeterInv'
<1> DEFINE n == op[c].amount
<1>1. n \in Nat \ {0} /\ op[c] \in Op
  BY DEF MeterInv, MeterTypeOK, Asking, Take, Op
<1>2. CASE /\ CanTake(n, op[c].at)
           /\ bal' = [bal EXCEPT !.used = @ + n]
           /\ op' = [op EXCEPT ![c].pc = "ledger"]
           /\ charged' = [charged EXCEPT ![c] = @ + n]
           /\ taken' = taken + n
  <2>1. bal' \in Balance
    BY <1>1, <1>2 DEF MeterInv, MeterTypeOK, Balance
  <2>2. op' \in [Caller -> Op] /\ charged' \in [Caller -> Int] /\ taken' \in Int
    BY <1>1, <1>2 DEF MeterInv, MeterTypeOK, Op
  <2>3. NetSpend'
    BY <1>1, <1>2 DEF MeterInv, MeterTypeOK, NetSpend, CanTake, Balance, NatOrNull
  <2>4. Asking' /\ LedgerFollows'
    BY <1>1, <1>2 DEF MeterInv, MeterTypeOK, Asking, LedgerFollows, Take, Op
  <2>5. QED
    BY <2>1, <2>2, <2>3, <2>4 DEF MeterInv, MeterTypeOK, Take
<1>3. CASE /\ ~CanTake(n, op[c].at)
           /\ op' = [op EXCEPT ![c].pc = "denied"]
           /\ UNCHANGED <<bal, charged, taken>>
  <2>1. op' \in [Caller -> Op]
    BY <1>1, <1>3 DEF MeterInv, MeterTypeOK, Op
  <2>2. Asking' /\ LedgerFollows' /\ NetSpend'
    BY <1>3 DEF MeterInv, MeterTypeOK, Asking, LedgerFollows, NetSpend, Take, Op
  <2>3. QED BY <1>3, <2>1, <2>2 DEF MeterInv, MeterTypeOK, Take
<1>4. QED BY <1>2, <1>3 DEF Take

LEMMA ExplainStep ==
    ASSUME MeterInv, NEW c \in Caller, Explain(c)
    PROVE  MeterInv'
<1> DEFINE left == IF bal.exists THEN Remaining ELSE Null
           o == [NoOp EXCEPT !.out = Reason(op[c].at), !.remaining = left]
<1>1. left \in NatOrNull
  BY RemainingType DEF MeterInv, MeterTypeOK, NatOrNull
<1>2. Reason(op[c].at) \in {"NO_BALANCE", "PERIOD_ENDED", "INSUFFICIENT"}
  BY DEF Reason
<1> HIDE DEF left
<1>3. o \in Op /\ o.pc = "idle"
  <2>1. o \in Op
    BY <1>1, <1>2, NoOpType, Zenon DEF Op
  <2>2. QED BY <2>1 DEF NoOp
<1>4. op' = [op EXCEPT ![c] = o] /\ op[c].pc = "denied"
  BY DEF Explain, left
<1> HIDE DEF o
<1>5. QED
  BY <1>3, <1>4 DEF MeterInv, MeterTypeOK, Asking, NetSpend, LedgerFollows, Explain

LEMMA LedgerStep ==
    ASSUME MeterInv, NEW c \in Caller, Ledger(c)
    PROVE  MeterInv'
<1> DEFINE o == [NoOp EXCEPT !.out = "ok"]
<1>1. o \in Op /\ o.pc = "idle"
  BY NoOpType DEF NoOp, Op
<1>2. op' = [op EXCEPT ![c] = o] /\ op[c].pc = "ledger"
  BY DEF Ledger
<1> HIDE DEF o
<1>3. op[c] \in Op /\ ledger[c] \in Int
  BY DEF MeterInv, MeterTypeOK
<1>4. LedgerFollows'
  BY <1>1, <1>2, <1>3 DEF MeterInv, MeterTypeOK, LedgerFollows, Ledger, Op
<1>5. ledger' \in [Caller -> Int] /\ lost' \subseteq Caller
  BY <1>3 DEF MeterInv, MeterTypeOK, Ledger, Op
<1>6. QED
  BY <1>1, <1>2, <1>4, <1>5 DEF MeterInv, MeterTypeOK, Asking, NetSpend, Ledger

\* A refund larger than what this period used leaves nothing used, and no less was taken.
LEMMA RefundStep ==
    ASSUME MeterInv, NEW c \in Caller, Refund(c)
    PROVE  MeterInv'
<1> DEFINE o == RefundRow(charged[c])
<1>1. charged[c] \in Int /\ charged[c] > 0 /\ bal \in Balance
  BY DEF MeterInv, MeterTypeOK, Refund
<1>2. o \in Op /\ o.pc = "ledger" /\ o.amount = -charged[c]
  <2>1. -charged[c] \in Int
    BY <1>1
  <2>2. o \in Op
    BY <2>1, NoOpType, Zenon DEF Op, RefundRow
  <2>3. QED BY <2>2 DEF RefundRow, NoOp
<1>3. op' = [op EXCEPT ![c] = o] /\ op[c].pc = "idle"
  BY DEF Refund
<1> HIDE DEF o
<1>4. bal' \in Balance
  BY <1>1 DEF Refund, AfterRefund, Balance
<1>5. NetSpend'
  BY <1>1 DEF MeterInv, MeterTypeOK, NetSpend, Refund, AfterRefund, Balance, NatOrNull
<1>6. LedgerFollows'
  BY <1>1, <1>2, <1>3 DEF MeterInv, MeterTypeOK, LedgerFollows, Refund
<1>7. QED
  BY <1>1, <1>2, <1>3, <1>4, <1>5, <1>6 DEF MeterInv, MeterTypeOK, Asking, Refund

LEMMA CrashStep ==
    ASSUME MeterInv, NEW c \in Caller, MeterCrash(c)
    PROVE  MeterInv'
<1>1. NoOp \in Op /\ NoOp.pc = "idle"
  BY NoOpType DEF NoOp
<1>2. LedgerFollows'
  BY <1>1 DEF MeterInv, MeterTypeOK, LedgerFollows, MeterCrash
<1>3. QED
  BY <1>1, <1>2 DEF MeterInv, MeterTypeOK, Asking, NetSpend, MeterCrash

\* A plan, a renewal and a purchase leave a balance whose use fits.
LEMMA AdminBalance ==
    ASSUME MeterInv, AdminSteps
    PROVE  /\ bal' \in Balance
           /\ NetSpend' /\ taken' \in Int
           /\ UNCHANGED <<now, op, ledger, charged, lost>> /\ admin' \in 0 .. MaxAdmin
<1>1. bal \in Balance /\ now + Period \in Nat /\ Credits \subseteq Nat /\ Null \notin Int
  BY MeterBoundsAssumption, CreditsAssumption DEF MeterInv, MeterTypeOK
<1>2. Ends \subseteq NatOrNull /\ bal.end \in NatOrNull
  BY <1>1 DEF Ends, NatOrNull, Balance
<1>3. admin' \in 0 .. MaxAdmin /\ UNCHANGED <<now, op, ledger, charged, lost>>
  BY MeterBoundsAssumption
     DEF MeterInv, MeterTypeOK, AdminSteps, AdminStep, Grant, TopUp, Reset
<1>4. CASE Grant
  <2>1. PICK credits \in Credits \cup {Null}, reset \in Credits \cup {Null}, end \in Ends :
             bal' = [exists |-> TRUE, credits |-> credits, used |-> 0, end |-> end,
                     resetCredits |-> reset]
    BY <1>4 DEF Grant
  <2>2. QED
    BY <1>1, <1>2, <1>3, <1>4, <2>1 DEF Grant, Balance, NatOrNull, NetSpend
<1>5. CASE TopUp
  <2>1. PICK n \in Credits \ {0} : bal' = [bal EXCEPT !.credits = @ + n]
    BY <1>5 DEF TopUp
  <2>2. bal.credits \in Nat /\ n \in Nat /\ taken' = taken
    BY <1>1, <1>5 DEF TopUp, Balance, NatOrNull
  <2>3. QED
    BY <1>1, <1>3, <2>1, <2>2
       DEF MeterInv, MeterTypeOK, Balance, NatOrNull, NetSpend
<1>6. CASE Reset
  <2>1. PICK end \in Ends \cup {bal.end} : bal' = AfterReset(end)
    BY <1>6 DEF Reset
  <2> DEFINE credits == IF bal.resetCredits = Null THEN bal.credits ELSE bal.resetCredits
  <2>2. end \in NatOrNull /\ credits \in NatOrNull
    BY <1>1, <1>2 DEF Balance
  <2>3. bal' = [bal EXCEPT !.used = 0, !.credits = credits, !.end = end]
    BY <2>1 DEF AfterReset
  <2> HIDE DEF credits
  <2>4. 0 \in Nat
    OBVIOUS
  <2>5. bal' \in Balance
    BY <1>1, <2>2, <2>3, <2>4, Zenon DEF Balance
  <2>6. bal'.used = 0 /\ bal'.credits = credits /\ taken' = 0
    BY <1>1, <1>6, <2>3 DEF Balance, Reset
  <2>7. QED BY <1>1, <1>3, <2>2, <2>5, <2>6 DEF NetSpend, NatOrNull
<1>7. QED BY <1>4, <1>5, <1>6 DEF AdminSteps

LEMMA MeterInvStep == MeterInv /\ [MeterNext]_meterVars => MeterInv'
<1> SUFFICES ASSUME MeterInv, [MeterNext]_meterVars PROVE MeterInv'
  OBVIOUS
<1>1. ASSUME NEW c \in Caller, NEW n \in Nat \ {0}, BeginConsume(c, n),
             UNCHANGED <<now, bal, ledger, charged, taken, lost, admin>>
      PROVE  MeterInv'
  BY <1>1, BeginStep
<1>2. ASSUME NEW c \in Caller, OpStep(c) \/ Refund(c)
      PROVE  MeterInv'
  BY <1>2, TakeStep, ExplainStep, LedgerStep, CrashStep, RefundStep DEF OpStep
<1>3. CASE AdminSteps
  BY <1>3, AdminBalance DEF MeterInv, MeterTypeOK, Asking, LedgerFollows
<1>4. CASE Tick
  BY <1>4, MeterBoundsAssumption
     DEF MeterInv, MeterTypeOK, Asking, NetSpend, LedgerFollows, Tick
<1>5. CASE UNCHANGED meterVars
  BY <1>5 DEF MeterInv, MeterTypeOK, Asking, NetSpend, LedgerFollows, meterVars
<1>6. QED BY <1>1, <1>2, <1>3, <1>4, <1>5 DEF MeterNext

-----------------------------------------------------------------------------
(* What AI calls, other callers and renewals do to the meter is what any    *)
(* callers may do to it.                                                    *)

LEMMA ComposedStep ==
    ASSUME MeterInv, [Next]_vars
    PROVE  [MeterNext]_meterVars
<1>1. ASSUME NEW c \in Call, Check(c) \/ Complete(c) \/ Settle(c) \/ SettleRest(c) \/ Die(c)
      PROVE  [MeterNext]_meterVars
  <2>0. c \in Caller
    BY CallAssumption
  <2>1. CASE Check(c) \/ SettleRest(c)
    BY <2>1 DEF Check, SettleRest
  <2>2. CASE Complete(c)
    BY <2>0, <2>2, AmountAssumption DEF Complete, MeterNext, meterVars
  <2>3. CASE Settle(c)
    <3>1. CASE /\ TakesRest(op[c])
               /\ op' = [op EXCEPT ![c] = [NoOp EXCEPT !.pc = "take",
                                                       !.amount = op[c].remaining, !.at = now]]
      <4>1. op[c].remaining \in Nat \ {0}
        BY <2>0, <3>1 DEF TakesRest, MeterInv, MeterTypeOK, Op, NatOrNull
      <4>2. BeginConsume(c, op[c].remaining)
        BY <2>3, <3>1 DEF BeginConsume, Settle
      <4>3. QED BY <2>0, <2>3, <4>1, <4>2 DEF MeterNext, Settle
    <3>2. CASE UNCHANGED op
      BY <2>3, <3>2 DEF Settle, meterVars
    <3>3. QED BY <2>3, <3>1, <3>2 DEF Settle
  <2>4. CASE Die(c)
    BY <2>0, <2>4 DEF Die, MeterNext, OpStep
  <2>5. QED BY <1>1, <2>1, <2>2, <2>3, <2>4
<1>2. ASSUME NEW c \in Caller, MeterStep(c)
      PROVE  [MeterNext]_meterVars
  BY <1>2 DEF MeterStep, MeterNext, OpStep
<1>3. ASSUME NEW c \in Caller \ Call, Other(c)
      PROVE  [MeterNext]_meterVars
  BY <1>3, AmountAssumption DEF Other, MeterNext, OpStep
<1>4. CASE Admin
  BY <1>4 DEF Admin, MeterNext
<1>5. CASE Tick
  BY <1>5 DEF MeterNext
<1>6. CASE UNCHANGED vars
  BY <1>6 DEF vars, meterVars
<1>7. QED BY <1>1, <1>2, <1>3, <1>4, <1>5, <1>6 DEF Next

\* However AI calls and other callers use it, the meter keeps its invariant.
THEOREM MeterInvariance == Spec => []MeterInv
<1>1. Init => MeterInv
  BY MeterInvInit DEF Init
<1>2. MeterInv /\ [Next]_vars => MeterInv'
  BY ComposedStep, MeterInvStep
<1>3. QED BY <1>1, <1>2, PTL DEF Spec

\* What the requests of a period took, less what came back, stays within the row's use,
\* and that within the allowance: no interleaving of conditional UPDATEs, refunds and
\* renewals takes a credit twice (meter.ts consume, refund, grant, topUp, reset).
THEOREM NetSpendCorrect == Spec => []NetSpend
<1>1. MeterInv => NetSpend
  BY DEF MeterInv
<1>2. QED BY <1>1, MeterInvariance, PTL

\* The ledger strays from the money only by rows under way and rows a failure lost.
THEOREM LedgerCorrect == Spec => []LedgerFollows
<1>1. MeterInv => LedgerFollows
  BY DEF MeterInv
<1>2. QED BY <1>1, MeterInvariance, PTL

-----------------------------------------------------------------------------
(* Refinement.                                                             *)

\* The meter, AI calls and all, is an allowance that is charged, given back to, widened
\* and renewed.
THEOREM AllowanceRefinement == Spec => ImplementsAllowance
<1>1. Init => TheAllowance!Init
  <2> SUFFICES ASSUME Init PROVE bal.credits \in Nat \cup {Null} /\ taken = 0
    BY DEF TheAllowance!Init
  <2>1. MeterInit /\ bal \in Balance
    BY MeterInvInit DEF Init, MeterInv, MeterTypeOK
  <2>2. QED BY <2>1 DEF MeterInit, Balance, NatOrNull
<1>2. MeterInv /\ MeterInv' /\ [Next]_vars => [TheAllowance!Next]_(TheAllowance!vars)
  <2> SUFFICES ASSUME MeterInv, MeterInv', [MeterNext]_meterVars
               PROVE  [TheAllowance!Next]_(TheAllowance!vars)
    BY ComposedStep
  <2>0. bal \in Balance /\ bal' \in Balance /\ taken \in Int
    BY DEF MeterInv, MeterTypeOK
  <2>1. ASSUME NEW c \in Caller, Take(c) PROVE [TheAllowance!Next]_(TheAllowance!vars)
    <3>1. op[c].amount \in Nat \ {0}
      BY <2>1 DEF MeterInv, MeterTypeOK, Asking, Take, Op
    <3>2. CASE /\ CanTake(op[c].amount, op[c].at)
               /\ bal' = [bal EXCEPT !.used = @ + op[c].amount]
               /\ taken' = taken + op[c].amount
      <4>1. bal'.credits = bal.credits /\ taken' > taken
        BY <2>0, <3>1, <3>2 DEF Balance
      <4>2. bal.credits # Null => taken' <= bal.credits
        BY <2>0, <3>1, <3>2
           DEF MeterInv, NetSpend, CanTake, Balance, NatOrNull
      <4>3. QED BY <4>1, <4>2 DEF TheAllowance!Next, TheAllowance!Charge, TheAllowance!Fits
    <3>3. CASE UNCHANGED <<bal, taken>>
      BY <3>3 DEF TheAllowance!vars
    <3>4. QED BY <2>1, <3>2, <3>3 DEF Take
  <2>2. ASSUME NEW c \in Caller, Refund(c) PROVE [TheAllowance!Next]_(TheAllowance!vars)
    <3>1. charged[c] \in Int /\ charged[c] > 0 /\ taken' = taken - charged[c]
      BY <2>2 DEF Refund, MeterInv, MeterTypeOK
    <3>2. bal'.credits = bal.credits
      BY <2>0, <2>2 DEF Refund, Balance
    <3>3. QED BY <2>0, <3>1, <3>2 DEF TheAllowance!Next, TheAllowance!GiveBack
  <2>3. CASE Grant \/ Reset
    <3>1. taken' = 0 /\ bal'.credits \in Nat \cup {Null}
      BY <2>0, <2>3 DEF Grant, Reset, Balance, NatOrNull
    <3>2. QED BY <3>1 DEF TheAllowance!Next, TheAllowance!Renew
  <2>4. CASE TopUp
    <3>1. PICK n \in Credits \ {0} : bal' = [bal EXCEPT !.credits = @ + n]
      BY <2>4 DEF TopUp
    <3>2. bal.credits \in Nat /\ n \in Nat /\ n > 0 /\ taken' = taken /\ Null \notin Int
      BY <2>0, <2>4, CreditsAssumption DEF TopUp, Balance, NatOrNull
    <3>3. bal'.credits = bal.credits + n
      BY <2>0, <3>1 DEF Balance
    <3>4. QED BY <3>2, <3>3 DEF TheAllowance!Next, TheAllowance!Widen
  <2>5. CASE UNCHANGED <<bal, taken>>
    BY <2>5 DEF TheAllowance!vars
  <2>6. QED
    BY <2>1, <2>2, <2>3, <2>4, <2>5
       DEF MeterNext, OpStep, AdminSteps, Explain, Ledger, MeterCrash, Tick, meterVars
<1>3. QED
  BY <1>1, <1>2, MeterInvariance, PTL DEF Spec, ImplementsAllowance, TheAllowance!Spec

-----------------------------------------------------------------------------
(* What a call that nobody raced knows: the room its check found is still   *)
(* there, so its debit, or the cut one after it, goes through unless the    *)
(* period ended.                                                            *)

Room == bal.exists /\ (bal.credits # Null => bal.used < bal.credits)

Paid(c) == charged[c] > 0 /\ (op[c].pc = "idle" => op[c].out = "ok")

Overdue(c) == op[c].pc = "idle" /\ op[c].out = "PERIOD_ENDED" /\ ~Open(now)

\* The debit of all the tokens, and why it was refused.
DebitKnows(c) ==
    \/ Paid(c) /\ op[c].pc \in {"ledger", "idle"}
    \/ /\ charged[c] = 0
       /\ \/ op[c].pc = "take" /\ Room
          \/ op[c].pc = "denied" /\ Room /\ (bal.credits # Null \/ ~Open(op[c].at))
          \/ Overdue(c)
          \/ /\ op[c].pc = "idle" /\ op[c].out = "INSUFFICIENT"
             /\ Room /\ bal.credits # Null /\ op[c].remaining = bal.credits - bal.used

\* The debit of what is left.
RestKnows(c) ==
    \/ Paid(c) /\ op[c].pc \in {"ledger", "idle"}
    \/ /\ charged[c] = 0
       /\ \/ op[c].pc = "take" /\ Room /\ bal.credits # Null
             /\ op[c].amount = bal.credits - bal.used
          \/ op[c].pc = "denied" /\ Room /\ ~Open(op[c].at)
          \/ Overdue(c)

CallKnows(c) ==
    /\ call[c].pc \in {"new", "run"} => op[c].pc = "idle" /\ charged[c] = 0 /\ call[c].tokens = 0
    /\ call[c].pc = "done" => op[c].pc = "idle"
    /\ op[c].at <= now
    /\ ~call[c].raced =>
         /\ call[c].pc = "run" => Room
         /\ call[c].pc = "debit" => DebitKnows(c)
         /\ call[c].pc = "rest" => RestKnows(c)

CallInv == TypeOK /\ MeterInv /\ \A c \in Call : CallKnows(c)

\* A step that leaves a call's own records alone, and the balance or races the call.
LEMMA KnowsKept ==
    ASSUME NEW c \in Call, CallKnows(c), call[c] \in CallRecord,
           op'[c] = op[c], charged'[c] = charged[c], op[c].at \in Nat,
           bal \in Balance, now \in Nat, now' \in Nat, now <= now',
           \/ call'[c] = call[c] /\ bal' = bal
           \/ call'[c] = call[c] /\ call[c].pc \in {"new", "done"}
           \/ call'[c] = [call[c] EXCEPT !.raced = TRUE]
    PROVE  CallKnows(c)'
<1>0. op'[c].at <= now'
  BY DEF CallKnows
<1>1. CASE call'[c] = call[c] /\ bal' = bal
  <2>1. ~Open(now) => ~Open(now)'
    BY <1>1 DEF Open, Balance, NatOrNull
  <2>2. Overdue(c) => Overdue(c)'
    BY <2>1 DEF Overdue
  <2>3. QED
    BY <1>0, <1>1, <2>2 DEF CallKnows, DebitKnows, RestKnows, Room, Paid, Open
<1>2. CASE call'[c] = call[c] /\ call[c].pc \in {"new", "done"}
  BY <1>0, <1>2 DEF CallKnows
<1>3. CASE call'[c] = [call[c] EXCEPT !.raced = TRUE]
  <2>1. call'[c].raced = TRUE /\ call'[c].pc = call[c].pc /\ call'[c].tokens = call[c].tokens
    BY <1>3 DEF CallRecord
  <2>2. QED BY <1>0, <2>1 DEF CallKnows
<1>4. QED BY <1>1, <1>2, <1>3

\* Whoever changes the balance races every call under way but its own.
LEMMA RacesOthers ==
    ASSUME TypeOK, \A d \in Call : CallKnows(d), NEW c, Races(c), now' = now,
           NEW d \in Call, d # c, op'[d] = op[d], charged'[d] = charged[d]
    PROVE  CallKnows(d)'
<1>1. /\ call[d] \in CallRecord /\ op[d].at \in Nat /\ bal \in Balance
      /\ now \in Nat /\ now' \in Nat /\ now <= now'
  BY CallAssumption DEF TypeOK, MeterTypeOK, Op
<1>2. CASE bal' # bal /\ call[d].pc \in {"run", "debit", "rest"}
  BY <1>1, <1>2, KnowsKept DEF Races
<1>3. CASE bal' = bal
  BY <1>1, <1>3, KnowsKept DEF Races
<1>4. CASE ~(call[d].pc \in {"run", "debit", "rest"})
  BY <1>1, <1>4, KnowsKept DEF Races, CallRecord
<1>5. QED BY <1>2, <1>3, <1>4

LEMMA RacesType ==
    ASSUME TypeOK, NEW c, Races(c)
    PROVE  call' \in [Call -> CallRecord]
BY DEF TypeOK, Races, CallRecord

\* A statement of a caller's consume.
LEMMA MeterStepKnows ==
    ASSUME CallInv, NEW c \in Caller, MeterStep(c)
    PROVE  \A d \in Call : CallKnows(d)'
<1>1. op \in [Caller -> Op] /\ charged \in [Caller -> Int] /\ bal \in Balance
  BY DEF CallInv, TypeOK, MeterTypeOK
<1>2. TypeOK /\ Races(c) /\ (\A d \in Call : CallKnows(d)) /\ now' = now /\ now \in Nat
  BY DEF CallInv, MeterStep, Take, Explain, Ledger, TypeOK, MeterTypeOK
<1>3. \A d \in Caller : d # c => op'[d] = op[d] /\ charged'[d] = charged[d]
  BY <1>1 DEF MeterStep, Take, Explain, Ledger
<1>4. \A d \in Call : d # c => CallKnows(d)'
  BY <1>2, <1>3, CallAssumption, RacesOthers
<1>5. ASSUME c \in Call PROVE CallKnows(c)'
  <2>1. call'[c] = call[c] /\ CallKnows(c)
    BY <1>2, <1>5 DEF Races
  <2>2. op[c].pc # "idle"
    BY DEF MeterStep, Take, Explain, Ledger
  <2>3. call[c].pc \in {"debit", "rest"}
    BY <1>5, <2>1, <2>2 DEF CallKnows, CallInv, TypeOK, CallRecord
  <2>4. SUFFICES ASSUME ~call[c].raced
                 PROVE  /\ call[c].pc = "debit" => DebitKnows(c)'
                        /\ call[c].pc = "rest" => RestKnows(c)'
    <3>1. op'[c].at = op[c].at \/ op'[c].at = 0
      <4>1. CASE Take(c)
        BY <1>1, <4>1 DEF Take, Op
      <4>2. CASE Explain(c) \/ Ledger(c)
        BY <1>1, <4>2 DEF Explain, Ledger, NoOp
      <4>3. QED BY <4>1, <4>2 DEF MeterStep
    <3>2. op'[c].at <= now'
      BY <1>2, <2>1, <3>1 DEF CallKnows
    <3>3. QED BY <2>1, <2>3, <3>2 DEF CallKnows
  <2>5. /\ call[c].pc = "debit" => DebitKnows(c)
        /\ call[c].pc = "rest" => RestKnows(c)
    BY <2>1, <2>4 DEF CallKnows
  <2>6. CASE Take(c)
    <3>1. op[c].amount \in Nat \ {0} /\ op[c].pc = "take" /\ charged[c] = 0
      BY <1>1, <2>3, <2>5, <2>6
         DEF Take, CallInv, MeterInv, Asking, Op, DebitKnows, RestKnows, Paid
    <3>2. CASE CanTake(op[c].amount, op[c].at)
      <4>1. /\ op' = [op EXCEPT ![c].pc = "ledger"]
            /\ charged' = [charged EXCEPT ![c] = @ + op[c].amount]
        BY <2>6, <3>2 DEF Take
      <4>2. op'[c].pc = "ledger"
        BY <1>1, <4>1 DEF Op
      <4>3. charged'[c] = op[c].amount
        BY <1>1, <3>1, <4>1
      <4>4. QED BY <3>1, <4>2, <4>3 DEF DebitKnows, RestKnows, Paid
    <3>3. CASE ~CanTake(op[c].amount, op[c].at)
      <4>1. op' = [op EXCEPT ![c].pc = "denied"] /\ UNCHANGED <<bal, charged>>
        BY <2>6, <3>3 DEF Take
      <4>2. op'[c].pc = "denied" /\ op'[c].at = op[c].at /\ charged'[c] = 0 /\ bal' = bal
        BY <1>1, <3>1, <4>1 DEF Op
      <4>3. ASSUME call[c].pc = "debit" PROVE DebitKnows(c)'
        <5>1. Room
          BY <2>5, <3>1, <4>3 DEF DebitKnows, Paid, Overdue
        <5>2. bal.credits # Null \/ ~Open(op[c].at)
          BY <3>3, <5>1 DEF CanTake, Room
        <5>3. QED BY <4>2, <5>1, <5>2 DEF DebitKnows, Room, Open
      <4>4. ASSUME call[c].pc = "rest" PROVE RestKnows(c)'
        <5>1. Room /\ bal.credits # Null /\ op[c].amount = bal.credits - bal.used
          BY <2>5, <3>1, <4>4 DEF RestKnows, Paid, Overdue
        <5>2. ~Open(op[c].at)
          BY <1>1, <3>3, <5>1 DEF CanTake, Room, Balance, NatOrNull
        <5>3. QED BY <4>2, <5>1, <5>2 DEF RestKnows, Room, Open
      <4>5. QED BY <4>3, <4>4
    <3>4. QED BY <3>2, <3>3
  <2>7. CASE Explain(c)
    <3> DEFINE left == IF bal.exists THEN Remaining ELSE Null
    <3>1. op[c].pc = "denied" /\ charged'[c] = charged[c] /\ bal' = bal
      BY <2>7 DEF Explain
    <3>2. op'[c].pc = "idle" /\ op'[c].out = Reason(op[c].at) /\ op'[c].remaining = left
      BY <1>1, <2>7 DEF Explain, NoOp
    <3>3. charged[c] = 0 /\ Room
      BY <2>3, <2>5, <3>1 DEF DebitKnows, RestKnows, Overdue
    <3>4. CASE ~Open(op[c].at)
      <4>1. op[c].at \in Nat /\ op[c].at <= now
        BY <1>1, <2>1 DEF CallKnows, Op
      <4>2. ~Open(now)'
        BY <1>1, <1>2, <3>1, <3>4, <4>1 DEF Open, Balance, NatOrNull
      <4>3. Overdue(c)'
        BY <3>2, <3>3, <3>4, <4>2 DEF Reason, Room, Overdue
      <4>4. QED BY <3>1, <3>3, <4>3 DEF DebitKnows, RestKnows
    <3>5. CASE Open(op[c].at)
      <4>1. call[c].pc = "debit" /\ bal.credits # Null
        BY <2>3, <2>5, <3>1, <3>5 DEF DebitKnows, RestKnows, Paid, Overdue
      <4>2. op'[c].out = "INSUFFICIENT"
        BY <3>2, <3>3, <3>5 DEF Reason, Room
      <4>3. left = bal.credits - bal.used
        BY <1>1, <3>3, <4>1 DEF Remaining, Room, Balance, NatOrNull
      <4>4. QED BY <3>1, <3>2, <3>3, <4>1, <4>2, <4>3 DEF DebitKnows, Room
    <3>6. QED BY <3>4, <3>5
  <2>8. CASE Ledger(c)
    <3>1. op[c].pc = "ledger" /\ charged' = charged
      BY <2>8 DEF Ledger
    <3>2. op'[c].pc = "idle" /\ op'[c].out = "ok"
      BY <1>1, <2>8 DEF Ledger, NoOp
    <3>3. charged[c] > 0
      BY <2>3, <2>5, <3>1 DEF DebitKnows, RestKnows, Paid, Overdue
    <3>4. QED BY <3>1, <3>2, <3>3 DEF DebitKnows, RestKnows, Paid
  <2>9. QED BY <2>6, <2>7, <2>8 DEF MeterStep
<1>6. QED BY <1>4, <1>5

\* A step of a call's own.
LEMMA OwnStepKnows ==
    ASSUME CallInv, NEW c \in Call,
           Check(c) \/ Complete(c) \/ Settle(c) \/ SettleRest(c) \/ Die(c)
    PROVE  call' \in [Call -> CallRecord] /\ \A d \in Call : CallKnows(d)'
<1>1. /\ op \in [Caller -> Op] /\ charged \in [Caller -> Int] /\ bal \in Balance
      /\ call \in [Call -> CallRecord] /\ c \in Caller
  BY CallAssumption DEF CallInv, TypeOK, MeterTypeOK
<1>2. call[c] \in CallRecord /\ CallKnows(c)
  BY <1>1 DEF CallInv
<1>3. UNCHANGED <<bal, charged, now>> /\ now \in Nat
  BY DEF Check, Complete, Settle, SettleRest, Die, MeterCrash, meterVars, CallInv, TypeOK,
         MeterTypeOK
<1>4. \A d \in Caller : d # c => op'[d] = op[d]
  BY <1>1 DEF Check, Complete, BeginConsume, Settle, SettleRest, Die, MeterCrash, meterVars
<1>5. call' \in [Call -> CallRecord] /\ \A d \in Call : d # c => call'[d] = call[d]
  <2>1. Amount \subseteq Nat
    BY AmountAssumption
  <2>2. QED
    BY <1>1, <1>2, <2>1 DEF Check, Complete, Settle, SettleRest, Die, CallRecord
<1>6. \A d \in Call : d # c => CallKnows(d)'
  <2>1. \A d \in Call : op[d].at \in Nat
    BY <1>1, CallAssumption DEF Op
  <2>2. QED
    BY <1>1, <1>3, <1>4, <1>5, <2>1, CallAssumption, KnowsKept DEF CallInv, TypeOK
<1>7. CallKnows(c)'
  <2>1. CASE Check(c)
    <3>1. op' = op /\ op[c].pc = "idle" /\ charged[c] = 0 /\ call[c].tokens = 0
      BY <1>2, <2>1 DEF Check, CallKnows, meterVars
    <3>2. call'[c].tokens = 0 /\ (call'[c].pc = "done" \/ (HasCredits(Estimate) /\ call'[c].pc = "run"))
      BY <1>1, <1>2, <2>1, <3>1 DEF Check, CallRecord
    <3>3. HasCredits(Estimate) => Room
      BY <1>1, EstimateAssumption, CreditsAssumption
         DEF HasCredits, Remaining, Room, Balance, NatOrNull
    <3>4. QED BY <1>2, <1>3, <3>1, <3>2, <3>3 DEF CallKnows, Room
  <2>2. CASE Complete(c)
    <3>1. call[c].pc = "run" /\ op[c].pc = "idle" /\ charged[c] = 0 /\ call[c].tokens = 0
      BY <1>2, <2>2 DEF Complete, CallKnows
    <3>2. CASE call' = [call EXCEPT ![c].pc = "done"] /\ UNCHANGED op
      <4>1. call'[c].pc = "done" /\ call'[c].tokens = 0
        BY <1>1, <1>2, <3>1, <3>2 DEF CallRecord
      <4>2. QED BY <1>2, <1>3, <3>1, <3>2, <4>1 DEF CallKnows
    <3>3. ASSUME NEW n \in Amount,
                 call' = [call EXCEPT ![c].pc = "debit", ![c].tokens = n], BeginConsume(c, n)
          PROVE  CallKnows(c)'
      <4>1. call'[c].pc = "debit" /\ call'[c].raced = call[c].raced
        BY <1>1, <1>2, <3>3 DEF CallRecord
      <4>2. op'[c].pc = "take" /\ op'[c].at = now
        BY <1>1, <3>3 DEF BeginConsume, NoOp
      <4>3. ~call[c].raced => Room
        BY <1>2, <3>1 DEF CallKnows
      <4>4. QED BY <1>3, <3>1, <4>1, <4>2, <4>3 DEF CallKnows, DebitKnows, Room
    <3>4. QED BY <2>2, <3>2, <3>3 DEF Complete
  <2>3. CASE Settle(c)
    <3>1. call[c].pc = "debit" /\ op[c].pc = "idle" /\ (~call[c].raced => DebitKnows(c))
      BY <1>2, <2>3 DEF Settle, CallKnows
    <3>2. CASE /\ TakesRest(op[c])
               /\ call' = [call EXCEPT ![c].pc = "rest"]
               /\ op' = [op EXCEPT ![c] = [NoOp EXCEPT !.pc = "take",
                                                       !.amount = op[c].remaining, !.at = now]]
      <4>1. call'[c].pc = "rest" /\ call'[c].raced = call[c].raced
        BY <1>1, <1>2, <3>2 DEF CallRecord
      <4>2. op'[c].pc = "take" /\ op'[c].amount = op[c].remaining /\ op'[c].at = now
        BY <1>1, <3>2 DEF NoOp
      <4>3. op[c].out = "INSUFFICIENT"
        BY <3>2 DEF TakesRest
      <4>4. QED
        BY <1>3, <3>1, <4>1, <4>2, <4>3
           DEF CallKnows, DebitKnows, RestKnows, Room, Paid, Overdue
    <3>3. CASE ~TakesRest(op[c]) /\ call' = [call EXCEPT ![c].pc = "done"] /\ UNCHANGED op
      <4>1. call'[c].pc = "done" /\ call'[c].raced = call[c].raced
        BY <1>1, <1>2, <3>3 DEF CallRecord
      <4>2. QED BY <1>2, <1>3, <3>1, <3>3, <4>1 DEF CallKnows
    <3>4. QED BY <2>3, <3>2, <3>3 DEF Settle
  <2>4. CASE SettleRest(c)
    <3>1. /\ call[c].pc = "rest" /\ op[c].pc = "idle" /\ op' = op
          /\ ~call[c].raced => RestKnows(c)
      BY <1>2, <2>4 DEF SettleRest, CallKnows, meterVars
    <3>2. call'[c].pc = "done" /\ call'[c].raced = call[c].raced
      BY <1>1, <1>2, <2>4 DEF SettleRest, CallRecord
    <3>3. QED BY <1>2, <1>3, <3>1, <3>2 DEF CallKnows
  <2>5. CASE Die(c)
    <3>1. call'[c].pc = "done" /\ call'[c].dead = TRUE
      BY <1>1, <1>2, <2>5 DEF Die, CallRecord
    <3>2. op'[c].pc = "idle" /\ (op'[c].at = 0 \/ op'[c] = op[c])
      BY <1>1, <2>5 DEF Die, MeterCrash, NoOp, meterVars
    <3>3. op'[c].at <= now'
      BY <1>2, <1>3, <3>2 DEF CallKnows
    <3>4. op'[c].pc = "idle" /\ call'[c].pc \notin {"new", "run", "debit", "rest"}
      BY <3>1, <3>2
    <3>5. QED BY <3>1, <3>3, <3>4 DEF CallKnows
  <2>6. QED BY <2>1, <2>2, <2>3, <2>4, <2>5
<1>8. QED BY <1>5, <1>6, <1>7

LEMMA CallInvStep == CallInv /\ [Next]_vars => CallInv'
<1> SUFFICES ASSUME CallInv, [Next]_vars PROVE CallInv'
  OBVIOUS
<1>1. MeterInv'
  BY ComposedStep, MeterInvStep DEF CallInv
<1>2. /\ op \in [Caller -> Op] /\ charged \in [Caller -> Int]
      /\ TypeOK /\ (\A d \in Call : CallKnows(d) /\ call[d] \in CallRecord)
      /\ bal \in Balance /\ now \in Nat /\ (\A d \in Call : op[d].at \in Nat)
  BY CallAssumption DEF CallInv, TypeOK, MeterTypeOK, Op
<1>3. SUFFICES /\ call' \in [Call -> CallRecord] /\ ops' \in 0 .. MaxOps
               /\ \A d \in Call : CallKnows(d)'
  BY <1>1 DEF CallInv, TypeOK, MeterInv
<1>4. ASSUME NEW c \in Call, Check(c) \/ Complete(c) \/ Settle(c) \/ SettleRest(c) \/ Die(c)
      PROVE  /\ call' \in [Call -> CallRecord] /\ ops' \in 0 .. MaxOps
             /\ \A d \in Call : CallKnows(d)'
  <2>1. ops' = ops
    BY <1>4 DEF Check, Complete, Settle, SettleRest, Die
  <2>2. QED BY <1>2, <1>4, <2>1, OwnStepKnows DEF TypeOK
<1>5. ASSUME NEW c \in Caller, MeterStep(c)
      PROVE  /\ call' \in [Call -> CallRecord] /\ ops' \in 0 .. MaxOps
             /\ \A d \in Call : CallKnows(d)'
  BY <1>2, <1>5, MeterStepKnows, RacesType DEF TypeOK, MeterStep
<1>6. ASSUME NEW c \in Caller \ Call, Other(c)
      PROVE  /\ call' \in [Call -> CallRecord] /\ ops' \in 0 .. MaxOps
             /\ \A d \in Call : CallKnows(d)'
  <2>0. now' = now
    BY <1>6 DEF Other, BeginConsume, Refund, MeterCrash
  <2>1. \A d \in Call : d # c /\ op'[d] = op[d] /\ charged'[d] = charged[d]
    BY <1>2, <1>6, CallAssumption DEF Other, BeginConsume, Refund, MeterCrash
  <2>2. CASE ops < MaxOps /\ ops' = ops + 1 /\ UNCHANGED <<bal, call>>
    <3>1. ops' \in 0 .. MaxOps
      BY <1>2, <2>2, EstimateAssumption DEF TypeOK
    <3>2. QED BY <1>2, <2>0, <2>1, <2>2, <3>1, KnowsKept DEF TypeOK
  <2>3. CASE Races(c) /\ UNCHANGED ops
    BY <1>2, <2>0, <2>1, <2>3, RacesOthers, RacesType DEF TypeOK
  <2>4. QED BY <1>6, <2>2, <2>3 DEF Other
<1>7. CASE Admin
  <2>1. op' = op /\ charged' = charged /\ Races(Null) /\ ops' = ops /\ now' = now
    BY <1>7 DEF Admin, AdminSteps, Grant, TopUp, Reset
  <2>2. QED BY <1>2, <2>1, CallAssumption, RacesOthers, RacesType DEF TypeOK
<1>8. CASE (Tick /\ UNCHANGED <<call, ops>>) \/ UNCHANGED vars
  <2>1. UNCHANGED <<op, charged, bal, call, ops>> /\ now' \in Nat /\ now <= now'
    BY <1>2, <1>8 DEF Tick, vars, meterVars
  <2>2. QED BY <1>2, <2>1, KnowsKept DEF TypeOK
<1>9. QED BY <1>4, <1>5, <1>6, <1>7, <1>8 DEF Next

\* Types, the meter's invariant, and what every call under way may rely on.
THEOREM CallInvariance == Spec => []CallInv
<1>1. Init => CallInv
  <2> SUFFICES ASSUME Init PROVE CallInv
    OBVIOUS
  <2>1. MeterInv
    BY MeterInvInit DEF Init
  <2>2. call \in [Call -> CallRecord] /\ ops \in 0 .. MaxOps
    BY EstimateAssumption DEF Init, CallRecord
  <2>3. \A c \in Call : CallKnows(c)
    <3>1. \A c \in Call : /\ op[c].pc = "idle" /\ op[c].at = 0 /\ charged[c] = 0 /\ now = 0
                          /\ call[c].pc = "new" /\ call[c].tokens = 0
      BY CallAssumption DEF Init, MeterInit, NoOp
    <3>2. QED BY <3>1 DEF CallKnows
  <2>4. QED BY <2>1, <2>2, <2>3 DEF CallInv, TypeOK, MeterInv
<1>2. QED BY <1>1, CallInvStep, PTL DEF Spec

\* Types of the whole composition.
THEOREM TypeCorrect == Spec => []TypeOK
<1>1. CallInv => TypeOK
  BY DEF CallInv
<1>2. QED BY <1>1, CallInvariance, PTL

\* A call that used tokens and comes to its end with nothing paid was raced, or its period
\* has ended: however much a call overruns, alone and in time it leaves nothing on the
\* balance for the next one (ai.ts's adapter around consume, and the check before the call).
LEMMA FreeRideStep ==
    ASSUME CallInv, [Next]_vars, NEW c \in Call,
           call[c].pc \in {"debit", "rest"}, call'[c].pc = "done", ~call'[c].dead,
           charged[c] = 0, ~call[c].raced
    PROVE  ~Open(now)
<1>1. /\ call[c] \in CallRecord /\ CallKnows(c) /\ c \in Caller /\ bal \in Balance
      /\ call \in [Call -> CallRecord]
  BY CallAssumption DEF CallInv, TypeOK, MeterTypeOK
<1>2. Settle(c) \/ SettleRest(c)
  <2>1. CASE \E d \in Call : Check(d) \/ Complete(d) \/ Settle(d) \/ SettleRest(d) \/ Die(d)
    <3>1. PICK d \in Call : Check(d) \/ Complete(d) \/ Settle(d) \/ SettleRest(d) \/ Die(d)
      BY <2>1
    <3>2. d = c
      BY <1>1, <3>1 DEF Check, Complete, Settle, SettleRest, Die
    <3>3. ~Die(c)
      BY <1>1 DEF Die, CallRecord
    <3>4. QED BY <1>1, <3>1, <3>2, <3>3 DEF Check, Complete
  <2>2. call'[c].pc = call[c].pc \/ \E d \in Call : Check(d) \/ Complete(d) \/ Settle(d)
                                                      \/ SettleRest(d) \/ Die(d)
    BY <1>1 DEF Next, MeterStep, Other, Admin, Races, CallRecord, vars
  <2>3. QED BY <2>1, <2>2
<1>3. CASE Settle(c)
  <2>1. call[c].pc = "debit" /\ op[c].pc = "idle" /\ ~TakesRest(op[c])
    BY <1>1, <1>3 DEF Settle, CallRecord
  <2>2. SUFFICES ASSUME ~Overdue(c) PROVE FALSE
    BY DEF Overdue
  <2>3. /\ op[c].out = "INSUFFICIENT" /\ Room /\ bal.credits # Null
        /\ op[c].remaining = bal.credits - bal.used
    BY <1>1, <2>1, <2>2 DEF CallKnows, DebitKnows, Paid
  <2>4. op[c].remaining \in Nat \ {0}
    BY <1>1, <2>3 DEF Room, Balance, NatOrNull
  <2>5. QED BY <2>1, <2>3, <2>4, CreditsAssumption DEF TakesRest
<1>4. CASE SettleRest(c)
  <2>1. call[c].pc = "rest" /\ op[c].pc = "idle"
    BY <1>4 DEF SettleRest
  <2>2. QED BY <1>1, <2>1 DEF CallKnows, RestKnows, Paid, Overdue
<1>5. QED BY <1>2, <1>3, <1>4

\* The same, of every behaviour.
THEOREM FreeRidesAreRacesOrLate == Spec => FreeOnlyIfRacedOrLate
<1>1. CallInv /\ [Next]_vars =>
        [\A c \in Call :
           (/\ call[c].pc \in {"debit", "rest"} /\ call'[c].pc = "done" /\ ~call'[c].dead
            /\ charged[c] = 0)
               => call[c].raced \/ ~Open(now)]_vars
  BY FreeRideStep
<1>2. QED BY <1>1, CallInvariance, PTL DEF Spec, FreeOnlyIfRacedOrLate
=============================================================================
