------------------------ MODULE CronSchedulerProofs ------------------------
(***************************************************************************)
(* Theorems about CronScheduler for every schedule, lock timeout, number   *)
(* of workers, messages, manual runs and faults.                           *)
(***************************************************************************)
EXTENDS CronScheduler, FiniteSetTheorems, TLAPS

(* An instant the schedule is asked for lies strictly after the question.  *)
LEMMA NextRunLater ==
    ASSUME NEW t \in Nat
    PROVE  NextRun(t) = Null \/ (NextRun(t) \in Nat /\ NextRun(t) > t)
<1>1. CASE ~row.corrupt /\ HasNext(t)
  <2>1. PICK s \in Later(t) : \A u \in Later(t) : s <= u
    BY <1>1 DEF HasNext
  <2>2. NextRun(t) \in Later(t)
    BY <1>1, <2>1 DEF NextRun
  <2>3. QED BY <2>2, SlotsAssumption DEF Later
<1>2. CASE ~(~row.corrupt /\ HasNext(t))
  BY <1>2 DEF NextRun
<1>3. QED BY <1>1, <1>2

-----------------------------------------------------------------------------
(* Types.                                                                  *)

LEMMA IdleType == Idle \in Execution
BY BoundsAssumption DEF Idle, Execution, Pc, Instant, Null

LEMMA BeginType ==
    ASSUME TypeOK, NEW req \in Instant, NEW id \in Instant, NEW tries \in 0 .. MaxAttempts
    PROVE  Begin(req, id, tries) \in Execution
<1>1. now \in Instant
  BY TimesAssumption DEF TypeOK, Instant
<1>2. QED BY <1>1, IdleType, Zenon DEF Begin, Execution, Pc

\* The parameters of an outcome UPDATE are instants, and the execution stays one.
LEMMA OutcomeType ==
    ASSUME TypeOK, NEW e \in Execution
    PROVE  /\ FinishedAt(e) \in Nat
           /\ NextRun(now) \in Instant
           /\ ToFail(e) \in Execution
           /\ [e EXCEPT !.pc = "complete", !.fin = FinishedAt(e),
                        !.next = NextRun(now)] \in Execution
<1>1. now \in Nat
  BY TimesAssumption DEF TypeOK
<1>2. FinishedAt(e) \in Nat
  BY <1>1 DEF FinishedAt, Execution, Instant, Null
<1>3. NextRun(now) \in Instant
  BY <1>1, NextRunLater DEF Instant
<1>4. FinishedAt(e) \in Instant
  BY <1>2 DEF Instant
<1>5. ToFail(e) \in Execution
  BY <1>3, <1>4, Zenon DEF ToFail, Execution, Pc
<1>6. QED
  BY <1>2, <1>3, <1>4, <1>5, Zenon DEF Execution, Pc

\* The outcome an execution writes is a row.
LEMMA RowType ==
    ASSUME row \in Row, NEW e \in Execution
    PROVE  Completed(e) \in Row /\ Failed(e) \in Row
<1>1. row.runs + 1 \in Nat /\ row.fails + 1 \in Nat
  BY DEF Row
<1>2. e.fin \in Instant /\ e.next \in Instant
  BY DEF Execution
<1>3. Completed(e) \in Row
  BY <1>1, <1>2, Zenon DEF Completed, Row, Status
<1>4. (IF e.next = Null THEN FALSE ELSE row.active) \in BOOLEAN
  BY DEF Row
<1>5. Failed(e) \in Row
  BY <1>1, <1>2, <1>4, Zenon DEF Failed, Row, Status
<1>6. QED BY <1>3, <1>5

\* Recording an outcome, or failing to, keeps the row and the history well formed.
LEMMA RecordType ==
    ASSUME TypeOK, NEW w \in Worker, exec[w] \in Execution,
           \/ Record(w, Completed(exec[w])) \/ Record(w, Failed(exec[w]))
           \/ UNCHANGED <<row, results>>
    PROVE  row' \in Row /\ results' \in SUBSET Instant
<1>1. Completed(exec[w]) \in Row /\ Failed(exec[w]) \in Row
  BY RowType DEF TypeOK
<1>2. row' \in Row
  BY <1>1 DEF Record, TypeOK
<1>3. exec[w].at \in Instant
  BY DEF Execution
<1>4. QED BY <1>2, <1>3 DEF Record, TypeOK

\* Handing a run over keeps the messages and the executions well formed.
LEMMA SubmitType ==
    ASSUME TypeOK, NEW req \in Instant, Submit(req)
    PROVE  /\ msgs' \in SUBSET Message /\ sent' \in Nat
           /\ exec' \in [Worker -> Execution]
<1>1. CASE Queued
  BY <1>1, BoundsAssumption DEF TypeOK, Submit, Message, Instant
<1>2. CASE ~Queued
  <2>1. Null \in Instant /\ 0 \in 0 .. MaxAttempts
    BY BoundsAssumption DEF Instant
  <2>2. Begin(req, Null, 0) \in Execution
    BY <2>1, BeginType
  <2>3. QED BY <1>2, <2>2 DEF TypeOK, Submit
<1>3. QED BY <1>1, <1>2

LEMMA TypeInit == Init => TypeOK
BY IdleType, SlotsAssumption, TimesAssumption, BoundsAssumption
   DEF Init, TypeOK, Row, Instant, Status, Message, Claims, Later, Null

LEMMA TypeStep == TypeOK /\ [Next]_vars => TypeOK'
<1> SUFFICES ASSUME TypeOK, [Next]_vars PROVE TypeOK'
  OBVIOUS
<1> USE TimesAssumption, BoundsAssumption DEF TypeOK, Null
<1>1. CASE Advance
  BY <1>1 DEF Advance, Instant
<1>2. CASE Tick
  <2>1. Null \in Instant /\ now \in Instant
    BY DEF Instant
  <2>2. CASE Submit(Null)
    BY <1>2, <2>1, <2>2, SubmitType DEF Tick, Trigger, Fault
  <2>3. CASE ~Submit(Null)
    BY <1>2, <2>1, <2>3 DEF Tick, Trigger, Fault
  <2>4. QED BY <2>2, <2>3
<1>3. CASE RequestRun
  <2>1. now \in Instant
    BY DEF Instant
  <2>2. QED BY <1>3, <2>1, SubmitType DEF RequestRun
<1>4. CASE DeleteTask
  BY <1>4 DEF DeleteTask, Row
<1>5. ASSUME NEW m \in msgs, Drop(m) PROVE TypeOK'
  BY <1>5 DEF Drop
<1>6. ASSUME NEW w \in Worker, NEW m \in msgs, Deliver(w, m) PROVE TypeOK'
  <2>1. m \in Message /\ [m EXCEPT !.tries = @ + 1] \in Message
    BY <1>6 DEF Deliver, Exhausted, Message
  <2>2. Begin(m.req, m.id, m.tries + 1) \in Execution
    BY <1>6, <2>1, BeginType DEF Deliver, Exhausted, Message, Instant
  <2>3. QED BY <1>6, <2>1, <2>2 DEF Deliver
<1>7. ASSUME NEW w \in Worker, Run(w) PROVE TypeOK'
  <2>1. exec[w] \in Execution
    OBVIOUS
  <2>2. CASE Claim(w)
    <3>1. [exec[w] EXCEPT !.pc = "load"] \in Execution
      BY <2>1 DEF Execution, Pc
    <3>2. exec' \in [Worker -> Execution]
      BY <2>2, <3>1 DEF Claim
    <3>3. row' \in Row
      BY <2>1, <2>2, Zenon DEF Claim, Row, Status, Execution
    <3>4. claims' \in SUBSET Claims
      BY <2>1, <2>2 DEF Claim, Claims, Execution, Row, Instant
    <3>5. QED BY <2>2, <3>2, <3>3, <3>4 DEF Claim
  <2>3. CASE Locked(w)
    BY <2>3, IdleType DEF Locked, Ack
  <2>4. CASE Reload(w)
    <3>1. [exec[w] EXCEPT !.pc = "run"] \in Execution
      BY <2>1 DEF Execution, Pc
    <3>2. QED BY <2>4, <3>1, IdleType DEF Reload, Ack
  <2>5. CASE HandlerReturns(w)
    BY <2>1, <2>5, OutcomeType DEF HandlerReturns
  <2>6. CASE HandlerThrows(w)
    BY <2>1, <2>6, OutcomeType DEF HandlerThrows
  <2>7. CASE Complete(w)
    BY <2>1, <2>7, IdleType, RecordType DEF Complete, Ack
  <2>8. CASE Fail(w)
    BY <2>1, <2>8, IdleType, RecordType DEF Fail, Ack
  <2>9. QED
    BY <1>7, <2>2, <2>3, <2>4, <2>5, <2>6, <2>7, <2>8 DEF Run
<1>8. ASSUME NEW w \in Worker, Break(w) PROVE TypeOK'
  <2>1. exec[w] \in Execution
    OBVIOUS
  <2>2. CASE Crash(w)
    BY <2>2, IdleType DEF Crash, Fault
  <2>3. CASE BookkeepingFault(w)
    BY <2>3, IdleType DEF BookkeepingFault, Reject, Fault
  <2>4. CASE CompleteFault(w)
    <3>1. row' \in Row /\ results' \in SUBSET Instant
      BY <2>1, <2>4, RecordType DEF CompleteFault
    <3>2. exec' \in [Worker -> Execution]
      BY <2>1, <2>4, OutcomeType DEF CompleteFault
    <3>3. QED BY <2>4, <3>1, <3>2 DEF CompleteFault, Fault
  <2>5. CASE FailFault(w)
    BY <2>1, <2>5, IdleType, RecordType DEF FailFault, Fault, Reject
  <2>6. QED BY <1>8, <2>2, <2>3, <2>4, <2>5 DEF Break
<1>9. CASE UNCHANGED vars
  BY <1>9 DEF vars
<1>10. QED
  BY <1>1, <1>2, <1>3, <1>4, <1>5, <1>6, <1>7, <1>8, <1>9 DEF Next

\* The state of the scheduler stays inside its types, for every value of the constants.
THEOREM TypeCorrect == Spec => []TypeOK
BY TypeInit, TypeStep, PTL DEF Spec
-----------------------------------------------------------------------------
(* The inductive invariant.  The lock's UPDATEs look at the row only, so   *)
(* what they guarantee about executions and about the past rests on how    *)
(* the row's last_run_at relates to every fence handed out so far.         *)

Live(w) == exec[w].pc \in {"load", "run", "complete", "fail"}

\* Nothing is dated in the future, and an outcome is dated after its fence.
Dates ==
    /\ \A m \in msgs : m.req # Null => m.req <= now
    /\ \A w \in Worker : exec[w].pc # "idle" =>
         /\ exec[w].at \in Nat /\ exec[w].at <= now
         /\ exec[w].req # Null => exec[w].req <= exec[w].at
    /\ \A w \in Worker : exec[w].pc \in {"complete", "fail"} =>
         /\ exec[w].fin > exec[w].at
         /\ exec[w].next # Null => exec[w].next >= exec[w].fin

\* A locked row carries a fence; an unlocked one is not due before its last outcome.
RowDates ==
    /\ row.status = "running" => row.last \in Nat /\ row.last <= now
    /\ row.status # "running" /\ row.next # Null => row.next >= row.last

\* last_run_at is past every fence whose outcome is known, and never behind any fence.
Past ==
    /\ \A f \in results : f \in Nat /\ f < row.last
    /\ \A c \in claims :
         /\ c.at \in Nat /\ c.at <= row.last
         /\ c.at = row.last => row.status = "running"
         /\ c.req # Null => c.req <= c.at

\* A live execution holds the row or was overtaken; no two hold one fence.
Fences ==
    /\ \A w \in Worker : Live(w) =>
         \/ row.status = "running" /\ row.last = exec[w].at
         \/ row.last > exec[w].at
    /\ \A v, w \in Worker : v # w /\ Live(v) /\ Live(w) => exec[v].at # exec[w].at

\* One that has not tried to record an outcome was overtaken only after the lapse.
Overtaken ==
    \A w \in Worker : Executing(w) =>
        \/ row.status = "running" /\ row.last = exec[w].at
        \/ row.last > exec[w].at + LockTimeout

\* A due time claimed before stays in the row only under a lock, and if the lock is
\* no longer the claim's own, it passed on after the lapse.
Dues ==
    \A c \in claims : c.req = Null =>
        /\ c.due # Null /\ c.due <= c.at
        /\ row.next = c.due =>
             /\ row.status = "running"
             /\ c.at = row.last \/ row.last > c.at + LockTimeout

IInv ==
    /\ TypeOK /\ Dates /\ RowDates /\ Past /\ Fences /\ Overtaken /\ Dues
    /\ LeaseRespected /\ DueTimesApart /\ FencesUnique /\ ManualAtMostOnce
-----------------------------------------------------------------------------
(* The invariant is inductive.  A step that leaves the lock's columns alone *)
(* is treated once for all; the claim and the outcome are the other two.   *)

\* An outcome's parameters are right for the fence they belong to.
Dated(e) == e.fin > e.at /\ (e.next # Null => e.next >= e.fin)

\* What a step that leaves the lock alone may make of an execution: nothing, the end
\* of it, a beginning, or its next stage.
Moves(e, f) ==
    \/ f = e
    \/ f.pc = "idle"
    \/ f.pc = "claim" /\ f.at = now /\ (f.req # Null => f.req <= now)
    \/ /\ e.pc \in {"load", "run", "complete"}
       /\ f.pc \in {"run", "complete", "fail"}
       /\ f.at = e.at /\ f.req = e.req
       /\ f.pc \in {"complete", "fail"} => Dated(f)

\* The step leaves the lock alone: its columns, and the history of claims and outcomes.
Quiet ==
    /\ row'.status = row.status /\ row'.last = row.last /\ row'.next = row.next
    /\ claims' = claims /\ results' = results
    /\ now' >= now
    /\ \A m \in msgs' : m.req # Null => m.req <= now
    /\ \A w \in Worker : Moves(exec[w], exec'[w])

LEMMA QuietStep ==
    ASSUME IInv, TypeOK', Quiet
    PROVE  IInv'
<1> USE DEF Null
<1>1. now \in Nat /\ now' \in Nat /\ now' >= now
  BY TimesAssumption DEF IInv, TypeOK, Quiet
<1>2. \A w \in Worker : exec[w] \in Execution /\ exec'[w] \in Execution
  BY DEF IInv, TypeOK
<1>3. \A m \in msgs' : m.req \in Int
  BY DEF TypeOK, Message, Instant
<1>4. row.last \in Int /\ row.next \in Int /\ LockTimeout \in Nat
  BY TimesAssumption DEF IInv, TypeOK, Row, Instant
<1>5. ASSUME NEW w \in Worker, Live(w)'
      PROVE  Live(w) /\ exec'[w].at = exec[w].at
  BY <1>5 DEF Live, Quiet, Moves
<1>6. ASSUME NEW w \in Worker, Executing(w)'
      PROVE  Executing(w) /\ exec'[w].at = exec[w].at
  BY <1>6 DEF Executing, Quiet, Moves
<1>7. Dates'
  <2>1. \A m \in msgs' : m.req # Null => m.req <= now'
    BY <1>1, <1>3 DEF Quiet
  <2>2. ASSUME NEW w \in Worker, exec'[w].pc # "idle"
        PROVE  /\ exec'[w].at \in Nat /\ exec'[w].at <= now'
               /\ exec'[w].req # Null => exec'[w].req <= exec'[w].at
    BY <1>1, <1>2, <2>2 DEF Quiet, Moves, IInv, Dates, Execution, Instant
  <2>3. ASSUME NEW w \in Worker, exec'[w].pc \in {"complete", "fail"}
        PROVE  Dated(exec'[w])
    BY <2>3 DEF Quiet, Moves, IInv, Dates, Dated
  <2>4. QED BY <2>1, <2>2, <2>3 DEF Dates, Dated
<1>8. RowDates'
  BY <1>1, <1>4 DEF IInv, RowDates, Quiet
<1>9. Past' /\ Dues' /\ DueTimesApart' /\ FencesUnique' /\ ManualAtMostOnce'
  BY DEF IInv, Past, Dues, DueTimesApart, FencesUnique, ManualAtMostOnce, Quiet
<1>10. Fences'
  BY <1>5 DEF IInv, Fences, Quiet
<1>11. Overtaken'
  BY <1>6 DEF IInv, Overtaken, Quiet
<1>12. LeaseRespected'
  BY <1>6 DEF IInv, LeaseRespected, Quiet
<1>13. QED
  BY <1>7, <1>8, <1>9, <1>10, <1>11, <1>12 DEF IInv

\* The claim's new fence lies behind the lapse of the lock it breaks, and is not
\* behind the row's last outcome if there is no lock.
LEMMA ClaimAhead ==
    ASSUME IInv, NEW w \in Worker, Claim(w)
    PROVE  /\ exec[w].at \in Nat /\ exec[w].at <= now
           /\ row.status = "running" => exec[w].at > row.last + LockTimeout
           /\ row.status # "running" => exec[w].at >= row.last
<1> USE DEF Null
<1>1. exec[w].at \in Nat /\ exec[w].at <= now
  BY DEF Claim, IInv, Dates
<1>2. row.last \in Int /\ row.next \in Int /\ LockTimeout \in Nat /\ exec[w].req \in Int
  BY TimesAssumption DEF IInv, TypeOK, Row, Instant, Execution
<1>3. row.status = "running" => exec[w].at > row.last + LockTimeout
  BY <1>1, <1>2 DEF Claim, CanClaim, IInv, RowDates
<1>4. ASSUME row.status # "running" PROVE exec[w].at >= row.last
  <2>1. CASE exec[w].req = Null
    BY <1>1, <1>2, <1>4, <2>1 DEF Claim, CanClaim, Due, IInv, RowDates
  <2>2. CASE exec[w].req # Null
    BY <1>1, <1>2, <2>2 DEF Claim, CanClaim, IInv, Dates
  <2>3. QED BY <2>1, <2>2
<1>5. QED BY <1>1, <1>3, <1>4

LEMMA ClaimStep ==
    ASSUME IInv, TypeOK', NEW w \in Worker, Claim(w)
    PROVE  IInv'
<1> DEFINE at == exec[w].at
           new == [at |-> at, req |-> exec[w].req, msg |-> exec[w].msg,
                   due |-> IF exec[w].req = Null THEN row.next ELSE Null]
<1> USE DEF Null
<1>1. /\ at \in Nat /\ at <= now
      /\ row.status = "running" => at > row.last + LockTimeout
      /\ row.status # "running" => at >= row.last
  BY ClaimAhead
<1>2. /\ row'.status = "running" /\ row'.last = at /\ row'.next = row.next
      /\ claims' = claims \cup {new} /\ results' = results
      /\ now' = now /\ msgs' = msgs
  BY DEF Claim, IInv, TypeOK, Row
<1>3. /\ exec'[w].at = at /\ exec'[w].pc = "load" /\ exec'[w].req = exec[w].req
      /\ \A v \in Worker \ {w} : exec'[v] = exec[v]
  BY DEF Claim, IInv, TypeOK, Execution
<1>4. /\ row.last \in Int /\ row.next \in Int /\ LockTimeout \in Nat /\ now \in Nat
      /\ exec[w].req \in Int
      /\ \A v \in Worker : exec[v].at \in Int
      /\ \A c \in claims : c.at \in Int /\ c.req \in Int /\ c.due \in Int
  BY TimesAssumption DEF IInv, TypeOK, Row, Instant, Execution, Claims
<1>5. exec[w].req # Null => exec[w].req <= at
  BY DEF Claim, IInv, Dates
<1>6. \A v \in Worker : Live(v) => exec[v].at < at
  BY <1>1, <1>4 DEF IInv, Fences
<1>7. \A c \in claims : c.at < at
  BY <1>1, <1>4 DEF IInv, Past
<1>8. Dates'
  BY <1>2, <1>3, <1>5 DEF IInv, Dates, Claim
<1>9. RowDates'
  BY <1>1, <1>2 DEF RowDates
<1>10. Past'
  <2>1. \A f \in results' : f \in Nat /\ f < row'.last
    BY <1>1, <1>2, <1>4 DEF IInv, Past
  <2>2. \A c \in claims' : /\ c.at \in Nat /\ c.at <= row'.last
                           /\ c.at = row'.last => row'.status = "running"
                           /\ c.req # Null => c.req <= c.at
    BY <1>1, <1>2, <1>4, <1>5, <1>7 DEF IInv, Past
  <2>3. QED BY <2>1, <2>2 DEF Past
<1>11. Fences'
  BY <1>1, <1>2, <1>3, <1>4, <1>6 DEF IInv, Fences, Live
<1>12. \A v \in Worker : v # w /\ Executing(v) => at > exec[v].at + LockTimeout
  BY <1>1, <1>4 DEF IInv, Overtaken, Executing
<1>13. Overtaken'
  BY <1>2, <1>3, <1>12 DEF Overtaken, Executing
<1>14. LeaseRespected'
  BY <1>1, <1>3, <1>4, <1>12 DEF IInv, LeaseRespected, Executing
<1>15. exec[w].req = Null => row.next # Null /\ row.next <= at
  BY DEF Claim, CanClaim, Due
<1>16. \A c \in claims : c.req = Null /\ row.next = c.due => at > c.at + LockTimeout
  BY <1>1, <1>4 DEF IInv, Dues
<1>17. Dues'
  BY <1>1, <1>2, <1>4, <1>15, <1>16 DEF IInv, Dues
<1>18. DueTimesApart'
  BY <1>1, <1>2, <1>4, <1>7, <1>16 DEF IInv, DueTimesApart
<1>19. FencesUnique'
  BY <1>2, <1>4, <1>7 DEF IInv, FencesUnique
<1>20. ManualAtMostOnce'
  <2>1. \A c \in claims : c.req # Null => c.req # new.req
    BY <1>4 DEF IInv, Past, Claim, CanClaim
  <2>2. QED BY <1>2, <2>1 DEF IInv, ManualAtMostOnce
<1>21. QED
  BY <1>8, <1>9, <1>10, <1>11, <1>13, <1>14, <1>17, <1>18, <1>19, <1>20 DEF IInv

\* What the owner's outcome leaves: the lock released, with dates after its fence.
LEMMA OutcomeStep ==
    ASSUME IInv, TypeOK', NEW w \in Worker,
           exec[w].pc \in {"complete", "fail"}, Owns(exec[w]),
           row'.status # "running", row'.last = exec[w].fin, row'.next = exec[w].next,
           results' = results \cup {exec[w].at}, claims' = claims, now' = now,
           msgs' \subseteq msgs,
           \A v \in Worker \ {w} : exec'[v] = exec[v],
           exec'[w].pc = "idle" \/
             (exec'[w].pc = "fail" /\ exec'[w].at = exec[w].at
                /\ exec'[w].req = exec[w].req /\ Dated(exec'[w]))
    PROVE  IInv'
<1> USE DEF Null
<1>1. /\ row.status = "running" /\ row.last = exec[w].at
      /\ exec[w].at \in Nat /\ exec[w].at <= now
      /\ row'.last > exec[w].at
      /\ row'.next # Null => row'.next >= row'.last
  BY DEF Owns, IInv, Dates
<1>2. /\ row'.last \in Int /\ row'.next \in Int /\ LockTimeout \in Nat
      /\ \A v \in Worker : exec[v].at \in Int
      /\ \A c \in claims : c.at \in Int /\ c.req \in Int /\ c.due \in Int
  BY TimesAssumption DEF IInv, TypeOK, Row, Instant, Execution, Claims
<1>3. Dates'
  <2>1. \A m \in msgs' : m.req # Null => m.req <= now'
    BY DEF IInv, Dates
  <2>2. ASSUME NEW v \in Worker, exec'[v].pc # "idle"
        PROVE  /\ exec'[v].at \in Nat /\ exec'[v].at <= now'
               /\ exec'[v].req # Null => exec'[v].req <= exec'[v].at
    BY <2>2 DEF IInv, Dates
  <2>3. ASSUME NEW v \in Worker, exec'[v].pc \in {"complete", "fail"}
        PROVE  Dated(exec'[v])
    BY <2>3 DEF IInv, Dates, Dated
  <2>4. QED BY <2>1, <2>2, <2>3 DEF Dates, Dated
<1>4. RowDates'
  BY <1>1 DEF RowDates
<1>5. Past'
  <2>1. \A f \in results' : f \in Nat /\ f < row'.last
    BY <1>1, <1>2 DEF IInv, Past
  <2>2. \A c \in claims : c.at < row'.last
    BY <1>1, <1>2 DEF IInv, Past
  <2>3. QED BY <1>2, <2>1, <2>2 DEF IInv, Past
<1>6. Fences'
  BY <1>1, <1>2 DEF IInv, Fences, Live
<1>7. \A v \in Worker : v # w /\ Executing(v) => row'.last > exec[v].at + LockTimeout
  BY <1>1, <1>2 DEF IInv, Overtaken, Fences, Live, Executing
<1>8. Overtaken'
  BY <1>7 DEF Overtaken, Executing
<1>9. LeaseRespected'
  BY DEF IInv, LeaseRespected, Executing
<1>10. Dues'
  BY <1>1, <1>2 DEF IInv, Dues, Past
<1>11. DueTimesApart' /\ FencesUnique' /\ ManualAtMostOnce'
  BY DEF IInv, DueTimesApart, FencesUnique, ManualAtMostOnce
<1>12. QED
  BY <1>3, <1>4, <1>5, <1>6, <1>8, <1>9, <1>10, <1>11 DEF IInv
\* Recording an outcome, whether it wins, loses or never reaches the row, and then
\* ending the execution or going on to record a failure.
LEMMA RecordStep ==
    ASSUME IInv, TypeOK', NEW w \in Worker,
           \/ exec[w].pc = "complete" /\ Record(w, Completed(exec[w]))
           \/ exec[w].pc = "fail" /\ Record(w, Failed(exec[w]))
           \/ exec[w].pc \in {"complete", "fail"} /\ UNCHANGED <<row, results>>,
           \/ exec' = [exec EXCEPT ![w] = Idle]
           \/ exec[w].pc = "complete" /\ exec' = [exec EXCEPT ![w] = ToFail(exec[w])],
           msgs' \subseteq msgs, UNCHANGED <<now, claims>>
    PROVE  IInv'
<1> USE DEF Null
<1>1. /\ exec \in [Worker -> Execution] /\ exec[w] \in Execution /\ row \in Row
      /\ now \in Nat /\ exec[w].at \in Nat /\ exec[w].at <= now
      /\ Dated(exec[w])
  BY TimesAssumption DEF IInv, TypeOK, Dates, Dated
<1>2. /\ ToFail(exec[w]).pc = "fail" /\ ToFail(exec[w]).at = exec[w].at
      /\ ToFail(exec[w]).req = exec[w].req
      /\ ToFail(exec[w]).fin = FinishedAt(exec[w])
      /\ ToFail(exec[w]).next = NextRun(now)
  BY <1>1 DEF ToFail, Execution
<1>3. Dated(ToFail(exec[w]))
  BY <1>1, <1>2, NextRunLater DEF Dated, FinishedAt
<1>4. \A v \in Worker \ {w} : exec'[v] = exec[v]
  BY <1>1
<1>5. \/ exec'[w].pc = "idle"
      \/ /\ exec[w].pc = "complete" /\ exec'[w].pc = "fail"
         /\ exec'[w].at = exec[w].at /\ exec'[w].req = exec[w].req /\ Dated(exec'[w])
  <2>1. CASE exec' = [exec EXCEPT ![w] = Idle]
    BY <1>1, <2>1 DEF Idle
  <2>2. CASE exec[w].pc = "complete" /\ exec' = [exec EXCEPT ![w] = ToFail(exec[w])]
    <3>1. exec'[w] = ToFail(exec[w])
      BY <1>1, <2>2
    <3>2. QED BY <1>2, <1>3, <2>2, <3>1
  <2>3. QED BY <2>1, <2>2
<1>6. CASE UNCHANGED <<row, results>>
  <2>1. \A v \in Worker : Moves(exec[v], exec'[v])
    BY <1>4, <1>5 DEF Moves
  <2>2. Quiet
    BY <1>1, <1>6, <2>1 DEF Quiet, IInv, Dates
  <2>3. QED BY <2>2, QuietStep
<1>7. CASE ~UNCHANGED <<row, results>>
  <2>1. Owns(exec[w]) /\ results' = results \cup {exec[w].at}
    BY <1>7 DEF Record
  <2>2. /\ row'.status # "running"
        /\ row'.last = exec[w].fin /\ row'.next = exec[w].next
    BY <1>1, <1>7 DEF Record, Completed, Failed, Row
  <2>3. exec[w].pc \in {"complete", "fail"}
    OBVIOUS
  <2>4. QED BY <1>4, <1>5, <2>1, <2>2, <2>3, OutcomeStep
<1>8. QED BY <1>6, <1>7

\* A run handed over begins now, as a message or as an execution.
LEMMA SubmitMoves ==
    ASSUME IInv, NEW req \in Instant, req # Null => req <= now, Submit(req)
    PROVE  /\ \A m \in msgs' : m.req # Null => m.req <= now
           /\ \A w \in Worker : Moves(exec[w], exec'[w])
<1>1. CASE Queued
  BY <1>1 DEF Submit, IInv, Dates, Moves
<1>2. CASE ~Queued
  <2>1. PICK w \in Worker : exec' = [exec EXCEPT ![w] = Begin(req, Null, 0)]
    BY <1>2 DEF Submit
  <2>2. LET f == Begin(req, Null, 0) IN f.pc = "claim" /\ f.at = now /\ f.req = req
    BY DEF Begin, Idle
  <2>3. \A v \in Worker : exec'[v] = exec[v] \/ exec'[v] = Begin(req, Null, 0)
    BY <2>1 DEF IInv, TypeOK
  <2>4. \A v \in Worker : Moves(exec[v], exec'[v])
    BY <2>2, <2>3 DEF Moves
  <2>5. msgs' = msgs
    BY <1>2 DEF Submit
  <2>6. QED BY <2>4, <2>5 DEF IInv, Dates
<1>3. QED BY <1>1, <1>2

\* An execution that ends without an outcome leaves the lock as it is.
LEMMA EndStep ==
    ASSUME IInv, TypeOK', NEW w \in Worker, exec' = [exec EXCEPT ![w] = Idle],
           msgs' \subseteq msgs, UNCHANGED <<now, row, claims, results>>
    PROVE  IInv'
<1>1. now \in Nat /\ exec \in [Worker -> Execution]
  BY TimesAssumption DEF IInv, TypeOK
<1>2. \A v \in Worker : Moves(exec[v], exec'[v])
  BY <1>1 DEF Idle, Moves
<1>3. \A m \in msgs' : m.req # Null => m.req <= now
  BY DEF IInv, Dates
<1>4. QED BY <1>1, <1>2, <1>3, QuietStep DEF Quiet

\* The parameters the end of a handler chooses for the outcome.
LEMMA HandlerEnds ==
    ASSUME IInv, NEW w \in Worker, HandlerReturns(w) \/ HandlerThrows(w)
    PROVE  \A v \in Worker : Moves(exec[v], exec'[v])
<1> DEFINE done == [exec[w] EXCEPT !.pc = "complete", !.fin = FinishedAt(exec[w]),
                                   !.next = NextRun(now)]
<1>1. /\ exec \in [Worker -> Execution] /\ exec[w] \in Execution /\ now \in Nat
      /\ exec[w].at \in Nat /\ exec[w].at <= now /\ exec[w].pc = "run"
  BY TimesAssumption DEF HandlerReturns, HandlerThrows, IInv, TypeOK, Dates
<1>2. /\ ToFail(exec[w]).pc = "fail" /\ done.pc = "complete"
      /\ ToFail(exec[w]).at = exec[w].at /\ done.at = exec[w].at
      /\ ToFail(exec[w]).req = exec[w].req /\ done.req = exec[w].req
      /\ ToFail(exec[w]).fin = FinishedAt(exec[w]) /\ done.fin = FinishedAt(exec[w])
      /\ ToFail(exec[w]).next = NextRun(now) /\ done.next = NextRun(now)
  BY <1>1 DEF ToFail, Execution
<1>3. Dated(ToFail(exec[w])) /\ Dated(done)
  <2> HIDE DEF done
  <2> QED BY <1>1, <1>2, NextRunLater DEF Dated, FinishedAt
<1>4. exec' = [exec EXCEPT ![w] = ToFail(exec[w])] \/ exec' = [exec EXCEPT ![w] = done]
  BY DEF HandlerReturns, HandlerThrows
<1>5. QED
  <2> HIDE DEF done
  <2> QED BY <1>1, <1>2, <1>3, <1>4 DEF Moves

LEMMA IInvInit == Init => IInv
<1> SUFFICES ASSUME Init PROVE IInv
  OBVIOUS
<1>1. TypeOK
  BY TypeInit
<1>2. \A w \in Worker : exec[w].pc = "idle"
  BY DEF Init, Idle
<1>3. RowDates
  BY SlotsAssumption DEF Init, RowDates, Later, Null
<1>4. Dates
  BY <1>2 DEF Init, Dates
<1>5. QED
  BY <1>1, <1>2, <1>3, <1>4
     DEF Init, IInv, Past, Fences, Overtaken, Dues, LeaseRespected, DueTimesApart,
         FencesUnique, ManualAtMostOnce, Live, Executing

LEMMA IInvStep == IInv /\ [Next]_vars => IInv'
<1> SUFFICES ASSUME IInv, [Next]_vars PROVE IInv'
  OBVIOUS
<1>1. TypeOK'
  BY TypeStep DEF IInv
<1>2. /\ now \in Nat /\ Null \in Instant /\ now \in Instant
      /\ exec \in [Worker -> Execution]
  BY TimesAssumption DEF IInv, TypeOK, Instant
<1>3. \A m \in msgs : m.req # Null => m.req <= now
  BY DEF IInv, Dates
<1>4. CASE Advance
  BY <1>1, <1>2, <1>3, <1>4, QuietStep DEF Advance, Quiet, Moves
<1>5. CASE Tick
  <2>1. CASE Submit(Null)
    BY <1>1, <1>2, <1>5, <2>1, QuietStep, SubmitMoves DEF Tick, Quiet
  <2>2. CASE UNCHANGED <<msgs, exec>>
    BY <1>1, <1>2, <1>3, <1>5, <2>2, QuietStep DEF Tick, Quiet, Moves
  <2>3. QED BY <1>5, <2>1, <2>2 DEF Tick
<1>6. CASE RequestRun
  BY <1>1, <1>2, <1>6, QuietStep, SubmitMoves DEF RequestRun, Quiet
<1>7. CASE DeleteTask
  BY <1>1, <1>2, <1>3, <1>7, QuietStep DEF DeleteTask, Quiet, Moves, IInv, TypeOK, Row
<1>8. ASSUME NEW m \in msgs, Drop(m) PROVE IInv'
  BY <1>1, <1>2, <1>3, <1>8, QuietStep DEF Drop, Quiet, Moves
<1>9. ASSUME NEW w \in Worker, NEW m \in msgs, Deliver(w, m) PROVE IInv'
  <2>1. \A k \in msgs' : k.req # Null => k.req <= now
    <3>1. m \in Message
      BY DEF IInv, TypeOK
    <3>2. [m EXCEPT !.tries = @ + 1].req = m.req
      BY <3>1 DEF Message
    <3>3. QED BY <1>3, <1>9, <3>2 DEF Deliver
  <2>2. \A v \in Worker : Moves(exec[v], exec'[v])
    BY <1>2, <1>3, <1>9 DEF Deliver, Begin, Idle, Moves
  <2>3. QED BY <1>1, <1>2, <1>9, <2>1, <2>2, QuietStep DEF Deliver, Quiet
<1>10. ASSUME NEW w \in Worker, Run(w) PROVE IInv'
  <2>1. CASE Claim(w)
    BY <1>1, <2>1, ClaimStep
  <2>2. CASE Locked(w)
    BY <1>1, <2>2, EndStep DEF Locked, Ack
  <2>3. CASE Reload(w)
    <3>1. CASE row.exists
      <4>1. \A v \in Worker : Moves(exec[v], exec'[v])
        BY <1>2, <2>3, <3>1 DEF Reload, Moves, Execution
      <4>2. QED BY <1>1, <1>2, <1>3, <2>3, <3>1, <4>1, QuietStep DEF Reload, Quiet
    <3>2. CASE ~row.exists
      BY <1>1, <2>3, <3>2, EndStep DEF Reload, Ack
    <3>3. QED BY <3>1, <3>2
  <2>4. CASE HandlerReturns(w) \/ HandlerThrows(w)
    <3>1. \A v \in Worker : Moves(exec[v], exec'[v])
      BY <2>4, HandlerEnds
    <3>2. QED
      BY <1>1, <1>2, <1>3, <2>4, <3>1, QuietStep
         DEF HandlerReturns, HandlerThrows, Quiet
  <2>5. CASE Complete(w)
    BY <1>1, <2>5, RecordStep DEF Complete, Ack
  <2>6. CASE Fail(w)
    BY <1>1, <2>6, RecordStep DEF Fail, Ack
  <2>7. QED BY <1>10, <2>1, <2>2, <2>3, <2>4, <2>5, <2>6 DEF Run
<1>11. ASSUME NEW w \in Worker, Break(w) PROVE IInv'
  <2>1. CASE Crash(w)
    BY <1>1, <2>1, EndStep DEF Crash
  <2>2. CASE BookkeepingFault(w)
    BY <1>1, <2>2, EndStep DEF BookkeepingFault, Reject
  <2>3. CASE CompleteFault(w)
    BY <1>1, <2>3, RecordStep DEF CompleteFault
  <2>4. CASE FailFault(w)
    BY <1>1, <2>4, RecordStep DEF FailFault, Reject
  <2>5. QED BY <1>11, <2>1, <2>2, <2>3, <2>4 DEF Break
<1>12. CASE UNCHANGED vars
  BY <1>1, <1>2, <1>3, <1>12, QuietStep DEF vars, Quiet, Moves
<1>13. QED
  BY <1>4, <1>5, <1>6, <1>7, <1>8, <1>9, <1>10, <1>11, <1>12 DEF Next

\* The inductive invariant holds in every reachable state.
THEOREM Invariance == Spec => []IInv
BY IInvInit, IInvStep, PTL DEF Spec

-----------------------------------------------------------------------------
(* What follows from the invariant.                                        *)

\* Overlapping executions are a lock timeout apart, whatever crashed, was redelivered
\* or was asked for by hand.
THEOREM LeaseCorrect == Spec => []LeaseRespected
BY Invariance, PTL DEF IInv

\* A due time is claimed again only after a whole lock timeout.
THEOREM DueTimesCorrect == Spec => []DueTimesApart
BY Invariance, PTL DEF IInv

\* A fence names one execution.
THEOREM FencesCorrect == Spec => []FencesUnique
BY Invariance, PTL DEF IInv

\* A manual request starts at most one run.
THEOREM ManualCorrect == Spec => []ManualAtMostOnce
BY Invariance, PTL DEF IInv

\* The owner of the fence records its outcome.
Records(w) ==
    /\ exec[w].pc \in {"complete", "fail"} /\ Owns(exec[w])
    /\ row' = Completed(exec[w]) \/ row' = Failed(exec[w])
    /\ results' = results \cup {exec[w].at}

\* What any step does to the row and to the outcomes: nothing, or one of three things.
LEMMA StepKinds ==
    ASSUME [Next]_vars
    PROVE  \/ UNCHANGED <<row, results>>
           \/ row.exists /\ row' = [row EXCEPT !.exists = FALSE] /\ results' = results
           \/ \E w \in Worker : Claim(w)
           \/ \E w \in Worker : Records(w)
<1>1. CASE Advance \/ Tick \/ RequestRun \/ DeleteTask \/ UNCHANGED vars
  BY <1>1 DEF Advance, Tick, RequestRun, DeleteTask, vars
<1>2. CASE \E m \in msgs : Drop(m) \/ \E w \in Worker : Deliver(w, m)
  BY <1>2 DEF Drop, Deliver
<1>3. ASSUME NEW w \in Worker, Run(w)
      PROVE  UNCHANGED <<row, results>> \/ Claim(w) \/ Records(w)
  BY <1>3 DEF Run, Locked, Reload, HandlerReturns, HandlerThrows, Complete, Fail,
              Record, Records
<1>4. ASSUME NEW w \in Worker, Break(w)
      PROVE  UNCHANGED <<row, results>> \/ Records(w)
  BY <1>4 DEF Break, Crash, BookkeepingFault, CompleteFault, FailFault, Record, Records
<1>5. QED BY <1>1, <1>2, <1>3, <1>4 DEF Next

LEMMA OutcomesAscend ==
    ASSUME IInv, [Next]_vars
    PROVE  \A f \in results' \ results : \A g \in results : g < f
<1>1. ASSUME NEW w \in Worker, Records(w)
      PROVE  \A f \in results' \ results : \A g \in results : g < f
  BY <1>1 DEF Records, Owns, IInv, Past
<1>2. QED BY <1>1, StepKinds DEF Claim

\* An execution that was overtaken never overwrites what a later one recorded.
THEOREM OutcomesInOrder == Spec => ResultsInOrder
<1>1. IInv /\ [Next]_vars => [\A f \in results' \ results : \A g \in results : g < f]_vars
  BY OutcomesAscend
<1>2. QED BY <1>1, Invariance, PTL DEF Spec, ResultsInOrder

Counted == IsFiniteSet(results) /\ RunsCountResults

LEMMA CountedInit == Init => Counted
BY FS_EmptySet DEF Init, Counted, RunsCountResults

LEMMA CountedStep == ASSUME IInv, Counted, [Next]_vars PROVE Counted'
<1>1. row \in Row
  BY DEF IInv, TypeOK
<1>2. CASE row'.runs = row.runs /\ row'.fails = row.fails /\ results' = results
  BY <1>2 DEF Counted, RunsCountResults
<1>3. ASSUME NEW w \in Worker, Records(w) PROVE Counted'
  <2>1. exec[w].at \notin results
    BY <1>3 DEF Records, Owns, IInv, Past
  <2>2. IsFiniteSet(results') /\ Cardinality(results') = Cardinality(results) + 1
    BY <1>3, <2>1, FS_AddElement DEF Records, Counted
  <2>3. /\ row'.runs = row.runs + 1
        /\ row'.fails = row.fails \/ row'.fails = row.fails + 1
    BY <1>1, <1>3 DEF Records, Completed, Failed, Row
  <2>4. row.runs \in Nat /\ row.fails \in Nat
    BY <1>1 DEF Row
  <2>5. QED BY <2>2, <2>3, <2>4 DEF Counted, RunsCountResults
<1>4. QED BY <1>1, <1>2, <1>3, StepKinds DEF Claim, Row

\* run_count counts every recorded outcome, once.
THEOREM CountsCorrect == Spec => []RunsCountResults
<1>1. Counted => RunsCountResults
  BY DEF Counted
<1>2. QED BY <1>1, CountedInit, CountedStep, Invariance, PTL DEF Spec

-----------------------------------------------------------------------------
(* The scheduler implements the fenced lease.                              *)

LEMMA LeaseStep ==
    ASSUME IInv, [Next]_vars
    PROVE  Fence!Next \/ UNCHANGED <<Owner, results>>
<1> USE DEF Null
<1>1. row \in Row /\ row.last \in Int
  BY DEF IInv, TypeOK, Row, Instant
<1>2. CASE UNCHANGED <<row, results>>
  BY <1>2 DEF Owner
<1>3. CASE row.exists /\ row' = [row EXCEPT !.exists = FALSE] /\ results' = results
  BY <1>1, <1>3 DEF Owner, IInv, RowDates, Fence!Next, Fence!Revoke, Row
<1>4. ASSUME NEW w \in Worker, Claim(w) PROVE Fence!Acquire
  <2>1. /\ exec[w].at \in Nat
        /\ row.status = "running" => exec[w].at > row.last + LockTimeout
        /\ row.status # "running" => exec[w].at >= row.last
    BY <1>4, ClaimAhead
  <2>2. Owner' = exec[w].at /\ results' = results
    BY <1>1, <1>4 DEF Claim, CanClaim, Owner, Row
  <2>3. \A p \in results : p < exec[w].at
    BY <1>1, <2>1, TimesAssumption DEF IInv, Past
  <2>4. QED BY <1>1, <2>1, <2>2, <2>3 DEF Fence!Acquire, Owner
<1>5. ASSUME NEW w \in Worker, Records(w) PROVE Fence!Publish
  <2>1. Owner = exec[w].at /\ exec[w].at # Null
    BY <1>5 DEF Records, Owns, Owner, IInv, RowDates
  <2>2. Owner' = Null
    BY <1>1, <1>5 DEF Records, Completed, Failed, Owner, Row
  <2>3. QED BY <1>5, <2>1, <2>2 DEF Records, Fence!Publish
<1>6. QED BY <1>2, <1>3, <1>4, <1>5, StepKinds DEF Fence!Next

\* The claim and the fenced outcome UPDATEs promise what the abstract lease promises.
THEOREM Refinement == Spec => ImplementsFencedLease
<1>1. Init => Fence!Init
  BY DEF Init, Fence!Init, Owner
<1>2. IInv /\ [Next]_vars => [Fence!Next]_Fence!vars
  BY LeaseStep DEF Fence!vars
<1>3. QED BY <1>1, <1>2, Invariance, PTL DEF Spec, ImplementsFencedLease, Fence!Spec
=============================================================================
