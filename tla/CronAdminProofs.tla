--------------------------- MODULE CronAdminProofs ---------------------------
(***************************************************************************)
(* Theorems about CronAdmin, for every schedule, lock timeout, number of   *)
(* workers and bound: whatever the pause switch races with, an active row  *)
(* has a next run; and while no switch has put back a lock other than the  *)
(* row's, all that the scheduler promises by itself holds.                 *)
(***************************************************************************)
EXTENDS CronAdmin, CronSchedulerProofs

\* What the switch holds: nothing, or a row it read while the row was whole.
EditInv ==
    \/ edit = NoEdit
    \/ /\ edit.pending
       /\ edit.seen \in Row
       /\ edit.seen.active => edit.seen.next # Null

\* A completion is only ever recorded with a next run; only a failure may lack one.
OutcomeHasNext == \A w \in Worker : exec[w].pc = "complete" => exec[w].next # Null

AdminInv == TypeOK /\ EditInv /\ OutcomeHasNext /\ ActiveHasNext
-----------------------------------------------------------------------------
(* The scheduler's own steps.                                              *)

\* Recording an outcome leaves the row as it is, completes it with a next run, or
\* fails it, and a failure without a next run switches the row off.
LEMMA RecordHasNext ==
    ASSUME AdminInv, NEW w \in Worker, exec[w].pc \in {"complete", "fail"},
           \/ Record(w, IF exec[w].pc = "complete"
                        THEN Completed(exec[w]) ELSE Failed(exec[w]))
           \/ UNCHANGED <<row, results>>
    PROVE  ActiveHasNext'
<1>1. row \in Row
  BY DEF AdminInv, TypeOK
<1>2. CASE row' = row
  BY <1>2 DEF AdminInv, ActiveHasNext
<1>3. CASE exec[w].pc = "complete" /\ row' = Completed(exec[w])
  BY <1>1, <1>3 DEF AdminInv, OutcomeHasNext, ActiveHasNext, Completed, Row
<1>4. CASE exec[w].pc = "fail" /\ row' = Failed(exec[w])
  BY <1>1, <1>4 DEF ActiveHasNext, Failed, Row
<1>5. QED BY <1>2, <1>3, <1>4 DEF Record

\* A step that keeps the switch and the next run of the row, and whose executions
\* complete only with a next run.
LEMMA KeepsNext ==
    ASSUME AdminInv, row'.active = row.active, row'.next = row.next,
           \A w \in Worker : \/ exec'[w] = exec[w]
                             \/ exec'[w].pc # "complete"
                             \/ exec'[w].next # Null
    PROVE  OutcomeHasNext' /\ ActiveHasNext'
BY DEF AdminInv, OutcomeHasNext, ActiveHasNext

LEMMA SubmitNext ==
    ASSUME AdminInv, NEW req, Submit(req), NEW w \in Worker
    PROVE  exec'[w] = exec[w] \/ exec'[w].pc # "complete"
BY DEF Submit, Begin, Idle, AdminInv, TypeOK

\* An execution that ends is idle, and the others are as they were.
LEMMA EndNext ==
    ASSUME AdminInv, NEW v \in Worker, exec' = [exec EXCEPT ![v] = Idle],
           NEW w \in Worker
    PROVE  exec'[w] = exec[w] \/ exec'[w].pc # "complete"
BY DEF Idle, AdminInv, TypeOK

LEMMA ToFailNext ==
    ASSUME AdminInv, NEW v \in Worker, exec' = [exec EXCEPT ![v] = ToFail(exec[v])],
           NEW w \in Worker
    PROVE  exec'[w] = exec[w] \/ exec'[w].pc # "complete"
<1>1. exec[v] \in Execution
  BY DEF AdminInv, TypeOK
<1>2. ToFail(exec[v]).pc = "fail"
  BY <1>1 DEF ToFail, Execution
<1>3. QED BY <1>2 DEF AdminInv, TypeOK

LEMMA NextKeepsNext ==
    ASSUME AdminInv, [Next]_vars
    PROVE  OutcomeHasNext' /\ ActiveHasNext'
<1>1. CASE Advance \/ UNCHANGED vars
  BY <1>1, KeepsNext DEF Advance, vars
<1>2. CASE Tick
  <2>1. \A w \in Worker : exec'[w] = exec[w] \/ exec'[w].pc # "complete"
    BY <1>2, SubmitNext DEF Tick
  <2>2. QED BY <1>2, <2>1, KeepsNext DEF Tick
<1>3. CASE RequestRun
  <2>1. \A w \in Worker : exec'[w] = exec[w] \/ exec'[w].pc # "complete"
    BY <1>3, SubmitNext DEF RequestRun
  <2>2. QED BY <1>3, <2>1, KeepsNext DEF RequestRun
<1>4. CASE DeleteTask
  <2>1. row'.active = row.active /\ row'.next = row.next /\ exec' = exec
    BY <1>4 DEF DeleteTask, AdminInv, TypeOK, Row
  <2>2. QED BY <2>1, KeepsNext
<1>5. ASSUME NEW m \in msgs, Drop(m) PROVE OutcomeHasNext' /\ ActiveHasNext'
  BY <1>5, KeepsNext DEF Drop
<1>6. ASSUME NEW v \in Worker, NEW m \in msgs, Deliver(v, m)
      PROVE  OutcomeHasNext' /\ ActiveHasNext'
  <2>1. \A w \in Worker : exec'[w] = exec[w] \/ exec'[w].pc # "complete"
    BY <1>6 DEF Deliver, Begin, Idle, AdminInv, TypeOK
  <2>2. QED BY <1>6, <2>1, KeepsNext DEF Deliver
<1>7. ASSUME NEW v \in Worker, Run(v) PROVE OutcomeHasNext' /\ ActiveHasNext'
  <2>1. exec[v] \in Execution /\ exec \in [Worker -> Execution] /\ row \in Row
    BY DEF AdminInv, TypeOK
  <2>2. CASE Claim(v)
    <3>1. row'.active = row.active /\ row'.next = row.next
      BY <2>1, <2>2 DEF Claim, Row
    <3>2. \A w \in Worker : exec'[w] = exec[w] \/ exec'[w].pc # "complete"
      BY <2>1, <2>2 DEF Claim, Execution
    <3>3. QED BY <3>1, <3>2, KeepsNext
  <2>3. CASE Locked(v)
    BY <2>3, EndNext, KeepsNext DEF Locked, Ack
  <2>4. CASE Reload(v)
    <3>1. \A w \in Worker : exec'[w] = exec[w] \/ exec'[w].pc # "complete"
      BY <2>1, <2>4, EndNext DEF Reload, Ack, Execution
    <3>2. QED BY <2>4, <3>1, KeepsNext DEF Reload
  <2>5. CASE HandlerReturns(v)
    <3>1. CASE NextRun(now) = Null
      <4>1. exec' = [exec EXCEPT ![v] = ToFail(exec[v])] /\ row' = row
        BY <2>5, <3>1 DEF HandlerReturns
      <4>2. QED BY <4>1, ToFailNext, KeepsNext
    <3>2. CASE NextRun(now) # Null
      <4>1. \A w \in Worker : exec'[w] = exec[w] \/ exec'[w].next # Null
        BY <2>1, <2>5, <3>2 DEF HandlerReturns, Execution
      <4>2. QED BY <2>5, <4>1, KeepsNext DEF HandlerReturns
    <3>3. QED BY <3>1, <3>2
  <2>6. CASE HandlerThrows(v)
    BY <2>6, ToFailNext, KeepsNext DEF HandlerThrows
  <2>7. CASE Complete(v) \/ Fail(v)
    <3>1. ActiveHasNext'
      BY <2>7, RecordHasNext DEF Complete, Fail
    <3>2. \A w \in Worker : exec'[w] = exec[w] \/ exec'[w].pc # "complete"
      BY <2>7, EndNext DEF Complete, Fail, Ack
    <3>3. QED BY <3>1, <3>2 DEF AdminInv, OutcomeHasNext
  <2>8. QED
    BY <1>7, <2>2, <2>3, <2>4, <2>5, <2>6, <2>7 DEF Run
<1>8. ASSUME NEW v \in Worker, Break(v) PROVE OutcomeHasNext' /\ ActiveHasNext'
  <2>1. CASE Crash(v)
    BY <2>1, EndNext, KeepsNext DEF Crash
  <2>2. CASE BookkeepingFault(v)
    BY <2>2, EndNext, KeepsNext DEF BookkeepingFault, Reject
  <2>3. CASE CompleteFault(v)
    <3>1. ActiveHasNext'
      BY <2>3, RecordHasNext DEF CompleteFault
    <3>2. \A w \in Worker : exec'[w] = exec[w] \/ exec'[w].pc # "complete"
      BY <2>3, ToFailNext DEF CompleteFault
    <3>3. QED BY <3>1, <3>2 DEF AdminInv, OutcomeHasNext
  <2>4. CASE FailFault(v)
    <3>1. ActiveHasNext'
      BY <2>4, RecordHasNext DEF FailFault
    <3>2. \A w \in Worker : exec'[w] = exec[w] \/ exec'[w].pc # "complete"
      BY <2>4, EndNext DEF FailFault, Reject
    <3>3. QED BY <3>1, <3>2 DEF AdminInv, OutcomeHasNext
  <2>5. QED BY <1>8, <2>1, <2>2, <2>3, <2>4 DEF Break
<1>9. QED
  BY <1>1, <1>2, <1>3, <1>4, <1>5, <1>6, <1>7, <1>8 DEF Next
-----------------------------------------------------------------------------
(* The switch.                                                             *)

\* What a throw of the switch writes is a row, with a next run if it is on.
LEMMA ToggledNext ==
    ASSUME TypeOK, NEW seen \in Row, CanToggle(seen)
    PROVE  /\ Toggled(seen) \in Row
           /\ Toggled(seen).active => Toggled(seen).next # Null
<1>1. now \in Nat
  BY TimesAssumption DEF TypeOK
<1>2. NextRun(now) \in Instant
  BY <1>1, NextRunLater DEF Instant
<1>3. (IF seen.active THEN Null ELSE NextRun(now)) \in Instant
  BY <1>2 DEF Instant
<1>4. ASSUME NEW a \in BOOLEAN, NEW n \in Instant
      PROVE  [seen EXCEPT !.active = a, !.next = n] \in Row
  BY Zenon DEF Row
<1>5. Toggled(seen) \in Row
  <2>1. (~seen.active) \in BOOLEAN
    BY Zenon
  <2>2. QED BY <1>3, <1>4, <2>1, Zenon DEF Toggled
<1>6. /\ Toggled(seen).active = ~seen.active
      /\ Toggled(seen).next = IF seen.active THEN Null ELSE NextRun(now)
  BY DEF Toggled, Row
<1>7. QED BY <1>5, <1>6 DEF CanToggle

LEMMA AdminInvInit == AdminInit => AdminInv
<1> SUFFICES ASSUME AdminInit PROVE AdminInv
  OBVIOUS
<1>1. TypeOK
  BY TypeInit DEF AdminInit
<1>2. EditInv
  BY DEF AdminInit, EditInv
<1>3. OutcomeHasNext
  BY DEF AdminInit, Init, OutcomeHasNext, Idle
<1>4. ActiveHasNext
  BY SlotsAssumption DEF AdminInit, Init, ActiveHasNext, Later, Null
<1>5. QED BY <1>1, <1>2, <1>3, <1>4 DEF AdminInv

LEMMA AdminInvStep == AdminInv /\ [AdminNext]_adminVars => AdminInv'
<1> SUFFICES ASSUME AdminInv, [AdminNext]_adminVars PROVE AdminInv'
  OBVIOUS
<1>1. CASE [Next]_vars /\ UNCHANGED edit
  <2>1. TypeOK'
    BY <1>1, TypeStep DEF AdminInv
  <2>2. EditInv'
    BY <1>1 DEF AdminInv, EditInv
  <2>3. OutcomeHasNext' /\ ActiveHasNext'
    BY <1>1, NextKeepsNext
  <2>4. QED BY <2>1, <2>2, <2>3 DEF AdminInv
<1>2. CASE ReadForToggle
  <2>1. TypeOK' /\ OutcomeHasNext' /\ ActiveHasNext'
    BY <1>2 DEF ReadForToggle, vars, AdminInv, TypeOK, OutcomeHasNext, ActiveHasNext
  <2>2. EditInv'
    BY <1>2 DEF ReadForToggle, AdminInv, TypeOK, ActiveHasNext, EditInv
  <2>3. QED BY <2>1, <2>2 DEF AdminInv
<1>3. CASE SaveToggle
  <2>1. edit.pending /\ edit.seen \in Row
    BY <1>3 DEF SaveToggle, AdminInv, EditInv, NoEdit
  <2>2. row' \in Row /\ ActiveHasNext'
    <3>1. CASE row' = row
      BY <3>1 DEF AdminInv, TypeOK, ActiveHasNext
    <3>2. CASE CanToggle(edit.seen) /\ row' = Toggled(edit.seen)
      BY <2>1, <3>2, ToggledNext DEF AdminInv, ActiveHasNext
    <3>3. QED BY <1>3, <3>1, <3>2 DEF SaveToggle
  <2>3. TypeOK' /\ OutcomeHasNext'
    BY <1>3, <2>2 DEF SaveToggle, AdminInv, TypeOK, OutcomeHasNext
  <2>4. EditInv'
    BY <1>3 DEF SaveToggle, EditInv
  <2>5. QED BY <2>2, <2>3, <2>4 DEF AdminInv
<1>4. QED BY <1>1, <1>2, <1>3 DEF AdminNext, adminVars, vars

\* An active row has a next run, whatever whole rows the pause switch puts back over
\* executions that claimed, completed or failed since it read them.
THEOREM ActiveCorrect == AdminSpec => []ActiveCanBecomeDue
<1>1. AdminInv => ActiveCanBecomeDue
  BY DEF AdminInv, ActiveCanBecomeDue
<1>2. QED BY <1>1, AdminInvInit, AdminInvStep, PTL DEF AdminSpec
-----------------------------------------------------------------------------
(* The switch and the lock.  SafeUnlessUndone rests on the scheduler's own *)
(* invariant, which a change of next_run_at does not disturb: a resumed    *)
(* row is due later than anything the row or a claim is dated, and an      *)
(* outcome is dated one unit ahead of the clock at most (Recent).  What    *)
(* the switch holds tells whether the lock has moved on since (SeenBehind). *)

\* An outcome made in the unit of its fence is dated one unit later, none more than that.
Recent ==
    /\ row.last <= now + 1
    /\ \A w \in Worker : exec[w].pc \in {"complete", "fail"} => exec[w].fin <= now + 1

\* The row that was read has an earlier lock, or this one with the counts that go with it.
SeenBehind ==
    edit.pending =>
        \/ row.last > edit.seen.last
        \/ /\ row.last = edit.seen.last
           /\ row.status = "running" /\ edit.seen.status # "running"
        \/ /\ row.last = edit.seen.last /\ row.status = edit.seen.status
           /\ row.runs = edit.seen.runs /\ row.fails = edit.seen.fails

LockInv == undone \/ (IInv /\ Counted /\ Recent /\ SeenBehind)

\* Where the parameters of an outcome come from.
LEMMA OutcomeFrom ==
    ASSUME AdminInv, [Next]_vars, NEW w \in Worker, exec'[w].pc \in {"complete", "fail"}
    PROVE  \/ exec'[w] = exec[w]
           \/ exec[w].pc \in {"run", "complete"} /\ exec'[w].fin = FinishedAt(exec[w])
<1>1. exec \in [Worker -> Execution] /\ row \in Row
  BY DEF AdminInv, TypeOK
<1>2. CASE UNCHANGED exec
  BY <1>2
<1>3. ASSUME NEW req, Submit(req) PROVE exec'[w] = exec[w]
  BY <1>1, <1>3 DEF Submit, Begin, Idle
<1>4. ASSUME NEW v \in Worker, exec' = [exec EXCEPT ![v] = Idle] PROVE exec'[w] = exec[w]
  BY <1>1, <1>4 DEF Idle
<1>5. ASSUME NEW v \in Worker, exec[v].pc \in {"run", "complete"},
             exec' = [exec EXCEPT ![v] = ToFail(exec[v])]
      PROVE  \/ exec'[w] = exec[w]
             \/ exec[w].pc \in {"run", "complete"} /\ exec'[w].fin = FinishedAt(exec[w])
  BY <1>1, <1>5 DEF ToFail, Execution
<1>6. CASE Advance \/ Tick \/ RequestRun \/ DeleteTask \/ UNCHANGED vars
  BY <1>2, <1>3, <1>6 DEF Advance, Tick, RequestRun, DeleteTask, vars
<1>7. ASSUME NEW m \in msgs, Drop(m) PROVE exec' = exec
  BY <1>7 DEF Drop
<1>8. ASSUME NEW v \in Worker, NEW m \in msgs, Deliver(v, m) PROVE exec'[w] = exec[w]
  BY <1>1, <1>8 DEF Deliver, Begin, Idle
<1>9. ASSUME NEW v \in Worker, Run(v)
      PROVE  \/ exec'[w] = exec[w]
             \/ exec[w].pc \in {"run", "complete"} /\ exec'[w].fin = FinishedAt(exec[w])
  <2>1. CASE Claim(v)
    BY <1>1, <2>1 DEF Claim, Execution
  <2>2. CASE Locked(v) \/ Complete(v) \/ Fail(v)
    BY <1>4, <2>2 DEF Locked, Complete, Fail, Ack
  <2>3. CASE Reload(v)
    BY <1>1, <1>4, <2>3 DEF Reload, Ack, Execution
  <2>4. CASE HandlerThrows(v)
    BY <1>5, <2>4 DEF HandlerThrows
  <2>5. CASE HandlerReturns(v)
    <3>1. CASE NextRun(now) = Null
      BY <1>5, <2>5, <3>1 DEF HandlerReturns
    <3>2. CASE NextRun(now) # Null
      BY <1>1, <2>5, <3>2 DEF HandlerReturns, Execution
    <3>3. QED BY <3>1, <3>2
  <2>6. QED BY <1>9, <2>1, <2>2, <2>3, <2>4, <2>5 DEF Run
<1>10. ASSUME NEW v \in Worker, Break(v)
       PROVE  \/ exec'[w] = exec[w]
              \/ exec[w].pc \in {"run", "complete"} /\ exec'[w].fin = FinishedAt(exec[w])
  <2>1. CASE Crash(v) \/ BookkeepingFault(v) \/ FailFault(v)
    BY <1>4, <2>1 DEF Crash, BookkeepingFault, FailFault, Reject
  <2>2. CASE CompleteFault(v)
    BY <1>5, <2>2 DEF CompleteFault
  <2>3. QED BY <1>10, <2>1, <2>2 DEF Break
<1>11. QED BY <1>2, <1>6, <1>7, <1>8, <1>9, <1>10 DEF Next

LEMMA ClockStep == ASSUME AdminInv, [Next]_vars PROVE now \in Nat /\ now' \in Nat /\ now <= now'
<1>1. now \in Nat
  BY TimesAssumption DEF AdminInv, TypeOK
<1>2. now' = now \/ now' = now + 1
  BY DEF Next, Advance, Tick, RequestRun, DeleteTask, Drop, Deliver, Run, Claim, Locked,
         Reload, HandlerReturns, HandlerThrows, Complete, Fail, Break, Crash,
         BookkeepingFault, CompleteFault, FailFault, vars
<1>3. QED BY <1>1, <1>2

\* A claim or an outcome moves the lock on; no other step of the scheduler touches it.
LEMMA LockMoves ==
    ASSUME IInv, [Next]_vars
    PROVE  \/ /\ row'.last = row.last /\ row'.status = row.status
              /\ row'.runs = row.runs /\ row'.fails = row.fails
           \/ row'.last > row.last
           \/ row'.last = row.last /\ row.status # "running" /\ row'.status = "running"
<1> USE DEF Null
<1>1. row \in Row /\ row.last \in Int /\ LockTimeout \in Nat
  BY TimesAssumption DEF IInv, TypeOK, Row, Instant
<1>2. CASE row' = row \/ row' = [row EXCEPT !.exists = FALSE]
  BY <1>1, <1>2 DEF Row
<1>3. ASSUME NEW w \in Worker, Claim(w)
      PROVE  \/ row'.last > row.last
             \/ row'.last = row.last /\ row.status # "running" /\ row'.status = "running"
  <2>1. row'.last = exec[w].at /\ row'.status = "running"
    BY <1>1, <1>3 DEF Claim, Row
  <2>2. QED BY <1>1, <1>3, <2>1, ClaimAhead
<1>4. ASSUME NEW w \in Worker, Records(w) PROVE row'.last > row.last
  <2>1. row'.last = exec[w].fin
    BY <1>1, <1>4 DEF Records, Completed, Failed, Row
  <2>2. QED BY <1>4, <2>1 DEF Records, Owns, IInv, Dates
<1>5. QED BY <1>2, <1>3, <1>4, StepKinds

LEMMA RecentStep == ASSUME AdminInv, IInv, Recent, [Next]_vars PROVE Recent'
<1> USE DEF Null
<1>1. now \in Nat /\ now' \in Nat /\ now <= now'
  BY ClockStep
<1>2. /\ row \in Row /\ row.last \in Int
      /\ \A w \in Worker : exec[w].at \in Int /\ exec[w].fin \in Int
  BY DEF IInv, TypeOK, Row, Instant, Execution
<1>3. row'.last <= now + 1
  <2>1. CASE row' = row \/ row' = [row EXCEPT !.exists = FALSE]
    BY <1>2, <2>1 DEF Recent, Row
  <2>2. ASSUME NEW w \in Worker, Claim(w) PROVE row'.last <= now + 1
    <3>1. row'.last = exec[w].at
      BY <1>2, <2>2 DEF Claim, Row
    <3>2. QED BY <1>1, <1>2, <2>2, <3>1, ClaimAhead
  <2>3. ASSUME NEW w \in Worker, Records(w) PROVE row'.last <= now + 1
    <3>1. row'.last = exec[w].fin
      BY <1>2, <2>3 DEF Records, Completed, Failed, Row
    <3>2. QED BY <2>3, <3>1 DEF Records, Recent
  <2>4. QED BY <2>1, <2>2, <2>3, StepKinds
<1>4. ASSUME NEW w \in Worker, exec'[w].pc \in {"complete", "fail"}
      PROVE  exec'[w].fin <= now + 1
  <2>1. CASE exec'[w] = exec[w]
    BY <1>4, <2>1 DEF Recent
  <2>2. CASE exec[w].pc \in {"run", "complete"} /\ exec'[w].fin = FinishedAt(exec[w])
    BY <1>1, <1>2, <2>2 DEF FinishedAt, IInv, Dates
  <2>3. QED BY <1>4, <2>1, <2>2, OutcomeFrom
<1>5. /\ row'.last \in Int
      /\ \A w \in Worker : exec'[w].fin \in Int
  BY TypeStep DEF IInv, TypeOK, Row, Instant, Execution
<1>6. QED BY <1>1, <1>3, <1>4, <1>5 DEF Recent

LEMMA SeenStep ==
    ASSUME AdminInv, IInv, SeenBehind, [Next]_vars, edit' = edit PROVE SeenBehind'
<1> USE DEF Null
<1>1. row.last \in Int /\ row'.last \in Int
  BY TypeStep DEF IInv, TypeOK, Row, Instant
<1>2. edit.pending => edit.seen.last \in Int
  BY DEF AdminInv, EditInv, NoEdit, Row, Instant
<1>3. QED BY <1>1, <1>2, LockMoves DEF SeenBehind

\* A write that keeps the lock keeps the scheduler's invariant, and the counts.
LEMMA SaveKeeps ==
    ASSUME AdminInv, TypeOK', SaveToggle, IInv, Counted, Recent, SeenBehind,
           row'.status = row.status, row'.last = row.last
    PROVE  IInv' /\ Counted' /\ Recent'
<1> USE DEF Null
<1>1. /\ now' = now /\ msgs' = msgs /\ exec' = exec /\ claims' = claims
      /\ results' = results
  BY DEF SaveToggle
<1>2. /\ now \in Nat /\ row.last \in Int
      /\ \A c \in claims : c.at \in Int /\ c.due \in Int
  BY TimesAssumption DEF IInv, TypeOK, Row, Instant, Claims
<1>3. /\ \/ row'.next = row.next
         \/ row'.next = Null
         \/ row'.next \in Nat /\ row'.next > now
      /\ row'.runs = row.runs /\ row'.fails = row.fails
  <2>1. CASE row' = row
    BY <2>1
  <2>2. CASE row' = Toggled(edit.seen)
    <3>1. edit.pending /\ edit.seen \in Row
      BY DEF SaveToggle, AdminInv, EditInv, NoEdit
    <3>2. /\ row'.next = IF edit.seen.active THEN Null ELSE NextRun(now)
          /\ row'.last = edit.seen.last /\ row'.status = edit.seen.status
          /\ row'.runs = edit.seen.runs /\ row'.fails = edit.seen.fails
      BY <2>2, <3>1 DEF Toggled, Row
    <3>3. edit.seen.runs = row.runs /\ edit.seen.fails = row.fails
      BY <1>2, <3>1, <3>2 DEF SeenBehind
    <3>4. QED BY <1>2, <3>2, <3>3, NextRunLater
  <2>3. QED BY <2>1, <2>2 DEF SaveToggle
<1>4. RowDates'
  BY <1>1, <1>2, <1>3 DEF IInv, RowDates, Recent
<1>5. Dues'
  <2>1. ASSUME NEW c \in claims, c.req = Null, row'.next = c.due
        PROVE  row.next = c.due
    <3>1. c.due # Null /\ c.due <= c.at /\ c.at <= now
      BY <1>2, <2>1 DEF IInv, Dues, Past, RowDates, Recent
    <3>2. QED BY <1>2, <1>3, <2>1, <3>1
  <2>2. QED BY <1>1, <2>1 DEF IInv, Dues
<1>6. Dates' /\ Past' /\ Fences' /\ Overtaken'
  BY <1>1 DEF IInv, Dates, Past, Fences, Overtaken, Live, Executing
<1>7. LeaseRespected' /\ DueTimesApart' /\ FencesUnique' /\ ManualAtMostOnce'
  BY <1>1 DEF IInv, LeaseRespected, DueTimesApart, FencesUnique, ManualAtMostOnce, Executing
<1>8. Counted' /\ Recent'
  BY <1>1, <1>3 DEF Counted, RunsCountResults, Recent
<1>9. QED BY <1>4, <1>5, <1>6, <1>7, <1>8 DEF IInv

LEMMA LockInvInit == AdminInit => LockInv
<1> SUFFICES ASSUME AdminInit PROVE LockInv
  OBVIOUS
<1>1. IInv /\ Counted
  BY IInvInit, CountedInit DEF AdminInit
<1>2. Recent
  BY DEF AdminInit, Init, Recent, Idle, Null
<1>3. SeenBehind
  BY DEF AdminInit, NoEdit, SeenBehind
<1>4. QED BY <1>1, <1>2, <1>3 DEF LockInv

LEMMA LockInvStep == ASSUME AdminInv, LockInv, [AdminNext]_adminVars PROVE LockInv'
<1>1. CASE undone /\ undone' = undone
  BY <1>1 DEF LockInv
<1>2. CASE ~undone /\ [Next]_vars /\ UNCHANGED edit
  BY <1>2, IInvStep, CountedStep, RecentStep, SeenStep DEF LockInv
<1>3. CASE ~undone /\ ReadForToggle
  <2>1. UNCHANGED vars
    BY <1>3 DEF ReadForToggle
  <2>2. IInv' /\ Counted' /\ Recent'
    BY <1>3, <2>1, IInvStep, CountedStep, RecentStep DEF LockInv
  <2>3. SeenBehind'
    BY <1>3, <2>1 DEF ReadForToggle, SeenBehind, vars
  <2>4. QED BY <2>2, <2>3 DEF LockInv
<1>4. CASE SaveToggle
  <2>1. CASE undone'
    BY <2>1 DEF LockInv
  <2>2. CASE ~undone'
    <3>1. ~undone /\ row'.status = row.status /\ row'.last = row.last
      BY <1>4, <2>2 DEF SaveToggle
    <3>2. TypeOK'
      BY AdminInvStep DEF AdminInv
    <3>3. SeenBehind'
      BY <1>4 DEF SaveToggle, SeenBehind, NoEdit
    <3>4. QED BY <1>4, <3>1, <3>2, <3>3, SaveKeeps DEF LockInv
  <2>3. QED BY <2>1, <2>2
<1>5. QED
  BY <1>1, <1>2, <1>3, <1>4 DEF AdminNext, ReadForToggle, SaveToggle, adminVars, vars

\* A change of the schedule in the middle of a run costs the lock nothing; only a write that
\* puts an older lock back does.
THEOREM SwitchCorrect == AdminSpec => []SafeUnlessUndone
<1>1. LockInv => SafeUnlessUndone
  BY DEF LockInv, SafeUnlessUndone, IInv, Counted
<1>2. QED
  BY <1>1, AdminInvInit, AdminInvStep, LockInvInit, LockInvStep, PTL DEF AdminSpec
=============================================================================
