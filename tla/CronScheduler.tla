---------------------------- MODULE CronScheduler ----------------------------
(***************************************************************************)
(* The DB-driven scheduler of packages/cron for ONE scheduled_tasks row:   *)
(* the minute trigger selects the row when it is due and hands the run to  *)
(* the queue (or runs it inline), an admin asks for a manual run, the      *)
(* queue delivers at least once, and every execution goes through the same *)
(* steps, one per await: claim the row with one UPDATE that writes the     *)
(* start time as a fence, reload it, run the handler, record the outcome   *)
(* with an UPDATE that only the owner of the fence can make.               *)
(*                                                                         *)
(* An execution may take arbitrarily long, crash between any two awaits,   *)
(* or see a database call fail before or after it took effect.  Two tasks  *)
(* share no row, so one row is the whole story.                            *)
(***************************************************************************)
EXTENDS Integers, FiniteSets

CONSTANTS Worker,       \* invocations that may execute a run at the same time
          Slots,        \* the instants the row's cron expression matches
          Minute,       \* clock units between two firings of the trigger
          LockTimeout,  \* lockTimeoutMs of createTaskRepository
          MaxAttempts,  \* deliveries of one message before it is given up
          Queued,       \* whether OBCF_QUEUE is bound
          MaxTime,      \* bound: the clock stops here
          MaxManual,    \* bound: manual runs an admin asks for
          MaxFaults     \* bound: crashes and failed database or queue calls

ASSUME SlotsAssumption == Slots \subseteq Nat \ {0}
ASSUME TimesAssumption ==
    Minute \in Nat \ {0} /\ LockTimeout \in Nat /\ MaxTime \in Nat
ASSUME BoundsAssumption ==
    MaxAttempts \in Nat \ {0} /\ MaxManual \in Nat /\ MaxFaults \in Nat
ASSUME QueuedAssumption == Queued \in BOOLEAN

Null == -1   \* SQL NULL for an instant, and "no message" for an execution

VARIABLES
    now,      \* Date.now(), one clock for every isolate
    fired,    \* when the minute trigger last fired
    row,      \* the scheduled_tasks row
    msgs,     \* cron:run messages the queue still holds
    exec,     \* what each invocation is doing
    sent,     \* messages sent so far: the next message's identity
    asked,    \* manual runs asked for so far
    faults,   \* faults so far
    claims,   \* history: every execution that won the claim
    results   \* history: fences whose outcome was written to the row

vars == <<now, fired, row, msgs, exec, sent, asked, faults, claims, results>>

Instant == Nat \cup {Null}
Status == {"none", "running", "success", "failed"}
Pc == {"idle", "claim", "load", "run", "complete", "fail"}

Row == [exists : BOOLEAN, active : BOOLEAN, corrupt : BOOLEAN,
        next : Instant, status : Status, last : Instant,
        runs : Nat, fails : Nat]
Message == [id : Nat, req : Instant, tries : 0 .. MaxAttempts]
\* fin and next: the parameters of the outcome UPDATE an execution is about to make.
Execution == [pc : Pc, at : Instant, req : Instant, msg : Instant,
              tries : 0 .. MaxAttempts, fin : Instant, next : Instant]
\* req = Null: a scheduled run, and then due is the next_run_at it was claimed for.
Claims == [at : Instant, req : Instant, msg : Instant, due : Instant]

TypeOK ==
    /\ now \in 0 .. MaxTime
    /\ fired \in Instant
    /\ row \in Row
    /\ msgs \in SUBSET Message
    /\ exec \in [Worker -> Execution]
    /\ sent \in Nat /\ asked \in 0 .. MaxManual /\ faults \in 0 .. MaxFaults
    /\ claims \in SUBSET Claims
    /\ results \in SUBSET Instant

Idle == [pc |-> "idle", at |-> Null, req |-> Null, msg |-> Null,
         tries |-> 0, fin |-> Null, next |-> Null]

-----------------------------------------------------------------------------
(* getNextRun: the first instant after t the expression matches; it throws *)
(* when the stored expression does not parse or never matches again.       *)

Later(t) == {s \in Slots : s > t}
HasNext(t) == \E s \in Later(t) : \A u \in Later(t) : s <= u
NextRun(t) == IF ~row.corrupt /\ HasNext(t)
              THEN CHOOSE s \in Later(t) : \A u \in Later(t) : s <= u
              ELSE Null

\* A row exists from the moment it was created, with a valid expression; `corrupt`
\* stands for an expression damaged in the table afterwards, which the code expects.
Init ==
    /\ now = 0 /\ fired = Null
    /\ \E active, corrupt \in BOOLEAN, first \in Later(0) :
         /\ \A s \in Later(0) : first <= s
         /\ row = [exists |-> TRUE, active |-> active, corrupt |-> corrupt,
                   next |-> IF active THEN first ELSE Null,
                   status |-> "none", last |-> Null, runs |-> 0, fails |-> 0]
    /\ msgs = {} /\ exec = [w \in Worker |-> Idle]
    /\ sent = 0 /\ asked = 0 /\ faults = 0
    /\ claims = {} /\ results = {}

-----------------------------------------------------------------------------
(* The statements of the ScheduledTask model.                              *)

Due(t) == row.exists /\ row.active /\ row.next # Null /\ row.next <= t

\* Mutants of CanClaim: the lapse one unit early; no lapse; no lock; no request time.
CanClaimEarly(at, req) ==
    /\ row.exists
    /\ row.status # "running" \/ row.last = Null \/ row.last <= at - LockTimeout
    /\ IF req = Null THEN Due(at) ELSE row.last = Null \/ row.last < req
CanClaimNeverLapses(at, req) ==
    /\ row.exists /\ row.status # "running"
    /\ IF req = Null THEN Due(at) ELSE row.last = Null \/ row.last < req
CanClaimUnlocked(at, req) ==
    /\ row.exists
    /\ IF req = Null THEN Due(at) ELSE row.last = Null \/ row.last < req
CanClaimAnyRequest(at, req) ==
    /\ row.exists
    /\ row.status # "running" \/ row.last = Null \/ row.last < at - LockTimeout
    /\ req = Null => Due(at)

\* acquireExecutionLock's WHERE clause.
CanClaim(at, req) ==
    /\ row.exists
    /\ row.status # "running" \/ row.last = Null \/ row.last < at - LockTimeout
    /\ IF req = Null THEN Due(at) ELSE row.last = Null \/ row.last < req

\* Mutants of Owns: the fence left out; the status left out as well.
OwnsAnyRun(e) == row.exists /\ row.status = "running"
OwnsAlways(e) == row.exists

\* The WHERE clause completeExecution and failExecution share.
Owns(e) == row.exists /\ row.status = "running" /\ row.last = e.at

\* Mutant of Completed: next_run_at is not moved on.
CompletedStillDue(e) == [row EXCEPT !.status = "success", !.last = e.fin, !.runs = @ + 1]

Completed(e) == [row EXCEPT !.status = "success", !.last = e.fin,
                            !.next = e.next, !.runs = @ + 1]

\* Mutant of Failed: a row without a next run stays active.
FailedStaysActive(e) == [row EXCEPT !.status = "failed", !.last = e.fin,
                                    !.next = e.next, !.runs = @ + 1, !.fails = @ + 1]

Failed(e) == [row EXCEPT !.status = "failed", !.last = e.fin,
                         !.next = e.next, !.runs = @ + 1, !.fails = @ + 1,
                         !.active = IF e.next = Null THEN FALSE ELSE @]

\* finishedAt, always after the fence it replaces.
FinishedAt(e) == IF now > e.at THEN now ELSE e.at + 1

-----------------------------------------------------------------------------
(* The clock, and what the platform may do at any time.                    *)

Fault == faults < MaxFaults /\ faults' = faults + 1

Advance ==
    /\ now < MaxTime
    /\ now' = now + 1
    /\ UNCHANGED <<fired, row, msgs, exec, sent, asked, faults, claims, results>>

\* The invocation dies; its message, if it has one, is redelivered.
Crash(w) ==
    /\ exec[w].pc # "idle"
    /\ Fault
    /\ exec' = [exec EXCEPT ![w] = Idle]
    /\ UNCHANGED <<now, fired, row, msgs, sent, asked, claims, results>>

\* Mutant of Exhausted: one delivery too many.
ExhaustedLate(m) == m.tries > MaxAttempts

Exhausted(m) == m.tries >= MaxAttempts

\* The queue gives up a message whose deliveries are used up and over.
Drop(m) ==
    /\ Exhausted(m)
    /\ \A w \in Worker : exec[w].msg # m.id
    /\ msgs' = msgs \ {m}
    /\ UNCHANGED <<now, fired, row, exec, sent, asked, faults, claims, results>>

-----------------------------------------------------------------------------
(* Scheduler.tick and Scheduler.runTask: where runs come from.             *)

Begin(req, id, tries) == [Idle EXCEPT !.pc = "claim", !.at = now, !.req = req,
                                      !.msg = id, !.tries = tries]

\* Hand one run over: a message when there is a queue, else an execution here.  The awaits
\* before the claim are no steps of their own: the claim asks the row anew.
Submit(req) ==
    \/ /\ Queued
       /\ msgs' = msgs \cup {[id |-> sent, req |-> req, tries |-> 0]}
       /\ sent' = sent + 1
       /\ UNCHANGED exec
    \/ /\ ~Queued
       /\ \E w \in Worker :
            /\ exec[w].pc = "idle"
            /\ exec' = [exec EXCEPT ![w] = Begin(req, Null, 0)]
       /\ UNCHANGED <<msgs, sent>>

\* Cloudflare calls handleAppScheduled at the start of every minute; what a late call
\* would do, a late delivery of its message does.
Trigger == now % Minute = 0 /\ fired # now /\ fired' = now

Tick ==
    /\ Trigger
    /\ \/ Due(now) /\ Submit(Null) /\ UNCHANGED faults
       \/ ~Due(now) /\ UNCHANGED <<msgs, exec, sent, faults>>
       \* getDueTasks or enqueue rejects: the tick rejects, the row stays due
       \/ Fault /\ UNCHANGED <<msgs, exec, sent>>
    /\ UNCHANGED <<now, row, asked, claims, results>>

RequestRun ==
    /\ asked < MaxManual /\ row.exists
    /\ asked' = asked + 1
    /\ Submit(now)
    /\ UNCHANGED <<now, fired, row, faults, claims, results>>

DeleteTask ==
    /\ row.exists
    /\ row' = [row EXCEPT !.exists = FALSE]
    /\ UNCHANGED <<now, fired, msgs, exec, sent, asked, faults, claims, results>>

-----------------------------------------------------------------------------
(* One execution: the queue processor around Scheduler.executeTask.        *)

\* At-least-once delivery: the message stays in the queue, so it can be delivered
\* again, even while this delivery is being processed.
Deliver(w, m) ==
    /\ exec[w].pc = "idle" /\ ~Exhausted(m)
    /\ msgs' = (msgs \ {m}) \cup {[m EXCEPT !.tries = @ + 1]}
    /\ exec' = [exec EXCEPT ![w] = Begin(m.req, m.id, m.tries + 1)]
    /\ UNCHANGED <<now, fired, row, sent, asked, faults, claims, results>>

\* executeTask resolved, whatever its status: the processor acks.
Ack(w) ==
    /\ exec' = [exec EXCEPT ![w] = Idle]
    /\ msgs' = {m \in msgs : m.id # exec[w].msg}

\* executeTask rejected: the processor retries, or acks the last attempt.
Reject(w) ==
    /\ Fault
    /\ exec' = [exec EXCEPT ![w] = Idle]
    /\ msgs' = IF exec[w].tries >= MaxAttempts
               THEN {m \in msgs : m.id # exec[w].msg} ELSE msgs

Claim(w) ==
    LET e == exec[w] IN
    /\ e.pc = "claim" /\ CanClaim(e.at, e.req)
    /\ row' = [row EXCEPT !.status = "running", !.last = e.at]
    /\ claims' = claims \cup {[at |-> e.at, req |-> e.req, msg |-> e.msg,
                               due |-> IF e.req = Null THEN row.next ELSE Null]}
    /\ exec' = [exec EXCEPT ![w].pc = "load"]
    /\ UNCHANGED <<now, fired, msgs, sent, asked, faults, results>>

Locked(w) ==
    /\ exec[w].pc = "claim" /\ ~CanClaim(exec[w].at, exec[w].req)
    /\ Ack(w)
    /\ UNCHANGED <<now, fired, row, sent, asked, faults, claims, results>>

Reload(w) ==
    /\ exec[w].pc = "load"
    /\ \/ row.exists /\ exec' = [exec EXCEPT ![w].pc = "run"] /\ UNCHANGED msgs
       \/ ~row.exists /\ Ack(w)
    /\ UNCHANGED <<now, fired, row, sent, asked, faults, claims, results>>

\* The claim or the reload rejects.
BookkeepingFault(w) ==
    /\ exec[w].pc \in {"claim", "load"}
    /\ Reject(w)
    /\ UNCHANGED <<now, fired, row, sent, asked, claims, results>>

\* The catch block: a failure is to be recorded, with the next run if there is one.
ToFail(e) == [e EXCEPT !.pc = "fail", !.fin = FinishedAt(e), !.next = NextRun(now)]

\* The handler returned; getNextRun runs before the completion and may throw.
HandlerReturns(w) ==
    LET e == exec[w] IN
    /\ e.pc = "run"
    /\ exec' = [exec EXCEPT ![w] =
                  IF NextRun(now) = Null THEN ToFail(e)
                  ELSE [e EXCEPT !.pc = "complete", !.fin = FinishedAt(e),
                                 !.next = NextRun(now)]]
    /\ UNCHANGED <<now, fired, row, msgs, sent, asked, faults, claims, results>>

\* No handler, a bad payload, a hook or the handler itself threw.
HandlerThrows(w) ==
    /\ exec[w].pc = "run"
    /\ exec' = [exec EXCEPT ![w] = ToFail(exec[w])]
    /\ UNCHANGED <<now, fired, row, msgs, sent, asked, faults, claims, results>>

\* An outcome UPDATE: the owner's takes effect, anybody else's changes no row.
Record(w, outcome) ==
    \/ /\ Owns(exec[w])
       /\ row' = outcome
       /\ results' = results \cup {exec[w].at}
    \/ ~Owns(exec[w]) /\ UNCHANGED <<row, results>>

Complete(w) ==
    /\ exec[w].pc = "complete"
    /\ Record(w, Completed(exec[w]))
    /\ Ack(w)
    /\ UNCHANGED <<now, fired, sent, asked, faults, claims>>

\* markCompleted rejects, before or after the row was written: the catch block
\* then records a failure.
CompleteFault(w) ==
    /\ exec[w].pc = "complete"
    /\ Fault
    /\ Record(w, Completed(exec[w])) \/ UNCHANGED <<row, results>>
    /\ exec' = [exec EXCEPT ![w] = ToFail(exec[w])]
    /\ UNCHANGED <<now, fired, msgs, sent, asked, claims>>

Fail(w) ==
    /\ exec[w].pc = "fail"
    /\ Record(w, Failed(exec[w]))
    /\ Ack(w)
    /\ UNCHANGED <<now, fired, sent, asked, faults, claims>>

\* markFailed rejects, before or after the row was written.
FailFault(w) ==
    /\ exec[w].pc = "fail"
    /\ Record(w, Failed(exec[w])) \/ UNCHANGED <<row, results>>
    /\ Reject(w)
    /\ UNCHANGED <<now, fired, sent, asked, claims>>

-----------------------------------------------------------------------------
Run(w) ==
    \/ Claim(w) \/ Locked(w) \/ Reload(w)
    \/ HandlerReturns(w) \/ HandlerThrows(w)
    \/ Complete(w) \/ Fail(w)

Break(w) ==
    Crash(w) \/ BookkeepingFault(w) \/ CompleteFault(w) \/ FailFault(w)

Next ==
    \/ Advance \/ Tick \/ RequestRun \/ DeleteTask
    \/ \E m \in msgs : Drop(m)
    \/ \E w \in Worker, m \in msgs : Deliver(w, m)
    \/ \E w \in Worker : Run(w)
    \/ \E w \in Worker : Break(w)

Spec == Init /\ [][Next]_vars

-----------------------------------------------------------------------------
(* Safety.                                                                 *)

Executing(w) == exec[w].pc \in {"load", "run", "complete"}

\* Two executions of the task overlap only when the lock of the earlier one had
\* lapsed: their fences are more than a lock timeout apart.  The claim of
\* acquireExecutionLock under crashes, redeliveries and manual runs.
LeaseRespected ==
    \A v, w \in Worker :
        (v # w /\ Executing(v) /\ Executing(w) /\ exec[v].at <= exec[w].at)
            => exec[w].at > exec[v].at + LockTimeout

\* One due time is claimed a second time only after a whole lock timeout, however
\* many messages were sent for it and however often each was delivered.
DueTimesApart ==
    \A c, d \in claims :
        (c # d /\ c.req = Null /\ d.req = Null /\ c.due = d.due /\ c.at <= d.at)
            => d.at > c.at + LockTimeout

\* The same fence is never handed out twice, so "the execution that owns the exact
\* startedAt fence" names one execution.
FencesUnique == \A c, d \in claims : c.at = d.at => c = d

\* A manual request starts at most one run, even when its run crashed or its lock
\* lapsed and the message came back.
ManualAtMostOnce ==
    \A c, d \in claims : (c.req # Null /\ c.req = d.req) => c = d

\* run_count counts every execution whose outcome reached the row, once each.
RunsCountResults == row.runs = Cardinality(results) /\ row.fails <= row.runs

\* An active row always has a next run: pausing, failing without a next run and
\* completing never leave a task that is on but can no longer become due.
ActiveHasNext == row.active => row.next # Null

\* An outcome is written only for a fence later than every outcome written before:
\* an execution whose lock lapsed never overwrites what a later one recorded.
ResultsInOrder ==
    [][\A f \in results' \ results : \A g \in results : g < f]_vars

\* The task as an abstract fenced lease.
Owner == IF row.exists /\ row.status = "running" THEN row.last ELSE Null
Fence == INSTANCE FencedLease
             WITH Lease <- LockTimeout, NoOwner <- Null,
                  owner <- Owner, published <- results

\* The row, its claim UPDATE and its outcome UPDATEs implement the fenced lease.
ImplementsFencedLease == Fence!Spec

-----------------------------------------------------------------------------
(* Liveness.                                                               *)

\* The clock advances, the trigger fires on a minute the clock stays on, the queue
\* delivers, and an execution that does not crash takes its next step: a handler
\* returns or throws in the end.  No fairness is asked of a crash or a failed call.
Fairness ==
    /\ WF_vars(Advance) /\ WF_vars(Tick)
    /\ WF_vars(\E w \in Worker, m \in msgs : Deliver(w, m))
    /\ \A w \in Worker : WF_vars(Run(w))

\* Once faults are over, a due time does not stay due: a run of it, or a manual run,
\* is recorded, also when the row was left `running` by an execution that crashed,
\* provided the clock still has a minute, and the rest of a lock timeout, to go.
DueIsServed ==
    \A d \in Slots :
        ( /\ faults = MaxFaults /\ Due(now) /\ row.next = d
          /\ d + Minute <= MaxTime /\ fired < MaxTime
          /\ row.status = "running" => row.last + LockTimeout < MaxTime )
        ~> (~row.exists \/ row.next # d)

-----------------------------------------------------------------------------
\* What packages/cron/README.md:175 says of a run: "it is never run twice for the
\* same due time".
DueTimeRunOnce ==
    \A c, d \in claims : (c.req = Null /\ d.req = Null /\ c.due = d.due) => c = d
=============================================================================
