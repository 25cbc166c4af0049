------------------------------ MODULE QueueJobs ------------------------------
(***************************************************************************)
(* Jobs from dispatch to the end: QueueDispatch, the consumer of           *)
(* packages/queue (QueueProcessor.processNormalizedMessage, with its hooks *)
(* and job chains), the application's onFailure hook, which keeps a dead   *)
(* letter in KV, and the console that retries or deletes dead letters.     *)
(*                                                                         *)
(* The platform delivers a message at least once and at most PlatformMax   *)
(* times; the first of ack and retry counts; an invocation that ends       *)
(* without either acknowledges, because process() settles every promise.   *)
(***************************************************************************)
EXTENDS QueueDispatch

CONSTANTS MaxAttempts,  \* registered or per-job maxAttempts, else 3
          PlatformMax,  \* deliveries before the platform drops a message
          ChainQueue,   \* whether the processor has a chainQueue
          ChainBound,   \* the priorities its chainPriorityQueues has a queue for
          Console,      \* admins who may retry dead letters at the same time
          MaxAdmin,     \* bound: dead letters retried or deleted
          MaxJobs       \* bound: jobs the queues accept

ASSUME AttemptsAssumption ==
    MaxAttempts \in Nat \ {0} /\ PlatformMax \in Nat \ {0} /\ MaxJobs \in Nat /\ MaxAdmin \in Nat

ASSUME ChainAssumption == ChainQueue \in BOOLEAN /\ ChainBound \subseteq Priority

VARIABLES
    work,     \* the message of each job and the invocation that has it
    dlq,      \* dead letters in KV, by job id
    admin,    \* dead letters retried or deleted so far
    console,  \* what each admin's retry is doing
    stored,   \* history: jobs that were ever stored as dead letters
    purged,   \* history: dead letters that were deleted or expired
    doubted   \* history: dead letters whose retry was disturbed or overlapped

consumerVars == <<work, dlq, admin, console, stored, purged, doubted>>
vars == <<dispatchVars, consumerVars>>

Verdict == {"none", "ack", "retry"}
\* wins: handler successes; hurt: faults that hit the job; cut: crashes once its chain could
\* have been sent; own: the handler acked or retried the message itself.
Work == [pc : {"wait", "before", "handler", "after", "chain", "failed", "ended", "gone"},
         tries : 0 .. PlatformMax, verdict : Verdict,
         wins : Nat, hurt : Nat, cut : Nat, own : BOOLEAN]
Retrier == [pc : {"idle", "send", "remove"}, entry : 0 .. MaxJobs]

JobIds == 1 .. MaxJobs

TypeOK ==
    /\ DispatchTypeOK
    /\ work \in [JobIds -> Work]
    /\ dlq \in SUBSET JobIds
    /\ admin \in 0 .. MaxAdmin /\ console \in [Console -> Retrier]
    /\ stored \in SUBSET JobIds /\ purged \in SUBSET JobIds /\ doubted \in SUBSET JobIds

Waiting == [pc |-> "wait", tries |-> 0, verdict |-> "none",
            wins |-> 0, hurt |-> 0, cut |-> 0, own |-> FALSE]
NoRetry == [pc |-> "idle", entry |-> 0]

Init ==
    /\ DispatchInit
    /\ work = [i \in JobIds |-> Waiting]
    /\ dlq = {} /\ admin = 0 /\ console = [a \in Console |-> NoRetry]
    /\ stored = {} /\ purged = {} /\ doubted = {}

Dispatch == DispatchNext /\ Len(jobs') <= MaxJobs /\ UNCHANGED consumerVars

-----------------------------------------------------------------------------
(* The consumer.                                                           *)

\* The first call of ack or retry on a message is the one that counts.
Settled(w, v) == IF w.verdict = "none" THEN v ELSE w.verdict
End(w, v) == [w EXCEPT !.pc = "ended", !.verdict = Settled(w, v)]

\* Mutant of Caught: no hook on the last attempt.
CaughtQuietly(w) == IF w.tries >= MaxAttempts THEN End(w, "ack") ELSE End(w, "retry")

\* The catch block: the last attempt goes to onFailure, the others are retried.
Caught(w) == IF w.tries >= MaxAttempts THEN [w EXCEPT !.pc = "failed"] ELSE End(w, "retry")

\* The message is no more; what its attempts were no longer matters.
Gone(w) == [w EXCEPT !.pc = "gone", !.tries = 0, !.verdict = "none"]
\* Mutant of Again: the message always comes back.
AgainAlways(w) == [w EXCEPT !.pc = "wait", !.verdict = "none"]
\* The message comes back, or is dropped with its deliveries used up.
Again(w) == IF w.tries < PlatformMax THEN [w EXCEPT !.pc = "wait", !.verdict = "none"]
            ELSE Gone(w)

OnlyWork == /\ UNCHANGED <<seen, window, caller, jobs, skips, unsent, raced, calls>>
            /\ UNCHANGED <<dlq, admin, console, stored, purged, doubted>>
Fault == faults < MaxFaults /\ faults' = faults + 1
NoFault == UNCHANGED faults
Step(i, w) == work' = [work EXCEPT ![i] = w]

\* A delivery: a type nobody handles is acked, so that it does not come back.
Deliver(i) ==
    /\ i \in DOMAIN jobs /\ work[i].pc = "wait"
    /\ LET w == [work[i] EXCEPT !.tries = @ + 1]
       IN  Step(i, IF jobs[i].known THEN [w EXCEPT !.pc = "before"] ELSE End(w, "ack"))
    /\ OnlyWork /\ NoFault

BeforeReturns(i) ==
    /\ work[i].pc = "before"
    /\ Step(i, [work[i] EXCEPT !.pc = "handler"])
    /\ OnlyWork /\ NoFault

BeforeThrows(i) ==
    /\ work[i].pc = "before"
    /\ Step(i, Caught([work[i] EXCEPT !.hurt = @ + 1]))
    /\ OnlyWork /\ Fault

\* The handler ends, and may have acked or retried through its context on the way.
HandlerReturns(i, v) ==
    /\ work[i].pc = "handler"
    /\ Step(i, [work[i] EXCEPT !.pc = "after", !.verdict = v, !.own = @ \/ v # "none",
                               !.wins = IF v = "retry" THEN @ ELSE @ + 1])
    /\ OnlyWork /\ NoFault

HandlerThrows(i, v) ==
    /\ work[i].pc = "handler"
    /\ Step(i, Caught([work[i] EXCEPT !.verdict = v, !.own = @ \/ v # "none"]))
    /\ OnlyWork /\ NoFault

\* Mutants of AfterReturns: the message is left for a redelivery; only a first attempt that
\* succeeds sends the chain.
AfterReturnsUnacked(i) ==
    /\ work[i].pc = "after"
    /\ Step(i, IF work[i].verdict = "none" /\ jobs[i].chain # "none"
               THEN [work[i] EXCEPT !.pc = "chain"] ELSE End(work[i], "retry"))
    /\ OnlyWork /\ NoFault
AfterReturnsFirstOnly(i) ==
    /\ work[i].pc = "after"
    /\ Step(i, IF work[i].verdict = "none" /\ jobs[i].chain # "none" /\ work[i].tries = 1
               THEN [work[i] EXCEPT !.pc = "chain"] ELSE End(work[i], "ack"))
    /\ OnlyWork /\ NoFault

\* After the hook: the chain, unless the handler settled the message itself; then the ack.
AfterReturns(i) ==
    /\ work[i].pc = "after"
    /\ Step(i, IF work[i].verdict = "none" /\ jobs[i].chain # "none"
               THEN [work[i] EXCEPT !.pc = "chain"] ELSE End(work[i], "ack"))
    /\ OnlyWork /\ NoFault

\* The after hook rejects: the handler's success is retried like a failure.
AfterThrows(i) ==
    /\ work[i].pc = "after"
    /\ Step(i, Caught([work[i] EXCEPT !.hurt = @ + 1]))
    /\ OnlyWork /\ Fault

Child(i) == [key |-> NoKey, win |-> 0, chain |-> "none", known |-> jobs[i].known,
             parent |-> i, redoes |-> 0]

\* dispatchChainedJobs finds a queue: that of the chain's priority, the normal one, or the
\* chainQueue.
ChainGoes(p) == ChainQueue \/ {p, "normal"} \cap ChainBound # {}

\* Mutant of SendChain: the message is left for a redelivery after the send.
SendChainUnacked(i) ==
    /\ work[i].pc = "chain" /\ ChainGoes(jobs[i].chain) /\ Len(jobs) < MaxJobs
    /\ jobs' = Append(jobs, Child(i))
    /\ Step(i, End(work[i], "retry"))
    /\ NoFault
    /\ UNCHANGED <<seen, window, caller, skips, unsent, raced, calls>>
    /\ UNCHANGED <<dlq, admin, console, stored, purged, doubted>>

\* The chained job is sent under an id of its own, and the parent acked.
SendChain(i) ==
    /\ work[i].pc = "chain" /\ ChainGoes(jobs[i].chain) /\ Len(jobs) < MaxJobs
    /\ jobs' = Append(jobs, Child(i))
    /\ Step(i, End(work[i], "ack"))
    /\ NoFault
    /\ UNCHANGED <<seen, window, caller, skips, unsent, raced, calls>>
    /\ UNCHANGED <<dlq, admin, console, stored, purged, doubted>>

\* No queue for the chain: a warning, and the parent is acked without it.
SkipChain(i) ==
    /\ work[i].pc = "chain" /\ ~ChainGoes(jobs[i].chain)
    /\ Step(i, End(work[i], "ack"))
    /\ OnlyWork /\ NoFault

\* The result of a chain's send is not looked at: the parent is acked all the same.
ChainLost(i) ==
    /\ work[i].pc = "chain" /\ ChainGoes(jobs[i].chain)
    /\ Step(i, End([work[i] EXCEPT !.hurt = @ + 1], "ack"))
    /\ OnlyWork /\ Fault

\* The application's onFailure: a report, the counters, and the dead letter in KV, whose
\* put may fail without a word; then the ack.
KeepLetter(i) ==
    /\ work[i].pc = "failed"
    /\ Step(i, End(work[i], "ack"))
    /\ dlq' = dlq \cup {i} /\ stored' = stored \cup {i}
    /\ doubted' = IF i \in stored THEN doubted \cup {i} ELSE doubted
    /\ NoFault
    /\ UNCHANGED <<seen, window, caller, jobs, skips, unsent, raced, calls, admin, console, purged>>

LetterLost(i) ==
    /\ work[i].pc = "failed"
    /\ Step(i, End([work[i] EXCEPT !.hurt = @ + 1], "ack"))
    /\ OnlyWork /\ Fault

\* The hook rejects: process() settles the promise and the platform acks the message.
HookThrows(i) ==
    /\ work[i].pc = "failed"
    /\ Step(i, [work[i] EXCEPT !.pc = "ended", !.hurt = @ + 1])
    /\ OnlyWork /\ Fault

\* The invocation ends and the platform applies the verdict; none at all is an ack.
EndInvocation(i) ==
    /\ work[i].pc = "ended"
    /\ Step(i, IF work[i].verdict = "retry" THEN Again(work[i])
               ELSE Gone(work[i]))
    /\ OnlyWork /\ NoFault

\* The invocation dies: the verdict is lost and the message delivered again.
Crash(i) ==
    /\ work[i].pc \notin {"wait", "gone"}
    /\ Step(i, Again([work[i] EXCEPT !.hurt = @ + 1,
                                     !.cut = IF work[i].pc = "ended" THEN @ + 1 ELSE @]))
    /\ OnlyWork /\ Fault

Consume(i) ==
    \/ Deliver(i) \/ BeforeReturns(i) \/ BeforeThrows(i)
    \/ \E v \in Verdict : HandlerReturns(i, v) \/ HandlerThrows(i, v)
    \/ AfterReturns(i) \/ AfterThrows(i) \/ SendChain(i) \/ SkipChain(i) \/ ChainLost(i)
    \/ KeepLetter(i) \/ LetterLost(i) \/ HookThrows(i)
    \/ EndInvocation(i) \/ Crash(i)

-----------------------------------------------------------------------------
(* The console's dead letters: retryDLQJob, deleteDLQJob, purgeDLQ.        *)

OnlyConsole == UNCHANGED <<seen, window, caller, skips, unsent, raced, calls, work, stored>>

Held(i) == \E a \in Console : console[a].entry = i

\* retryDLQJob reads the entry.
Retry(a, i) ==
    /\ console[a].pc = "idle" /\ i \in dlq
    /\ admin < MaxAdmin /\ admin' = admin + 1
    /\ console' = [console EXCEPT ![a] = [pc |-> "send", entry |-> i]]
    /\ doubted' = IF Held(i) THEN doubted \cup {i} ELSE doubted
    /\ UNCHANGED <<jobs, dlq, purged, faults>> /\ OnlyConsole

\* A new job: the type and the payload, without the chain or the key of the one that failed.
Redo(i) == [key |-> NoKey, win |-> 0, chain |-> "none", known |-> jobs[i].known,
            parent |-> 0, redoes |-> i]

\* Mutants of Redispatch: the entry is removed before the send; it is not removed at all.
RedispatchAfterRemoval(a) ==
    /\ console[a].pc = "send" /\ Len(jobs) < MaxJobs
    /\ console' = [console EXCEPT ![a] = NoRetry]
    /\ dlq' = dlq \ {console[a].entry}
    /\ UNCHANGED <<jobs, admin, purged, doubted, faults>> /\ OnlyConsole
RedispatchForgets(a) ==
    /\ console[a].pc = "send" /\ Len(jobs) < MaxJobs
    /\ jobs' = Append(jobs, Redo(console[a].entry))
    /\ console' = [console EXCEPT ![a] = NoRetry]
    /\ UNCHANGED <<dlq, admin, purged, doubted, faults>> /\ OnlyConsole

Redispatch(a) ==
    /\ console[a].pc = "send" /\ Len(jobs) < MaxJobs
    /\ jobs' = Append(jobs, Redo(console[a].entry))
    /\ console' = [console EXCEPT ![a].pc = "remove"]
    /\ UNCHANGED <<dlq, admin, purged, doubted, faults>> /\ OnlyConsole

\* The send fails, or the invocation dies before the entry is removed; a job may be queued.
RetryFails(a, took) ==
    /\ console[a].pc \in {"send", "remove"} /\ Fault
    /\ took => console[a].pc = "send" /\ Len(jobs) < MaxJobs
    /\ jobs' = IF took THEN Append(jobs, Redo(console[a].entry)) ELSE jobs
    /\ console' = [console EXCEPT ![a] = NoRetry]
    /\ doubted' = doubted \cup {console[a].entry}
    /\ UNCHANGED <<dlq, admin, purged>> /\ OnlyConsole

RemoveLetter(a) ==
    /\ console[a].pc = "remove"
    /\ dlq' = dlq \ {console[a].entry}
    /\ console' = [console EXCEPT ![a] = NoRetry]
    /\ UNCHANGED <<jobs, admin, purged, doubted, faults>> /\ OnlyConsole

\* An admin deletes the entry or purges them all, or its TTL ends.
DeleteLetter(i) ==
    /\ i \in dlq
    /\ admin < MaxAdmin /\ admin' = admin + 1
    /\ dlq' = dlq \ {i} /\ purged' = purged \cup {i}
    /\ UNCHANGED <<jobs, console, doubted, faults>> /\ OnlyConsole

Letters ==
    \/ \E a \in Console : \/ \E i \in JobIds : Retry(a, i)
                          \/ Redispatch(a) \/ RemoveLetter(a)
                          \/ \E took \in BOOLEAN : RetryFails(a, took)
    \/ \E i \in JobIds : DeleteLetter(i)

Next == Dispatch \/ Letters \/ \E i \in JobIds : Consume(i)

Spec == Init /\ [][Next]_vars

-----------------------------------------------------------------------------
Children(i) == {j \in DOMAIN jobs : jobs[j].parent = i}
Redone(i) == {j \in DOMAIN jobs : jobs[j].redoes = i}

\* A job whose handler succeeded runs again only after a fault: a hook that rejected, a crash
\* before the ack reached the platform.  Neither its chain nor the failure of the chain's
\* send brings it back.
RunsAgainOnlyAfterFault == \A i \in JobIds : work[i].wins <= 1 + work[i].hurt

\* "Dispatch follow-up jobs automatically after success": a chain follows a success, goes out
\* once per crash between its send and the parent's ack at most, and a rejecting after hook
\* never repeats it.
ChainFollowsSuccess ==
    \A i \in DOMAIN jobs : /\ Cardinality(Children(i)) <= work[i].cut + 1
                           /\ Children(i) # {} => work[i].wins > 0

\* ... and a job that is done has sent its chain, unless its handler settled the message
\* itself, a fault hit it (the result of a chain's send is not looked at), or the processor
\* was given no queue the chain could go to, as otta-web's handler is given none at all.
ChainIsSent ==
    \A i \in DOMAIN jobs :
        work[i].pc = "gone" /\ jobs[i].chain # "none" /\ work[i].wins > 0
            => \/ Children(i) # {} \/ work[i].own \/ work[i].hurt > 0
               \/ ~ChainGoes(jobs[i].chain)

\* No job leaves the queue in silence: its handler succeeded or settled it, nobody handles
\* its type, it was kept as a dead letter, or a fault hit it on the way.
GivenUpIsKept ==
    \A i \in DOMAIN jobs :
        work[i].pc = "gone" => \/ work[i].wins > 0 \/ work[i].own
                               \/ ~jobs[i].known
                               \/ i \in stored
                               \/ work[i].hurt > 0

\* A dead letter is gone only if someone deleted it or its job is queued again.
LetterIsKept == \A i \in stored \ dlq : i \in purged \/ Redone(i) # {}

\* Retrying a dead letter queues its job once, unless two retries of it overlapped, one of
\* them was cut short, or the job failed a second time.
RetriedOnce == \A i \in DOMAIN jobs : Cardinality(Redone(i)) > 1 => i \in doubted
=============================================================================
