---------------------------- MODULE QueueDispatch ----------------------------
(***************************************************************************)
(* The producer side of packages/queue: Dispatcher.dispatch and            *)
(* Dispatcher.dispatchBatch over a dedupe store and the queues of one      *)
(* environment.  A call checks its unique keys one by one, each with a     *)
(* read and, when the key is absent, a write, and only then sends: all     *)
(* jobs at once through a single adapter, or one priority queue after the  *)
(* other.  One action per await; calls interleave, fail and die.           *)
(*                                                                         *)
(* The dedupe store answers with the latest value; `window` numbers the    *)
(* lifetimes of a key, each of which ends when its TTL does.               *)
(***************************************************************************)
EXTENDS Integers, Sequences, FiniteSets, TLC

CONSTANTS Caller,      \* requests that may dispatch at the same time
          Key,         \* unique keys, each of one job type
          NoKey,       \* a job without options.uniqueKey
          Batches,     \* the lists of jobs a caller hands to the dispatcher
          Single,      \* one adapter, or one queue per priority
          Bound,       \* the priorities whose queue is bound
          MaxCalls,    \* bound: calls of the dispatcher
          MaxExpiries, \* bound: lifetimes of a key that end
          MaxFaults    \* bound: failed sends, deaths, and the consumer's faults

Priority == {"high", "normal", "low"}
\* The priority of a job's chain, its own or else its parent's; or there is no chain.
Chain == Priority \cup {"none"}
Item == [key : Key \cup {NoKey}, pri : Priority, chain : Chain, known : BOOLEAN]

ASSUME KeysAssumption == NoKey \notin Key
ASSUME BatchesAssumption == Batches \subseteq Seq(Item) /\ <<>> \notin Batches
ASSUME BindingsAssumption == Single \in BOOLEAN /\ Bound \subseteq Priority /\ Bound # {}
ASSUME DispatchBounds == MaxCalls \in Nat /\ MaxExpiries \in Nat /\ MaxFaults \in Nat

VARIABLES
    seen,    \* dedupe keys in the KV store
    window,  \* history: how many lifetimes of a key have ended
    caller,  \* what each request is doing
    jobs,    \* history: every job a queue accepted, in order; its index is its id
    skips,   \* history: the keys, with their window, that were found present
    unsent,  \* history: the keys, with their window, that were marked and never sent
    raced,   \* history: the keys, with their window, two calls marked at a time
    calls,   \* calls so far
    faults   \* faults so far

dispatchVars == <<seen, window, caller, jobs, skips, unsent, raced, calls, faults>>

\* Where a job was marked: in no window when it has no key.
Mark == [key : Key \cup {NoKey}, win : Nat]
Staged == [key : Key \cup {NoKey}, win : Nat, chain : Chain, known : BOOLEAN]
\* parent: the job whose chain it was in; redoes: the dead letter it retries; or 0.
Job == [key : Key \cup {NoKey}, win : Nat, chain : Chain, known : BOOLEAN,
        parent : Nat, redoes : Nat]
Call == [pc : {"idle", "check", "mark", "send"}, batch : BOOLEAN,
         todo : Seq(Item), staged : [Priority -> Seq(Staged)]]

DispatchTypeOK ==
    /\ seen \in SUBSET Key
    /\ window \in [Key -> Nat]
    /\ caller \in [Caller -> Call]
    /\ jobs \in Seq(Job)
    /\ skips \in SUBSET Mark /\ unsent \in SUBSET Mark /\ raced \in SUBSET Mark
    /\ calls \in 0 .. MaxCalls /\ faults \in 0 .. MaxFaults

NoCall == [pc |-> "idle", batch |-> FALSE, todo |-> <<>>,
           staged |-> [p \in Priority |-> <<>>]]

DispatchInit ==
    /\ seen = {} /\ window = [k \in Key |-> 0]
    /\ caller = [c \in Caller |-> NoCall]
    /\ jobs = <<>>
    /\ skips = {} /\ unsent = {} /\ raced = {}
    /\ calls = 0 /\ faults = 0

-----------------------------------------------------------------------------
MarkOf(k) == [key |-> k, win |-> IF k \in Key THEN window[k] ELSE 0]
MarksIn(q) == {[key |-> q[i].key, win |-> q[i].win] : i \in DOMAIN q}
MarksOf(staged) == UNION {MarksIn(staged[p]) : p \in Priority}

Before(p, q) == \/ p = "high" /\ q # "high"
                \/ p = "normal" /\ q = "low"
First(open) == CHOOSE p \in open : \A q \in open \ {p} : Before(p, q)

\* The queues there are; a single adapter stands as one for everything.
Open == IF Single THEN {"normal"} ELSE Bound
\* The queue of a job: a batch puts it with its priority, bound or not; a lone dispatch
\* falls back to normal, then to any queue.
QueueOf(batch, p) == IF Single THEN "normal"
                     ELSE IF batch \/ p \in Open THEN p
                     ELSE IF "normal" \in Open THEN "normal" ELSE First(Open)

\* The queues the call has still to send to.
Pending(r) == {p \in Open : r.staged[p] # <<>>}

\* What the call does next: another key to check, another queue to send to, or its answer.
Proceed(r) == IF r.todo # <<>> THEN [r EXCEPT !.pc = "check"]
              ELSE IF Pending(r) # {} THEN [r EXCEPT !.pc = "send"]
              ELSE NoCall
\* Answering leaves behind the jobs whose priority has no queue.
LeftBehind(r) == IF r.todo = <<>> /\ Pending(r) = {} THEN MarksOf(r.staged) ELSE {}

\* The head of the list joins its queue's jobs.
Staging(r) ==
    LET item == Head(r.todo)
        s == [key |-> item.key, win |-> MarkOf(item.key).win,
              chain |-> item.chain, known |-> item.known]
    IN  [r EXCEPT !.todo = Tail(@), !.staged[QueueOf(r.batch, item.pri)] = Append(@, s)]

\* createJob: what of a staged job travels with the message.
NewJobs(q) == [i \in DOMAIN q |->
                 [key |-> q[i].key, win |-> q[i].win, chain |-> q[i].chain,
                  known |-> q[i].known, parent |-> 0, redoes |-> 0]]

-----------------------------------------------------------------------------
\* A request dispatches one job, or a batch.
Begin(c, items, batch) ==
    /\ caller[c].pc = "idle" /\ calls < MaxCalls
    /\ batch \/ Len(items) = 1
    /\ caller' = [caller EXCEPT ![c] = [NoCall EXCEPT !.pc = "check", !.batch = batch,
                                                     !.todo = items]]
    /\ calls' = calls + 1
    /\ UNCHANGED <<seen, window, jobs, skips, unsent, raced, faults>>

\* A job without a key passes the check unseen.
Unkeyed(c) ==
    /\ caller[c].pc = "check" /\ Head(caller[c].todo).key = NoKey
    /\ LET r == Staging(caller[c])
       IN  /\ caller' = [caller EXCEPT ![c] = Proceed(r)]
           /\ unsent' = unsent \cup LeftBehind(r)
    /\ UNCHANGED <<seen, window, jobs, skips, raced, calls, faults>>

\* isDuplicate reads the key: present, and the job is passed over.
Skip(c) ==
    /\ caller[c].pc = "check"
    /\ LET k == Head(caller[c].todo).key
           r == [caller[c] EXCEPT !.todo = Tail(@)]
       IN  /\ k \in seen
           /\ caller' = [caller EXCEPT ![c] = Proceed(r)]
           /\ skips' = skips \cup {MarkOf(k)}
           /\ unsent' = unsent \cup LeftBehind(r)
    /\ UNCHANGED <<seen, window, jobs, raced, calls, faults>>

\* Mutant of Fresh: the answer of the read is not looked at.
FreshAlways(k) == TRUE

\* The key is absent.
Fresh(k) == k \notin seen

Check(c) ==
    /\ caller[c].pc = "check"
    /\ LET k == Head(caller[c].todo).key IN k \in Key /\ Fresh(k)
    /\ caller' = [caller EXCEPT ![c].pc = "mark"]
    /\ UNCHANGED <<seen, window, jobs, skips, unsent, raced, calls, faults>>

\* Another call has found the same key absent and is about to mark it too.
Racing(c, k) == \E d \in Caller \ {c} : caller[d].pc = "mark" /\ Head(caller[d].todo).key = k

\* ... and writes it, with its TTL, before anything is sent.
PutKey(c) ==
    /\ caller[c].pc = "mark"
    /\ LET k == Head(caller[c].todo).key
           r == Staging(caller[c])
       IN  /\ seen' = seen \cup {k}
           /\ raced' = IF Racing(c, k) THEN raced \cup {MarkOf(k)} ELSE raced
           /\ caller' = [caller EXCEPT ![c] = Proceed(r)]
           /\ unsent' = unsent \cup LeftBehind(r)
    /\ UNCHANGED <<window, jobs, skips, calls, faults>>

\* Mutant of Sent: a batch is over with the first queue it was sent to.
SentAll(r, p) == [r EXCEPT !.staged = NoCall.staged]

Sent(r, p) == [r EXCEPT !.staged[p] = <<>>]

\* One send or sendBatch that succeeds, to the queues in the order high, normal, low.
Send(c) ==
    /\ caller[c].pc = "send"
    /\ LET p == First(Pending(caller[c]))
           r == Sent(caller[c], p)
       IN  /\ jobs' = jobs \o NewJobs(caller[c].staged[p])
           /\ caller' = [caller EXCEPT ![c] = Proceed(r)]
           /\ unsent' = unsent \cup LeftBehind(r)
    /\ UNCHANGED <<seen, window, skips, raced, calls, faults>>

\* A send that reports a failure, whether or not the queue took the jobs: the call returns
\* it, without the queues that were to follow.
SendFails(c, took) ==
    /\ caller[c].pc = "send" /\ faults < MaxFaults
    /\ LET p == First(Pending(caller[c]))
       IN  /\ jobs' = IF took THEN jobs \o NewJobs(caller[c].staged[p]) ELSE jobs
           /\ unsent' = unsent \cup MarksOf(IF took THEN Sent(caller[c], p).staged
                                            ELSE caller[c].staged)
    /\ caller' = [caller EXCEPT ![c] = NoCall]
    /\ faults' = faults + 1
    /\ UNCHANGED <<seen, window, skips, raced, calls>>

\* The invocation ends, or the dedupe store rejects: nothing more of the call happens.
CallDies(c) ==
    /\ caller[c].pc # "idle" /\ faults < MaxFaults
    /\ caller' = [caller EXCEPT ![c] = NoCall]
    /\ unsent' = unsent \cup MarksOf(caller[c].staged)
    /\ faults' = faults + 1
    /\ UNCHANGED <<seen, window, jobs, skips, raced, calls>>

\* The TTL of a key ends.
Expire(k) ==
    /\ k \in seen /\ window[k] < MaxExpiries
    /\ seen' = seen \ {k}
    /\ window' = [window EXCEPT ![k] = @ + 1]
    /\ UNCHANGED <<caller, jobs, skips, unsent, raced, calls, faults>>

DispatchNext ==
    \/ \E c \in Caller :
         \/ \E items \in Batches, batch \in BOOLEAN : Begin(c, items, batch)
         \/ Unkeyed(c) \/ Skip(c) \/ Check(c) \/ PutKey(c) \/ Send(c)
         \/ CallDies(c)
         \/ \E took \in BOOLEAN : SendFails(c, took)
    \/ \E k \in Key : Expire(k)

-----------------------------------------------------------------------------
\* "Won't dispatch if same uniqueKey sent within 5 minutes": two jobs under one key are
\* accepted within one lifetime of the key only if two calls were between the read and the
\* write of that key at the same time.  A batch that names a key twice, a call that dies and
\* a key that expires while its job is still to be sent do not make one.
DuplicatesOverlap ==
    \A i, j \in DOMAIN jobs :
        i # j /\ jobs[i].key # NoKey /\ jobs[i].key = jobs[j].key /\ jobs[i].win = jobs[j].win
            => [key |-> jobs[i].key, win |-> jobs[i].win] \in raced

\* A call that answers "already dispatched" is right, or soon will be, unless the call that
\* wrote the key failed, died, or had no queue for the job's priority: then the caller is
\* told a job is queued that never was.
SkipsAreCovered ==
    \A m \in skips :
        \/ m \in unsent
        \/ \E i \in DOMAIN jobs : jobs[i].key = m.key /\ jobs[i].win = m.win
        \/ \E c \in Caller : m \in MarksOf(caller[c].staged)

\* "Won't dispatch if same uniqueKey sent within 5 minutes": the job a call was refused for
\* was sent, or is about to be.  The key is written before the send, and a failed send does
\* not take it back.
SkippedWasSent ==
    \A m \in skips :
        \/ \E i \in DOMAIN jobs : jobs[i].key = m.key /\ jobs[i].win = m.win
        \/ \E c \in Caller : m \in MarksOf(caller[c].staged)
=============================================================================
