------------------------- MODULE AlertDeliveriesProofs -------------------------
(***************************************************************************)
(* Theorems about AlertDeliveries for every set of requests and alerts,    *)
(* every list of delays and every cap, hour and limit.                     *)
(***************************************************************************)
EXTENDS AlertDeliveries, TLAPS

(* A delivery that may still reach the service, or fail for another try.   *)
Live(w) ==
    \/ job[w].pc = "send"
    \/ job[w].pc = "lookup" /\ chan.exists
    \/ job[w].pc = "mark" /\ job[w].out = "retry"

(* The row's attempts number its claims: the last claim owns the row.      *)
Owns(w) == Sending(w) /\ job[w].attempts = row[job[w].id].attempts

Raising(w) == job[w].pc \in {"route", "cap", "insert"}

JobInv == \A w \in Worker :
    /\ job[w].pc # "idle" => job[w].id \in Alert
    /\ Sending(w) => job[w].attempts > 0
    /\ ~Sending(w) => job[w].age = 0

(* What each sweep has in hand: the batch it is sending or marking; of it, *)
(* what it was the first to read and has yet to send, or to record as      *)
(* sent; and what it sent for the second time.                             *)
Holds(s, a) == sweep[s].pc \in {"send", "mark"} /\ a \in sweep[s].batch
ToSend(s, a) == sweep[s].pc = "send" /\ a \in sweep[s].batch \ sweep[s].again
ToRecord(s, a) == sweep[s].pc = "mark" /\ sweep[s].ok /\ a \in sweep[s].batch \ sweep[s].again
Repeated(s, a) == sweep[s].pc = "mark" /\ sweep[s].ok /\ a \in sweep[s].again
First(s, a) == ToSend(s, a) \/ ToRecord(s, a)

InBatch(a) == \E s \in Sweeper : Holds(s, a)
Ships(a) == \E s \in Sweeper : ToSend(s, a)
Records(a) == \E s \in Sweeper : ToRecord(s, a)

(* An alert is raised once, and until its row is inserted nobody sends it. *)
RaiseInv ==
    /\ \A a \in Alert :
         /\ ~row[a].raised => row[a].status = "none"
         /\ row[a].status = "none" => row[a].attempts = 0
         /\ InBatch(a) => row[a].status # "none"
    /\ \A w \in Worker : Sending(w) => row[job[w].id].status # "none"
    /\ \A w \in Worker : Raising(w) =>
         row[job[w].id].status = "none" /\ row[job[w].id].raised
    /\ \A v, w \in Worker : Raising(v) /\ Raising(w) /\ job[v].id = job[w].id => v = w

(* While the channel exists, whoever sends an alert owns its row; once it  *)
(* is removed, nobody starts to send.                                      *)
OwnInv ==
    /\ \A w \in Worker : Sending(w) =>
         /\ job[w].attempts <= row[job[w].id].attempts
         /\ Owns(w) /\ row[job[w].id].status = "sending" => row[job[w].id].busy = job[w].age
         /\ chan.exists => Owns(w) /\ row[job[w].id].status = "sending"
    /\ \A v, w \in Worker :
         Sending(v) /\ Sending(w) /\ v # w /\ job[v].id = job[w].id
             => job[v].attempts # job[w].attempts
    /\ \A v, w \in Worker : Live(v) /\ Live(w) /\ job[v].id = job[w].id => v = w

(* What a sweep has in hand still waits, or has been digested by another   *)
(* that had it too; of those, one read it first.                           *)
BatchInv ==
    /\ removing => ~chan.exists
    /\ \A s \in Sweeper, a \in Alert :
         chan.exists /\ Holds(s, a) => row[a].status \in {sweep[s].reason, "digested"}
    /\ \A s \in Sweeper, a \in Alert :
         sweep[s].pc \in {"send", "mark"} /\ a \in sweep[s].again => a \in sweep[s].batch
    /\ \A s, t \in Sweeper, a \in Alert : First(s, a) /\ First(t, a) => s = t

(* What an alert may still be claimed for without another retry or fault.  *)
Slack(a) == \E w \in Worker : Live(w) /\ job[w].id = a /\ job[w].attempts < MaxAttempts
Open(a) ==
    \/ row[a].status \in {"pending", "failed"}
    \/ row[a].status = "sending" /\ \A w \in Worker : ~(Owns(w) /\ job[w].id = a)
Total == MaxAttempts + count.retries + count.faults
BudgetInv == \A a \in Alert :
    row[a].attempts + (IF Slack(a) THEN 1 ELSE 0) + (IF Open(a) THEN 1 ELSE 0) <= Total

(* Whoever may still send an alert, but for a repeat, sends the first      *)
(* message of it that anyone will learn of.                                *)
Lost(a) == unmarked[a] + doubled[a]
Sends(a) == \E w \in Worker : job[w].pc = "send" /\ job[w].id = a
Learned(a) ==
    \/ row[a].status \in {"sent", "digested"}
    \/ \E w \in Worker : Unrecorded(w, a)
    \/ Records(a)
SendInv == \A a \in Alert :
    /\ accepted[a] <= 1 + Lost(a)
    /\ Sends(a) => accepted[a] <= Lost(a)
    /\ Ships(a) => accepted[a] <= Lost(a) /\ ~Sends(a)
    /\ chan.exists /\ ~Learned(a) => accepted[a] <= Lost(a)

(* A sweep waits for its deliveries.                                       *)
SweptInv == \A w \in Worker : job[w].by # None =>
    job[w].by \in Sweeper /\ sweep[job[w].by].pc = "retry"

IInv == TypeOK /\ JobInv /\ RaiseInv /\ OwnInv /\ BatchInv /\ BudgetInv /\ SendInv /\ SweptInv

-----------------------------------------------------------------------------
(* Rows and the statements that write them.                                *)
Statuses == Unfinished \cup {"none", "sent", "dead", "digested"}

LEMMA Limits ==
    /\ MaxAttempts \in Nat \ {0}
    /\ Stale \in Nat \ {0} /\ PendingGrace \in Nat /\ Hour \in Nat \ {0}
    /\ Day \in Nat \ {0}
    /\ \A i \in DOMAIN RetryDelay : RetryDelay[i] \in Nat
    /\ DOMAIN RetryDelay = 1 .. MaxAttempts - 1
<1>1. RetryDelay \in Seq(Nat)
  BY DelaysAssumption
<1>2. Len(RetryDelay) \in Nat /\ DOMAIN RetryDelay = 1 .. Len(RetryDelay)
  BY <1>1
<1>3. \A i \in DOMAIN RetryDelay : RetryDelay[i] \in Nat
  BY <1>1
<1>4. QED BY <1>2, <1>3, PoliciesAssumption DEF MaxAttempts

LEMMA IntoFacts ==
    ASSUME NEW r \in Row, NEW s \in Statuses
    PROVE  /\ Into(r, s) \in Row
           /\ Into(r, s).status = s /\ Into(r, s).busy = 0
           /\ Into(r, s).attempts = r.attempts /\ Into(r, s).raised = r.raised
<1>1. 0 \in Nat /\ 0 \in 0 .. PendingGrace /\ 0 \in 0 .. Stale /\ 0 \in 0 .. Hour
  BY Limits
<1>2. QED BY <1>1, Zenon DEF Into, Row, Statuses

LEMMA ClaimedFacts ==
    ASSUME NEW r \in Row
    PROVE  /\ Claimed(r) \in Row
           /\ Claimed(r).status = "sending" /\ Claimed(r).busy = 0
           /\ Claimed(r).attempts = r.attempts + 1 /\ Claimed(r).raised = r.raised
<1>1. "sending" \in Statuses
  BY DEF Statuses, Unfinished
<1> DEFINE s == Into(r, "sending")
<1>2. /\ s \in Row /\ s.status = "sending" /\ s.busy = 0
      /\ s.attempts = r.attempts /\ s.raised = r.raised
  BY <1>1, IntoFacts
<1> HIDE DEF s
<1>3. Claimed(r) = [s EXCEPT !.attempts = @ + 1]
  BY DEF Claimed, s
<1>4. QED BY <1>2, <1>3 DEF Row

LEMMA FailedFacts ==
    ASSUME NEW r \in Row, NEW j \in Job, j.attempts > 0
    PROVE  /\ Failed(r, j) \in Row
           /\ Failed(r, j).status \in {"dead", "failed"}
           /\ Failed(r, j).status = "failed"
                => j.out \in {"ok", "retry"} /\ j.attempts < MaxAttempts
           /\ Failed(r, j).attempts = r.attempts /\ Failed(r, j).raised = r.raised
<1>1. "dead" \in Statuses /\ "failed" \in Statuses
  BY DEF Statuses, Unfinished
<1>2. CASE GivesUp(j)
  BY <1>1, <1>2, IntoFacts DEF Failed
<1>3. CASE ~GivesUp(j)
  <2>1. j.out \in {"ok", "retry"} /\ j.attempts < MaxAttempts /\ j.attempts \in Nat
    BY <1>3, Limits DEF GivesUp, Job
  <2>2. j.attempts \in DOMAIN RetryDelay
    BY <2>1, Limits
  <2> DEFINE s == Into(r, "failed")
             d == RetryDelay[j.attempts]
  <2>3. /\ s \in Row /\ s.status = "failed"
        /\ s.attempts = r.attempts /\ s.raised = r.raised
    BY <1>1, IntoFacts
  <2>4. d \in Nat
    BY <2>2, Limits
  <2>5. Failed(r, j) = [s EXCEPT !.wait = d]
    BY <1>3, <2>2 DEF Failed
  <2> HIDE DEF s, d
  <2>6. QED BY <2>1, <2>3, <2>4, <2>5 DEF Row
<1>4. QED BY <1>2, <1>3

LEMMA AbandonedFacts ==
    ASSUME TypeOK, NEW a \in Alert
    PROVE  /\ Abandoned \in [Alert -> Row]
           /\ \/ Abandoned[a] = row[a]
              \/ row[a].status \in Unfinished /\ Abandoned[a] = Into(row[a], "dead")
           /\ Abandoned[a].status \notin Unfinished
<1>1. \A b \in Alert : row[b] \in Row /\ Into(row[b], "dead") \in Row
                       /\ Into(row[b], "dead").status = "dead"
  BY IntoFacts DEF TypeOK, Statuses
<1>2. QED BY <1>1 DEF Abandoned, Unfinished

LEMMA BatchedFacts ==
    ASSUME TypeOK, NEW ids \in SUBSET Alert, NEW a \in Alert
    PROVE  /\ Batched(ids) \in [Alert -> Row]
           /\ a \in ids => Batched(ids)[a] = Into(row[a], "digested")
           /\ a \notin ids => Batched(ids)[a] = row[a]
<1>1. \A b \in Alert : row[b] \in Row /\ Into(row[b], "digested") \in Row
  BY IntoFacts DEF TypeOK, Statuses
<1>2. QED BY <1>1 DEF Batched

-----------------------------------------------------------------------------
(* Types.                                                                  *)
Shape == TypeOK /\ JobInv

\* A worker's new record, and what it must be for the jobs to keep their shape.
Proper(r) ==
    /\ r \in Job
    /\ r.pc # "idle" => r.id \in Alert
    /\ r.pc \in {"lookup", "send", "mark"} => r.attempts > 0
    /\ r.pc \notin {"lookup", "send", "mark"} => r.age = 0

LEMMA IdleProper == Proper(Idle)
BY Limits DEF Idle, Job, Proper

LEMMA ProperFacts == Shape => \A w \in Worker : Proper(job[w])
BY DEF Shape, TypeOK, JobInv, Proper, Sending

LEMMA PutKeeps ==
    ASSUME Shape, NEW w \in Worker, NEW r, Proper(r), job' = [job EXCEPT ![w] = r]
    PROVE  job' \in [Worker -> Job] /\ JobInv'
<1>1. job \in [Worker -> Job] /\ \A v \in Worker : Proper(job[v])
  BY ProperFacts DEF Shape, TypeOK
<1>2. \A v \in Worker : Proper(job'[v])
  BY <1>1
<1>3. QED BY <1>1, <1>2 DEF JobInv, Sending, Proper

LEMMA StartProper ==
    ASSUME NEW a \in Alert, NEW pc \in {"route", "claim"}, NEW s \in Sweeper \cup {None}
    PROVE  /\ Proper([Idle EXCEPT !.pc = pc, !.id = a])
           /\ Proper([Idle EXCEPT !.pc = pc, !.id = a, !.by = s])
BY IdleProper, Limits DEF Idle, Job, Proper

LEMMA RestingType == Resting \in Sweep
BY DEF Resting, Sweep

\* What a sweep's record keeps of its type when only its batch's fields change.
LEMMA SweepFields ==
    ASSUME TypeOK, NEW s \in Sweeper
    PROVE  /\ sweep \in [Sweeper -> Sweep] /\ sweep[s] \in Sweep
           /\ sweep[s].batch \in SUBSET Alert /\ sweep[s].again \in SUBSET Alert
           /\ sweep[s].reason \in {"held", "digest"} /\ sweep[s].ok \in BOOLEAN
           /\ sweep[s].late \in SUBSET Alert /\ sweep[s].slot \in BOOLEAN
           /\ sweep[s].days \in 0 .. 1
BY DEF TypeOK, Sweep

LEMMA FaultType == TypeOK /\ Fault => count' \in [edits : 0 .. MaxEdits, retries : 0 .. MaxRetries, faults : 0 .. MaxFaults]
BY LimitsAssumption DEF TypeOK, Fault

LEMMA RaiseShape == ASSUME Shape, NEW w \in Worker, NEW a \in Alert, Raise(w, a) PROVE Shape'
<1>1. row' \in [Alert -> Row]
  <2>1. PICK c \in BOOLEAN : row' = [row EXCEPT ![a] = [@ EXCEPT !.raised = TRUE, !.critical = c]]
    BY DEF Raise
  <2>2. row \in [Alert -> Row]
    BY DEF Shape, TypeOK
  <2>3. [row[a] EXCEPT !.raised = TRUE, !.critical = c] \in Row
    BY <2>2 DEF Row
  <2>4. QED BY <2>1, <2>2, <2>3
<1>2. job' \in [Worker -> Job] /\ JobInv'
  BY StartProper, PutKeeps DEF Raise, Start
<1>3. sweep' \in [Sweeper -> Sweep]
  <2>1. \A s \in Sweeper : [sweep[s] EXCEPT !.late = @ \cup {a}] \in Sweep
    BY SweepFields DEF Shape, Sweep
  <2>2. QED BY <2>1, SweepFields DEF Raise, Shape
<1>4. QED BY <1>1, <1>2, <1>3 DEF Raise, Shape, TypeOK

LEMMA RouteProper ==
    ASSUME NEW r, Proper(r), r.pc \in {"route", "cap"}
    PROVE  \A plan \in {"pending", "held", "digest"} :
              /\ Proper([r EXCEPT !.pc = "insert", !.plan = plan])
              /\ Proper([r EXCEPT !.pc = "insert"]) /\ Proper([r EXCEPT !.pc = "cap"])
BY DEF Proper, Job

LEMMA RouteShape == ASSUME Shape, NEW w \in Worker, Route(w) PROVE Shape'
<1>1. Proper(job[w])
  BY ProperFacts
<1>2. PICK r : Proper(r) /\ job' = [job EXCEPT ![w] = r]
  BY <1>1, RouteProper, IdleProper DEF Route
<1>3. job' \in [Worker -> Job] /\ JobInv'
  BY <1>2, PutKeeps
<1>4. QED BY <1>3 DEF Route, Shape, TypeOK

LEMMA CapShape == ASSUME Shape, NEW w \in Worker, Cap(w) PROVE Shape'
<1>1. Proper(job[w]) /\ job \in [Worker -> Job]
  BY ProperFacts DEF Shape, TypeOK
<1>2. PICK plan \in {"pending", "held", "digest"} :
        job' = [job EXCEPT ![w].pc = "insert", ![w].plan = plan]
  BY DEF Cap
<1>3. Proper([job[w] EXCEPT !.pc = "insert", !.plan = plan])
  BY <1>1, RouteProper DEF Cap
<1>4. job' = [job EXCEPT ![w] = [job[w] EXCEPT !.pc = "insert", !.plan = plan]]
  BY <1>1, <1>2
<1>5. job' \in [Worker -> Job] /\ JobInv'
  BY <1>3, <1>4, PutKeeps
<1>6. QED BY <1>5 DEF Cap, Shape, TypeOK

LEMMA InsertShape == ASSUME Shape, NEW w \in Worker, Insert(w) PROVE Shape'
<1>1. Proper(job[w]) /\ job[w].id \in Alert /\ job[w].plan \in Statuses
  BY ProperFacts DEF Insert, Proper, Job, Statuses, Unfinished
<1>2. row' \in [Alert -> Row]
  BY <1>1, IntoFacts DEF Insert, Shape, TypeOK
<1>3. job' \in [Worker -> Job] /\ JobInv'
  BY <1>1, StartProper, IdleProper, PutKeeps DEF Insert, Start
<1>4. QED BY <1>2, <1>3 DEF Insert, Shape, TypeOK

LEMMA ClaimShape == ASSUME Shape, NEW w \in Worker, Claim(w) PROVE Shape'
<1>1. Proper(job[w]) /\ job[w].id \in Alert /\ job \in [Worker -> Job] /\ row \in [Alert -> Row]
  BY ProperFacts DEF Claim, Proper, Shape, TypeOK
<1>2. CASE Claimable(row[job[w].id])
  <2>1. row' \in [Alert -> Row]
    BY <1>1, <1>2, ClaimedFacts DEF Claim
  <2> DEFINE n == row[job[w].id].attempts + 1
  <2>2. n \in Nat /\ n > 0
    BY <1>1 DEF Row
  <2> HIDE DEF n
  <2>3. Proper([job[w] EXCEPT !.pc = "lookup", !.attempts = n])
    BY <1>1, <2>2 DEF Proper, Job, Claim
  <2>4. job' = [job EXCEPT ![w] = [job[w] EXCEPT !.pc = "lookup", !.attempts = n]]
    BY <1>1, <1>2 DEF Claim, n
  <2>5. job' \in [Worker -> Job] /\ JobInv'
    BY <2>3, <2>4, PutKeeps
  <2>6. QED BY <2>1, <2>5 DEF Claim, Shape, TypeOK
<1>3. CASE ~Claimable(row[job[w].id])
  <2>1. job' \in [Worker -> Job] /\ JobInv'
    BY <1>3, IdleProper, PutKeeps DEF Claim
  <2>2. QED BY <1>3, <2>1 DEF Claim, Shape, TypeOK
<1>4. QED BY <1>2, <1>3

LEMMA LookupShape == ASSUME Shape, NEW w \in Worker, Lookup(w) PROVE Shape'
<1>1. Proper(job[w]) /\ job \in [Worker -> Job]
  BY ProperFacts DEF Shape, TypeOK
<1>2. Proper([job[w] EXCEPT !.pc = "send"]) /\ Proper([job[w] EXCEPT !.pc = "mark", !.out = "gone"])
  BY <1>1 DEF Proper, Job, Lookup
<1>3. job' \in [Worker -> Job] /\ JobInv'
  BY <1>1, <1>2, PutKeeps DEF Lookup
<1>4. QED BY <1>3 DEF Lookup, Shape, TypeOK

LEMMA SendShape == ASSUME Shape, NEW w \in Worker, Send(w) PROVE Shape'
<1>1. Proper(job[w]) /\ job \in [Worker -> Job] /\ job[w].id \in Alert
  BY ProperFacts DEF Send, Proper, Shape, TypeOK
<1>2. PICK out \in {"ok", "retry", "permanent"} :
        job' = [job EXCEPT ![w] = [job[w] EXCEPT !.pc = "mark", !.out = out]]
  BY DEF Send
<1>3. Proper([job[w] EXCEPT !.pc = "mark", !.out = out])
  BY <1>1 DEF Proper, Job, Send
<1>4. job' \in [Worker -> Job] /\ JobInv'
  BY <1>2, <1>3, PutKeeps
<1>5. count' \in [edits : 0 .. MaxEdits, retries : 0 .. MaxRetries, faults : 0 .. MaxFaults]
  BY FaultType DEF Send, Shape, TypeOK
<1>6. accepted' \in [Alert -> Nat] /\ unmarked' \in [Alert -> Nat]
  BY <1>1 DEF Send, Shape, TypeOK
<1>7. QED BY <1>4, <1>5, <1>6 DEF Send, Shape, TypeOK

LEMMA MarkShape == ASSUME Shape, NEW w \in Worker, Mark(w) PROVE Shape'
<1>1. Proper(job[w]) /\ job[w] \in Job /\ job[w].id \in Alert /\ job[w].attempts > 0
  BY ProperFacts DEF Mark, Proper
<1>2. row[job[w].id] \in Row
  BY <1>1 DEF Shape, TypeOK
<1>3. Into(row[job[w].id], "sent") \in Row /\ Failed(row[job[w].id], job[w]) \in Row
  BY <1>1, <1>2, IntoFacts, FailedFacts DEF Statuses
<1>4. row' \in [Alert -> Row]
  BY <1>3 DEF Mark, Shape, TypeOK
<1>5. job' \in [Worker -> Job] /\ JobInv'
  BY IdleProper, PutKeeps DEF Mark
<1>6. QED BY <1>4, <1>5 DEF Mark, Shape, TypeOK

LEMMA CrashShape == ASSUME Shape, NEW w \in Worker, Crash(w) PROVE Shape'
<1>1. \A v \in Worker : Proper(job[v])
  BY ProperFacts
<1>2. \A v \in Worker : Proper([job[v] EXCEPT !.by = IF @ = job[w].by THEN None ELSE @])
  <2> TAKE v \in Worker
  <2>1. PICK b \in Sweeper \cup {None} : b = IF job[v].by = job[w].by THEN None ELSE job[v].by
    BY DEF Shape, TypeOK, Job
  <2>2. Proper([job[v] EXCEPT !.by = b])
    BY <1>1 DEF Proper, Job
  <2>3. QED BY <2>1, <2>2
<1>3. job' = [v \in Worker |-> job'[v]] /\ \A v \in Worker : Proper(job'[v])
  BY <1>2, IdleProper DEF Crash
<1>4. job' \in [Worker -> Job] /\ JobInv'
  BY <1>3 DEF Proper, JobInv, Sending
<1>5. sweep' \in [Sweeper -> Sweep]
  BY RestingType DEF Crash, Shape, TypeOK
<1>6. unmarked' \in [Alert -> Nat]
  BY DEF Crash, Shape, TypeOK
<1>7. QED BY <1>4, <1>5, <1>6, FaultType DEF Crash, Shape, TypeOK

LEMMA RetryShape == ASSUME Shape, NEW w \in Worker, NEW a \in Alert, Retry(w, a) PROVE Shape'
<1>1. row \in [Alert -> Row] /\ "pending" \in Statuses
  BY DEF Shape, TypeOK, Statuses, Unfinished
<1>2. row' \in [Alert -> Row]
  <2>1. PICK age \in 0 .. PendingGrace :
          row' = [row EXCEPT ![a] = [Into(@, "pending") EXCEPT !.age = age]]
    BY DEF Retry
  <2> DEFINE s == Into(row[a], "pending")
  <2>2. s \in Row
    BY <1>1, IntoFacts
  <2> HIDE DEF s
  <2>3. [s EXCEPT !.age = age] \in Row
    BY <2>2 DEF Row
  <2>4. QED BY <1>1, <2>1, <2>3 DEF s
<1>3. job' \in [Worker -> Job] /\ JobInv'
  BY StartProper, PutKeeps DEF Retry, Start
<1>4. count' \in [edits : 0 .. MaxEdits, retries : 0 .. MaxRetries, faults : 0 .. MaxFaults]
  BY LimitsAssumption DEF Retry, Shape, TypeOK
<1>5. QED BY <1>2, <1>3, <1>4 DEF Retry, Shape, TypeOK

LEMMA EditType == TypeOK /\ Edit => count' \in [edits : 0 .. MaxEdits, retries : 0 .. MaxRetries, faults : 0 .. MaxFaults]
BY LimitsAssumption DEF TypeOK, Edit

LEMMA ConsoleShape == Shape /\ (UpdateChannel \/ RemoveChannel \/ AbandonChannel) => Shape'
<1> SUFFICES ASSUME Shape, UpdateChannel \/ RemoveChannel \/ AbandonChannel PROVE Shape'
  OBVIOUS
<1>0. JobInv' <=> JobInv
  BY DEF JobInv, Sending, UpdateChannel, RemoveChannel, AbandonChannel
<1>1. CASE UpdateChannel
  <2>1. chan' \in Channel
    BY <1>1 DEF UpdateChannel, Channel, Shape, TypeOK
  <2>2. QED BY <1>0, <1>1, <2>1, EditType DEF UpdateChannel, Shape, TypeOK
<1>2. CASE RemoveChannel
  <2>1. chan' \in Channel
    BY <1>2 DEF RemoveChannel, Channel, Shape, TypeOK
  <2>2. QED BY <1>0, <1>2, <2>1, EditType DEF RemoveChannel, Shape, TypeOK
<1>3. CASE AbandonChannel
  <2>1. row' \in [Alert -> Row]
    <3>1. \A b \in Alert : row[b] \in Row /\ Into(row[b], "dead") \in Row
      BY IntoFacts DEF Shape, TypeOK, Statuses
    <3>2. QED BY <1>3, <3>1 DEF AbandonChannel, Abandoned, Shape, TypeOK
  <2>2. QED BY <1>0, <1>3, <2>1, FaultType DEF AbandonChannel, Shape, TypeOK
<1>4. QED BY <1>1, <1>2, <1>3

LEMMA DeliverShape ==
    ASSUME Shape, NEW s \in Sweeper, NEW w \in Worker, SweepDeliver(s, w) PROVE Shape'
<1>1. PICK a \in sweep[s].batch :
        /\ sweep' = [sweep EXCEPT ![s].batch = @ \ {a}]
        /\ job' = [job EXCEPT ![w] = [Idle EXCEPT !.pc = "claim", !.id = a, !.by = s]]
  BY DEF SweepDeliver
<1>2. sweep \in [Sweeper -> Sweep] /\ a \in Alert
  BY <1>1, SweepFields DEF Shape
<1>3. sweep' \in [Sweeper -> Sweep]
  <2>1. [sweep[s] EXCEPT !.batch = @ \ {a}] \in Sweep
    BY SweepFields DEF Shape, Sweep
  <2>2. QED BY <1>1, <1>2, <2>1
<1>4. job' \in [Worker -> Job] /\ JobInv'
  BY <1>1, <1>2, StartProper, PutKeeps
<1>5. QED BY <1>3, <1>4 DEF SweepDeliver, Shape, TypeOK

LEMMA OneMoreType ==
    ASSUME NEW n \in [Alert -> Nat], NEW ids PROVE OneMore(n, ids) \in [Alert -> Nat]
BY DEF OneMore

\* A sweep's record after one of its own steps.
LEMMA SweepPut ==
    ASSUME TypeOK, NEW s \in Sweeper, NEW r \in Sweep, sweep' = [sweep EXCEPT ![s] = r]
    PROVE  sweep' \in [Sweeper -> Sweep]
BY DEF TypeOK

LEMMA CollectedType ==
    ASSUME TypeOK, NEW s \in Sweeper, NEW reason \in {"held", "digest"}
    PROVE  Collected(s, reason) \in Sweep
<1> DEFINE b == Batchable(s, reason)
           g == {a \in b : \E t \in Sweeper : InHand(t, a)}
<1>1. b \in SUBSET Alert /\ g \in SUBSET Alert
  BY DEF Batchable, Waiting
<1> HIDE DEF b, g
<1>2. [sweep[s] EXCEPT !.pc = "send", !.reason = reason, !.batch = b, !.again = g] \in Sweep
  BY <1>1, SweepFields DEF Sweep
<1>3. QED BY <1>2 DEF Collected, b, g

\* The sweep's own steps: jobs stay, the rows get the types of a batch.
LEMMA SweepShape ==
    ASSUME Shape, NEW s \in Sweeper,
           \/ SweepStart(s) \/ SweepRetried(s) \/ SweepHeld(s) \/ SweepDigest(s)
           \/ SweepSend(s) \/ SweepMark(s) \/ SweepRecord(s)
    PROVE  Shape'
<1>0. JobInv' <=> JobInv
  BY DEF JobInv, Sending, SweepStart, SweepRetried, SweepHeld, SweepDigest, SweepSend,
         SweepMark, SweepRecord
<1>1. /\ TypeOK /\ sweep[s] \in Sweep /\ row \in [Alert -> Row] /\ Resting \in Sweep
      /\ Recording(s) \in Sweep
  <2>1. Recording(s) \in Sweep
    BY SweepFields DEF Shape, Recording, Resting, Sweep
  <2>2. QED BY <2>1, RestingType, SweepFields DEF Shape, TypeOK
<1>2. Abandoned \in [Alert -> Row]
  <2>1. \A b \in Alert : row[b] \in Row /\ Into(row[b], "dead") \in Row
    BY IntoFacts DEF Shape, TypeOK, Statuses
  <2>2. QED BY <2>1 DEF Abandoned
<1>3. CASE SweepStart(s)
  <2>1. PICK r \in Sweep : sweep' = [sweep EXCEPT ![s] = r]
    <3>1. \A r \in Sweep, slot \in BOOLEAN, batch \in SUBSET Alert :
            [r EXCEPT !.pc = "retry", !.batch = batch, !.slot = slot] \in Sweep
      BY DEF Sweep
    <3>2. (hour >= DigestHour) \in BOOLEAN /\ {a \in Alert : DueRow(row[a])} \in SUBSET Alert
      OBVIOUS
    <3>3. QED BY <1>1, <1>3, <3>1, <3>2, Zenon DEF SweepStart
  <2>2. QED BY <1>0, <1>1, <1>3, <2>1, SweepPut DEF SweepStart, Shape, TypeOK
<1>4. CASE SweepRetried(s)
  <2>1. [sweep[s] EXCEPT !.pc = "held"] \in Sweep
    BY <1>1 DEF Sweep
  <2>2. sweep' = [sweep EXCEPT ![s] = [sweep[s] EXCEPT !.pc = "held"]]
    BY <1>4 DEF SweepRetried
  <2>3. QED BY <1>0, <1>1, <1>4, <2>1, <2>2, SweepPut DEF SweepRetried, Shape, TypeOK
<1>5. CASE SweepHeld(s)
  <2>1. [sweep[s] EXCEPT !.pc = "digest"] \in Sweep /\ Collected(s, "held") \in Sweep
    BY <1>1, CollectedType DEF Sweep
  <2>2. \/ sweep' = [sweep EXCEPT ![s] = [sweep[s] EXCEPT !.pc = "digest"]]
        \/ sweep' = [sweep EXCEPT ![s] = Collected(s, "held")]
    BY <1>5 DEF SweepHeld
  <2>3. sweep' \in [Sweeper -> Sweep]
    BY <1>1, <2>1, <2>2, SweepPut
  <2>4. QED BY <1>0, <1>1, <1>2, <1>5, <2>3 DEF SweepHeld, Shape, TypeOK
<1>6. CASE SweepDigest(s)
  <2>1. PICK r \in Sweep : sweep' = [sweep EXCEPT ![s] = r]
    BY <1>1, <1>6, CollectedType DEF SweepDigest
  <2>2. QED BY <1>0, <1>1, <1>6, <2>1, SweepPut DEF SweepDigest, Shape, TypeOK
<1>7. CASE SweepSend(s)
  <2>1. PICK ok \in BOOLEAN : sweep' = [sweep EXCEPT ![s] = [sweep[s] EXCEPT !.pc = "mark", !.ok = ok]]
    BY <1>7 DEF SweepSend
  <2>2. [sweep[s] EXCEPT !.pc = "mark", !.ok = ok] \in Sweep
    BY <1>1 DEF Sweep
  <2>3. sweep' \in [Sweeper -> Sweep]
    BY <1>1, <2>1, <2>2, SweepPut
  <2>4. count' \in [edits : 0 .. MaxEdits, retries : 0 .. MaxRetries, faults : 0 .. MaxFaults]
    BY <1>1, <1>7, FaultType DEF SweepSend, TypeOK
  <2>5. \A ids : /\ OneMore(accepted, ids) \in [Alert -> Nat]
                 /\ OneMore(unmarked, ids) \in [Alert -> Nat]
                 /\ OneMore(doubled, ids) \in [Alert -> Nat]
    BY <1>1, OneMoreType DEF TypeOK
  <2>6. accepted' \in [Alert -> Nat] /\ unmarked' \in [Alert -> Nat] /\ doubled' \in [Alert -> Nat]
    <3>1. /\ accepted' = accepted \/ \E ids : accepted' = OneMore(accepted, ids)
          /\ unmarked' = unmarked \/ \E ids : unmarked' = OneMore(unmarked, ids)
          /\ doubled' = doubled \/ \E ids : doubled' = OneMore(doubled, ids)
      BY <1>7, Zenon DEF SweepSend
    <3>2. QED BY <1>1, <2>5, <3>1 DEF TypeOK
  <2>7. QED BY <1>0, <1>7, <2>3, <2>4, <2>6 DEF SweepSend, Shape, TypeOK
<1>8. CASE SweepMark(s)
  <2>1. PICK r \in Sweep : sweep' = [sweep EXCEPT ![s] = r]
    <3>1. [sweep[s] EXCEPT !.pc = "digest", !.batch = {}, !.again = {}, !.ok = FALSE] \in Sweep
      BY <1>1 DEF Sweep
    <3>2. QED BY <1>1, <1>8, <3>1 DEF SweepMark
  <2>2. Batched(sweep[s].batch) \in [Alert -> Row]
    <3>1. \A b \in Alert : row[b] \in Row /\ Into(row[b], "digested") \in Row
      BY IntoFacts DEF Shape, TypeOK, Statuses
    <3>2. QED BY <3>1 DEF Batched
  <2>3. QED BY <1>0, <1>1, <1>8, <2>1, <2>2, SweepPut DEF SweepMark, Shape, TypeOK
<1>9. CASE SweepRecord(s)
  <2>1. chan' \in Channel
    BY <1>1, <1>9, SweepFields DEF SweepRecord, Channel, TypeOK
  <2>2. QED BY <1>0, <1>1, <1>9, <2>1, SweepPut DEF SweepRecord, Shape, TypeOK
<1>10. QED BY <1>3, <1>4, <1>5, <1>6, <1>7, <1>8, <1>9

LEMMA SweepCrashShape == ASSUME Shape, NEW s \in Sweeper, SweepCrash(s) PROVE Shape'
<1>1. job' = [v \in Worker |-> job'[v]] /\ \A v \in Worker : Proper(job'[v])
  BY ProperFacts, IdleProper DEF SweepCrash
<1>2. job' \in [Worker -> Job] /\ JobInv'
  BY <1>1 DEF Proper, JobInv, Sending
<1>3. unmarked' \in [Alert -> Nat]
  BY DEF SweepCrash, Shape, TypeOK
<1>4. sweep' \in [Sweeper -> Sweep]
  BY RestingType, SweepPut DEF SweepCrash, Shape
<1>5. QED BY <1>2, <1>3, <1>4, FaultType DEF SweepCrash, Shape, TypeOK

\* What the clock does to a row.
LEMMA TickedRow ==
    ASSUME Shape, Advance, NEW a \in Alert
    PROVE  /\ row'[a] \in Row
           /\ row'[a].status = row[a].status /\ row'[a].attempts = row[a].attempts
           /\ row'[a].raised = row[a].raised
           /\ row[a].status = "sending" => row'[a].busy = Least(row[a].busy + 1, Stale)
<1> DEFINE r == row[a]
<1>1. r \in Row
  BY DEF Shape, TypeOK
<1>2. row'[a] =
         CASE r.status = "failed" -> [r EXCEPT !.wait = IF @ > 0 THEN @ - 1 ELSE @]
           [] r.status = "pending" -> [r EXCEPT !.age = Least(@ + 1, PendingGrace)]
           [] r.status = "sending" -> [r EXCEPT !.busy = Least(@ + 1, Stale)]
           [] r.status = "sent" -> [r EXCEPT !.gone = Least(@ + 1, Hour)]
           [] OTHER -> r
  BY DEF Advance
<1> HIDE DEF r
<1> DEFINE u == IF r.wait > 0 THEN r.wait - 1 ELSE r.wait
           g == Least(r.age + 1, PendingGrace)
           b == Least(r.busy + 1, Stale)
           h == Least(r.gone + 1, Hour)
<1>3. u \in Nat /\ g \in 0 .. PendingGrace /\ b \in 0 .. Stale /\ h \in 0 .. Hour
  BY <1>1, Limits, SMTT(30) DEF Row, Least
<1> HIDE DEF u, g, b, h
<1>4. \/ r.status = "failed" /\ row'[a] = [r EXCEPT !.wait = u]
      \/ r.status = "pending" /\ row'[a] = [r EXCEPT !.age = g]
      \/ r.status = "sending" /\ row'[a] = [r EXCEPT !.busy = b]
      \/ r.status = "sent" /\ row'[a] = [r EXCEPT !.gone = h]
      \/ r.status \notin {"failed", "pending", "sending", "sent"} /\ row'[a] = r
  BY <1>2 DEF u, g, b, h
<1>5. /\ row'[a] \in Row
      /\ row'[a].status = r.status /\ row'[a].attempts = r.attempts
      /\ row'[a].raised = r.raised
      /\ r.status = "sending" => row'[a].busy = b
  BY <1>1, <1>3, <1>4 DEF Row
<1>6. QED BY <1>5 DEF r, b

\* What the clock does to a job.
LEMMA TickedJob ==
    ASSUME Shape, Advance, NEW w \in Worker
    PROVE  \/ ~Sending(w) /\ job'[w] = job[w]
           \/ Sending(w) /\ job[w].age + 1 < Stale /\ job'[w] = [job[w] EXCEPT !.age = @ + 1]
BY DEF Advance

LEMMA AdvanceShape == Shape /\ Advance => Shape'
<1> SUFFICES ASSUME Shape, Advance PROVE Shape'
  OBVIOUS
<1>1. hour' \in 0 .. Day - 1
  BY Limits DEF Advance, Shape, TypeOK
<1>2. chan' \in Channel /\ sweep' \in [Sweeper -> Sweep]
  <2>1. chan \in Channel /\ Least(chan.last + 1, 2) \in 0 .. 2
    BY DEF Least, Channel, Shape, TypeOK
  <2>2. PICK n \in 0 .. 2 : chan' = chan \/ chan' = [chan EXCEPT !.last = n]
    BY <2>1 DEF Advance
  <2>3. chan' \in Channel
    BY <2>1, <2>2 DEF Channel
  <2>4. \A s \in Sweeper : [sweep[s] EXCEPT !.days = 1] \in Sweep
    BY SweepFields DEF Shape, Sweep
  <2>5. QED BY <2>3, <2>4, SweepFields DEF Advance, Shape
<1>3. row' \in [Alert -> Row]
  <2>1. row' = [a \in Alert |-> row'[a]]
    BY DEF Advance
  <2>2. QED BY <2>1, TickedRow
<1>4. \A w \in Worker : Proper(job'[w])
  <2> TAKE w \in Worker
  <2>1. Proper(job[w])
    BY ProperFacts
  <2>2. CASE job'[w] = job[w]
    BY <2>1, <2>2
  <2>3. CASE Sending(w) /\ job[w].age + 1 < Stale /\ job'[w] = [job[w] EXCEPT !.age = @ + 1]
    <3> DEFINE n == job[w].age + 1
    <3>1. n \in 0 .. Stale - 1
      BY <2>1, <2>3, Limits DEF Proper, Job
    <3> HIDE DEF n
    <3>2. Proper([job[w] EXCEPT !.age = n])
      BY <2>1, <2>3, <3>1 DEF Proper, Job, Sending
    <3>3. job'[w] = [job[w] EXCEPT !.age = n]
      BY <2>3 DEF n
    <3>4. QED BY <3>2, <3>3
  <2>4. QED BY <2>2, <2>3, TickedJob
<1>5. job' = [w \in Worker |-> job'[w]]
  BY DEF Advance
<1>6. job' \in [Worker -> Job] /\ JobInv'
  BY <1>4, <1>5 DEF Proper, JobInv, Sending
<1>7. QED BY <1>1, <1>2, <1>3, <1>6 DEF Advance, Shape, TypeOK

LEMMA ShapeInit == Init => Shape
<1> SUFFICES ASSUME Init PROVE Shape
  OBVIOUS
<1>1. NoRow \in Row
  BY Limits DEF NoRow, Row
<1>2. Idle \in Job /\ Idle.pc = "idle" /\ Idle.age = 0
  BY IdleProper DEF Proper, Idle
<1>3. chan \in Channel
  BY DEF Init, Channel
<1>4. hour \in 0 .. Day - 1
  BY Limits DEF Init
<1>5. TypeOK
  <2>1. row \in [Alert -> Row] /\ job \in [Worker -> Job] /\ sweep \in [Sweeper -> Sweep]
    BY <1>1, <1>2, RestingType DEF Init
  <2>2. count \in [edits : 0 .. MaxEdits, retries : 0 .. MaxRetries, faults : 0 .. MaxFaults]
    BY LimitsAssumption DEF Init
  <2>3. accepted \in [Alert -> Nat] /\ unmarked \in [Alert -> Nat] /\ doubled \in [Alert -> Nat]
        /\ removing \in BOOLEAN
    BY DEF Init
  <2>4. QED BY <1>3, <1>4, <2>1, <2>2, <2>3 DEF TypeOK
<1>6. JobInv
  BY <1>2 DEF Init, JobInv, Sending
<1>7. QED BY <1>5, <1>6 DEF Shape

LEMMA ShapeStep == Shape /\ [Next]_vars => Shape'
<1> SUFFICES ASSUME Shape, [Next]_vars PROVE Shape'
  OBVIOUS
<1>1. CASE UNCHANGED vars
  BY <1>1 DEF vars, Shape, TypeOK, JobInv, Sending
<1>2. CASE Next
  BY <1>2, AdvanceShape, RaiseShape, RetryShape, RouteShape, CapShape, InsertShape,
     ClaimShape, LookupShape, SendShape, MarkShape, CrashShape, SweepShape, DeliverShape,
     SweepCrashShape, ConsoleShape DEF Next, Work, SweepStep
<1>3. QED BY <1>1, <1>2

(* The day, the channel, the rows, the workers and the sweeps have their   *)
(* types; in particular every wait is one of RETRY_DELAYS_MS: attempts     *)
(* never run past the list (markFailed).                                   *)
THEOREM TypeCorrect == Spec => []TypeOK
<1>1. Init => Shape
  BY ShapeInit
<1>2. Shape /\ [Next]_vars => Shape'
  BY ShapeStep
<1>3. Shape => TypeOK
  BY DEF Shape
<1>4. QED BY <1>1, <1>2, <1>3, PTL DEF Spec

-----------------------------------------------------------------------------
(* What most steps have in common: nobody starts to send, no row starts to *)
(* be sent, and the channel does not come back.                            *)
JobsShrink == \A w \in Worker :
    /\ Sending(w)' => /\ Sending(w)
                      /\ job'[w].id = job[w].id /\ job'[w].attempts = job[w].attempts
                      /\ job'[w].age = job[w].age
    /\ Live(w)' => Live(w)
RowsShrink == \A a \in Alert :
    /\ row'[a].attempts = row[a].attempts
    /\ row'[a].status = "sending" => row[a].status = "sending" /\ row'[a].busy = row[a].busy
OwnersStay == \A w \in Worker :
    chan'.exists /\ Sending(w)' => row'[job[w].id].status = "sending"
ChannelShrinks == chan'.exists => chan.exists
\* No sweep comes to have a batch in hand; none that has one changes it.
Busy(s) == sweep[s].pc \in {"send", "mark"}
BatchStays(s) ==
    /\ sweep'[s].pc = sweep[s].pc /\ sweep'[s].batch = sweep[s].batch
    /\ sweep'[s].reason = sweep[s].reason /\ sweep'[s].ok = sweep[s].ok
    /\ sweep'[s].again = sweep[s].again
SweepsShrink == \A s \in Sweeper : Busy(s)' => BatchStays(s)
SweepsSame == \A s \in Sweeper : Busy(s) \/ Busy(s)' => BatchStays(s)

LEMMA ShrinkFacts ==
    ASSUME SweepsShrink, NEW a \in Alert
    PROVE  /\ \A s \in Sweeper :
                /\ Holds(s, a)' => Holds(s, a) /\ sweep'[s].reason = sweep[s].reason
                /\ ToSend(s, a)' => ToSend(s, a)
                /\ ToRecord(s, a)' => ToRecord(s, a)
                /\ Repeated(s, a)' => Repeated(s, a)
           /\ InBatch(a)' => InBatch(a)
           /\ Ships(a)' => Ships(a)
           /\ Records(a)' => Records(a)
<1>1. \A s \in Sweeper :
        /\ Holds(s, a)' => Holds(s, a) /\ sweep'[s].reason = sweep[s].reason
        /\ ToSend(s, a)' => ToSend(s, a)
        /\ ToRecord(s, a)' => ToRecord(s, a)
        /\ Repeated(s, a)' => Repeated(s, a)
  BY DEF SweepsShrink, Busy, BatchStays, Holds, ToSend, ToRecord, Repeated
<1>2. QED BY <1>1 DEF InBatch, Ships, Records

LEMMA SameFacts ==
    ASSUME SweepsSame
    PROVE  /\ SweepsShrink
           /\ \A a \in Alert : /\ InBatch(a) <=> InBatch(a)'
                               /\ Ships(a) <=> Ships(a)'
                               /\ Records(a) <=> Records(a)'
<1>1. SweepsShrink
  BY DEF SweepsSame, SweepsShrink
<1>2. \A s \in Sweeper, a \in Alert :
        /\ Holds(s, a) => Holds(s, a)'
        /\ ToSend(s, a) => ToSend(s, a)'
        /\ ToRecord(s, a) => ToRecord(s, a)'
  BY DEF SweepsSame, Busy, BatchStays, Holds, ToSend, ToRecord
<1>3. \A a \in Alert : /\ InBatch(a) => InBatch(a)'
                       /\ Ships(a) => Ships(a)'
                       /\ Records(a) => Records(a)'
  BY <1>2 DEF InBatch, Ships, Records
<1>4. QED BY <1>1, <1>3, ShrinkFacts

LEMMA UntouchedSweeps ==
    ASSUME sweep' = sweep
    PROVE  /\ SweepsSame /\ SweepsShrink
           /\ \A a \in Alert : /\ InBatch(a) <=> InBatch(a)'
                               /\ Ships(a) <=> Ships(a)'
                               /\ Records(a) <=> Records(a)'
<1>1. SweepsSame
  BY DEF SweepsSame, BatchStays
<1>2. QED BY <1>1, SameFacts

\* Where a batch waits there is nothing for a worker to send.
LEMMA HeldStatus ==
    ASSUME TypeOK, BatchInv, chan.exists, NEW a \in Alert, InBatch(a)
    PROVE  row[a].status \in {"held", "digest", "digested"}
<1>1. PICK s \in Sweeper : Holds(s, a)
  BY DEF InBatch
<1>2. QED BY <1>1, SweepFields DEF BatchInv

LEMMA BatchKept ==
    ASSUME BatchInv, SweepsShrink, ChannelShrinks, removing' => ~chan'.exists,
           \A a \in Alert : chan'.exists /\ InBatch(a)'
               => row'[a].status \in {row[a].status, "digested"}
    PROVE  BatchInv'
<1>1. \A s \in Sweeper, a \in Alert :
        /\ Holds(s, a)' => Holds(s, a) /\ sweep'[s].reason = sweep[s].reason /\ InBatch(a)'
        /\ First(s, a)' => First(s, a)
  BY ShrinkFacts DEF First, InBatch
<1>2. \A s \in Sweeper, a \in Alert :
        chan'.exists /\ Holds(s, a)' => row'[a].status \in {sweep'[s].reason, "digested"}
  BY <1>1 DEF BatchInv, ChannelShrinks
<1>3. \A s \in Sweeper, a \in Alert :
        sweep'[s].pc \in {"send", "mark"} /\ a \in sweep'[s].again => a \in sweep'[s].batch
  BY DEF BatchInv, SweepsShrink, Busy, BatchStays
<1>4. \A s, t \in Sweeper, a \in Alert : First(s, a)' /\ First(t, a)' => s = t
  BY <1>1 DEF BatchInv
<1>5. QED BY <1>2, <1>3, <1>4 DEF BatchInv

LEMMA LiveSends == \A w \in Worker : Live(w) => Sending(w)
BY DEF Live, Sending

LEMMA JobFields ==
    ASSUME TypeOK
    PROVE  /\ \A w \in Worker : job[w].attempts \in Nat /\ job[w].age \in Nat
           /\ \A a \in Alert : row[a] \in Row /\ row[a].attempts \in Nat /\ row[a].busy \in Nat
           /\ MaxAttempts \in Nat /\ Total \in Nat
           /\ count.retries \in Nat /\ count.faults \in Nat
           /\ \A a \in Alert : accepted[a] \in Nat /\ Lost(a) \in Nat
BY Limits, SMTT(30) DEF TypeOK, Job, Row, Total, Lost

LEMMA OwnKept ==
    ASSUME Shape, Shape', OwnInv, JobsShrink, RowsShrink, OwnersStay, ChannelShrinks
    PROVE  OwnInv'
<1>1. \A w \in Worker : Sending(w)' =>
         /\ Sending(w) /\ job[w].id \in Alert /\ job'[w].id = job[w].id
         /\ job'[w].attempts = job[w].attempts /\ job'[w].age = job[w].age
         /\ row'[job[w].id].attempts = row[job[w].id].attempts
  BY DEF JobsShrink, RowsShrink, Shape, JobInv, Sending
<1>2. ASSUME NEW w \in Worker, Sending(w)'
      PROVE  /\ job'[w].attempts <= row'[job'[w].id].attempts
             /\ Owns(w)' /\ row'[job'[w].id].status = "sending"
                  => row'[job'[w].id].busy = job'[w].age
             /\ chan'.exists => Owns(w)' /\ row'[job'[w].id].status = "sending"
  BY <1>1, <1>2 DEF OwnInv, RowsShrink, OwnersStay, ChannelShrinks, Owns
<1>3. ASSUME NEW v \in Worker, NEW w \in Worker, Sending(v)', Sending(w)', v # w,
             job'[v].id = job'[w].id
      PROVE  job'[v].attempts # job'[w].attempts
  BY <1>1, <1>3 DEF OwnInv
<1>4. ASSUME NEW v \in Worker, NEW w \in Worker, Live(v)', Live(w)', job'[v].id = job'[w].id
      PROVE  v = w
  <2>1. Sending(v)' /\ Sending(w)' /\ Live(v) /\ Live(w)
    BY <1>4 DEF JobsShrink, Live, Sending
  <2>2. job[v].id = job[w].id
    BY <1>1, <1>4, <2>1
  <2>3. QED BY <2>1, <2>2 DEF OwnInv
<1>5. QED BY <1>2, <1>3, <1>4 DEF OwnInv

\* An alert comes open by a fault, a retry, a failed send that could have succeeded, or
\* its insertion.
Opens(a) ==
    Open(a)' => \/ Open(a)
                \/ Total' > Total
                \/ Slack(a) /\ ~Slack(a)'
                \/ row[a].attempts = 0 /\ ~Slack(a)'

LEMMA BudgetKept ==
    ASSUME Shape, Shape', BudgetInv, JobsShrink, RowsShrink, Total' >= Total,
           \A a \in Alert : Opens(a)
    PROVE  BudgetInv'
<1> SUFFICES ASSUME NEW a \in Alert
             PROVE  row'[a].attempts + (IF Slack(a)' THEN 1 ELSE 0) + (IF Open(a)' THEN 1 ELSE 0)
                       <= Total'
  BY DEF BudgetInv
<1>1. Slack(a)' => Slack(a)
  BY DEF Slack, JobsShrink, Live, Sending
<1>2. row'[a].attempts = row[a].attempts /\ row[a].attempts \in Nat
      /\ Total \in Nat /\ Total' \in Nat
  BY JobFields DEF RowsShrink, Shape, TypeOK, Total
<1>3. row[a].attempts + (IF Slack(a) THEN 1 ELSE 0) + (IF Open(a) THEN 1 ELSE 0) <= Total
  BY DEF BudgetInv
<1>4. Total >= 1
  BY JobFields, Limits DEF Total, Shape
<1>5. Opens(a)
  OBVIOUS
<1> DEFINE s == Slack(a) s2 == Slack(a)' o == Open(a) o2 == Open(a)'
<1>6. /\ s2 => s
      /\ o2 => o \/ Total' > Total \/ (s /\ ~s2) \/ (row[a].attempts = 0 /\ ~s2)
  BY <1>1, <1>5 DEF Opens
<1>7. row[a].attempts + (IF s THEN 1 ELSE 0) + (IF o THEN 1 ELSE 0) <= Total
  BY <1>3
<1> HIDE DEF s, s2, o, o2
<1>8. row'[a].attempts + (IF s2 THEN 1 ELSE 0) + (IF o2 THEN 1 ELSE 0) <= Total'
  BY <1>2, <1>4, <1>6, <1>7
<1>9. QED BY <1>8 DEF s2, o2

\* Messages are forgotten, never accepted; nobody starts to send.
Forgets(a) ==
    /\ accepted'[a] = accepted[a] /\ Lost(a)' >= Lost(a)
    /\ Sends(a)' => Sends(a)
    /\ Ships(a)' => Ships(a)
    /\ chan'.exists => chan.exists
    /\ chan'.exists /\ Learned(a) => Learned(a)' \/ Lost(a)' > Lost(a)

LEMMA SendKept ==
    ASSUME Shape, Shape', SendInv, \A a \in Alert : Forgets(a)
    PROVE  SendInv'
<1> SUFFICES ASSUME NEW a \in Alert
             PROVE  /\ accepted'[a] <= 1 + Lost(a)'
                    /\ Sends(a)' => accepted'[a] <= Lost(a)'
                    /\ Ships(a)' => accepted'[a] <= Lost(a)' /\ ~Sends(a)'
                    /\ chan'.exists /\ ~Learned(a)' => accepted'[a] <= Lost(a)'
  BY DEF SendInv
<1>1. Forgets(a)
  OBVIOUS
<1>2. /\ accepted[a] \in Nat /\ Lost(a) \in Nat /\ Lost(a)' \in Nat
  BY DEF Shape, TypeOK, Lost
<1>3. /\ accepted[a] <= 1 + Lost(a)
      /\ Sends(a) => accepted[a] <= Lost(a)
      /\ Ships(a) => accepted[a] <= Lost(a) /\ ~Sends(a)
      /\ chan.exists /\ ~Learned(a) => accepted[a] <= Lost(a)
  BY DEF SendInv
<1>4. QED BY <1>1, <1>2, <1>3 DEF Forgets

\* Rows and workers of raises only go forwards.
LEMMA RaiseKept ==
    ASSUME Shape, Shape', RaiseInv,
           \A a \in Alert : row'[a].raised = row[a].raised /\ (row'[a].status = "none" <=> row[a].status = "none"),
           \A a \in Alert : row'[a].status = "none" => row'[a].attempts = row[a].attempts,
           \A w \in Worker : Sending(w)' => row'[job'[w].id].status # "none",
           \A w \in Worker : Raising(w)' => Raising(w) /\ job'[w].id = job[w].id,
           \A a \in Alert : InBatch(a)' => row'[a].status # "none"
    PROVE  RaiseInv'
<1>1. \A w \in Worker : Raising(w) => job[w].id \in Alert
  BY DEF Shape, JobInv, Raising
<1>2. \A w \in Worker : Raising(w)' =>
         row'[job'[w].id].status = "none" /\ row'[job'[w].id].raised
  BY <1>1 DEF RaiseInv
<1>3. \A v, w \in Worker : Raising(v)' /\ Raising(w)' /\ job'[v].id = job'[w].id => v = w
  BY DEF RaiseInv
<1>4. \A a \in Alert :
         /\ ~row'[a].raised => row'[a].status = "none"
         /\ row'[a].status = "none" => row'[a].attempts = 0
  BY DEF RaiseInv
<1>5. QED BY <1>2, <1>3, <1>4 DEF RaiseInv

-----------------------------------------------------------------------------
(* Steps that neither send nor write a status.                             *)
Rest == OwnInv /\ BatchInv /\ BudgetInv /\ SendInv

Quiet ==
    /\ \A w \in Worker : Sending(w) \/ Sending(w)' =>
         /\ job'[w].pc = job[w].pc /\ job'[w].id = job[w].id /\ job'[w].out = job[w].out
         /\ job'[w].attempts = job[w].attempts /\ job'[w].age = job[w].age
    /\ \A a \in Alert :
         /\ row'[a].status = row[a].status /\ row'[a].attempts = row[a].attempts
         /\ row'[a].busy = row[a].busy
    /\ chan'.exists = chan.exists /\ removing' = removing
    /\ count'.retries = count.retries /\ count'.faults = count.faults
    /\ UNCHANGED <<accepted, unmarked, doubled>>
    /\ SweepsSame

LEMMA QuietKeeps == ASSUME IInv, Shape', Quiet PROVE Rest'
<1>1. \A w \in Worker :
        /\ Sending(w)' <=> Sending(w)
        /\ Live(w)' <=> Live(w)
        /\ Sending(w) => job[w].id \in Alert
  BY DEF Quiet, Sending, Live, IInv, JobInv
<1>2. JobsShrink
  BY <1>1 DEF Quiet, JobsShrink
<1>3. RowsShrink /\ ChannelShrinks /\ Shape
  BY DEF Quiet, RowsShrink, ChannelShrinks, IInv, Shape
<1>4. OwnersStay
  BY <1>1 DEF Quiet, OwnersStay, IInv, OwnInv
<1>5. OwnInv'
  BY <1>2, <1>3, <1>4, OwnKept DEF IInv
<1>6. BatchInv'
  <2>1. \A a \in Alert : row'[a].status = row[a].status
    BY DEF Quiet
  <2>2. (removing' => ~chan'.exists) /\ SweepsShrink
    BY SameFacts DEF Quiet, IInv, BatchInv
  <2>3. QED BY <1>3, <2>1, <2>2, BatchKept DEF IInv
<1>7. \A a \in Alert : Opens(a)
  <2> SUFFICES ASSUME NEW a \in Alert PROVE Open(a)' => Open(a)
    BY DEF Opens
  <2>1. \A w \in Worker : Owns(w) /\ job[w].id = a => Owns(w)' /\ job'[w].id = a
    BY <1>1 DEF Quiet, Owns
  <2>2. QED BY <2>1 DEF Quiet, Open
<1>8. BudgetInv'
  <2>1. Total' = Total
    BY DEF Quiet, Total
  <2>2. Total' >= Total
    BY <1>3, <2>1, JobFields DEF Shape
  <2>3. QED BY <1>2, <1>3, <1>7, <2>2, BudgetKept DEF IInv
<1>9. \A a \in Alert : Forgets(a)
  <2> SUFFICES ASSUME NEW a \in Alert PROVE Forgets(a)
    OBVIOUS
  <2>1. \A w \in Worker : /\ job'[w].pc = "send" /\ job'[w].id = a => job[w].pc = "send" /\ job[w].id = a
                          /\ Unrecorded(w, a) => Unrecorded(w, a)'
    BY DEF Quiet, Sending, Unrecorded
  <2>2. Lost(a)' >= Lost(a)
    BY <1>3, JobFields DEF Quiet, Shape, Lost
  <2>3. Sends(a)' => Sends(a)
    BY <2>1 DEF Sends
  <2>4. Ships(a)' => Ships(a)
    BY SameFacts DEF Quiet
  <2>5. Learned(a) => Learned(a)'
    BY <2>1, SameFacts DEF Learned, Quiet
  <2>6. QED BY <2>2, <2>3, <2>4, <2>5 DEF Quiet, Forgets
<1>10. SendInv'
  BY <1>3, <1>9, SendKept DEF IInv
<1>11. QED BY <1>5, <1>6, <1>8, <1>10 DEF Rest

LEMMA QuietRaises ==
    ASSUME IInv, Shape', Quiet,
           \A a \in Alert : row'[a].raised = row[a].raised,
           \A w \in Worker : Raising(w)' => Raising(w) /\ job'[w].id = job[w].id
    PROVE  RaiseInv'
<1>1. Shape /\ \A a \in Alert : row'[a].attempts = row[a].attempts
  BY DEF Quiet, IInv, Shape
<1>2. \A w \in Worker : Sending(w)' => row'[job'[w].id].status # "none"
  BY DEF Quiet, Sending, IInv, RaiseInv, JobInv
<1>3. \A a \in Alert : InBatch(a)' => row'[a].status # "none"
  BY SameFacts DEF Quiet, IInv, RaiseInv
<1>4. \A a \in Alert : row'[a].status = row[a].status
  BY DEF Quiet
<1>5. RaiseInv
  BY DEF IInv
<1>6. QED BY <1>1, <1>2, <1>3, <1>4, <1>5, RaiseKept

Kept == RaiseInv' /\ Rest'

LEMMA RouteKeeps == ASSUME IInv, Shape', NEW w \in Worker, Route(w) \/ Cap(w) PROVE Kept /\ Quiet
<1>1. /\ \A v \in Worker : v # w => job'[v] = job[v]
      /\ Raising(w) /\ ~Sending(w) /\ ~Sending(w)'
      /\ Raising(w)' => job'[w].id = job[w].id
  <2>1. job \in [Worker -> Job] /\ job[w].id = job[w].id
    BY DEF IInv, TypeOK
  <2>2. CASE Route(w)
    BY <2>1, <2>2 DEF Route, Raising, Sending, Idle, Job
  <2>3. CASE Cap(w)
    BY <2>1, <2>3 DEF Cap, Raising, Sending, Job
  <2>4. QED BY <2>2, <2>3
<1>2. /\ UNCHANGED <<row, chan, sweep, removing, count, accepted, unmarked, doubled>>
  BY DEF Route, Cap
<1>3. Quiet
  BY <1>1, <1>2, UntouchedSweeps DEF Quiet
<1>4. RaiseInv'
  BY <1>1, <1>2, <1>3, QuietRaises DEF Raising
<1>5. QED BY <1>3, <1>4, QuietKeeps DEF Kept

LEMMA RaiseKeeps == ASSUME IInv, Shape', NEW w \in Worker, NEW a \in Alert, Raise(w, a) PROVE Kept /\ Quiet
<1>1. /\ \A v \in Worker : v # w => job'[v] = job[v]
      /\ job[w].pc = "idle" /\ job'[w].pc = "route" /\ job'[w].id = a
  BY DEF Raise, Start, Idle, IInv, TypeOK
<1>2. /\ \A b \in Alert : b # a => row'[b] = row[b]
      /\ row'[a].status = row[a].status /\ row'[a].attempts = row[a].attempts
      /\ row'[a].busy = row[a].busy /\ row'[a].raised /\ ~row[a].raised
  <2>1. PICK c \in BOOLEAN : row' = [row EXCEPT ![a] = [@ EXCEPT !.raised = TRUE, !.critical = c]]
    BY DEF Raise
  <2>2. row[a] \in Row /\ row \in [Alert -> Row]
    BY DEF IInv, TypeOK
  <2>3. QED BY <2>1, <2>2 DEF Raise, Row
<1>3. SweepsSame /\ UNCHANGED <<chan, removing, count, accepted, unmarked, doubled>>
  <2>1. \A s \in Sweeper : BatchStays(s)
    BY SweepFields DEF Raise, BatchStays, IInv, Sweep
  <2>2. QED BY <2>1 DEF Raise, SweepsSame
<1>4. Quiet
  BY <1>1, <1>2, <1>3 DEF Quiet, Sending
<1>5. RaiseInv'
  <2>1. /\ \A b \in Alert : row'[b].status = row[b].status /\ row'[b].attempts = row[b].attempts
                            /\ (row[b].raised => row'[b].raised) /\ (b # a => row'[b].raised = row[b].raised)
        /\ row[a].status = "none"
    BY <1>2 DEF IInv, RaiseInv
  <2>2. \A v \in Worker : /\ Sending(v)' => Sending(v) /\ v # w
                          /\ Raising(v)' /\ v # w => Raising(v) /\ job[v].id \in Alert /\ job[v].id # a
                          /\ job[v].pc # "idle" => job[v].id \in Alert
    BY <1>1, <1>2 DEF Sending, Raising, IInv, RaiseInv, JobInv
  <2>3. \A b \in Alert :
         /\ ~row'[b].raised => row'[b].status = "none"
         /\ row'[b].status = "none" => row'[b].attempts = 0
         /\ InBatch(b)' => row'[b].status # "none"
    BY <1>2, <1>3, <2>1, SameFacts DEF IInv, RaiseInv
  <2>4. \A v \in Worker : Sending(v)' => row'[job'[v].id].status # "none"
    BY <1>1, <2>1, <2>2 DEF IInv, RaiseInv, Sending
  <2>5. \A v \in Worker : Raising(v)' => row'[job'[v].id].status = "none" /\ row'[job'[v].id].raised
    BY <1>1, <1>2, <2>1, <2>2 DEF IInv, RaiseInv
  <2>6. \A u, v \in Worker : Raising(u)' /\ Raising(v)' /\ job'[u].id = job'[v].id => u = v
    BY <1>1, <2>2 DEF IInv, RaiseInv
  <2>7. QED BY <2>3, <2>4, <2>5, <2>6 DEF RaiseInv
<1>6. QED BY <1>4, <1>5, QuietKeeps DEF Kept

LEMMA DeliverKeeps ==
    ASSUME IInv, Shape', NEW s \in Sweeper, NEW w \in Worker, SweepDeliver(s, w) PROVE Kept /\ Quiet
<1>1. /\ \A v \in Worker : v # w => job'[v] = job[v]
      /\ job[w].pc = "idle" /\ job'[w].pc = "claim"
  BY DEF SweepDeliver, Idle, IInv, TypeOK
<1>2. UNCHANGED <<row, chan, removing, count, accepted, unmarked, doubled>>
  BY DEF SweepDeliver
<1>3. SweepsSame
  <2>1. PICK b : sweep' = [sweep EXCEPT ![s] = [sweep[s] EXCEPT !.batch = b]]
    BY DEF SweepDeliver
  <2>2. /\ sweep[s].pc = "retry" /\ sweep'[s].pc = "retry"
        /\ \A t \in Sweeper : t # s => sweep'[t] = sweep[t]
    BY <2>1, SweepFields DEF SweepDeliver, IInv, Sweep
  <2>3. QED BY <2>2 DEF SweepsSame, Busy, BatchStays
<1>4. Quiet
  BY <1>1, <1>2, <1>3 DEF Quiet, Sending
<1>5. RaiseInv'
  BY <1>1, <1>2, <1>4, QuietRaises DEF Raising
<1>6. QED BY <1>4, <1>5, QuietKeeps DEF Kept

\* The sweep's and the channel's steps that write no row, and a step of nobody.
LEMMA ClockFreeKeeps ==
    ASSUME IInv, Shape',
           \/ \E s \in Sweeper : SweepStart(s) \/ SweepRetried(s) \/ SweepRecord(s)
           \/ UpdateChannel \/ UNCHANGED vars
    PROVE  Kept /\ Quiet
<1>1. /\ UNCHANGED <<row, job, removing, accepted, unmarked, doubled>> /\ chan'.exists = chan.exists
      /\ count'.retries = count.retries /\ count'.faults = count.faults
  <2>1. chan \in Channel /\ count = count
    BY DEF IInv, TypeOK
  <2>2. CASE UpdateChannel \/ \E s \in Sweeper : SweepRecord(s)
    <3>1. PICK d, m, e : chan' = [chan EXCEPT !.last = d] \/ chan' = [chan EXCEPT !.mode = m]
                         \/ chan' = [chan EXCEPT !.enabled = e]
      BY <2>2 DEF SweepRecord, UpdateChannel
    <3>2. chan'.exists = chan.exists
      BY <2>1, <3>1 DEF Channel
    <3>3. count'.retries = count.retries /\ count'.faults = count.faults
      BY <2>2 DEF SweepRecord, UpdateChannel, Edit, IInv, TypeOK
    <3>4. QED BY <2>2, <3>2, <3>3 DEF SweepRecord, UpdateChannel
  <2>3. CASE UNCHANGED vars \/ \E s \in Sweeper : SweepStart(s) \/ SweepRetried(s)
    BY <2>3 DEF SweepStart, SweepRetried, vars
  <2>4. QED BY <2>2, <2>3
<1>2. SweepsSame
  <2>1. CASE UpdateChannel \/ UNCHANGED vars
    BY <2>1, UntouchedSweeps DEF UpdateChannel, vars
  <2>2. ASSUME NEW s \in Sweeper, SweepStart(s) \/ SweepRetried(s) \/ SweepRecord(s)
        PROVE  SweepsSame
    <3>1. sweep \in [Sweeper -> Sweep] /\ sweep[s] \in Sweep
      BY SweepFields DEF IInv
    <3>2. sweep[s].pc \notin {"send", "mark"}
      BY <2>2 DEF SweepStart, SweepRetried, SweepRecord
    <3>3. /\ \A t \in Sweeper : t # s => sweep'[t] = sweep[t]
          /\ sweep'[s].pc \in {"idle", "retry", "held"}
      <4>1. CASE SweepStart(s)
        BY <3>1, <4>1 DEF SweepStart, Resting
      <4>2. CASE SweepRetried(s)
        BY <3>1, <4>2 DEF SweepRetried, Sweep
      <4>3. CASE SweepRecord(s)
        BY <3>1, <4>3 DEF SweepRecord, Resting
      <4>4. QED BY <2>2, <4>1, <4>2, <4>3
    <3>4. QED BY <3>2, <3>3 DEF SweepsSame, Busy, BatchStays
  <2>3. QED BY <2>1, <2>2
<1>3. Quiet
  BY <1>1, <1>2 DEF Quiet
<1>4. RaiseInv'
  BY <1>1, <1>3, QuietRaises DEF Raising
<1>5. QED BY <1>3, <1>4, QuietKeeps DEF Kept

-----------------------------------------------------------------------------
(* While the channel exists, an alert has one sender, whose row is fresh.  *)
LEMMA OneOwner ==
    ASSUME IInv, chan.exists, NEW w \in Worker, Sending(w)
    PROVE  /\ job[w].id \in Alert /\ row[job[w].id].status = "sending"
           /\ row[job[w].id].busy < Stale /\ ~Claimable(row[job[w].id])
           /\ \A v \in Worker : Sending(v) /\ job[v].id = job[w].id => v = w
<1>1. /\ job[w].id \in Alert /\ row[job[w].id].status = "sending"
      /\ row[job[w].id].busy = job[w].age
  BY DEF IInv, JobInv, OwnInv, Sending
<1>2. job[w].age < Stale
  BY Limits DEF IInv, TypeOK, Job
<1>3. \A v \in Worker : Sending(v) /\ job[v].id = job[w].id => v = w
  BY DEF IInv, OwnInv, Owns
<1>4. row[job[w].id].busy < Stale
  BY <1>1, <1>2
<1>5. ~Claimable(row[job[w].id])
  <2>1. Stale \in Nat /\ row[job[w].id].busy # Stale
    BY <1>4, Limits
  <2>2. QED BY <1>1, <2>1 DEF Claimable
<1>6. QED BY <1>1, <1>3, <1>4, <1>5

\* A row nobody sends, that is not recorded as gone out, owes its message.
LEMMA Owed ==
    ASSUME IInv, chan.exists, NEW a \in Alert,
           row[a].status \notin {"sent", "digested"}, ~Records(a),
           \A w \in Worker : ~Unrecorded(w, a)
    PROVE  accepted[a] <= Lost(a)
BY DEF IInv, SendInv, Learned

\* An alert none of whose pieces the step touches.
LEMMA OpenSame ==
    ASSUME NEW a \in Alert, row'[a] = row[a],
           \A w \in Worker : Owns(w) /\ job[w].id = a => job'[w] = job[w]
    PROVE  Opens(a)
<1>1. \A w \in Worker : Owns(w) /\ job[w].id = a => Owns(w)' /\ job'[w].id = a
  BY DEF Owns, Sending
<1>2. QED BY <1>1 DEF Opens, Open

\* Only worker w moves, from a step that does not send to one that does not.
LEMMA BystandersShrink ==
    ASSUME NEW w \in Worker, ~Sending(w)', \A v \in Worker : v # w => job'[v] = job[v],
           ChannelShrinks
    PROVE  JobsShrink
BY DEF JobsShrink, Sending, Live, ChannelShrinks

LEMMA InsertEffect ==
    ASSUME IInv, NEW w \in Worker, Insert(w), NEW a, a = job[w].id
    PROVE  /\ \A v \in Worker : v # w => job'[v] = job[v]
           /\ Raising(w) /\ ~Raising(w)' /\ ~Sending(w) /\ ~Sending(w)'
           /\ a \in Alert /\ row[a].status = "none" /\ row[a].attempts = 0 /\ row[a].raised
           /\ \A b \in Alert : b # a => row'[b] = row[b]
           /\ row'[a].status \in {"pending", "held", "digest"} /\ row'[a].attempts = 0
           /\ row'[a].raised
<1>1. /\ \A v \in Worker : v # w => job'[v] = job[v]
      /\ Raising(w) /\ ~Raising(w)' /\ ~Sending(w) /\ ~Sending(w)'
      /\ a \in Alert /\ row[a].status = "none" /\ row[a].attempts = 0 /\ row[a].raised
  <2>1. job'[w].pc \in {"idle", "claim"} /\ \A v \in Worker : v # w => job'[v] = job[v]
    <3>1. PICK r : job' = [job EXCEPT ![w] = r] /\ r.pc \in {"idle", "claim"}
      <4>1. CASE job[w].plan = "pending"
        <5>1. [Idle EXCEPT !.pc = "claim", !.id = job[w].id].pc = "claim"
          BY DEF Idle
        <5>2. job' = [job EXCEPT ![w] = [Idle EXCEPT !.pc = "claim", !.id = job[w].id]]
          BY <4>1 DEF Insert, Start
        <5>3. QED BY <5>1, <5>2
      <4>2. CASE job[w].plan # "pending"
        <5>1. Idle.pc = "idle"
          BY DEF Idle
        <5>2. job' = [job EXCEPT ![w] = Idle]
          BY <4>2 DEF Insert
        <5>3. QED BY <5>1, <5>2
      <4>3. QED BY <4>1, <4>2
    <3>2. job \in [Worker -> Job]
      BY DEF IInv, TypeOK
    <3>3. QED BY <3>1, <3>2
  <2>2. job[w].pc = "insert"
    BY DEF Insert
  <2>3. QED BY <2>1, <2>2 DEF Raising, Sending, IInv, JobInv, RaiseInv
<1>2. /\ \A b \in Alert : b # a => row'[b] = row[b]
      /\ row'[a].status \in {"pending", "held", "digest"} /\ row'[a].attempts = 0
      /\ row'[a].raised
  <2>1. job[w].plan \in {"pending", "held", "digest"} /\ row \in [Alert -> Row]
    BY DEF IInv, TypeOK, Job
  <2>2. row' = [row EXCEPT ![a] = Into(row[a], job[w].plan)]
    BY DEF Insert
  <2>3. job[w].plan \in Statuses
    BY <2>1 DEF Statuses, Unfinished
  <2>4. QED BY <1>1, <2>1, <2>2, <2>3, IntoFacts
<1>3. QED BY <1>1, <1>2

LEMMA InsertKeeps == ASSUME IInv, Shape', NEW w \in Worker, Insert(w) PROVE Kept
<1>0. PICK a : a = job[w].id
  OBVIOUS
<1>1. /\ \A v \in Worker : v # w => job'[v] = job[v]
      /\ Raising(w) /\ ~Raising(w)' /\ ~Sending(w) /\ ~Sending(w)'
      /\ a \in Alert /\ row[a].status = "none" /\ row[a].attempts = 0 /\ row[a].raised
      /\ a = job[w].id
  BY <1>0, InsertEffect
<1>2. /\ \A b \in Alert : b # a => row'[b] = row[b]
      /\ row'[a].status \in {"pending", "held", "digest"} /\ row'[a].attempts = 0
      /\ row'[a].raised
  BY <1>0, InsertEffect
<1>3. /\ UNCHANGED <<chan, sweep, removing, count, accepted, unmarked, doubled>> /\ Shape
  BY DEF Insert, IInv, Shape
<1>4. \A v \in Worker : Sending(v) => job[v].id \in Alert /\ job[v].id # a
  BY <1>1 DEF IInv, RaiseInv, JobInv, Sending
<1>5. JobsShrink
  BY <1>1, <1>3, BystandersShrink DEF ChannelShrinks
<1>6. RowsShrink
  BY <1>1, <1>2 DEF RowsShrink
<1>7. OwnInv'
  <2>1. OwnersStay
    BY <1>1, <1>2, <1>3, <1>4 DEF OwnersStay, JobsShrink, IInv, OwnInv, Sending
  <2>2. QED BY <1>3, <1>5, <1>6, <2>1, OwnKept DEF ChannelShrinks, IInv
<1>8. BatchInv'
  <2>1. ~InBatch(a)' /\ (removing' => ~chan'.exists) /\ SweepsShrink /\ ChannelShrinks
    BY <1>1, <1>3, UntouchedSweeps DEF IInv, RaiseInv, BatchInv, ChannelShrinks
  <2>2. QED BY <1>2, <2>1, BatchKept DEF IInv
<1>9. BudgetInv'
  <2>1. ASSUME NEW b \in Alert, b # a PROVE Opens(b)
    BY <1>1, <1>2, <2>1, OpenSame DEF Owns
  <2>2. Opens(a)
    <3>1. \A v \in Worker : Live(v)' => Sending(v) /\ job'[v].id = job[v].id
      <4> TAKE v \in Worker
      <4>1. Live(v)' => Sending(v)'
        BY DEF Live, Sending
      <4>2. Sending(v)' => Sending(v) /\ job'[v].id = job[v].id
        BY <1>5 DEF JobsShrink
      <4>3. QED BY <4>1, <4>2
    <3>2. ~Slack(a)'
      BY <1>4, <3>1 DEF Slack
    <3>3. QED BY <1>1, <3>2 DEF Opens
  <2>3. Total' >= Total
    BY <1>3, JobFields DEF Total, Shape
  <2>4. QED BY <1>3, <1>5, <1>6, <2>1, <2>2, <2>3, BudgetKept DEF IInv
<1>10. SendInv'
  <2> SUFFICES ASSUME NEW b \in Alert PROVE Forgets(b)
    BY <1>3, SendKept DEF IInv
  <2>1. \A v \in Worker : Unrecorded(v, b) => Unrecorded(v, b)'
    BY <1>1 DEF Unrecorded, Sending
  <2>2. Learned(b) => Learned(b)'
    BY <1>1, <1>2, <1>3, <2>1, UntouchedSweeps DEF Learned
  <2>3. Sends(b)' => Sends(b)
    BY <1>1 DEF Sends, Sending
  <2>4. Lost(b)' >= Lost(b)
    BY <1>3, JobFields DEF Shape, Lost
  <2>5. QED BY <1>3, <2>2, <2>3, <2>4, UntouchedSweeps DEF Forgets
<1>11. RaiseInv'
  <2>1. \A v \in Worker : Raising(v)' => v # w /\ Raising(v) /\ job[v].id \in Alert /\ job[v].id # a
    BY <1>1 DEF Raising, IInv, RaiseInv, JobInv
  <2>2. \A v \in Worker : Sending(v)' => v # w /\ Sending(v)
    BY <1>1 DEF Sending
  <2>3. \A b \in Alert :
         /\ ~row'[b].raised => row'[b].status = "none"
         /\ row'[b].status = "none" => row'[b].attempts = 0
         /\ InBatch(b)' => row'[b].status # "none"
    BY <1>2, <1>3, UntouchedSweeps DEF IInv, RaiseInv
  <2>4. \A v \in Worker : Sending(v)' => row'[job'[v].id].status # "none"
    BY <1>1, <1>2, <1>4, <2>2 DEF IInv, RaiseInv
  <2>5. \A v \in Worker : Raising(v)' => row'[job'[v].id].status = "none" /\ row'[job'[v].id].raised
    BY <1>1, <1>2, <2>1 DEF IInv, RaiseInv
  <2>6. \A u, v \in Worker : Raising(u)' /\ Raising(v)' /\ job'[u].id = job'[v].id => u = v
    BY <1>1, <2>1 DEF IInv, RaiseInv
  <2>7. QED BY <2>3, <2>4, <2>5, <2>6 DEF RaiseInv
<1>12. QED BY <1>7, <1>8, <1>9, <1>10, <1>11 DEF Kept, Rest

\* Steps of a worker or the console that write no status "none".
LEMMA RaisesGoOn ==
    ASSUME IInv, Shape', RowsShrink, JobsShrink,
           \A a \in Alert : row'[a].raised = row[a].raised /\ (row'[a].status = "none" <=> row[a].status = "none"),
           \A w \in Worker : Raising(w)' => Raising(w) /\ job'[w].id = job[w].id,
           \A a \in Alert : InBatch(a)' => row[a].status # "none"
    PROVE  RaiseInv'
<1>1. \A w \in Worker : Sending(w)' => row'[job'[w].id].status # "none"
  BY DEF JobsShrink, IInv, RaiseInv, JobInv, Sending
<1>2. Shape /\ RaiseInv
  BY DEF IInv, Shape
<1>3. \A a \in Alert : InBatch(a)' => row'[a].status # "none"
  OBVIOUS
<1>4. \A a \in Alert : row'[a].status = "none" => row'[a].attempts = row[a].attempts
  BY DEF RowsShrink
<1>5. QED BY <1>1, <1>2, <1>3, <1>4, RaiseKept

LEMMA RetryEffect ==
    ASSUME TypeOK, NEW w \in Worker, NEW a \in Alert, Retry(w, a)
    PROVE  /\ \A b \in Alert : b # a => row'[b] = row[b]
           /\ row[a].status \in {"failed", "dead"}
           /\ row'[a].status = "pending" /\ row'[a].attempts = row[a].attempts
           /\ row'[a].raised = row[a].raised
<1>1. PICK age \in 0 .. PendingGrace :
        row' = [row EXCEPT ![a] = [Into(@, "pending") EXCEPT !.age = age]]
  BY DEF Retry
<1>2. row \in [Alert -> Row] /\ "pending" \in Statuses
  BY DEF TypeOK, Statuses, Unfinished
<1> DEFINE s == Into(row[a], "pending")
<1>3. s \in Row /\ s.status = "pending" /\ s.attempts = row[a].attempts /\ s.raised = row[a].raised
  BY <1>2, IntoFacts
<1>4. row' = [row EXCEPT ![a] = [s EXCEPT !.age = age]]
  BY <1>1, <1>2
<1> HIDE DEF s
<1>5. QED BY <1>2, <1>3, <1>4 DEF Retry, Row

LEMMA RetryKeeps == ASSUME IInv, Shape', NEW w \in Worker, NEW a \in Alert, Retry(w, a) PROVE Kept
<1>1. /\ \A v \in Worker : v # w => job'[v] = job[v]
      /\ ~Raising(w)' /\ ~Sending(w) /\ ~Sending(w)'
  BY DEF Retry, Start, Idle, IInv, TypeOK, Raising, Sending
<1>2. /\ \A b \in Alert : b # a => row'[b] = row[b]
      /\ row[a].status \in {"failed", "dead"}
      /\ row'[a].status = "pending" /\ row'[a].attempts = row[a].attempts
      /\ row'[a].raised = row[a].raised
  BY RetryEffect DEF IInv
<1>3. /\ UNCHANGED <<chan, sweep, removing, accepted, unmarked, doubled>> /\ Shape
      /\ Total' = Total + 1
  <2>1. Shape
    BY DEF IInv, Shape
  <2>2. count'.retries = count.retries + 1 /\ count'.faults = count.faults
    BY DEF Retry, IInv, TypeOK
  <2>3. Total' = Total + 1
    BY <2>1, <2>2, JobFields DEF Total, Shape
  <2>4. QED BY <2>1, <2>3 DEF Retry
<1>4. JobsShrink /\ RowsShrink /\ ChannelShrinks
  BY <1>1, <1>2, <1>3, BystandersShrink DEF ChannelShrinks, RowsShrink
<1>5. OwnInv'
  <2>1. OwnersStay
    <3> SUFFICES ASSUME NEW v \in Worker, chan'.exists, Sending(v)'
                 PROVE  row'[job[v].id].status = "sending"
      BY DEF OwnersStay
    <3>1. Sending(v) /\ chan.exists
      BY <1>3, <1>4 DEF JobsShrink
    <3>2. QED BY <1>2, <3>1, OneOwner
  <2>2. QED BY <1>3, <1>4, <2>1, OwnKept DEF IInv
<1>6. BatchInv'
  <2>1. chan.exists => ~InBatch(a)
    BY <1>2, HeldStatus DEF IInv
  <2>2. (removing' => ~chan'.exists) /\ SweepsShrink /\ (InBatch(a)' => InBatch(a))
    BY <1>3, UntouchedSweeps DEF IInv, BatchInv
  <2>3. QED BY <1>2, <1>3, <1>4, <2>1, <2>2, BatchKept DEF IInv
<1>7. BudgetInv'
  <2>1. Total' > Total
    BY <1>3, JobFields DEF Shape
  <2>2. Total' >= Total /\ \A b \in Alert : Opens(b)
    BY <1>3, <2>1, JobFields DEF Opens, Shape
  <2>3. QED BY <1>3, <1>4, <2>2, BudgetKept DEF IInv
<1>8. SendInv'
  <2> SUFFICES ASSUME NEW b \in Alert PROVE Forgets(b)
    BY <1>3, SendKept DEF IInv
  <2>1. \A v \in Worker : Unrecorded(v, b) => Unrecorded(v, b)'
    BY <1>1 DEF Unrecorded, Sending
  <2>2. Learned(b) => Learned(b)'
    BY <1>2, <1>3, <2>1, UntouchedSweeps DEF Learned
  <2>3. Sends(b)' => Sends(b)
    BY <1>1 DEF Sends, Sending
  <2>4. Lost(b)' >= Lost(b)
    BY <1>3, JobFields DEF Shape, Lost
  <2>5. QED BY <1>3, <2>2, <2>3, <2>4, UntouchedSweeps DEF Forgets
<1>9. RaiseInv'
  <2>1. \A v \in Worker : Raising(v)' => Raising(v) /\ job'[v].id = job[v].id
    BY <1>1 DEF Raising
  <2>2. \A b \in Alert : /\ row'[b].raised = row[b].raised /\ (row'[b].status = "none" <=> row[b].status = "none")
                         /\ (InBatch(b)' => row[b].status # "none")
    BY <1>2, <1>3, UntouchedSweeps DEF IInv, RaiseInv
  <2>3. QED BY <1>4, <2>1, <2>2, RaisesGoOn
<1>10. QED BY <1>5, <1>6, <1>7, <1>8, <1>9 DEF Kept, Rest

-----------------------------------------------------------------------------
(* deliver().                                                              *)
LEMMA ClaimEffect ==
    ASSUME Shape, NEW w \in Worker, Claim(w), NEW a, a = job[w].id, Claimable(row[a])
    PROVE  /\ \A v \in Worker : v # w => job'[v] = job[v]
           /\ job'[w].pc = "lookup" /\ job'[w].id = a /\ job'[w].age = 0
           /\ job'[w].attempts = row[a].attempts + 1
           /\ \A b \in Alert : b # a => row'[b] = row[b]
           /\ row'[a].status = "sending" /\ row'[a].busy = 0
           /\ row'[a].attempts = row[a].attempts + 1
           /\ row'[a].raised = row[a].raised
<1>1. /\ job \in [Worker -> Job] /\ row \in [Alert -> Row] /\ a \in Alert /\ row[a] \in Row
      /\ job[w].age = 0
  BY DEF Claim, Shape, TypeOK, JobInv, Sending
<1>2. PICK n : n = row[a].attempts + 1
  OBVIOUS
<1>3. job' = [job EXCEPT ![w].pc = "lookup", ![w].attempts = n]
  BY <1>2 DEF Claim
<1>4. row' = [row EXCEPT ![a] = Claimed(row[a])]
  BY DEF Claim
<1>5. /\ \A v \in Worker : v # w => job'[v] = job[v]
      /\ job'[w].pc = "lookup" /\ job'[w].id = a /\ job'[w].attempts = n /\ job'[w].age = 0
  BY <1>1, <1>3 DEF Job
<1>6. QED BY <1>1, <1>2, <1>4, <1>5, ClaimedFacts

LEMMA ClaimKeeps == ASSUME IInv, Shape', NEW w \in Worker, Claim(w) PROVE Kept
<1>0. PICK a : a = job[w].id
  OBVIOUS
<1>1. /\ job \in [Worker -> Job] /\ row \in [Alert -> Row] /\ a \in Alert /\ Shape
      /\ job[w].pc = "claim" /\ ~Sending(w) /\ job[w].age = 0
      /\ UNCHANGED <<chan, sweep, removing, count, accepted, unmarked, doubled>>
  BY <1>0 DEF Claim, IInv, TypeOK, JobInv, Sending, Shape
<1>2. CASE ~Claimable(row[a])
  <2>1. /\ \A v \in Worker : v # w => job'[v] = job[v]
        /\ job'[w].pc = "idle" /\ UNCHANGED row
    BY <1>0, <1>1, <1>2 DEF Claim, Idle
  <2>2. Quiet
    BY <1>1, <2>1, UntouchedSweeps DEF Quiet, Sending
  <2>3. RaiseInv'
    BY <2>1, <2>2, QuietRaises DEF Raising
  <2>4. QED BY <2>2, <2>3, QuietKeeps DEF Kept
<1>3. CASE Claimable(row[a])
  <2>1. PICK n : n = row[a].attempts + 1
    OBVIOUS
  <2>2. row[a].attempts \in Nat /\ n \in Nat /\ MaxAttempts \in Nat /\ Total \in Nat
        /\ \A v \in Worker : job[v].attempts \in Nat
    BY <1>1, <2>1, JobFields DEF Shape
  <2>3. /\ \A v \in Worker : v # w => job'[v] = job[v]
        /\ job'[w].pc = "lookup" /\ job'[w].id = a /\ job'[w].attempts = n /\ job'[w].age = 0
    BY <1>0, <1>1, <1>3, <2>1, ClaimEffect
  <2>4. /\ \A b \in Alert : b # a => row'[b] = row[b]
        /\ row'[a].status = "sending" /\ row'[a].busy = 0 /\ row'[a].attempts = n
        /\ row'[a].raised = row[a].raised
    BY <1>0, <1>1, <1>3, <2>1, ClaimEffect
  <2>5. row[a].status \in {"pending", "failed", "sending"}
    BY <1>3 DEF Claimable
  <2>6. \A v \in Worker : Sending(v) => /\ job[v].id \in Alert /\ v # w
                                        /\ job[v].attempts <= row[job[v].id].attempts
                                        /\ (chan.exists => job[v].id # a)
    BY <1>1, <1>3, OneOwner DEF IInv, JobInv, OwnInv, Sending
  <2>7. \A v \in Worker : v # w => /\ Sending(v)' <=> Sending(v)
                                   /\ Live(v)' <=> Live(v)
                                   /\ Owns(v)' /\ Sending(v) => job[v].id # a
                                   /\ Sending(v) /\ job[v].id # a => (Owns(v)' <=> Owns(v))
    BY <1>1, <2>1, <2>2, <2>3, <2>4, <2>6 DEF Sending, Live, Owns
  <2>8. Sending(w)' /\ Owns(w)' /\ (Live(w)' => chan.exists)
    BY <1>1, <2>3, <2>4 DEF Sending, Owns, Live
  <2>9. OwnInv'
    <3>1. ASSUME NEW v \in Worker, Sending(v)'
          PROVE  /\ job'[v].attempts <= row'[job'[v].id].attempts
                 /\ Owns(v)' /\ row'[job'[v].id].status = "sending"
                      => row'[job'[v].id].busy = job'[v].age
                 /\ chan'.exists => Owns(v)' /\ row'[job'[v].id].status = "sending"
      <4>1. CASE v = w
        BY <2>2, <2>3, <2>4, <2>8, <4>1
      <4>2. CASE v # w /\ job[v].id = a
        <5>1. Sending(v) /\ ~chan.exists /\ ~Owns(v)' /\ job[v].attempts <= row[a].attempts
          BY <2>6, <2>7, <3>1, <4>2
        <5>2. QED BY <1>1, <2>1, <2>2, <2>3, <2>4, <4>2, <5>1
      <4>3. CASE v # w /\ job[v].id # a
        <5>1. Sending(v) /\ job'[v] = job[v] /\ row'[job[v].id] = row[job[v].id] /\ (Owns(v)' <=> Owns(v))
          BY <2>3, <2>4, <2>6, <2>7, <3>1, <4>3
        <5>2. QED BY <1>1, <5>1 DEF IInv, OwnInv
      <4>4. QED BY <4>1, <4>2, <4>3
    <3>2. ASSUME NEW u \in Worker, NEW v \in Worker, Sending(u)', Sending(v)', u # v,
                 job'[u].id = job'[v].id
          PROVE  job'[u].attempts # job'[v].attempts
      <4>1. \A x \in Worker : Sending(x)' /\ x # w /\ job'[x].id = a => job'[x].attempts < n
        BY <2>1, <2>2, <2>3, <2>6, <2>7
      <4>2. CASE u = w \/ v = w
        BY <2>2, <2>3, <3>2, <4>1, <4>2
      <4>3. CASE u # w /\ v # w
        BY <2>3, <2>7, <3>2, <4>3 DEF IInv, OwnInv
      <4>4. QED BY <4>2, <4>3
    <3>3. ASSUME NEW u \in Worker, NEW v \in Worker, Live(u)', Live(v)', job'[u].id = job'[v].id
          PROVE  u = v
      <4>1. CASE u = w \/ v = w
        <5>1. chan.exists
          BY <2>8, <3>3, <4>1
        <5>2. \A x \in Worker : x # w /\ Live(x)' => job'[x].id # a
          BY <2>3, <2>6, <2>7, <5>1, LiveSends
        <5>3. QED BY <2>3, <3>3, <4>1, <5>2
      <4>2. CASE u # w /\ v # w
        BY <2>3, <2>7, <3>3, <4>2 DEF IInv, OwnInv
      <4>3. QED BY <4>1, <4>2
    <3>4. QED BY <3>1, <3>2, <3>3 DEF OwnInv
  <2>10. BatchInv'
    <3>1. chan.exists => ~InBatch(a)
      BY <1>1, <2>5, HeldStatus DEF IInv
    <3>2. /\ (removing' => ~chan'.exists) /\ SweepsShrink /\ ChannelShrinks
          /\ (InBatch(a)' => InBatch(a))
      BY <1>1, UntouchedSweeps DEF IInv, BatchInv, ChannelShrinks
    <3>3. QED BY <1>1, <2>4, <3>1, <3>2, BatchKept DEF IInv
  <2>11. BudgetInv'
    <3> SUFFICES ASSUME NEW b \in Alert
                 PROVE  row'[b].attempts + (IF Slack(b)' THEN 1 ELSE 0)
                           + (IF Open(b)' THEN 1 ELSE 0) <= Total'
      BY DEF BudgetInv
    <3>1. Total' = Total
      BY <1>1 DEF Total
    <3>2. row[b].attempts + (IF Slack(b) THEN 1 ELSE 0) + (IF Open(b) THEN 1 ELSE 0) <= Total
          /\ row[b].attempts \in Nat
      BY JobFields DEF IInv, BudgetInv
    <3>3. CASE b # a
      <4>1. Slack(b)' => Slack(b)
        BY <2>3, <2>7, <3>3 DEF Slack
      <4>2. \A v \in Worker : Owns(v) /\ job[v].id = b => Owns(v)' /\ job'[v].id = b
        BY <2>3, <2>6, <2>7, <3>3 DEF Owns
      <4>3. Open(b)' => Open(b)
        BY <2>4, <3>3, <4>2 DEF Open
      <4>4. row'[b].attempts = row[b].attempts
        BY <2>4, <3>3
      <4>5. QED BY <2>2, <3>1, <3>2, <4>1, <4>3, <4>4
    <3>4. CASE b = a
      <4>1. ~Open(b)'
        BY <2>3, <2>4, <2>8, <3>4 DEF Open
      <4>2. Open(a)
        <5>1. CASE row[a].status \in {"pending", "failed"}
          BY <5>1 DEF Open
        <5>2. CASE row[a].status = "sending"
          <6>1. row[a].busy = Stale
            BY <1>3, <5>2 DEF Claimable
          <6>2. ASSUME NEW v \in Worker, Owns(v), job[v].id = a PROVE FALSE
            <7>1. row[a].busy = job[v].age
              BY <5>2, <6>2 DEF Owns, IInv, OwnInv
            <7>2. job[v].age < Stale
              BY <1>1, Limits DEF Job
            <7>3. QED BY <6>1, <7>1, <7>2, Limits
          <6>3. QED BY <5>2, <6>2 DEF Open
        <5>3. QED BY <2>5, <5>1, <5>2
      <4>3. row'[b].attempts = n /\ row[a].attempts + 1 <= Total
        BY <2>2, <2>4, <3>2, <3>4, <4>2
      <4>4. CASE chan.exists
        <5>1. Slack(b)' => n < MaxAttempts
          <6>1. \A v \in Worker : v # w /\ Live(v)' => job'[v].id # a
            BY <2>3, <2>6, <2>7, <4>4, LiveSends
          <6>2. QED BY <2>3, <3>4, <6>1 DEF Slack
        <5>2. MaxAttempts <= Total
          BY <1>1, JobFields DEF Total, Shape
        <5>3. QED BY <2>1, <2>2, <3>1, <4>1, <4>3, <5>1, <5>2
      <4>5. CASE ~chan.exists
        <5>1. Slack(b)' => Slack(b)
          BY <2>3, <2>7, <2>8, <4>5 DEF Slack
        <5>2. QED BY <2>1, <2>2, <3>1, <3>2, <3>4, <4>1, <4>2, <4>3, <5>1
      <4>6. QED BY <4>4, <4>5
    <3>5. QED BY <3>3, <3>4
  <2>12. SendInv'
    <3> SUFFICES ASSUME NEW b \in Alert PROVE Forgets(b)
      BY <1>1, SendKept DEF IInv
    <3>1. \A v \in Worker : Unrecorded(v, b) => Unrecorded(v, b)'
      BY <1>1, <2>3 DEF Unrecorded
    <3>2. Learned(b) => Learned(b)'
      BY <1>1, <2>4, <2>5, <3>1, UntouchedSweeps DEF Learned
    <3>3. Sends(b)' => Sends(b)
      BY <2>3 DEF Sends
    <3>4. Lost(b)' >= Lost(b)
      BY <1>1, JobFields DEF Shape, Lost
    <3>5. QED BY <1>1, <3>2, <3>3, <3>4, UntouchedSweeps DEF Forgets
  <2>13. RaiseInv'
    <3>1. \A v \in Worker : Raising(v)' => Raising(v) /\ job'[v].id = job[v].id
      BY <2>3 DEF Raising
    <3>2. \A b \in Alert : /\ row'[b].raised = row[b].raised
                           /\ row'[b].status = "none" <=> row[b].status = "none"
                           /\ row'[b].status = "none" => row'[b].attempts = row[b].attempts
      BY <2>4, <2>5
    <3>3. \A v \in Worker : Sending(v)' => row'[job'[v].id].status # "none"
      BY <2>3, <2>4, <2>6, <2>7 DEF IInv, RaiseInv
    <3>4. \A b \in Alert : InBatch(b)' => row'[b].status # "none"
      BY <1>1, <3>2, UntouchedSweeps DEF IInv, RaiseInv
    <3>5. RaiseInv
      BY DEF IInv
    <3>6. QED BY <1>1, <3>1, <3>2, <3>3, <3>4, <3>5, RaiseKept
  <2>14. QED BY <2>9, <2>10, <2>11, <2>12, <2>13 DEF Kept, Rest
<1>4. QED BY <1>2, <1>3

LEMMA LookupKeeps == ASSUME IInv, Shape', NEW w \in Worker, Lookup(w) PROVE Kept
<1>0. PICK a : a = job[w].id
  OBVIOUS
<1>1. /\ job \in [Worker -> Job] /\ a \in Alert /\ Shape
      /\ job[w].pc = "lookup" /\ Sending(w)
      /\ UNCHANGED <<row, chan, sweep, removing, count, accepted, unmarked, doubled>>
  BY <1>0 DEF Lookup, IInv, TypeOK, JobInv, Sending, Shape
<1>2. /\ \A v \in Worker : v # w => job'[v] = job[v]
      /\ job'[w].id = a /\ job'[w].attempts = job[w].attempts /\ job'[w].age = job[w].age
      /\ \/ chan.exists /\ job'[w].pc = "send"
         \/ ~chan.exists /\ job'[w].pc = "mark" /\ job'[w].out = "gone"
  BY <1>0, <1>1 DEF Lookup, Job
<1>3. JobsShrink
  BY <1>0, <1>1, <1>2 DEF JobsShrink, Sending, Live
<1>4. RowsShrink /\ ChannelShrinks
  BY <1>1 DEF RowsShrink, ChannelShrinks
<1>5. OwnInv'
  <2>1. OwnersStay
    BY <1>1, <1>3 DEF OwnersStay, JobsShrink, IInv, OwnInv
  <2>2. QED BY <1>1, <1>3, <1>4, <2>1, OwnKept DEF IInv
<1>6. BatchInv'
  <2>1. (removing' => ~chan'.exists) /\ SweepsShrink
    BY <1>1, UntouchedSweeps DEF IInv, BatchInv
  <2>2. QED BY <1>1, <1>4, <2>1, BatchKept DEF IInv
<1>7. BudgetInv'
  <2>1. \A v \in Worker : Owns(v) => Owns(v)' /\ job'[v].id = job[v].id
    BY <1>0, <1>1, <1>2 DEF Owns, Sending
  <2>2. \A b \in Alert : Opens(b)
    BY <1>1, <2>1 DEF Opens, Open
  <2>3. Total' >= Total
    BY <1>1, JobFields DEF Total, Shape
  <2>4. QED BY <1>1, <1>3, <1>4, <2>2, <2>3, BudgetKept DEF IInv
<1>8. SendInv'
  <2> SUFFICES ASSUME NEW b \in Alert
               PROVE  /\ accepted[b] <= 1 + Lost(b)
                      /\ Sends(b)' => accepted[b] <= Lost(b)
                      /\ Ships(b) => accepted[b] <= Lost(b) /\ ~Sends(b)'
                      /\ chan.exists /\ ~Learned(b)' => accepted[b] <= Lost(b)
    BY <1>1, UntouchedSweeps DEF SendInv, Lost
  <2>1. \A v \in Worker : Unrecorded(v, b) <=> Unrecorded(v, b)'
    BY <1>1, <1>2 DEF Unrecorded
  <2>2. Learned(b)' <=> Learned(b)
    BY <1>1, <2>1, UntouchedSweeps DEF Learned
  <2>3. CASE Sends(b)' => Sends(b)
    BY <2>2, <2>3 DEF IInv, SendInv
  <2>4. CASE Sends(b)' /\ ~Sends(b)
    <3>1. b = a /\ chan.exists
      BY <1>2, <2>4 DEF Sends
    <3>2. row[a].status = "sending" /\ \A v \in Worker : Sending(v) /\ job[v].id = a => v = w
      BY <1>0, <1>1, <3>1, OneOwner
    <3>3. \A v \in Worker : ~Unrecorded(v, a)
      BY <1>1, <3>2 DEF Unrecorded, Sending
    <3>5. ~Ships(a) /\ ~Records(a)
      <4>1. ~InBatch(a)
        BY <1>1, <3>1, <3>2, HeldStatus DEF IInv
      <4>2. QED BY <4>1 DEF Ships, Records, ToSend, ToRecord, InBatch, Holds
    <3>4. accepted[a] <= Lost(a)
      BY <1>1, <3>1, <3>2, <3>3, <3>5, Owed
    <3>6. QED BY <3>1, <3>4, <3>5 DEF IInv, SendInv
  <2>5. QED BY <2>3, <2>4
<1>9. RaiseInv'
  <2>1. \A v \in Worker : Raising(v)' => Raising(v) /\ job'[v].id = job[v].id
    BY <1>2 DEF Raising
  <2>2. \A b \in Alert : InBatch(b)' => row[b].status # "none"
    BY <1>1, UntouchedSweeps DEF IInv, RaiseInv
  <2>3. QED BY <1>1, <1>3, <1>4, <2>1, <2>2, RaisesGoOn
<1>10. QED BY <1>5, <1>6, <1>7, <1>8, <1>9 DEF Kept, Rest

LEMMA SendEffect ==
    ASSUME Shape, NEW w \in Worker, Send(w), NEW a, a = job[w].id
    PROVE  /\ \A v \in Worker : v # w => job'[v] = job[v]
           /\ job'[w].id = a /\ job'[w].attempts = job[w].attempts /\ job'[w].age = job[w].age
           /\ job'[w].pc = "mark" /\ doubled' = doubled
           /\ \A b \in Alert : b # a => accepted'[b] = accepted[b] /\ unmarked'[b] = unmarked[b]
           /\ \/ job'[w].out = "ok" /\ accepted'[a] = accepted[a] + 1 /\ unmarked'[a] = unmarked[a]
              \/ job'[w].out # "ok" /\ accepted'[a] = accepted[a] /\ unmarked'[a] = unmarked[a]
              \/ /\ job'[w].out # "ok"
                 /\ accepted'[a] = accepted[a] + 1 /\ unmarked'[a] = unmarked[a] + 1
<1>1. job \in [Worker -> Job] /\ a \in Alert
  BY DEF Send, Shape, TypeOK, JobInv
<1>2. PICK out \in {"ok", "retry", "permanent"} :
        /\ job' = [job EXCEPT ![w] = [job[w] EXCEPT !.pc = "mark", !.out = out]]
        /\ \/ out = "ok" /\ accepted' = [accepted EXCEPT ![a] = @ + 1] /\ unmarked' = unmarked
           \/ out # "ok" /\ accepted' = accepted /\ unmarked' = unmarked
           \/ /\ out # "ok" /\ accepted' = [accepted EXCEPT ![a] = @ + 1]
              /\ unmarked' = [unmarked EXCEPT ![a] = @ + 1]
  BY DEF Send
<1>3. accepted \in [Alert -> Nat] /\ unmarked \in [Alert -> Nat] /\ doubled' = doubled
  BY DEF Shape, TypeOK, Send
<1>4. /\ \A v \in Worker : v # w => job'[v] = job[v]
      /\ job'[w].id = a /\ job'[w].attempts = job[w].attempts /\ job'[w].age = job[w].age
      /\ job'[w].pc = "mark" /\ job'[w].out = out
  BY <1>1, <1>2 DEF Job
<1>5. QED BY <1>1, <1>2, <1>3, <1>4

\* The same, with the messages the engine cannot miss counted together.
LEMMA SendCounts ==
    ASSUME Shape, NEW w \in Worker, Send(w), NEW a, a = job[w].id
    PROVE  /\ \A b \in Alert : b # a => accepted'[b] = accepted[b] /\ Lost(b)' = Lost(b)
           /\ \/ job'[w].out = "ok" /\ accepted'[a] = accepted[a] + 1 /\ Lost(a)' = Lost(a)
              \/ job'[w].out # "ok" /\ accepted'[a] = accepted[a] /\ Lost(a)' = Lost(a)
              \/ /\ job'[w].out # "ok"
                 /\ accepted'[a] = accepted[a] + 1 /\ Lost(a)' = Lost(a) + 1
<1>1. a \in Alert /\ \A b \in Alert : unmarked[b] \in Nat /\ doubled[b] \in Nat
  BY DEF Send, Shape, TypeOK, JobInv
<1>2. QED BY <1>1, SendEffect DEF Lost

LEMMA SendKeeps == ASSUME IInv, Shape', NEW w \in Worker, Send(w) PROVE Kept
<1>0. PICK a : a = job[w].id
  OBVIOUS
<1>1. /\ job \in [Worker -> Job] /\ a \in Alert /\ Shape
      /\ job[w].pc = "send" /\ Sending(w)
      /\ UNCHANGED <<row, chan, sweep, removing>>
  BY <1>0 DEF Send, IInv, TypeOK, JobInv, Sending, Shape
<1>2. /\ \A v \in Worker : v # w => job'[v] = job[v]
      /\ job'[w].id = a /\ job'[w].attempts = job[w].attempts /\ job'[w].age = job[w].age
      /\ job'[w].pc = "mark"
      /\ \A b \in Alert : b # a => accepted'[b] = accepted[b] /\ Lost(b)' = Lost(b)
      /\ \/ job'[w].out = "ok" /\ accepted'[a] = accepted[a] + 1 /\ Lost(a)' = Lost(a)
         \/ accepted'[a] = accepted[a] /\ Lost(a)' = Lost(a)
         \/ accepted'[a] = accepted[a] + 1 /\ Lost(a)' = Lost(a) + 1
  BY <1>0, <1>1, SendEffect, SendCounts
<1>3. JobsShrink
  BY <1>0, <1>1, <1>2 DEF JobsShrink, Sending, Live
<1>4. RowsShrink /\ ChannelShrinks
  BY <1>1 DEF RowsShrink, ChannelShrinks
<1>5. OwnInv'
  <2>1. OwnersStay
    BY <1>1, <1>3 DEF OwnersStay, JobsShrink, IInv, OwnInv
  <2>2. QED BY <1>1, <1>3, <1>4, <2>1, OwnKept DEF IInv
<1>6. BatchInv'
  <2>1. (removing' => ~chan'.exists) /\ SweepsShrink
    BY <1>1, UntouchedSweeps DEF IInv, BatchInv
  <2>2. QED BY <1>1, <1>4, <2>1, BatchKept DEF IInv
<1>7. BudgetInv'
  <2>1. \A v \in Worker : Owns(v) => Owns(v)' /\ job'[v].id = job[v].id
    BY <1>0, <1>1, <1>2 DEF Owns, Sending
  <2>2. \A b \in Alert : Opens(b)
    BY <1>1, <2>1 DEF Opens, Open
  <2>3. Total' >= Total
    <3>1. count'.retries = count.retries /\ count'.faults >= count.faults
      BY DEF Send, Fault, IInv, TypeOK
    <3>2. count.faults \in Nat /\ count'.faults \in Nat
      BY LimitsAssumption DEF IInv, Shape, TypeOK
    <3>3. QED BY <1>1, <3>1, <3>2, JobFields DEF Total, Shape
  <2>4. QED BY <1>1, <1>3, <1>4, <2>2, <2>3, BudgetKept DEF IInv
<1>8. SendInv'
  <2> SUFFICES ASSUME NEW b \in Alert
               PROVE  /\ accepted'[b] <= 1 + Lost(b)'
                      /\ Sends(b)' => accepted'[b] <= Lost(b)'
                      /\ Ships(b) => accepted'[b] <= Lost(b)' /\ ~Sends(b)'
                      /\ chan.exists /\ ~Learned(b)' => accepted'[b] <= Lost(b)'
    BY <1>1, UntouchedSweeps DEF SendInv
  <2>1. /\ accepted[b] \in Nat /\ Lost(b) \in Nat
        /\ accepted[b] <= 1 + Lost(b)
        /\ Sends(b) => accepted[b] <= Lost(b)
        /\ Ships(b) => accepted[b] <= Lost(b) /\ ~Sends(b)
        /\ chan.exists /\ ~Learned(b) => accepted[b] <= Lost(b)
    BY JobFields DEF IInv, SendInv
  <2>2. CASE b # a
    <3>1. \A v \in Worker : Unrecorded(v, b) <=> Unrecorded(v, b)'
      BY <1>0, <1>1, <1>2, <2>2 DEF Unrecorded
    <3>2. Learned(b)' <=> Learned(b)
      BY <1>1, <3>1, UntouchedSweeps DEF Learned
    <3>3. Sends(b)' => Sends(b)
      BY <1>2 DEF Sends
    <3>4. QED BY <1>2, <2>1, <2>2, <3>2, <3>3
  <2>3. CASE b = a
    <3>1. Sends(a) /\ ~Ships(a) /\ accepted[a] <= Lost(a)
      BY <1>0, <1>1, <2>1, <2>3 DEF Sends
    <3>2. ~Sends(a)'
      <4>1. ASSUME NEW v \in Worker, job'[v].pc = "send", job'[v].id = a PROVE FALSE
        <5>1. v # w /\ Live(v) /\ Live(w) /\ job[v].id = job[w].id
          BY <1>0, <1>1, <1>2, <4>1 DEF Live
        <5>2. QED BY <5>1 DEF IInv, OwnInv
      <4>2. QED BY <4>1 DEF Sends
    <3>3. job'[w].out = "ok" => Learned(a)'
      BY <1>2 DEF Learned, Unrecorded
    <3>4. QED BY <1>2, <2>1, <2>3, <3>1, <3>2, <3>3
  <2>4. QED BY <2>2, <2>3
<1>9. RaiseInv'
  <2>1. \A v \in Worker : Raising(v)' => Raising(v) /\ job'[v].id = job[v].id
    BY <1>2 DEF Raising
  <2>2. \A b \in Alert : InBatch(b)' => row[b].status # "none"
    BY <1>1, UntouchedSweeps DEF IInv, RaiseInv
  <2>3. QED BY <1>1, <1>3, <1>4, <2>1, <2>2, RaisesGoOn
<1>10. QED BY <1>5, <1>6, <1>7, <1>8, <1>9 DEF Kept, Rest

LEMMA MarkEffect ==
    ASSUME Shape, NEW w \in Worker, Mark(w), NEW a, a = job[w].id
    PROVE  /\ \A b \in Alert : b # a => row'[b] = row[b]
           /\ row'[a].attempts = row[a].attempts /\ row'[a].raised = row[a].raised
           /\ \/ job[w].out = "ok" /\ row'[a].status = "sent"
              \/ job[w].out # "ok" /\ row'[a].status = "dead"
              \/ job[w].out = "retry" /\ row'[a].status = "failed" /\ job[w].attempts < MaxAttempts
<1>1. /\ job \in [Worker -> Job] /\ row \in [Alert -> Row] /\ a \in Alert
      /\ row[a] \in Row /\ job[w] \in Job /\ job[w].attempts > 0 /\ "sent" \in Statuses
  BY DEF Mark, Shape, TypeOK, JobInv, Sending, Statuses
<1>2. CASE job[w].out = "ok"
  <2>1. row' = [row EXCEPT ![a] = Into(row[a], "sent")]
    BY <1>2 DEF Mark
  <2>2. QED BY <1>1, <1>2, <2>1, IntoFacts
<1>3. CASE job[w].out # "ok"
  <2>1. row' = [row EXCEPT ![a] = Failed(row[a], job[w])]
    BY <1>3 DEF Mark
  <2>2. QED BY <1>1, <1>3, <2>1, FailedFacts DEF Job
<1>4. QED BY <1>2, <1>3

LEMMA MarkKeeps == ASSUME IInv, Shape', NEW w \in Worker, Mark(w) PROVE Kept
<1>0. PICK a : a = job[w].id
  OBVIOUS
<1>1. /\ job \in [Worker -> Job] /\ row \in [Alert -> Row] /\ a \in Alert /\ Shape
      /\ job[w].pc = "mark" /\ Sending(w)
      /\ UNCHANGED <<chan, sweep, removing, count, accepted, unmarked, doubled>>
  BY <1>0 DEF Mark, IInv, TypeOK, JobInv, Sending, Shape
<1>2. /\ \A v \in Worker : v # w => job'[v] = job[v]
      /\ job'[w].pc = "idle"
  BY <1>1 DEF Mark, Idle
<1>3. /\ \A b \in Alert : b # a => row'[b] = row[b]
      /\ row'[a].attempts = row[a].attempts /\ row'[a].raised = row[a].raised
      /\ \/ job[w].out = "ok" /\ row'[a].status = "sent"
         \/ job[w].out # "ok" /\ row'[a].status = "dead"
         \/ job[w].out = "retry" /\ row'[a].status = "failed" /\ job[w].attempts < MaxAttempts
  BY <1>0, <1>1, MarkEffect
<1>4. JobsShrink /\ RowsShrink /\ ChannelShrinks
  <2>1. ~Sending(w)'
    BY <1>2 DEF Sending
  <2>2. RowsShrink
    BY <1>3 DEF RowsShrink
  <2>3. QED BY <1>1, <1>2, <2>1, <2>2, BystandersShrink DEF ChannelShrinks
<1>5. chan.exists => /\ row[a].status = "sending"
                     /\ \A v \in Worker : v # w /\ Sending(v) => job[v].id # a
  BY <1>0, <1>1, OneOwner
<1>6. OwnInv'
  <2>1. OwnersStay
    <3> SUFFICES ASSUME NEW v \in Worker, chan'.exists, Sending(v)'
                 PROVE  row'[job[v].id].status = "sending"
      BY DEF OwnersStay
    <3>1. v # w /\ Sending(v) /\ chan.exists
      BY <1>1, <1>2 DEF Sending
    <3>2. QED BY <1>3, <1>5, <3>1, OneOwner
  <2>2. QED BY <1>1, <1>4, <2>1, OwnKept DEF IInv
<1>7. BatchInv'
  <2>1. chan.exists => ~InBatch(a)
    BY <1>1, <1>5, HeldStatus DEF IInv
  <2>2. (removing' => ~chan'.exists) /\ SweepsShrink /\ (InBatch(a)' => InBatch(a))
    BY <1>1, UntouchedSweeps DEF IInv, BatchInv
  <2>3. QED BY <1>1, <1>3, <1>4, <2>1, <2>2, BatchKept DEF IInv
<1>8. BudgetInv'
  <2>1. ASSUME NEW b \in Alert, b # a PROVE Opens(b)
    <3>1. \A v \in Worker : Owns(v) /\ job[v].id = b => job'[v] = job[v]
      BY <1>0, <1>2, <2>1
    <3>2. QED BY <1>3, <2>1, <3>1, OpenSame
  <2>2. Opens(a)
    <3> SUFFICES ASSUME Open(a)' PROVE Slack(a) /\ ~Slack(a)'
      BY DEF Opens
    <3>1. job[w].out = "retry" /\ job[w].attempts < MaxAttempts
      BY <1>3 DEF Open
    <3>2. Live(w) /\ Slack(a)
      BY <1>0, <1>1, <3>1 DEF Slack, Live
    <3>3. ASSUME NEW v \in Worker, Live(v)', job'[v].id = a PROVE FALSE
      <4>1. v # w /\ Live(v) /\ job[v].id = a
        BY <1>1, <1>2, <3>3 DEF Live
      <4>2. QED BY <1>0, <3>2, <4>1 DEF IInv, OwnInv
    <3>4. QED BY <3>2, <3>3 DEF Slack
  <2>3. Total' >= Total
    BY <1>1, JobFields DEF Total, Shape
  <2>4. QED BY <1>1, <1>4, <2>1, <2>2, <2>3, BudgetKept DEF IInv
<1>9. SendInv'
  <2> SUFFICES ASSUME NEW b \in Alert PROVE Forgets(b)
    BY <1>1, SendKept DEF IInv
  <2>1. chan.exists /\ Learned(b) => Learned(b)'
    <3>1. CASE b # a
      <4>1. \A v \in Worker : Unrecorded(v, b) => Unrecorded(v, b)'
        BY <1>0, <1>2, <3>1 DEF Unrecorded
      <4>2. QED BY <1>1, <1>3, <3>1, <4>1, UntouchedSweeps DEF Learned
    <3>2. CASE b = a /\ job[w].out = "ok"
      BY <1>3, <3>2 DEF Learned
    <3>3. CASE b = a /\ job[w].out # "ok" /\ chan.exists
      <4>1. \A v \in Worker : ~Unrecorded(v, a)
        BY <1>5, <3>3 DEF Unrecorded, Sending
      <4>2. ~Records(a)
        <5>1. ~InBatch(a)
          BY <1>1, <1>5, <3>3, HeldStatus DEF IInv
        <5>2. QED BY <5>1 DEF Records, ToRecord, InBatch, Holds
      <4>3. ~Learned(b)
        BY <1>5, <3>3, <4>1, <4>2 DEF Learned
      <4>4. QED BY <4>3
    <3>4. QED BY <3>1, <3>2, <3>3
  <2>2. Sends(b)' => Sends(b)
    BY <1>2 DEF Sends
  <2>3. Lost(b)' >= Lost(b)
    BY <1>1, JobFields DEF Shape, Lost
  <2>4. QED BY <1>1, <2>1, <2>2, <2>3, UntouchedSweeps DEF Forgets
<1>10. RaiseInv'
  <2>1. \A v \in Worker : Raising(v)' => Raising(v) /\ job'[v].id = job[v].id
    BY <1>2 DEF Raising
  <2>2. row[a].status # "none"
    BY <1>0, <1>1 DEF IInv, RaiseInv
  <2>3. \A b \in Alert : row'[b].raised = row[b].raised /\ (row'[b].status = "none" <=> row[b].status = "none")
    BY <1>3, <2>2
  <2>4. \A b \in Alert : InBatch(b)' => row[b].status # "none"
    BY <1>1, UntouchedSweeps DEF IInv, RaiseInv
  <2>5. QED BY <1>1, <1>4, <2>1, <2>3, <2>4, RaisesGoOn
<1>11. QED BY <1>6, <1>7, <1>8, <1>9, <1>10 DEF Kept, Rest

-----------------------------------------------------------------------------
(* Deaths.                                                                 *)
Falls ==
    /\ \A w \in Worker : \/ job'[w].pc = "idle"
                         \/ /\ job'[w].pc = job[w].pc /\ job'[w].id = job[w].id
                            /\ job'[w].out = job[w].out /\ job'[w].attempts = job[w].attempts
                            /\ job'[w].age = job[w].age
    /\ SweepsShrink
    /\ \A a \in Alert : /\ Lost(a)' >= Lost(a)
                        /\ Learned(a) => Learned(a)' \/ Lost(a)' > Lost(a)
    /\ Fault /\ UNCHANGED <<row, chan, removing, accepted>>

LEMMA FallsKeep == ASSUME IInv, Shape', Falls PROVE Kept
<1>1. Shape /\ UNCHANGED <<row, chan, removing, accepted>>
  BY DEF Falls, IInv, Shape
<1>2. JobsShrink
  BY <1>1 DEF Falls, JobsShrink, Sending, Live
<1>3. RowsShrink /\ ChannelShrinks
  BY <1>1 DEF RowsShrink, ChannelShrinks
<1>4. Total' = Total + 1
  <2>1. count'.retries = count.retries /\ count'.faults = count.faults + 1
    BY DEF Falls, Fault, IInv, TypeOK
  <2>2. QED BY <1>1, <2>1, JobFields DEF Total, Shape
<1>5. OwnInv'
  <2>1. OwnersStay
    BY <1>1, <1>2 DEF OwnersStay, JobsShrink, IInv, OwnInv
  <2>2. QED BY <1>1, <1>2, <1>3, <2>1, OwnKept DEF IInv
<1>6. BatchInv'
  BY <1>1, <1>3, BatchKept DEF Falls, IInv, BatchInv
<1>7. BudgetInv'
  <2>1. Total' > Total /\ Total' >= Total
    BY <1>1, <1>4, JobFields DEF Shape
  <2>2. \A a \in Alert : Opens(a)
    BY <2>1 DEF Opens
  <2>3. QED BY <1>1, <1>2, <1>3, <2>1, <2>2, BudgetKept DEF IInv
<1>8. SendInv'
  <2> SUFFICES ASSUME NEW a \in Alert PROVE Forgets(a)
    BY <1>1, SendKept DEF IInv
  <2>1. Sends(a)' => Sends(a)
    BY DEF Falls, Sends
  <2>2. Ships(a)' => Ships(a)
    BY ShrinkFacts DEF Falls
  <2>3. QED BY <1>1, <2>1, <2>2 DEF Forgets, Falls
<1>9. RaiseInv'
  <2>1. \A v \in Worker : Raising(v)' => Raising(v) /\ job'[v].id = job[v].id
    BY DEF Falls, Raising
  <2>2. \A a \in Alert : InBatch(a)' => row[a].status # "none"
    BY ShrinkFacts DEF Falls, IInv, RaiseInv
  <2>3. QED BY <1>1, <1>2, <1>3, <2>1, <2>2, RaisesGoOn
<1>10. QED BY <1>5, <1>6, <1>7, <1>8, <1>9 DEF Kept, Rest

LEMMA CrashSweeps ==
    ASSUME IInv, NEW w \in Worker, Crash(w)
    PROVE  SweepsSame
<1>1. \A s \in Sweeper : sweep'[s] = IF s = job[w].by THEN Resting ELSE sweep[s]
  BY DEF Crash
<1>2. \A s \in Sweeper : s = job[w].by => sweep[s].pc = "retry"
  BY NoneAssumption DEF IInv, SweptInv
<1>3. QED BY <1>1, <1>2 DEF SweepsSame, Busy, BatchStays, Resting

LEMMA CrashKeeps == ASSUME IInv, Shape', NEW w \in Worker, Crash(w) PROVE Kept
<1>1. \A v \in Worker : v # w => /\ job'[v].pc = job[v].pc /\ job'[v].id = job[v].id
                                 /\ job'[v].out = job[v].out /\ job'[v].attempts = job[v].attempts
                                 /\ job'[v].age = job[v].age
  BY DEF Crash, IInv, TypeOK, Job
<1>2. job'[w].pc = "idle"
  BY DEF Crash, Idle
<1>3. ASSUME NEW a \in Alert
      PROVE  /\ Lost(a)' >= Lost(a)
             /\ Learned(a) => Learned(a)' \/ Lost(a)' > Lost(a)
  <2>1. unmarked[a] \in Nat /\ doubled[a] \in Nat
    BY DEF IInv, TypeOK
  <2>2. doubled' = doubled
        /\ unmarked'[a] = IF Unrecorded(w, a) THEN unmarked[a] + 1 ELSE unmarked[a]
    BY DEF Crash
  <2>3. CASE Unrecorded(w, a)
    BY <2>1, <2>2, <2>3 DEF Lost
  <2>4. CASE ~Unrecorded(w, a)
    <3>1. \A v \in Worker : Unrecorded(v, a) => Unrecorded(v, a)'
      BY <1>1, <2>4 DEF Unrecorded
    <3>2. row' = row
      BY DEF Crash
    <3>3. Learned(a) => Learned(a)'
      BY <3>1, <3>2, CrashSweeps, SameFacts DEF Learned
    <3>4. Lost(a)' = Lost(a)
      BY <2>2, <2>4 DEF Lost
    <3>5. QED BY <2>1, <3>3, <3>4 DEF Lost
  <2>5. QED BY <2>3, <2>4
<1>4. Fault /\ UNCHANGED <<row, chan, removing, accepted>>
  BY DEF Crash
<1>5. QED BY <1>1, <1>2, <1>3, <1>4, CrashSweeps, SameFacts, FallsKeep DEF Falls

LEMMA SweepCrashSweeps ==
    ASSUME TypeOK, NEW s \in Sweeper, SweepCrash(s)
    PROVE  SweepsShrink /\ sweep'[s] = Resting /\ \A t \in Sweeper : t # s => sweep'[t] = sweep[t]
BY SweepFields DEF SweepCrash, SweepsShrink, Busy, BatchStays, Resting

LEMMA SweepCrashKeeps == ASSUME IInv, Shape', NEW s \in Sweeper, SweepCrash(s) PROVE Kept
<1>1. \A w \in Worker : job'[w] = IF job[w].by = s THEN Idle ELSE job[w]
  BY DEF SweepCrash
<1>2. \A w \in Worker : job'[w].pc = "idle" \/ job'[w] = job[w]
  BY <1>1 DEF Idle
<1>3. ASSUME NEW a \in Alert
      PROVE  /\ Lost(a)' >= Lost(a)
             /\ Learned(a) => Learned(a)' \/ Lost(a)' > Lost(a)
  <2> DEFINE lost == ToRecord(s, a) \/ \E w \in Worker : job[w].by = s /\ Unrecorded(w, a)
  <2>1. unmarked[a] \in Nat /\ doubled[a] \in Nat
    BY DEF IInv, TypeOK
  <2>2. doubled' = doubled /\ unmarked'[a] = IF lost THEN unmarked[a] + 1 ELSE unmarked[a]
    BY DEF SweepCrash, ToRecord
  <2>3. CASE lost
    BY <2>1, <2>2, <2>3 DEF Lost
  <2>4. CASE ~lost
    <3>1. \A w \in Worker : Unrecorded(w, a) => Unrecorded(w, a)'
      BY <1>1, <2>4 DEF Unrecorded
    <3>2. row' = row
      BY DEF SweepCrash
    <3>3. \A t \in Sweeper : ToRecord(t, a) => ToRecord(t, a)'
      BY <2>4, SweepCrashSweeps DEF IInv, ToRecord
    <3>4. Learned(a) => Learned(a)'
      BY <3>1, <3>2, <3>3 DEF Learned, Records
    <3>5. QED BY <2>1, <2>2, <2>4, <3>4 DEF Lost
  <2>5. QED BY <2>3, <2>4
<1>4. Fault /\ UNCHANGED <<row, chan, removing, accepted>>
  BY DEF SweepCrash
<1>5. SweepsShrink
  BY SweepCrashSweeps DEF IInv
<1>6. QED BY <1>2, <1>3, <1>4, <1>5, FallsKeep DEF Falls

-----------------------------------------------------------------------------
(* The channel's removal.                                                  *)
LEMMA RemoveKeeps == ASSUME IInv, Shape', RemoveChannel PROVE Kept
<1>1. /\ Shape /\ UNCHANGED <<row, job, sweep, accepted, unmarked, doubled>> /\ ~chan'.exists
      /\ Total' = Total
  <2>1. ~chan'.exists
    BY DEF RemoveChannel, IInv, TypeOK, Channel
  <2>2. Total' = Total
    BY DEF Total, RemoveChannel, Edit, IInv, TypeOK
  <2>3. QED BY <2>1, <2>2 DEF RemoveChannel, IInv, Shape
<1>2. JobsShrink
  BY <1>1 DEF JobsShrink, Sending, Live
<1>3. RowsShrink /\ ChannelShrinks /\ OwnersStay
  BY <1>1 DEF RowsShrink, ChannelShrinks, OwnersStay
<1>4. OwnInv'
  BY <1>1, <1>2, <1>3, OwnKept DEF IInv
<1>5. BatchInv'
  BY <1>1, <1>3, UntouchedSweeps, BatchKept DEF IInv
<1>6. BudgetInv'
  <2>1. \A a \in Alert : Opens(a)
    BY <1>1, OpenSame
  <2>2. Total' >= Total
    BY <1>1, JobFields DEF Shape
  <2>3. QED BY <1>1, <1>2, <1>3, <2>1, <2>2, BudgetKept DEF IInv
<1>7. SendInv'
  <2>1. \A a \in Alert : Forgets(a)
    BY <1>1, JobFields, UntouchedSweeps DEF Forgets, Sends, Shape, Lost
  <2>2. QED BY <1>1, <2>1, SendKept DEF IInv
<1>8. RaiseInv'
  <2>1. \A a \in Alert : InBatch(a)' => row[a].status # "none"
    BY <1>1, UntouchedSweeps DEF IInv, RaiseInv
  <2>2. QED BY <1>1, <1>2, <1>3, <2>1, RaisesGoOn DEF Raising
<1>9. QED BY <1>4, <1>5, <1>6, <1>7, <1>8 DEF Kept, Rest

\* Rows are given up once the channel is gone, by removeChannel or by the sweep.
LEMMA AbandonKeeps ==
    ASSUME IInv, Shape', ~chan.exists, row' \in {row, Abandoned},
           UNCHANGED <<job, chan, accepted, unmarked, doubled>>,
           count'.retries = count.retries, count'.faults >= count.faults,
           SweepsShrink
    PROVE  Kept
<1>1. Shape
  BY DEF IInv, Shape
<1>2. \A a \in Alert : row'[a] = row[a]
                       \/ /\ row[a].status # "none" /\ row'[a].status = "dead"
                          /\ row'[a].attempts = row[a].attempts /\ row'[a].raised = row[a].raised
  <2>1. \A a \in Alert : row[a].status \in Unfinished =>
          /\ row[a].status # "none" /\ Into(row[a], "dead").status = "dead"
          /\ Into(row[a], "dead").attempts = row[a].attempts
          /\ Into(row[a], "dead").raised = row[a].raised
    BY IntoFacts DEF IInv, TypeOK, Statuses, Unfinished
  <2>2. QED BY <2>1, AbandonedFacts DEF IInv
<1>3. JobsShrink /\ ChannelShrinks /\ OwnersStay
  BY DEF JobsShrink, Sending, Live, ChannelShrinks, OwnersStay
<1>4. RowsShrink
  BY <1>2 DEF RowsShrink
<1>5. OwnInv'
  BY <1>1, <1>3, <1>4, OwnKept DEF IInv
<1>6. BatchInv'
  BY <1>3, BatchKept DEF IInv
<1>7. BudgetInv'
  <2>1. ASSUME NEW a \in Alert PROVE Opens(a)
    <3>1. CASE row'[a] = row[a]
      BY <3>1, OpenSame
    <3>2. CASE row'[a].status = "dead"
      BY <3>2 DEF Opens, Open
    <3>3. QED BY <1>2, <3>1, <3>2
  <2>2. Total' >= Total
    <3>1. count.faults \in Nat /\ count'.faults \in Nat
      BY LimitsAssumption DEF IInv, Shape, TypeOK
    <3>2. QED BY <1>1, <3>1, JobFields DEF Total, Shape
  <2>3. QED BY <1>1, <1>3, <1>4, <2>1, <2>2, BudgetKept DEF IInv
<1>8. SendInv'
  <2>1. \A a \in Alert : Forgets(a)
    BY <1>1, JobFields, ShrinkFacts DEF Forgets, Sends, Shape, Lost
  <2>2. QED BY <1>1, <2>1, SendKept DEF IInv
<1>9. RaiseInv'
  <2>1. \A a \in Alert : InBatch(a)' => row[a].status # "none"
    BY ShrinkFacts DEF IInv, RaiseInv
  <2>2. \A a \in Alert : row'[a].raised = row[a].raised /\ (row'[a].status = "none" <=> row[a].status = "none")
    BY <1>2
  <2>3. QED BY <1>3, <1>4, <2>1, <2>2, RaisesGoOn DEF Raising
<1>10. QED BY <1>5, <1>6, <1>7, <1>8, <1>9 DEF Kept, Rest

LEMMA AbandonChannelKeeps == ASSUME IInv, Shape', AbandonChannel PROVE Kept
<1>1. ~chan.exists
  BY DEF AbandonChannel, IInv, BatchInv
<1>2. count'.retries = count.retries /\ count'.faults >= count.faults
  BY LimitsAssumption DEF AbandonChannel, Fault, IInv, TypeOK
<1>3. row' \in {row, Abandoned} /\ UNCHANGED <<job, chan, accepted, unmarked, doubled, sweep>>
  BY DEF AbandonChannel
<1>4. QED BY <1>1, <1>2, <1>3, UntouchedSweeps, AbandonKeeps

-----------------------------------------------------------------------------
(* The sweep's summary and digest.                                         *)
BatchBegins(s) ==
    /\ UNCHANGED <<row, job, chan, removing, count, accepted, unmarked, doubled>>
    /\ \A t \in Sweeper : t # s => sweep'[t] = sweep[t]
    /\ sweep[s].pc \in {"held", "digest"} /\ sweep'[s].pc # "mark"
    /\ sweep'[s].pc = "send" =>
         /\ chan.exists /\ sweep'[s].reason \in {"held", "digest"}
         /\ \A a \in Alert :
              /\ a \in sweep'[s].batch => row[a].status = sweep'[s].reason
              /\ a \in sweep'[s].again => a \in sweep'[s].batch
              /\ a \in sweep'[s].batch \ sweep'[s].again => \A t \in Sweeper : ~First(t, a)

\* Only its own sweep has anything new in hand, and nothing yet to record.
LEMMA BeginsFacts ==
    ASSUME TypeOK, NEW s \in Sweeper, BatchBegins(s), NEW a \in Alert
    PROVE  /\ \A t \in Sweeper : t # s =>
                /\ Holds(t, a)' <=> Holds(t, a)
                /\ ToSend(t, a)' <=> ToSend(t, a)
                /\ ToRecord(t, a)' <=> ToRecord(t, a)
                /\ Repeated(t, a)' <=> Repeated(t, a)
           /\ ~Holds(s, a) /\ ~ToSend(s, a) /\ ~ToRecord(s, a)
           /\ ~ToRecord(s, a)' /\ ~Repeated(s, a)'
           /\ Holds(s, a)' => /\ chan.exists /\ row[a].status = sweep'[s].reason
                              /\ row[a].status \in {"held", "digest"}
           /\ ToSend(s, a)' => Holds(s, a)' /\ ~Ships(a) /\ ~Records(a)
           /\ Records(a)' <=> Records(a)
<1>1. \A t \in Sweeper : t # s =>
        /\ Holds(t, a)' <=> Holds(t, a)
        /\ ToSend(t, a)' <=> ToSend(t, a)
        /\ ToRecord(t, a)' <=> ToRecord(t, a)
        /\ Repeated(t, a)' <=> Repeated(t, a)
  BY DEF BatchBegins, Holds, ToSend, ToRecord, Repeated
<1>2. /\ ~Holds(s, a) /\ ~ToSend(s, a) /\ ~ToRecord(s, a)
      /\ ~ToRecord(s, a)' /\ ~Repeated(s, a)'
      /\ Holds(s, a)' => /\ chan.exists /\ row[a].status = sweep'[s].reason
                         /\ row[a].status \in {"held", "digest"}
  BY DEF BatchBegins, Holds, ToSend, ToRecord, Repeated
<1>3. ToSend(s, a)' => Holds(s, a)' /\ \A t \in Sweeper : ~First(t, a)
  BY DEF BatchBegins, Holds, ToSend
<1>4. (\A t \in Sweeper : ~First(t, a)) => ~Ships(a) /\ ~Records(a)
  BY DEF First, Ships, Records
<1>5. Records(a)' <=> Records(a)
  BY <1>1, <1>2 DEF Records
<1>6. QED BY <1>1, <1>2, <1>3, <1>4, <1>5

LEMMA BatchKeeps == ASSUME IInv, Shape', NEW s \in Sweeper, BatchBegins(s) PROVE Kept
<1>1. Shape /\ TypeOK /\ UNCHANGED <<row, job, chan, removing, count, accepted, unmarked, doubled>>
  BY DEF IInv, Shape, BatchBegins
<1>2. JobsShrink /\ RowsShrink /\ ChannelShrinks
  BY <1>1 DEF JobsShrink, Sending, Live, RowsShrink, ChannelShrinks
<1>3. OwnInv'
  <2>1. OwnersStay
    BY <1>1 DEF OwnersStay, Sending, IInv, OwnInv
  <2>2. QED BY <1>1, <1>2, <2>1, OwnKept DEF IInv
<1>4. BatchInv'
  <2>1. removing' => ~chan'.exists
    BY <1>1 DEF IInv, BatchInv
  <2>2. \A t \in Sweeper, a \in Alert :
          chan'.exists /\ Holds(t, a)' => row'[a].status \in {sweep'[t].reason, "digested"}
    <3> TAKE t \in Sweeper, a \in Alert
    <3>1. CASE t = s
      BY <1>1, <3>1, BeginsFacts
    <3>2. CASE t # s
      <4>1. (Holds(t, a)' <=> Holds(t, a)) /\ sweep'[t] = sweep[t]
        BY <1>1, <3>2, BeginsFacts DEF BatchBegins
      <4>2. QED BY <1>1, <4>1 DEF IInv, BatchInv
    <3>3. QED BY <3>1, <3>2
  <2>3. \A t \in Sweeper, a \in Alert :
          sweep'[t].pc \in {"send", "mark"} /\ a \in sweep'[t].again => a \in sweep'[t].batch
    BY DEF BatchBegins, IInv, BatchInv
  <2>4. \A t, u \in Sweeper, a \in Alert : First(t, a)' /\ First(u, a)' => t = u
    <3> SUFFICES ASSUME NEW t \in Sweeper, NEW u \in Sweeper, NEW a \in Alert,
                        First(t, a)', First(u, a)', t # s
                 PROVE  t = u
      OBVIOUS
    <3>1. First(t, a)
      BY <1>1, BeginsFacts DEF First
    <3>2. u # s
      BY <1>1, <3>1, BeginsFacts DEF First, Ships, Records
    <3>3. First(u, a)
      BY <1>1, <3>2, BeginsFacts DEF First
    <3>4. QED BY <3>1, <3>3 DEF IInv, BatchInv
  <2>5. QED BY <2>1, <2>2, <2>3, <2>4 DEF BatchInv
<1>5. BudgetInv'
  <2>1. \A a \in Alert : Opens(a)
    BY <1>1, OpenSame
  <2>2. Total' >= Total
    BY <1>1, JobFields DEF Total, Shape
  <2>3. QED BY <1>1, <1>2, <2>1, <2>2, BudgetKept DEF IInv
<1>6. SendInv'
  <2> SUFFICES ASSUME NEW a \in Alert
               PROVE  /\ accepted[a] <= 1 + Lost(a)
                      /\ Sends(a) => accepted[a] <= Lost(a)
                      /\ Ships(a)' => accepted[a] <= Lost(a) /\ ~Sends(a)
                      /\ chan.exists /\ ~Learned(a)' => accepted[a] <= Lost(a)
    BY <1>1 DEF SendInv, Sends, Lost
  <2>1. Learned(a) <=> Learned(a)'
    BY <1>1, BeginsFacts DEF Learned, Unrecorded
  <2>2. ASSUME NEW t \in Sweeper, ToSend(t, a)' PROVE accepted[a] <= Lost(a) /\ ~Sends(a)
    <3>1. CASE t # s
      <4>1. Ships(a)
        BY <1>1, <2>2, <3>1, BeginsFacts DEF Ships
      <4>2. QED BY <4>1 DEF IInv, SendInv
    <3>2. CASE t = s
      <4>1. chan.exists /\ row[a].status \in {"held", "digest"} /\ ~Records(a)
        BY <1>1, <2>2, <3>2, BeginsFacts
      <4>2. \A w \in Worker : Sending(w) => job[w].id # a
        BY <4>1, OneOwner
      <4>3. ~Sends(a) /\ \A w \in Worker : ~Unrecorded(w, a)
        BY <4>2 DEF Sends, Sending, Unrecorded
      <4>4. QED BY <4>1, <4>3, Owed
    <3>3. QED BY <3>1, <3>2
  <2>3. QED BY <2>1, <2>2 DEF IInv, SendInv, Ships
<1>7. RaiseInv'
  <2>1. \A a \in Alert : InBatch(a)' => row[a].status # "none"
    <3> SUFFICES ASSUME NEW a \in Alert, NEW t \in Sweeper, Holds(t, a)'
                 PROVE  row[a].status # "none"
      BY DEF InBatch
    <3>1. CASE t = s
      BY <1>1, <3>1, BeginsFacts
    <3>2. CASE t # s
      BY <1>1, <3>2, BeginsFacts DEF IInv, RaiseInv, InBatch
    <3>3. QED BY <3>1, <3>2
  <2>2. QED BY <1>1, <1>2, <2>1, RaisesGoOn DEF Raising
<1>8. QED BY <1>3, <1>4, <1>5, <1>6, <1>7 DEF Kept, Rest

LEMMA CollectedFacts ==
    ASSUME TypeOK, NEW s \in Sweeper, NEW reason \in {"held", "digest"}, NEW r,
           r = Collected(s, reason)
    PROVE  /\ r.pc = "send" /\ r.reason = reason
           /\ \A a \in Alert :
                /\ a \in r.batch => row[a].status = reason
                /\ a \in r.again => a \in r.batch
                /\ a \in r.batch \ r.again => \A t \in Sweeper : ~First(t, a)
<1> DEFINE b == Batchable(s, reason)
           g == {a \in b : \E t \in Sweeper : InHand(t, a)}
<1>1. r.pc = "send" /\ r.reason = reason /\ r.batch = b /\ r.again = g
  BY SweepFields DEF Collected, Sweep
<1>2. \A t \in Sweeper, a \in Alert : First(t, a) => InHand(t, a)
  BY DEF First, ToSend, ToRecord, InHand
<1>3. \A a \in Alert : a \in b => row[a].status = reason
  BY DEF Batchable, Waiting
<1>4. QED BY <1>1, <1>2, <1>3

LEMMA HeldBegins == ASSUME IInv, NEW s \in Sweeper, SweepHeld(s), chan.exists PROVE BatchBegins(s)
<1>1. sweep \in [Sweeper -> Sweep] /\ sweep[s] \in Sweep /\ sweep[s].pc = "held"
      /\ UNCHANGED <<row, job, chan, removing, count, accepted, unmarked, doubled>>
  BY SweepFields DEF IInv, SweepHeld
<1>2. \/ sweep' = [sweep EXCEPT ![s] = Collected(s, "held")]
      \/ sweep' = [sweep EXCEPT ![s] = [sweep[s] EXCEPT !.pc = "digest"]]
  BY DEF SweepHeld
<1>3. /\ \A t \in Sweeper : t # s => sweep'[t] = sweep[t]
      /\ sweep'[s] = Collected(s, "held") \/ sweep'[s].pc = "digest"
  BY <1>1, <1>2 DEF Sweep
<1>4. CASE sweep'[s] = Collected(s, "held")
  BY <1>1, <1>3, <1>4, CollectedFacts DEF BatchBegins, IInv
<1>5. CASE sweep'[s].pc = "digest"
  BY <1>1, <1>3, <1>5 DEF BatchBegins
<1>6. QED BY <1>3, <1>4, <1>5

\* Where the channel is gone the sweep passes on.
LEMMA HeldPasses ==
    ASSUME TypeOK, NEW s \in Sweeper, SweepHeld(s), ~chan.exists
    PROVE  SweepsShrink /\ row' \in {row, Abandoned}
<1>1. sweep' = [sweep EXCEPT ![s] = [sweep[s] EXCEPT !.pc = "digest"]]
  BY DEF SweepHeld
<1>2. sweep'[s].pc = "digest" /\ \A t \in Sweeper : t # s => sweep'[t] = sweep[t]
  BY <1>1, SweepFields DEF Sweep
<1>3. QED BY <1>2 DEF SweepHeld, SweepsShrink, Busy, BatchStays

LEMMA HeldKeeps == ASSUME IInv, Shape', NEW s \in Sweeper, SweepHeld(s) PROVE Kept
<1>1. CASE chan.exists
  BY <1>1, HeldBegins, BatchKeeps
<1>2. CASE ~chan.exists
  <2>1. SweepsShrink /\ row' \in {row, Abandoned}
        /\ UNCHANGED <<job, chan, removing, count, accepted, unmarked, doubled>>
    BY <1>2, HeldPasses DEF SweepHeld, IInv
  <2>2. count'.retries = count.retries /\ count'.faults >= count.faults
    BY <2>1 DEF IInv, TypeOK
  <2>3. QED BY <1>2, <2>1, <2>2, AbandonKeeps
<1>3. QED BY <1>1, <1>2

LEMMA DigestBegins == ASSUME IInv, NEW s \in Sweeper, SweepDigest(s) PROVE BatchBegins(s)
<1>1. sweep \in [Sweeper -> Sweep] /\ sweep[s].pc = "digest"
      /\ UNCHANGED <<row, job, chan, removing, count, accepted, unmarked, doubled>>
  BY SweepFields DEF IInv, SweepDigest
<1>2. PICK r : sweep' = [sweep EXCEPT ![s] = r]
               /\ (r.pc \in {"idle", "record"} \/ (chan.exists /\ r = Collected(s, "digest")))
  <2>1. Resting.pc = "idle" /\ Recording(s).pc = "record"
    BY DEF Resting, Recording
  <2>2. CASE ~(chan.exists /\ chan.enabled /\ chan.mode = "digest" /\ DigestDue(s))
    BY <2>1, <2>2 DEF SweepDigest
  <2>3. CASE /\ chan.exists /\ chan.enabled /\ chan.mode = "digest" /\ DigestDue(s)
             /\ Batchable(s, "digest") = {}
    BY <2>1, <2>3 DEF SweepDigest
  <2>4. CASE /\ chan.exists /\ chan.enabled /\ chan.mode = "digest" /\ DigestDue(s)
             /\ Batchable(s, "digest") # {}
    BY <2>4 DEF SweepDigest
  <2>5. QED BY <2>2, <2>3, <2>4
<1>3. sweep'[s] = r /\ \A t \in Sweeper : t # s => sweep'[t] = sweep[t]
  BY <1>1, <1>2
<1>4. CASE r.pc \in {"idle", "record"}
  BY <1>1, <1>3, <1>4 DEF BatchBegins
<1>5. CASE chan.exists /\ r = Collected(s, "digest")
  BY <1>1, <1>3, <1>5, CollectedFacts DEF BatchBegins, IInv
<1>6. QED BY <1>2, <1>4, <1>5

LEMMA DigestKeeps == ASSUME IInv, Shape', NEW s \in Sweeper, SweepDigest(s) PROVE Kept
BY DigestBegins, BatchKeeps

LEMMA ShipEffect ==
    ASSUME IInv, NEW s \in Sweeper, SweepSend(s), NEW a \in Alert
    PROVE  /\ \A t \in Sweeper : t # s => sweep'[t] = sweep[t]
           /\ sweep'[s].pc = "mark" /\ sweep'[s].ok \in BOOLEAN
           /\ sweep'[s].batch = sweep[s].batch /\ sweep'[s].again = sweep[s].again
           /\ sweep'[s].reason = sweep[s].reason
           /\ ~Holds(s, a) => /\ accepted'[a] = accepted[a]
                              /\ unmarked'[a] = unmarked[a] /\ doubled'[a] = doubled[a]
           /\ a \in sweep[s].again =>
                /\ Holds(s, a) /\ unmarked'[a] = unmarked[a]
                /\ \/ accepted'[a] = accepted[a] + 1 /\ doubled'[a] = doubled[a] + 1
                   \/ ~sweep'[s].ok /\ accepted'[a] = accepted[a] /\ doubled'[a] = doubled[a]
           /\ ToSend(s, a) =>
                /\ doubled'[a] = doubled[a]
                /\ \/ sweep'[s].ok /\ accepted'[a] = accepted[a] + 1 /\ unmarked'[a] = unmarked[a]
                   \/ ~sweep'[s].ok /\ accepted'[a] = accepted[a] /\ unmarked'[a] = unmarked[a]
                   \/ /\ ~sweep'[s].ok
                      /\ accepted'[a] = accepted[a] + 1 /\ unmarked'[a] = unmarked[a] + 1
           /\ ~Holds(s, a) \/ a \in sweep[s].again \/ ToSend(s, a)
<1>1. /\ sweep[s] \in Sweep /\ sweep \in [Sweeper -> Sweep] /\ sweep[s].pc = "send"
      /\ a \in sweep[s].again => a \in sweep[s].batch
  BY SweepFields DEF IInv, SweepSend, BatchInv
<1>2. PICK ok \in BOOLEAN : sweep' = [sweep EXCEPT ![s] = [sweep[s] EXCEPT !.pc = "mark", !.ok = ok]]
  BY DEF SweepSend
<1>3. /\ \A t \in Sweeper : t # s => sweep'[t] = sweep[t]
      /\ sweep'[s].pc = "mark" /\ sweep'[s].ok \in BOOLEAN
      /\ sweep'[s].batch = sweep[s].batch /\ sweep'[s].again = sweep[s].again
      /\ sweep'[s].reason = sweep[s].reason
  BY <1>1, <1>2 DEF Sweep
<1>4. \/ /\ sweep'[s].ok /\ unmarked' = unmarked
         /\ accepted' = OneMore(accepted, sweep[s].batch)
         /\ doubled' = OneMore(doubled, sweep[s].again)
      \/ ~sweep'[s].ok /\ UNCHANGED <<accepted, unmarked, doubled>>
      \/ /\ ~sweep'[s].ok
         /\ accepted' = OneMore(accepted, sweep[s].batch)
         /\ doubled' = OneMore(doubled, sweep[s].again)
         /\ unmarked' = OneMore(unmarked, sweep[s].batch \ sweep[s].again)
  BY DEF SweepSend
<1>5. \A n, ids : OneMore(n, ids)[a] = IF a \in ids THEN n[a] + 1 ELSE n[a]
  BY DEF OneMore
<1>6. /\ Holds(s, a) <=> a \in sweep[s].batch
      /\ ToSend(s, a) <=> a \in sweep[s].batch /\ a \notin sweep[s].again
  BY <1>1 DEF Holds, ToSend
<1>7. QED BY <1>1, <1>3, <1>4, <1>5, <1>6

\* Where a batch is sent, nothing else moves: what is sent for the first time is now to be
\* recorded, or has failed.
LEMMA ShipHands ==
    ASSUME IInv, NEW s \in Sweeper, SweepSend(s), NEW a \in Alert
    PROVE  /\ \A t \in Sweeper :
                /\ Holds(t, a)' <=> Holds(t, a)
                /\ ToSend(t, a)' => ToSend(t, a) /\ t # s
                /\ t # s => /\ ToRecord(t, a)' <=> ToRecord(t, a)
                            /\ Repeated(t, a)' <=> Repeated(t, a)
           /\ ToRecord(s, a)' <=> ToSend(s, a) /\ sweep'[s].ok
           /\ Repeated(s, a)' <=> sweep'[s].ok /\ a \in sweep[s].again
           /\ ~ToRecord(s, a) /\ (ToSend(s, a) => Ships(a))
           /\ InBatch(a)' <=> InBatch(a)
           /\ Ships(a)' => Ships(a) /\ ~ToSend(s, a)
           /\ Records(a)' <=> Records(a) \/ (ToSend(s, a) /\ sweep'[s].ok)
<1>1. sweep[s].pc = "send"
  BY DEF SweepSend
<1>2. \A t \in Sweeper :
        /\ Holds(t, a)' <=> Holds(t, a)
        /\ ToSend(t, a)' => ToSend(t, a) /\ t # s
        /\ t # s => /\ ToRecord(t, a)' <=> ToRecord(t, a)
                    /\ Repeated(t, a)' <=> Repeated(t, a)
  BY <1>1, ShipEffect DEF Holds, ToSend, ToRecord, Repeated
<1>3. /\ ToRecord(s, a)' <=> ToSend(s, a) /\ sweep'[s].ok
      /\ Repeated(s, a)' <=> sweep'[s].ok /\ a \in sweep[s].again
      /\ ~ToRecord(s, a)
  BY <1>1, ShipEffect DEF ToSend, ToRecord, Repeated
<1>4. InBatch(a)' <=> InBatch(a)
  BY <1>2 DEF InBatch
<1>5. Records(a)' <=> Records(a) \/ (ToSend(s, a) /\ sweep'[s].ok)
  <2>1. Records(a)' => Records(a) \/ (ToSend(s, a) /\ sweep'[s].ok)
    BY <1>2, <1>3 DEF Records
  <2>2. Records(a) => Records(a)'
    BY <1>2, <1>3 DEF Records
  <2>3. QED BY <1>3, <2>1, <2>2 DEF Records
<1>6. ToSend(s, a) => Ships(a)
  BY DEF Ships
<1>7. Ships(a)' => Ships(a) /\ ~ToSend(s, a)
  <2> SUFFICES ASSUME NEW t \in Sweeper, ToSend(t, a)' PROVE Ships(a) /\ ~ToSend(s, a)
    BY DEF Ships
  <2>1. ToSend(t, a) /\ t # s
    BY <1>2
  <2>2. QED BY <2>1 DEF Ships, First, IInv, BatchInv
<1>8. QED BY <1>2, <1>3, <1>4, <1>5, <1>6, <1>7

LEMMA ShipCounts ==
    ASSUME IInv, NEW s \in Sweeper, SweepSend(s), NEW a \in Alert
    PROVE  /\ ~ToSend(s, a) => \/ accepted'[a] = accepted[a] /\ Lost(a)' = Lost(a)
                               \/ accepted'[a] = accepted[a] + 1 /\ Lost(a)' = Lost(a) + 1
           /\ ToSend(s, a) =>
                \/ sweep'[s].ok /\ accepted'[a] = accepted[a] + 1 /\ Lost(a)' = Lost(a)
                \/ ~sweep'[s].ok /\ accepted'[a] = accepted[a] /\ Lost(a)' = Lost(a)
                \/ ~sweep'[s].ok /\ accepted'[a] = accepted[a] + 1 /\ Lost(a)' = Lost(a) + 1
<1>1. unmarked[a] \in Nat /\ doubled[a] \in Nat /\ accepted[a] \in Nat
  BY DEF IInv, TypeOK
<1>2. QED BY <1>1, ShipEffect DEF Lost

LEMMA ShipKeeps == ASSUME IInv, Shape', NEW s \in Sweeper, SweepSend(s) PROVE Kept
<1>1. Shape /\ UNCHANGED <<row, job, chan, removing>>
  BY DEF IInv, Shape, SweepSend
<1>4. JobsShrink /\ RowsShrink /\ ChannelShrinks
  BY <1>1 DEF JobsShrink, Sending, Live, RowsShrink, ChannelShrinks
<1>5. OwnInv'
  <2>1. OwnersStay
    BY <1>1 DEF OwnersStay, Sending, IInv, OwnInv
  <2>2. QED BY <1>1, <1>4, <2>1, OwnKept DEF IInv
<1>6. BatchInv'
  <2>1. removing' => ~chan'.exists
    BY <1>1 DEF IInv, BatchInv
  <2>2. \A t \in Sweeper, a \in Alert :
          chan'.exists /\ Holds(t, a)' => row'[a].status \in {sweep'[t].reason, "digested"}
    <3> TAKE t \in Sweeper, a \in Alert
    <3>1. (Holds(t, a)' <=> Holds(t, a)) /\ sweep'[t].reason = sweep[t].reason
      BY ShipHands, ShipEffect
    <3>2. QED BY <1>1, <3>1 DEF IInv, BatchInv
  <2>3. \A t \in Sweeper, a \in Alert :
          sweep'[t].pc \in {"send", "mark"} /\ a \in sweep'[t].again => a \in sweep'[t].batch
    <3> TAKE t \in Sweeper, a \in Alert
    <3>1. CASE t = s
      BY <3>1, ShipEffect DEF SweepSend, IInv, BatchInv
    <3>2. CASE t # s
      BY <3>2, ShipEffect DEF IInv, BatchInv
    <3>3. QED BY <3>1, <3>2
  <2>4. \A t, u \in Sweeper, a \in Alert : First(t, a)' /\ First(u, a)' => t = u
    <3>1. \A t \in Sweeper, a \in Alert : First(t, a)' => First(t, a)
      BY ShipHands DEF First
    <3>2. QED BY <3>1 DEF IInv, BatchInv
  <2>5. QED BY <2>1, <2>2, <2>3, <2>4 DEF BatchInv
<1>7. BudgetInv'
  <2>1. \A a \in Alert : Opens(a)
    BY <1>1, OpenSame
  <2>2. Total' >= Total
    <3>1. count'.retries = count.retries /\ count'.faults >= count.faults
      BY LimitsAssumption DEF SweepSend, Fault, IInv, TypeOK
    <3>2. count.faults \in Nat /\ count'.faults \in Nat
      BY LimitsAssumption DEF IInv, Shape, TypeOK
    <3>3. QED BY <1>1, <3>1, <3>2, JobFields DEF Total, Shape
  <2>3. QED BY <1>1, <1>4, <2>1, <2>2, BudgetKept DEF IInv
<1>8. SendInv'
  <2> SUFFICES ASSUME NEW a \in Alert
               PROVE  /\ accepted'[a] <= 1 + Lost(a)'
                      /\ Sends(a)' => accepted'[a] <= Lost(a)'
                      /\ Ships(a)' => accepted'[a] <= Lost(a)' /\ ~Sends(a)'
                      /\ chan'.exists /\ ~Learned(a)' => accepted'[a] <= Lost(a)'
    BY DEF SendInv
  <2>1. /\ accepted[a] \in Nat /\ Lost(a) \in Nat
        /\ accepted[a] <= 1 + Lost(a)
        /\ Sends(a) => accepted[a] <= Lost(a)
        /\ Ships(a) => accepted[a] <= Lost(a) /\ ~Sends(a)
        /\ chan.exists /\ ~Learned(a) => accepted[a] <= Lost(a)
    BY JobFields DEF IInv, SendInv
  <2>2. /\ Sends(a)' <=> Sends(a)
        /\ Ships(a)' => Ships(a) /\ ~ToSend(s, a)
        /\ Learned(a) => Learned(a)'
        /\ ToSend(s, a) => Ships(a)
        /\ ToSend(s, a) /\ sweep'[s].ok => Learned(a)'
    BY <1>1, ShipHands DEF Sends, Learned, Unrecorded
  <2>3. CASE ~ToSend(s, a)
    BY <1>1, <2>1, <2>2, <2>3, ShipCounts
  <2>4. CASE ToSend(s, a)
    BY <1>1, <2>1, <2>2, <2>4, ShipCounts
  <2>5. QED BY <2>3, <2>4
<1>9. RaiseInv'
  <2>1. \A a \in Alert : InBatch(a)' => row[a].status # "none"
    BY ShipHands DEF IInv, RaiseInv
  <2>2. QED BY <1>1, <1>4, <2>1, RaisesGoOn DEF Raising
<1>10. QED BY <1>5, <1>6, <1>7, <1>8, <1>9 DEF Kept, Rest

LEMMA BatchMarkEffect ==
    ASSUME Shape, NEW s \in Sweeper, SweepMark(s), NEW a \in Alert
    PROVE  \/ row'[a] = row[a] /\ (sweep[s].ok => a \notin sweep[s].batch)
           \/ /\ sweep[s].ok /\ Holds(s, a) /\ row'[a].status = "digested"
              /\ row'[a].attempts = row[a].attempts /\ row'[a].raised = row[a].raised
<1>1. /\ sweep[s].batch \in SUBSET Alert /\ row[a] \in Row /\ "digested" \in Statuses
      /\ sweep[s].pc = "mark"
  BY SweepFields DEF Shape, TypeOK, Statuses, SweepMark
<1>2. CASE ~sweep[s].ok
  BY <1>2 DEF SweepMark
<1>3. CASE sweep[s].ok
  <2>1. row' = Batched(sweep[s].batch)
    BY <1>3 DEF SweepMark
  <2>2. /\ a \in sweep[s].batch => row'[a] = Into(row[a], "digested")
        /\ a \notin sweep[s].batch => row'[a] = row[a]
    BY <1>1, <2>1, BatchedFacts DEF Shape
  <2>3. QED BY <1>1, <1>3, <2>2, IntoFacts DEF Holds
<1>4. QED BY <1>2, <1>3

LEMMA BatchMarkSweeps ==
    ASSUME TypeOK, NEW s \in Sweeper, SweepMark(s)
    PROVE  /\ SweepsShrink /\ sweep'[s].pc \in {"digest", "record"}
           /\ \A t \in Sweeper : t # s => sweep'[t] = sweep[t]
<1>1. PICK r : sweep' = [sweep EXCEPT ![s] = r] /\ r.pc \in {"digest", "record"}
  <2>1. Recording(s).pc = "record"
    BY DEF Recording, Resting
  <2>2. [sweep[s] EXCEPT !.pc = "digest", !.batch = {}, !.again = {}, !.ok = FALSE].pc = "digest"
    BY SweepFields DEF Sweep
  <2>3. QED BY <2>1, <2>2 DEF SweepMark
<1>2. sweep'[s].pc \in {"digest", "record"} /\ \A t \in Sweeper : t # s => sweep'[t] = sweep[t]
  BY <1>1, SweepFields
<1>3. QED BY <1>2 DEF SweepsShrink, Busy, BatchStays

LEMMA BatchMarkKeeps == ASSUME IInv, Shape', NEW s \in Sweeper, SweepMark(s) PROVE Kept
<1>1. Shape /\ TypeOK /\ UNCHANGED <<job, chan, removing, count, accepted, unmarked, doubled>>
  BY DEF IInv, Shape, SweepMark
<1>2. SweepsShrink /\ \A t \in Sweeper : t # s => sweep'[t] = sweep[t]
  BY <1>1, BatchMarkSweeps
<1>3. ASSUME NEW a \in Alert
      PROVE  \/ row'[a] = row[a] /\ (sweep[s].ok => a \notin sweep[s].batch)
             \/ /\ InBatch(a) /\ row'[a].status = "digested"
                /\ row'[a].attempts = row[a].attempts /\ row'[a].raised = row[a].raised
  BY <1>1, BatchMarkEffect DEF InBatch
<1>4. JobsShrink /\ ChannelShrinks
  BY <1>1 DEF JobsShrink, Sending, Live, ChannelShrinks
<1>5. RowsShrink
  BY <1>3 DEF RowsShrink
<1>6. OwnInv'
  <2>1. OwnersStay
    <3> SUFFICES ASSUME NEW w \in Worker, chan'.exists, Sending(w)'
                 PROVE  row'[job[w].id].status = "sending"
      BY DEF OwnersStay
    <3>1. Sending(w) /\ chan.exists
      BY <1>1, <1>4 DEF JobsShrink
    <3>2. job[w].id \in Alert /\ row[job[w].id].status = "sending"
      BY <3>1, OneOwner
    <3>3. ~InBatch(job[w].id)
      BY <1>1, <3>1, <3>2, HeldStatus DEF IInv
    <3>4. QED BY <1>3, <3>2, <3>3
  <2>2. QED BY <1>1, <1>4, <1>5, <2>1, OwnKept DEF IInv
<1>7. BatchInv'
  <2>1. removing' => ~chan'.exists
    BY <1>1 DEF IInv, BatchInv
  <2>2. \A a \in Alert : row'[a].status \in {row[a].status, "digested"}
    BY <1>3
  <2>3. QED BY <1>2, <1>4, <2>1, <2>2, BatchKept DEF IInv
<1>8. BudgetInv'
  <2>1. ASSUME NEW a \in Alert PROVE Opens(a)
    <3>1. CASE row'[a] = row[a]
      BY <1>1, <3>1, OpenSame
    <3>2. CASE row'[a].status = "digested"
      BY <3>2 DEF Opens, Open
    <3>3. QED BY <1>3, <3>1, <3>2
  <2>2. Total' >= Total
    BY <1>1, JobFields DEF Total, Shape
  <2>3. QED BY <1>1, <1>4, <1>5, <2>1, <2>2, BudgetKept DEF IInv
<1>9. SendInv'
  <2> SUFFICES ASSUME NEW a \in Alert PROVE Forgets(a)
    BY <1>1, SendKept DEF IInv
  <2>1. \A w \in Worker : Unrecorded(w, a) => Unrecorded(w, a)'
    BY <1>1 DEF Unrecorded
  <2>2. Learned(a) => Learned(a)'
    <3>1. CASE row'[a].status = "digested"
      BY <3>1 DEF Learned
    <3>2. CASE row'[a] = row[a] /\ (sweep[s].ok => a \notin sweep[s].batch)
      <4>1. \A t \in Sweeper : ToRecord(t, a) => ToRecord(t, a)'
        BY <1>2, <3>2 DEF ToRecord
      <4>2. QED BY <2>1, <3>2, <4>1 DEF Learned, Records
    <3>3. QED BY <1>3, <3>1, <3>2
  <2>3. (Sends(a)' => Sends(a)) /\ (Ships(a)' => Ships(a))
    BY <1>1, <1>2, ShrinkFacts DEF Sends
  <2>4. Lost(a)' >= Lost(a)
    BY <1>1, JobFields DEF Lost
  <2>5. QED BY <1>1, <2>2, <2>3, <2>4 DEF Forgets
<1>10. RaiseInv'
  <2>1. \A a \in Alert : InBatch(a)' => row[a].status # "none"
    BY <1>2, ShrinkFacts DEF IInv, RaiseInv
  <2>2. \A a \in Alert : row'[a].raised = row[a].raised /\ (row'[a].status = "none" <=> row[a].status = "none")
    BY <1>3 DEF IInv, RaiseInv
  <2>3. QED BY <1>1, <1>4, <1>5, <2>1, <2>2, RaisesGoOn DEF Raising
<1>11. QED BY <1>6, <1>7, <1>8, <1>9, <1>10 DEF Kept, Rest

-----------------------------------------------------------------------------
(* The clock.                                                              *)
LEMMA AdvanceSweeps == ASSUME TypeOK, Advance PROVE SweepsSame
<1>1. ASSUME NEW s \in Sweeper PROVE BatchStays(s)
  <2>1. \/ sweep'[s] = sweep[s]
        \/ sweep'[s] = [sweep[s] EXCEPT !.days = 1]
    BY DEF Advance
  <2>2. sweep[s] \in Sweep
    BY SweepFields
  <2>3. QED BY <2>1, <2>2 DEF BatchStays, Sweep
<1>2. QED BY <1>1 DEF SweepsSame

LEMMA AdvanceKeeps == ASSUME IInv, Shape', Advance PROVE Kept
<1>1. Shape /\ UNCHANGED <<removing, count, accepted, unmarked, doubled>>
      /\ job \in [Worker -> Job] /\ SweepsSame
  BY AdvanceSweeps DEF IInv, Shape, TypeOK, Advance
<1>2. chan'.exists = chan.exists
  BY DEF Advance, IInv, TypeOK, Channel
<1>3. \A a \in Alert :
        /\ row'[a].status = row[a].status /\ row'[a].attempts = row[a].attempts
        /\ row'[a].raised = row[a].raised
        /\ row[a].status = "sending" => row'[a].busy = Least(row[a].busy + 1, Stale)
  BY <1>1, TickedRow
<1>4. ASSUME NEW w \in Worker
      PROVE  /\ job'[w].pc = job[w].pc /\ job'[w].id = job[w].id /\ job'[w].out = job[w].out
             /\ job'[w].attempts = job[w].attempts
             /\ Sending(w) => job'[w].age = job[w].age + 1 /\ job[w].age + 1 < Stale
  <2>1. job[w] \in Job
    BY <1>1
  <2>2. QED BY <1>1, <2>1, TickedJob DEF Job
<1>5. \A w \in Worker :
        /\ Sending(w)' <=> Sending(w)
        /\ Live(w)' <=> Live(w)
        /\ Raising(w)' <=> Raising(w)
        /\ Sending(w) => job[w].id \in Alert /\ (Owns(w)' <=> Owns(w))
  BY <1>2, <1>3, <1>4 DEF Sending, Live, Raising, Owns, IInv, JobInv
<1>6. OwnInv'
  <2>1. ASSUME NEW w \in Worker, Sending(w)'
        PROVE  /\ job'[w].attempts <= row'[job'[w].id].attempts
               /\ Owns(w)' /\ row'[job'[w].id].status = "sending"
                    => row'[job'[w].id].busy = job'[w].age
               /\ chan'.exists => Owns(w)' /\ row'[job'[w].id].status = "sending"
    <3>1. PICK a : a = job[w].id
      OBVIOUS
    <3>2. /\ a \in Alert /\ Sending(w) /\ job'[w].id = a
          /\ job[w].attempts <= row[a].attempts
          /\ Owns(w) /\ row[a].status = "sending" => row[a].busy = job[w].age
          /\ chan.exists => Owns(w) /\ row[a].status = "sending"
      BY <1>4, <1>5, <2>1, <3>1 DEF IInv, OwnInv
    <3>3. job[w].age + 1 < Stale /\ job'[w].age = job[w].age + 1
      BY <1>4, <3>2
    <3>4. row[a].status = "sending" /\ Owns(w) => row'[a].busy = job'[w].age
      <4>1. row[a].status = "sending" /\ Owns(w) => row'[a].busy = Least(job[w].age + 1, Stale)
        BY <1>3, <3>2
      <4>2. Least(job[w].age + 1, Stale) = job[w].age + 1
        BY <1>1, <3>3, JobFields, Limits DEF Least, Shape
      <4>3. QED BY <3>3, <4>1, <4>2
    <3>5. QED BY <1>2, <1>3, <1>4, <1>5, <3>2, <3>4
  <2>2. ASSUME NEW u \in Worker, NEW v \in Worker, Sending(u)', Sending(v)', u # v,
               job'[u].id = job'[v].id
        PROVE  job'[u].attempts # job'[v].attempts
    BY <1>4, <1>5, <2>2 DEF IInv, OwnInv
  <2>3. ASSUME NEW u \in Worker, NEW v \in Worker, Live(u)', Live(v)', job'[u].id = job'[v].id
        PROVE  u = v
    BY <1>4, <1>5, <2>3 DEF IInv, OwnInv
  <2>4. QED BY <2>1, <2>2, <2>3 DEF OwnInv
<1>7. BatchInv'
  <2>1. (removing' => ~chan'.exists) /\ SweepsShrink /\ ChannelShrinks
    BY <1>1, <1>2, SameFacts DEF IInv, BatchInv, ChannelShrinks
  <2>2. QED BY <1>3, <2>1, BatchKept DEF IInv
<1>8. BudgetInv'
  <2> SUFFICES ASSUME NEW a \in Alert
               PROVE  row'[a].attempts + (IF Slack(a)' THEN 1 ELSE 0)
                         + (IF Open(a)' THEN 1 ELSE 0) <= Total'
    BY DEF BudgetInv
  <2>1. Slack(a)' <=> Slack(a)
    BY <1>4, <1>5 DEF Slack
  <2>2. Open(a)' <=> Open(a)
    <3>1. \A w \in Worker : Owns(w)' /\ job'[w].id = a <=> Owns(w) /\ job[w].id = a
      BY <1>4, <1>5 DEF Owns
    <3>2. QED BY <1>3, <3>1 DEF Open
  <2>3. Total' = Total
    BY <1>1 DEF Total
  <2>4. QED BY <1>3, <2>1, <2>2, <2>3 DEF IInv, BudgetInv
<1>9. SendInv'
  <2> SUFFICES ASSUME NEW a \in Alert PROVE Forgets(a)
    BY <1>1, SendKept DEF IInv
  <2>1. \A w \in Worker : Unrecorded(w, a) => Unrecorded(w, a)'
    BY <1>4 DEF Unrecorded
  <2>2. Learned(a) => Learned(a)'
    BY <1>1, <1>3, <2>1, SameFacts DEF Learned
  <2>3. Sends(a)' => Sends(a)
    BY <1>4 DEF Sends
  <2>4. Lost(a)' >= Lost(a)
    BY <1>1, JobFields DEF Shape, Lost
  <2>5. QED BY <1>1, <1>2, <2>2, <2>3, <2>4, SameFacts DEF Forgets
<1>10. RaiseInv'
  <2>1. \A w \in Worker : Raising(w)' => Raising(w) /\ job'[w].id = job[w].id
    BY <1>4, <1>5
  <2>2. \A w \in Worker : Sending(w)' => row'[job'[w].id].status # "none"
    BY <1>3, <1>4, <1>5 DEF IInv, RaiseInv
  <2>3. \A a \in Alert : InBatch(a)' => row'[a].status # "none"
    BY <1>1, <1>3, SameFacts DEF IInv, RaiseInv
  <2>4. RaiseInv
    BY DEF IInv
  <2>5. QED BY <1>1, <1>3, <2>1, <2>2, <2>3, <2>4, RaiseKept
<1>11. QED BY <1>6, <1>7, <1>8, <1>9, <1>10 DEF Kept, Rest

-----------------------------------------------------------------------------
(* A sweep's deliveries end with it.                                       *)
LEMMA SweptKept ==
    ASSUME SweptInv,
           \A v \in Worker : job'[v].by # None => job'[v].by = job[v].by,
           \A v \in Worker, s \in Sweeper :
              job'[v].by = s /\ s # None /\ sweep[s].pc = "retry" => sweep'[s].pc = "retry"
    PROVE  SweptInv'
BY DEF SweptInv

LEMMA WorkSwept ==
    ASSUME TypeOK, NEW w \in Worker, Work(w)
    PROVE  /\ sweep' = sweep
           /\ \A v \in Worker : job'[v].by # None => job'[v].by = job[v].by
<1>1. job \in [Worker -> Job] /\ job[w] \in Job /\ Idle.by = None
  BY DEF TypeOK, Idle
<1>2. sweep' = sweep
  BY DEF Work, Route, Cap, Insert, Claim, Lookup, Send, Mark
<1>3. \A v \in Worker : v # w => job'[v] = job[v]
  BY <1>1 DEF Work, Route, Cap, Insert, Claim, Lookup, Send, Mark, Start
<1>4. job'[w].by # None => job'[w].by = job[w].by
  <2>1. CASE Route(w)
    BY <1>1, <2>1 DEF Route, Job
  <2>2. CASE Cap(w)
    BY <1>1, <2>2 DEF Cap, Job
  <2>3. CASE Insert(w)
    BY <1>1, <2>3 DEF Insert, Start, Idle
  <2>4. CASE Claim(w)
    BY <1>1, <2>4 DEF Claim, Job
  <2>5. CASE Lookup(w)
    BY <1>1, <2>5 DEF Lookup, Job
  <2>6. CASE Send(w)
    <3>1. PICK out : job' = [job EXCEPT ![w] = [job[w] EXCEPT !.pc = "mark", !.out = out]]
      BY <2>6 DEF Send
    <3>2. QED BY <1>1, <3>1 DEF Job
  <2>7. CASE Mark(w)
    BY <1>1, <2>7 DEF Mark
  <2>8. QED BY <2>1, <2>2, <2>3, <2>4, <2>5, <2>6, <2>7 DEF Work
<1>5. QED BY <1>2, <1>3, <1>4

LEMMA SweptStep == ASSUME IInv, Shape', [Next]_vars PROVE SweptInv'
<1>1. /\ job \in [Worker -> Job] /\ sweep \in [Sweeper -> Sweep] /\ SweptInv /\ Idle.by = None
      /\ None \notin Sweeper /\ TypeOK
  BY NoneAssumption DEF IInv, TypeOK, Idle
<1>2. ASSUME NEW w \in Worker, NEW a \in Alert, Raise(w, a) \/ Retry(w, a)
      PROVE  SweptInv'
  <2>1. \A s \in Sweeper : sweep'[s].pc = sweep[s].pc
    <3>1. \A s \in Sweeper : [sweep[s] EXCEPT !.late = @ \cup {a}].pc = sweep[s].pc
      BY <1>1 DEF Sweep
    <3>2. QED BY <1>2, <3>1 DEF Raise, Retry
  <2>2. \A v \in Worker : job'[v].by # None => job'[v].by = job[v].by
    <3>1. PICK pc : job' = [job EXCEPT ![w] = [Idle EXCEPT !.pc = pc, !.id = a]]
      BY <1>2 DEF Raise, Retry, Start
    <3>2. [Idle EXCEPT !.pc = pc, !.id = a].by = None
      BY DEF Idle
    <3>3. QED BY <1>1, <3>1, <3>2
  <2>3. QED BY <1>1, <2>1, <2>2, SweptKept
<1>3. ASSUME NEW w \in Worker, Work(w) PROVE SweptInv'
  BY <1>1, <1>3, WorkSwept, SweptKept
<1>4. ASSUME NEW w \in Worker, Crash(w) PROVE SweptInv'
  <2>1. \A v \in Worker : \/ job'[v].by = None
                          \/ job'[v].by = job[v].by /\ job[v].by # job[w].by
    <3>1. job'[w] = Idle
      BY <1>4 DEF Crash
    <3>2. ASSUME NEW v \in Worker, v # w
          PROVE  job'[v].by = IF job[v].by = job[w].by THEN None ELSE job[v].by
      <4>1. PICK b : b = IF job[v].by = job[w].by THEN None ELSE job[v].by
        OBVIOUS
      <4>2. job'[v] = [job[v] EXCEPT !.by = b]
        BY <1>4, <3>2, <4>1 DEF Crash
      <4>3. job[v] \in Job
        BY <1>1 DEF TypeOK
      <4>4. job'[v].by = b
        BY <4>2, <4>3 DEF Job
      <4>5. QED BY <4>1, <4>4
    <3>3. QED BY <1>1, <3>1, <3>2
  <2>2. \A s \in Sweeper : s # job[w].by => sweep'[s] = sweep[s]
    BY <1>4 DEF Crash
  <2>3. QED BY <1>1, <2>1, <2>2, SweptKept
<1>5. ASSUME NEW s \in Sweeper, NEW w \in Worker, SweepDeliver(s, w) PROVE SweptInv'
  <2>1. \A t \in Sweeper : sweep'[t].pc = sweep[t].pc
    BY <1>1, <1>5 DEF SweepDeliver, Sweep
  <2>2. \A v \in Worker : v # w => job'[v] = job[v]
    BY <1>1, <1>5 DEF SweepDeliver
  <2>3. job'[w].by = s
    BY <1>1, <1>5 DEF SweepDeliver, Idle
  <2>4. sweep[s].pc = "retry"
    BY <1>5 DEF SweepDeliver
  <2>5. QED BY <1>1, <2>1, <2>2, <2>3, <2>4 DEF SweptInv
<1>6. ASSUME NEW s \in Sweeper, SweepStart(s) PROVE SweptInv'
  <2>1. \A t \in Sweeper : t # s => sweep'[t] = sweep[t]
    BY <1>1, <1>6 DEF SweepStart
  <2>2. sweep[s].pc # "retry" /\ job' = job
    BY <1>6 DEF SweepStart
  <2>3. QED BY <1>1, <2>1, <2>2, SweptKept
<1>7. ASSUME NEW s \in Sweeper,
             \/ SweepRetried(s) \/ SweepHeld(s) \/ SweepDigest(s)
             \/ SweepSend(s) \/ SweepMark(s) \/ SweepRecord(s)
      PROVE  SweptInv'
  <2>1. job' = job
    BY <1>7 DEF SweepRetried, SweepHeld, SweepDigest, SweepSend, SweepMark, SweepRecord
  <2>2. \A w \in Worker : job[w].by # s
    BY <1>1, <1>7 DEF SweepRetried, SweepHeld, SweepDigest, SweepSend, SweepMark, SweepRecord, SweptInv
  <2>3. \A t \in Sweeper : t # s => sweep'[t] = sweep[t]
    <3>1. PICK r : sweep' = [sweep EXCEPT ![s] = r]
      <4>1. CASE SweepRetried(s) \/ SweepHeld(s) \/ SweepRecord(s)
        BY <4>1 DEF SweepRetried, SweepHeld, SweepRecord
      <4>2. CASE SweepDigest(s)
        BY <4>2 DEF SweepDigest
      <4>3. CASE SweepSend(s)
        BY <4>3 DEF SweepSend
      <4>4. CASE SweepMark(s)
        BY <4>4 DEF SweepMark
      <4>5. QED BY <1>7, <4>1, <4>2, <4>3, <4>4
    <3>2. QED BY <1>1, <3>1
  <2>4. QED BY <1>1, <2>1, <2>2, <2>3, SweptKept
<1>8. ASSUME NEW s \in Sweeper, SweepCrash(s) PROVE SweptInv'
  <2>1. \A w \in Worker : job'[w].by = None \/ (job'[w].by = job[w].by /\ job[w].by # s)
    BY <1>1, <1>8 DEF SweepCrash
  <2>2. \A t \in Sweeper : t # s => sweep'[t] = sweep[t]
    BY <1>1, <1>8, SweepCrashSweeps
  <2>3. QED BY <1>1, <2>1, <2>2, SweptKept
<1>9. CASE UpdateChannel \/ RemoveChannel \/ AbandonChannel \/ UNCHANGED vars
  <2>1. sweep' = sweep /\ job' = job
    BY <1>9 DEF UpdateChannel, RemoveChannel, AbandonChannel, vars
  <2>2. QED BY <1>1, <2>1, SweptKept
<1>10. CASE Advance
  <2>1. \A w \in Worker : job'[w].by = job[w].by
    BY <1>1, <1>10 DEF Advance, Job
  <2>2. \A s \in Sweeper : sweep'[s].pc = sweep[s].pc
    BY <1>1, <1>10 DEF Advance, Sweep
  <2>3. QED BY <1>1, <2>1, <2>2, SweptKept
<1>11. QED
  BY <1>2, <1>3, <1>4, <1>5, <1>6, <1>7, <1>8, <1>9, <1>10 DEF Next, SweepStep

-----------------------------------------------------------------------------
LEMMA IInvInit == Init => IInv
<1> SUFFICES ASSUME Init PROVE IInv
  OBVIOUS
<1>1. TypeOK /\ JobInv
  BY ShapeInit DEF Shape
<1>2. \A w \in Worker : job[w].pc = "idle" /\ job[w].by = None
  BY DEF Init, Idle
<1>3. \A a \in Alert : row[a].status = "none" /\ row[a].attempts = 0
                       /\ accepted[a] = 0 /\ Lost(a) = 0
  BY DEF Init, NoRow, Lost
<1>4. (\A s \in Sweeper : sweep[s].pc = "idle") /\ ~removing /\ Total \in Nat
  BY <1>1, JobFields DEF Init, Resting
<1>5. RaiseInv
  BY <1>2, <1>3, <1>4 DEF RaiseInv, Sending, Raising, InBatch, Holds
<1>6. OwnInv /\ BatchInv
  BY <1>2, <1>4 DEF OwnInv, BatchInv, Sending, Live, Holds, First, ToSend, ToRecord
<1>7. BudgetInv
  <2>1. \A a \in Alert : ~Slack(a) /\ ~Open(a)
    BY <1>2, <1>3 DEF Slack, Open, Live
  <2>2. QED BY <1>3, <1>4, <2>1 DEF BudgetInv
<1>8. SendInv
  BY <1>2, <1>3, <1>4 DEF SendInv, Ships, Sends, ToSend
<1>9. SweptInv
  BY <1>2 DEF SweptInv
<1>10. QED BY <1>1, <1>5, <1>6, <1>7, <1>8, <1>9 DEF IInv

LEMMA IInvStep == IInv /\ [Next]_vars => IInv'
<1> SUFFICES ASSUME IInv, [Next]_vars PROVE IInv'
  OBVIOUS
<1>1. Shape'
  BY ShapeStep DEF IInv, Shape
<1>2. Kept
  <2>1. CASE Next
    <3>1. CASE Advance \/ UpdateChannel \/ RemoveChannel \/ AbandonChannel
      BY <1>1, <3>1, AdvanceKeeps, ClockFreeKeeps, RemoveKeeps, AbandonChannelKeeps
    <3>2. CASE \E w \in Worker, a \in Alert : Raise(w, a) \/ Retry(w, a)
      BY <1>1, <3>2, RaiseKeeps, RetryKeeps
    <3>3. CASE \E w \in Worker : Work(w) \/ Crash(w)
      BY <1>1, <3>3, RouteKeeps, InsertKeeps, ClaimKeeps, LookupKeeps, SendKeeps, MarkKeeps,
         CrashKeeps DEF Work
    <3>4. ASSUME NEW s \in Sweeper, SweepStart(s) \/ SweepStep(s) \/ SweepCrash(s) PROVE Kept
      BY <1>1, <3>4, DeliverKeeps, ClockFreeKeeps, HeldKeeps, DigestKeeps, ShipKeeps,
         BatchMarkKeeps, SweepCrashKeeps DEF SweepStep
    <3>5. QED BY <2>1, <3>1, <3>2, <3>3, <3>4 DEF Next
  <2>2. CASE UNCHANGED vars
    BY <1>1, <2>2, ClockFreeKeeps
  <2>3. QED BY <2>1, <2>2
<1>3. SweptInv'
  BY <1>1, SweptStep
<1>4. QED BY <1>1, <1>2, <1>3 DEF Shape, Kept, Rest, IInv

LEMMA Invariance == Spec => []IInv
<1>1. Init => IInv
  BY IInvInit
<1>2. IInv /\ [Next]_vars => IInv'
  BY IInvStep
<1>3. QED BY <1>1, <1>2, PTL DEF Spec

(* claim's UPDATE and the staleness it waits for let one invocation at a   *)
(* time send a delivery: a raise, a sweep and a console retry never do it  *)
(* together, also around the channel's removal.                            *)
THEOREM SenderCorrect == Spec => []OneSender
<1>1. IInv => OneSender
  <2> SUFFICES ASSUME IInv, NEW v \in Worker, NEW w \in Worker, v # w,
                      job[v].pc = "send", job[w].pc = "send"
               PROVE  job[v].id # job[w].id
    BY DEF OneSender
  <2>1. Live(v) /\ Live(w)
    BY DEF Live
  <2>2. QED BY <2>1 DEF IInv, OwnInv
<1>2. QED BY <1>1, Invariance, PTL

(* An alert goes out again, alone or in a batch (deliver, flush), only     *)
(* where a message was accepted and the engine never learned of it, or     *)
(* where a sweep read it while another had it in hand; once more for each. *)
THEOREM RepeatCorrect == Spec => []NoNeedlessRepeat
<1>1. IInv => NoNeedlessRepeat
  <2> SUFFICES ASSUME IInv, NEW a \in Alert PROVE accepted[a] <= 1 + unmarked[a] + doubled[a]
    BY DEF NoNeedlessRepeat
  <2>1. accepted[a] <= 1 + (unmarked[a] + doubled[a])
    BY DEF IInv, SendInv, Lost
  <2>2. accepted[a] \in Nat /\ unmarked[a] \in Nat /\ doubled[a] \in Nat
    BY DEF IInv, TypeOK
  <2>3. QED BY <2>1, <2>2
<1>2. QED BY <1>1, Invariance, PTL

(* A delivery's attempts stay within MAX_ATTEMPTS, one more for every      *)
(* retry from the console and every death (claim, markFailed, requeue).    *)
THEOREM AttemptsCorrect == Spec => []AttemptsBounded
<1>1. IInv => AttemptsBounded
  <2> SUFFICES ASSUME IInv, NEW a \in Alert
               PROVE  row[a].attempts <= MaxAttempts + count.retries + count.faults
    BY DEF AttemptsBounded
  <2>1. row[a].attempts + (IF Slack(a) THEN 1 ELSE 0) + (IF Open(a) THEN 1 ELSE 0) <= Total
    BY DEF IInv, BudgetInv
  <2>2. row[a].attempts \in Nat /\ Total \in Nat
    BY JobFields DEF IInv
  <2>3. row[a].attempts <= Total
    BY <2>1, <2>2
  <2>4. QED BY <2>3 DEF Total
<1>2. QED BY <1>1, Invariance, PTL

-----------------------------------------------------------------------------
(* While the channel exists no statement takes a row out of "sent" or      *)
(* "digested".                                                             *)
LEMMA SentStep ==
    ASSUME IInv, [Next]_vars, NEW a \in Alert,
           row[a].status \in {"sent", "digested"}, chan.exists
    PROVE  row'[a].status = row[a].status
<1>1. row \in [Alert -> Row] /\ Shape
  BY DEF IInv, TypeOK, Shape
<1>2. ASSUME NEW w \in Worker, NEW b \in Alert, Raise(w, b) PROVE row'[a].status = row[a].status
  BY <1>1, <1>2 DEF Raise, Row
<1>3. ASSUME NEW w \in Worker, NEW b \in Alert, Retry(w, b) PROVE row'[a].status = row[a].status
  <2>1. a # b
    BY <1>3 DEF Retry
  <2>2. QED BY <1>1, <1>3, <2>1 DEF Retry
<1>4. ASSUME NEW w \in Worker, Insert(w) PROVE row'[a].status = row[a].status
  <2>1. row[job[w].id].status = "none"
    BY <1>4 DEF Insert, IInv, RaiseInv, Raising
  <2>2. job[w].id # a
    BY <2>1
  <2>3. QED BY <1>1, <1>4, <2>2 DEF Insert
<1>5. ASSUME NEW w \in Worker, Claim(w) PROVE row'[a].status = row[a].status
  <2>1. ~Claimable(row[a])
    BY DEF Claimable
  <2>2. QED BY <1>1, <1>5, <2>1 DEF Claim
<1>6. ASSUME NEW w \in Worker, Mark(w) PROVE row'[a].status = row[a].status
  <2>1. row[job[w].id].status = "sending"
    BY <1>6, OneOwner DEF Mark, Sending
  <2>2. job[w].id # a
    BY <2>1
  <2>3. QED BY <1>1, <1>6, <2>2 DEF Mark
<1>7. ASSUME NEW s \in Sweeper, SweepMark(s) PROVE row'[a].status = row[a].status
  <2>1. Holds(s, a) => row[a].status = "digested"
    BY SweepFields DEF IInv, BatchInv
  <2>2. QED BY <1>1, <1>7, <2>1, BatchMarkEffect
<1>8. CASE AbandonChannel
  BY <1>8 DEF AbandonChannel, IInv, BatchInv
<1>9. ASSUME NEW s \in Sweeper, SweepHeld(s) PROVE row'[a].status = row[a].status
  BY <1>9 DEF SweepHeld
<1>10. CASE Advance
  BY <1>1, <1>10, TickedRow
<1>11. ASSUME NEW w \in Worker,
              Route(w) \/ Cap(w) \/ Lookup(w) \/ Send(w) \/ Crash(w)
       PROVE row'[a].status = row[a].status
  BY <1>11 DEF Route, Cap, Lookup, Send, Crash
<1>12. ASSUME NEW s \in Sweeper,
              \/ SweepStart(s) \/ SweepRetried(s) \/ SweepDigest(s) \/ SweepSend(s)
              \/ SweepRecord(s) \/ SweepCrash(s) \/ \E w \in Worker : SweepDeliver(s, w)
       PROVE row'[a].status = row[a].status
  BY <1>12 DEF SweepStart, SweepRetried, SweepDigest, SweepSend, SweepRecord, SweepCrash,
               SweepDeliver
<1>13. CASE UpdateChannel \/ RemoveChannel \/ UNCHANGED vars
  BY <1>13 DEF UpdateChannel, RemoveChannel, vars
<1>14. QED
  BY <1>2, <1>3, <1>4, <1>5, <1>6, <1>7, <1>8, <1>9, <1>10, <1>11, <1>12,
     <1>13 DEF Next, Work, SweepStep

(* What went out stays recorded as gone out while the channel exists:      *)
(* markSent and markBatched are never undone by a claim, another           *)
(* invocation's mark, a retry or the sweep.                                *)
THEOREM SentCorrect == Spec => SentStays
<1>1. IInv /\ [Next]_vars
        => [\A a \in Alert :
              (row[a].status \in {"sent", "digested"} /\ row'[a].status # row[a].status)
                  => ~chan.exists]_vars
  BY SentStep
<1>2. QED BY <1>1, Invariance, PTL DEF Spec, SentStays

-----------------------------------------------------------------------------
(* The outbox.  Whoever is about to record an alert is alone, and the      *)
(* service has its message; an alert that may still be sent, or fail for   *)
(* another try, is neither recorded as gone out nor on its way to be.      *)
ReceiptInv == \A a \in Alert :
    /\ Lost(a) <= accepted[a]
    /\ Records(a) => Lost(a) < accepted[a]
    /\ \A w \in Worker : Unrecorded(w, a) => Lost(a) < accepted[a] /\ ~Records(a)
    /\ \A v, w \in Worker : Unrecorded(v, a) /\ Unrecorded(w, a) => v = w

Gone(a) == row[a].status \in {"sent", "digested"}
Taken(a) == Gone(a) \/ InBatch(a) \/ \E w \in Worker : Unrecorded(w, a)
LiveInv == \A w \in Worker : Live(w) => ~Taken(job[w].id)

(* A batch sent again counts as a double, and so does one that was         *)
(* recorded before the sweep that read it first sends it.                  *)
DoubleInv ==
    /\ \A s \in Sweeper, a \in Alert : Repeated(s, a) => doubled[a] > 0
    /\ \A a \in Alert : chan.exists /\ Ships(a) /\ Gone(a) => doubled[a] > 0

OutboxInv == IInv /\ ReceiptInv /\ LiveInv /\ DoubleInv

(* The steps of the outbox, told of the rows.                              *)
Due(a) == row[a].status \in Unfinished \/ (~chan.exists /\ row[a].status # "none")
CountsStay(a) ==
    accepted'[a] = accepted[a] /\ unmarked'[a] = unmarked[a] /\ doubled'[a] = doubled[a]
StatusStays(a) == Recorded(row'[a]) = Recorded(row[a])
Moves(a) ==
    \/ CountsStay(a) /\ StatusStays(a)
    \/ CountsStay(a) /\ row[a].status \in {"none", "dead"} /\ row'[a].status \in Unfinished
    \/ CountsStay(a) /\ Due(a) /\ row'[a].status = "dead"
    \/ CountsStay(a) /\ Due(a) /\ accepted[a] > 0 /\ Gone(a)'
    \/ /\ StatusStays(a) /\ (Due(a) \/ doubled[a] > 0) /\ accepted[a] <= Lost(a)
       /\ accepted'[a] = accepted[a] + 1 /\ unmarked'[a] \in {unmarked[a], unmarked[a] + 1}
       /\ doubled'[a] = doubled[a]
    \/ /\ StatusStays(a) /\ (Due(a) \/ row[a].status = "digested")
       /\ accepted'[a] = accepted[a] + 1 /\ unmarked'[a] = unmarked[a]
       /\ doubled'[a] = doubled[a] + 1
    \/ /\ StatusStays(a) /\ Lost(a) < accepted[a]
       /\ unmarked'[a] = unmarked[a] + 1 /\ accepted'[a] = accepted[a]
       /\ doubled'[a] = doubled[a]

Carried == (\A a \in Alert : Moves(a)) /\ ReceiptInv' /\ LiveInv' /\ DoubleInv'

\* Nothing is accepted or forgotten, and nobody comes to send or to record.
Muted ==
    /\ \A a \in Alert : CountsStay(a) /\ \A w \in Worker : Unrecorded(w, a)' => Unrecorded(w, a)
    /\ \A w \in Worker : Live(w)' => Live(w) /\ job'[w].id = job[w].id
    /\ SweepsShrink /\ (chan'.exists => chan.exists)

LEMMA MutedKeeps ==
    ASSUME OutboxInv, Muted, \A a \in Alert : Gone(a)' => Taken(a),
           \A a \in Alert : chan'.exists /\ Ships(a) /\ Gone(a)' => Gone(a) \/ doubled[a] > 0
    PROVE  ReceiptInv' /\ LiveInv' /\ DoubleInv'
<1>1. ReceiptInv'
  <2>1. \A a \in Alert : /\ accepted'[a] = accepted[a] /\ Lost(a)' = Lost(a)
                         /\ Records(a)' => Records(a)
                         /\ \A w \in Worker : Unrecorded(w, a)' => Unrecorded(w, a)
    BY ShrinkFacts DEF Muted, CountsStay, Lost
  <2>2. QED BY <2>1 DEF OutboxInv, ReceiptInv
<1>2. \A a \in Alert : Taken(a)' => Taken(a)
  BY ShrinkFacts DEF Muted, Taken
<1>3. \A w \in Worker : Live(w) => job[w].id \in Alert
  BY DEF Live, OutboxInv, IInv, JobInv
<1>4. LiveInv'
  BY <1>2, <1>3 DEF OutboxInv, LiveInv, Muted
<1>5. DoubleInv'
  <2>1. \A s \in Sweeper, a \in Alert : Repeated(s, a)' => doubled'[a] > 0
    BY ShrinkFacts DEF Muted, CountsStay, OutboxInv, DoubleInv
  <2>2. \A a \in Alert : chan'.exists /\ Ships(a)' /\ Gone(a)' => doubled'[a] > 0
    BY ShrinkFacts DEF Muted, CountsStay, OutboxInv, DoubleInv
  <2>3. QED BY <2>1, <2>2 DEF DoubleInv
<1>6. QED BY <1>1, <1>4, <1>5

\* Whoever has an alert in hand has it while it is due.
LEMMA HandsDue ==
    ASSUME IInv
    PROVE  /\ \A w \in Worker : Sending(w) => Due(job[w].id)
           /\ \A a \in Alert : InBatch(a) => /\ Due(a) \/ row[a].status = "digested"
                                             /\ ~Due(a) => chan.exists
<1>1. ASSUME NEW w \in Worker, Sending(w) PROVE Due(job[w].id)
  <2>1. CASE chan.exists
    <3>1. row[job[w].id].status = "sending"
      BY <1>1, <2>1, OneOwner
    <3>2. QED BY <3>1 DEF Due, Unfinished
  <2>2. CASE ~chan.exists
    BY <1>1, <2>2 DEF Due, IInv, RaiseInv
  <2>3. QED BY <2>1, <2>2
<1>2. ASSUME NEW a \in Alert, InBatch(a)
      PROVE  (Due(a) \/ row[a].status = "digested") /\ (~Due(a) => chan.exists)
  <2>1. CASE chan.exists
    BY <1>2, <2>1, HeldStatus DEF IInv, Due, Unfinished
  <2>2. CASE ~chan.exists
    BY <1>2, <2>2 DEF Due, IInv, RaiseInv
  <2>3. QED BY <2>1, <2>2
<1>3. QED BY <1>1, <1>2

LEMMA QuietCarries == ASSUME OutboxInv, Quiet PROVE Carried
<1>1. \A w \in Worker : (Live(w)' => Live(w) /\ job'[w].id = job[w].id)
                        /\ \A a \in Alert : Unrecorded(w, a)' => Unrecorded(w, a)
  BY DEF Quiet, Live, Sending, Unrecorded
<1>2. SweepsShrink /\ (chan'.exists => chan.exists)
  BY SameFacts DEF Quiet
<1>3. \A a \in Alert : CountsStay(a) /\ StatusStays(a) /\ (Gone(a)' => Gone(a))
  BY DEF Quiet, CountsStay, StatusStays, Recorded, Gone
<1>4. Muted
  BY <1>1, <1>2, <1>3 DEF Muted
<1>5. ReceiptInv' /\ LiveInv' /\ DoubleInv'
  BY <1>3, <1>4, MutedKeeps DEF Taken
<1>6. QED BY <1>3, <1>5 DEF Carried, Moves

\* The clock starts and ends nothing.
LEMMA AdvanceCarries == ASSUME OutboxInv, Advance PROVE Carried
<1>1. Shape /\ chan'.exists = chan.exists /\ UNCHANGED <<accepted, unmarked, doubled>>
      /\ SweepsShrink
  BY AdvanceSweeps, SameFacts DEF OutboxInv, IInv, Shape, TypeOK, Channel, Advance
<1>2. \A a \in Alert : row'[a].status = row[a].status
  BY <1>1, TickedRow
<1>3. ASSUME NEW w \in Worker
      PROVE  job'[w].pc = job[w].pc /\ job'[w].id = job[w].id /\ job'[w].out = job[w].out
  <2>1. job[w] \in Job
    BY <1>1 DEF Shape, TypeOK
  <2>2. QED BY <1>1, <2>1, TickedJob DEF Job
<1>4. \A a \in Alert : CountsStay(a) /\ StatusStays(a) /\ (Gone(a)' => Gone(a))
  BY <1>1, <1>2 DEF CountsStay, StatusStays, Recorded, Gone
<1>5. Muted
  BY <1>1, <1>3, <1>4 DEF Muted, Unrecorded, Live
<1>6. ReceiptInv' /\ LiveInv' /\ DoubleInv'
  BY <1>4, <1>5, MutedKeeps DEF Taken
<1>7. QED BY <1>4, <1>6 DEF Carried, Moves

\* A step that moves one worker, who neither sends nor records afterwards, and leaves the
\* sweep alone.
LEMMA RetiresMuted ==
    ASSUME NEW w \in Worker, ~Sending(w)', \A v \in Worker : v # w => job'[v] = job[v],
           UNCHANGED <<chan, sweep, accepted, unmarked, doubled>>
    PROVE  Muted
<1>1. \A v \in Worker : (Live(v)' => Live(v) /\ job'[v].id = job[v].id)
                        /\ \A a \in Alert : Unrecorded(v, a)' => Unrecorded(v, a)
  BY DEF Live, Sending, Unrecorded
<1>2. QED BY <1>1, UntouchedSweeps DEF Muted, CountsStay

LEMMA InsertCarries == ASSUME OutboxInv, NEW w \in Worker, Insert(w) PROVE Carried
<1>1. PICK a : a = job[w].id
  OBVIOUS
<1>2. /\ \A v \in Worker : v # w => job'[v] = job[v]
      /\ ~Sending(w)' /\ row[a].status = "none"
      /\ \A b \in Alert : b # a => row'[b] = row[b]
      /\ row'[a].status \in {"pending", "held", "digest"}
  BY <1>1, InsertEffect DEF OutboxInv
<1>3. UNCHANGED <<chan, sweep, accepted, unmarked, doubled>>
  BY DEF Insert
<1>4. Muted
  BY <1>2, <1>3, RetiresMuted
<1>5. \A b \in Alert : Moves(b) /\ (Gone(b)' => Gone(b))
  BY <1>2, <1>3 DEF Moves, CountsStay, StatusStays, Gone, Unfinished
<1>6. QED BY <1>4, <1>5, MutedKeeps DEF Carried, Taken

LEMMA RetryCarries ==
    ASSUME OutboxInv, NEW w \in Worker, NEW a \in Alert, Retry(w, a) PROVE Carried
<1>1. \A v \in Worker : v # w => job'[v] = job[v]
  BY DEF Retry, Start, OutboxInv, IInv, TypeOK
<1>2. ~Sending(w)'
  BY DEF Retry, Start, Idle, OutboxInv, IInv, TypeOK, Sending
<1>3. UNCHANGED <<chan, sweep, accepted, unmarked, doubled>>
  BY DEF Retry
<1>4. /\ \A b \in Alert : b # a => row'[b] = row[b]
      /\ row[a].status \in {"failed", "dead"} /\ row'[a].status = "pending"
  BY RetryEffect DEF OutboxInv, IInv
<1>5. Muted
  BY <1>1, <1>2, <1>3, RetiresMuted
<1>6. \A b \in Alert : Moves(b) /\ (Gone(b)' => Gone(b))
  BY <1>3, <1>4 DEF Moves, CountsStay, StatusStays, Recorded, Gone, Unfinished
<1>7. QED BY <1>5, <1>6, MutedKeeps DEF Carried, Taken

\* A claim while the channel is there finds nobody with the alert in hand.
LEMMA ClaimCarries == ASSUME OutboxInv, NEW w \in Worker, Claim(w) PROVE Carried
<1>1. PICK a : a = job[w].id
  OBVIOUS
<1>2. /\ job \in [Worker -> Job] /\ a \in Alert /\ Shape /\ ~Sending(w)
      /\ UNCHANGED <<chan, sweep, removing, count, accepted, unmarked, doubled>>
  BY <1>1 DEF Claim, OutboxInv, IInv, TypeOK, JobInv, Sending, Shape
<1>3. CASE ~Claimable(row[a])
  <2>1. /\ \A v \in Worker : v # w => job'[v] = job[v]
        /\ job'[w].pc = "idle" /\ UNCHANGED row
    BY <1>1, <1>2, <1>3 DEF Claim, Idle
  <2>2. Quiet
    BY <1>2, <2>1, UntouchedSweeps DEF Quiet, Sending
  <2>3. QED BY <2>2, QuietCarries
<1>4. CASE Claimable(row[a])
  <2>1. /\ \A v \in Worker : v # w => job'[v] = job[v]
        /\ job'[w].pc = "lookup" /\ job'[w].id = a
        /\ \A b \in Alert : b # a => row'[b] = row[b]
        /\ row'[a].status = "sending"
    BY <1>1, <1>2, <1>4, ClaimEffect
  <2>2. row[a].status \in {"pending", "failed", "sending"}
    BY <1>4 DEF Claimable
  <2>3. /\ \A b \in Alert : Moves(b) /\ CountsStay(b) /\ (Gone(b)' <=> Gone(b))
        /\ ~Gone(a)
    BY <1>2, <2>1, <2>2 DEF Moves, CountsStay, StatusStays, Recorded, Gone, Unfinished
  <2>4. \A b \in Alert : /\ InBatch(b)' <=> InBatch(b)
                         /\ Records(b)' <=> Records(b)
                         /\ \A v \in Worker : Unrecorded(v, b)' => Unrecorded(v, b)
    BY <1>2, <2>1, UntouchedSweeps DEF Unrecorded
  <2>5. ReceiptInv'
    BY <2>3, <2>4 DEF OutboxInv, ReceiptInv, CountsStay, Lost
  <2>6. chan.exists => ~Taken(a)
    <3>1. SUFFICES ASSUME chan.exists PROVE ~InBatch(a) /\ \A v \in Worker : ~Unrecorded(v, a)
      BY <2>3 DEF Taken
    <3>2. ~InBatch(a)
      BY <1>2, <2>2, <3>1, HeldStatus DEF OutboxInv, IInv
    <3>3. \A v \in Worker : ~Unrecorded(v, a)
      BY <1>4, <3>1, OneOwner DEF OutboxInv, Unrecorded, Sending
    <3>4. QED BY <3>2, <3>3
  <2>7. \A b \in Alert : Taken(b)' => Taken(b)
    BY <2>3, <2>4 DEF Taken
  <2>8. LiveInv'
    <3> SUFFICES ASSUME NEW v \in Worker, Live(v)', NEW c, c = job'[v].id PROVE ~Taken(c)'
      BY DEF LiveInv
    <3>1. CASE v = w
      BY <1>2, <2>1, <2>6, <2>7, <3>1 DEF Live
    <3>2. CASE v # w
      <4>1. Live(v) /\ job'[v].id = job[v].id /\ job[v].id \in Alert
        BY <1>2, <2>1, <3>2 DEF Live, Shape, JobInv
      <4>2. QED BY <2>7, <4>1 DEF OutboxInv, LiveInv
    <3>3. QED BY <3>1, <3>2
  <2>9. DoubleInv'
    <3>1. /\ \A s \in Sweeper, b \in Alert : Repeated(s, b)' => Repeated(s, b)
          /\ \A b \in Alert : Ships(b)' => Ships(b)
      BY <1>2, UntouchedSweeps, ShrinkFacts
    <3>2. QED BY <1>2, <2>3, <3>1 DEF OutboxInv, DoubleInv
  <2>10. QED BY <2>3, <2>5, <2>8, <2>9 DEF Carried
<1>5. QED BY <1>3, <1>4

LEMMA LookupCarries == ASSUME OutboxInv, NEW w \in Worker, Lookup(w) PROVE Carried
<1>1. /\ job \in [Worker -> Job] /\ job[w].pc = "lookup"
      /\ UNCHANGED <<row, chan, sweep, removing, count, accepted, unmarked, doubled>>
  BY DEF Lookup, OutboxInv, IInv, TypeOK
<1>2. /\ \A v \in Worker : v # w => job'[v] = job[v]
      /\ job'[w].id = job[w].id
      /\ \/ chan.exists /\ job'[w].pc = "send"
         \/ ~chan.exists /\ job'[w].pc = "mark" /\ job'[w].out = "gone"
  BY <1>1 DEF Lookup, Job
<1>3. \A v \in Worker : (Live(v)' => Live(v) /\ job'[v].id = job[v].id)
                        /\ \A a \in Alert : Unrecorded(v, a)' => Unrecorded(v, a)
  BY <1>1, <1>2 DEF Live, Unrecorded
<1>4. \A a \in Alert : Moves(a) /\ CountsStay(a) /\ (Gone(a)' => Gone(a))
  BY <1>1 DEF Moves, CountsStay, StatusStays, Gone
<1>5. Muted
  BY <1>1, <1>3, <1>4, UntouchedSweeps DEF Muted
<1>6. QED BY <1>4, <1>5, MutedKeeps DEF Carried, Taken

LEMMA RecordsHeld == \A a \in Alert : (Records(a) => InBatch(a)) /\ (Ships(a) => InBatch(a))
BY DEF Records, ToRecord, Ships, ToSend, InBatch, Holds

\* The one that may send meets nobody who sent.
LEMMA SendCarries == ASSUME OutboxInv, NEW w \in Worker, Send(w) PROVE Carried
<1>1. PICK a : a = job[w].id
  OBVIOUS
<1>2. /\ job \in [Worker -> Job] /\ a \in Alert /\ Shape
      /\ job[w].pc = "send" /\ Sending(w) /\ Live(w)
      /\ UNCHANGED <<row, chan, sweep>>
  BY <1>1 DEF Send, OutboxInv, IInv, TypeOK, JobInv, Sending, Live, Shape
<1>3. /\ \A v \in Worker : v # w => job'[v] = job[v]
      /\ job'[w].id = a /\ job'[w].pc = "mark"
      /\ \A b \in Alert : b # a => CountsStay(b)
      /\ \/ job'[w].out = "ok" /\ accepted'[a] = accepted[a] + 1 /\ unmarked'[a] = unmarked[a]
         \/ job'[w].out # "ok" /\ accepted'[a] = accepted[a] /\ unmarked'[a] = unmarked[a]
         \/ /\ job'[w].out # "ok"
            /\ accepted'[a] = accepted[a] + 1 /\ unmarked'[a] = unmarked[a] + 1
      /\ doubled' = doubled
  BY <1>1, <1>2, SendEffect DEF CountsStay
<1>4. /\ \A b \in Alert : accepted[b] \in Nat /\ Lost(b) \in Nat
      /\ accepted[a] <= Lost(a) /\ Due(a) /\ Lost(a) <= accepted[a]
      /\ ~Taken(a)
  <2>1. Sends(a)
    BY <1>1, <1>2 DEF Sends
  <2>2. QED BY <1>1, <1>2, <2>1, JobFields, HandsDue
            DEF OutboxInv, IInv, SendInv, ReceiptInv, LiveInv
<1>5. \A b \in Alert : Moves(b)
  BY <1>2, <1>3, <1>4 DEF Moves, CountsStay, StatusStays
<1>6. \A v \in Worker, b \in Alert : v # w => (Unrecorded(v, b)' <=> Unrecorded(v, b))
  BY <1>3 DEF Unrecorded
<1>7. \A b \in Alert : (Unrecorded(w, b)' => b = a /\ job'[w].out = "ok") /\ ~Unrecorded(w, b)
  BY <1>2, <1>3 DEF Unrecorded
<1>8. \A v \in Worker : ~Unrecorded(v, a) /\ ~Records(a)
  BY <1>2, <1>4, RecordsHeld DEF Taken
<1>9. \A b \in Alert : /\ Records(b)' <=> Records(b)
                       /\ InBatch(b)' <=> InBatch(b)
                       /\ Ships(b)' <=> Ships(b)
  BY <1>2, UntouchedSweeps
<1>10. ReceiptInv'
  <2> SUFFICES ASSUME NEW b \in Alert
               PROVE  /\ Lost(b)' <= accepted'[b]
                      /\ Records(b)' => Lost(b)' < accepted'[b]
                      /\ \A v \in Worker : Unrecorded(v, b)' => Lost(b)' < accepted'[b] /\ ~Records(b)'
                      /\ \A u, v \in Worker : Unrecorded(u, b)' /\ Unrecorded(v, b)' => u = v
    BY DEF ReceiptInv
  <2>1. CASE b = a
    <3>1. \A v \in Worker : Unrecorded(v, b)' => v = w /\ job'[w].out = "ok"
      BY <1>6, <1>7, <1>8, <2>1
    <3>2. ~Records(b)'
      BY <1>2, <1>8, <1>9, <2>1
    <3>3. /\ Lost(b)' <= accepted'[b]
          /\ job'[w].out = "ok" => Lost(b)' < accepted'[b]
      BY <1>1, <1>2, <1>4, <2>1, SendCounts
    <3>4. QED BY <3>1, <3>2, <3>3
  <2>2. CASE b # a
    <3>1. \A v \in Worker : Unrecorded(v, b)' => Unrecorded(v, b)
      BY <1>6, <1>7, <2>2
    <3>2. QED BY <1>3, <1>9, <2>2, <3>1 DEF OutboxInv, ReceiptInv, CountsStay, Lost
  <2>3. QED BY <2>1, <2>2
<1>11. LiveInv'
  <2> SUFFICES ASSUME NEW v \in Worker, Live(v)', NEW c, c = job'[v].id PROVE ~Taken(c)'
    BY DEF LiveInv
  <2>1. CASE v = w
    <3>1. job'[w].out # "ok"
      BY <1>3, <2>1 DEF Live
    <3>2. \A u \in Worker : ~Unrecorded(u, a)'
      BY <1>2, <1>6, <1>7, <1>8, <3>1
    <3>3. ~Gone(a)' /\ ~InBatch(a)'
      BY <1>2, <1>4, <1>9 DEF Taken, Gone
    <3>4. QED BY <1>3, <2>1, <3>2, <3>3 DEF Taken
  <2>2. CASE v # w
    <3>1. PICK b : b = job[v].id
      OBVIOUS
    <3>2. Live(v) /\ job'[v].id = b /\ b \in Alert
      BY <1>2, <1>3, <2>2, <3>1 DEF Live, Shape, JobInv
    <3>3. b # a
      BY <1>1, <1>2, <2>2, <3>1, <3>2 DEF OutboxInv, IInv, OwnInv
    <3>4. ~Taken(b)
      BY <3>1, <3>2 DEF OutboxInv, LiveInv
    <3>5. \A u \in Worker : ~Unrecorded(u, b)'
      BY <1>6, <1>7, <3>2, <3>3, <3>4 DEF Taken
    <3>6. ~Taken(b)'
      BY <1>2, <1>9, <3>2, <3>4, <3>5 DEF Taken, Gone
    <3>7. QED BY <3>2, <3>6
  <2>3. QED BY <2>1, <2>2
<1>12. DoubleInv'
  <2>1. \A s \in Sweeper, b \in Alert : Repeated(s, b)' <=> Repeated(s, b)
    BY <1>2 DEF Repeated
  <2>2. QED BY <1>2, <1>3, <1>9, <2>1 DEF OutboxInv, DoubleInv, Gone
<1>13. QED BY <1>5, <1>10, <1>11, <1>12 DEF Carried

\* Only who has the service's word records the alert as sent; who failed finds it not sent.
LEMMA MarkCarries == ASSUME OutboxInv, NEW w \in Worker, Mark(w) PROVE Carried
<1>1. PICK a : a = job[w].id
  OBVIOUS
<1>2. /\ job \in [Worker -> Job] /\ a \in Alert /\ Shape /\ job[w].pc = "mark" /\ Sending(w)
      /\ UNCHANGED <<chan, sweep, accepted, unmarked, doubled>>
  BY <1>1 DEF Mark, OutboxInv, IInv, TypeOK, JobInv, Sending, Shape
<1>3. (\A v \in Worker : v # w => job'[v] = job[v]) /\ ~Sending(w)'
  BY <1>2 DEF Mark, Idle, Sending
<1>4. /\ \A b \in Alert : b # a => row'[b] = row[b]
      /\ \/ job[w].out = "ok" /\ row'[a].status = "sent"
         \/ job[w].out # "ok" /\ row'[a].status = "dead"
         \/ job[w].out = "retry" /\ row'[a].status = "failed"
  BY <1>1, <1>2, MarkEffect
<1>5. Due(a) /\ \A b \in Alert : CountsStay(b)
  BY <1>1, <1>2, HandsDue DEF OutboxInv, CountsStay
<1>6. Moves(a) /\ (Gone(a)' => Taken(a))
  <2>1. CASE job[w].out = "ok" /\ row'[a].status = "sent"
    <3>1. Unrecorded(w, a)
      BY <1>1, <1>2, <2>1 DEF Unrecorded
    <3>2. accepted[a] > 0
      BY <1>2, <3>1, JobFields DEF OutboxInv, ReceiptInv, Shape
    <3>3. Gone(a)' /\ Taken(a)
      BY <2>1, <3>1 DEF Gone, Taken
    <3>4. QED BY <1>2, <1>5, <3>2, <3>3 DEF Moves
  <2>2. CASE row'[a].status = "dead"
    BY <1>2, <1>5, <2>2 DEF Moves, Gone
  <2>3. CASE job[w].out = "retry" /\ row'[a].status = "failed"
    <3>1. ~Gone(a)
      BY <1>1, <1>2, <2>3 DEF OutboxInv, LiveInv, Live, Taken
    <3>2. row[a].status \in Unfinished \cup {"none", "dead"}
      BY <1>2, <3>1 DEF Gone, Shape, TypeOK, Row
    <3>3. ~Gone(a)' /\ row'[a].status \in Unfinished
      BY <2>3 DEF Gone, Unfinished
    <3>4. row[a].status \in Unfinished => StatusStays(a)
      BY <3>3 DEF StatusStays, Recorded
    <3>5. QED BY <1>2, <1>5, <3>2, <3>3, <3>4 DEF Moves
  <2>4. QED BY <1>4, <2>1, <2>2, <2>3
<1>7. \A b \in Alert : b # a => Moves(b) /\ (Gone(b)' => Taken(b))
  BY <1>4, <1>5 DEF Moves, StatusStays, Gone, Taken
<1>8. Muted
  BY <1>2, <1>3, RetiresMuted
<1>9. \A b \in Alert : Moves(b) /\ (Gone(b)' => Taken(b))
  BY <1>6, <1>7
<1>10. ASSUME NEW b \in Alert, chan'.exists, Ships(b), Gone(b)' PROVE Gone(b)
  <2>1. CASE b = a
    <3>1. row[a].status \in {"held", "digest", "digested"}
      BY <1>2, <1>10, <2>1, RecordsHeld, HeldStatus DEF OutboxInv, IInv
    <3>2. row[a].status = "sending"
      BY <1>1, <1>2, <1>10, OneOwner DEF OutboxInv
    <3>3. QED BY <3>1, <3>2
  <2>2. CASE b # a
    BY <1>4, <1>10, <2>2 DEF Gone
  <2>3. QED BY <2>1, <2>2
<1>11. QED BY <1>8, <1>9, <1>10, MutedKeeps DEF Carried

\* What a death takes with it: the word of the service that its invocation alone had.
LEMMA DeathCarries ==
    ASSUME OutboxInv, UNCHANGED <<row, chan, accepted, doubled>>, SweepsShrink,
           \A w \in Worker : \/ job'[w].pc = "idle"
                             \/ /\ job'[w].pc = job[w].pc /\ job'[w].id = job[w].id
                                /\ job'[w].out = job[w].out,
           \A a \in Alert : \/ unmarked'[a] = unmarked[a]
                            \/ /\ unmarked'[a] = unmarked[a] + 1 /\ Lost(a) < accepted[a]
                               /\ ~Records(a)' /\ \A w \in Worker : ~Unrecorded(w, a)'
    PROVE  Carried
<1>1. \A w \in Worker : (Live(w)' => Live(w) /\ job'[w].id = job[w].id)
                        /\ \A a \in Alert : Unrecorded(w, a)' => Unrecorded(w, a)
  BY DEF Live, Unrecorded
<1>2. \A a \in Alert : (Records(a)' => Records(a)) /\ (InBatch(a)' => InBatch(a))
  BY ShrinkFacts
<1>3. \A a \in Alert : accepted[a] \in Nat /\ unmarked[a] \in Nat /\ doubled[a] \in Nat
  BY DEF OutboxInv, IInv, TypeOK
<1>4. \A a \in Alert : Moves(a)
  BY DEF Moves, CountsStay, StatusStays
<1>5. ReceiptInv'
  <2> SUFFICES ASSUME NEW a \in Alert
               PROVE  /\ Lost(a)' <= accepted'[a]
                      /\ Records(a)' => Lost(a)' < accepted'[a]
                      /\ \A v \in Worker : Unrecorded(v, a)' => Lost(a)' < accepted'[a] /\ ~Records(a)'
                      /\ \A u, v \in Worker : Unrecorded(u, a)' /\ Unrecorded(v, a)' => u = v
    BY DEF ReceiptInv
  <2>1. CASE unmarked'[a] = unmarked[a]
    <3>1. Lost(a)' = Lost(a)
      BY <2>1 DEF Lost
    <3>2. QED BY <1>1, <1>2, <3>1 DEF OutboxInv, ReceiptInv
  <2>2. CASE /\ unmarked'[a] = unmarked[a] + 1 /\ Lost(a) < accepted[a]
             /\ ~Records(a)' /\ \A w \in Worker : ~Unrecorded(w, a)'
    BY <1>3, <2>2 DEF Lost
  <2>3. QED BY <2>1, <2>2
<1>6. LiveInv'
  <2>1. \A a \in Alert : Taken(a)' => Taken(a)
    BY <1>1, <1>2 DEF Taken, Gone
  <2>2. \A w \in Worker : Live(w) => job[w].id \in Alert
    BY DEF Live, OutboxInv, IInv, JobInv
  <2>3. QED BY <1>1, <2>1, <2>2 DEF OutboxInv, LiveInv
<1>7. DoubleInv'
  <2>1. /\ \A s \in Sweeper, a \in Alert : Repeated(s, a)' => Repeated(s, a)
        /\ \A a \in Alert : Ships(a)' => Ships(a)
    BY ShrinkFacts
  <2>2. QED BY <2>1 DEF OutboxInv, DoubleInv, Gone
<1>8. QED BY <1>4, <1>5, <1>6, <1>7 DEF Carried

LEMMA CrashCarries == ASSUME OutboxInv, NEW w \in Worker, Crash(w) PROVE Carried
<1>1. \A v \in Worker : v # w => /\ job'[v].pc = job[v].pc /\ job'[v].id = job[v].id
                                 /\ job'[v].out = job[v].out
  BY DEF Crash, OutboxInv, IInv, TypeOK, Job
<1>2. job'[w].pc = "idle"
  BY DEF Crash, Idle
<1>3. UNCHANGED <<row, chan, accepted, doubled>>
  BY DEF Crash
<1>4. SweepsShrink /\ \A a \in Alert : Records(a)' => Records(a)
  BY CrashSweeps, SameFacts DEF OutboxInv
<1>5. ASSUME NEW a \in Alert
      PROVE  \/ unmarked'[a] = unmarked[a]
             \/ /\ unmarked'[a] = unmarked[a] + 1 /\ Lost(a) < accepted[a]
                /\ ~Records(a)' /\ \A v \in Worker : ~Unrecorded(v, a)'
  <2>1. unmarked'[a] = IF Unrecorded(w, a) THEN unmarked[a] + 1 ELSE unmarked[a]
    BY DEF Crash
  <2>2. CASE ~Unrecorded(w, a)
    BY <2>1, <2>2
  <2>3. CASE Unrecorded(w, a)
    <3>1. Lost(a) < accepted[a] /\ ~Records(a)
          /\ \A v \in Worker : Unrecorded(v, a) => v = w
      BY <2>3 DEF OutboxInv, ReceiptInv
    <3>2. \A v \in Worker : ~Unrecorded(v, a)'
      BY <1>1, <1>2, <3>1 DEF Unrecorded
    <3>3. QED BY <1>4, <2>1, <2>3, <3>1, <3>2
  <2>4. QED BY <2>2, <2>3
<1>6. QED BY <1>1, <1>2, <1>3, <1>4, <1>5, DeathCarries

LEMMA SweepCrashCarries == ASSUME OutboxInv, NEW s \in Sweeper, SweepCrash(s) PROVE Carried
<1>1. \A w \in Worker : job'[w] = IF job[w].by = s THEN Idle ELSE job[w]
  BY DEF SweepCrash
<1>2. \A w \in Worker : job'[w].pc = "idle" \/ job'[w] = job[w]
  BY <1>1 DEF Idle
<1>3. /\ UNCHANGED <<row, chan, accepted, doubled>> /\ SweepsShrink
      /\ sweep'[s] = Resting /\ \A t \in Sweeper : t # s => sweep'[t] = sweep[t]
  BY SweepCrashSweeps DEF OutboxInv, IInv, SweepCrash
<1>4. ASSUME NEW a \in Alert
      PROVE  \/ unmarked'[a] = unmarked[a]
             \/ /\ unmarked'[a] = unmarked[a] + 1 /\ Lost(a) < accepted[a]
                /\ ~Records(a)' /\ \A w \in Worker : ~Unrecorded(w, a)'
  <2> DEFINE lost == ToRecord(s, a) \/ \E w \in Worker : job[w].by = s /\ Unrecorded(w, a)
  <2>1. unmarked'[a] = IF lost THEN unmarked[a] + 1 ELSE unmarked[a]
    BY DEF SweepCrash, ToRecord
  <2>2. \A t \in Sweeper : ToRecord(t, a)' => ToRecord(t, a) /\ t # s
    BY <1>3 DEF ToRecord, Resting
  <2>3. \A w \in Worker : Unrecorded(w, a)' => Unrecorded(w, a) /\ job[w].by # s
    BY <1>1 DEF Unrecorded, Idle
  <2>4. CASE ToRecord(s, a)
    <3>1. Records(a)
      BY <2>4 DEF Records
    <3>2. Lost(a) < accepted[a] /\ \A w \in Worker : ~Unrecorded(w, a)
      BY <3>1 DEF OutboxInv, ReceiptInv
    <3>3. ~Records(a)'
      BY <2>2, <2>4 DEF Records, First, OutboxInv, IInv, BatchInv
    <3>4. QED BY <2>1, <2>3, <2>4, <3>2, <3>3
  <2>5. CASE \E w \in Worker : job[w].by = s /\ Unrecorded(w, a)
    <3>1. PICK w \in Worker : job[w].by = s /\ Unrecorded(w, a)
      BY <2>5
    <3>2. Lost(a) < accepted[a] /\ ~Records(a) /\ \A v \in Worker : Unrecorded(v, a) => v = w
      BY <3>1 DEF OutboxInv, ReceiptInv
    <3>3. ~Records(a)' /\ \A v \in Worker : ~Unrecorded(v, a)'
      BY <2>2, <2>3, <3>1, <3>2 DEF Records
    <3>4. QED BY <2>1, <2>5, <3>2, <3>3
  <2>6. QED BY <2>1, <2>4, <2>5
<1>5. QED BY <1>2, <1>3, <1>4, DeathCarries

\* The channel goes, and what it still owes is given up.
LEMMA ClosingCarries ==
    ASSUME OutboxInv, chan'.exists => chan.exists, row' \in {row, Abandoned},
           UNCHANGED <<job, accepted, unmarked, doubled>>,
           SweepsShrink
    PROVE  Carried
<1>1. ASSUME NEW a \in Alert PROVE Moves(a) /\ CountsStay(a) /\ (Gone(a)' => Gone(a))
  <2>1. CountsStay(a)
    BY DEF CountsStay
  <2>2. CASE row'[a] = row[a]
    BY <2>1, <2>2 DEF Moves, StatusStays, Gone
  <2>3. CASE row[a].status \in Unfinished /\ row'[a] = Into(row[a], "dead")
    <3>1. row'[a].status = "dead"
      BY <2>3, IntoFacts DEF OutboxInv, IInv, TypeOK, Statuses
    <3>2. QED BY <2>1, <2>3, <3>1 DEF Moves, Due, Gone
  <2>4. QED BY <2>2, <2>3, AbandonedFacts DEF OutboxInv, IInv
<1>2. Muted
  BY <1>1 DEF Muted, Unrecorded, Live
<1>3. QED BY <1>1, <1>2, MutedKeeps DEF Carried, Taken

LEMMA ChannelCarries == OutboxInv /\ (RemoveChannel \/ AbandonChannel) => Carried
<1>1. ASSUME OutboxInv, RemoveChannel PROVE Carried
  <2>1. chan'.exists => chan.exists
    BY <1>1 DEF RemoveChannel, OutboxInv, IInv, TypeOK, Channel
  <2>2. row' = row /\ UNCHANGED <<job, sweep, accepted, unmarked, doubled>>
    BY <1>1 DEF RemoveChannel
  <2>3. QED BY <1>1, <2>1, <2>2, UntouchedSweeps, ClosingCarries
<1>2. ASSUME OutboxInv, AbandonChannel PROVE Carried
  <2>1. row' \in {row, Abandoned} /\ UNCHANGED <<chan, job, sweep, accepted, unmarked, doubled>>
    BY <1>2 DEF AbandonChannel
  <2>2. QED BY <1>2, <2>1, UntouchedSweeps, ClosingCarries
<1>3. QED BY <1>1, <1>2

\* A batch begins with alerts that no delivery has in hand.
LEMMA BatchCarries == ASSUME OutboxInv, NEW s \in Sweeper, BatchBegins(s) PROVE Carried
<1>1. UNCHANGED <<row, job, chan, accepted, unmarked, doubled>> /\ Shape /\ TypeOK
  BY DEF BatchBegins, OutboxInv, IInv, Shape
<1>2. \A a \in Alert : Moves(a)
  BY <1>1 DEF Moves, CountsStay, StatusStays
<1>3. \A a \in Alert : /\ Records(a)' <=> Records(a)
                       /\ \A w \in Worker : Unrecorded(w, a)' <=> Unrecorded(w, a)
  BY <1>1, BeginsFacts DEF Unrecorded
<1>4. ReceiptInv'
  BY <1>1, <1>3 DEF OutboxInv, ReceiptInv, Lost
<1>5. ASSUME NEW a \in Alert, InBatch(a)'
      PROVE  InBatch(a) \/ (chan.exists /\ row[a].status \in {"held", "digest"})
  <2>1. PICK t \in Sweeper : Holds(t, a)'
    BY <1>5 DEF InBatch
  <2>2. CASE t = s
    BY <1>1, <2>1, <2>2, BeginsFacts
  <2>3. CASE t # s
    BY <1>1, <2>1, <2>3, BeginsFacts DEF InBatch
  <2>4. QED BY <2>2, <2>3
<1>6. LiveInv'
  <2> SUFFICES ASSUME NEW w \in Worker, Live(w)', NEW c, c = job'[w].id PROVE ~Taken(c)'
    BY DEF LiveInv
  <2>1. PICK a : a = job[w].id
    OBVIOUS
  <2>2. Live(w) /\ Sending(w) /\ job'[w].id = a /\ a \in Alert
    BY <1>1, <2>1 DEF Live, Sending, Shape, JobInv
  <2>3. ~Gone(a)' /\ (\A v \in Worker : ~Unrecorded(v, a)') /\ ~InBatch(a)
    BY <1>1, <1>3, <2>1, <2>2 DEF OutboxInv, LiveInv, Taken, Gone
  <2>4. ~InBatch(a)'
    <3>1. SUFFICES ASSUME InBatch(a)' PROVE FALSE
      OBVIOUS
    <3>2. chan.exists /\ row[a].status \in {"held", "digest"}
      BY <1>5, <2>2, <2>3, <3>1
    <3>3. QED BY <2>1, <2>2, <3>2, OneOwner DEF OutboxInv
  <2>5. QED BY <2>2, <2>3, <2>4 DEF Taken
<1>7. DoubleInv'
  <2>1. \A t \in Sweeper, a \in Alert : Repeated(t, a)' => Repeated(t, a)
    BY <1>1, BeginsFacts
  <2>2. ASSUME NEW a \in Alert, chan'.exists, Ships(a)', Gone(a)' PROVE doubled'[a] > 0
    <3>1. PICK t \in Sweeper : ToSend(t, a)'
      BY <2>2 DEF Ships
    <3>2. t # s
      BY <1>1, <2>2, <3>1, BeginsFacts DEF Gone
    <3>3. Ships(a)
      BY <1>1, <3>1, <3>2, BeginsFacts DEF Ships
    <3>4. QED BY <1>1, <2>2, <3>3 DEF OutboxInv, DoubleInv, Gone
  <2>3. QED BY <1>1, <2>1, <2>2 DEF OutboxInv, DoubleInv
<1>8. QED BY <1>2, <1>4, <1>6, <1>7 DEF Carried

LEMMA HeldCarries == ASSUME OutboxInv, NEW s \in Sweeper, SweepHeld(s) PROVE Carried
<1>1. CASE chan.exists
  BY <1>1, HeldBegins, BatchCarries DEF OutboxInv
<1>2. CASE ~chan.exists
  <2>1. SweepsShrink /\ row' \in {row, Abandoned}
    BY <1>2, HeldPasses DEF OutboxInv, IInv
  <2>2. UNCHANGED <<job, chan, accepted, unmarked, doubled>>
    BY DEF SweepHeld
  <2>3. QED BY <2>1, <2>2, ClosingCarries
<1>3. QED BY <1>1, <1>2

LEMMA ShipCarries == ASSUME OutboxInv, NEW s \in Sweeper, SweepSend(s) PROVE Carried
<1>1. Shape /\ UNCHANGED <<row, job, chan>> /\ IInv
  BY DEF OutboxInv, IInv, Shape, SweepSend
<1>2. ASSUME NEW a \in Alert
      PROVE  /\ accepted[a] \in Nat /\ unmarked[a] \in Nat /\ doubled[a] \in Nat
             /\ Lost(a) <= accepted[a]
             /\ Holds(s, a) => Due(a) \/ row[a].status = "digested"
             /\ ToSend(s, a) => accepted[a] <= Lost(a) /\ (Due(a) \/ doubled[a] > 0)
  <2>1. accepted[a] \in Nat /\ unmarked[a] \in Nat /\ doubled[a] \in Nat /\ Lost(a) <= accepted[a]
    BY DEF OutboxInv, IInv, TypeOK, ReceiptInv
  <2>2. Holds(s, a) => InBatch(a)
    BY DEF InBatch
  <2>3. ToSend(s, a) => InBatch(a) /\ Ships(a)
    BY <1>1, ShipHands, RecordsHeld
  <2>4. ToSend(s, a) => accepted[a] <= Lost(a)
    BY <2>3 DEF OutboxInv, IInv, SendInv
  <2>5. InBatch(a) => (Due(a) \/ row[a].status = "digested") /\ (~Due(a) => chan.exists)
    BY <1>1, HandsDue
  <2>6. ToSend(s, a) /\ ~Due(a) => doubled[a] > 0
    BY <2>3, <2>5 DEF OutboxInv, DoubleInv, Gone
  <2>7. QED BY <2>1, <2>2, <2>4, <2>5, <2>6
<1>3. ASSUME NEW a \in Alert
      PROVE  \/ ~Holds(s, a) /\ CountsStay(a)
             \/ ~sweep'[s].ok /\ CountsStay(a)
             \/ /\ a \in sweep[s].again /\ Holds(s, a) /\ accepted'[a] = accepted[a] + 1
                /\ unmarked'[a] = unmarked[a] /\ doubled'[a] = doubled[a] + 1
             \/ /\ ToSend(s, a) /\ accepted'[a] = accepted[a] + 1 /\ doubled'[a] = doubled[a]
                /\ \/ sweep'[s].ok /\ unmarked'[a] = unmarked[a]
                   \/ ~sweep'[s].ok /\ unmarked'[a] = unmarked[a] + 1
  BY <1>1, ShipEffect DEF CountsStay
<1>4. ASSUME NEW a \in Alert PROVE Moves(a)
  <2>1. StatusStays(a)
    BY <1>1 DEF StatusStays
  <2>2. CASE CountsStay(a)
    BY <2>1, <2>2 DEF Moves
  <2>3. CASE /\ Holds(s, a) /\ accepted'[a] = accepted[a] + 1
             /\ unmarked'[a] = unmarked[a] /\ doubled'[a] = doubled[a] + 1
    BY <1>2, <2>1, <2>3 DEF Moves
  <2>4. CASE /\ ToSend(s, a) /\ accepted'[a] = accepted[a] + 1 /\ doubled'[a] = doubled[a]
             /\ unmarked'[a] \in {unmarked[a], unmarked[a] + 1}
    BY <1>2, <2>1, <2>4 DEF Moves
  <2>5. QED BY <1>3, <2>2, <2>3, <2>4
<1>5. ASSUME NEW a \in Alert
      PROVE  /\ \A w \in Worker : Unrecorded(w, a)' <=> Unrecorded(w, a)
             /\ ToSend(s, a) => \A w \in Worker : ~Unrecorded(w, a)
             /\ Records(a)' <=> Records(a) \/ (ToSend(s, a) /\ sweep'[s].ok)
             /\ ToSend(s, a) => ~Records(a)
  <2>1. \A w \in Worker : Unrecorded(w, a)' <=> Unrecorded(w, a)
    BY <1>1 DEF Unrecorded
  <2>2. Records(a)' <=> Records(a) \/ (ToSend(s, a) /\ sweep'[s].ok)
    BY <1>1, ShipHands
  <2>3. accepted[a] \in Nat /\ Lost(a) \in Nat
    BY <1>2 DEF Lost
  <2>4. ToSend(s, a) => ~Records(a) /\ \A w \in Worker : ~Unrecorded(w, a)
    BY <1>2, <2>3 DEF OutboxInv, ReceiptInv
  <2>5. QED BY <2>1, <2>2, <2>4
<1>6. ReceiptInv'
  <2> SUFFICES ASSUME NEW a \in Alert
               PROVE  /\ Lost(a)' <= accepted'[a]
                      /\ Records(a)' => Lost(a)' < accepted'[a]
                      /\ \A v \in Worker : Unrecorded(v, a)' => Lost(a)' < accepted'[a] /\ ~Records(a)'
                      /\ \A u, v \in Worker : Unrecorded(u, a)' /\ Unrecorded(v, a)' => u = v
    BY DEF ReceiptInv
  <2>1. accepted[a] \in Nat /\ Lost(a) \in Nat
    BY <1>2 DEF Lost
  <2>2. CASE ~ToSend(s, a)
    <3>1. \/ accepted'[a] = accepted[a] /\ Lost(a)' = Lost(a)
          \/ accepted'[a] = accepted[a] + 1 /\ Lost(a)' = Lost(a) + 1
      BY <1>1, <2>2, ShipCounts
    <3>2. QED BY <1>5, <2>1, <2>2, <3>1 DEF OutboxInv, ReceiptInv
  <2>3. CASE ToSend(s, a)
    <3>1. \/ sweep'[s].ok /\ accepted'[a] = accepted[a] + 1 /\ Lost(a)' = Lost(a)
          \/ ~sweep'[s].ok /\ accepted'[a] = accepted[a] /\ Lost(a)' = Lost(a)
          \/ ~sweep'[s].ok /\ accepted'[a] = accepted[a] + 1 /\ Lost(a)' = Lost(a) + 1
      BY <1>1, <2>3, ShipCounts
    <3>2. QED BY <1>2, <1>5, <2>1, <2>3, <3>1
  <2>4. QED BY <2>2, <2>3
<1>7. LiveInv'
  <2>1. \A a \in Alert : Taken(a)' <=> Taken(a)
    BY <1>1, <1>5, ShipHands DEF Taken, Gone
  <2>2. \A w \in Worker : Live(w)' => Live(w) /\ job'[w].id = job[w].id /\ job[w].id \in Alert
    BY <1>1 DEF Live, Shape, JobInv
  <2>3. QED BY <2>1, <2>2 DEF OutboxInv, LiveInv
<1>8. DoubleInv'
  <2>1. \A a \in Alert : doubled[a] > 0 => doubled'[a] > 0
    BY <1>2, <1>3 DEF CountsStay
  <2>2. ASSUME NEW t \in Sweeper, NEW a \in Alert, Repeated(t, a)' PROVE doubled'[a] > 0
    <3>1. CASE t # s
      <4>1. Repeated(t, a)
        BY <1>1, <2>2, <3>1, ShipHands
      <4>2. QED BY <2>1, <4>1 DEF OutboxInv, DoubleInv
    <3>2. CASE t = s
      <4>1. sweep'[s].ok /\ a \in sweep[s].again
        BY <1>1, <2>2, <3>2, ShipHands
      <4>2. doubled'[a] = doubled[a] + 1
        BY <1>1, <4>1, ShipEffect
      <4>3. QED BY <1>2, <4>2
    <3>3. QED BY <3>1, <3>2
  <2>3. \A a \in Alert : Ships(a)' => Ships(a)
    BY <1>1, ShipHands
  <2>4. QED BY <1>1, <2>1, <2>2, <2>3 DEF OutboxInv, DoubleInv, Gone
<1>9. QED BY <1>4, <1>6, <1>7, <1>8 DEF Carried

LEMMA BatchMarkCarries == ASSUME OutboxInv, NEW s \in Sweeper, SweepMark(s) PROVE Carried
<1>1. /\ Shape /\ TypeOK /\ UNCHANGED <<job, chan, accepted, unmarked, doubled>>
      /\ sweep[s].pc = "mark" /\ SweepsShrink
  BY BatchMarkSweeps DEF OutboxInv, IInv, Shape, SweepMark
<1>2. \A a \in Alert : CountsStay(a)
  BY <1>1 DEF CountsStay
<1>3. ASSUME NEW a \in Alert, sweep[s].ok, Holds(s, a)
      PROVE  /\ InBatch(a) /\ accepted[a] > 0
             /\ Due(a) \/ row[a].status = "digested"
             /\ Ships(a) => doubled[a] > 0
  <2>1. InBatch(a) /\ (Due(a) \/ row[a].status = "digested")
    BY <1>3, HandsDue DEF InBatch, OutboxInv
  <2>2. accepted[a] \in Nat /\ unmarked[a] \in Nat /\ doubled[a] \in Nat
        /\ Lost(a) <= accepted[a]
    BY DEF OutboxInv, IInv, TypeOK, ReceiptInv
  <2>3. CASE a \in sweep[s].again
    <3>1. doubled[a] > 0
      BY <1>1, <1>3, <2>3 DEF Repeated, OutboxInv, DoubleInv
    <3>2. QED BY <2>1, <2>2, <3>1 DEF Lost
  <2>4. CASE a \notin sweep[s].again
    <3>1. ToRecord(s, a)
      BY <1>1, <1>3, <2>4 DEF ToRecord, Holds
    <3>2. Lost(a) < accepted[a]
      BY <3>1 DEF Records, OutboxInv, ReceiptInv
    <3>3. ~Ships(a)
      <4>1. \A t \in Sweeper : ToSend(t, a) => t = s
        BY <3>1 DEF First, OutboxInv, IInv, BatchInv
      <4>2. QED BY <1>1, <4>1 DEF Ships, ToSend
    <3>4. QED BY <2>1, <2>2, <3>2, <3>3 DEF Lost
  <2>5. QED BY <2>3, <2>4
<1>4. ASSUME NEW a \in Alert
      PROVE  /\ Moves(a) /\ (Gone(a)' => Taken(a))
             /\ Ships(a) /\ Gone(a)' => Gone(a) \/ doubled[a] > 0
  <2>1. CASE row'[a] = row[a]
    BY <1>2, <2>1 DEF Moves, StatusStays, Gone, Taken
  <2>2. CASE sweep[s].ok /\ Holds(s, a) /\ row'[a].status = "digested"
    <3>1. Gone(a)' /\ Taken(a)
      BY <1>3, <2>2 DEF Gone, Taken
    <3>2. row[a].status = "digested" => StatusStays(a)
      BY <2>2 DEF StatusStays, Recorded, Unfinished
    <3>3. QED BY <1>2, <1>3, <2>2, <3>1, <3>2 DEF Moves
  <2>3. QED BY <1>1, <2>1, <2>2, BatchMarkEffect
<1>5. Muted
  BY <1>1, <1>2 DEF Muted, Unrecorded, Live
<1>6. QED BY <1>4, <1>5, MutedKeeps DEF Carried

LEMMA OutboxCarries == ASSUME OutboxInv, Shape', [Next]_vars PROVE Carried
<1>1. IInv
  BY DEF OutboxInv
<1>2. ASSUME NEW w \in Worker, NEW a \in Alert, Raise(w, a) \/ Retry(w, a) PROVE Carried
  BY <1>1, <1>2, RaiseKeeps, QuietCarries, RetryCarries
<1>3. ASSUME NEW w \in Worker, Work(w) \/ Crash(w) PROVE Carried
  BY <1>1, <1>3, RouteKeeps, QuietCarries, InsertCarries, ClaimCarries, LookupCarries,
     SendCarries, MarkCarries, CrashCarries DEF Work
<1>4. CASE UpdateChannel \/ UNCHANGED vars
  BY <1>1, <1>4, ClockFreeKeeps, QuietCarries
<1>5. ASSUME NEW s \in Sweeper, SweepStart(s) \/ SweepRetried(s) \/ SweepRecord(s) PROVE Carried
  BY <1>1, <1>5, ClockFreeKeeps, QuietCarries
<1>6. ASSUME NEW s \in Sweeper, NEW w \in Worker, SweepDeliver(s, w) PROVE Carried
  BY <1>1, <1>6, DeliverKeeps, QuietCarries
<1>7. ASSUME NEW s \in Sweeper,
             SweepHeld(s) \/ SweepDigest(s) \/ SweepSend(s) \/ SweepMark(s) \/ SweepCrash(s)
      PROVE  Carried
  BY <1>1, <1>7, HeldCarries, DigestBegins, BatchCarries, ShipCarries, BatchMarkCarries,
     SweepCrashCarries
<1>8. QED
  BY <1>2, <1>3, <1>4, <1>5, <1>6, <1>7, AdvanceCarries, ChannelCarries DEF Next, SweepStep

LEMMA OutboxInvariance == Spec => []OutboxInv
<1>1. Init => OutboxInv
  <2> SUFFICES ASSUME Init PROVE OutboxInv
    OBVIOUS
  <2>1. \A w \in Worker : job[w].pc = "idle"
    BY DEF Init, Idle
  <2>2. (\A s \in Sweeper : sweep[s].pc = "idle") /\ \A a \in Alert : accepted[a] = 0 /\ Lost(a) = 0
    BY DEF Init, Resting, Lost
  <2>3. ReceiptInv
    BY <2>1, <2>2 DEF ReceiptInv, Records, ToRecord, Unrecorded
  <2>4. LiveInv /\ DoubleInv
    BY <2>1, <2>2 DEF LiveInv, Live, DoubleInv, Ships, ToSend, Repeated
  <2>5. QED BY <2>3, <2>4, IInvInit DEF OutboxInv
<1>2. OutboxInv /\ [Next]_vars => OutboxInv'
  <2> SUFFICES ASSUME OutboxInv, [Next]_vars PROVE OutboxInv'
    OBVIOUS
  <2>1. IInv'
    BY IInvStep DEF OutboxInv
  <2>2. Carried
    BY <2>1, OutboxCarries DEF IInv, Shape
  <2>3. QED BY <2>1, <2>2 DEF Carried, OutboxInv
<1>3. QED BY <1>1, <1>2, PTL DEF Spec

\* The channel, once removed, does not come back.
LEMMA StaysClosed == ASSUME IInv, [Next]_vars PROVE chan'.exists => chan.exists
<1>1. chan \in Channel
  BY DEF IInv, TypeOK
<1>2. CASE Advance \/ UpdateChannel \/ RemoveChannel \/ \E s \in Sweeper : SweepRecord(s)
  <2>1. PICK d, m, e, x :
          \/ chan' = [chan EXCEPT !.last = d] \/ chan' = [chan EXCEPT !.mode = m]
          \/ chan' = [chan EXCEPT !.enabled = e] \/ chan' = chan
          \/ chan' = [chan EXCEPT !.exists = FALSE]
    BY <1>2 DEF Advance, SweepRecord, UpdateChannel, RemoveChannel
  <2>2. QED BY <1>1, <2>1 DEF Channel
<1>3. CASE chan' = chan
  BY <1>3
<1>4. QED
  BY <1>2, <1>3 DEF Next, Work, SweepStep, Raise, Route, Cap, Insert, Claim, Lookup, Send, Mark,
     Crash, Retry, AbandonChannel, SweepStart, SweepDeliver, SweepRetried, SweepHeld, SweepDigest,
     SweepSend, SweepMark, SweepCrash, vars

(* Raises, retries, the sweeps' summaries and digests, deaths and the      *)
(* channel's removal, however they interleave, implement the outbox: an    *)
(* alert is handed to the service only while it is owed and nobody has, or *)
(* is about to record, the service's word for it, but for a batch that two *)
(* sweeps had in hand at once, which counts as a double; it is recorded as *)
(* gone out only if the service has it (deliver, markSent, flush,          *)
(* markBatched); and taken back never.                                     *)
THEOREM OutboxCorrect == Spec => ImplementsOutbox
<1>1. Init => Delivery!Init
  <2> SUFFICES ASSUME Init PROVE Delivery!Init
    OBVIOUS
  <2>1. chan.exists = TRUE /\ \A a \in Alert : row[a].status = "none"
    BY DEF Init, NoRow
  <2>2. \A a \in Alert : Recorded(row[a]) = "none"
    BY <2>1 DEF Recorded, Unfinished
  <2>3. QED BY <2>1, <2>2 DEF Init, Delivery!Init
<1>2. OutboxInv /\ OutboxInv' /\ [Next]_vars => [Delivery!Next]_(Delivery!vars)
  <2> SUFFICES ASSUME OutboxInv, OutboxInv', [Next]_vars PROVE Delivery!Next
    BY DEF Delivery!vars
  <2>1. \A a \in Alert : Moves(a)
    BY OutboxCarries DEF OutboxInv, IInv, Shape, Carried
  <2>2. chan'.exists => chan.exists
    BY StaysClosed DEF OutboxInv
  <2>3. ASSUME NEW a \in Alert
        PROVE  \/ Delivery!Owe(a) \/ Delivery!HandOver(a) \/ Delivery!Double(a)
               \/ Delivery!Forget(a) \/ Delivery!Record(a) \/ Delivery!GiveUp(a) \/ Delivery!Rest(a)
    <3>1. /\ Recorded(row[a]) = "owed" <=> row[a].status \in Unfinished
          /\ \A s \in {"none", "sent", "dead", "digested"} :
               Recorded(row[a]) = s <=> row[a].status = s
      <4>1. row[a].status # "owed"
        BY DEF OutboxInv, IInv, TypeOK, Row, Unfinished
      <4>2. QED BY <4>1 DEF Recorded, Unfinished
    <3>2. /\ row'[a].status \in Unfinished => Recorded(row'[a]) = "owed"
          /\ \A s \in {"none", "sent", "dead", "digested"} :
               row'[a].status = s => Recorded(row'[a]) = s
      BY DEF Recorded, Unfinished
    <3>3. Due(a) <=> Delivery!Ready(a)
      BY <3>1 DEF Due, Delivery!Ready
    <3>4. CountsStay(a) <=> Delivery!CountsStay(a)
      BY DEF CountsStay, Delivery!CountsStay, Delivery!DoublesStay
    <3>5. StatusStays(a) <=> Delivery!Stays(a)
      BY DEF StatusStays, Delivery!Stays
    <3>6. QED
      BY <2>1, <3>1, <3>2, <3>3, <3>4, <3>5
         DEF Moves, Gone, Lost, Delivery!Owe, Delivery!HandOver, Delivery!Double, Delivery!Forget,
             Delivery!Record, Delivery!GiveUp, Delivery!Rest, Delivery!Gone, Delivery!DoublesStay
  <2>4. QED BY <2>2, <2>3 DEF Delivery!Next
<1>3. QED BY <1>1, <1>2, OutboxInvariance, PTL DEF Spec, ImplementsOutbox, Delivery!Spec
=============================================================================
