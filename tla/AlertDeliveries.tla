--------------------------- MODULE AlertDeliveries ---------------------------
(***************************************************************************)
(* The delivery half of packages/alerts for ONE channel: an alert that its *)
(* key's cooldown let through is routed to the channel, sent by the        *)
(* raising request, retried by a sweep, held back by the hourly cap or     *)
(* batched into a digest, while an admin edits or removes the channel and  *)
(* retries deliveries from the console.  A flush claims nothing: only the  *)
(* cron lock keeps sweeps apart, it lasts as long as the schedule, and it  *)
(* can be undone; so sweeps overlap here freely.                           *)
(*                                                                         *)
(* A step is one await that writes a row, or the reads that decide it, so  *)
(* invocations interleave between deciding, sending and recording; any of  *)
(* them can die, or see a database call reject, which ends it the same     *)
(* way.  A column that holds an instant is modelled by the time left or    *)
(* gone, up to the limit the code compares it with, so the clock needs no  *)
(* bound.  SWEEP_BATCH and retention lie beyond the instances' horizon.    *)
(***************************************************************************)
EXTENDS Integers, Sequences, FiniteSets

CONSTANTS Worker,        \* requests that may run raise, deliver or retry at once
          Sweeper,       \* invocations of alerts:sweep that may overlap
          Alert,         \* alerts raised, each with at most one delivery to the channel
          None,          \* no alert, no sweep
          RetryDelay,    \* RETRY_DELAYS_MS: the waits before each retry
          Stale,         \* SENDING_STALE_MS
          PendingGrace,  \* how old a pending row is before the sweep takes it
          Hour,          \* HOUR_MS
          MaxPerHour,    \* the channel's hourly cap
          Day,           \* DAY_MS
          DigestHour,    \* the channel's digest hour, from the start of the day
          MaxEdits,      \* bound: edits of the channel, its removal included
          MaxRetries,    \* bound: retries from the console
          MaxFaults,     \* bound: deaths of an invocation, and answers lost
          MaxTrouble     \* bound: all of these together

ASSUME PoliciesAssumption ==
    /\ Stale \in Nat \ {0} /\ PendingGrace \in Nat /\ Hour \in Nat \ {0}
    /\ MaxPerHour \in Nat \ {0}
    /\ Day \in Nat \ {0} /\ DigestHour \in 0 .. Day - 1
ASSUME NoneAssumption == None \notin Alert \cup Sweeper
ASSUME DelaysAssumption == RetryDelay \in Seq(Nat)
ASSUME LimitsAssumption ==
    MaxEdits \in Nat /\ MaxRetries \in Nat /\ MaxFaults \in Nat /\ MaxTrouble \in Nat

MaxAttempts == Len(RetryDelay) + 1

VARIABLES
    hour,      \* time of day
    chan,      \* the alert_channels row
    row,       \* each alert: its event, and its alert_deliveries row
    job,       \* what each worker is doing
    sweep,     \* what each invocation of alerts:sweep is doing
    removing,  \* a removeChannel between its two statements
    count,     \* edits, retries and faults so far
    accepted,  \* history: messages naming the alert that the service accepted
    unmarked,  \* history: of those, how many the engine never learned of
    doubled    \* history: of the rest, how many a sweep sent that read the alert while
               \* another sweep had it in hand

vars == <<hour, chan, row, job, sweep, removing, count, accepted, unmarked, doubled>>

Unfinished == {"pending", "sending", "failed", "held", "digest"}
Row == [status : Unfinished \cup {"none", "sent", "dead", "digested"},
        attempts : Nat,
        wait : Nat,                  \* failed: until next_attempt_at
        age : 0 .. PendingGrace,     \* pending: since created_at
        busy : 0 .. Stale,           \* sending: since the claim's updated_at
        gone : 0 .. Hour,            \* sent: since sent_at
        raised : BOOLEAN, critical : BOOLEAN]
\* last: the days gone since that of last_digest_at; 2 is longer, or never.
Channel == [exists : BOOLEAN, enabled : BOOLEAN, mode : {"immediate", "digest"},
            last : 0 .. 2]
Job == [pc : {"idle", "route", "cap", "insert", "claim", "lookup", "send", "mark"},
        id : Alert \cup {None}, plan : {"pending", "held", "digest"},
        out : {"ok", "retry", "permanent", "gone"},
        attempts : Nat,              \* as the claim returned it
        age : 0 .. Stale - 1,        \* since the claim
        by : Sweeper \cup {None}]    \* the sweep that runs it, in its invocation
Sweep == [pc : {"idle", "retry", "held", "digest", "send", "mark", "record"},
          reason : {"held", "digest"}, batch : SUBSET Alert, ok : BOOLEAN,
          again : SUBSET Alert,      \* of the batch: what another sweep had in hand
          late : SUBSET Alert,       \* raised since the sweep read the clock
          slot : BOOLEAN,            \* it read a time of day from the digest hour on
          days : 0 .. 1]             \* midnights since then

TypeOK ==
    /\ hour \in 0 .. Day - 1 /\ removing \in BOOLEAN
    /\ chan \in Channel /\ row \in [Alert -> Row]
    /\ job \in [Worker -> Job] /\ sweep \in [Sweeper -> Sweep]
    /\ count \in [edits : 0 .. MaxEdits, retries : 0 .. MaxRetries, faults : 0 .. MaxFaults]
    /\ accepted \in [Alert -> Nat] /\ unmarked \in [Alert -> Nat] /\ doubled \in [Alert -> Nat]

NoRow == [status |-> "none", attempts |-> 0, wait |-> 0, age |-> 0, busy |-> 0,
          gone |-> 0, raised |-> FALSE, critical |-> FALSE]
Idle == [pc |-> "idle", id |-> None, plan |-> "pending", out |-> "ok", attempts |-> 0,
         age |-> 0, by |-> None]
Resting == [pc |-> "idle", reason |-> "held", batch |-> {}, ok |-> FALSE, again |-> {},
            late |-> {}, slot |-> FALSE, days |-> 0]

Init ==
    /\ hour = 0 /\ removing = FALSE
    /\ \E mode \in {"immediate", "digest"} :
         chan = [exists |-> TRUE, enabled |-> TRUE, mode |-> mode, last |-> 2]
    /\ row = [a \in Alert |-> NoRow]
    /\ job = [w \in Worker |-> Idle]
    /\ sweep = [s \in Sweeper |-> Resting]
    /\ count = [edits |-> 0, retries |-> 0, faults |-> 0]
    /\ accepted = [a \in Alert |-> 0] /\ unmarked = [a \in Alert |-> 0]
    /\ doubled = [a \in Alert |-> 0]

Trouble == count.edits + count.retries + count.faults
Fault ==
    /\ count.faults < MaxFaults /\ Trouble < MaxTrouble
    /\ count' = [count EXCEPT !.faults = @ + 1]

-----------------------------------------------------------------------------
(* The statements of AlertDelivery.                                        *)

\* Mutants of Claimable: a row being sent is taken as well; a row already sent is.
ClaimableBusy(r) == r.status \in {"pending", "sending"} \/ (r.status = "failed" /\ r.wait = 0)
ClaimableSent(r) == r.status \in {"pending", "sent"} \/ (r.status = "failed" /\ r.wait = 0)

\* claim's WHERE clause: SENDING_STALE_MS after its claim a send counts as dead.
Claimable(r) ==
    \/ r.status = "pending"
    \/ r.status = "failed" /\ r.wait = 0
    \/ r.status = "sending" /\ r.busy = Stale

\* The row in a status, with the clocks of that status started.
Into(r, status) == [r EXCEPT !.status = status, !.wait = 0, !.age = 0, !.busy = 0, !.gone = 0]

Claimed(r) == [Into(r, "sending") EXCEPT !.attempts = @ + 1]

\* Mutant of DueRow: a send that died mid-way is nobody's.
DueRowNeverStale(r) ==
    \/ r.status = "failed" /\ r.wait = 0
    \/ r.status = "pending" /\ r.age = PendingGrace

\* due's WHERE clause: what the sweep tries now.
DueRow(r) ==
    \/ r.status = "failed" /\ r.wait = 0
    \/ r.status = "sending" /\ r.busy = Stale
    \/ r.status = "pending" /\ r.age = PendingGrace

\* Mutant of GivesUp: the limit is tested with > where the code has >=.
GivesUpLate(j) == j.out \in {"permanent", "gone"} \/ j.attempts > MaxAttempts

\* Whether deliver gives up after a failed attempt.
GivesUp(j) == j.out \in {"permanent", "gone"} \/ j.attempts >= MaxAttempts

\* Mutant of Failed: the last delay serves every later attempt.
FailedForEver(r, j) ==
    IF j.out \in {"permanent", "gone"} THEN Into(r, "dead")
    ELSE [Into(r, "failed") EXCEPT !.wait = RetryDelay[Len(RetryDelay)]]

\* markFailed, with the wait the attempt number calls for.  A number past the list would
\* make next_attempt_at NaN, never due: -1 here.
Failed(r, j) ==
    IF GivesUp(j) THEN Into(r, "dead")
    ELSE [Into(r, "failed") EXCEPT
            !.wait = IF j.attempts \in DOMAIN RetryDelay THEN RetryDelay[j.attempts] ELSE -1]

\* sentSince an hour ago: what the cap counts.
SentLately == Cardinality({a \in Alert : row[a].status = "sent" /\ row[a].gone < Hour})

\* channelsWaiting: what waits for the channel; waiting: of that, what a sweep may batch.
Waiting(status) == {a \in Alert : row[a].status = status}
Batchable(s, status) == Waiting(status) \ sweep[s].late

Abandoned == [a \in Alert |->
    IF row[a].status \in Unfinished THEN Into(row[a], "dead") ELSE row[a]]

\* digestDue, with the time of day and the day the sweep read when it started.
DigestDue(s) == sweep[s].slot /\ chan.last > sweep[s].days

-----------------------------------------------------------------------------
(* raise(), from the stored event on.                                      *)

Start(w, pc, a) == job' = [job EXCEPT ![w] = [Idle EXCEPT !.pc = pc, !.id = a]]

Raise(w, a) ==
    /\ job[w].pc = "idle" /\ ~row[a].raised
    /\ \E critical \in BOOLEAN :
         row' = [row EXCEPT ![a] = [@ EXCEPT !.raised = TRUE, !.critical = critical]]
    /\ Start(w, "route", a)
    /\ sweep' = [s \in Sweeper |-> IF sweep[s].pc = "idle" THEN sweep[s]
                                   ELSE [sweep[s] EXCEPT !.late = @ \cup {a}]]
    /\ UNCHANGED <<hour, chan, removing, count, accepted, unmarked, doubled>>

\* The channels are read; an alert nobody takes is only logged.
Route(w) ==
    LET j == job[w] IN
    /\ j.pc = "route"
    /\ job' = [job EXCEPT ![w] =
                 IF ~chan.exists \/ ~chan.enabled THEN Idle
                 ELSE IF row[j.id].critical THEN [j EXCEPT !.pc = "insert"]
                 ELSE IF chan.mode = "digest" THEN [j EXCEPT !.pc = "insert", !.plan = "digest"]
                 ELSE [j EXCEPT !.pc = "cap"]]
    /\ UNCHANGED <<hour, chan, row, sweep, removing, count, accepted, unmarked, doubled>>

Cap(w) ==
    /\ job[w].pc = "cap"
    /\ job' = [job EXCEPT ![w].pc = "insert",
                          ![w].plan = IF SentLately >= MaxPerHour THEN "held" ELSE "pending"]
    /\ UNCHANGED <<hour, chan, row, sweep, removing, count, accepted, unmarked, doubled>>

Insert(w) ==
    LET j == job[w] IN
    /\ j.pc = "insert"
    /\ row' = [row EXCEPT ![j.id] = Into(@, j.plan)]
    /\ IF j.plan = "pending" THEN Start(w, "claim", j.id)
       ELSE job' = [job EXCEPT ![w] = Idle]
    /\ UNCHANGED <<hour, chan, sweep, removing, count, accepted, unmarked, doubled>>

-----------------------------------------------------------------------------
(* deliver(), for a raise, a sweep or a retry from the console.            *)

Claim(w) ==
    LET j == job[w] IN
    /\ j.pc = "claim"
    /\ \/ /\ Claimable(row[j.id])
          /\ row' = [row EXCEPT ![j.id] = Claimed(@)]
          /\ job' = [job EXCEPT ![w].pc = "lookup", ![w].attempts = row[j.id].attempts + 1]
       \/ /\ ~Claimable(row[j.id])
          /\ job' = [job EXCEPT ![w] = Idle]
          /\ UNCHANGED row
    /\ UNCHANGED <<hour, chan, sweep, removing, count, accepted, unmarked, doubled>>

Lookup(w) ==
    /\ job[w].pc = "lookup"
    /\ job' = [job EXCEPT ![w] = IF chan.exists THEN [@ EXCEPT !.pc = "send"]
                                 ELSE [@ EXCEPT !.pc = "mark", !.out = "gone"]]
    /\ UNCHANGED <<hour, chan, row, sweep, removing, count, accepted, unmarked, doubled>>

\* The service takes the message, refuses it, or takes it while its answer is lost.
Send(w) ==
    LET j == job[w]
        Outcome(out) == job' = [job EXCEPT ![w] = [j EXCEPT !.pc = "mark", !.out = out]]
    IN
    /\ j.pc = "send"
    /\ \/ /\ Outcome("ok")
          /\ accepted' = [accepted EXCEPT ![j.id] = @ + 1]
          /\ UNCHANGED <<count, unmarked>>
       \/ /\ Outcome("retry") \/ Outcome("permanent")
          /\ UNCHANGED <<count, accepted, unmarked, doubled>>
       \/ /\ Fault /\ Outcome("retry")
          /\ accepted' = [accepted EXCEPT ![j.id] = @ + 1]
          /\ unmarked' = [unmarked EXCEPT ![j.id] = @ + 1]
    /\ UNCHANGED <<hour, chan, row, sweep, removing, doubled>>

\* markSent or markFailed, whoever owns the row by now.
Mark(w) ==
    LET j == job[w] IN
    /\ j.pc = "mark"
    /\ row' = [row EXCEPT ![j.id] = IF j.out = "ok" THEN Into(@, "sent") ELSE Failed(@, j)]
    /\ job' = [job EXCEPT ![w] = Idle]
    /\ UNCHANGED <<hour, chan, sweep, removing, count, accepted, unmarked, doubled>>

\* Messages a worker sent whose acceptance it has yet to record.
Unrecorded(w, a) == job[w].pc = "mark" /\ job[w].out = "ok" /\ job[w].id = a

\* One of a sweep's deliveries that rejects ends the sweep; the others run on.
Crash(w) ==
    LET s == job[w].by IN
    /\ job[w].pc # "idle" /\ Fault
    /\ job' = [v \in Worker |->
                 IF v = w THEN Idle
                 ELSE [job[v] EXCEPT !.by = IF @ = s THEN None ELSE @]]
    /\ sweep' = [t \in Sweeper |-> IF t = s THEN Resting ELSE sweep[t]]
    /\ unmarked' = [a \in Alert |-> IF Unrecorded(w, a) THEN unmarked[a] + 1 ELSE unmarked[a]]
    /\ UNCHANGED <<hour, chan, row, removing, accepted, doubled>>

-----------------------------------------------------------------------------
(* The console.                                                            *)

\* requeue leaves created_at alone: the row is old enough for the sweep at once.
Retry(w, a) ==
    /\ job[w].pc = "idle" /\ row[a].status \in {"failed", "dead"}
    /\ count.retries < MaxRetries /\ Trouble < MaxTrouble
    /\ count' = [count EXCEPT !.retries = @ + 1]
    /\ \E age \in 0 .. PendingGrace :
         row' = [row EXCEPT ![a] = [Into(@, "pending") EXCEPT !.age = age]]
    /\ Start(w, "claim", a)
    /\ UNCHANGED <<hour, chan, sweep, removing, accepted, unmarked, doubled>>

Edit ==
    /\ count.edits < MaxEdits /\ Trouble < MaxTrouble
    /\ chan.exists /\ count' = [count EXCEPT !.edits = @ + 1]

UpdateChannel ==
    /\ Edit
    /\ \/ \E mode \in {"immediate", "digest"} \ {chan.mode} : chan' = [chan EXCEPT !.mode = mode]
       \/ chan' = [chan EXCEPT !.enabled = ~@]
    /\ UNCHANGED <<hour, row, job, sweep, removing, accepted, unmarked, doubled>>

RemoveChannel ==
    /\ Edit
    /\ chan' = [chan EXCEPT !.exists = FALSE]
    /\ removing' = TRUE
    /\ UNCHANGED <<hour, row, job, sweep, accepted, unmarked, doubled>>

\* The second statement of removeChannel, or the death of the request before it.
AbandonChannel ==
    /\ removing /\ removing' = FALSE
    /\ \/ row' = Abandoned /\ UNCHANGED count
       \/ Fault /\ UNCHANGED row
    /\ UNCHANGED <<hour, chan, job, sweep, accepted, unmarked, doubled>>

-----------------------------------------------------------------------------
(* sweep(): retries, then the held summary, then the digest.               *)

SweepStart(s) ==
    /\ sweep[s].pc = "idle"
    /\ sweep' = [sweep EXCEPT ![s] = [Resting EXCEPT
                   !.pc = "retry", !.batch = {a \in Alert : DueRow(row[a])},
                   !.slot = hour >= DigestHour]]
    /\ UNCHANGED <<hour, chan, row, job, removing, count, accepted, unmarked, doubled>>

SweepDeliver(s, w) ==
    /\ sweep[s].pc = "retry" /\ job[w].pc = "idle"
    /\ \E a \in sweep[s].batch :
         /\ sweep' = [sweep EXCEPT ![s].batch = @ \ {a}]
         /\ job' = [job EXCEPT ![w] = [Idle EXCEPT !.pc = "claim", !.id = a, !.by = s]]
    /\ UNCHANGED <<hour, chan, row, removing, count, accepted, unmarked, doubled>>

SweepRetried(s) ==
    /\ sweep[s].pc = "retry" /\ sweep[s].batch = {}
    /\ \A w \in Worker : job[w].by # s
    /\ sweep' = [sweep EXCEPT ![s].pc = "held"]
    /\ UNCHANGED <<hour, chan, row, job, removing, count, accepted, unmarked, doubled>>

\* The sweep is about to send the alert in its batch, or to record that it did.
InHand(s, a) ==
    /\ a \in sweep[s].batch
    /\ sweep[s].pc = "send" \/ (sweep[s].pc = "mark" /\ sweep[s].ok)

\* flush: what the sweep reads is neither claimed nor checked again.
Collected(s, reason) ==
    [sweep[s] EXCEPT !.pc = "send", !.reason = reason, !.batch = Batchable(s, reason),
                     !.again = {a \in Batchable(s, reason) : \E t \in Sweeper : InHand(t, a)}]

\* Held alerts go as one summary once the cap has room; a channel with a streak of
\* failures behind it may be passed over.
SweepHeld(s) ==
    /\ sweep[s].pc = "held"
    /\ \/ /\ chan.exists /\ chan.enabled
          /\ SentLately < MaxPerHour /\ Batchable(s, "held") # {}
          /\ sweep' = [sweep EXCEPT ![s] = Collected(s, "held")]
       \/ sweep' = [sweep EXCEPT ![s].pc = "digest"]
    /\ row' = IF ~chan.exists /\ Waiting("held") # {} THEN Abandoned ELSE row
    /\ UNCHANGED <<hour, chan, job, removing, count, accepted, unmarked, doubled>>

\* The sweep with nothing left to do but to record its digest.
Recording(s) == [Resting EXCEPT !.pc = "record", !.days = sweep[s].days]

\* A digest channel's digest, once a day from its hour on; with nothing in it, only the
\* attempt is recorded.
SweepDigest(s) ==
    /\ sweep[s].pc = "digest"
    /\ sweep' = [sweep EXCEPT ![s] =
                   IF ~(chan.exists /\ chan.enabled /\ chan.mode = "digest" /\ DigestDue(s))
                   THEN Resting
                   ELSE IF Batchable(s, "digest") = {} THEN Recording(s)
                   ELSE Collected(s, "digest")]
    /\ UNCHANGED <<hour, chan, row, job, removing, count, accepted, unmarked, doubled>>

\* A message more for each of these alerts.
OneMore(counts, ids) == [a \in Alert |-> IF a \in ids THEN counts[a] + 1 ELSE counts[a]]

\* flush: the batch goes out or not, or goes out while the answer is lost.
SweepSend(s) ==
    LET batch == sweep[s].batch
        again == sweep[s].again
    IN
    /\ sweep[s].pc = "send"
    /\ \E ok \in BOOLEAN : sweep' = [sweep EXCEPT ![s].pc = "mark", ![s].ok = ok]
    /\ \/ /\ sweep'[s].ok
          /\ accepted' = OneMore(accepted, batch) /\ doubled' = OneMore(doubled, again)
          /\ UNCHANGED <<count, unmarked>>
       \/ ~sweep'[s].ok /\ UNCHANGED <<count, accepted, unmarked, doubled>>
       \/ /\ ~sweep'[s].ok /\ Fault
          /\ accepted' = OneMore(accepted, batch) /\ doubled' = OneMore(doubled, again)
          /\ unmarked' = OneMore(unmarked, batch \ again)
    /\ UNCHANGED <<hour, chan, row, job, removing>>

\* Mutant of Batched: a batch that went out is not marked.
BatchedNot(ids) == row

\* markBatched: exactly the rows the message covered, whatever became of them since.
Batched(ids) == [a \in Alert |-> IF a \in ids THEN Into(row[a], "digested") ELSE row[a]]

SweepMark(s) ==
    /\ sweep[s].pc = "mark"
    /\ row' = IF sweep[s].ok THEN Batched(sweep[s].batch) ELSE row
    /\ sweep' = [sweep EXCEPT ![s] =
                   IF @.reason = "digest" THEN Recording(s)
                   ELSE [@ EXCEPT !.pc = "digest", !.batch = {}, !.again = {}, !.ok = FALSE]]
    /\ UNCHANGED <<hour, chan, job, removing, count, accepted, unmarked, doubled>>

\* recordDigest: one attempt a day, sent or not, at the time the sweep started, which may
\* be before the one recorded.
SweepRecord(s) ==
    /\ sweep[s].pc = "record"
    /\ chan' = [chan EXCEPT !.last = sweep[s].days]
    /\ sweep' = [sweep EXCEPT ![s] = Resting]
    /\ UNCHANGED <<hour, row, job, removing, count, accepted, unmarked, doubled>>

\* The invocation that runs the sweep dies, and the deliveries it runs with it.
SweepCrash(s) ==
    /\ sweep[s].pc # "idle" /\ Fault
    /\ sweep' = [sweep EXCEPT ![s] = Resting]
    /\ job' = [w \in Worker |-> IF job[w].by = s THEN Idle ELSE job[w]]
    /\ unmarked' = [a \in Alert |->
         IF \/ sweep[s].pc = "mark" /\ sweep[s].ok /\ a \in sweep[s].batch \ sweep[s].again
            \/ \E w \in Worker : job[w].by = s /\ Unrecorded(w, a)
         THEN unmarked[a] + 1 ELSE unmarked[a]]
    /\ UNCHANGED <<hour, chan, row, removing, accepted, doubled>>

-----------------------------------------------------------------------------
Least(i, j) == IF i <= j THEN i ELSE j

Sending(w) == job[w].pc \in {"lookup", "send", "mark"}

\* A delivery that is not dead is over before it counts as dead: an attempt takes
\* SEND_TIMEOUT_MS and a few statements, a fraction of SENDING_STALE_MS.  No sweep sees
\* two midnights.
Advance ==
    /\ \A w \in Worker : Sending(w) => job[w].age + 1 < Stale
    /\ hour' = (hour + 1) % Day
    /\ hour' = 0 => \A s \in Sweeper : sweep[s].days = 0
    /\ chan' = IF hour' = 0 THEN [chan EXCEPT !.last = Least(@ + 1, 2)] ELSE chan
    /\ sweep' = [s \in Sweeper |-> IF hour' = 0 /\ sweep[s].pc # "idle"
                                   THEN [sweep[s] EXCEPT !.days = 1] ELSE sweep[s]]
    /\ row' = [a \in Alert |->
         LET r == row[a] IN
         CASE r.status = "failed" -> [r EXCEPT !.wait = IF @ > 0 THEN @ - 1 ELSE @]
           [] r.status = "pending" -> [r EXCEPT !.age = Least(@ + 1, PendingGrace)]
           [] r.status = "sending" -> [r EXCEPT !.busy = Least(@ + 1, Stale)]
           [] r.status = "sent" -> [r EXCEPT !.gone = Least(@ + 1, Hour)]
           [] OTHER -> r]
    /\ job' = [w \in Worker |-> IF Sending(w) THEN [job[w] EXCEPT !.age = @ + 1] ELSE job[w]]
    /\ UNCHANGED <<removing, count, accepted, unmarked, doubled>>

Work(w) == Route(w) \/ Cap(w) \/ Insert(w) \/ Claim(w) \/ Lookup(w) \/ Send(w) \/ Mark(w)

SweepStep(s) ==
    \/ SweepRetried(s) \/ SweepHeld(s) \/ SweepDigest(s)
    \/ SweepSend(s) \/ SweepMark(s) \/ SweepRecord(s)
    \/ \E w \in Worker : SweepDeliver(s, w)

Next ==
    \/ Advance
    \/ \E w \in Worker, a \in Alert : Raise(w, a) \/ Retry(w, a)
    \/ \E w \in Worker : Work(w) \/ Crash(w)
    \/ \E s \in Sweeper : SweepStart(s) \/ SweepStep(s) \/ SweepCrash(s)
    \/ UpdateChannel \/ RemoveChannel \/ AbandonChannel

Spec == Init /\ [][Next]_vars

-----------------------------------------------------------------------------
(* Safety.                                                                 *)

\* A raise, a sweep and a console retry never send one delivery at the same time: the
\* claim is one UPDATE.
OneSender ==
    \A v, w \in Worker :
        (v # w /\ job[v].pc = "send" /\ job[w].pc = "send") => job[v].id # job[w].id

\* An alert goes out again, as a message of its own, in a summary, in a digest or after a
\* retry, only where the engine never learned that a message was accepted, or where two
\* sweeps had it in hand at once: once more for each.
NoNeedlessRepeat == \A a \in Alert : accepted[a] <= 1 + unmarked[a] + doubled[a]

\* A delivery is attempted MAX_ATTEMPTS times; beyond that an invocation died, or the
\* console asked for more.
AttemptsBounded ==
    \A a \in Alert : row[a].attempts <= MaxAttempts + count.retries + count.faults

\* What went out stays recorded as gone out, unless the channel was removed: then a
\* retry can find the channel gone while the send it retries is still on its way.
SentStays ==
    [][\A a \in Alert :
         (row[a].status \in {"sent", "digested"} /\ row'[a].status # row[a].status)
             => ~chan.exists]_vars

\* What a row says of the delivery as a whole.
Recorded(r) == IF r.status \in Unfinished THEN "owed" ELSE r.status

Delivery == INSTANCE Outbox
                WITH open <- chan.exists, state <- [a \in Alert |-> Recorded(row[a])],
                     doubted <- unmarked

\* Raises, retries and sweeps that interleave implement the outbox: but for a batch that
\* two sweeps have in hand at once, nothing is handed to the service that is not owed or
\* whose acceptance someone has yet to record; nothing is recorded as sent that was not
\* accepted, and what is stays recorded.
ImplementsOutbox == Delivery!Spec

-----------------------------------------------------------------------------
(* Liveness.                                                               *)

\* The clock goes on, sweeps are started again and again, and a sweep or a worker that
\* does not die takes its next step.
Fairness ==
    /\ WF_vars(Advance) /\ WF_vars(AbandonChannel)
    /\ WF_vars(\E s \in Sweeper : SweepStart(s))
    /\ \A s \in Sweeper : WF_vars(SweepStep(s))
    /\ \A w \in Worker : WF_vars(Work(w))

FairSpec == Spec /\ Fairness

\* A delivery that is owed is sent or given up for good in the end, whichever step of
\* whichever invocation left it behind; nothing is retried for ever.
OwedIsSettled ==
    \A a \in Alert :
        row[a].status \in {"pending", "sending", "failed"}
            ~> row[a].status \in {"sent", "dead", "digested"}

-----------------------------------------------------------------------------
\* constants.ts:37 says of DEFAULT_MAX_PER_HOUR "Non-critical messages a channel sends
\* per rolling hour; the rest are held for one summary".
CapRespected ==
    Cardinality({a \in Alert : row[a].status = "sent" /\ ~row[a].critical /\ row[a].gone < Hour})
        <= MaxPerHour

\* The best a digest can hope for: a sweep is over before the clock moves, sweeps go on
\* starting while a digest is due, and the service takes a batch that goes out again and
\* again.
TimelySpec ==
    /\ Init /\ [][Next /\ (hour' # hour => \A s \in Sweeper : sweep[s].pc = "idle")]_vars
    /\ Fairness
    /\ \A s \in Sweeper : /\ SF_vars(SweepStart(s) /\ hour >= DigestHour /\ chan.last > 0)
                          /\ SF_vars(SweepSend(s) /\ sweep'[s].ok)

\* schema.ts:84 says of the waiting statuses "`held` waits for the channel's hourly cap,
\* `digest` for its daily digest; both end as `digested`".
DigestEnds == \A a \in Alert :
    (row[a].status = "digest" /\ chan.exists /\ chan.enabled)
        ~> (row[a].status = "digested" \/ ~chan.exists \/ ~chan.enabled)
=============================================================================
