--------------------------- MODULE QueueJobsProofs ---------------------------
(***************************************************************************)
(* The properties of run queue_jobs, for every set of callers, admins,     *)
(* keys and batches, and every number of attempts and deliveries.          *)
(*                                                                         *)
(* The inductive invariant has five parts: the dispatcher's (DispatchInv   *)
(* of QueueDispatchProofs), what each message's invocation has been        *)
(* through (WorkInv), where the dead letters are (LetterInv), how often a  *)
(* chain was sent (ChainInv) and how often a letter was retried (RedoInv). *)
(* That nothing is lost (SavedInv) needs one assumption more.              *)
(***************************************************************************)
EXTENDS QueueJobs, QueueDispatchProofs, FiniteSetTheorems

(* One invocation of a message, and those before it. *)
WorkOK(w) ==
    /\ w.pc = "wait" => w.tries < PlatformMax
    /\ w.pc \in {"wait", "before", "handler", "chain"} => w.verdict = "none"
    /\ w.pc \in {"after", "failed"} /\ w.verdict # "none" => w.own
    /\ w.pc \in {"wait", "before", "handler", "failed"} \/ w.verdict = "retry"
           => w.wins <= w.hurt
    /\ w.wins <= 1 + w.hurt
    /\ w.pc = "after" => w.wins > 0 \/ w.verdict = "retry"
    /\ w.pc = "chain" => w.wins > 0

WorkInv == \A i \in JobIds : /\ WorkOK(work[i])
                             /\ i \notin DOMAIN jobs => work[i] = Waiting

(* Only stored letters are retried, and removed after the send. *)
LetterInv ==
    /\ dlq \subseteq stored /\ stored \subseteq DOMAIN jobs
    /\ \A a \in Console :
         /\ console[a].pc # "idle" => console[a].entry \in stored
         /\ console[a].pc = "idle" => console[a].entry = 0
         /\ console[a].pc = "remove" => Redone(console[a].entry) # {}
    /\ LetterIsKept

(* A delivery that has not sent the message's chain yet, or is to be       *)
(* repeated without having sent it.                                        *)
Early(w) == w.pc \notin {"ended", "gone"} \/ (w.pc = "ended" /\ w.verdict = "retry")

(* A chain the processor has a queue for.                                  *)
Chained(p) == p # "none" /\ ChainGoes(p)

ChainInv ==
    \A i \in JobIds :
        /\ Cardinality(Children(i)) <= work[i].cut + 1
        /\ Early(work[i]) => Cardinality(Children(i)) <= work[i].cut
        /\ Children(i) # {} => work[i].wins > 0
        /\ i \in DOMAIN jobs /\ Chained(jobs[i].chain) /\ work[i].wins > 0
               /\ work[i].pc \notin {"after", "chain"}
               => Children(i) # {} \/ work[i].own \/ work[i].hurt > 0

(* An undisturbed letter has one retry at a time, and a job only from the  *)
(* one that is about to remove it.                                         *)
Calm(i) ==
    /\ \A a, b \in Console : console[a].entry = i /\ console[b].entry = i => a = b
    /\ \A a \in Console : console[a].pc = "send" /\ console[a].entry = i => Redone(i) = {}
    /\ i \in dlq /\ ~Held(i) => Redone(i) = {}
    /\ \A j, k \in Redone(i) : j = k

RedoInv == \A i \in JobIds : /\ i \notin stored => Redone(i) = {}
                             /\ i \in doubted \/ Calm(i)

IInv == /\ TypeOK /\ DispatchInv /\ Len(jobs) <= MaxJobs
        /\ WorkInv /\ LetterInv /\ ChainInv /\ RedoInv

(* What excuses a job that is no more. *)
Good(i) == \/ work[i].wins > 0 \/ work[i].own \/ ~jobs[i].known
           \/ i \in stored \/ work[i].hurt > 0
SavedInv == \A i \in DOMAIN jobs :
    /\ work[i].pc = "gone" => Good(i)
    /\ work[i].pc = "ended"
           => Good(i) \/ (work[i].verdict = "retry" /\ work[i].tries < MaxAttempts)

-----------------------------------------------------------------------------
(* One step of one message's invocation. *)

(* What it makes of the message ... *)
Moves(i, w) ==
    /\ i \in DOMAIN jobs /\ work' = [work EXCEPT ![i] = w] /\ w \in Work /\ WorkOK(w)
    /\ work[i].wins <= w.wins /\ work[i].hurt <= w.hurt
    /\ work[i].cut <= w.cut /\ (work[i].own => w.own)
    /\ Early(w) => Early(work[i]) \/ work[i].cut + 1 <= w.cut
    /\ w.pc \notin {"after", "chain"} /\ w.wins > 0
           => \/ work[i].pc \notin {"after", "chain"} /\ work[i].wins > 0
              \/ w.own \/ w.hurt > 0 \/ ~Chained(jobs[i].chain) \/ jobs' = Append(jobs, Child(i))
    /\ w.pc = "ended"
           => \/ w.wins > 0 \/ w.own \/ ~jobs[i].known \/ i \in stored' \/ w.hurt > 0
              \/ w.verdict = "retry" /\ w.tries < MaxAttempts
    /\ w.pc = "gone"
           => \/ w.hurt > 0
              \/ work[i].pc = "ended" /\ (work[i].verdict = "retry" => work[i].tries >= PlatformMax)

(* ... and of all the rest. *)
Leaves(i, w) ==
    /\ UNCHANGED <<seen, window, caller, skips, unsent, raced, calls, admin, console, purged>>
    /\ faults' \in 0 .. MaxFaults
    /\ \/ UNCHANGED jobs
       \/ /\ jobs' = Append(jobs, Child(i)) /\ Len(jobs) < MaxJobs
          /\ work[i].pc = "chain" /\ ~Early(w)
    /\ \/ UNCHANGED <<dlq, stored, doubted>>
       \/ /\ dlq' = dlq \cup {i} /\ stored' = stored \cup {i}
          /\ doubted' = IF i \in stored THEN doubted \cup {i} ELSE doubted

LEMMA WorkFacts ==
    ASSUME IInv, NEW i \in JobIds
    PROVE  /\ work \in [JobIds -> Work] /\ work[i] \in Work /\ WorkOK(work[i])
           /\ work[i].pc # "wait" => i \in DOMAIN jobs
           /\ i \in DOMAIN jobs => jobs[i] \in Job
           /\ faults \in 0 .. MaxFaults /\ MaxFaults \in Nat
           /\ MaxAttempts \in Nat \ {0} /\ PlatformMax \in Nat \ {0}
<1>1. i \in DOMAIN jobs => jobs[i] \in Job
  BY JobTypes DEF IInv, DispatchInv
<1>2. QED BY <1>1, AttemptsAssumption, DispatchBounds
          DEF IInv, TypeOK, DispatchTypeOK, WorkInv, Waiting

LEMMA EndFacts ==
    ASSUME NEW w \in Work, NEW v \in {"ack", "retry"}
    PROVE  /\ End(w, v) \in Work /\ End(w, v).pc = "ended" /\ End(w, v).tries = w.tries
           /\ End(w, v).verdict = (IF w.verdict = "none" THEN v ELSE w.verdict)
           /\ End(w, v).wins = w.wins /\ End(w, v).hurt = w.hurt
           /\ End(w, v).cut = w.cut /\ End(w, v).own = w.own
<1> DEFINE u == Settled(w, v)
<1>1. u \in Verdict /\ u = (IF w.verdict = "none" THEN v ELSE w.verdict)
  BY DEF Settled, Work, Verdict
<1>2. End(w, v) = [w EXCEPT !.pc = "ended", !.verdict = u]
  BY DEF End
<1> HIDE DEF u
<1>3. QED BY <1>1, <1>2 DEF Work

LEMMA GoneFacts ==
    ASSUME NEW v \in Work, PlatformMax \in Nat
    PROVE  /\ Gone(v) \in Work /\ Gone(v).own = v.own /\ Gone(v).wins = v.wins
           /\ Gone(v).hurt = v.hurt /\ Gone(v).cut = v.cut /\ Gone(v).verdict = "none"
           /\ Gone(v).pc = "gone"
<1>1. PICK z : z = 0
  OBVIOUS
<1>2. z \in 0 .. PlatformMax
  BY <1>1
<1>3. Gone(v) = [v EXCEPT !.pc = "gone", !.tries = z, !.verdict = "none"]
  BY <1>1 DEF Gone
<1>4. QED BY <1>2, <1>3 DEF Work, Verdict

LEMMA AgainFacts ==
    ASSUME NEW v \in Work, PlatformMax \in Nat
    PROVE  /\ Again(v) \in Work /\ Again(v).own = v.own /\ Again(v).wins = v.wins
           /\ Again(v).hurt = v.hurt /\ Again(v).cut = v.cut /\ Again(v).verdict = "none"
           /\ \/ Again(v).pc = "wait" /\ Again(v).tries < PlatformMax
              \/ Again(v).pc = "gone" /\ v.tries >= PlatformMax
<1>1. CASE v.tries < PlatformMax
  BY <1>1 DEF Again, Work, Verdict
<1>2. CASE ~(v.tries < PlatformMax)
  <2>1. Again(v) = Gone(v) /\ v.tries >= PlatformMax
    BY <1>2 DEF Again, Work
  <2>2. QED BY <2>1, GoneFacts
<1>3. QED BY <1>1, <1>2

(* A failed attempt. *)
LEMMA CaughtFacts ==
    ASSUME NEW w \in Work, MaxAttempts \in Nat \ {0}, w.wins <= w.hurt,
           w.verdict # "none" => w.own
    PROVE  /\ Caught(w) \in Work /\ WorkOK(Caught(w)) /\ Caught(w).pc \in {"failed", "ended"}
           /\ Caught(w).wins = w.wins /\ Caught(w).hurt = w.hurt /\ Caught(w).cut = w.cut
           /\ Caught(w).own = w.own
           /\ Caught(w).pc = "ended"
                => w.own \/ (Caught(w).verdict = "retry" /\ Caught(w).tries < MaxAttempts)
<1>1. CASE w.tries >= MaxAttempts
  BY <1>1 DEF Caught, WorkOK, Work
<1>2. CASE ~(w.tries >= MaxAttempts)
  <2>1. Caught(w) = End(w, "retry")
    BY <1>2 DEF Caught
  <2>2. w.tries \in Nat /\ w.tries < MaxAttempts
    BY <1>2 DEF Work
  <2> DEFINE e == End(w, "retry")
  <2>3. /\ e \in Work /\ e.pc = "ended" /\ e.tries = w.tries /\ e.wins = w.wins
        /\ e.hurt = w.hurt /\ e.cut = w.cut /\ e.own = w.own
        /\ e.verdict = (IF w.verdict = "none" THEN "retry" ELSE w.verdict)
    BY EndFacts
  <2> HIDE DEF e
  <2>4. WorkOK(e)
    BY <2>3 DEF WorkOK, Work
  <2>5. e.own \/ (e.verdict = "retry" /\ e.tries < MaxAttempts)
    BY <2>2, <2>3
  <2>6. Caught(w) = e
    BY <2>1 DEF e
  <2>7. QED BY <2>3, <2>4, <2>5, <2>6
<1>3. QED BY <1>1, <1>2

LEMMA QuietLeaves ==
    ASSUME IInv, NEW i \in JobIds, OnlyWork, Fault \/ NoFault, NEW w
    PROVE  Leaves(i, w)
<1>1. faults' \in 0 .. MaxFaults
  BY WorkFacts DEF Fault, NoFault
<1>2. QED BY <1>1 DEF Leaves, OnlyWork

LEMMA DeliverMoves ==
    ASSUME IInv, NEW i \in JobIds, Deliver(i)
    PROVE  \E w : Moves(i, w) /\ Leaves(i, w)
<1> DEFINE v == [work[i] EXCEPT !.tries = @ + 1]
           w == IF jobs[i].known THEN [v EXCEPT !.pc = "before"] ELSE End(v, "ack")
<1>1. /\ work[i] \in Work /\ work[i].pc = "wait" /\ WorkOK(work[i]) /\ i \in DOMAIN jobs
      /\ work' = [work EXCEPT ![i] = w] /\ OnlyWork /\ NoFault
  BY WorkFacts DEF Deliver, Step
<1>2. /\ v \in Work /\ v.pc = "wait" /\ v.verdict = "none" /\ v.own = work[i].own
      /\ v.wins = work[i].wins /\ v.hurt = work[i].hurt /\ v.cut = work[i].cut
  BY <1>1, AttemptsAssumption DEF Work, WorkOK
<1> HIDE DEF v
<1>3. /\ w \in Work /\ w.own = v.own /\ w.wins = v.wins /\ w.hurt = v.hurt /\ w.cut = v.cut
      /\ \/ jobs[i].known /\ w.pc = "before" /\ w.verdict = "none"
         \/ ~jobs[i].known /\ w.pc = "ended" /\ w.verdict = "ack"
  <2>1. CASE jobs[i].known
    BY <1>2, <2>1 DEF Work
  <2>2. CASE ~jobs[i].known
    BY <1>2, <2>2, EndFacts
  <2>3. QED BY <2>1, <2>2
<1> HIDE DEF w
<1>4. Moves(i, w)
  BY <1>1, <1>2, <1>3 DEF Moves, WorkOK, Work, Early
<1>5. QED BY <1>1, <1>4, QuietLeaves

LEMMA BeforeReturnsMoves ==
    ASSUME IInv, NEW i \in JobIds, BeforeReturns(i)
    PROVE  \E w : Moves(i, w) /\ Leaves(i, w)
<1> DEFINE v == work[i]
           w == [v EXCEPT !.pc = "handler"]
<1>1. /\ work[i] \in Work /\ work[i].pc = "before" /\ WorkOK(work[i]) /\ i \in DOMAIN jobs
      /\ work' = [work EXCEPT ![i] = w]
  BY WorkFacts DEF BeforeReturns, Step
<1>2. v \in Work /\ v.own = work[i].own /\ v.wins = work[i].wins
      /\ v.cut = work[i].cut /\ v.verdict = work[i].verdict /\ v.tries = work[i].tries /\ v.hurt = work[i].hurt
  BY <1>1 DEF Work, WorkOK, Verdict
<1> HIDE DEF v
<1>3. w \in Work /\ w.own = v.own /\ w.wins = v.wins /\ w.hurt = v.hurt /\ w.cut = v.cut
      /\ w.pc = "handler" /\ w.verdict = v.verdict
  BY <1>2 DEF Work
<1> HIDE DEF w
<1>4. Moves(i, w)
  BY <1>1, <1>2, <1>3 DEF Moves, WorkOK, Work, Early
<1>5. Leaves(i, w)
  BY QuietLeaves DEF BeforeReturns
<1>6. QED BY <1>4, <1>5

LEMMA BeforeThrowsMoves ==
    ASSUME IInv, NEW i \in JobIds, BeforeThrows(i)
    PROVE  \E w : Moves(i, w) /\ Leaves(i, w)
<1> DEFINE v == [work[i] EXCEPT !.hurt = @ + 1]
           w == Caught(v)
<1>1. /\ work[i] \in Work /\ work[i].pc = "before" /\ WorkOK(work[i]) /\ i \in DOMAIN jobs
      /\ work' = [work EXCEPT ![i] = w]
  BY WorkFacts DEF BeforeThrows, Step
<1>2. v \in Work /\ v.own = work[i].own /\ v.wins = work[i].wins
      /\ v.cut = work[i].cut /\ v.verdict = work[i].verdict /\ v.tries = work[i].tries
      /\ v.hurt = work[i].hurt + 1
  BY <1>1 DEF Work, WorkOK, Verdict
<1> HIDE DEF v
<1>3. /\ w \in Work /\ WorkOK(w) /\ w.pc \in {"failed", "ended"}
      /\ w.wins = v.wins /\ w.hurt = v.hurt /\ w.cut = v.cut /\ w.own = v.own
      /\ w.pc = "ended" => w.own \/ (w.verdict = "retry" /\ w.tries < MaxAttempts)
  BY <1>1, <1>2, CaughtFacts, WorkFacts DEF WorkOK, Work
<1> HIDE DEF w
<1>4. Moves(i, w)
  BY <1>1, <1>2, <1>3 DEF Moves, WorkOK, Work, Early
<1>5. Leaves(i, w)
  BY QuietLeaves DEF BeforeThrows
<1>6. QED BY <1>4, <1>5

LEMMA HandlerReturnsMoves ==
    ASSUME IInv, NEW i \in JobIds, NEW u \in Verdict, HandlerReturns(i, u)
    PROVE  \E w : Moves(i, w) /\ Leaves(i, w)
<1> DEFINE o == work[i].own \/ u # "none"
           n == IF u = "retry" THEN work[i].wins ELSE work[i].wins + 1
           v == [work[i] EXCEPT !.verdict = u, !.own = o, !.wins = n]
           w == [v EXCEPT !.pc = "after"]
<1>1. /\ work[i] \in Work /\ work[i].pc = "handler" /\ WorkOK(work[i]) /\ i \in DOMAIN jobs
      /\ work' = [work EXCEPT ![i] = w]
  BY WorkFacts DEF HandlerReturns, Step
<1>2. /\ v \in Work /\ v.hurt = work[i].hurt /\ v.cut = work[i].cut /\ v.verdict = u
      /\ v.pc = "handler" /\ v.wins = n /\ (work[i].own => v.own) /\ (u # "none" => v.own)
  <2>1. n \in Nat /\ o \in BOOLEAN /\ (work[i].own => o) /\ (u # "none" => o)
    BY <1>1 DEF Work
  <2> HIDE DEF n, o
  <2>2. QED BY <1>1, <2>1 DEF Work
<1> HIDE DEF v
<1>3. w \in Work /\ w.own = v.own /\ w.wins = v.wins /\ w.hurt = v.hurt /\ w.cut = v.cut
      /\ w.pc = "after" /\ w.verdict = u
  BY <1>2 DEF Work
<1> HIDE DEF w
<1>4. Moves(i, w)
  BY <1>1, <1>2, <1>3 DEF Moves, WorkOK, Work, Early
<1>5. Leaves(i, w)
  BY QuietLeaves DEF HandlerReturns
<1>6. QED BY <1>4, <1>5

LEMMA HandlerThrowsMoves ==
    ASSUME IInv, NEW i \in JobIds, NEW u \in Verdict, HandlerThrows(i, u)
    PROVE  \E w : Moves(i, w) /\ Leaves(i, w)
<1> DEFINE v == [work[i] EXCEPT !.verdict = u, !.own = @ \/ u # "none"]
           w == Caught(v)
<1>1. /\ work[i] \in Work /\ work[i].pc = "handler" /\ WorkOK(work[i]) /\ i \in DOMAIN jobs
      /\ work' = [work EXCEPT ![i] = w]
  BY WorkFacts DEF HandlerThrows, Step
<1>2. v \in Work /\ v.hurt = work[i].hurt /\ v.cut = work[i].cut /\ v.verdict = u /\ v.wins = work[i].wins
      /\ (work[i].own => v.own) /\ (u # "none" => v.own)
  BY <1>1 DEF Work, WorkOK, Verdict
<1> HIDE DEF v
<1>3. /\ w \in Work /\ WorkOK(w) /\ w.pc \in {"failed", "ended"}
      /\ w.wins = v.wins /\ w.hurt = v.hurt /\ w.cut = v.cut /\ w.own = v.own
      /\ w.pc = "ended" => w.own \/ (w.verdict = "retry" /\ w.tries < MaxAttempts)
  BY <1>1, <1>2, CaughtFacts, WorkFacts DEF WorkOK, Work
<1> HIDE DEF w
<1>4. Moves(i, w)
  BY <1>1, <1>2, <1>3 DEF Moves, WorkOK, Work, Early
<1>5. Leaves(i, w)
  BY QuietLeaves DEF HandlerThrows
<1>6. QED BY <1>4, <1>5

LEMMA AfterReturnsMoves ==
    ASSUME IInv, NEW i \in JobIds, AfterReturns(i)
    PROVE  \E w : Moves(i, w) /\ Leaves(i, w)
<1> DEFINE v == work[i]
           w == IF v.verdict = "none" /\ jobs[i].chain # "none" THEN [v EXCEPT !.pc = "chain"]
                ELSE End(v, "ack")
<1>1. /\ work[i] \in Work /\ work[i].pc = "after" /\ WorkOK(work[i]) /\ i \in DOMAIN jobs
      /\ work' = [work EXCEPT ![i] = w]
  BY WorkFacts DEF AfterReturns, Step
<1>2. v \in Work /\ v.own = work[i].own /\ v.wins = work[i].wins
      /\ v.cut = work[i].cut /\ v.verdict = work[i].verdict /\ v.tries = work[i].tries /\ v.hurt = work[i].hurt
  BY <1>1 DEF Work, WorkOK, Verdict
<1> HIDE DEF v
<1>3. w \in Work /\ w.own = v.own /\ w.wins = v.wins /\ w.hurt = v.hurt /\ w.cut = v.cut
      /\ \/ w.pc = "chain" /\ w.verdict = "none" /\ v.verdict = "none"
         \/ /\ w.pc = "ended" /\ (v.verdict # "none" \/ jobs[i].chain = "none")
            /\ w.verdict = (IF v.verdict = "none" THEN "ack" ELSE v.verdict)
  <2>1. CASE v.verdict = "none" /\ jobs[i].chain # "none"
    BY <1>2, <2>1 DEF Work
  <2>2. CASE ~(v.verdict = "none" /\ jobs[i].chain # "none")
    BY <1>2, <2>2, EndFacts
  <2>3. QED BY <2>1, <2>2
<1> HIDE DEF w
<1>4. Moves(i, w)
  BY <1>1, <1>2, <1>3 DEF Moves, WorkOK, Work, Early, Chained
<1>5. Leaves(i, w)
  BY QuietLeaves DEF AfterReturns
<1>6. QED BY <1>4, <1>5

LEMMA AfterThrowsMoves ==
    ASSUME IInv, NEW i \in JobIds, AfterThrows(i)
    PROVE  \E w : Moves(i, w) /\ Leaves(i, w)
<1> DEFINE v == [work[i] EXCEPT !.hurt = @ + 1]
           w == Caught(v)
<1>1. /\ work[i] \in Work /\ work[i].pc = "after" /\ WorkOK(work[i]) /\ i \in DOMAIN jobs
      /\ work' = [work EXCEPT ![i] = w]
  BY WorkFacts DEF AfterThrows, Step
<1>2. v \in Work /\ v.own = work[i].own /\ v.wins = work[i].wins
      /\ v.cut = work[i].cut /\ v.verdict = work[i].verdict /\ v.tries = work[i].tries
      /\ v.hurt = work[i].hurt + 1
  BY <1>1 DEF Work, WorkOK, Verdict
<1> HIDE DEF v
<1>3. /\ w \in Work /\ WorkOK(w) /\ w.pc \in {"failed", "ended"}
      /\ w.wins = v.wins /\ w.hurt = v.hurt /\ w.cut = v.cut /\ w.own = v.own
      /\ w.pc = "ended" => w.own \/ (w.verdict = "retry" /\ w.tries < MaxAttempts)
  BY <1>1, <1>2, CaughtFacts, WorkFacts DEF WorkOK, Work
<1> HIDE DEF w
<1>4. Moves(i, w)
  BY <1>1, <1>2, <1>3 DEF Moves, WorkOK, Work, Early
<1>5. Leaves(i, w)
  BY QuietLeaves DEF AfterThrows
<1>6. QED BY <1>4, <1>5

LEMMA SendChainMoves ==
    ASSUME IInv, NEW i \in JobIds, SendChain(i)
    PROVE  \E w : Moves(i, w) /\ Leaves(i, w)
<1> DEFINE v == work[i]
           w == End(v, "ack")
<1>1. /\ work[i] \in Work /\ work[i].pc = "chain" /\ jobs' = Append(jobs, Child(i)) /\ WorkOK(work[i]) /\ i \in DOMAIN jobs
      /\ work' = [work EXCEPT ![i] = w]
  BY WorkFacts DEF SendChain, Step
<1>2. v \in Work /\ v.own = work[i].own /\ v.wins = work[i].wins
      /\ v.cut = work[i].cut /\ v.verdict = work[i].verdict /\ v.tries = work[i].tries /\ v.hurt = work[i].hurt
  BY <1>1 DEF Work, WorkOK, Verdict
<1> HIDE DEF v
<1>3. w \in Work /\ w.own = v.own /\ w.wins = v.wins /\ w.hurt = v.hurt /\ w.cut = v.cut
      /\ w.pc = "ended" /\ w.verdict = (IF v.verdict = "none" THEN "ack" ELSE v.verdict)
  BY <1>2, EndFacts
<1> HIDE DEF w
<1>4. Moves(i, w)
  BY <1>1, <1>2, <1>3 DEF Moves, WorkOK, Work, Early
<1>5. Leaves(i, w)
  BY <1>1, <1>2, <1>3, WorkFacts DEF SendChain, Leaves, NoFault, Early, WorkOK
<1>6. QED BY <1>4, <1>5

LEMMA SkipChainMoves ==
    ASSUME IInv, NEW i \in JobIds, SkipChain(i)
    PROVE  \E w : Moves(i, w) /\ Leaves(i, w)
<1> DEFINE v == work[i]
           w == End(v, "ack")
<1>1. /\ work[i] \in Work /\ work[i].pc = "chain" /\ WorkOK(work[i]) /\ i \in DOMAIN jobs
      /\ work' = [work EXCEPT ![i] = w] /\ ~Chained(jobs[i].chain)
  BY WorkFacts DEF SkipChain, Step, Chained
<1>2. v \in Work /\ v.own = work[i].own /\ v.wins = work[i].wins
      /\ v.cut = work[i].cut /\ v.verdict = work[i].verdict /\ v.tries = work[i].tries /\ v.hurt = work[i].hurt
  BY <1>1 DEF Work, WorkOK, Verdict
<1> HIDE DEF v
<1>3. w \in Work /\ w.own = v.own /\ w.wins = v.wins /\ w.hurt = v.hurt /\ w.cut = v.cut
      /\ w.pc = "ended" /\ w.verdict = (IF v.verdict = "none" THEN "ack" ELSE v.verdict)
  BY <1>2, EndFacts
<1> HIDE DEF w
<1>4. Moves(i, w)
  BY <1>1, <1>2, <1>3 DEF Moves, WorkOK, Work, Early
<1>5. Leaves(i, w)
  BY QuietLeaves DEF SkipChain
<1>6. QED BY <1>4, <1>5

LEMMA ChainLostMoves ==
    ASSUME IInv, NEW i \in JobIds, ChainLost(i)
    PROVE  \E w : Moves(i, w) /\ Leaves(i, w)
<1> DEFINE v == [work[i] EXCEPT !.hurt = @ + 1]
           w == End(v, "ack")
<1>1. /\ work[i] \in Work /\ work[i].pc = "chain" /\ WorkOK(work[i]) /\ i \in DOMAIN jobs
      /\ work' = [work EXCEPT ![i] = w]
  BY WorkFacts DEF ChainLost, Step
<1>2. v \in Work /\ v.own = work[i].own /\ v.wins = work[i].wins
      /\ v.cut = work[i].cut /\ v.verdict = work[i].verdict /\ v.tries = work[i].tries
      /\ v.hurt = work[i].hurt + 1
  BY <1>1 DEF Work, WorkOK, Verdict
<1> HIDE DEF v
<1>3. w \in Work /\ w.own = v.own /\ w.wins = v.wins /\ w.hurt = v.hurt /\ w.cut = v.cut
      /\ w.pc = "ended" /\ w.verdict = (IF v.verdict = "none" THEN "ack" ELSE v.verdict)
  BY <1>2, EndFacts
<1> HIDE DEF w
<1>4. Moves(i, w)
  BY <1>1, <1>2, <1>3 DEF Moves, WorkOK, Work, Early
<1>5. Leaves(i, w)
  BY QuietLeaves DEF ChainLost
<1>6. QED BY <1>4, <1>5

LEMMA KeepLetterMoves ==
    ASSUME IInv, NEW i \in JobIds, KeepLetter(i)
    PROVE  \E w : Moves(i, w) /\ Leaves(i, w)
<1> DEFINE v == work[i]
           w == End(v, "ack")
<1>1. /\ work[i] \in Work /\ work[i].pc = "failed" /\ WorkOK(work[i]) /\ i \in DOMAIN jobs
      /\ work' = [work EXCEPT ![i] = w]
  BY WorkFacts DEF KeepLetter, Step
<1>2. v \in Work /\ v.own = work[i].own /\ v.wins = work[i].wins
      /\ v.cut = work[i].cut /\ v.verdict = work[i].verdict /\ v.tries = work[i].tries /\ v.hurt = work[i].hurt
  BY <1>1 DEF Work, WorkOK, Verdict
<1> HIDE DEF v
<1>3. w \in Work /\ w.own = v.own /\ w.wins = v.wins /\ w.hurt = v.hurt /\ w.cut = v.cut
      /\ w.pc = "ended" /\ w.verdict = (IF v.verdict = "none" THEN "ack" ELSE v.verdict)
      /\ i \in stored'
  BY <1>2, EndFacts DEF KeepLetter
<1> HIDE DEF w
<1>4. Moves(i, w)
  BY <1>1, <1>2, <1>3 DEF Moves, WorkOK, Work, Early
<1>5. Leaves(i, w)
  BY WorkFacts DEF KeepLetter, Leaves, NoFault
<1>6. QED BY <1>4, <1>5

LEMMA LetterLostMoves ==
    ASSUME IInv, NEW i \in JobIds, LetterLost(i)
    PROVE  \E w : Moves(i, w) /\ Leaves(i, w)
<1> DEFINE v == [work[i] EXCEPT !.hurt = @ + 1]
           w == End(v, "ack")
<1>1. /\ work[i] \in Work /\ work[i].pc = "failed" /\ WorkOK(work[i]) /\ i \in DOMAIN jobs
      /\ work' = [work EXCEPT ![i] = w]
  BY WorkFacts DEF LetterLost, Step
<1>2. v \in Work /\ v.own = work[i].own /\ v.wins = work[i].wins
      /\ v.cut = work[i].cut /\ v.verdict = work[i].verdict /\ v.tries = work[i].tries
      /\ v.hurt = work[i].hurt + 1
  BY <1>1 DEF Work, WorkOK, Verdict
<1> HIDE DEF v
<1>3. w \in Work /\ w.own = v.own /\ w.wins = v.wins /\ w.hurt = v.hurt /\ w.cut = v.cut
      /\ w.pc = "ended" /\ w.verdict = (IF v.verdict = "none" THEN "ack" ELSE v.verdict)
  BY <1>2, EndFacts
<1> HIDE DEF w
<1>4. Moves(i, w)
  BY <1>1, <1>2, <1>3 DEF Moves, WorkOK, Work, Early
<1>5. Leaves(i, w)
  BY QuietLeaves DEF LetterLost
<1>6. QED BY <1>4, <1>5

LEMMA HookThrowsMoves ==
    ASSUME IInv, NEW i \in JobIds, HookThrows(i)
    PROVE  \E w : Moves(i, w) /\ Leaves(i, w)
<1> DEFINE v == work[i]
           n == v.hurt + 1
           w == [v EXCEPT !.pc = "ended", !.hurt = n]
<1>1. /\ work[i] \in Work /\ work[i].pc = "failed" /\ WorkOK(work[i]) /\ i \in DOMAIN jobs
      /\ work' = [work EXCEPT ![i] = w]
  BY WorkFacts DEF HookThrows, Step
<1>2. v \in Work /\ v.own = work[i].own /\ v.wins = work[i].wins
      /\ v.cut = work[i].cut /\ v.verdict = work[i].verdict /\ v.tries = work[i].tries /\ v.hurt = work[i].hurt
  BY <1>1
<1> HIDE DEF v
<1>3. /\ w \in Work /\ w.own = v.own /\ w.wins = v.wins /\ w.hurt = v.hurt + 1
      /\ w.cut = v.cut /\ w.verdict = v.verdict /\ w.pc = "ended"
  <2>1. n \in Nat
    BY <1>2 DEF Work
  <2> HIDE DEF n
  <2>2. w \in Work /\ w.hurt = n
    BY <1>2, <2>1 DEF Work
  <2>3. QED BY <1>2, <2>2 DEF Work, n
<1> HIDE DEF w
<1>4. Moves(i, w)
  BY <1>1, <1>2, <1>3 DEF Moves, WorkOK, Work, Early
<1>5. Leaves(i, w)
  BY QuietLeaves DEF HookThrows
<1>6. QED BY <1>4, <1>5

LEMMA EndInvocationMoves ==
    ASSUME IInv, NEW i \in JobIds, EndInvocation(i)
    PROVE  \E w : Moves(i, w) /\ Leaves(i, w)
<1> DEFINE v == work[i]
           w == IF v.verdict = "retry" THEN Again(v) ELSE Gone(v)
<1>1. /\ work[i] \in Work /\ work[i].pc = "ended" /\ WorkOK(work[i]) /\ i \in DOMAIN jobs
      /\ work' = [work EXCEPT ![i] = w]
  BY WorkFacts DEF EndInvocation, Step
<1>2. v \in Work /\ v.own = work[i].own /\ v.wins = work[i].wins
      /\ v.cut = work[i].cut /\ v.verdict = work[i].verdict /\ v.tries = work[i].tries /\ v.hurt = work[i].hurt
  BY <1>1 DEF Work, WorkOK, Verdict
<1> HIDE DEF v
<1>3. /\ w \in Work /\ w.own = v.own /\ w.wins = v.wins /\ w.hurt = v.hurt
      /\ w.cut = v.cut /\ w.verdict = "none"
      /\ \/ w.pc = "wait" /\ w.tries < PlatformMax /\ v.verdict = "retry"
         \/ w.pc = "gone" /\ (v.verdict = "retry" => v.tries >= PlatformMax)
  <2>1. CASE v.verdict = "retry"
    BY <1>2, <2>1, AgainFacts, AttemptsAssumption
  <2>2. CASE v.verdict # "retry"
    BY <1>2, <2>2, GoneFacts, AttemptsAssumption
  <2>3. QED BY <2>1, <2>2
<1> HIDE DEF w
<1>4. Moves(i, w)
  BY <1>1, <1>2, <1>3 DEF Moves, WorkOK, Work, Early
<1>5. Leaves(i, w)
  BY QuietLeaves DEF EndInvocation
<1>6. QED BY <1>4, <1>5

LEMMA CrashMoves ==
    ASSUME IInv, NEW i \in JobIds, Crash(i)
    PROVE  \E w : Moves(i, w) /\ Leaves(i, w)
<1> DEFINE n == IF work[i].pc = "ended" THEN work[i].cut + 1 ELSE work[i].cut
           h == work[i].hurt + 1
           v == [work[i] EXCEPT !.hurt = h, !.cut = n]
           w == Again(v)
<1>1. /\ work[i] \in Work /\ work[i].pc \notin {"wait", "gone"} /\ WorkOK(work[i]) /\ i \in DOMAIN jobs
      /\ work' = [work EXCEPT ![i] = w]
  BY WorkFacts DEF Crash, Step
<1>2. v \in Work /\ v.hurt = h /\ v.own = work[i].own /\ v.wins = work[i].wins
      /\ v.cut = n
  <2>1. n \in Nat /\ h \in Nat
    BY <1>1 DEF Work
  <2> HIDE DEF n, h
  <2>2. QED BY <1>1, <2>1 DEF Work
<1> HIDE DEF v
<1>3. /\ w \in Work /\ w.own = v.own /\ w.wins = v.wins /\ w.hurt = v.hurt
      /\ w.cut = v.cut /\ w.verdict = "none"
      /\ (w.pc = "wait" /\ w.tries < PlatformMax) \/ w.pc = "gone"
  BY <1>2, AgainFacts, AttemptsAssumption
<1> HIDE DEF w
<1>4. Moves(i, w)
  BY <1>1, <1>2, <1>3, SMTT(30) DEF Moves, WorkOK, Work, Early
<1>5. Leaves(i, w)
  BY QuietLeaves DEF Crash
<1>6. QED BY <1>4, <1>5

LEMMA ConsumeMoves ==
    ASSUME IInv, NEW i \in JobIds, Consume(i)
    PROVE  \E w : Moves(i, w) /\ Leaves(i, w)
BY DeliverMoves, BeforeReturnsMoves, BeforeThrowsMoves, HandlerReturnsMoves,
   HandlerThrowsMoves, AfterReturnsMoves, AfterThrowsMoves, SendChainMoves, SkipChainMoves,
   ChainLostMoves, KeepLetterMoves, LetterLostMoves, HookThrowsMoves, EndInvocationMoves, CrashMoves
   DEF Consume

-----------------------------------------------------------------------------
(* What the queues accept: children, redone jobs, and dispatched ones that *)
(* are neither.                                                            *)

Grew == /\ jobs' \in Seq(Job) /\ DOMAIN jobs \subseteq DOMAIN jobs'
        /\ \A i \in DOMAIN jobs : jobs'[i] = jobs[i]

LEMMA JobsFacts ==
    ASSUME IInv
    PROVE  /\ jobs \in Seq(Job) /\ Len(jobs) \in Nat /\ DOMAIN jobs = 1 .. Len(jobs)
           /\ DOMAIN jobs \subseteq JobIds /\ MaxJobs \in Nat
           /\ \A i \in DOMAIN jobs : jobs[i] \in Job
<1>1. jobs \in Seq(Job) /\ Len(jobs) <= MaxJobs
  BY DEF IInv, DispatchInv, DispatchTypeOK
<1>2. Len(jobs) \in Nat /\ DOMAIN jobs = 1 .. Len(jobs)
  BY <1>1, LenProperties
<1>3. QED BY <1>1, <1>2, JobTypes, AttemptsAssumption DEF JobIds, IInv, DispatchInv

LEMMA OneMore ==
    ASSUME IInv, NEW x \in Job, jobs' = Append(jobs, x)
    PROVE  /\ Grew /\ Len(jobs') = Len(jobs) + 1
           /\ DOMAIN jobs' = DOMAIN jobs \cup {Len(jobs) + 1}
           /\ Len(jobs) + 1 \notin DOMAIN jobs /\ jobs'[Len(jobs) + 1] = x
<1>1. /\ jobs \in Seq(Job) /\ Len(jobs) \in Nat /\ DOMAIN jobs = 1 .. Len(jobs)
  BY JobsFacts
<1>2. /\ jobs' \in Seq(Job) /\ Len(jobs') = Len(jobs) + 1
      /\ \A i \in 1 .. Len(jobs) : jobs'[i] = jobs[i]
      /\ jobs'[Len(jobs) + 1] = x
  BY <1>1, AppendProperties
<1>3. DOMAIN jobs' = 1 .. Len(jobs) + 1
  BY <1>2, LenProperties
<1>4. QED BY <1>1, <1>2, <1>3 DEF Grew

LEMMA ChildJob ==
    ASSUME IInv, NEW i \in DOMAIN jobs, jobs' = Append(jobs, Child(i))
    PROVE  /\ Child(i) \in Job /\ Child(i).key = NoKey
           /\ Grew /\ Len(jobs') = Len(jobs) + 1
           /\ Children(i)' = Children(i) \cup {Len(jobs) + 1} /\ Len(jobs) + 1 \notin Children(i)
           /\ \A k \in JobIds : /\ k # i => Children(k)' = Children(k)
                                /\ Redone(k)' = Redone(k)
<1>1. i \in Nat /\ jobs[i] \in Job
  BY JobsFacts
<1>2. Child(i) \in Job /\ Child(i).key = NoKey /\ Child(i).parent = i /\ Child(i).redoes = 0
  BY <1>1 DEF Child, Job, Chain
<1>3. PICK x \in Job : x = Child(i)
  BY <1>2
<1>4. /\ Grew /\ Len(jobs') = Len(jobs) + 1
      /\ DOMAIN jobs' = DOMAIN jobs \cup {Len(jobs) + 1}
      /\ Len(jobs) + 1 \notin DOMAIN jobs /\ jobs'[Len(jobs) + 1] = x
  BY <1>3, OneMore
<1>5. \A k \in JobIds : k # 0
  BY DEF JobIds
<1>6. QED BY <1>2, <1>3, <1>4, <1>5 DEF Children, Redone, Grew

LEMMA RedoneJob ==
    ASSUME IInv, NEW i \in DOMAIN jobs, jobs' = Append(jobs, Redo(i))
    PROVE  /\ Redo(i) \in Job /\ Redo(i).key = NoKey
           /\ Grew /\ Len(jobs') = Len(jobs) + 1
           /\ Redone(i)' = Redone(i) \cup {Len(jobs) + 1}
           /\ \A k \in JobIds : /\ Children(k)' = Children(k)
                                /\ k # i => Redone(k)' = Redone(k)
<1>1. i \in Nat /\ jobs[i] \in Job
  BY JobsFacts
<1>2. Redo(i) \in Job /\ Redo(i).key = NoKey /\ Redo(i).parent = 0 /\ Redo(i).redoes = i
  BY <1>1 DEF Redo, Job, Chain
<1>3. PICK x \in Job : x = Redo(i)
  BY <1>2
<1>4. /\ Grew /\ Len(jobs') = Len(jobs) + 1
      /\ DOMAIN jobs' = DOMAIN jobs \cup {Len(jobs) + 1}
      /\ Len(jobs) + 1 \notin DOMAIN jobs /\ jobs'[Len(jobs) + 1] = x
  BY <1>3, OneMore
<1>5. \A k \in JobIds : k # 0
  BY DEF JobIds
<1>6. QED BY <1>2, <1>3, <1>4, <1>5 DEF Children, Redone, Grew

LEMMA SameJobs ==
    ASSUME IInv, UNCHANGED jobs
    PROVE  Grew /\ \A k \in JobIds : Children(k)' = Children(k) /\ Redone(k)' = Redone(k)
BY JobsFacts DEF Grew, Children, Redone

LEMMA SentJobs ==
    ASSUME IInv, NEW c \in Caller, NEW p \in Priority,
           jobs' = jobs \o NewJobs(caller[c].staged[p])
    PROVE  Grew /\ \A k \in JobIds : Children(k)' = Children(k) /\ Redone(k)' = Redone(k)
<1> DEFINE more == NewJobs(caller[c].staged[p])
<1>1. jobs \in Seq(Job) /\ caller[c].staged[p] \in Seq(Staged)
  BY JobsFacts, CallFacts DEF IInv, DispatchInv, DispatchTypeOK
<1>2. more \in Seq(Job) /\ \A n \in DOMAIN more : more[n].parent = 0 /\ more[n].redoes = 0
  BY <1>1, NewJobsFacts DEF NewJobs
<1> HIDE DEF more
<1>3. /\ Grew
      /\ \A i \in DOMAIN jobs' \ DOMAIN jobs :
           i - Len(jobs) \in DOMAIN more /\ jobs'[i] = more[i - Len(jobs)]
  BY <1>1, <1>2, JobsGrow DEF more, Grew
<1>4. \A i \in DOMAIN jobs' \ DOMAIN jobs : jobs'[i].parent = 0 /\ jobs'[i].redoes = 0
  BY <1>2, <1>3
<1>5. \A k \in JobIds : k # 0
  BY DEF JobIds
<1>6. QED BY <1>3, <1>4, <1>5 DEF Children, Redone, Grew

LEMMA DispatchedJobs ==
    ASSUME IInv, DispatchNext
    PROVE  Grew /\ \A k \in JobIds : Children(k)' = Children(k) /\ Redone(k)' = Redone(k)
<1>1. UNCHANGED jobs \/ \E c \in Caller : \E p \in Priority : jobs' = jobs \o NewJobs(caller[c].staged[p])
  <2>1. ASSUME NEW c \in Caller, Send(c) \/ \E took \in BOOLEAN : SendFails(c, took)
        PROVE  UNCHANGED jobs \/ \E p \in Priority : jobs' = jobs \o NewJobs(caller[c].staged[p])
    <3>1. First(Pending(caller[c])) \in Priority
      BY <2>1, FirstPending DEF Send, SendFails, IInv
    <3>2. QED BY <2>1, <3>1 DEF Send, SendFails
  <2>2. ASSUME NEW c \in Caller,
               \/ \E items \in Batches, batch \in BOOLEAN : Begin(c, items, batch)
               \/ Unkeyed(c) \/ Skip(c) \/ Check(c) \/ PutKey(c) \/ CallDies(c)
        PROVE  UNCHANGED jobs
    BY <2>2 DEF Begin, Unkeyed, Skip, Check, PutKey, CallDies
  <2>3. ASSUME NEW k \in Key, Expire(k) PROVE UNCHANGED jobs
    BY <2>3 DEF Expire
  <2>4. QED BY <2>1, <2>2, <2>3 DEF DispatchNext
<1>2. QED BY <1>1, SameJobs, SentJobs

-----------------------------------------------------------------------------
(* Steps that leave the messages alone. *)

LEMMA SameWork ==
    ASSUME IInv, Grew, UNCHANGED work
    PROVE  WorkInv'
BY DEF IInv, WorkInv, Grew, WorkOK

LEMMA SameChildren ==
    ASSUME IInv, Grew, UNCHANGED work, \A k \in JobIds : Children(k)' = Children(k)
    PROVE  ChainInv'
<1> SUFFICES ASSUME NEW i \in JobIds
             PROVE  /\ Cardinality(Children(i)') <= work[i].cut + 1
                    /\ Early(work[i]) => Cardinality(Children(i)') <= work[i].cut
                    /\ Children(i)' # {} => work[i].wins > 0
                    /\ i \in DOMAIN jobs' /\ Chained(jobs'[i].chain) /\ work[i].wins > 0
                           /\ work[i].pc \notin {"after", "chain"}
                           => Children(i)' # {} \/ work[i].own \/ work[i].hurt > 0
  BY DEF ChainInv, Early
<1>1. i \in DOMAIN jobs => jobs'[i] = jobs[i]
  BY DEF Grew
<1>2. i \notin DOMAIN jobs => work[i].wins = 0
  BY DEF IInv, WorkInv, Waiting
<1>3. PICK kids : kids = Children(i)
  OBVIOUS
<1>4. Children(i)' = kids
  BY <1>3
<1>5. /\ Cardinality(kids) <= work[i].cut + 1
      /\ Early(work[i]) => Cardinality(kids) <= work[i].cut
      /\ kids # {} => work[i].wins > 0
      /\ i \in DOMAIN jobs /\ Chained(jobs[i].chain) /\ work[i].wins > 0
             /\ work[i].pc \notin {"after", "chain"}
             => kids # {} \/ work[i].own \/ work[i].hurt > 0
  BY <1>3 DEF IInv, ChainInv
<1>6. i \in DOMAIN jobs' /\ Chained(jobs'[i].chain) /\ work[i].wins > 0
              /\ work[i].pc \notin {"after", "chain"}
          => kids # {} \/ work[i].own \/ work[i].hurt > 0
  BY <1>1, <1>2, <1>5
<1>7. /\ Cardinality(Children(i)') <= work[i].cut + 1
      /\ Early(work[i]) => Cardinality(Children(i)') <= work[i].cut
      /\ Children(i)' # {} => work[i].wins > 0
  BY <1>4, <1>5
<1>8. QED BY <1>4, <1>6, <1>7

LEMMA SameLetters ==
    ASSUME IInv, Grew, UNCHANGED <<dlq, console, stored, purged, doubted>>,
           \A k \in JobIds : Redone(k)' = Redone(k)
    PROVE  LetterInv' /\ RedoInv'
<1>1. stored \subseteq JobIds
  BY DEF IInv, TypeOK
<1>2. LetterInv'
  BY <1>1 DEF IInv, LetterInv, LetterIsKept, Grew
<1>3. RedoInv'
  BY DEF IInv, RedoInv, Calm, Held
<1>4. QED BY <1>2, <1>3

LEMMA DispatchKeeps ==
    ASSUME IInv, Dispatch
    PROVE  IInv'
<1>1. DispatchInv'
  BY DispatchStep DEF Dispatch, IInv
<1>2. TypeOK' /\ Len(jobs)' <= MaxJobs
  BY <1>1 DEF Dispatch, IInv, TypeOK, DispatchInv, consumerVars
<1>3. Grew /\ \A k \in JobIds : Children(k)' = Children(k) /\ Redone(k)' = Redone(k)
  BY DispatchedJobs DEF Dispatch
<1>4. UNCHANGED <<work, dlq, console, stored, purged, doubted>>
  BY DEF Dispatch, consumerVars
<1>5. WorkInv' /\ ChainInv'
  BY <1>3, <1>4, SameWork, SameChildren
<1>6. LetterInv' /\ RedoInv'
  BY <1>3, <1>4, SameLetters
<1>7. QED BY <1>1, <1>2, <1>5, <1>6 DEF IInv

LEMMA StutterKeeps ==
    ASSUME IInv, UNCHANGED vars
    PROVE  IInv'
<1>1. /\ UNCHANGED <<seen, window, caller, jobs, skips, unsent, raced, calls, faults>>
      /\ UNCHANGED <<work, dlq, admin, console, stored, purged, doubted>>
  BY DEF vars, dispatchVars, consumerVars
<1>2. DispatchInv'
  BY <1>1, QuietKept DEF IInv, DispatchInv, DispatchTypeOK
<1>3. TypeOK' /\ Len(jobs)' <= MaxJobs
  BY <1>1, <1>2 DEF IInv, TypeOK, DispatchInv
<1>4. WorkInv' /\ ChainInv' /\ LetterInv' /\ RedoInv'
  BY <1>1, SameJobs, SameWork, SameChildren, SameLetters
<1>5. QED BY <1>2, <1>3, <1>4 DEF IInv

(* The console's steps. *)
LEMMA ConsoleKeeps ==
    ASSUME IInv, OnlyConsole, Grew, Len(jobs') <= MaxJobs, faults' \in 0 .. MaxFaults,
           \A k \in JobIds : Children(k)' = Children(k),
           UNCHANGED jobs \/ \E x \in Job : x.key = NoKey /\ jobs' = Append(jobs, x),
           dlq' \in SUBSET JobIds, admin' \in 0 .. MaxAdmin, console' \in [Console -> Retrier],
           purged' \in SUBSET JobIds, doubted' \in SUBSET JobIds, LetterInv', RedoInv'
    PROVE  IInv'
<1>1. UNCHANGED <<seen, window, caller, skips, unsent, raced, calls, work, stored>>
  BY DEF OnlyConsole
<1>2. DispatchInv'
  BY <1>1, QuietKept, UnkeyedJobKept DEF IInv
<1>3. TypeOK'
  BY <1>1, <1>2 DEF IInv, TypeOK, DispatchInv
<1>4. WorkInv' /\ ChainInv'
  BY <1>1, SameWork, SameChildren
<1>5. QED BY <1>2, <1>3, <1>4 DEF IInv

LEMMA ConsoleFacts ==
    ASSUME IInv, NEW a \in Console
    PROVE  /\ console \in [Console -> Retrier] /\ console[a] \in Retrier
           /\ dlq \in SUBSET JobIds /\ purged \in SUBSET JobIds /\ doubted \in SUBSET JobIds
           /\ stored \in SUBSET JobIds /\ admin \in 0 .. MaxAdmin /\ MaxAdmin \in Nat
           /\ faults \in 0 .. MaxFaults /\ MaxFaults \in Nat
           /\ console[a].pc # "idle"
                => console[a].entry \in stored /\ console[a].entry \in DOMAIN jobs
           /\ console[a].pc = "idle" => console[a].entry = 0
           /\ \A k \in JobIds : k # 0 /\ k \in 0 .. MaxJobs
<1>1. /\ console \in [Console -> Retrier] /\ console[a] \in Retrier
      /\ dlq \in SUBSET JobIds /\ purged \in SUBSET JobIds /\ doubted \in SUBSET JobIds
      /\ stored \in SUBSET JobIds /\ admin \in 0 .. MaxAdmin /\ faults \in 0 .. MaxFaults
  BY DEF IInv, TypeOK, DispatchTypeOK
<1>2. MaxAdmin \in Nat /\ MaxFaults \in Nat
  BY AttemptsAssumption, DispatchBounds
<1>3. /\ console[a].pc # "idle" => console[a].entry \in stored
      /\ console[a].pc = "idle" => console[a].entry = 0
      /\ stored \subseteq DOMAIN jobs
  BY DEF IInv, LetterInv
<1>4. \A k \in JobIds : k # 0 /\ k \in 0 .. MaxJobs
  BY AttemptsAssumption DEF JobIds
<1>5. QED BY <1>1, <1>2, <1>3, <1>4

LEMMA RetryKeeps ==
    ASSUME IInv, NEW a \in Console, NEW i \in JobIds, Retry(a, i)
    PROVE  IInv'
<1> DEFINE r == [pc |-> "send", entry |-> i]
<1>1. /\ console[a].pc = "idle" /\ i \in dlq /\ admin < MaxAdmin /\ admin' = admin + 1
      /\ console' = [console EXCEPT ![a] = r]
      /\ doubted' = IF Held(i) THEN doubted \cup {i} ELSE doubted
      /\ UNCHANGED <<jobs, dlq, purged, faults>> /\ OnlyConsole
  BY DEF Retry
<1>2. r \in Retrier /\ r.pc = "send" /\ r.entry = i
  BY ConsoleFacts DEF Retrier
<1> HIDE DEF r
<1>3. /\ console' \in [Console -> Retrier] /\ console'[a] = r
      /\ \A b \in Console : b # a => console'[b] = console[b]
  BY <1>1, <1>2, ConsoleFacts
<1>4. Grew /\ \A k \in JobIds : Children(k)' = Children(k) /\ Redone(k)' = Redone(k)
  BY <1>1, SameJobs
<1>5. stored' = stored /\ i \in stored /\ stored \subseteq JobIds
  BY <1>1, ConsoleFacts DEF OnlyConsole, IInv, LetterInv
<1>6. LetterInv'
  BY <1>1, <1>2, <1>3, <1>4, <1>5 DEF IInv, LetterInv, LetterIsKept
<1>7. RedoInv'
  <2> SUFFICES ASSUME NEW k \in JobIds, k \notin doubted' PROVE Calm(k)'
    BY <1>4, <1>5 DEF IInv, RedoInv
  <2>1. Calm(k)
    BY <1>1 DEF IInv, RedoInv
  <2>2. CASE k # i
    <3>1. Held(k) => \E b \in Console : b # a /\ console[b].entry = k
      BY <1>1, ConsoleFacts DEF Held
    <3>2. Held(k) => Held(k)'
      BY <1>3, <3>1 DEF Held
    <3>3. QED BY <1>1, <1>2, <1>3, <1>4, <2>1, <2>2, <3>2 DEF Calm
  <2>3. CASE k = i
    <3>1. ~Held(i) /\ Redone(i) = {}
      BY <1>1, <2>1, <2>3 DEF Calm
    <3>2. \A b \in Console : console'[b].entry = i => b = a
      BY <1>3, <3>1 DEF Held
    <3>3. QED BY <1>1, <1>3, <1>4, <2>3, <3>1, <3>2 DEF Calm
  <2>4. QED BY <2>2, <2>3
<1>8. Len(jobs') <= MaxJobs /\ faults' \in 0 .. MaxFaults
  BY <1>1, ConsoleFacts DEF IInv
<1>9. /\ dlq' \in SUBSET JobIds /\ admin' \in 0 .. MaxAdmin
      /\ purged' \in SUBSET JobIds /\ doubted' \in SUBSET JobIds
  BY <1>1, ConsoleFacts
<1>10. QED BY <1>1, <1>3, <1>4, <1>6, <1>7, <1>8, <1>9, ConsoleKeeps

LEMMA RedispatchKeeps ==
    ASSUME IInv, NEW a \in Console, Redispatch(a)
    PROVE  IInv'
<1>1. PICK e : e = console[a].entry
  OBVIOUS
<1>2. /\ console[a].pc = "send" /\ Len(jobs) < MaxJobs /\ jobs' = Append(jobs, Redo(e))
      /\ console' = [console EXCEPT ![a].pc = "remove"]
      /\ UNCHANGED <<dlq, admin, purged, doubted, faults>> /\ OnlyConsole
  BY <1>1 DEF Redispatch
<1>3. e \in stored /\ e \in DOMAIN jobs /\ e \in JobIds /\ stored \subseteq JobIds
  BY <1>1, <1>2, ConsoleFacts
<1>4. /\ console' \in [Console -> Retrier]
      /\ console'[a].pc = "remove" /\ console'[a].entry = e
      /\ \A b \in Console : b # a => console'[b] = console[b]
  BY <1>1, <1>2, ConsoleFacts DEF Retrier
<1>5. /\ Redo(e) \in Job /\ Redo(e).key = NoKey
      /\ Grew /\ Len(jobs') = Len(jobs) + 1
      /\ Redone(e)' = Redone(e) \cup {Len(jobs) + 1}
      /\ \A k \in JobIds : /\ Children(k)' = Children(k)
                           /\ k # e => Redone(k)' = Redone(k)
  BY <1>2, <1>3, RedoneJob
<1>6. stored' = stored /\ \A k \in JobIds : Redone(k) # {} => Redone(k)' # {}
  BY <1>2, <1>5 DEF OnlyConsole
<1>7. \A b \in Console : console'[b].entry = console[b].entry
  BY <1>1, <1>4
<1>8. LetterInv'
  <2>1. dlq' \subseteq stored' /\ stored' \subseteq DOMAIN jobs'
    BY <1>2, <1>5, <1>6 DEF IInv, LetterInv, Grew
  <2>2. ASSUME NEW b \in Console
        PROVE  /\ console'[b].pc # "idle" => console'[b].entry \in stored'
               /\ console'[b].pc = "idle" => console'[b].entry = 0
               /\ console'[b].pc = "remove" => Redone(console[b].entry)' # {}
    <3>1. CASE b = a
      <4>1. Redone(console[b].entry)' = Redone(e)'
        BY <1>4, <3>1 DEF Redone
      <4>2. QED BY <1>3, <1>4, <1>5, <1>6, <3>1, <4>1
    <3>2. CASE b # a
      <4>1. PICK k : k = console[b].entry
        OBVIOUS
      <4>2. Redone(console[b].entry)' = Redone(k)'
        BY <1>7, <4>1 DEF Redone
      <4>3. /\ console[b].pc # "idle" => k \in stored
            /\ console[b].pc = "idle" => k = 0
            /\ console[b].pc = "remove" => Redone(k) # {}
        BY <4>1 DEF IInv, LetterInv
      <4>4. QED BY <1>3, <1>4, <1>6, <3>2, <4>1, <4>2, <4>3
    <3>3. QED BY <3>1, <3>2
  <2>3. LetterIsKept'
    BY <1>2, <1>3, <1>6 DEF IInv, LetterInv, LetterIsKept
  <2>4. QED BY <2>1, <2>2, <2>3 DEF LetterInv
<1>9. RedoInv'
  <2>1. ASSUME NEW k \in JobIds, k \notin stored' PROVE Redone(k)' = {}
    BY <1>3, <1>5, <1>6, <2>1 DEF IInv, RedoInv
  <2>2. ASSUME NEW k \in JobIds, k \notin doubted' PROVE Calm(k)'
    <3>1. Calm(k)
      BY <1>2, <2>2 DEF IInv, RedoInv
    <3>2. Held(k)' <=> Held(k)
      BY <1>7 DEF Held
    <3>3. CASE k # e
      BY <1>1, <1>2, <1>4, <1>5, <1>7, <3>1, <3>2, <3>3 DEF Calm
    <3>4. CASE k = e
      <4>1. Redone(k) = {} /\ Held(k) /\ \A b \in Console : console[b].entry = k => b = a
        BY <1>1, <1>2, <3>1, <3>4 DEF Calm, Held
      <4>2. Redone(k)' = {Len(jobs) + 1}
        BY <1>5, <3>4, <4>1
      <4>3. \A j, l \in Redone(k)' : j = l
        BY <4>2
      <4>4. QED BY <1>4, <1>7, <3>2, <4>1, <4>3 DEF Calm
    <3>5. QED BY <3>3, <3>4
  <2>3. QED BY <2>1, <2>2 DEF RedoInv
<1>10. Len(jobs') <= MaxJobs /\ faults' \in 0 .. MaxFaults
  BY <1>2, <1>5, ConsoleFacts, JobsFacts
<1>11. /\ dlq' \in SUBSET JobIds /\ admin' \in 0 .. MaxAdmin
       /\ purged' \in SUBSET JobIds /\ doubted' \in SUBSET JobIds
  BY <1>2, ConsoleFacts
<1>12. QED BY <1>2, <1>4, <1>5, <1>8, <1>9, <1>10, <1>11, ConsoleKeeps

(* An admin's retry is over. *)
LEMMA Released ==
    ASSUME IInv, NEW a \in Console, console' = [console EXCEPT ![a] = NoRetry], UNCHANGED stored,
           \A k \in JobIds : Redone(k) # {} => Redone(k)' # {}
    PROVE  /\ console' \in [Console -> Retrier] /\ console'[a] = NoRetry
           /\ \A b \in Console : b # a => console'[b] = console[b]
           /\ \A b \in Console : console'[b].entry # 0 => b # a
           /\ \A b \in Console :
                /\ console'[b].pc # "idle" => console'[b].entry \in stored'
                /\ console'[b].pc = "idle" => console'[b].entry = 0
                /\ console'[b].pc = "remove" => Redone(console[b].entry)' # {}
<1>1. NoRetry \in Retrier /\ NoRetry.pc = "idle" /\ NoRetry.entry = 0
  BY AttemptsAssumption DEF NoRetry, Retrier
<1>2. /\ console' \in [Console -> Retrier] /\ console'[a] = NoRetry
      /\ \A b \in Console : b # a => console'[b] = console[b]
  BY <1>1, ConsoleFacts
<1>3. ASSUME NEW b \in Console
      PROVE  /\ console'[b].pc # "idle" => console'[b].entry \in stored'
             /\ console'[b].pc = "idle" => console'[b].entry = 0
             /\ console'[b].pc = "remove" => Redone(console[b].entry)' # {}
  <2>1. CASE b = a
    BY <1>1, <1>2, <2>1
  <2>2. CASE b # a
    <3>1. PICK k : k = console[b].entry
      OBVIOUS
    <3>2. Redone(console[b].entry)' = Redone(k)'
      BY <1>2, <2>2, <3>1 DEF Redone
    <3>3. /\ console[b].pc # "idle" => k \in stored
          /\ console[b].pc = "idle" => k = 0
          /\ console[b].pc = "remove" => Redone(k) # {}
      BY <3>1 DEF IInv, LetterInv
    <3>4. stored \subseteq JobIds
      BY ConsoleFacts
    <3>5. QED BY <1>2, <2>2, <3>1, <3>2, <3>3, <3>4
  <2>3. QED BY <2>1, <2>2
<1>4. QED BY <1>1, <1>2, <1>3

LEMMA RetryFailsKeeps ==
    ASSUME IInv, NEW a \in Console, NEW took \in BOOLEAN, RetryFails(a, took)
    PROVE  IInv'
<1>1. PICK e : e = console[a].entry
  OBVIOUS
<1>2. /\ console[a].pc \in {"send", "remove"} /\ faults < MaxFaults /\ faults' = faults + 1
      /\ took => Len(jobs) < MaxJobs
      /\ jobs' = IF took THEN Append(jobs, Redo(e)) ELSE jobs
      /\ console' = [console EXCEPT ![a] = NoRetry]
      /\ doubted' = doubted \cup {e}
      /\ UNCHANGED <<dlq, admin, purged>> /\ OnlyConsole
  BY <1>1 DEF RetryFails, Fault
<1>3. e \in stored /\ e \in DOMAIN jobs /\ e \in JobIds /\ stored \subseteq JobIds
  BY <1>1, <1>2, ConsoleFacts
<1>4. /\ Grew /\ Len(jobs') <= MaxJobs
      /\ \A k \in JobIds : Children(k)' = Children(k) /\ (k # e => Redone(k)' = Redone(k))
      /\ Redone(e) # {} => Redone(e)' # {}
      /\ UNCHANGED jobs \/ \E x \in Job : x.key = NoKey /\ jobs' = Append(jobs, x)
  <2>1. CASE took
    <3>1. jobs' = Append(jobs, Redo(e)) /\ Len(jobs) < MaxJobs
      BY <1>2, <2>1
    <3>2. /\ Redo(e) \in Job /\ Redo(e).key = NoKey
          /\ Grew /\ Len(jobs') = Len(jobs) + 1
          /\ Redone(e)' = Redone(e) \cup {Len(jobs) + 1}
          /\ \A k \in JobIds : /\ Children(k)' = Children(k)
                               /\ k # e => Redone(k)' = Redone(k)
      BY <1>3, <3>1, RedoneJob
    <3>3. Len(jobs') <= MaxJobs
      BY <3>1, <3>2, JobsFacts
    <3>4. Redone(e)' # {}
      BY <3>2
    <3>5. QED BY <3>1, <3>2, <3>3, <3>4
  <2>2. CASE ~took
    BY <1>2, <1>3, <2>2, SameJobs DEF IInv
  <2>3. QED BY <2>1, <2>2
<1>5. stored' = stored /\ \A k \in JobIds : Redone(k) # {} => Redone(k)' # {}
  BY <1>2, <1>4 DEF OnlyConsole
<1>6. /\ console' \in [Console -> Retrier] /\ console'[a] = NoRetry
      /\ \A b \in Console : b # a => console'[b] = console[b]
      /\ \A b \in Console : console'[b].entry # 0 => b # a
      /\ \A b \in Console :
           /\ console'[b].pc # "idle" => console'[b].entry \in stored'
           /\ console'[b].pc = "idle" => console'[b].entry = 0
           /\ console'[b].pc = "remove" => Redone(console[b].entry)' # {}
  BY <1>2, <1>5, Released
<1>7. LetterInv'
  <2>1. dlq' \subseteq stored' /\ stored' \subseteq DOMAIN jobs'
    BY <1>2, <1>4, <1>5 DEF IInv, LetterInv, Grew
  <2>2. LetterIsKept'
    BY <1>2, <1>3, <1>5 DEF IInv, LetterInv, LetterIsKept
  <2>3. QED BY <1>6, <2>1, <2>2 DEF LetterInv
<1>8. RedoInv'
  <2>1. ASSUME NEW k \in JobIds, k \notin stored' PROVE Redone(k)' = {}
    BY <1>3, <1>4, <1>5, <2>1 DEF IInv, RedoInv
  <2>2. ASSUME NEW k \in JobIds, k \notin doubted' PROVE Calm(k)'
    <3>1. Calm(k) /\ k # e /\ k # 0
      BY <1>2, <2>2, ConsoleFacts DEF IInv, RedoInv
    <3>2. \A b \in Console : console'[b].entry = k => console'[b] = console[b]
      BY <1>6, <3>1
    <3>3. Held(k) => Held(k)'
      BY <1>1, <1>6, <3>1 DEF Held
    <3>4. QED BY <1>2, <1>4, <3>1, <3>2, <3>3 DEF Calm
  <2>3. QED BY <2>1, <2>2 DEF RedoInv
<1>9. faults' \in 0 .. MaxFaults
  BY <1>2, ConsoleFacts
<1>10. /\ dlq' \in SUBSET JobIds /\ admin' \in 0 .. MaxAdmin
       /\ purged' \in SUBSET JobIds /\ doubted' \in SUBSET JobIds
  BY <1>2, <1>3, ConsoleFacts
<1>11. QED BY <1>2, <1>4, <1>6, <1>7, <1>8, <1>9, <1>10, ConsoleKeeps

LEMMA RemoveLetterKeeps ==
    ASSUME IInv, NEW a \in Console, RemoveLetter(a)
    PROVE  IInv'
<1>1. PICK e : e = console[a].entry
  OBVIOUS
<1>2. /\ console[a].pc = "remove" /\ dlq' = dlq \ {e}
      /\ console' = [console EXCEPT ![a] = NoRetry]
      /\ UNCHANGED <<jobs, admin, purged, doubted, faults>> /\ OnlyConsole
  BY <1>1 DEF RemoveLetter
<1>3. e \in stored /\ e \in JobIds /\ stored \subseteq JobIds /\ Redone(e) # {}
  BY <1>1, <1>2, ConsoleFacts DEF IInv, LetterInv
<1>4. /\ Grew
      /\ \A k \in JobIds : Children(k)' = Children(k) /\ Redone(k)' = Redone(k)
  BY <1>2, SameJobs
<1>5. stored' = stored
  BY <1>2 DEF OnlyConsole
<1>6. /\ console' \in [Console -> Retrier] /\ console'[a] = NoRetry
      /\ \A b \in Console : b # a => console'[b] = console[b]
      /\ \A b \in Console : console'[b].entry # 0 => b # a
      /\ \A b \in Console :
           /\ console'[b].pc # "idle" => console'[b].entry \in stored'
           /\ console'[b].pc = "idle" => console'[b].entry = 0
           /\ console'[b].pc = "remove" => Redone(console[b].entry)' # {}
  BY <1>2, <1>4, <1>5, Released
<1>7. LetterInv'
  <2>1. dlq' \subseteq stored' /\ stored' \subseteq DOMAIN jobs'
    BY <1>2, <1>4, <1>5 DEF IInv, LetterInv, Grew
  <2>2. LetterIsKept'
    BY <1>2, <1>3, <1>4, <1>5 DEF IInv, LetterInv, LetterIsKept
  <2>3. QED BY <1>6, <2>1, <2>2 DEF LetterInv
<1>8. RedoInv'
  <2>1. ASSUME NEW k \in JobIds, k \notin stored' PROVE Redone(k)' = {}
    BY <1>4, <1>5, <2>1 DEF IInv, RedoInv
  <2>2. ASSUME NEW k \in JobIds, k \notin doubted' PROVE Calm(k)'
    <3>1. Calm(k) /\ k # 0
      BY <1>2, <2>2, ConsoleFacts DEF IInv, RedoInv
    <3>2. \A b \in Console : console'[b].entry = k => console'[b] = console[b]
      BY <1>6, <3>1
    <3>3. k # e /\ Held(k) => Held(k)'
      BY <1>1, <1>6, <3>1 DEF Held
    <3>4. k \in dlq' => k # e /\ k \in dlq
      BY <1>2
    <3>5. QED BY <1>4, <3>1, <3>2, <3>3, <3>4 DEF Calm
  <2>3. QED BY <2>1, <2>2 DEF RedoInv
<1>9. Len(jobs') <= MaxJobs /\ faults' \in 0 .. MaxFaults
  BY <1>2, ConsoleFacts DEF IInv
<1>10. /\ dlq' \in SUBSET JobIds /\ admin' \in 0 .. MaxAdmin
       /\ purged' \in SUBSET JobIds /\ doubted' \in SUBSET JobIds
  BY <1>2, ConsoleFacts
<1>11. QED BY <1>2, <1>4, <1>6, <1>7, <1>8, <1>9, <1>10, ConsoleKeeps

LEMMA DeleteLetterKeeps ==
    ASSUME IInv, NEW i \in JobIds, DeleteLetter(i)
    PROVE  IInv'
<1>1. /\ i \in dlq /\ admin < MaxAdmin /\ admin' = admin + 1
      /\ dlq' = dlq \ {i} /\ purged' = purged \cup {i}
      /\ UNCHANGED <<jobs, console, doubted, faults>> /\ OnlyConsole
  BY DEF DeleteLetter
<1>2. /\ Grew
      /\ \A k \in JobIds : Children(k)' = Children(k) /\ Redone(k)' = Redone(k)
  BY <1>1, SameJobs
<1>3. stored' = stored /\ stored \subseteq JobIds
  BY <1>1 DEF OnlyConsole, IInv, TypeOK
<1>4. LetterInv'
  BY <1>1, <1>2, <1>3 DEF IInv, LetterInv, LetterIsKept, Grew
<1>5. RedoInv'
  BY <1>1, <1>2, <1>3 DEF IInv, RedoInv, Calm, Held
<1>6. /\ Len(jobs') <= MaxJobs /\ faults' \in 0 .. MaxFaults
      /\ dlq' \in SUBSET JobIds /\ admin' \in 0 .. MaxAdmin /\ console' \in [Console -> Retrier]
      /\ purged' \in SUBSET JobIds /\ doubted' \in SUBSET JobIds
  BY <1>1, AttemptsAssumption DEF IInv, TypeOK, DispatchTypeOK
<1>7. QED BY <1>1, <1>2, <1>4, <1>5, <1>6, ConsoleKeeps

LEMMA LettersKeep ==
    ASSUME IInv, Letters
    PROVE  IInv'
BY RetryKeeps, RedispatchKeeps, RetryFailsKeeps, RemoveLetterKeeps, DeleteLetterKeeps DEF Letters

-----------------------------------------------------------------------------
(* Steps of a message's invocation. *)

LEMMA ChainKept ==
    ASSUME IInv, NEW i \in JobIds, NEW w, Moves(i, w), Leaves(i, w), Grew,
           \A k \in JobIds : k # i => Children(k)' = Children(k),
           \/ UNCHANGED jobs /\ Children(i)' = Children(i)
           \/ /\ Children(i)' = Children(i) \cup {Len(jobs) + 1}
              /\ Len(jobs) + 1 \notin Children(i)
    PROVE  ChainInv'
<1>1. /\ work \in [JobIds -> Work] /\ work[i] \in Work /\ w \in Work /\ WorkOK(work[i])
      /\ work' = [work EXCEPT ![i] = w] /\ i \in DOMAIN jobs
  BY WorkFacts DEF Moves
<1>2. work'[i] = w /\ \A k \in JobIds : k # i => work'[k] = work[k]
  BY <1>1
<1>3. ASSUME NEW k \in JobIds
      PROVE  /\ Cardinality(Children(k)') <= work'[k].cut + 1
             /\ Early(work'[k]) => Cardinality(Children(k)') <= work'[k].cut
             /\ Children(k)' # {} => work'[k].wins > 0
             /\ k \in DOMAIN jobs' /\ Chained(jobs'[k].chain) /\ work'[k].wins > 0
                    /\ work'[k].pc \notin {"after", "chain"}
                    => Children(k)' # {} \/ work'[k].own \/ work'[k].hurt > 0
  <2>1. PICK kids : kids = Children(k)
    OBVIOUS
  <2>2. /\ Cardinality(kids) <= work[k].cut + 1
        /\ Early(work[k]) => Cardinality(kids) <= work[k].cut
        /\ kids # {} => work[k].wins > 0
        /\ k \in DOMAIN jobs /\ Chained(jobs[k].chain) /\ work[k].wins > 0
               /\ work[k].pc \notin {"after", "chain"}
               => kids # {} \/ work[k].own \/ work[k].hurt > 0
    BY <2>1 DEF IInv, ChainInv
  <2>3. CASE k # i
    <3>1. Children(k)' = kids /\ work'[k] = work[k]
      BY <1>2, <2>1, <2>3
    <3>2. k \notin DOMAIN jobs => work[k].wins = 0
      BY DEF IInv, WorkInv, Waiting
    <3>3. k \in DOMAIN jobs => jobs'[k] = jobs[k]
      BY DEF Grew
    <3>4. QED BY <2>2, <3>1, <3>2, <3>3
  <2>4. CASE k = i
    <3>1. /\ work[i].wins <= w.wins /\ work[i].hurt <= w.hurt
          /\ work[i].cut <= w.cut /\ (work[i].own => w.own)
          /\ Early(w) => Early(work[i]) \/ work[i].cut + 1 <= w.cut
          /\ work[i].wins \in Nat /\ work[i].hurt \in Nat /\ work[i].cut \in Nat
          /\ w.wins \in Nat /\ w.hurt \in Nat /\ w.cut \in Nat
      BY <1>1 DEF Moves, Work
    <3>2. kids \subseteq 1 .. Len(jobs)
      BY <2>1, JobsFacts DEF Children
    <3>3. IsFiniteSet(kids) /\ Cardinality(kids) \in Nat
      <4>1. IsFiniteSet(1 .. Len(jobs))
        BY FS_Interval, JobsFacts
      <4>2. QED BY <3>2, <4>1, FS_Subset, FS_CardinalityType
    <3>4. jobs'[i] = jobs[i]
      BY <1>1 DEF Grew
    <3>5. CASE UNCHANGED jobs /\ Children(i)' = Children(i)
      <4>1. Children(k)' = kids
        BY <2>1, <2>4, <3>5
      <4>2. jobs' # Append(jobs, Child(i))
        BY <3>5, JobsFacts, ChildJob, <1>1
      <4>3. w.pc \notin {"after", "chain"} /\ w.wins > 0
                => \/ work[i].pc \notin {"after", "chain"} /\ work[i].wins > 0
                   \/ w.own \/ w.hurt > 0 \/ ~Chained(jobs[i].chain)
        BY <4>2 DEF Moves
      <4>4. work'[k] = w
        BY <1>2, <2>4
      <4>5. /\ Cardinality(kids) <= w.cut + 1
            /\ Early(w) => Cardinality(kids) <= w.cut
            /\ kids # {} => w.wins > 0
        BY <2>2, <2>4, <3>1, <3>3
      <4>6. i \in DOMAIN jobs' /\ Chained(jobs'[i].chain) /\ w.wins > 0 /\ w.pc \notin {"after", "chain"}
                => kids # {} \/ w.own \/ w.hurt > 0
        BY <1>1, <2>2, <2>4, <3>1, <3>4, <4>3
      <4>7. QED BY <2>4, <4>1, <4>4, <4>5, <4>6
    <3>6. CASE /\ Children(i)' = Children(i) \cup {Len(jobs) + 1}
               /\ Len(jobs) + 1 \notin Children(i)
      <4>1. Children(k)' = kids \cup {Len(jobs) + 1} /\ Len(jobs) + 1 \notin kids
        BY <2>1, <2>4, <3>6
      <4>2. Cardinality(kids \cup {Len(jobs) + 1}) = Cardinality(kids) + 1
        BY <3>3, <4>1, FS_AddElement
      <4>3. work[i].pc = "chain" /\ ~Early(w)
        <5>1. jobs' # jobs
          BY <1>1, <3>6 DEF Children
        <5>2. QED BY <5>1 DEF Leaves
      <4>4. Early(work[i]) /\ work[i].wins > 0
        BY <1>1, <4>3 DEF Early, WorkOK
      <4>5. QED BY <1>2, <2>2, <2>4, <3>1, <3>3, <4>1, <4>2, <4>3, <4>4, SMTT(30)
    <3>7. QED BY <3>5, <3>6
  <2>5. QED BY <2>3, <2>4
<1>4. QED BY <1>3 DEF ChainInv, Early

LEMMA ConsumeKeeps ==
    ASSUME IInv, NEW i \in JobIds, NEW w, Moves(i, w), Leaves(i, w)
    PROVE  IInv'
<1>1. /\ work \in [JobIds -> Work] /\ w \in Work /\ WorkOK(w)
      /\ work' = [work EXCEPT ![i] = w] /\ i \in DOMAIN jobs
  BY WorkFacts DEF Moves
<1>2. /\ work' \in [JobIds -> Work] /\ work'[i] = w
      /\ \A k \in JobIds : k # i => work'[k] = work[k]
  BY <1>1
<1>3. /\ UNCHANGED <<seen, window, caller, skips, unsent, raced, calls, admin, console, purged>>
      /\ faults' \in 0 .. MaxFaults
      /\ \/ UNCHANGED jobs
         \/ jobs' = Append(jobs, Child(i)) /\ Len(jobs) < MaxJobs
      /\ \/ UNCHANGED <<dlq, stored, doubted>>
         \/ /\ dlq' = dlq \cup {i} /\ stored' = stored \cup {i}
            /\ doubted' = IF i \in stored THEN doubted \cup {i} ELSE doubted
  BY DEF Leaves
<1>4. /\ Grew /\ Len(jobs') <= MaxJobs
      /\ \A k \in JobIds : /\ k # i => Children(k)' = Children(k)
                           /\ Redone(k)' = Redone(k)
      /\ \/ UNCHANGED jobs /\ Children(i)' = Children(i)
         \/ /\ Children(i)' = Children(i) \cup {Len(jobs) + 1}
            /\ Len(jobs) + 1 \notin Children(i)
  <2>1. CASE UNCHANGED jobs
    BY <2>1, SameJobs DEF IInv
  <2>2. CASE jobs' = Append(jobs, Child(i)) /\ Len(jobs) < MaxJobs
    <3>1. /\ Grew /\ Len(jobs') = Len(jobs) + 1
          /\ Children(i)' = Children(i) \cup {Len(jobs) + 1} /\ Len(jobs) + 1 \notin Children(i)
          /\ \A k \in JobIds : /\ k # i => Children(k)' = Children(k)
                               /\ Redone(k)' = Redone(k)
      BY <1>1, <2>2, ChildJob
    <3>2. Len(jobs') <= MaxJobs
      BY <2>2, <3>1, JobsFacts
    <3>3. QED BY <3>1, <3>2
  <2>3. QED BY <1>3, <2>1, <2>2
<1>5. DispatchInv'
  <2>1. CASE UNCHANGED jobs
    BY <1>3, <2>1, QuietKept DEF IInv
  <2>2. CASE jobs' = Append(jobs, Child(i))
    <3>1. PICK x \in Job : x = Child(i) /\ x.key = NoKey
      BY <1>1, <2>2, ChildJob
    <3>2. QED BY <1>3, <2>2, <3>1, UnkeyedJobKept DEF IInv
  <2>3. QED BY <1>3, <2>1, <2>2
<1>6. TypeOK'
  <2>1. /\ dlq' \in SUBSET JobIds /\ stored' \in SUBSET JobIds /\ doubted' \in SUBSET JobIds
    BY <1>3 DEF IInv, TypeOK
  <2>2. QED BY <1>2, <1>3, <1>5, <2>1 DEF IInv, TypeOK, DispatchInv
<1>7. WorkInv'
  <2>1. ASSUME NEW k \in JobIds PROVE WorkOK(work'[k]) /\ (k \notin DOMAIN jobs' => work'[k] = Waiting)
    BY <1>1, <1>2, <1>4, <2>1 DEF IInv, WorkInv, Grew
  <2>2. QED BY <2>1 DEF WorkInv, WorkOK
<1>8. LetterInv'
  <2>1. stored \subseteq JobIds /\ \A k \in JobIds : Redone(k)' = Redone(k)
    BY <1>4 DEF IInv, TypeOK
  <2>2. stored \subseteq stored' /\ stored' \subseteq DOMAIN jobs' /\ dlq' \subseteq stored'
        /\ stored' \ dlq' \subseteq stored \ dlq
    BY <1>1, <1>3, <1>4 DEF IInv, LetterInv, Grew
  <2>3. LetterIsKept'
    BY <1>3, <2>1, <2>2 DEF IInv, LetterInv, LetterIsKept
  <2>4. ASSUME NEW a \in Console
        PROVE  /\ console'[a].pc # "idle" => console'[a].entry \in stored'
               /\ console'[a].pc = "idle" => console'[a].entry = 0
               /\ console'[a].pc = "remove" => Redone(console[a].entry)' # {}
    <3>1. PICK k : k = console[a].entry
      OBVIOUS
    <3>2. Redone(console[a].entry)' = Redone(k)' /\ console' = console
      BY <1>3, <3>1 DEF Redone
    <3>3. /\ console[a].pc # "idle" => k \in stored
          /\ console[a].pc = "idle" => k = 0
          /\ console[a].pc = "remove" => Redone(k) # {}
      BY <3>1 DEF IInv, LetterInv
    <3>4. QED BY <2>1, <2>2, <3>1, <3>2, <3>3
  <2>5. QED BY <2>2, <2>3, <2>4 DEF LetterInv
<1>9. ChainInv'
  BY <1>4, ChainKept
<1>10. RedoInv'
  <2>1. ASSUME NEW k \in JobIds, k \notin stored' PROVE Redone(k)' = {}
    BY <1>3, <1>4, <2>1 DEF IInv, RedoInv
  <2>2. ASSUME NEW k \in JobIds, k \notin doubted' PROVE Calm(k)'
    <3>1. Calm(k)
      BY <1>3, <2>2 DEF IInv, RedoInv
    <3>2. CASE k \in dlq' => k \in dlq
      BY <1>3, <1>4, <3>1, <3>2 DEF Calm, Held
    <3>3. CASE k \in dlq' /\ k \notin dlq
      <4>1. Redone(k) = {}
        BY <1>3, <2>2, <3>3 DEF IInv, RedoInv
      <4>2. QED BY <1>3, <1>4, <3>1, <4>1 DEF Calm, Held
    <3>4. QED BY <3>2, <3>3
  <2>3. QED BY <2>1, <2>2 DEF RedoInv
<1>11. QED BY <1>4, <1>5, <1>6, <1>7, <1>8, <1>9, <1>10 DEF IInv

-----------------------------------------------------------------------------
LEMMA Starts == Init => IInv /\ SavedInv
<1> SUFFICES ASSUME Init PROVE IInv /\ SavedInv
  OBVIOUS
<1>1. /\ DispatchInit /\ work = [i \in JobIds |-> Waiting]
      /\ dlq = {} /\ admin = 0 /\ console = [a \in Console |-> NoRetry]
      /\ stored = {} /\ purged = {} /\ doubted = {} /\ jobs = <<>>
  BY DEF Init, DispatchInit
<1>2. DispatchInv
  BY <1>1, DispatchStarts
<1>3. Waiting \in Work /\ WorkOK(Waiting)
  BY AttemptsAssumption DEF Waiting, Work, WorkOK, Verdict
<1>4. NoRetry \in Retrier /\ NoRetry.pc = "idle" /\ NoRetry.entry = 0
  BY AttemptsAssumption DEF NoRetry, Retrier
<1>5. TypeOK
  BY <1>1, <1>2, <1>3, <1>4, AttemptsAssumption DEF TypeOK, DispatchInv
<1>6. Len(jobs) <= MaxJobs /\ DOMAIN jobs = {}
  BY <1>1, AttemptsAssumption
<1>7. WorkInv
  BY <1>1, <1>3 DEF WorkInv
<1>8. \A i : Children(i) = {} /\ Redone(i) = {}
  BY <1>6 DEF Children, Redone
<1>9. LetterInv
  BY <1>1, <1>4, <1>6 DEF LetterInv, LetterIsKept
<1>10. ChainInv
  <2>1. \A i \in JobIds : work[i].cut = 0 /\ i \notin DOMAIN jobs
    BY <1>1, <1>6 DEF Waiting
  <2>2. \A i : Cardinality(Children(i)) = 0
    BY <1>8, FS_EmptySet
  <2>3. QED BY <1>8, <2>1, <2>2 DEF ChainInv
<1>11. RedoInv
  <2>1. \A i \in JobIds, a \in Console : console[a].entry # i
    BY <1>1, <1>4 DEF JobIds
  <2>2. QED BY <1>1, <1>8, <2>1 DEF RedoInv, Calm
<1>12. SavedInv
  BY <1>6 DEF SavedInv
<1>13. QED BY <1>2, <1>5, <1>6, <1>7, <1>9, <1>10, <1>11, <1>12 DEF IInv

LEMMA Keeps ==
    ASSUME IInv, [Next]_vars
    PROVE  IInv'
<1>1. ASSUME NEW i \in JobIds, Consume(i) PROVE IInv'
  BY <1>1, ConsumeMoves, ConsumeKeeps
<1>2. QED BY <1>1, DispatchKeeps, LettersKeep, StutterKeeps DEF Next

(* A job that has no excuse yet has a delivery left: the platform gives up *)
(* no earlier than the processor.                                          *)
LEMMA SavedKept ==
    ASSUME MaxAttempts <= PlatformMax, IInv, SavedInv, [Next]_vars
    PROVE  SavedInv'
<1>1. CASE Dispatch \/ Letters \/ UNCHANGED vars
  <2>1. UNCHANGED <<work, stored>>
    BY <1>1 DEF Dispatch, Letters, Retry, Redispatch, RetryFails, RemoveLetter, DeleteLetter,
                OnlyConsole, vars, consumerVars
  <2>2. Grew
    <3>1. CASE Dispatch
      BY <3>1, DispatchedJobs DEF Dispatch
    <3>2. CASE Letters
      <4>1. UNCHANGED jobs \/ \E a \in Console : /\ console[a].pc # "idle"
                                                 /\ jobs' = Append(jobs, Redo(console[a].entry))
        BY <3>2 DEF Letters, Retry, Redispatch, RetryFails, RemoveLetter, DeleteLetter
      <4>2. ASSUME NEW a \in Console, console[a].pc # "idle",
                   jobs' = Append(jobs, Redo(console[a].entry))
            PROVE  Grew
        <5>1. PICK e \in DOMAIN jobs : e = console[a].entry
          BY <4>2, ConsoleFacts
        <5>2. QED BY <4>2, <5>1, RedoneJob
      <4>3. QED BY <4>1, <4>2, SameJobs
    <3>3. CASE UNCHANGED vars
      BY <3>3, SameJobs DEF vars, dispatchVars
    <3>4. QED BY <1>1, <3>1, <3>2, <3>3
  <2>3. ASSUME NEW i \in DOMAIN jobs'
        PROVE  /\ work[i].pc = "gone" => Good(i)'
               /\ work[i].pc = "ended"
                    => Good(i)' \/ (work[i].verdict = "retry" /\ work[i].tries < MaxAttempts)
    <3>1. CASE i \in DOMAIN jobs
      <4>1. Good(i) => Good(i)'
        BY <2>1, <2>2, <3>1 DEF Good, Grew
      <4>2. QED BY <3>1, <4>1 DEF SavedInv
    <3>2. CASE i \notin DOMAIN jobs
      <4>1. DOMAIN jobs' \subseteq JobIds
        <5>1. jobs' \in Seq(Job) /\ Len(jobs') <= MaxJobs
          BY Keeps DEF Grew, IInv, DispatchInv, DispatchTypeOK
        <5>2. QED BY <5>1, LenProperties, AttemptsAssumption DEF JobIds
      <4>2. work[i].pc = "wait"
        BY <2>3, <3>2, <4>1 DEF IInv, WorkInv, Waiting
      <4>3. QED BY <4>2
    <3>3. QED BY <3>1, <3>2
  <2>4. QED BY <2>1, <2>3 DEF SavedInv
<1>2. ASSUME NEW i \in JobIds, Consume(i) PROVE SavedInv'
  <2>1. PICK w : Moves(i, w) /\ Leaves(i, w)
    BY <1>2, ConsumeMoves
  <2>2. /\ work \in [JobIds -> Work] /\ w \in Work /\ work[i] \in Work
        /\ work' = [work EXCEPT ![i] = w] /\ i \in DOMAIN jobs
    BY <2>1, WorkFacts DEF Moves
  <2>3. work'[i] = w /\ \A k \in JobIds : k # i => work'[k] = work[k]
    BY <2>2
  <2>4. Grew /\ stored \subseteq stored'
    <3>1. UNCHANGED jobs \/ jobs' = Append(jobs, Child(i))
      BY <2>1 DEF Leaves
    <3>2. Grew
      BY <2>2, <3>1, SameJobs, ChildJob
    <3>3. QED BY <2>1, <3>2 DEF Leaves
  <2>5. DOMAIN jobs' \subseteq JobIds
    <3>1. jobs' \in Seq(Job) /\ Len(jobs') <= MaxJobs
      BY <2>1, ConsumeKeeps DEF IInv, DispatchInv, DispatchTypeOK
    <3>2. QED BY <3>1, LenProperties, AttemptsAssumption DEF JobIds
  <2>6. ASSUME NEW k \in DOMAIN jobs', k # i
        PROVE  /\ work'[k].pc = "gone" => Good(k)'
               /\ work'[k].pc = "ended"
                    => Good(k)' \/ (work'[k].verdict = "retry" /\ work'[k].tries < MaxAttempts)
    <3>1. work'[k] = work[k]
      BY <2>3, <2>5, <2>6
    <3>2. CASE k \in DOMAIN jobs
      <4>1. Good(k) => Good(k)'
        BY <2>4, <3>1, <3>2 DEF Good, Grew
      <4>2. QED BY <3>1, <3>2, <4>1 DEF SavedInv
    <3>3. CASE k \notin DOMAIN jobs
      BY <2>5, <2>6, <3>1, <3>3 DEF IInv, WorkInv, Waiting
    <3>4. QED BY <3>2, <3>3
  <2>7. w.pc = "ended" => Good(i)' \/ (w.verdict = "retry" /\ w.tries < MaxAttempts)
    <3>1. jobs'[i] = jobs[i]
      BY <2>2, <2>4 DEF Grew
    <3>2. QED BY <2>1, <2>3, <3>1 DEF Moves, Good
  <2>8. w.pc = "gone" => Good(i)'
    <3>1. jobs'[i] = jobs[i]
      BY <2>2, <2>4 DEF Grew
    <3>2. CASE w.hurt > 0
      BY <2>3, <3>2 DEF Good
    <3>3. CASE work[i].pc = "ended" /\ (work[i].verdict = "retry" => work[i].tries >= PlatformMax)
      <4>1. Good(i)
        BY <2>2, <3>3, AttemptsAssumption DEF SavedInv, Work
      <4>2. /\ work[i].wins <= w.wins /\ work[i].hurt <= w.hurt /\ (work[i].own => w.own)
            /\ work[i].wins \in Nat /\ work[i].hurt \in Nat /\ w.wins \in Nat /\ w.hurt \in Nat
        BY <2>1, <2>2 DEF Moves, Work
      <4>3. QED BY <2>3, <2>4, <3>1, <4>1, <4>2 DEF Good
    <3>4. QED BY <2>1, <3>2, <3>3 DEF Moves
  <2>9. QED BY <2>3, <2>6, <2>7, <2>8 DEF SavedInv
<1>3. QED BY <1>1, <1>2 DEF Next

LEMMA Invariant == Spec => []IInv
<1>1. Init => IInv
  BY Starts
<1>2. IInv /\ [Next]_vars => IInv'
  BY Keeps
<1>3. QED BY <1>1, <1>2, PTL DEF Spec

-----------------------------------------------------------------------------
(* The state is of its type: message, call and letter hold together.       *)
THEOREM TypeCorrect == Spec => []TypeOK
<1>1. IInv => TypeOK
  BY DEF IInv
<1>2. QED BY <1>1, Invariant, PTL

(* job.ts checkAndMarkUnique: two jobs under one unique key, in one        *)
(* lifetime of it, come only from two calls that were both between its     *)
(* read and its write.                                                     *)
THEOREM DedupeCorrect == Spec => []DuplicatesOverlap
<1>1. IInv => DuplicatesOverlap
  BY DispatchSafe DEF IInv
<1>2. QED BY <1>1, Invariant, PTL

(* A job that was skipped as a duplicate was sent, is about to be, or the  *)
(* call that marked its key failed.                                        *)
THEOREM SkipsCorrect == Spec => []SkipsAreCovered
<1>1. IInv => SkipsAreCovered
  BY DispatchSafe DEF IInv
<1>2. QED BY <1>1, Invariant, PTL

(* processor.ts: a handler that succeeded runs again only after a fault.   *)
THEOREM AgainCorrect == Spec => []RunsAgainOnlyAfterFault
<1>1. IInv => RunsAgainOnlyAfterFault
  BY DEF IInv, WorkInv, WorkOK, RunsAgainOnlyAfterFault
<1>2. QED BY <1>1, Invariant, PTL

(* A chain follows a success, and goes out once more at most for every     *)
(* crash between its send and the parent's ack.                            *)
THEOREM ChainCorrect == Spec => []ChainFollowsSuccess
<1>1. IInv => ChainFollowsSuccess
  BY JobsFacts DEF IInv, ChainInv, ChainFollowsSuccess
<1>2. QED BY <1>1, Invariant, PTL

(* A job that is done, unharmed and not settled by its handler has sent    *)
(* its chain, if the processor has a queue for it.                         *)
THEOREM ChainSentCorrect == Spec => []ChainIsSent
<1>1. IInv => ChainIsSent
  BY JobsFacts DEF IInv, ChainInv, ChainIsSent, Chained
<1>2. QED BY <1>1, Invariant, PTL

(* A dead letter is gone only if it was deleted or its job is queued.      *)
THEOREM LetterCorrect == Spec => []LetterIsKept
<1>1. IInv => LetterIsKept
  BY DEF IInv, LetterInv
<1>2. QED BY <1>1, Invariant, PTL

(* An undisturbed retry of a dead letter queues its job once.              *)
THEOREM RetryCorrect == Spec => []RetriedOnce
<1>1. IInv => RetriedOnce
  <2> SUFFICES ASSUME IInv, NEW i \in DOMAIN jobs, Cardinality(Redone(i)) > 1,
                      i \notin doubted
               PROVE  FALSE
    BY DEF RetriedOnce
  <2>1. \A j, k \in Redone(i) : j = k
    BY JobsFacts DEF IInv, RedoInv, Calm
  <2>2. Redone(i) = {} \/ \E j : Redone(i) = {j}
    BY <2>1
  <2>3. CASE Redone(i) = {}
    <3>1. Cardinality(Redone(i)) = 0
      BY <2>3, FS_EmptySet
    <3>2. QED BY <3>1
  <2>4. CASE \E j : Redone(i) = {j}
    <3>1. PICK j : Redone(i) = {j}
      BY <2>4
    <3>2. Cardinality({j}) = 1
      BY FS_Singleton
    <3>3. Cardinality(Redone(i)) = 1
      BY <3>1, <3>2
    <3>4. QED BY <3>3
  <2>5. QED BY <2>2, <2>3, <2>4
<1>2. QED BY <1>1, Invariant, PTL

(* If the platform delivers a message as often as the processor attempts   *)
(* it, no job leaves the queue in silence.                                 *)
THEOREM SavedCorrect ==
    ASSUME MaxAttempts <= PlatformMax
    PROVE  Spec => []GivenUpIsKept
<1>1. Init => IInv /\ SavedInv
  BY Starts
<1>2. IInv /\ SavedInv /\ [Next]_vars => IInv' /\ SavedInv'
  BY Keeps, SavedKept
<1>3. IInv /\ SavedInv => GivenUpIsKept
  BY DEF SavedInv, Good, GivenUpIsKept
<1>4. QED BY <1>1, <1>2, <1>3, PTL DEF Spec
=============================================================================
