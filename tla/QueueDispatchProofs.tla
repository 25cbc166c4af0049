------------------------- MODULE QueueDispatchProofs -------------------------
(***************************************************************************)
(* What the dispatcher keeps, step by step, for every set of callers, keys *)
(* and batches, one queue or several: the part of the invariant of         *)
(* QueueJobs that is about QueueDispatch.                                  *)
(***************************************************************************)
EXTENDS QueueDispatch, SequenceTheorems, TLAPS

(* What a call is doing matches what it has left to do. *)
Shaped(r) ==
    /\ r.pc = "idle" => r.staged = NoCall.staged
    /\ r.pc \in {"check", "mark"} => r.todo # <<>>
    /\ r.pc = "mark" => Head(r.todo).key \in Key
    /\ r.pc = "send" => Pending(r) # {}

(* A keyed job, sent or staged, was marked in a lifetime of its key that   *)
(* has begun; if that has not ended, the key is in the store.              *)
Dated(x) == x.key \in Key => /\ x.win <= window[x.key]
                             /\ x.win = window[x.key] => x.key \in seen

(* Two jobs of one key and one lifetime were marked by calls that raced. *)
Apart(x, y) == x.key \in Key /\ x.key = y.key /\ x.win = y.win
                   => [key |-> x.key, win |-> x.win] \in raced

DatedJobs == \A i \in DOMAIN jobs : Dated(jobs[i])
DatedSlots == \A c \in Caller, p \in Priority :
                  \A n \in DOMAIN caller[c].staged[p] : Dated(caller[c].staged[p][n])
ApartJobs == \A i, j \in DOMAIN jobs : i # j => Apart(jobs[i], jobs[j])
ApartMixed == \A i \in DOMAIN jobs, c \in Caller, p \in Priority :
                  \A n \in DOMAIN caller[c].staged[p] : Apart(jobs[i], caller[c].staged[p][n])
ApartSlots == \A c, d \in Caller, p, q \in Priority :
                  \A n \in DOMAIN caller[c].staged[p], m \in DOMAIN caller[d].staged[q] :
                      c # d \/ p # q \/ n # m
                          => Apart(caller[c].staged[p][n], caller[d].staged[q][m])

(* A call that found a key absent which is there now has a rival. *)
Rivals == \A c \in Caller :
    caller[c].pc = "mark" /\ Head(caller[c].todo).key \in seen
        => MarkOf(Head(caller[c].todo).key) \in raced

(* The job a mark was made for was sent, is about to be, or never will be. *)
Covered(m) ==
    \/ m \in unsent
    \/ \E i \in DOMAIN jobs : jobs[i].key = m.key /\ jobs[i].win = m.win
    \/ \E c \in Caller : m \in MarksOf(caller[c].staged)
MarksCovered == /\ \A k \in seen : Covered(MarkOf(k))
                /\ \A m \in skips : Covered(m)

DispatchInv ==
    /\ DispatchTypeOK
    /\ \A c \in Caller : Shaped(caller[c])
    /\ DatedJobs /\ DatedSlots
    /\ ApartJobs /\ ApartMixed /\ ApartSlots
    /\ Rivals /\ MarksCovered

-----------------------------------------------------------------------------
(* Calls, their items and their queues. *)

LEMMA OpenQueues == Open \subseteq Priority /\ Open # {}
BY BindingsAssumption DEF Open, Priority

LEMMA FirstQueue ==
    ASSUME NEW open \in SUBSET Priority, open # {}
    PROVE  First(open) \in open
<1>1. \E p \in open : \A q \in open \ {p} : Before(p, q)
  <2>1. CASE "high" \in open
    BY <2>1 DEF Before, Priority
  <2>2. CASE "high" \notin open /\ "normal" \in open
    BY <2>2 DEF Before, Priority
  <2>3. CASE open = {"low"}
    BY <2>3 DEF Before
  <2>4. QED BY <2>1, <2>2, <2>3 DEF Priority
<1>2. QED BY <1>1 DEF First

LEMMA QueueOfJob ==
    ASSUME NEW batch \in BOOLEAN, NEW p \in Priority
    PROVE  QueueOf(batch, p) \in Priority
BY OpenQueues, FirstQueue DEF QueueOf, Priority

LEMMA NoCallFacts ==
    /\ NoCall \in Call /\ NoCall.pc = "idle"
    /\ \A p \in Priority : NoCall.staged[p] = <<>>
    /\ Shaped(NoCall)
BY DEF NoCall, Call, Shaped

LEMMA CallFacts ==
    ASSUME NEW r \in Call
    PROVE  /\ r.pc \in {"idle", "check", "mark", "send"} /\ r.batch \in BOOLEAN
           /\ r.todo \in Seq(Item) /\ r.staged \in [Priority -> Seq(Staged)]
BY DEF Call

(* What a caller has staged when its call goes on. *)
LEMMA ProceedFacts ==
    ASSUME NEW r \in Call
    PROVE  /\ Proceed(r) \in Call /\ Shaped(Proceed(r)) /\ Proceed(r).pc # "mark"
           /\ \A p \in Priority : Proceed(r).staged[p] \in {r.staged[p], <<>>}
           /\ MarksOf(r.staged) \subseteq LeftBehind(r) \cup MarksOf(Proceed(r).staged)
           /\ LeftBehind(r) \subseteq MarksOf(r.staged)
<1>1. CASE r.todo # <<>>
  <2>1. Proceed(r) = [r EXCEPT !.pc = "check"]
    BY <1>1 DEF Proceed
  <2>2. /\ Proceed(r) \in Call /\ Proceed(r).pc = "check" /\ Proceed(r).todo = r.todo
        /\ Proceed(r).staged = r.staged
    BY <2>1 DEF Call
  <2>3. QED BY <1>1, <2>2 DEF Shaped, LeftBehind
<1>2. CASE r.todo = <<>> /\ Pending(r) # {}
  <2>1. Proceed(r) = [r EXCEPT !.pc = "send"]
    BY <1>2 DEF Proceed
  <2>2. /\ Proceed(r) \in Call /\ Proceed(r).pc = "send" /\ Proceed(r).staged = r.staged
    BY <2>1 DEF Call
  <2>3. QED BY <1>2, <2>2 DEF Shaped, LeftBehind, Pending
<1>3. CASE r.todo = <<>> /\ Pending(r) = {}
  BY <1>3, NoCallFacts DEF Proceed, LeftBehind
<1>4. QED BY <1>1, <1>2, <1>3

LEMMA HeadItem ==
    ASSUME NEW r \in Call, r.todo # <<>>
    PROVE  Head(r.todo) \in Item /\ Tail(r.todo) \in Seq(Item)
BY CallFacts, HeadTailProperties

(* The head of the list joins its queue, marked in its key's lifetime. *)
StagedHead(r) ==
    [key |-> Head(r.todo).key, win |-> MarkOf(Head(r.todo).key).win,
     chain |-> Head(r.todo).chain, known |-> Head(r.todo).known]

LEMMA MarkType ==
    ASSUME DispatchTypeOK, NEW k \in Key \cup {NoKey}
    PROVE  MarkOf(k) \in Mark /\ MarkOf(k).key = k /\ MarkOf(k).win \in Nat
BY DEF DispatchTypeOK, MarkOf, Mark

LEMMA StagingFacts ==
    ASSUME DispatchTypeOK, NEW r \in Call, r.todo # <<>>
    PROVE  /\ StagedHead(r) \in Staged /\ Staging(r) \in Call
           /\ \E q \in Priority : \A p \in Priority :
                Staging(r).staged[p] = IF p = q THEN Append(r.staged[p], StagedHead(r))
                                       ELSE r.staged[p]
<1>1. StagedHead(r) \in Staged
  BY HeadItem, MarkType DEF StagedHead, Item, Staged
<1> DEFINE q == QueueOf(r.batch, Head(r.todo).pri)
<1>2. q \in Priority
  BY HeadItem, QueueOfJob, CallFacts DEF Item
<1>3. Staging(r) = [r EXCEPT !.todo = Tail(r.todo), !.staged[q] = Append(r.staged[q], StagedHead(r))]
  BY <1>2, CallFacts DEF Staging, StagedHead
<1> HIDE DEF q
<1> DEFINE x == Append(r.staged[q], StagedHead(r))
<1>4. x \in Seq(Staged)
  BY <1>1, <1>2, CallFacts, AppendProperties
<1>5. /\ Staging(r) \in Call
      /\ Staging(r).staged = [r.staged EXCEPT ![q] = x]
  <2> HIDE DEF x
  <2>1. Staging(r) = [r EXCEPT !.todo = Tail(r.todo), !.staged[q] = x]
    BY <1>3 DEF x
  <2>2. Tail(r.todo) \in Seq(Item)
    BY HeadItem
  <2> DEFINE st == [r.staged EXCEPT ![q] = x]
             t == Tail(r.todo)
  <2>3. st \in [Priority -> Seq(Staged)]
    BY <1>2, <1>4, CallFacts
  <2>4. Staging(r) = [[r EXCEPT !.todo = t] EXCEPT !.staged = st]
    BY <2>1 DEF Call
  <2> HIDE DEF st, t
  <2>5. t \in Seq(Item)
    BY <2>2 DEF t
  <2>6. [r EXCEPT !.todo = t] \in Call
    BY <2>5 DEF Call
  <2>7. Staging(r) \in Call /\ Staging(r).staged = st
    BY <2>3, <2>4, <2>6 DEF Call
  <2>8. QED BY <2>7 DEF st
<1>6. \A p \in Priority : Staging(r).staged[p] = IF p = q THEN Append(r.staged[p], StagedHead(r))
                                                ELSE r.staged[p]
  BY <1>2, <1>5, CallFacts
<1>7. QED BY <1>1, <1>2, <1>5, <1>6

LEMMA NewJobsFacts ==
    ASSUME NEW q \in Seq(Staged)
    PROVE  /\ NewJobs(q) \in Seq(Job) /\ Len(NewJobs(q)) = Len(q)
           /\ \A i \in DOMAIN q : NewJobs(q)[i].key = q[i].key /\ NewJobs(q)[i].win = q[i].win
<1>1. q \in [1 .. Len(q) -> Staged] /\ Len(q) \in Nat /\ DOMAIN q = 1 .. Len(q)
  BY LenProperties
<1>2. \A i \in DOMAIN q : NewJobs(q)[i] \in Job
  BY <1>1 DEF NewJobs, Staged, Job
<1>3. NewJobs(q) \in [1 .. Len(q) -> Job]
  BY <1>1, <1>2 DEF NewJobs
<1>4. NewJobs(q) \in Seq(Job) /\ Len(NewJobs(q)) = Len(q)
  BY <1>1, <1>3
<1>5. QED BY <1>4 DEF NewJobs

-----------------------------------------------------------------------------
(* How the parts of the invariant are kept. *)

(* Jobs a queue accepted follow the ones before. *)
LEMMA JobsGrow ==
    ASSUME NEW js \in Seq(Job), NEW more \in Seq(Job), NEW js2, js2 = js \o more
    PROVE  /\ js2 \in Seq(Job) /\ Len(js2) = Len(js) + Len(more)
           /\ DOMAIN js \subseteq DOMAIN js2 /\ \A i \in DOMAIN js : js2[i] = js[i]
           /\ \A i \in DOMAIN js2 \ DOMAIN js :
                i - Len(js) \in DOMAIN more /\ js2[i] = more[i - Len(js)]
           /\ \A n \in DOMAIN more : n + Len(js) \in DOMAIN js2 /\ js2[n + Len(js)] = more[n]
<1>1. /\ Len(js) \in Nat /\ DOMAIN js = 1 .. Len(js)
      /\ Len(more) \in Nat /\ DOMAIN more = 1 .. Len(more)
  BY LenProperties
<1>2. /\ js2 \in Seq(Job) /\ Len(js2) = Len(js) + Len(more)
      /\ \A i \in 1 .. Len(js) + Len(more) :
           js2[i] = IF i <= Len(js) THEN js[i] ELSE more[i - Len(js)]
  BY ConcatProperties
<1>3. DOMAIN js2 = 1 .. (Len(js) + Len(more))
  BY <1>2, LenProperties
<1>4. QED BY <1>1, <1>2, <1>3

(* Types and shapes, when one call goes on. *)
LEMMA CallerStep ==
    ASSUME DispatchInv, NEW c \in Caller, NEW r \in Call, Shaped(r),
           caller' = [caller EXCEPT ![c] = r]
    PROVE  /\ caller' \in [Caller -> Call] /\ caller'[c] = r
           /\ \A d \in Caller : d # c => caller'[d] = caller[d]
           /\ \A d \in Caller : Shaped(caller'[d])
BY DEF DispatchInv, DispatchTypeOK

LEMMA JobTypes ==
    ASSUME DispatchTypeOK, NEW i \in DOMAIN jobs
    PROVE  jobs[i] \in Job /\ jobs[i].win \in Nat
<1>1. jobs[i] \in Job
  BY ElementOfSeq, LenProperties DEF DispatchTypeOK
<1>2. QED BY <1>1 DEF Job

LEMMA StagedTypes ==
    ASSUME DispatchTypeOK, NEW c \in Caller, NEW p \in Priority,
           NEW n \in DOMAIN caller[c].staged[p]
    PROVE  caller[c].staged[p][n] \in Staged /\ caller[c].staged[p][n].win \in Nat
<1>1. caller[c].staged[p] \in Seq(Staged)
  BY CallFacts DEF DispatchTypeOK
<1>2. caller[c].staged[p][n] \in Staged
  BY <1>1, ElementOfSeq, LenProperties
<1>3. QED BY <1>2 DEF Staged

(* A step that stages and sends nothing. *)
LEMMA ShrinkStep ==
    ASSUME DispatchInv, UNCHANGED <<seen, window, jobs>>, raced \subseteq raced',
           \A c \in Caller, p \in Priority :
               caller'[c].staged[p] \in {caller[c].staged[p], <<>>}
    PROVE  DatedJobs' /\ DatedSlots' /\ ApartJobs' /\ ApartMixed' /\ ApartSlots'
<1>1. DatedJobs' /\ ApartJobs'
  BY DEF DispatchInv, DatedJobs, ApartJobs, Dated, Apart
<1>2. \A c \in Caller, p \in Priority : \A n \in DOMAIN caller'[c].staged[p] :
          n \in DOMAIN caller[c].staged[p] /\ caller'[c].staged[p][n] = caller[c].staged[p][n]
  OBVIOUS
<1>3. DatedSlots'
  BY <1>2 DEF DispatchInv, DatedSlots, Dated
<1>4. ApartMixed'
  BY <1>2 DEF DispatchInv, ApartMixed, Apart
<1>5. ApartSlots'
  <2>1. ASSUME NEW c \in Caller, NEW d \in Caller, NEW p \in Priority, NEW q \in Priority,
               NEW n \in DOMAIN caller'[c].staged[p], NEW m \in DOMAIN caller'[d].staged[q],
               c # d \/ p # q \/ n # m
        PROVE  Apart(caller[c].staged[p][n], caller[d].staged[q][m])'
    <3>1. Apart(caller[c].staged[p][n], caller[d].staged[q][m])
      BY <1>2, <2>1 DEF DispatchInv, ApartSlots
    <3>2. QED BY <1>2, <3>1 DEF Apart
  <2>2. QED BY <2>1 DEF ApartSlots
<1>6. QED BY <1>1, <1>3, <1>4, <1>5

(* A step that stages one more job, apart from all there are. *)
LEMMA StageStep ==
    ASSUME DispatchInv, UNCHANGED <<window, jobs>>, raced \subseteq raced', seen \subseteq seen',
           NEW c \in Caller, NEW s \in Staged, NEW q \in Priority, Dated(s)',
           \A x : Dated(x) /\ x.win \in Nat => Apart(x, s)' /\ Apart(s, x)',
           \A d \in Caller, p \in Priority :
               \/ caller'[d].staged[p] \in {caller[d].staged[p], <<>>}
               \/ d = c /\ p = q /\ caller'[d].staged[p] = Append(caller[d].staged[p], s)
    PROVE  DatedJobs' /\ DatedSlots' /\ ApartJobs' /\ ApartMixed' /\ ApartSlots'
<1>1. DatedJobs' /\ ApartJobs'
  BY DEF DispatchInv, DatedJobs, ApartJobs, Dated, Apart
<1> DEFINE old(d, p, n) == /\ n \in DOMAIN caller[d].staged[p]
                           /\ caller'[d].staged[p][n] = caller[d].staged[p][n]
           new(d, p, n) == /\ d = c /\ p = q /\ n = Len(caller[c].staged[q]) + 1
                           /\ caller'[d].staged[p][n] = s
<1>2. \A d \in Caller, p \in Priority : \A n \in DOMAIN caller'[d].staged[p] :
          old(d, p, n) \/ new(d, p, n)
  <2>1. caller[c].staged[q] \in Seq(Staged)
    BY CallFacts DEF DispatchInv, DispatchTypeOK
  <2> DEFINE t == Append(caller[c].staged[q], s)
             l == Len(caller[c].staged[q])
  <2>2. /\ t \in Seq(Staged) /\ Len(t) = l + 1 /\ l \in Nat
        /\ DOMAIN caller[c].staged[q] = 1 .. l /\ DOMAIN t = 1 .. (l + 1)
        /\ \A n \in 1 .. l : t[n] = caller[c].staged[q][n]
        /\ t[l + 1] = s
    BY <2>1, AppendProperties, LenProperties
  <2>3. \A n \in DOMAIN t : (n \in DOMAIN caller[c].staged[q] /\ t[n] = caller[c].staged[q][n])
                            \/ (n = l + 1 /\ t[n] = s)
    BY <2>2
  <2> HIDE DEF t, l
  <2>4. ASSUME NEW d \in Caller, NEW p \in Priority, NEW n \in DOMAIN caller'[d].staged[p]
        PROVE  old(d, p, n) \/ new(d, p, n)
    <3>1. CASE caller'[d].staged[p] \in {caller[d].staged[p], <<>>}
      BY <3>1, <2>4
    <3>2. CASE d = c /\ p = q /\ caller'[d].staged[p] = t
      BY <3>2, <2>3, <2>4 DEF l
    <3>3. QED BY <3>1, <3>2 DEF t
  <2>5. QED BY <2>4
<1>3. \A d \in Caller, p \in Priority : \A n \in DOMAIN caller[d].staged[p] :
          Dated(caller[d].staged[p][n]) /\ caller[d].staged[p][n].win \in Nat
  BY StagedTypes DEF DispatchInv, DatedSlots
<1>4. \A i \in DOMAIN jobs : Dated(jobs[i]) /\ jobs[i].win \in Nat
  BY JobTypes DEF DispatchInv, DatedJobs
<1> HIDE DEF old, new
<1>5. DatedSlots'
  <2>1. ASSUME NEW d \in Caller, NEW p \in Priority, NEW n \in DOMAIN caller'[d].staged[p]
        PROVE  Dated(caller[d].staged[p][n])'
    BY <1>2, <1>3, <2>1 DEF old, new, Dated
  <2>2. QED BY <2>1 DEF DatedSlots
<1>6. ApartMixed'
  <2>1. ASSUME NEW i \in DOMAIN jobs, NEW d \in Caller, NEW p \in Priority,
               NEW n \in DOMAIN caller'[d].staged[p]
        PROVE  Apart(jobs[i], caller[d].staged[p][n])'
    <3>1. CASE old(d, p, n)
      BY <3>1 DEF old, DispatchInv, ApartMixed, Apart
    <3>2. CASE new(d, p, n)
      <4>1. Apart(jobs[i], s)'
        BY <1>4
      <4>2. QED BY <3>2, <4>1 DEF new, Apart
    <3>3. QED BY <1>2, <3>1, <3>2
  <2>2. QED BY <2>1 DEF ApartMixed
<1>7. ApartSlots'
  <2>1. ASSUME NEW d \in Caller, NEW e \in Caller, NEW p \in Priority, NEW o \in Priority,
               NEW n \in DOMAIN caller'[d].staged[p], NEW m \in DOMAIN caller'[e].staged[o],
               d # e \/ p # o \/ n # m
        PROVE  Apart(caller[d].staged[p][n], caller[e].staged[o][m])'
    <3>1. CASE old(d, p, n) /\ old(e, o, m)
      <4>1. Apart(caller[d].staged[p][n], caller[e].staged[o][m])
        BY <2>1, <3>1 DEF old, DispatchInv, ApartSlots
      <4>2. QED BY <3>1, <4>1 DEF old, Apart
    <3>2. CASE old(d, p, n) /\ new(e, o, m)
      <4>1. PICK x : x = caller[d].staged[p][n] /\ Dated(x) /\ x.win \in Nat
        BY <1>3, <3>2 DEF old
      <4>2. Apart(x, s)'
        BY <4>1
      <4>3. QED BY <3>2, <4>1, <4>2 DEF old, new, Apart
    <3>3. CASE new(d, p, n) /\ old(e, o, m)
      <4>1. PICK x : x = caller[e].staged[o][m] /\ Dated(x) /\ x.win \in Nat
        BY <1>3, <3>3 DEF old
      <4>2. Apart(s, x)'
        BY <4>1
      <4>3. QED BY <3>3, <4>1, <4>2 DEF old, new, Apart
    <3>4. CASE new(d, p, n) /\ new(e, o, m)
      BY <2>1, <3>4 DEF new
    <3>5. QED BY <1>2, <3>1, <3>2, <3>3, <3>4
  <2>2. QED BY <2>1 DEF ApartSlots
<1>8. QED BY <1>1, <1>5, <1>6, <1>7

(* What a call staged for a queue becomes jobs, and is staged no more. *)
LEMMA SendStep ==
    ASSUME DispatchInv, UNCHANGED <<seen, window, raced>>,
           NEW c \in Caller, NEW q \in Priority,
           jobs' = jobs \o NewJobs(caller[c].staged[q]), caller'[c].staged[q] = <<>>,
           \A d \in Caller, p \in Priority :
               caller'[d].staged[p] \in {caller[d].staged[p], <<>>}
    PROVE  /\ DatedJobs' /\ DatedSlots' /\ ApartJobs' /\ ApartMixed' /\ ApartSlots'
           /\ jobs' \in Seq(Job)
<1> DEFINE sent == caller[c].staged[q]
           old(i) == i \in DOMAIN jobs /\ jobs'[i] = jobs[i]
           new(i) == /\ i \notin DOMAIN jobs /\ i - Len(jobs) \in DOMAIN sent
                     /\ jobs'[i].key = sent[i - Len(jobs)].key
                     /\ jobs'[i].win = sent[i - Len(jobs)].win
<1>1. jobs \in Seq(Job) /\ sent \in Seq(Staged)
  BY CallFacts DEF DispatchInv, DispatchTypeOK
<1>2. jobs' \in Seq(Job) /\ \A i \in DOMAIN jobs' : old(i) \/ new(i)
  BY <1>1, NewJobsFacts, JobsGrow, LenProperties
<1>3. /\ Len(jobs) \in Nat /\ DOMAIN jobs' = 1 .. Len(jobs') /\ Len(jobs') \in Nat
      /\ DOMAIN sent \subseteq Nat
  BY <1>1, <1>2, LenProperties
<1>4. \A d \in Caller, p \in Priority : \A n \in DOMAIN caller'[d].staged[p] :
          /\ n \in DOMAIN caller[d].staged[p] /\ caller'[d].staged[p][n] = caller[d].staged[p][n]
          /\ d # c \/ p # q
  OBVIOUS
<1>5. DatedSlots'
  <2>1. ASSUME NEW d \in Caller, NEW p \in Priority, NEW n \in DOMAIN caller'[d].staged[p]
        PROVE  Dated(caller[d].staged[p][n])'
    <3>1. Dated(caller[d].staged[p][n])
      BY <1>4 DEF DispatchInv, DatedSlots
    <3>2. caller'[d].staged[p][n] = caller[d].staged[p][n]
      BY <1>4
    <3>3. QED BY <3>1, <3>2 DEF Dated
  <2>2. QED BY <2>1 DEF DatedSlots
<1>6. ApartSlots'
  <2>1. ASSUME NEW d \in Caller, NEW e \in Caller, NEW p \in Priority, NEW o \in Priority,
               NEW n \in DOMAIN caller'[d].staged[p], NEW m \in DOMAIN caller'[e].staged[o],
               d # e \/ p # o \/ n # m
        PROVE  Apart(caller[d].staged[p][n], caller[e].staged[o][m])'
    <3>1. Apart(caller[d].staged[p][n], caller[e].staged[o][m])
      BY <1>4, <2>1 DEF DispatchInv, ApartSlots
    <3>2. caller'[d].staged[p][n] = caller[d].staged[p][n] /\ caller'[e].staged[o][m] = caller[e].staged[o][m]
      BY <1>4
    <3>3. QED BY <3>1, <3>2 DEF Apart
  <2>2. QED BY <2>1 DEF ApartSlots
<1>7. DatedJobs'
  <2>1. ASSUME NEW i \in DOMAIN jobs' PROVE Dated(jobs[i])'
    <3>1. CASE old(i)
      <4>1. Dated(jobs[i])
        BY <3>1 DEF DispatchInv, DatedJobs
      <4>2. QED BY <3>1, <4>1 DEF Dated
    <3>2. CASE new(i)
      <4>1. Dated(sent[i - Len(jobs)])
        BY <3>2 DEF DispatchInv, DatedSlots
      <4>2. QED BY <3>2, <4>1 DEF Dated
    <3>3. QED BY <1>2, <3>1, <3>2
  <2>2. QED BY <2>1 DEF DatedJobs
<1>8. ApartMixed'
  <2>1. ASSUME NEW i \in DOMAIN jobs', NEW d \in Caller, NEW p \in Priority,
               NEW n \in DOMAIN caller'[d].staged[p]
        PROVE  Apart(jobs[i], caller[d].staged[p][n])'
    <3>1. CASE old(i)
      <4>1. Apart(jobs[i], caller[d].staged[p][n])
        BY <1>4, <2>1, <3>1 DEF DispatchInv, ApartMixed
      <4>2. QED BY <1>4, <2>1, <3>1, <4>1 DEF Apart
    <3>2. CASE new(i)
      <4>1. Apart(sent[i - Len(jobs)], caller[d].staged[p][n])
        BY <1>4, <2>1, <3>2 DEF DispatchInv, ApartSlots
      <4>2. QED BY <1>4, <2>1, <3>2, <4>1 DEF Apart
    <3>3. QED BY <1>2, <2>1, <3>1, <3>2
  <2>2. QED BY <2>1 DEF ApartMixed
<1>9. ApartJobs'
  <2>1. ASSUME NEW i \in DOMAIN jobs', NEW j \in DOMAIN jobs', i # j
        PROVE  Apart(jobs[i], jobs[j])'
    <3>1. CASE old(i) /\ old(j)
      <4>1. Apart(jobs[i], jobs[j])
        BY <2>1, <3>1 DEF DispatchInv, ApartJobs
      <4>2. QED BY <3>1, <4>1 DEF Apart
    <3>2. CASE old(i) /\ new(j)
      <4>1. Apart(jobs[i], sent[j - Len(jobs)])
        BY <3>2 DEF DispatchInv, ApartMixed
      <4>2. QED BY <3>2, <4>1 DEF Apart
    <3>3. CASE new(i) /\ old(j)
      <4>1. Apart(jobs[j], sent[i - Len(jobs)])
        BY <3>3 DEF DispatchInv, ApartMixed
      <4>2. QED BY <3>3, <4>1 DEF Apart
    <3>4. CASE new(i) /\ new(j)
      <4>1. i - Len(jobs) # j - Len(jobs)
        BY <1>3, <2>1
      <4>2. Apart(sent[i - Len(jobs)], sent[j - Len(jobs)])
        BY <3>4, <4>1 DEF DispatchInv, ApartSlots
      <4>3. QED BY <3>4, <4>2 DEF Apart
    <3>5. QED BY <1>2, <2>1, <3>1, <3>2, <3>3, <3>4
  <2>2. QED BY <2>1 DEF ApartJobs
<1>10. QED BY <1>2, <1>5, <1>6, <1>7, <1>8, <1>9

(* Rivals, when no lifetime ends and a call goes on to mark only keys that *)
(* are absent.                                                             *)
LEMMA RivalsKept ==
    ASSUME DispatchInv, UNCHANGED <<seen, window>>, raced \subseteq raced',
           \A c \in Caller : caller'[c].pc = "mark"
               => caller'[c] = caller[c] \/ Head(caller'[c].todo).key \notin seen
    PROVE  Rivals'
BY DEF DispatchInv, Rivals, MarkOf

LEMMA CoveredKept ==
    ASSUME unsent \subseteq unsent',
           DOMAIN jobs \subseteq DOMAIN jobs', \A i \in DOMAIN jobs : jobs'[i] = jobs[i],
           \A c \in Caller : \A m \in MarksOf(caller[c].staged) : Covered(m)',
           NEW m, Covered(m)
    PROVE  Covered(m)'
<1>1. CASE m \in unsent
  BY <1>1 DEF Covered
<1>2. CASE \E i \in DOMAIN jobs : jobs[i].key = m.key /\ jobs[i].win = m.win
  BY <1>2 DEF Covered
<1>3. CASE \E c \in Caller : m \in MarksOf(caller[c].staged)
  BY <1>3
<1>4. QED BY <1>1, <1>2, <1>3 DEF Covered

LEMMA MarksKept ==
    ASSUME DispatchInv, UNCHANGED window,
           \A m : Covered(m) => Covered(m)',
           \A k \in seen' : k \in seen \/ Covered(MarkOf(k))',
           \A m \in skips' : m \in skips \/ Covered(m)
    PROVE  MarksCovered'
BY DEF DispatchInv, MarksCovered, MarkOf

LEMMA MarksMember ==
    ASSUME NEW staged, NEW m
    PROVE  m \in MarksOf(staged) <=> \E p \in Priority : \E n \in DOMAIN staged[p] :
               m = [key |-> staged[p][n].key, win |-> staged[p][n].win]
BY DEF MarksOf, MarksIn

LEMMA MarksTyped ==
    ASSUME NEW staged \in [Priority -> Seq(Staged)]
    PROVE  MarksOf(staged) \subseteq Mark
<1>1. ASSUME NEW p \in Priority, NEW n \in DOMAIN staged[p]
      PROVE  [key |-> staged[p][n].key, win |-> staged[p][n].win] \in Mark
  <2>1. staged[p][n] \in Staged
    BY ElementOfSeq, LenProperties
  <2>2. QED BY <2>1 DEF Staged, Mark
<1>2. QED BY <1>1, MarksMember

(* What is covered stays so, when one call goes on and its own marks do. *)
LEMMA CallGoesOn ==
    ASSUME DispatchInv, NEW c \in Caller, NEW r \in Call,
           caller' = [caller EXCEPT ![c] = r], unsent \subseteq unsent',
           DOMAIN jobs \subseteq DOMAIN jobs', \A i \in DOMAIN jobs : jobs'[i] = jobs[i],
           \A m \in MarksOf(caller[c].staged) : Covered(m)'
    PROVE  \A m : Covered(m) => Covered(m)'
<1>1. \A d \in Caller : d # c => caller'[d] = caller[d]
  BY DEF DispatchInv, DispatchTypeOK
<1>2. \A d \in Caller : \A m \in MarksOf(caller[d].staged) : Covered(m)'
  <2>1. ASSUME NEW d \in Caller, d # c, NEW m \in MarksOf(caller[d].staged) PROVE Covered(m)'
    BY <1>1, <2>1 DEF Covered
  <2>2. QED BY <2>1
<1>3. QED BY <1>2, CoveredKept

-----------------------------------------------------------------------------
(* The steps of a call. *)

LEMMA BeginKept ==
    ASSUME DispatchInv, NEW c \in Caller, NEW items \in Batches, NEW batch \in BOOLEAN,
           Begin(c, items, batch)
    PROVE  DispatchInv'
<1> DEFINE r == [NoCall EXCEPT !.pc = "check", !.batch = batch, !.todo = items]
<1>1. /\ r \in Call /\ Shaped(r) /\ r.pc = "check" /\ r.staged = NoCall.staged
  BY NoCallFacts, BatchesAssumption DEF Call, Shaped
<1>2. caller' = [caller EXCEPT ![c] = r]
  BY DEF Begin
<1> HIDE DEF r
<1>3. /\ caller' \in [Caller -> Call] /\ caller'[c] = r
      /\ \A d \in Caller : d # c => caller'[d] = caller[d]
      /\ \A d \in Caller : Shaped(caller'[d])
  BY <1>1, <1>2, CallerStep
<1>4. caller[c].staged = NoCall.staged
  BY DEF Begin, DispatchInv, Shaped
<1>5. DispatchTypeOK'
  BY <1>3, DispatchBounds DEF Begin, DispatchInv, DispatchTypeOK
<1>6. \A d \in Caller : caller'[d].staged = caller[d].staged
  BY <1>1, <1>3, <1>4
<1>7. DatedJobs' /\ DatedSlots' /\ ApartJobs' /\ ApartMixed' /\ ApartSlots'
  BY <1>6, ShrinkStep DEF Begin
<1>8. Rivals'
  BY <1>1, <1>3, RivalsKept DEF Begin
<1>9. \A m : Covered(m) => Covered(m)'
  BY <1>6 DEF Begin, Covered
<1>10. MarksCovered'
  BY <1>9, MarksKept DEF Begin
<1>11. \A d \in Caller : Shaped(caller[d])'
  BY <1>3 DEF Shaped, Pending, Open
<1>12. QED BY <1>5, <1>7, <1>8, <1>10, <1>11 DEF DispatchInv

(* A call that stages the head of its list and goes on. *)
LEMMA StagingMoves ==
    ASSUME DispatchInv, NEW c \in Caller, caller[c].todo # <<>>, UNCHANGED jobs,
           caller' = [caller EXCEPT ![c] = Proceed(Staging(caller[c]))],
           unsent' = unsent \cup LeftBehind(Staging(caller[c]))
    PROVE  /\ caller' \in [Caller -> Call] /\ unsent' \in SUBSET Mark
           /\ \A d \in Caller : Shaped(caller'[d])
           /\ caller'[c].pc # "mark" /\ \A d \in Caller : d # c => caller'[d] = caller[d]
           /\ StagedHead(caller[c]) \in Staged
           /\ \E q \in Priority : \A d \in Caller, p \in Priority :
               \/ caller'[d].staged[p] \in {caller[d].staged[p], <<>>}
               \/ /\ d = c /\ p = q
                  /\ caller'[d].staged[p] = Append(caller[d].staged[p], StagedHead(caller[c]))
           /\ \A m : Covered(m) => Covered(m)'
           /\ \A m : m = [key |-> StagedHead(caller[c]).key, win |-> StagedHead(caller[c]).win]
                    => Covered(m)'
<1> DEFINE r == Staging(caller[c])
           s == StagedHead(caller[c])
<1>1. caller[c] \in Call /\ DispatchTypeOK
  BY DEF DispatchInv, DispatchTypeOK
<1>2. PICK q \in Priority : \A p \in Priority :
          r.staged[p] = IF p = q THEN Append(caller[c].staged[p], s) ELSE caller[c].staged[p]
  BY <1>1, StagingFacts
<1>3. r \in Call /\ s \in Staged
  BY <1>1, StagingFacts
<1> HIDE DEF r
<1>4. /\ Proceed(r) \in Call /\ Shaped(Proceed(r)) /\ Proceed(r).pc # "mark"
      /\ \A p \in Priority : Proceed(r).staged[p] \in {r.staged[p], <<>>}
      /\ MarksOf(r.staged) \subseteq LeftBehind(r) \cup MarksOf(Proceed(r).staged)
      /\ LeftBehind(r) \subseteq MarksOf(r.staged)
  BY <1>3, ProceedFacts
<1>5. /\ caller' = [caller EXCEPT ![c] = Proceed(r)] /\ unsent' = unsent \cup LeftBehind(r)
  BY DEF r
<1> HIDE DEF s
<1>6. /\ caller' \in [Caller -> Call] /\ caller'[c] = Proceed(r)
      /\ \A d \in Caller : d # c => caller'[d] = caller[d]
      /\ \A d \in Caller : Shaped(caller'[d])
  BY <1>4, <1>5, CallerStep
<1>7. unsent' \in SUBSET Mark
  <2>1. MarksOf(r.staged) \subseteq Mark
    BY <1>3, CallFacts, MarksTyped
  <2>2. QED BY <1>1, <1>4, <1>5, <2>1 DEF DispatchTypeOK
<1>8. \A d \in Caller, p \in Priority :
          \/ caller'[d].staged[p] \in {caller[d].staged[p], <<>>}
          \/ /\ d = c /\ p = q /\ caller'[d].staged[p] = Append(caller[d].staged[p], s)
  <2>1. \A p \in Priority : caller'[c].staged[p] \in {r.staged[p], <<>>}
    BY <1>4, <1>6
  <2>2. \A p \in Priority : r.staged[p] = caller[c].staged[p]
                          \/ (p = q /\ r.staged[p] = Append(caller[c].staged[p], s))
    BY <1>2
  <2>3. QED BY <1>6, <2>1, <2>2
<1>9. ASSUME NEW m \in MarksOf(r.staged) PROVE Covered(m)'
  BY <1>4, <1>5, <1>6, <1>9 DEF Covered
<1>10. \A p \in Priority : caller[c].staged[p] \in Seq(Staged)
  BY <1>1, CallFacts
<1>11. MarksOf(caller[c].staged) \subseteq MarksOf(r.staged)
  <2>1. ASSUME NEW p \in Priority, NEW n \in DOMAIN caller[c].staged[p]
        PROVE  n \in DOMAIN r.staged[p] /\ r.staged[p][n] = caller[c].staged[p][n]
    <3>1. /\ DOMAIN caller[c].staged[p] = 1 .. Len(caller[c].staged[p])
          /\ Len(caller[c].staged[p]) \in Nat
      BY <1>10, LenProperties
    <3>2. CASE p = q
      <4>1. r.staged[p] = Append(caller[c].staged[p], s)
        BY <1>2, <3>2
      <4>2. QED BY <1>3, <1>10, <3>1, <4>1, AppendProperties
    <3>3. CASE p # q
      BY <1>2, <3>3
    <3>4. QED BY <3>2, <3>3
  <2>2. QED BY <2>1, MarksMember
<1>12. [key |-> s.key, win |-> s.win] \in MarksOf(r.staged)
  <2>1. r.staged[q] = Append(caller[c].staged[q], s)
    BY <1>2
  <2>2. Len(caller[c].staged[q]) + 1 \in DOMAIN r.staged[q]
        /\ r.staged[q][Len(caller[c].staged[q]) + 1] = s
    BY <1>3, <1>10, <2>1, AppendProperties, LenProperties
  <2>3. QED BY <2>2, MarksMember
<1>13. \A m : Covered(m) => Covered(m)'
  BY <1>4, <1>5, <1>9, <1>11, CallGoesOn
<1>14. \A m : m = [key |-> s.key, win |-> s.win] => Covered(m)'
  BY <1>9, <1>12
<1>15. QED BY <1>3, <1>4, <1>6, <1>7, <1>8, <1>13, <1>14 DEF s

LEMMA UnkeyedKept ==
    ASSUME DispatchInv, NEW c \in Caller, Unkeyed(c)
    PROVE  DispatchInv'
<1> DEFINE s == StagedHead(caller[c])
<1>1. caller[c].todo # <<>> /\ s.key = NoKey
  BY DEF DispatchInv, Shaped, Unkeyed, StagedHead
<1>2. /\ caller' = [caller EXCEPT ![c] = Proceed(Staging(caller[c]))]
      /\ unsent' = unsent \cup LeftBehind(Staging(caller[c]))
      /\ UNCHANGED <<seen, window, jobs, skips, raced, calls, faults>>
  BY DEF Unkeyed
<1>3. /\ caller' \in [Caller -> Call] /\ unsent' \in SUBSET Mark
      /\ \A d \in Caller : Shaped(caller'[d])
      /\ caller'[c].pc # "mark" /\ \A d \in Caller : d # c => caller'[d] = caller[d]
      /\ s \in Staged
      /\ \A m : Covered(m) => Covered(m)'
  BY <1>1, <1>2, StagingMoves
<1>4. PICK q \in Priority : \A d \in Caller, p \in Priority :
          \/ caller'[d].staged[p] \in {caller[d].staged[p], <<>>}
          \/ /\ d = c /\ p = q /\ caller'[d].staged[p] = Append(caller[d].staged[p], s)
  BY <1>1, <1>2, StagingMoves
<1>5. DispatchTypeOK'
  BY <1>2, <1>3 DEF DispatchInv, DispatchTypeOK
<1>6. DatedJobs' /\ DatedSlots' /\ ApartJobs' /\ ApartMixed' /\ ApartSlots'
  <2>1. PICK x : x = s
    OBVIOUS
  <2>2. Dated(x)' /\ \A y : Apart(y, x)' /\ Apart(x, y)'
    BY <1>1, <2>1, KeysAssumption DEF Dated, Apart
  <2> HIDE DEF s
  <2>3. QED BY <1>2, <1>3, <1>4, <2>1, <2>2, StageStep
<1>7. Rivals'
  BY <1>2, <1>3, RivalsKept
<1>8. MarksCovered'
  BY <1>2, <1>3, MarksKept
<1>9. \A d \in Caller : Shaped(caller[d])'
  BY <1>3 DEF Shaped, Pending, Open
<1>10. QED BY <1>5, <1>6, <1>7, <1>8, <1>9 DEF DispatchInv

LEMMA SkipKept ==
    ASSUME DispatchInv, NEW c \in Caller, Skip(c)
    PROVE  DispatchInv'
<1> DEFINE k == Head(caller[c].todo).key
           t == Tail(caller[c].todo)
           r == [caller[c] EXCEPT !.todo = t]
<1>1. /\ caller[c] \in Call /\ caller[c].todo # <<>> /\ DispatchTypeOK
  BY DEF DispatchInv, DispatchTypeOK, Skip, Shaped
<1>2. r \in Call /\ r.staged = caller[c].staged
  <2>1. t \in Seq(Item)
    BY <1>1, HeadItem
  <2> HIDE DEF t
  <2>2. QED BY <1>1, <2>1 DEF Call
<1>3. /\ k \in seen
      /\ caller' = [caller EXCEPT ![c] = Proceed(r)]
      /\ skips' = skips \cup {MarkOf(k)} /\ unsent' = unsent \cup LeftBehind(r)
      /\ UNCHANGED <<seen, window, jobs, raced, calls, faults>>
  BY DEF Skip
<1> HIDE DEF r
<1>4. /\ Proceed(r) \in Call /\ Shaped(Proceed(r)) /\ Proceed(r).pc # "mark"
      /\ \A p \in Priority : Proceed(r).staged[p] \in {r.staged[p], <<>>}
      /\ MarksOf(r.staged) \subseteq LeftBehind(r) \cup MarksOf(Proceed(r).staged)
      /\ LeftBehind(r) \subseteq MarksOf(r.staged)
  BY <1>2, ProceedFacts
<1>5. /\ caller' \in [Caller -> Call] /\ caller'[c] = Proceed(r)
      /\ \A d \in Caller : d # c => caller'[d] = caller[d]
      /\ \A d \in Caller : Shaped(caller'[d])
  BY <1>3, <1>4, CallerStep
<1>6. DispatchTypeOK'
  <2>1. MarksOf(r.staged) \subseteq Mark
    BY <1>2, CallFacts, MarksTyped
  <2>2. k \in Key
    BY <1>1, <1>3 DEF DispatchTypeOK
  <2>3. MarkOf(k) \in Mark
    BY <1>1, <2>2, MarkType
  <2>4. unsent' \in SUBSET Mark /\ skips' \in SUBSET Mark
    BY <1>1, <1>3, <1>4, <2>1, <2>3 DEF DispatchTypeOK
  <2>5. QED BY <1>1, <1>3, <1>5, <2>4 DEF DispatchTypeOK
<1>7. DatedJobs' /\ DatedSlots' /\ ApartJobs' /\ ApartMixed' /\ ApartSlots'
  <2>1. \A d \in Caller, p \in Priority : caller'[d].staged[p] \in {caller[d].staged[p], <<>>}
    BY <1>2, <1>4, <1>5
  <2>2. QED BY <1>3, <2>1, ShrinkStep
<1>8. Rivals'
  BY <1>3, <1>4, <1>5, RivalsKept
<1>9. \A m : Covered(m) => Covered(m)'
  <2>1. \A m \in MarksOf(caller[c].staged) : Covered(m)'
    BY <1>2, <1>3, <1>4, <1>5 DEF Covered
  <2>2. QED BY <1>3, <1>4, <2>1, CallGoesOn
<1>10. MarksCovered'
  <2>1. \A m \in skips' : m \in skips \/ Covered(m)
    BY <1>3 DEF DispatchInv, MarksCovered
  <2>2. QED BY <1>3, <1>9, <2>1, MarksKept
<1>11. \A d \in Caller : Shaped(caller[d])'
  BY <1>5 DEF Shaped, Pending, Open
<1>12. QED BY <1>6, <1>7, <1>8, <1>10, <1>11 DEF DispatchInv

LEMMA CheckKept ==
    ASSUME DispatchInv, NEW c \in Caller, Check(c)
    PROVE  DispatchInv'
<1> DEFINE r == [caller[c] EXCEPT !.pc = "mark"]
<1>1. /\ caller[c] \in Call /\ caller[c].todo # <<>>
      /\ Head(caller[c].todo).key \in Key /\ Head(caller[c].todo).key \notin seen
  BY DEF DispatchInv, DispatchTypeOK, Check, Fresh, Shaped
<1>2. /\ r \in Call /\ Shaped(r) /\ r.staged = caller[c].staged /\ r.todo = caller[c].todo
  BY <1>1 DEF Call, Shaped
<1>3. /\ caller' = [caller EXCEPT ![c] = r]
      /\ UNCHANGED <<seen, window, jobs, skips, unsent, raced, calls, faults>>
  BY DEF Check
<1> HIDE DEF r
<1>4. /\ caller' \in [Caller -> Call] /\ caller'[c] = r
      /\ \A d \in Caller : d # c => caller'[d] = caller[d]
      /\ \A d \in Caller : Shaped(caller'[d])
  BY <1>2, <1>3, CallerStep
<1>5. DispatchTypeOK'
  BY <1>3, <1>4 DEF DispatchInv, DispatchTypeOK
<1>6. \A d \in Caller : caller'[d].staged = caller[d].staged
  BY <1>2, <1>4
<1>7. DatedJobs' /\ DatedSlots' /\ ApartJobs' /\ ApartMixed' /\ ApartSlots'
  BY <1>3, <1>6, ShrinkStep
<1>8. Rivals'
  BY <1>1, <1>2, <1>3, <1>4, RivalsKept
<1>9. \A m : Covered(m) => Covered(m)'
  BY <1>3, <1>6 DEF Covered
<1>10. MarksCovered'
  BY <1>3, <1>9, MarksKept
<1>11. \A d \in Caller : Shaped(caller[d])'
  BY <1>4 DEF Shaped, Pending, Open
<1>12. QED BY <1>5, <1>7, <1>8, <1>10, <1>11 DEF DispatchInv

(* The new job is apart from all of its key's lifetime: if there is one,   *)
(* the key is in the store, so the call that now writes it had a rival.    *)
LEMMA PutKeyKept ==
    ASSUME DispatchInv, NEW c \in Caller, PutKey(c)
    PROVE  DispatchInv'
<1> DEFINE s == StagedHead(caller[c])
<1>1. /\ caller[c].pc = "mark" /\ caller[c].todo # <<>> /\ DispatchTypeOK
  BY DEF DispatchInv, Shaped, PutKey
<1>2. PICK k : k = Head(caller[c].todo).key
  OBVIOUS
<1>3. k \in Key /\ MarkOf(k) \in Mark /\ MarkOf(k) = [key |-> k, win |-> window[k]]
  BY <1>1, <1>2, MarkType DEF DispatchInv, Shaped, MarkOf
<1>4. s.key = k /\ s.win = window[k] /\ s.win \in Nat
  BY <1>1, <1>2, <1>3 DEF StagedHead, DispatchTypeOK
<1>5. /\ caller' = [caller EXCEPT ![c] = Proceed(Staging(caller[c]))]
      /\ unsent' = unsent \cup LeftBehind(Staging(caller[c]))
      /\ seen' = seen \cup {k}
      /\ raced' = IF Racing(c, k) THEN raced \cup {MarkOf(k)} ELSE raced
      /\ UNCHANGED <<window, jobs, skips, calls, faults>>
  BY <1>2 DEF PutKey
<1>6. /\ caller' \in [Caller -> Call] /\ unsent' \in SUBSET Mark
      /\ \A d \in Caller : Shaped(caller'[d])
      /\ caller'[c].pc # "mark" /\ \A d \in Caller : d # c => caller'[d] = caller[d]
      /\ s \in Staged
      /\ \A m : Covered(m) => Covered(m)'
      /\ \A m : m = [key |-> s.key, win |-> s.win] => Covered(m)'
  BY <1>1, <1>5, StagingMoves
<1>7. PICK q \in Priority : \A d \in Caller, p \in Priority :
          \/ caller'[d].staged[p] \in {caller[d].staged[p], <<>>}
          \/ /\ d = c /\ p = q /\ caller'[d].staged[p] = Append(caller[d].staged[p], s)
  BY <1>1, <1>5, StagingMoves
<1>8. raced \subseteq raced' /\ raced' \subseteq raced \cup {MarkOf(k)}
  BY <1>5
<1>9. DispatchTypeOK'
  BY <1>1, <1>3, <1>5, <1>6, <1>8 DEF DispatchTypeOK
<1>10. DatedJobs' /\ DatedSlots' /\ ApartJobs' /\ ApartMixed' /\ ApartSlots'
  <2>1. PICK x : x = s
    OBVIOUS
  <2> HIDE DEF s
  <2>2. Dated(x)'
    BY <1>1, <1>3, <1>4, <1>5, <2>1 DEF Dated, DispatchTypeOK
  <2>3. ASSUME NEW y, Dated(y), y.win \in Nat, y.key = x.key, y.win = x.win
        PROVE  [key |-> x.key, win |-> x.win] \in raced'
    <3>1. k \in seen
      BY <1>3, <1>4, <2>1, <2>3 DEF Dated
    <3>2. MarkOf(k) \in raced
      BY <1>1, <1>2, <3>1 DEF DispatchInv, Rivals
    <3>3. QED BY <1>3, <1>4, <1>8, <2>1, <3>2
  <2>4. \A y : Dated(y) /\ y.win \in Nat => Apart(y, x)' /\ Apart(x, y)'
    BY <2>3 DEF Apart
  <2>5. QED BY <1>5, <1>6, <1>8, <1>7, <2>1, <2>2, <2>4, StageStep, SMTT(30)
<1>11. Rivals'
  <2>1. ASSUME NEW d \in Caller, caller'[d].pc = "mark", Head(caller'[d].todo).key \in seen'
        PROVE  MarkOf(Head(caller[d].todo).key)' \in raced'
    <3>1. d # c /\ caller'[d] = caller[d]
      BY <1>6, <2>1
    <3>2. CASE Head(caller[d].todo).key = k
      <4>1. Racing(c, k)
        BY <2>1, <3>1, <3>2 DEF Racing
      <4>2. QED BY <1>5, <3>1, <3>2, <4>1 DEF MarkOf
    <3>3. CASE Head(caller[d].todo).key # k
      <4>1. MarkOf(Head(caller[d].todo).key) \in raced
        BY <1>5, <2>1, <3>1, <3>3 DEF DispatchInv, Rivals
      <4>2. QED BY <1>5, <1>8, <3>1, <4>1 DEF MarkOf
    <3>4. QED BY <3>2, <3>3
  <2>2. QED BY <2>1 DEF Rivals
<1>12. MarksCovered'
  <2> HIDE DEF s
  <2>1. ASSUME NEW l \in seen', l \notin seen PROVE Covered(MarkOf(l))'
    <3>1. l = k
      BY <1>5, <2>1
    <3>2. PICK m : m = MarkOf(l)
      OBVIOUS
    <3>3. Covered(m)'
      BY <1>3, <1>4, <1>6, <3>1, <3>2
    <3>4. m = MarkOf(l)'
      BY <1>5, <3>2 DEF MarkOf
    <3>5. QED BY <3>3, <3>4
  <2>2. QED BY <1>5, <1>6, <2>1, MarksKept
<1>13. \A d \in Caller : Shaped(caller[d])'
  BY <1>6 DEF Shaped, Pending, Open
<1>14. QED BY <1>9, <1>10, <1>11, <1>12, <1>13 DEF DispatchInv

LEMMA SentFacts ==
    ASSUME NEW r \in Call, NEW p \in Priority
    PROVE  /\ Sent(r, p) \in Call
           /\ \A q \in Priority : Sent(r, p).staged[q] = IF q = p THEN <<>> ELSE r.staged[q]
           /\ MarksOf(Sent(r, p).staged) \subseteq MarksOf(r.staged)
           /\ MarksOf(r.staged) \subseteq MarksOf(Sent(r, p).staged) \cup MarksIn(r.staged[p])
<1> DEFINE st == [r.staged EXCEPT ![p] = <<>>]
<1>1. st \in [Priority -> Seq(Staged)]
  BY CallFacts
<1>2. Sent(r, p) = [r EXCEPT !.staged = st]
  BY DEF Sent, Call
<1>3. \A q \in Priority : st[q] = IF q = p THEN <<>> ELSE r.staged[q]
  BY CallFacts
<1> HIDE DEF st
<1>4. Sent(r, p) \in Call /\ Sent(r, p).staged = st
  BY <1>1, <1>2 DEF Call
<1>5. MarksOf(st) \subseteq MarksOf(r.staged)
  BY <1>3 DEF MarksOf, MarksIn
<1>6. MarksOf(r.staged) \subseteq MarksOf(st) \cup MarksIn(r.staged[p])
  BY <1>3 DEF MarksOf
<1>7. QED BY <1>3, <1>4, <1>5, <1>6

(* The jobs of one queue are sent: their marks are now of jobs. *)
LEMMA SentCovered ==
    ASSUME DispatchInv, NEW c \in Caller, NEW p \in Priority,
           jobs' = jobs \o NewJobs(caller[c].staged[p])
    PROVE  /\ DOMAIN jobs \subseteq DOMAIN jobs' /\ \A i \in DOMAIN jobs : jobs'[i] = jobs[i]
           /\ \A m \in MarksIn(caller[c].staged[p]) : Covered(m)'
<1> DEFINE sent == caller[c].staged[p]
<1>1. jobs \in Seq(Job) /\ sent \in Seq(Staged)
  BY CallFacts DEF DispatchInv, DispatchTypeOK
<1>2. /\ NewJobs(sent) \in Seq(Job) /\ DOMAIN NewJobs(sent) = DOMAIN sent
      /\ \A i \in DOMAIN sent : NewJobs(sent)[i].key = sent[i].key
                                /\ NewJobs(sent)[i].win = sent[i].win
  BY <1>1, NewJobsFacts, LenProperties
<1>3. /\ DOMAIN jobs \subseteq DOMAIN jobs' /\ \A i \in DOMAIN jobs : jobs'[i] = jobs[i]
      /\ \A n \in DOMAIN sent : /\ n + Len(jobs) \in DOMAIN jobs'
                                /\ jobs'[n + Len(jobs)] = NewJobs(sent)[n]
  BY <1>1, <1>2, JobsGrow
<1>4. ASSUME NEW m \in MarksIn(sent) PROVE Covered(m)'
  <2>1. PICK n \in DOMAIN sent : m = [key |-> sent[n].key, win |-> sent[n].win]
    BY <1>4 DEF MarksIn
  <2>2. /\ n + Len(jobs) \in DOMAIN jobs' /\ jobs'[n + Len(jobs)].key = m.key
        /\ jobs'[n + Len(jobs)].win = m.win
    BY <1>2, <1>3, <2>1
  <2>3. QED BY <2>2 DEF Covered
<1>5. QED BY <1>3, <1>4

LEMMA FirstPending ==
    ASSUME DispatchInv, NEW c \in Caller, caller[c].pc = "send"
    PROVE  First(Pending(caller[c])) \in Priority
<1>1. Pending(caller[c]) # {} /\ Pending(caller[c]) \subseteq Priority
  BY OpenQueues DEF DispatchInv, Shaped, Pending
<1>2. QED BY <1>1, FirstQueue

LEMMA SendKept ==
    ASSUME DispatchInv, NEW c \in Caller, Send(c)
    PROVE  DispatchInv'
<1>1. PICK p : p = First(Pending(caller[c]))
  OBVIOUS
<1>2. p \in Priority /\ caller[c] \in Call /\ DispatchTypeOK
  BY <1>1, FirstPending DEF Send, DispatchInv, DispatchTypeOK
<1> DEFINE r == Sent(caller[c], p)
<1>3. /\ jobs' = jobs \o NewJobs(caller[c].staged[p])
      /\ caller' = [caller EXCEPT ![c] = Proceed(r)]
      /\ unsent' = unsent \cup LeftBehind(r)
      /\ UNCHANGED <<seen, window, skips, raced, calls, faults>>
  BY <1>1 DEF Send
<1>4. /\ r \in Call
      /\ \A q \in Priority : r.staged[q] = IF q = p THEN <<>> ELSE caller[c].staged[q]
      /\ MarksOf(caller[c].staged) \subseteq MarksOf(r.staged) \cup MarksIn(caller[c].staged[p])
  BY <1>2, SentFacts
<1> HIDE DEF r
<1>5. /\ Proceed(r) \in Call /\ Shaped(Proceed(r)) /\ Proceed(r).pc # "mark"
      /\ \A q \in Priority : Proceed(r).staged[q] \in {r.staged[q], <<>>}
      /\ MarksOf(r.staged) \subseteq LeftBehind(r) \cup MarksOf(Proceed(r).staged)
      /\ LeftBehind(r) \subseteq MarksOf(r.staged)
  BY <1>4, ProceedFacts
<1>6. /\ caller' \in [Caller -> Call] /\ caller'[c] = Proceed(r)
      /\ \A d \in Caller : d # c => caller'[d] = caller[d]
      /\ \A d \in Caller : Shaped(caller'[d])
  BY <1>3, <1>5, CallerStep
<1>7. DatedJobs' /\ DatedSlots' /\ ApartJobs' /\ ApartMixed' /\ ApartSlots' /\ jobs' \in Seq(Job)
  <2>1. /\ caller'[c].staged[p] = <<>>
        /\ \A d \in Caller, q \in Priority : caller'[d].staged[q] \in {caller[d].staged[q], <<>>}
    BY <1>2, <1>4, <1>5, <1>6
  <2>2. QED BY <1>2, <1>3, <2>1, SendStep
<1>8. DispatchTypeOK'
  <2>1. MarksOf(r.staged) \subseteq Mark
    BY <1>4, CallFacts, MarksTyped
  <2>2. unsent' \in SUBSET Mark
    BY <1>2, <1>3, <1>5, <2>1 DEF DispatchTypeOK
  <2>3. QED BY <1>2, <1>3, <1>6, <1>7, <2>2 DEF DispatchTypeOK
<1>9. Rivals'
  BY <1>3, <1>5, <1>6, RivalsKept
<1>10. \A m : Covered(m) => Covered(m)'
  <2>1. ASSUME NEW m \in MarksOf(r.staged) PROVE Covered(m)'
    BY <1>3, <1>5, <1>6, <2>1 DEF Covered
  <2>2. /\ DOMAIN jobs \subseteq DOMAIN jobs' /\ \A i \in DOMAIN jobs : jobs'[i] = jobs[i]
        /\ \A m \in MarksIn(caller[c].staged[p]) : Covered(m)'
    BY <1>2, <1>3, SentCovered
  <2>3. \A m \in MarksOf(caller[c].staged) : Covered(m)'
    BY <1>4, <2>1, <2>2
  <2>4. unsent \subseteq unsent'
    BY <1>3
  <2>5. QED BY <1>3, <1>5, <2>2, <2>3, <2>4, CallGoesOn
<1>11. MarksCovered'
  BY <1>3, <1>10, MarksKept
<1>12. \A d \in Caller : Shaped(caller[d])'
  BY <1>6 DEF Shaped, Pending, Open
<1>13. QED BY <1>7, <1>8, <1>9, <1>11, <1>12 DEF DispatchInv

LEMMA SendFailsKept ==
    ASSUME DispatchInv, NEW c \in Caller, NEW took \in BOOLEAN, SendFails(c, took)
    PROVE  DispatchInv'
<1>1. PICK p : p = First(Pending(caller[c]))
  OBVIOUS
<1>2. p \in Priority /\ caller[c] \in Call /\ DispatchTypeOK
  BY <1>1, FirstPending DEF SendFails, DispatchInv, DispatchTypeOK
<1> DEFINE r == Sent(caller[c], p)
<1>3. /\ jobs' = IF took THEN jobs \o NewJobs(caller[c].staged[p]) ELSE jobs
      /\ unsent' = unsent \cup MarksOf(IF took THEN r.staged ELSE caller[c].staged)
      /\ caller' = [caller EXCEPT ![c] = NoCall]
      /\ faults < MaxFaults /\ faults' = faults + 1
      /\ UNCHANGED <<seen, window, skips, raced, calls>>
  BY <1>1 DEF SendFails
<1>4. /\ r \in Call /\ MarksOf(r.staged) \subseteq MarksOf(caller[c].staged)
      /\ MarksOf(caller[c].staged) \subseteq MarksOf(r.staged) \cup MarksIn(caller[c].staged[p])
  BY <1>2, SentFacts
<1> HIDE DEF r
<1>5. /\ caller' \in [Caller -> Call] /\ caller'[c] = NoCall
      /\ \A d \in Caller : d # c => caller'[d] = caller[d]
      /\ \A d \in Caller : Shaped(caller'[d])
  BY <1>3, NoCallFacts, CallerStep
<1>6. /\ caller'[c].staged[p] = <<>>
      /\ \A d \in Caller, q \in Priority : caller'[d].staged[q] \in {caller[d].staged[q], <<>>}
  BY <1>2, <1>5, NoCallFacts
<1>7. DatedJobs' /\ DatedSlots' /\ ApartJobs' /\ ApartMixed' /\ ApartSlots' /\ jobs' \in Seq(Job)
  <2>1. CASE took
    BY <1>2, <1>3, <1>6, <2>1, SendStep
  <2>2. CASE ~took
    BY <1>2, <1>3, <1>6, <2>2, ShrinkStep DEF DispatchTypeOK
  <2>3. QED BY <2>1, <2>2
<1>8. DispatchTypeOK'
  <2>1. MarksOf(caller[c].staged) \subseteq Mark
    BY <1>2, CallFacts, MarksTyped
  <2>2. unsent' \in SUBSET Mark
    BY <1>2, <1>3, <1>4, <2>1 DEF DispatchTypeOK
  <2>3. faults' \in 0 .. MaxFaults
    BY <1>2, <1>3, DispatchBounds DEF DispatchTypeOK
  <2>4. QED BY <1>2, <1>3, <1>5, <1>7, <2>2, <2>3 DEF DispatchTypeOK
<1>9. Rivals'
  BY <1>3, <1>5, NoCallFacts, RivalsKept
<1>10. \A m : Covered(m) => Covered(m)'
  <2>1. unsent \subseteq unsent'
    BY <1>3
  <2>2. CASE took
    <3>1. \A m \in MarksOf(r.staged) : Covered(m)'
      BY <1>3, <2>2 DEF Covered
    <3>2. /\ DOMAIN jobs \subseteq DOMAIN jobs' /\ \A i \in DOMAIN jobs : jobs'[i] = jobs[i]
          /\ \A m \in MarksIn(caller[c].staged[p]) : Covered(m)'
      BY <1>2, <1>3, <2>2, SentCovered
    <3>3. QED BY <1>3, <1>4, <2>1, <3>1, <3>2, NoCallFacts, CallGoesOn
  <2>3. CASE ~took
    <3>1. \A m \in MarksOf(caller[c].staged) : Covered(m)'
      BY <1>3, <2>3 DEF Covered
    <3>2. QED BY <1>3, <2>1, <2>3, <3>1, NoCallFacts, CallGoesOn
  <2>4. QED BY <2>2, <2>3
<1>11. MarksCovered'
  BY <1>3, <1>10, MarksKept
<1>12. \A d \in Caller : Shaped(caller[d])'
  BY <1>5 DEF Shaped, Pending, Open
<1>13. QED BY <1>7, <1>8, <1>9, <1>11, <1>12 DEF DispatchInv

LEMMA CallDiesKept ==
    ASSUME DispatchInv, NEW c \in Caller, CallDies(c)
    PROVE  DispatchInv'
<1>1. /\ caller' = [caller EXCEPT ![c] = NoCall]
      /\ unsent' = unsent \cup MarksOf(caller[c].staged)
      /\ faults < MaxFaults /\ faults' = faults + 1
      /\ UNCHANGED <<seen, window, jobs, skips, raced, calls>>
  BY DEF CallDies
<1>2. DispatchTypeOK /\ caller[c] \in Call
  BY DEF DispatchInv, DispatchTypeOK
<1>3. /\ caller' \in [Caller -> Call] /\ caller'[c] = NoCall
      /\ \A d \in Caller : d # c => caller'[d] = caller[d]
      /\ \A d \in Caller : Shaped(caller'[d])
  BY <1>1, NoCallFacts, CallerStep
<1>4. DispatchTypeOK'
  <2>1. unsent' \in SUBSET Mark
    BY <1>1, <1>2, CallFacts, MarksTyped DEF DispatchTypeOK
  <2>2. QED BY <1>1, <1>2, <1>3, <2>1, DispatchBounds DEF DispatchTypeOK
<1>5. DatedJobs' /\ DatedSlots' /\ ApartJobs' /\ ApartMixed' /\ ApartSlots'
  <2>1. \A d \in Caller, q \in Priority : caller'[d].staged[q] \in {caller[d].staged[q], <<>>}
    BY <1>3, NoCallFacts
  <2>2. QED BY <1>1, <2>1, ShrinkStep
<1>6. Rivals'
  BY <1>1, <1>3, NoCallFacts, RivalsKept
<1>7. \A m : Covered(m) => Covered(m)'
  <2>1. \A m \in MarksOf(caller[c].staged) : Covered(m)'
    BY <1>1 DEF Covered
  <2>2. QED BY <1>1, <2>1, NoCallFacts, CallGoesOn
<1>8. MarksCovered'
  BY <1>1, <1>7, MarksKept
<1>9. \A d \in Caller : Shaped(caller[d])'
  BY <1>3 DEF Shaped, Pending, Open
<1>10. QED BY <1>4, <1>5, <1>6, <1>8, <1>9 DEF DispatchInv

LEMMA ExpireKept ==
    ASSUME DispatchInv, NEW k \in Key, Expire(k)
    PROVE  DispatchInv'
<1>1. /\ seen' = seen \ {k} /\ window' = [window EXCEPT ![k] = @ + 1]
      /\ UNCHANGED <<caller, jobs, skips, unsent, raced, calls, faults>>
  BY DEF Expire
<1>2. DispatchTypeOK /\ window \in [Key -> Nat]
  BY DEF DispatchInv, DispatchTypeOK
<1>3. DispatchTypeOK'
  BY <1>1, <1>2 DEF DispatchTypeOK
<1>4. ASSUME NEW x, Dated(x), x.win \in Nat PROVE Dated(x)'
  BY <1>1, <1>2, <1>4 DEF Dated
<1>5. DatedJobs'
  <2>1. ASSUME NEW i \in DOMAIN jobs PROVE Dated(jobs[i])'
    <3>1. PICK x : x = jobs[i]
      OBVIOUS
    <3>2. Dated(x) /\ x.win \in Nat
      BY <1>2, <2>1, <3>1, JobTypes DEF DispatchInv, DatedJobs
    <3>3. Dated(x)' /\ x = jobs'[i]
      BY <1>1, <1>4, <3>1, <3>2
    <3>4. QED BY <3>3 DEF Dated
  <2>2. QED BY <1>1, <2>1 DEF DatedJobs
<1>6. DatedSlots'
  <2>1. ASSUME NEW c \in Caller, NEW p \in Priority, NEW n \in DOMAIN caller[c].staged[p]
        PROVE  Dated(caller[c].staged[p][n])'
    <3>1. PICK x : x = caller[c].staged[p][n]
      OBVIOUS
    <3>2. Dated(x) /\ x.win \in Nat
      BY <1>2, <2>1, <3>1, StagedTypes DEF DispatchInv, DatedSlots
    <3>3. Dated(x)' /\ x = caller'[c].staged[p][n]
      BY <1>1, <1>4, <3>1, <3>2
    <3>4. QED BY <3>3 DEF Dated
  <2>2. QED BY <1>1, <2>1 DEF DatedSlots
<1>7. ApartJobs' /\ ApartMixed' /\ ApartSlots'
  <2>1. ApartJobs'
    BY <1>1 DEF DispatchInv, ApartJobs, Apart
  <2>2. ApartMixed'
    BY <1>1 DEF DispatchInv, ApartMixed, Apart
  <2>3. ApartSlots'
    <3>1. ASSUME NEW c \in Caller, NEW d \in Caller, NEW p \in Priority, NEW q \in Priority,
                 NEW n \in DOMAIN caller[c].staged[p], NEW m \in DOMAIN caller[d].staged[q],
                 c # d \/ p # q \/ n # m
          PROVE  Apart(caller[c].staged[p][n], caller[d].staged[q][m])'
      <4>1. Apart(caller[c].staged[p][n], caller[d].staged[q][m])
        BY <3>1 DEF DispatchInv, ApartSlots
      <4>2. QED BY <1>1, <4>1 DEF Apart
    <3>2. QED BY <1>1, <3>1 DEF ApartSlots
  <2>4. QED BY <2>1, <2>2, <2>3
<1>8. \A l : l # k => MarkOf(l)' = MarkOf(l)
  BY <1>1, <1>2 DEF MarkOf
<1>9. Rivals'
  <2>1. ASSUME NEW c \in Caller, caller'[c].pc = "mark", Head(caller'[c].todo).key \in seen'
        PROVE  MarkOf(Head(caller[c].todo).key)' \in raced'
    <3>1. PICK l : l = Head(caller[c].todo).key
      OBVIOUS
    <3>2. l # k /\ MarkOf(l) \in raced
      BY <1>1, <2>1, <3>1 DEF DispatchInv, Rivals
    <3>3. MarkOf(l)' \in raced' /\ l = Head(caller'[c].todo).key
      BY <1>1, <1>8, <3>1, <3>2
    <3>4. QED BY <3>3 DEF MarkOf
  <2>2. QED BY <2>1 DEF Rivals
<1>10. \A m : Covered(m) => Covered(m)'
  BY <1>1 DEF Covered
<1>11. MarksCovered'
  <2>1. ASSUME NEW l \in seen' PROVE Covered(MarkOf(l))'
    <3>1. PICK m : m = MarkOf(l)
      OBVIOUS
    <3>2. l # k /\ Covered(m)
      BY <1>1, <2>1, <3>1 DEF DispatchInv, MarksCovered
    <3>3. Covered(m)' /\ m = MarkOf(l)'
      BY <1>8, <1>10, <3>1, <3>2
    <3>4. QED BY <3>3
  <2>2. \A m \in skips' : Covered(m)'
    BY <1>1, <1>10 DEF DispatchInv, MarksCovered
  <2>3. QED BY <2>1, <2>2 DEF MarksCovered
<1>12. \A c \in Caller : Shaped(caller[c])'
  BY <1>1 DEF DispatchInv, Shaped, Pending, Open
<1>13. QED BY <1>3, <1>5, <1>6, <1>7, <1>9, <1>11, <1>12 DEF DispatchInv

-----------------------------------------------------------------------------
(* The steps of others, who add only jobs without a key. *)

LEMMA QuietKept ==
    ASSUME DispatchInv, UNCHANGED <<seen, window, caller, jobs, skips, unsent, raced, calls>>,
           faults' \in 0 .. MaxFaults
    PROVE  DispatchInv'
<1>1. DispatchTypeOK'
  BY DEF DispatchInv, DispatchTypeOK
<1>2. DatedJobs' /\ DatedSlots' /\ ApartJobs' /\ ApartMixed' /\ ApartSlots'
  BY ShrinkStep
<1>3. Rivals'
  BY RivalsKept
<1>4. \A m : Covered(m) => Covered(m)'
  BY DEF Covered
<1>5. MarksCovered'
  BY <1>4, MarksKept
<1>6. \A d \in Caller : Shaped(caller[d])'
  BY DEF DispatchInv, Shaped, Pending, Open
<1>7. QED BY <1>1, <1>2, <1>3, <1>5, <1>6 DEF DispatchInv

LEMMA UnkeyedJobKept ==
    ASSUME DispatchInv, UNCHANGED <<seen, window, caller, skips, unsent, raced, calls>>,
           faults' \in 0 .. MaxFaults,
           NEW x \in Job, x.key = NoKey, jobs' = Append(jobs, x)
    PROVE  DispatchInv'
<1>1. jobs \in Seq(Job)
  BY DEF DispatchInv, DispatchTypeOK
<1>2. /\ jobs' \in Seq(Job) /\ DOMAIN jobs \subseteq DOMAIN jobs'
      /\ \A i \in DOMAIN jobs : jobs'[i] = jobs[i]
      /\ \A i \in DOMAIN jobs' : i \in DOMAIN jobs \/ jobs'[i].key = NoKey
  BY <1>1, AppendProperties, LenProperties
<1>3. DispatchTypeOK'
  BY <1>2 DEF DispatchInv, DispatchTypeOK
<1>4. DatedSlots' /\ ApartSlots'
  <2>1. seen' = seen /\ window' = window /\ caller' = caller /\ raced' = raced
    OBVIOUS
  <2>2. DatedSlots'
    BY <2>1 DEF DispatchInv, DatedSlots, Dated
  <2>3. ApartSlots'
    <3>1. ASSUME NEW c \in Caller, NEW d \in Caller, NEW p \in Priority, NEW q \in Priority,
                 NEW n \in DOMAIN caller[c].staged[p], NEW m \in DOMAIN caller[d].staged[q],
                 c # d \/ p # q \/ n # m
          PROVE  Apart(caller[c].staged[p][n], caller[d].staged[q][m])'
      <4>1. Apart(caller[c].staged[p][n], caller[d].staged[q][m])
        BY <3>1 DEF DispatchInv, ApartSlots
      <4>2. QED BY <2>1, <4>1 DEF Apart
    <3>2. QED BY <2>1, <3>1 DEF ApartSlots
  <2>4. QED BY <2>2, <2>3
<1>5. DatedJobs'
  <2>1. ASSUME NEW i \in DOMAIN jobs' PROVE Dated(jobs[i])'
    <3>1. CASE i \in DOMAIN jobs
      BY <1>2, <3>1 DEF DispatchInv, DatedJobs, Dated
    <3>2. CASE jobs'[i].key = NoKey
      BY <3>2, KeysAssumption DEF Dated
    <3>3. QED BY <1>2, <3>1, <3>2
  <2>2. QED BY <2>1 DEF DatedJobs
<1>6. ApartJobs'
  <2>1. ASSUME NEW i \in DOMAIN jobs', NEW j \in DOMAIN jobs', i # j
        PROVE  Apart(jobs[i], jobs[j])'
    <3>1. CASE i \in DOMAIN jobs /\ j \in DOMAIN jobs
      BY <1>2, <2>1, <3>1 DEF DispatchInv, ApartJobs, Apart
    <3>2. CASE jobs'[i].key = NoKey \/ jobs'[j].key = NoKey
      BY <3>2, KeysAssumption DEF Apart
    <3>3. QED BY <1>2, <3>1, <3>2
  <2>2. QED BY <2>1 DEF ApartJobs
<1>7. ApartMixed'
  <2>1. ASSUME NEW i \in DOMAIN jobs', NEW c \in Caller, NEW p \in Priority,
               NEW n \in DOMAIN caller'[c].staged[p]
        PROVE  Apart(jobs[i], caller[c].staged[p][n])'
    <3>1. CASE i \in DOMAIN jobs
      BY <1>2, <2>1, <3>1 DEF DispatchInv, ApartMixed, Apart
    <3>2. CASE jobs'[i].key = NoKey
      BY <3>2, KeysAssumption DEF Apart
    <3>3. QED BY <1>2, <3>1, <3>2
  <2>2. QED BY <2>1 DEF ApartMixed
<1>8. Rivals'
  BY RivalsKept
<1>9. \A m : Covered(m) => Covered(m)'
  BY <1>2 DEF Covered
<1>10. MarksCovered'
  BY <1>9, MarksKept
<1>11. \A d \in Caller : Shaped(caller[d])'
  BY DEF DispatchInv, Shaped, Pending, Open
<1>12. QED BY <1>3, <1>4, <1>5, <1>6, <1>7, <1>8, <1>10, <1>11 DEF DispatchInv

-----------------------------------------------------------------------------
LEMMA DispatchStarts == DispatchInit => DispatchInv
<1> SUFFICES ASSUME DispatchInit PROVE DispatchInv
  OBVIOUS
<1>1. /\ seen = {} /\ window = [k \in Key |-> 0] /\ caller = [c \in Caller |-> NoCall]
      /\ jobs = <<>> /\ skips = {} /\ unsent = {} /\ raced = {} /\ calls = 0 /\ faults = 0
  BY DEF DispatchInit
<1>2. \A c \in Caller : /\ caller[c] = NoCall /\ caller[c].pc = "idle"
                        /\ \A p \in Priority : caller[c].staged[p] = <<>>
  BY <1>1, NoCallFacts
<1>3. DispatchTypeOK
  BY <1>1, NoCallFacts, DispatchBounds DEF DispatchTypeOK
<1>4. DatedJobs /\ DatedSlots /\ ApartJobs /\ ApartMixed /\ ApartSlots
  BY <1>1, <1>2 DEF DatedJobs, DatedSlots, ApartJobs, ApartMixed, ApartSlots
<1>5. Rivals /\ MarksCovered
  BY <1>1, <1>2 DEF Rivals, MarksCovered
<1>6. \A c \in Caller : Shaped(caller[c])
  BY <1>2, NoCallFacts
<1>7. QED BY <1>3, <1>4, <1>5, <1>6 DEF DispatchInv

LEMMA DispatchStep ==
    ASSUME DispatchInv, DispatchNext
    PROVE  DispatchInv'
BY BeginKept, UnkeyedKept, SkipKept, CheckKept, PutKeyKept, SendKept, SendFailsKept,
   CallDiesKept, ExpireKept DEF DispatchNext

(* The two properties of a run that are about the dispatcher alone. *)
LEMMA DispatchSafe == DispatchInv => DuplicatesOverlap /\ SkipsAreCovered
<1>1. DispatchInv => DuplicatesOverlap
  <2> SUFFICES ASSUME DispatchInv, NEW i \in DOMAIN jobs, NEW j \in DOMAIN jobs, i # j,
                      jobs[i].key # NoKey, jobs[i].key = jobs[j].key,
                      jobs[i].win = jobs[j].win
               PROVE  [key |-> jobs[i].key, win |-> jobs[i].win] \in raced
    BY DEF DuplicatesOverlap
  <2>1. jobs[i].key \in Key
    BY JobTypes DEF DispatchInv, Job
  <2>2. Apart(jobs[i], jobs[j])
    BY DEF DispatchInv, ApartJobs
  <2>3. QED BY <2>1, <2>2 DEF Apart
<1>2. DispatchInv => SkipsAreCovered
  BY DEF DispatchInv, MarksCovered, Covered, SkipsAreCovered
<1>3. QED BY <1>1, <1>2
=============================================================================
