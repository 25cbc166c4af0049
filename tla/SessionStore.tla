----------------------------- MODULE SessionStore -----------------------------
(***************************************************************************)
(* The sessions of one user (packages/auth, session-store.ts).  A session  *)
(* is a signed token nobody can take back; what ends it is a tombstone or  *)
(* a "revoked since" marker in KV.  What it may do is a snapshot in KV,    *)
(* loaded from D1 and versioned: a change of the user bumps a counter, and *)
(* a request that finds its snapshot older loads it again.  Sign-ins,      *)
(* requests and the sessions page take several awaits each and interleave; *)
(* a KV or D1 operation takes effect at once.  Date.now() is a clock that  *)
(* may stand still from one step to the next.                              *)
(***************************************************************************)
EXTENDS Naturals, FiniteSets

CONSTANTS Session,     \* sessions that sign-ins may open
          Req,         \* requests that may be in progress at the same time
          Op,          \* operations of the sessions page, sign-outs and resets, likewise
          Grace,       \* REGISTRY_GRACE_SECONDS, in ticks
          MaxTime,     \* bound: clock
          MaxChanges,  \* bound: changes of the user
          MaxOps,      \* bound: operations begun
          MaxFaults    \* bound: reads and writes that fail

ASSUME BoundsAssumption ==
    /\ {Grace, MaxTime, MaxChanges, MaxOps, MaxFaults} \subseteq Nat
    /\ MaxTime > 0

VARIABLES
    now,       \* Date.now()
    profile,   \* D1: how often what a snapshot shows of the user has changed
    unbumped,  \* changes whose handler has the version to bump yet
    version,   \* KV: the profile version, a time
    since,     \* KV: the revoked-since marker, a time, or 0
    tombs,     \* KV: sessions with a tombstone
    registry,  \* KV: each session's record, or Nil
    token,     \* each session's sign-in and then its token
    req,       \* what each request is doing
    op,        \* what each operation is doing
    ops,       \* operations begun so far
    faults,    \* failures so far
    told,      \* history: the latest change the version was raised for
    bulk,      \* history: sessions older than a bulk revocation
    ended,     \* history: sessions whose revocation is in KV
    erased,    \* history: the marker of a purge that deleted its records, or 0
    loose      \* history: sessions with something in progress when a purge listed them

kvVars == <<version, since, tombs, registry>>
histVars == <<told, bulk, ended, erased, loose>>
vars == <<now, profile, unbumped, kvVars, token, req, op, ops, faults, histVars>>

Time == 0 .. MaxTime
Data == 0 .. MaxChanges
\* A load that failed is swallowed, and gives a user without organization, roles, rights.
Empty == MaxChanges + 1
\* raced: a history, a sign-in made it while the version was raised.
Record == [c : Time, v : Time, data : Data \cup {Empty}, raced : BOOLEAN]
Nil == [c |-> 0]
None == [pc |-> "none"]
Idle == [pc |-> "idle"]

Token ==
    {None, [pc |-> "failed"]}
    \cup [pc : {"loaded"}, data : Data \cup {Empty}, told : Data]
    \cup [pc : {"put", "issued"}, c : Time, rec : Record]
\* marker, version and rec are what the request read, or what it is served from.  History:
\* dead, the session had been ended when the request began; due, the change told by then.
Request ==
    {Idle}
    \cup [pc : {"read", "reread"}, of : Session, marker : Time, rec : Record \cup {Nil},
          version : Time, dead : BOOLEAN, due : Data]
    \cup [pc : {"load", "put"}, of : Session, rec : Record, dead : BOOLEAN, due : Data]
    \cup [pc : {"served"}, rec : Record, dead : BOOLEAN, due : Data]
Operation ==
    {Idle}
    \cup [pc : {"tomb"}, todo : SUBSET Session, delete : SUBSET Session]
    \cup [pc : {"rename"}, of : Session, rec : Record]
    \cup [pc : {"list"}, at : Time]
    \cup [pc : {"sweep"}, at : Time, todo : SUBSET Session]

TypeOK ==
    /\ now \in 1 .. MaxTime /\ profile \in Data /\ unbumped \in SUBSET Data
    /\ version \in Time /\ since \in Time /\ tombs \in SUBSET Session
    /\ registry \in [Session -> Record \cup {Nil}]
    /\ token \in [Session -> Token]
    /\ req \in [Req -> Request] /\ op \in [Op -> Operation]
    /\ ops \in 0 .. MaxOps /\ faults \in 0 .. MaxFaults
    /\ told \in Data /\ {bulk, ended, loose} \subseteq SUBSET Session /\ erased \in Time

Init ==
    /\ now = 1 /\ profile = 0 /\ unbumped = {}
    /\ version = 0 /\ since = 0 /\ tombs = {}
    /\ registry = [j \in Session |-> Nil]
    /\ token = [j \in Session |-> None]
    /\ req = [r \in Req |-> Idle] /\ op = [o \in Op |-> Idle]
    /\ ops = 0 /\ faults = 0 /\ told = 0 /\ bulk = {} /\ ended = {} /\ erased = 0 /\ loose = {}

Issued(j) == token[j].pc = "issued"
Fault == faults < MaxFaults /\ faults' = faults + 1
NoFault == UNCHANGED faults
Begins == ops < MaxOps /\ ops' = ops + 1
Later(a, b) == IF a > b THEN a ELSE b

\* loadUserContext: what D1 says of the user, or nothing.
Loaded(data) == \/ data = profile /\ NoFault
                \/ data = Empty /\ Fault

Put(j, rec) == registry' = [registry EXCEPT ![j] = rec]
Delete(j) == registry' = [registry EXCEPT ![j] = Nil]

-----------------------------------------------------------------------------
\* The clock, and changes of the user: D1 first, then bumpProfileVersion, which may fail.
Tick ==
    /\ now < MaxTime /\ now' = now + 1
    /\ UNCHANGED <<profile, unbumped, kvVars, token, req, op, ops, faults, histVars>>

Change ==
    /\ profile < MaxChanges /\ profile' = profile + 1
    /\ unbumped' = unbumped \cup {profile'}
    /\ UNCHANGED <<now, kvVars, token, req, op, ops, faults, histVars>>

\* A version no higher than the last tells no session anything.  The time is read in the
\* step that writes it, so two bumps never land out of order.
Bump(n) ==
    /\ n \in unbumped /\ unbumped' = unbumped \ {n}
    /\ \/ /\ version' = now /\ NoFault
          /\ told' = IF now > version THEN Later(told, n) ELSE told
       \/ Fault /\ UNCHANGED <<version, told>>
    /\ UNCHANGED <<now, profile, since, tombs, registry, token, req, op,
                   bulk, ended, erased, loose, ops>>

-----------------------------------------------------------------------------
\* createSessionForUser: the context, the version and the time, the record.
SignIn(j) ==
    /\ token[j] = None
    /\ \E data \in Data \cup {Empty} :
         Loaded(data) /\ token' = [token EXCEPT ![j] = [pc |-> "loaded", data |-> data, told |-> told]]
    /\ UNCHANGED <<now, profile, unbumped, kvVars, req, op, ops, histVars>>

\* readProfileVersion answers 0 when KV fails.
Sign(j) ==
    /\ token[j].pc = "loaded"
    /\ \E v \in {0, version} :
         /\ IF v = version THEN NoFault ELSE Fault
         /\ token' = [token EXCEPT ![j] =
              [pc |-> "put", c |-> now,
               rec |-> [c |-> now, v |-> v, data |-> token[j].data,
                        raced |-> token[j].told # told]]]
    /\ UNCHANGED <<now, profile, unbumped, kvVars, req, op, ops, histVars>>

\* The record must be written, in two attempts, or there is no session.
Issue(j) ==
    /\ token[j].pc = "put"
    /\ \/ /\ token' = [token EXCEPT ![j].pc = "issued"]
          /\ Put(j, token[j].rec) /\ NoFault
       \/ /\ token' = [token EXCEPT ![j] = [pc |-> "failed"]]
          /\ UNCHANGED registry /\ Fault
    /\ UNCHANGED <<now, profile, unbumped, version, since, tombs, req, op, ops, histVars>>

-----------------------------------------------------------------------------
\* getSession: four reads at once.  What denies (the tombstone, the marker) and what grants
\* (the record, the version) may be read in either order.
Begin(r, j) ==
    /\ req[r].pc \in {"idle", "served"} /\ Issued(j)
    /\ \/ /\ j \notin tombs
          /\ req' = [req EXCEPT ![r] = [pc |-> "read", of |-> j, marker |-> since, rec |-> Nil,
                                        version |-> 0, dead |-> j \in ended, due |-> told]]
       \/ req' = [req EXCEPT ![r] = [pc |-> "reread", of |-> j, marker |-> 0, rec |-> registry[j],
                                     version |-> version, dead |-> j \in ended, due |-> told]]
    /\ UNCHANGED <<now, profile, unbumped, kvVars, token, op, ops, faults, histVars>>

Rest(r) == req' = [req EXCEPT ![r] = Idle]

\* Mutant of Denied: a session made in the marker's millisecond is older too.
DeniedInclusive(j, rec, marker) ==
    marker # 0 /\ (IF rec = Nil THEN token[j].c ELSE rec.c) <= marker
\* A session created before the marker.
Denied(j, rec, marker) ==
    marker # 0 /\ (IF rec = Nil THEN token[j].c ELSE rec.c) < marker

Served(r, rec) ==
    req' = [req EXCEPT ![r] = [pc |-> "served", rec |-> rec, dead |-> req[r].dead,
                               due |-> req[r].due]]

\* Mutant of Decide: a record that is missing is taken for one that is stale.
DecideStale(r, j, rec, ver, marker) ==
    IF Denied(j, rec, marker) \/ (rec = Nil /\ now - token[j].c > Grace) THEN Rest(r)
    ELSE IF rec # Nil /\ ver <= rec.v THEN Served(r, rec)
    ELSE req' = [req EXCEPT ![r] = [pc |-> "load", of |-> j, dead |-> req[r].dead,
                                    due |-> req[r].due, rec |-> [rec EXCEPT !.c = token[j].c]]]

\* What a request does once it has read: nothing when it is denied or the record has been
\* gone too long; it serves a record that is current, and loads one that is not, or missing.
Decide(r, j, rec, ver, marker) ==
    IF Denied(j, rec, marker) \/ (rec = Nil /\ now - token[j].c > Grace) THEN Rest(r)
    ELSE IF rec # Nil /\ ver <= rec.v THEN Served(r, rec)
    ELSE req' = [req EXCEPT ![r] =
           [pc |-> "load", of |-> j, dead |-> req[r].dead, due |-> req[r].due,
            rec |-> [c |-> IF rec = Nil THEN token[j].c ELSE rec.c,
                     v |-> ver, data |-> 0, raced |-> FALSE]]]

Read(r) ==
    /\ LET j == req[r].of
       IN  \/ req[r].pc = "read" /\ Decide(r, j, registry[j], version, req[r].marker)
           \/ /\ req[r].pc = "reread"
              /\ IF j \in tombs THEN Rest(r)
                 ELSE Decide(r, j, req[r].rec, req[r].version, since)
    /\ UNCHANGED <<now, profile, unbumped, kvVars, token, op, ops, faults, histVars>>

\* refreshSnapshotIfStale and the self-heal: load, then write under the version read before.
Load(r) ==
    /\ req[r].pc = "load"
    /\ \E data \in Data \cup {Empty} :
         /\ Loaded(data)
         /\ req' = [req EXCEPT ![r].pc = "put", ![r].rec.data = data]
    /\ UNCHANGED <<now, profile, unbumped, kvVars, token, op, ops, histVars>>

\* Mutant of Serve: the record is written under the version of the moment.
ServeLatest(r) ==
    /\ req[r].pc = "put" /\ Served(r, req[r].rec)
    /\ Put(req[r].of, [req[r].rec EXCEPT !.v = version]) /\ NoFault
    /\ UNCHANGED <<now, profile, unbumped, version, since, tombs, token, op, ops, histVars>>

\* A write that fails is swallowed: the request is served from what it loaded.
Serve(r) ==
    /\ req[r].pc = "put" /\ Served(r, req[r].rec)
    /\ \/ Put(req[r].of, req[r].rec) /\ NoFault
       \/ UNCHANGED registry /\ Fault
    /\ UNCHANGED <<now, profile, unbumped, version, since, tombs, token, op, ops, histVars>>

-----------------------------------------------------------------------------
\* A sign-out, or the sessions page ending one session or all but the caller's.  Only what
\* the listing shows: a record, and not from before the marker.
Listed == {j \in Session : registry[j] # Nil /\ registry[j].c >= since}

RevokeThese(o, js) ==
    /\ op[o] = Idle /\ Begins
    /\ op' = [op EXCEPT ![o] = [pc |-> "tomb", todo |-> js, delete |-> {}]]
    /\ UNCHANGED <<now, profile, unbumped, kvVars, token, req, faults, histVars>>
Revoke(o, j) == Issued(j) /\ RevokeThese(o, {j})
RevokeOthers(o, j) == Issued(j) /\ Listed \ {j} # {} /\ RevokeThese(o, Listed \ {j})

RevokeRest(o, todo, delete) ==
    op' = [op EXCEPT ![o] = IF todo \cup delete = {} THEN Idle
                            ELSE [pc |-> "tomb", todo |-> todo, delete |-> delete]]

\* Mutant of Tomb: the record's absence is enough.
TombSkipped(o, j) ==
    /\ op[o].pc = "tomb" /\ j \in op[o].todo
    /\ ended' = ended \cup {j} /\ NoFault
    /\ RevokeRest(o, op[o].todo \ {j}, op[o].delete \cup {j})
    /\ UNCHANGED <<now, profile, unbumped, kvVars, token, req, told, bulk, erased, loose, ops>>

\* revokeSession: the tombstone, whose failure the caller sees, and then the record, whose
\* failure is swallowed.
Tomb(o, j) ==
    /\ op[o].pc = "tomb" /\ j \in op[o].todo
    /\ \/ /\ tombs' = tombs \cup {j} /\ ended' = ended \cup {j} /\ NoFault
          /\ RevokeRest(o, op[o].todo \ {j}, op[o].delete \cup {j})
       \/ /\ RevokeRest(o, op[o].todo \ {j}, op[o].delete) /\ Fault
          /\ UNCHANGED <<tombs, ended>>
    /\ UNCHANGED <<now, profile, unbumped, version, since, registry, token, req,
                   told, bulk, erased, loose, ops>>

Remove(o, j) ==
    /\ op[o].pc = "tomb" /\ j \in op[o].delete
    /\ RevokeRest(o, op[o].todo, op[o].delete \ {j})
    /\ \/ Delete(j) /\ NoFault
       \/ UNCHANGED registry /\ Fault
    /\ UNCHANGED <<now, profile, unbumped, version, since, tombs, token, req, ops, histVars>>

\* Sessions with a creation time.
Signed == {j \in Session : token[j].pc \in {"put", "issued"}}

\* Mutant of RevokeAll: a purge deletes the records and writes no marker.
RevokeAllUnmarked(o) ==
    /\ op[o] = Idle /\ Begins
    /\ op' = [op EXCEPT ![o] = [pc |-> "list", at |-> now]]
    /\ UNCHANGED <<now, profile, unbumped, kvVars, token, req, faults, histVars>>

\* revokeAllUserSessions, which is all of a password change or reset, and the first half of
\* purgeUserSessions, the erasure.
RevokeAll(o) ==
    /\ op[o] = Idle /\ Begins /\ since' = now
    /\ bulk' = bulk \cup Signed
    /\ ended' = ended \cup {j \in Session : Issued(j) /\ token[j].c < now}
    /\ \/ UNCHANGED op
       \/ op' = [op EXCEPT ![o] = [pc |-> "list", at |-> now]]
    /\ UNCHANGED <<now, profile, unbumped, version, tombs, registry, token, req, faults,
                   told, erased, loose>>

InProgress(j) ==
    \/ token[j].pc = "put"
    \/ \E r \in Req : req[r].pc \notin {"idle", "served"} /\ req[r].of = j
    \/ \E o \in Op : op[o].pc = "rename" /\ op[o].of = j

List(o) ==
    /\ op[o].pc = "list"
    /\ op' = [op EXCEPT ![o] = [pc |-> "sweep", at |-> op[o].at,
                                todo |-> {j \in Session : registry[j] # Nil}]]
    /\ loose' = loose \cup {j \in Session : InProgress(j)}
    /\ UNCHANGED <<now, profile, unbumped, kvVars, token, req, faults, told, bulk, ended, erased, ops>>

\* A delete that fails fails the purge.
Sweep(o, j) ==
    /\ op[o].pc = "sweep" /\ j \in op[o].todo
    /\ \/ Delete(j) /\ NoFault /\ op' = [op EXCEPT ![o].todo = @ \ {j}]
       \/ UNCHANGED registry /\ Fault /\ op' = [op EXCEPT ![o] = Idle]
    /\ UNCHANGED <<now, profile, unbumped, version, since, tombs, token, req, ops, histVars>>

Purged(o) ==
    /\ op[o].pc = "sweep" /\ op[o].todo = {} /\ op' = [op EXCEPT ![o] = Idle]
    /\ erased' = Later(erased, op[o].at)
    /\ UNCHANGED <<now, profile, unbumped, kvVars, token, req, faults, told, bulk, ended, loose, ops>>

\* renameUserSession reads a listed record and puts it back under another name.
Rename(o, j) ==
    /\ op[o] = Idle /\ Begins /\ j \in Listed
    /\ op' = [op EXCEPT ![o] = [pc |-> "rename", of |-> j, rec |-> registry[j]]]
    /\ UNCHANGED <<now, profile, unbumped, kvVars, token, req, faults, histVars>>

RenamePut(o) ==
    /\ op[o].pc = "rename" /\ op' = [op EXCEPT ![o] = Idle]
    /\ \/ Put(op[o].of, op[o].rec) /\ NoFault
       \/ UNCHANGED registry /\ Fault
    /\ UNCHANGED <<now, profile, unbumped, version, since, tombs, token, req, ops, histVars>>

Next ==
    \/ Tick \/ Change
    \/ \E n \in unbumped : Bump(n)
    \/ \E j \in Session : SignIn(j) \/ Sign(j) \/ Issue(j)
    \/ \E r \in Req : (\E j \in Session : Begin(r, j)) \/ Read(r) \/ Load(r) \/ Serve(r)
    \/ \E o \in Op :
         \/ \E j \in Session : \/ Revoke(o, j) \/ RevokeOthers(o, j) \/ Tomb(o, j)
                               \/ Remove(o, j) \/ Sweep(o, j) \/ Rename(o, j)
         \/ RevokeAll(o) \/ List(o) \/ Purged(o) \/ RenamePut(o)

Spec == Init /\ [][Next]_vars

-----------------------------------------------------------------------------
\* "Always wins, even inside the grace window": no request that begins after its session was
\* ended is served, although the record may come back (a request, or a rename, that had read
\* before) and a missing record is loaded again inside the window.
EndedStaysEnded ==
    \A r \in Req : req[r].pc \in {"load", "put", "served"} => ~req[r].dead

\* "A session reissued in the same second as a revoke-all is not wrongly invalidated": a
\* session whose sign-in took its time after every marker is denied by none.
LaterIsKept == \A j \in Session : Issued(j) /\ Denied(j, registry[j], since) => j \in bulk

\* "Delete every session record, for an erasure": the records of the sessions before the
\* purge's marker stay deleted, except where something was in progress when it listed them.
ErasedStaysErased ==
    \A j \in Session : registry[j] # Nil /\ registry[j].c < erased => j \in loose

\* A snapshot that claims a version shows every change the version was raised for (where D1
\* answered), unless a sign-in made it while the version was raised.
Reflects(rec) == rec.v >= version => rec.data >= told
LoadedReflects ==
    \A j \in Session : registry[j] # Nil => registry[j].raced \/ Reflects(registry[j])

\* A bump is made "so live sessions reflect the change instead of serving the stale
\* snapshot": a request that begins once the version was raised for a change is served a
\* snapshot that shows it (where D1 answered: an empty one counts), whichever it reads first
\* and whatever is written meanwhile.  A bump in the millisecond of the one before raises
\* nothing.
ServedReflects ==
    \A r \in Req : req[r].pc = "served" => req[r].rec.raced \/ req[r].rec.data >= req[r].due

\* "Profile version this snapshot reflects": the same of every snapshot.
SnapshotReflects == \A j \in Session : registry[j] # Nil => Reflects(registry[j])
=============================================================================
