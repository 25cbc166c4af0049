-------------------------- MODULE SessionStoreProofs --------------------------
(***************************************************************************)
(* Theorems about SessionStore for every set of sessions, requests and     *)
(* operations, every grace window and every bound.                         *)
(***************************************************************************)
EXTENDS SessionStore, TLAPS

(* What is known of a record of session j, wherever it is held.            *)
RecordOf(j, rec) == rec.c = token[j].c /\ rec.v <= version

(* A record goes with an issued token and bears its time, in KV as in the  *)
(* hands of a request or an operation; nothing is dated past the clock.    *)
Known ==
    /\ version <= now /\ since <= now
    /\ \A j \in Signed : RecordOf(j, token[j].rec)
    /\ \A j \in Session : registry[j] # Nil => Issued(j) /\ RecordOf(j, registry[j])
    /\ \A r \in Req :
         /\ req[r].pc \in {"read", "reread", "load", "put"} => Issued(req[r].of)
         /\ req[r].pc = "reread" => /\ req[r].version <= version
                                    /\ req[r].rec = Nil \/ RecordOf(req[r].of, req[r].rec)
         /\ req[r].pc \in {"load", "put"} => RecordOf(req[r].of, req[r].rec)
    /\ \A o \in Op : op[o].pc = "rename" => Issued(op[o].of) /\ RecordOf(op[o].of, op[o].rec)

(* What ended a session is in KV, and a request of an ended session is one *)
(* that will find it there.                                                *)
Ending ==
    /\ \A j \in ended : j \in tombs \/ (Issued(j) /\ token[j].c < since)
    /\ \A r \in Req :
         req[r].pc # "idle" /\ req[r].dead =>
             \/ req[r].pc = "read" /\ token[req[r].of].c < req[r].marker
             \/ req[r].pc = "reread" /\ req[r].of \in ended

(* The marker is older than every session it was not meant for.            *)
Marked == \A j \in Signed : token[j].c < since => j \in bulk

(* Nothing in progress can put the record of session j back.               *)
Barred(j) ==
    /\ Issued(j)
    /\ \A r \in Req : req[r].pc \in {"read", "load", "put"} /\ req[r].of = j
           => req[r].pc = "read" /\ token[j].c < req[r].marker
    /\ \A o \in Op : op[o].pc = "rename" => op[o].of # j

(* A purge of the sessions before time a that has still todo to delete.    *)
Swept(a, todo) ==
    /\ a <= since
    /\ \A j \in Signed : token[j].c < a
           => j \in loose \/ (Barred(j) /\ (registry[j] = Nil \/ j \in todo))

Erasure ==
    /\ Swept(erased, {})
    /\ \A o \in Op : /\ op[o].pc = "list" => op[o].at <= since
                     /\ op[o].pc = "sweep" => Swept(op[o].at, op[o].todo)

(* What a request loads shows at least what its version was raised for, and *)
(* so does what a sign-in loads if the version is not raised meanwhile.    *)
Fresh(rec) == rec.raced \/ Reflects(rec)

Showing ==
    /\ told <= profile /\ \A n \in unbumped : n <= profile
    /\ \A j \in Session : registry[j] # Nil => Fresh(registry[j])
    /\ \A j \in Session : token[j].pc = "loaded" => token[j].data >= token[j].told
    /\ \A j \in Signed : Fresh(token[j].rec)
    /\ \A r \in Req : /\ req[r].pc = "reread" => req[r].rec = Nil \/ Fresh(req[r].rec)
                      /\ req[r].pc = "put" => Fresh(req[r].rec)
    /\ \A o \in Op : op[o].pc = "rename" => Fresh(op[o].rec)

(* What a request is to be served from shows what was told when it began:  *)
(* it loads after that, and a record it decides on that is current is      *)
(* current with the version it is compared with, read now or at the start. *)
Shows(rec, due) == rec.raced \/ rec.data >= due

Serving ==
    \A r \in Req :
      /\ req[r].pc \in {"read", "reread", "load"} => req[r].due <= told
      /\ req[r].pc = "reread" /\ req[r].rec # Nil /\ req[r].rec.v >= req[r].version
           => Shows(req[r].rec, req[r].due)
      /\ req[r].pc \in {"put", "served"} => Shows(req[r].rec, req[r].due)

Inv == TypeOK /\ Known /\ Ending /\ Marked /\ Erasure /\ Showing /\ Serving

-----------------------------------------------------------------------------
(* The records of tokens, requests and operations.                         *)

LEMMA TokenKinds ==
    ASSUME NEW t \in Token
    PROVE  /\ t.pc \in {"put", "issued"}
                => t \in [pc : {"put", "issued"}, c : Time, rec : Record]
           /\ t.pc = "loaded" => t \in [pc : {"loaded"}, data : Data \cup {Empty}, told : Data]
           /\ t.pc = "none" => t = None
BY DEF Token, None

LEMMA RequestKinds ==
    ASSUME NEW q \in Request
    PROVE  /\ q.pc \in {"read", "reread"}
                => q \in [pc : {"read", "reread"}, of : Session, marker : Time,
                          rec : Record \cup {Nil}, version : Time, dead : BOOLEAN, due : Data]
           /\ q.pc \in {"load", "put"}
                => q \in [pc : {"load", "put"}, of : Session, rec : Record, dead : BOOLEAN, due : Data]
           /\ q.pc = "served" => q \in [pc : {"served"}, rec : Record, dead : BOOLEAN,
                                           due : Data]
BY DEF Request, Idle

LEMMA OperationKinds ==
    ASSUME NEW p \in Operation
    PROVE  /\ p.pc = "tomb"
                => p \in [pc : {"tomb"}, todo : SUBSET Session, delete : SUBSET Session]
           /\ p.pc = "rename" => p \in [pc : {"rename"}, of : Session, rec : Record]
           /\ p.pc = "list" => p \in [pc : {"list"}, at : Time]
           /\ p.pc = "sweep" => p \in [pc : {"sweep"}, at : Time, todo : SUBSET Session]
           /\ p = Idle => p.pc = "idle"
BY DEF Operation, Idle

LEMMA RecordFacts ==
    /\ Nil \notin Record
    /\ \A rec \in Record : rec.c \in Time /\ rec.v \in Time /\ rec.data \in Data \cup {Empty}
                           /\ rec.raced \in BOOLEAN
    /\ \A t \in Time : t \in Nat /\ t <= MaxTime
    /\ Empty \in Nat /\ \A d \in Data : d \in Nat /\ d < Empty
BY BoundsAssumption DEF Nil, Record, Time, Data, Empty

-----------------------------------------------------------------------------
LEMMA TypeInit == Init => TypeOK
BY BoundsAssumption DEF Init, TypeOK, Time, Data, Token, Request, Operation, Idle, None

LEMMA FaultType ==
    ASSUME TypeOK, Fault \/ NoFault
    PROVE  faults' \in 0 .. MaxFaults
BY BoundsAssumption DEF TypeOK, Fault, NoFault

LEMMA BeginsType ==
    ASSUME TypeOK, Begins
    PROVE  ops' \in 0 .. MaxOps
BY BoundsAssumption DEF TypeOK, Begins

LEMMA TypeClock ==
    ASSUME TypeOK, Tick \/ Change \/ \E n \in unbumped : Bump(n)
    PROVE  TypeOK'
<1>1. ASSUME Tick PROVE TypeOK'
  BY <1>1, BoundsAssumption DEF TypeOK, Tick, kvVars, histVars, Time
<1>2. ASSUME Change PROVE TypeOK'
  BY <1>2, BoundsAssumption DEF TypeOK, Change, kvVars, histVars, Data
<1>3. ASSUME NEW n \in unbumped, Bump(n) PROVE TypeOK'
  <2>1. faults' \in 0 .. MaxFaults
    BY <1>3, FaultType DEF Bump
  <2>2. version' \in Time /\ told' \in Data
    BY <1>3, BoundsAssumption DEF TypeOK, Bump, Time, Later
  <2>3. QED BY <1>3, <2>1, <2>2 DEF TypeOK, Bump
<1>4. QED BY <1>1, <1>2, <1>3

LEMMA TypeSignIn ==
    ASSUME TypeOK, NEW j \in Session, SignIn(j) \/ Sign(j) \/ Issue(j)
    PROVE  TypeOK'
<1>1. faults' \in 0 .. MaxFaults
  BY FaultType DEF SignIn, Sign, Issue, Loaded
<1>2. ASSUME SignIn(j) PROVE TypeOK'
  <2>1. token' \in [Session -> Token]
    BY <1>2 DEF TypeOK, SignIn, Token
  <2>2. QED BY <1>1, <1>2, <2>1 DEF TypeOK, SignIn, kvVars, histVars
<1>3. ASSUME Sign(j) PROVE TypeOK'
  <2>1. token[j].data \in Data \cup {Empty}
    BY <1>3, TokenKinds DEF TypeOK, Sign
  <2>2. PICK v \in {0, version} :
          token' = [token EXCEPT ![j] =
            [pc |-> "put", c |-> now,
             rec |-> [c |-> now, v |-> v, data |-> token[j].data,
                     raced |-> token[j].told # told]]]
    BY <1>3 DEF Sign
  <2>3. v \in Time /\ now \in Time
    BY BoundsAssumption DEF TypeOK, Time
  <2>4. [c |-> now, v |-> v, data |-> token[j].data,
        raced |-> token[j].told # told] \in Record
    BY <2>1, <2>3 DEF Record
  <2>5. token' \in [Session -> Token]
    BY <2>2, <2>3, <2>4 DEF TypeOK, Token
  <2>6. QED BY <1>1, <1>3, <2>5 DEF TypeOK, Sign, kvVars, histVars
<1>4. ASSUME Issue(j) PROVE TypeOK'
  <2>1. token[j] \in [pc : {"put", "issued"}, c : Time, rec : Record]
    BY <1>4, TokenKinds DEF TypeOK, Issue
  <2>2. token' \in [Session -> Token]
    BY <1>4, <2>1 DEF TypeOK, Issue, Token
  <2>3. registry' \in [Session -> Record \cup {Nil}]
    BY <1>4, <2>1 DEF TypeOK, Issue, Put
  <2>4. QED BY <1>1, <1>4, <2>2, <2>3 DEF TypeOK, Issue, histVars
<1>5. QED BY <1>2, <1>3, <1>4

LEMMA DecideType ==
    ASSUME TypeOK, NEW r \in Req, NEW j \in Session, NEW rec \in Record \cup {Nil},
           NEW ver \in Time, NEW marker \in Time, Issued(j), req[r].dead \in BOOLEAN,
           req[r].due \in Data,
           Decide(r, j, rec, ver, marker)
    PROVE  req' \in [Req -> Request]
<1>1. token[j].c \in Time
  BY TokenKinds DEF TypeOK, Issued
<1> DEFINE new == [c |-> IF rec = Nil THEN token[j].c ELSE rec.c,
                   v |-> ver, data |-> 0, raced |-> FALSE]
<1>2. new \in Record
  BY <1>1, RecordFacts, BoundsAssumption DEF Record, Data
<1> HIDE DEF new
<1>3. [pc |-> "load", of |-> j, dead |-> req[r].dead, due |-> req[r].due, rec |-> new] \in Request
  BY <1>2 DEF Request
<1>4. /\ Idle \in Request
      /\ rec # Nil => [pc |-> "served", rec |-> rec, dead |-> req[r].dead,
                       due |-> req[r].due] \in Request
  BY DEF Request
<1>5. \/ req' = [req EXCEPT ![r] = Idle]
      \/ rec # Nil /\ req' = [req EXCEPT ![r] = [pc |-> "served", rec |-> rec,
                                                dead |-> req[r].dead, due |-> req[r].due]]
      \/ req' = [req EXCEPT ![r] = [pc |-> "load", of |-> j, dead |-> req[r].dead,
                                    due |-> req[r].due, rec |-> new]]
  BY DEF Decide, Rest, Served, new
<1>6. QED BY <1>3, <1>4, <1>5 DEF TypeOK

LEMMA TypeRequest ==
    ASSUME TypeOK, Known, NEW r \in Req,
           (\E j \in Session : Begin(r, j)) \/ Read(r) \/ Load(r) \/ Serve(r)
    PROVE  TypeOK'
<1>1. ASSUME NEW j \in Session, Begin(r, j) PROVE TypeOK'
  <2> DEFINE deny == [pc |-> "read", of |-> j, marker |-> since, rec |-> Nil,
                      version |-> 0, dead |-> j \in ended, due |-> told]
             grant == [pc |-> "reread", of |-> j, marker |-> 0, rec |-> registry[j],
                       version |-> version, dead |-> j \in ended, due |-> told]
  <2>1. 0 \in Time
    BY BoundsAssumption DEF Time
  <2>2. deny \in Request /\ grant \in Request
    BY <2>1 DEF TypeOK, Request
  <2>3. req' = [req EXCEPT ![r] = deny] \/ req' = [req EXCEPT ![r] = grant]
    BY <1>1 DEF Begin
  <2> HIDE DEF deny, grant
  <2>4. req' \in [Req -> Request]
    BY <2>2, <2>3 DEF TypeOK
  <2>5. QED BY <1>1, <2>4 DEF TypeOK, Begin, kvVars, histVars
<1>2. ASSUME Read(r) PROVE TypeOK'
  <2>1. req[r] \in [pc : {"read", "reread"}, of : Session, marker : Time,
                    rec : Record \cup {Nil}, version : Time, dead : BOOLEAN, due : Data]
    BY <1>2, RequestKinds DEF TypeOK, Read
  <2>2. Issued(req[r].of)
    BY <1>2 DEF Known, Read
  <2>3. req' \in [Req -> Request]
    <3>1. CASE Rest(r)
      BY <3>1 DEF Rest, TypeOK, Request
    <3>2. CASE Decide(r, req[r].of, registry[req[r].of], version, req[r].marker)
      BY <2>1, <2>2, <3>2, DecideType DEF TypeOK
    <3>3. CASE Decide(r, req[r].of, req[r].rec, req[r].version, since)
      BY <2>1, <2>2, <3>3, DecideType DEF TypeOK
    <3>4. QED BY <1>2, <3>1, <3>2, <3>3 DEF Read
  <2>4. QED BY <1>2, <2>3 DEF TypeOK, Read, kvVars, histVars
<1>3. ASSUME Load(r) PROVE TypeOK'
  <2>1. req[r] \in [pc : {"load", "put"}, of : Session, rec : Record, dead : BOOLEAN, due : Data]
    BY <1>3, RequestKinds DEF TypeOK, Load
  <2>2. PICK data \in Data \cup {Empty} :
          Loaded(data) /\ req' = [req EXCEPT ![r].pc = "put", ![r].rec.data = data]
    BY <1>3 DEF Load
  <2>3. req' \in [Req -> Request]
    BY <2>1, <2>2 DEF TypeOK, Request, Record
  <2>4. faults' \in 0 .. MaxFaults
    BY <2>2, FaultType DEF Loaded
  <2>5. QED BY <1>3, <2>3, <2>4 DEF TypeOK, Load, kvVars, histVars
<1>4. ASSUME Serve(r) PROVE TypeOK'
  <2>1. req[r] \in [pc : {"load", "put"}, of : Session, rec : Record, dead : BOOLEAN, due : Data]
    BY <1>4, RequestKinds DEF TypeOK, Serve
  <2>2. req' \in [Req -> Request]
    BY <1>4, <2>1 DEF TypeOK, Serve, Served, Request
  <2>3. registry' \in [Session -> Record \cup {Nil}]
    BY <1>4, <2>1 DEF TypeOK, Serve, Put
  <2>4. faults' \in 0 .. MaxFaults
    BY <1>4, FaultType DEF Serve
  <2>5. QED BY <1>4, <2>2, <2>3, <2>4 DEF TypeOK, Serve, histVars
<1>5. QED BY <1>1, <1>2, <1>3, <1>4

LEMMA TypeRevoke ==
    ASSUME TypeOK, NEW o \in Op, NEW j \in Session,
           Revoke(o, j) \/ RevokeOthers(o, j) \/ Tomb(o, j) \/ Remove(o, j)
    PROVE  TypeOK'
<1>1. Idle \in Operation
  BY DEF Operation
<1>2. ASSUME NEW js \in SUBSET Session, RevokeThese(o, js) PROVE TypeOK'
  <2>1. op' \in [Op -> Operation]
    BY <1>2 DEF TypeOK, RevokeThese, Operation
  <2>2. QED BY <1>2, <2>1, BeginsType DEF TypeOK, RevokeThese, kvVars, histVars
<1>3. ASSUME Tomb(o, j) \/ Remove(o, j) PROVE TypeOK'
  <2>1. op[o] \in [pc : {"tomb"}, todo : SUBSET Session, delete : SUBSET Session]
    BY <1>3, OperationKinds DEF TypeOK, Tomb, Remove
  <2>2. PICK todo \in SUBSET Session, delete \in SUBSET Session : RevokeRest(o, todo, delete)
    BY <1>3, <2>1 DEF Tomb, Remove
  <2>3. op' \in [Op -> Operation]
    BY <1>1, <2>2 DEF TypeOK, RevokeRest, Operation
  <2>4. faults' \in 0 .. MaxFaults
    BY <1>3, FaultType DEF Tomb, Remove
  <2>5. QED BY <1>3, <2>3, <2>4 DEF TypeOK, Tomb, Remove, Delete, histVars
<1>4. QED BY <1>2, <1>3 DEF Revoke, RevokeOthers, Listed

LEMMA TypePurge ==
    ASSUME TypeOK, NEW o \in Op,
           RevokeAll(o) \/ List(o) \/ (\E j \in Session : Sweep(o, j)) \/ Purged(o)
    PROVE  TypeOK'
<1>1. now \in Time
  BY BoundsAssumption DEF TypeOK, Time
<1>2. ASSUME RevokeAll(o) PROVE TypeOK'
  <2>1. op' \in [Op -> Operation]
    BY <1>1, <1>2 DEF TypeOK, RevokeAll, Operation
  <2>2. QED BY <1>1, <1>2, <2>1, BeginsType DEF TypeOK, RevokeAll, Signed
<1>3. ASSUME List(o) PROVE TypeOK'
  <2>1. op[o].at \in Time
    BY <1>3, OperationKinds DEF TypeOK, List
  <2>2. op' \in [Op -> Operation]
    BY <1>3, <2>1 DEF TypeOK, List, Operation
  <2>3. QED BY <1>3, <2>2 DEF TypeOK, List, kvVars
<1>4. ASSUME NEW j \in Session, Sweep(o, j) PROVE TypeOK'
  <2>1. op[o] \in [pc : {"sweep"}, at : Time, todo : SUBSET Session]
    BY <1>4, OperationKinds DEF TypeOK, Sweep
  <2>2. op' \in [Op -> Operation]
    BY <1>4, <2>1 DEF TypeOK, Sweep, Operation
  <2>3. faults' \in 0 .. MaxFaults
    BY <1>4, FaultType DEF Sweep
  <2>4. QED BY <1>4, <2>2, <2>3 DEF TypeOK, Sweep, Delete, histVars
<1>5. ASSUME Purged(o) PROVE TypeOK'
  <2>1. op[o].at \in Time
    BY <1>5, OperationKinds DEF TypeOK, Purged
  <2>2. op' \in [Op -> Operation]
    BY <1>5 DEF TypeOK, Purged, Operation
  <2>3. QED BY <1>5, <2>1, <2>2 DEF TypeOK, Purged, kvVars, Later
<1>6. QED BY <1>2, <1>3, <1>4, <1>5

LEMMA TypeRename ==
    ASSUME TypeOK, NEW o \in Op, (\E j \in Session : Rename(o, j)) \/ RenamePut(o)
    PROVE  TypeOK'
<1>1. ASSUME NEW j \in Session, Rename(o, j) PROVE TypeOK'
  <2>1. registry[j] \in Record
    BY <1>1 DEF TypeOK, Rename, Listed
  <2>2. op' \in [Op -> Operation]
    BY <1>1, <2>1 DEF TypeOK, Rename, Operation
  <2>3. QED BY <1>1, <2>2, BeginsType DEF TypeOK, Rename, kvVars, histVars
<1>2. ASSUME RenamePut(o) PROVE TypeOK'
  <2>1. op[o] \in [pc : {"rename"}, of : Session, rec : Record]
    BY <1>2, OperationKinds DEF TypeOK, RenamePut
  <2>2. op' \in [Op -> Operation]
    BY <1>2 DEF TypeOK, RenamePut, Operation
  <2>3. faults' \in 0 .. MaxFaults
    BY <1>2, FaultType DEF RenamePut
  <2>4. QED BY <1>2, <2>1, <2>2, <2>3 DEF TypeOK, RenamePut, Put, histVars
<1>3. QED BY <1>1, <1>2

LEMMA TypeNext == TypeOK /\ Known /\ [Next]_vars => TypeOK'
<1>1. CASE UNCHANGED vars
  BY <1>1 DEF vars, kvVars, histVars, TypeOK
<1>2. QED
  BY <1>1, TypeClock, TypeSignIn, TypeRequest, TypeRevoke, TypePurge, TypeRename DEF Next

-----------------------------------------------------------------------------
(* Who changes what.                                                       *)

Signing(j) == SignIn(j) \/ Sign(j) \/ Issue(j)
Requesting(r) == (\E j \in Session : Begin(r, j)) \/ Read(r) \/ Load(r) \/ Serve(r)
Operating(o) ==
    \/ \E j \in Session : \/ Revoke(o, j) \/ RevokeOthers(o, j) \/ Tomb(o, j)
                          \/ Remove(o, j) \/ Sweep(o, j) \/ Rename(o, j)
    \/ RevokeAll(o) \/ List(o) \/ Purged(o) \/ RenamePut(o)
Elsewhere == Tick \/ Change \/ \E n \in unbumped : Bump(n)

LEMMA NextKinds ==
    [Next]_vars => \/ UNCHANGED vars \/ Elsewhere
                   \/ \E j \in Session : Signing(j)
                   \/ \E r \in Req : Requesting(r)
                   \/ \E o \in Op : Operating(o)
BY DEF Next, Elsewhere, Signing, Requesting, Operating

LEMMA FrameElsewhere ==
    ASSUME Elsewhere
    PROVE  UNCHANGED <<since, tombs, registry, token, req, op, bulk, ended, erased, loose>>
BY DEF Elsewhere, Tick, Change, Bump, kvVars, histVars

LEMMA FrameSigning ==
    ASSUME TypeOK, NEW j \in Session, Signing(j)
    PROVE  /\ UNCHANGED <<now, profile, unbumped, version, since, tombs, req, op, histVars>>
           /\ \A k \in Session : k # j => token'[k] = token[k] /\ registry'[k] = registry[k]
<1>1. UNCHANGED <<now, profile, unbumped, version, since, tombs, req, op, histVars>>
  BY DEF Signing, SignIn, Sign, Issue, kvVars
<1>2. \A k \in Session : k # j => token'[k] = token[k]
  BY DEF TypeOK, Signing, SignIn, Sign, Issue
<1>3. \A k \in Session : k # j => registry'[k] = registry[k]
  BY DEF TypeOK, Signing, SignIn, Sign, Issue, Put, kvVars
<1>4. QED BY <1>1, <1>2, <1>3

LEMMA FrameRequesting ==
    ASSUME TypeOK, NEW r \in Req, Requesting(r)
    PROVE  /\ UNCHANGED <<now, profile, unbumped, version, since, tombs, token, op, histVars>>
           /\ \A q \in Req : q # r => req'[q] = req[q]
<1>1. UNCHANGED <<now, profile, unbumped, version, since, tombs, token, op, histVars>>
  BY DEF Requesting, Begin, Read, Load, Serve, kvVars
<1>2. ASSUME NEW q \in Req, q # r PROVE req'[q] = req[q]
  <2>1. CASE \E j \in Session : Begin(r, j)
    BY <1>2, <2>1 DEF TypeOK, Begin
  <2>2. CASE Read(r)
    BY <1>2, <2>2 DEF TypeOK, Read, Decide, Rest, Served
  <2>3. CASE Load(r)
    BY <1>2, <2>3 DEF TypeOK, Load
  <2>4. CASE Serve(r)
    BY <1>2, <2>4 DEF TypeOK, Serve, Served
  <2>5. QED BY <2>1, <2>2, <2>3, <2>4 DEF Requesting
<1>3. QED BY <1>1, <1>2

LEMMA FrameOperating ==
    ASSUME TypeOK, NEW o \in Op, Operating(o)
    PROVE  /\ UNCHANGED <<now, profile, unbumped, version, token, req, told>>
           /\ \A p \in Op : p # o => op'[p] = op[p]
<1>1. CASE \E j \in Session : Revoke(o, j) \/ RevokeOthers(o, j) \/ Rename(o, j)
  BY <1>1 DEF TypeOK, Revoke, RevokeOthers, RevokeThese, Rename, kvVars, histVars
<1>2. CASE \E j \in Session : Tomb(o, j) \/ Remove(o, j)
  BY <1>2 DEF TypeOK, Tomb, Remove, RevokeRest, histVars
<1>3. CASE \E j \in Session : Sweep(o, j)
  BY <1>3 DEF TypeOK, Sweep, histVars
<1>4. CASE RevokeAll(o) \/ List(o) \/ Purged(o) \/ RenamePut(o)
  BY <1>4 DEF TypeOK, RevokeAll, List, Purged, RenamePut, kvVars, histVars
<1>5. QED BY <1>1, <1>2, <1>3, <1>4 DEF Operating

LEMMA TokenSteps ==
    ASSUME TypeOK, [Next]_vars, NEW j \in Session, token'[j] # token[j]
    PROVE  Signing(j)
BY NextKinds, FrameElsewhere, FrameSigning, FrameRequesting, FrameOperating DEF vars

LEMMA RequestSteps ==
    ASSUME TypeOK, [Next]_vars, NEW r \in Req, req'[r] # req[r]
    PROVE  Requesting(r)
BY NextKinds, FrameElsewhere, FrameSigning, FrameRequesting, FrameOperating DEF vars

LEMMA OperationSteps ==
    ASSUME TypeOK, [Next]_vars, NEW o \in Op, op'[o] # op[o]
    PROVE  Operating(o)
BY NextKinds, FrameElsewhere, FrameSigning, FrameRequesting, FrameOperating DEF vars

(* A record comes into KV from a sign-in, a request or a rename. *)
LEMMA Puts ==
    ASSUME TypeOK, [Next]_vars, NEW j \in Session
    PROVE  \/ registry'[j] = registry[j] \/ registry'[j] = Nil
           \/ Issue(j) /\ registry'[j] = token[j].rec /\ token'[j].pc = "issued"
           \/ \E r \in Req : Serve(r) /\ req[r].of = j /\ registry'[j] = req[r].rec
           \/ \E o \in Op : RenamePut(o) /\ op[o].of = j /\ registry'[j] = op[o].rec
<1>1. CASE registry' = registry
  BY <1>1
<1>2. ASSUME NEW k \in Session, Issue(k)
      PROVE  registry'[j] = registry[j]
             \/ (k = j /\ registry'[j] = token[j].rec /\ token'[j].pc = "issued")
  <2>1. token[k] \in [pc : {"put", "issued"}, c : Time, rec : Record]
    BY <1>2, TokenKinds DEF TypeOK, Issue
  <2>2. QED BY <1>2, <2>1 DEF TypeOK, Issue, Put
<1>3. ASSUME NEW r \in Req, Serve(r)
      PROVE  registry'[j] = registry[j] \/ (req[r].of = j /\ registry'[j] = req[r].rec)
  BY <1>3 DEF TypeOK, Serve, Put
<1>4. ASSUME NEW o \in Op, RenamePut(o)
      PROVE  registry'[j] = registry[j] \/ (op[o].of = j /\ registry'[j] = op[o].rec)
  BY <1>4 DEF TypeOK, RenamePut, Put
<1>5. ASSUME NEW o \in Op, NEW k \in Session, Remove(o, k) \/ Sweep(o, k)
      PROVE  registry'[j] = registry[j] \/ registry'[j] = Nil
  BY <1>5 DEF TypeOK, Remove, Sweep, Delete
<1>6. registry' # registry
      => \/ \E k \in Session : Issue(k)
         \/ \E r \in Req : Serve(r)
         \/ \E o \in Op : RenamePut(o) \/ \E k \in Session : Remove(o, k) \/ Sweep(o, k)
  BY ZenonT(30) DEF vars, kvVars, Next, Tick, Change, Bump, SignIn, Sign, Begin, Read, Load,
         Revoke, RevokeOthers, RevokeThese, Tomb, Rename, RevokeAll, List, Purged
<1>7. QED BY <1>1, <1>2, <1>3, <1>4, <1>5, <1>6

(* What only grows, and what stays. *)
LEMMA Steady ==
    ASSUME TypeOK, Known, [Next]_vars
    PROVE  /\ now <= now' /\ version <= version' /\ since <= since'
           /\ tombs \subseteq tombs' /\ ended \subseteq ended'
           /\ bulk \subseteq bulk' /\ loose \subseteq loose'
           /\ {now, version, since, now', version', since'} \subseteq Nat
<1>1. {now, version, since, now', version', since'} \subseteq Nat
  BY TypeNext, BoundsAssumption DEF TypeOK, Time
<1>2. CASE UNCHANGED vars
  BY <1>1, <1>2 DEF vars, kvVars, histVars
<1>3. CASE Elsewhere
  BY <1>1, <1>3, FrameElsewhere DEF Known, Elsewhere, Tick, Change, Bump, kvVars
<1>4. ASSUME NEW j \in Session, Signing(j)
      PROVE  UNCHANGED <<now, version, since, tombs, ended, bulk, loose>>
  BY <1>4, FrameSigning DEF histVars
<1>5. ASSUME NEW r \in Req, Requesting(r)
      PROVE  UNCHANGED <<now, version, since, tombs, ended, bulk, loose>>
  BY <1>5, FrameRequesting DEF histVars
<1>6. ASSUME NEW o \in Op, Operating(o)
      PROVE  /\ UNCHANGED <<now, version>> /\ since <= since'
             /\ tombs \subseteq tombs' /\ ended \subseteq ended'
             /\ bulk \subseteq bulk' /\ loose \subseteq loose'
  <2>1. UNCHANGED <<now, version>>
    BY <1>6, FrameOperating
  <2>2. CASE RevokeAll(o)
    BY <1>1, <2>1, <2>2 DEF Known, RevokeAll
  <2>3. CASE ~RevokeAll(o)
    <3>1. CASE \E j \in Session : Revoke(o, j) \/ RevokeOthers(o, j) \/ Rename(o, j)
      BY <1>1, <3>1 DEF Revoke, RevokeOthers, RevokeThese, Rename, kvVars, histVars
    <3>2. CASE \E j \in Session : Tomb(o, j) \/ Remove(o, j) \/ Sweep(o, j)
      BY <1>1, <3>2 DEF Tomb, Remove, Sweep, histVars
    <3>3. CASE List(o) \/ Purged(o) \/ RenamePut(o)
      BY <1>1, <3>3 DEF List, Purged, RenamePut, kvVars, histVars
    <3>4. QED BY <1>6, <2>3, <3>1, <3>2, <3>3 DEF Operating
  <2>4. QED BY <2>1, <2>2, <2>3
<1>7. QED BY <1>1, <1>2, <1>3, <1>4, <1>5, <1>6, NextKinds

(* Once signed, a token keeps its time and its record. *)
LEMMA SteadyToken ==
    ASSUME TypeOK, [Next]_vars, NEW j \in Session
    PROVE  /\ Issued(j) => token'[j] = token[j]
           /\ j \in Signed' =>
                \/ j \in Signed /\ token'[j].c = token[j].c /\ token'[j].rec = token[j].rec
                \/ /\ Sign(j) /\ token'[j].pc = "put" /\ token'[j].c = now /\ token'[j].rec.c = now
                   /\ token'[j].rec.v \in {0, version} /\ token'[j].rec.data = token[j].data
                   /\ (token'[j].rec.raced \/ token[j].told = told)
<1>1. CASE token'[j] = token[j]
  BY <1>1 DEF Signed, Issued
<1>2. CASE SignIn(j)
  BY <1>2 DEF TypeOK, SignIn, Signed, Issued, None
<1>3. CASE Sign(j)
  <2>1. PICK v \in {0, version} :
          token' = [token EXCEPT ![j] =
            [pc |-> "put", c |-> now,
             rec |-> [c |-> now, v |-> v, data |-> token[j].data,
                     raced |-> token[j].told # told]]]
    BY <1>3 DEF Sign
  <2>2. token'[j] = [pc |-> "put", c |-> now,
                     rec |-> [c |-> now, v |-> v, data |-> token[j].data,
                             raced |-> token[j].told # told]]
    BY <2>1 DEF TypeOK
  <2>3. ~Issued(j)
    BY <1>3 DEF Sign, Issued
  <2>4. token'[j].rec = [c |-> now, v |-> v, data |-> token[j].data,
                         raced |-> token[j].told # told]
    BY <2>2
  <2>5. token'[j].rec.raced \/ token[j].told = told
    <3>1. token'[j].rec.raced = (token[j].told # told)
      BY <2>4
    <3>2. QED BY <3>1, Zenon
  <2>6. token'[j].pc = "put" /\ token'[j].c = now
    BY <2>2
  <2>7. /\ token'[j].rec.c = now /\ token'[j].rec.v \in {0, version}
        /\ token'[j].rec.data = token[j].data
    BY <2>4
  <2>8. QED BY <1>3, <2>3, <2>5, <2>6, <2>7, Zenon
<1>4. CASE Issue(j)
  BY <1>4, TokenKinds DEF TypeOK, Issue, Signed, Issued
<1>5. QED BY <1>1, <1>2, <1>3, <1>4, TokenSteps DEF Signing

(* What a request that has read does next. *)
LEMMA ReadEffect ==
    ASSUME TypeOK, Known, NEW r \in Req, Read(r)
    PROVE  \/ req'[r].pc = "idle"
           \/ /\ IF req[r].pc = "read" THEN ~(token[req[r].of].c < req[r].marker)
                 ELSE req[r].of \notin tombs /\ ~(token[req[r].of].c < since)
              /\ \/ req'[r].pc = "served"
                 \/ /\ req'[r].pc = "load" /\ req'[r].of = req[r].of
                    /\ req'[r].rec.c = token[req[r].of].c /\ req'[r].rec.v <= version
              /\ req'[r].dead = req[r].dead
<1> DEFINE j == req[r].of
<1>1. req[r] \in [pc : {"read", "reread"}, of : Session, marker : Time,
                  rec : Record \cup {Nil}, version : Time, dead : BOOLEAN, due : Data]
  BY RequestKinds DEF TypeOK, Read
<1>2. j \in Session /\ Issued(j) /\ token[j].c \in Nat /\ version \in Nat
  BY <1>1, TokenKinds, RecordFacts DEF Known, Read, TypeOK, Issued
<1>3. ASSUME NEW rec \in Record \cup {Nil}, NEW ver \in Time, NEW marker \in Time,
             rec = Nil \/ rec.c = token[j].c, ver <= version, Decide(r, j, rec, ver, marker)
      PROVE  \/ req'[r].pc = "idle"
             \/ /\ ~(token[j].c < marker)
                /\ \/ req'[r].pc = "served"
                   \/ /\ req'[r].pc = "load" /\ req'[r].of = j
                      /\ req'[r].rec.c = token[j].c /\ req'[r].rec.v <= version
                /\ req'[r].dead = req[r].dead
  <2>1. Denied(j, rec, marker) <=> token[j].c < marker
    BY <1>2, <1>3, RecordFacts DEF Denied
  <2>2. CASE Rest(r)
    BY <2>2 DEF Rest, TypeOK, Idle
  <2>3. CASE ~Denied(j, rec, marker)
    BY <1>2, <1>3, <2>1, <2>3 DEF Decide, Rest, Served, TypeOK, Idle
  <2>4. QED BY <1>3, <2>2, <2>3 DEF Decide
<1>4. CASE req[r].pc = "read"
  <2>1. registry[j] = Nil \/ registry[j].c = token[j].c
    BY <1>2 DEF Known, RecordOf
  <2>2. Decide(r, j, registry[j], version, req[r].marker)
    BY <1>4 DEF Read
  <2>3. registry[j] \in Record \cup {Nil} /\ version \in Time /\ req[r].marker \in Time
    BY <1>1, <1>2 DEF TypeOK
  <2>4. version <= version
    BY <1>2
  <2>5. QED BY <1>3, <1>4, <2>1, <2>2, <2>3, <2>4
<1>5. CASE req[r].pc = "reread"
  <2>1. req[r].rec = Nil \/ req[r].rec.c = token[j].c
    BY <1>5 DEF Known, RecordOf
  <2>2. req[r].version <= version
    BY <1>5 DEF Known
  <2>3. CASE Rest(r)
    BY <2>3 DEF Rest, TypeOK, Idle
  <2>4. CASE j \notin tombs /\ Decide(r, j, req[r].rec, req[r].version, since)
    BY <1>1, <1>3, <1>5, <2>1, <2>2, <2>4 DEF TypeOK
  <2>5. QED BY <1>5, <2>3, <2>4 DEF Read
<1>6. QED BY <1>1, <1>4, <1>5

-----------------------------------------------------------------------------
(* Known. *)

LEMMA RecordKept ==
    ASSUME TypeOK, Known, [Next]_vars, NEW j \in Session, NEW rec \in Record,
           Issued(j), RecordOf(j, rec)
    PROVE  Issued(j)' /\ rec.c = token'[j].c /\ rec.v <= version'
<1>1. rec.v \in Nat
  BY RecordFacts
<1>2. QED BY <1>1, Steady, SteadyToken DEF RecordOf, Issued

LEMMA KnownRequest ==
    ASSUME TypeOK, Known, [Next]_vars, NEW r \in Req
    PROVE  /\ req'[r].pc \in {"read", "reread", "load", "put"} => Issued(req[r].of)'
           /\ req'[r].pc = "reread" => /\ req'[r].version <= version'
                                       /\ req'[r].rec = Nil \/ RecordOf(req[r].of, req[r].rec)'
           /\ req'[r].pc \in {"load", "put"} => RecordOf(req[r].of, req[r].rec)'
<1>1. CASE req'[r] = req[r]
  <2>1. CASE req[r].pc \in {"read", "reread"}
    <3>1. req[r].of \in Session /\ req[r].rec \in Record \cup {Nil} /\ req[r].version \in Nat
      BY <2>1, RequestKinds, RecordFacts DEF TypeOK
    <3>2. Issued(req[r].of) /\ Issued(req[r].of)'
      BY <1>1, <2>1, <3>1, SteadyToken DEF Known, Issued
    <3>3. CASE req[r].pc = "reread"
      <4>1. req[r].version <= version /\ (req[r].rec = Nil \/ RecordOf(req[r].of, req[r].rec))
        BY <3>3 DEF Known
      <4>2. req[r].version <= version'
        BY <3>1, <4>1, Steady
      <4>3. req[r].rec = Nil \/ (req[r].rec.c = token'[req[r].of].c /\ req[r].rec.v <= version')
        BY <3>1, <3>2, <4>1, RecordKept
      <4>4. QED BY <1>1, <3>2, <3>3, <4>2, <4>3 DEF RecordOf
    <3>4. CASE req[r].pc = "read"
      BY <1>1, <3>2, <3>4
    <3>5. QED BY <2>1, <3>3, <3>4
  <2>2. CASE req[r].pc \in {"load", "put"}
    <3>1. req[r].of \in Session /\ req[r].rec \in Record
      BY <2>2, RequestKinds DEF TypeOK
    <3>2. QED BY <1>1, <2>2, <3>1, RecordKept DEF Known, RecordOf
  <2>3. QED BY <1>1, <2>1, <2>2
<1>2. ASSUME NEW j \in Session, Begin(r, j)
      PROVE  /\ req'[r].of = j /\ Issued(j)' /\ req'[r].pc \in {"read", "reread"}
             /\ req'[r].pc = "reread" => /\ req'[r].version <= version'
                                         /\ req'[r].rec = Nil \/ RecordOf(j, req[r].rec)'
  <2>1. Issued(j) /\ token' = token /\ version' = version /\ version \in Nat
    BY <1>2, Steady DEF Begin, kvVars
  <2>2. registry[j] = Nil \/ RecordOf(j, registry[j])
    BY DEF Known
  <2>3. QED BY <1>2, <2>1, <2>2 DEF Begin, TypeOK, Issued, RecordOf
<1>3. CASE Read(r)
  <2>1. token' = token /\ version' = version /\ Issued(req[r].of)
    BY <1>3 DEF Read, kvVars, Known
  <2>2. QED BY <1>3, <2>1, ReadEffect DEF RecordOf, Issued
<1>4. CASE Load(r)
  <2>1. req[r] \in [pc : {"load", "put"}, of : Session, rec : Record, dead : BOOLEAN, due : Data]
    BY <1>4, RequestKinds DEF TypeOK, Load
  <2>2. PICK data \in Data \cup {Empty} : req' = [req EXCEPT ![r].pc = "put", ![r].rec.data = data]
    BY <1>4 DEF Load
  <2>3. /\ req'[r].pc = "put" /\ req'[r].of = req[r].of
        /\ req'[r].rec.c = req[r].rec.c /\ req'[r].rec.v = req[r].rec.v
    BY <2>1, <2>2 DEF TypeOK, Record
  <2>4. token' = token /\ version' = version
    BY <1>4 DEF Load, kvVars
  <2>5. QED BY <1>4, <2>3, <2>4 DEF Known, Load, RecordOf, Issued
<1>5. CASE Serve(r)
  <2>1. req'[r].pc = "served"
    BY <1>5 DEF Serve, Served, TypeOK
  <2>2. QED BY <2>1
<1>6. QED BY <1>1, <1>2, <1>3, <1>4, <1>5, RequestSteps DEF Requesting

LEMMA OperationEffect ==
    ASSUME TypeOK, Known, NEW o \in Op, Operating(o), op'[o] # op[o], op'[o].pc = "rename"
    PROVE  \E j \in Session : Rename(o, j) /\ op'[o].of = j /\ op'[o].rec = registry[j]
<1>1. CASE \E j \in Session : Revoke(o, j) \/ RevokeOthers(o, j) \/ Tomb(o, j) \/ Remove(o, j)
  <2>1. CASE \E js : RevokeThese(o, js)
    BY <2>1 DEF TypeOK, RevokeThese
  <2>2. CASE \E todo, delete : RevokeRest(o, todo, delete)
    BY <2>2 DEF TypeOK, RevokeRest, Idle
  <2>3. QED BY <1>1, <2>1, <2>2 DEF Revoke, RevokeOthers, Tomb, Remove
<1>2. CASE \E j \in Session : Sweep(o, j)
  <2>1. op[o] \in [pc : {"sweep"}, at : Time, todo : SUBSET Session]
    BY <1>2, OperationKinds DEF TypeOK, Sweep
  <2>2. QED BY <1>2, <2>1 DEF TypeOK, Sweep, Idle
<1>3. CASE \E j \in Session : Rename(o, j)
  <2>1. PICK j \in Session : Rename(o, j)
    BY <1>3
  <2>2. op'[o].of = j /\ op'[o].rec = registry[j]
    BY <2>1 DEF TypeOK, Rename
  <2>3. QED BY <2>1, <2>2
<1>4. CASE RevokeAll(o) \/ List(o)
  BY <1>4 DEF TypeOK, RevokeAll, List
<1>5. CASE Purged(o) \/ RenamePut(o)
  BY <1>5 DEF TypeOK, Purged, RenamePut, Idle
<1>6. QED BY <1>1, <1>2, <1>3, <1>4, <1>5 DEF Operating

LEMMA KnownOperation ==
    ASSUME TypeOK, Known, [Next]_vars, NEW o \in Op, op'[o].pc = "rename"
    PROVE  Issued(op[o].of)' /\ RecordOf(op[o].of, op[o].rec)'
<1>1. CASE op'[o] = op[o]
  <2>1. op[o].of \in Session /\ op[o].rec \in Record
    BY <1>1, OperationKinds DEF TypeOK
  <2>2. QED BY <1>1, <2>1, RecordKept DEF Known, RecordOf
<1>2. CASE op'[o] # op[o]
  <2>1. PICK j \in Session : Rename(o, j) /\ op'[o].of = j /\ op'[o].rec = registry[j]
    BY <1>2, OperationSteps, OperationEffect
  <2>2. registry[j] \in Record
    BY <2>1 DEF Rename, Listed, TypeOK
  <2>3. Issued(j) /\ RecordOf(j, registry[j])
    BY <2>1 DEF Rename, Listed, Known
  <2>4. QED BY <2>1, <2>2, <2>3, RecordKept DEF RecordOf
<1>3. QED BY <1>1, <1>2

LEMMA KnownToken ==
    ASSUME TypeOK, Known, [Next]_vars, NEW j \in Session, j \in Signed'
    PROVE  RecordOf(j, token[j].rec)'
<1>1. CASE j \in Signed /\ token'[j].c = token[j].c /\ token'[j].rec = token[j].rec
  <2>1. token[j].rec.v \in Nat
    BY <1>1, TokenKinds, RecordFacts DEF TypeOK, Signed
  <2>2. QED BY <1>1, <2>1, Steady DEF Known, RecordOf
<1>2. CASE /\ token'[j].c = now /\ token'[j].rec.c = now /\ token'[j].rec.v \in {0, version}
  BY <1>2, Steady DEF RecordOf
<1>3. QED BY <1>1, <1>2, SteadyToken

LEMMA KnownRegistry ==
    ASSUME TypeOK, Known, [Next]_vars, NEW j \in Session, registry'[j] # Nil
    PROVE  Issued(j)' /\ RecordOf(j, registry[j])'
<1>1. CASE registry'[j] = registry[j]
  BY <1>1, RecordKept DEF Known, TypeOK, RecordOf
<1>2. CASE registry'[j] = token[j].rec /\ token'[j].pc = "issued" /\ Issue(j)
  <2>1. j \in Signed' /\ token'[j].rec = token[j].rec
    BY <1>2, SteadyToken DEF Signed, Issue, Sign
  <2>2. QED BY <1>2, <2>1, KnownToken DEF Issued, RecordOf
<1>3. ASSUME NEW r \in Req, Serve(r), req[r].of = j, registry'[j] = req[r].rec
      PROVE  Issued(j)' /\ RecordOf(j, registry[j])'
  <2>1. req[r].rec \in Record
    BY <1>3, RequestKinds DEF TypeOK, Serve
  <2>2. QED BY <1>3, <2>1, RecordKept DEF Known, Serve, RecordOf
<1>4. ASSUME NEW o \in Op, RenamePut(o), op[o].of = j, registry'[j] = op[o].rec
      PROVE  Issued(j)' /\ RecordOf(j, registry[j])'
  <2>1. op[o].rec \in Record
    BY <1>4, OperationKinds DEF TypeOK, RenamePut
  <2>2. QED BY <1>4, <2>1, RecordKept DEF Known, RenamePut, RecordOf
<1>5. QED BY <1>1, <1>2, <1>3, <1>4, Puts

LEMMA KnownNext == TypeOK /\ Known /\ [Next]_vars => Known'
<1> SUFFICES ASSUME TypeOK, Known, [Next]_vars PROVE Known'
  OBVIOUS
<1>1. version' <= now' /\ since' <= now'
  <2>1. CASE UNCHANGED vars
    BY <2>1 DEF vars, kvVars, Known
  <2>2. CASE Elsewhere
    BY <2>2, Steady DEF Elsewhere, Tick, Change, Bump, kvVars, Known
  <2>3. ASSUME UNCHANGED <<now, version, since>> PROVE version' <= now' /\ since' <= now'
    BY <2>3 DEF Known
  <2>4. ASSUME NEW o \in Op, Operating(o) PROVE version' <= now' /\ since' \in {since, now} /\ now' = now
    <3>1. now' = now /\ version' = version
      BY <2>4, FrameOperating
    <3>2. since' \in {since, now}
      BY <2>4 DEF Operating, Revoke, RevokeOthers, RevokeThese, Rename, Tomb, Remove, Sweep, RevokeAll,
                  List, Purged, RenamePut, kvVars
    <3>3. QED BY <3>1, <3>2 DEF Known
  <2>5. QED BY <2>1, <2>2, <2>3, <2>4, NextKinds, FrameSigning, FrameRequesting, Steady DEF Known
<1>2. QED
  BY <1>1, KnownToken, KnownRegistry, KnownRequest, KnownOperation DEF Known, Signed

-----------------------------------------------------------------------------
(* Ending. *)

LEMMA EndedNext ==
    ASSUME Inv, [Next]_vars, NEW j \in ended'
    PROVE  j \in tombs' \/ (Issued(j)' /\ token'[j].c < since')
<1>1. CASE j \in ended
  <2>1. j \in Session
    BY <1>1 DEF Inv, TypeOK
  <2>2. CASE j \in tombs
    BY <2>2, Steady DEF Inv
  <2>3. CASE Issued(j) /\ token[j].c < since
    <3>1. token[j].c \in Nat
      BY <2>1, <2>3, TokenKinds, RecordFacts DEF Inv, TypeOK, Issued
    <3>2. QED BY <2>1, <2>3, <3>1, Steady, SteadyToken DEF Inv, Issued
  <2>4. QED BY <1>1, <2>2, <2>3 DEF Inv, Ending
<1>2. CASE j \notin ended
  <2>1. CASE UNCHANGED ended
    BY <1>2, <2>1
  <2>2. ASSUME NEW o \in Op, NEW k \in Session, Tomb(o, k)
        PROVE  j \in tombs'
    BY <1>2, <2>2 DEF Tomb
  <2>3. ASSUME NEW o \in Op, RevokeAll(o)
        PROVE  Issued(j)' /\ token'[j].c < since'
    BY <1>2, <2>3 DEF RevokeAll, Issued
  <2>4. ASSUME NEW o \in Op, Operating(o), ~RevokeAll(o), ~\E k \in Session : Tomb(o, k)
        PROVE  UNCHANGED ended
    BY <2>4 DEF Operating, Revoke, RevokeOthers, RevokeThese, Remove, Sweep, Rename, List, Purged,
                RenamePut, histVars
  <2>5. UNCHANGED ended \/ \E o \in Op : Operating(o)
    BY NextKinds, FrameElsewhere, FrameSigning, FrameRequesting DEF Inv, vars, histVars
  <2>6. QED BY <2>1, <2>2, <2>3, <2>4, <2>5
<1>3. QED BY <1>1, <1>2

LEMMA BegunDead ==
    ASSUME NEW q, NEW pc, NEW j, NEW marker, NEW rec, NEW v, NEW E, NEW d,
           q = [pc |-> pc, of |-> j, marker |-> marker, rec |-> rec, version |-> v,
                dead |-> j \in E, due |-> d]
    PROVE  q.dead = (j \in E)
OBVIOUS

LEMMA DeadNext ==
    ASSUME Inv, [Next]_vars, NEW r \in Req, req'[r].pc # "idle", req'[r].dead
    PROVE  \/ req'[r].pc = "read" /\ token'[req'[r].of].c < req'[r].marker
           \/ req'[r].pc = "reread" /\ req'[r].of \in ended'
<1>1. CASE req'[r] = req[r]
  <2>1. CASE req[r].pc = "read"
    <3>1. req[r].of \in Session /\ Issued(req[r].of)
      BY <2>1, RequestKinds DEF Inv, TypeOK, Known
    <3>2. token'[req[r].of] = token[req[r].of]
      BY <3>1, SteadyToken DEF Inv
    <3>3. QED BY <1>1, <2>1, <3>2 DEF Inv, Ending
  <2>2. CASE req[r].pc # "read"
    BY <1>1, <2>2, Steady DEF Inv, Ending
  <2>3. QED BY <2>1, <2>2
<1>2. CASE \E j \in Session : Begin(r, j)
  <2>1. PICK j \in Session : Begin(r, j)
    BY <1>2
  <2>2. /\ req'[r].of = j /\ (req'[r].dead <=> j \in ended) /\ token' = token /\ ended' = ended
        /\ \/ req'[r].pc = "read" /\ req'[r].marker = since /\ j \notin tombs
           \/ req'[r].pc = "reread"
    <3>1. token' = token /\ ended' = ended
      BY <2>1 DEF Begin, histVars
    <3>2. CASE /\ j \notin tombs
               /\ req' = [req EXCEPT ![r] = [pc |-> "read", of |-> j, marker |-> since, rec |-> Nil,
                                            version |-> 0, dead |-> j \in ended, due |-> told]]
      <4>1. req'[r] = [pc |-> "read", of |-> j, marker |-> since, rec |-> Nil,
                       version |-> 0, dead |-> j \in ended, due |-> told]
        BY <3>2 DEF Inv, TypeOK
      <4>2. req'[r].dead = (j \in ended)
        BY <4>1, BegunDead
      <4>3. req'[r].pc = "read" /\ req'[r].of = j /\ req'[r].marker = since
        BY <4>1
      <4>4. QED BY <3>1, <3>2, <4>2, <4>3, Zenon
    <3>3. CASE req' = [req EXCEPT ![r] = [pc |-> "reread", of |-> j, marker |-> 0,
                                          rec |-> registry[j], version |-> version,
                                          dead |-> j \in ended, due |-> told]]
      <4>1. req'[r] = [pc |-> "reread", of |-> j, marker |-> 0, rec |-> registry[j],
                       version |-> version, dead |-> j \in ended, due |-> told]
        BY <3>3 DEF Inv, TypeOK
      <4>2. req'[r].dead = (j \in ended)
        BY <4>1, BegunDead
      <4>3. req'[r].pc = "reread" /\ req'[r].of = j
        BY <4>1
      <4>4. QED BY <3>1, <4>2, <4>3, Zenon
    <3>4. QED BY <2>1, <3>2, <3>3 DEF Begin
  <2>3. QED BY <2>2 DEF Inv, Ending
<1>3. CASE Read(r)
  <2>1. ~req[r].dead
    <3>1. CASE req[r].pc = "read"
      BY <1>3, <3>1, ReadEffect DEF Inv, Ending
    <3>2. CASE req[r].pc = "reread"
      BY <1>3, <3>2, ReadEffect DEF Inv, Ending
    <3>3. QED BY <1>3, <3>1, <3>2 DEF Read
  <2>2. QED BY <1>3, <2>1, ReadEffect DEF Inv
<1>4. CASE Load(r)
  <2>1. req[r] \in [pc : {"load", "put"}, of : Session, rec : Record, dead : BOOLEAN, due : Data]
    BY <1>4, RequestKinds DEF Inv, TypeOK, Load
  <2>2. req'[r].dead = req[r].dead
    <3>1. PICK data : req' = [req EXCEPT ![r].pc = "put", ![r].rec.data = data]
      BY <1>4 DEF Load
    <3>2. req \in [Req -> Request]
      BY DEF Inv, TypeOK
    <3>3. QED BY <2>1, <3>1, <3>2, Zenon
  <2>3. QED BY <1>4, <2>2 DEF Inv, Ending, Load
<1>5. CASE Serve(r)
  BY <1>5 DEF Serve, Served, Inv, TypeOK, Ending
<1>6. QED BY <1>1, <1>2, <1>3, <1>4, <1>5, RequestSteps DEF Inv, Requesting

LEMMA EndingNext == Inv /\ [Next]_vars => Ending'
BY EndedNext, DeadNext DEF Ending

-----------------------------------------------------------------------------
LEMMA MarkedNext == Inv /\ [Next]_vars => Marked'
<1> SUFFICES ASSUME Inv, [Next]_vars, NEW j \in Session, j \in Signed', token'[j].c < since'
             PROVE  j \in bulk'
  BY DEF Marked, Signed
<1>1. CASE since' = since
  <2>1. CASE j \in Signed /\ token'[j].c = token[j].c
    BY <1>1, <2>1, Steady DEF Inv, Marked
  <2>2. CASE token'[j].c = now
    BY <1>1, <2>2, Steady DEF Inv, Known
  <2>3. QED BY <2>1, <2>2, SteadyToken DEF Inv
<1>2. ASSUME NEW o \in Op, RevokeAll(o) PROVE j \in bulk'
  BY <1>2 DEF RevokeAll, Signed
<1>3. ASSUME NEW o \in Op, Operating(o), ~RevokeAll(o) PROVE since' = since
  BY <1>3 DEF Operating, Revoke, RevokeOthers, RevokeThese, Tomb, Remove, Sweep, Rename, List, Purged,
              RenamePut, kvVars
<1>4. since' = since \/ \E o \in Op : Operating(o)
  BY NextKinds, FrameElsewhere, FrameSigning, FrameRequesting DEF Inv, vars, kvVars
<1>5. QED BY <1>1, <1>2, <1>3, <1>4

-----------------------------------------------------------------------------
(* Erasure. *)

(* Nothing brings back the record of a session that is older than the      *)
(* marker and has nothing in progress: a request that begins is denied,    *)
(* and a rename is not offered.                                            *)
LEMMA BarredKept ==
    ASSUME Inv, [Next]_vars, NEW j \in Session, Barred(j), token[j].c < since
    PROVE  Barred(j)' /\ token'[j] = token[j] /\ registry'[j] \in {registry[j], Nil}
<1>1. token'[j] = token[j] /\ Issued(j) /\ Issued(j)'
  BY SteadyToken DEF Inv, Barred, Issued
<1>2. token[j].c \in Nat
  BY <1>1, TokenKinds, RecordFacts DEF Inv, TypeOK, Issued
<1>3. registry'[j] \in {registry[j], Nil}
  BY <1>1, Puts DEF Inv, Barred, Issue, Serve, RenamePut, Issued
<1>4. ASSUME NEW r \in Req, req'[r].pc \in {"read", "load", "put"}, req'[r].of = j
      PROVE  req'[r].pc = "read" /\ token'[j].c < req'[r].marker
  <2>1. CASE req'[r] = req[r]
    BY <1>1, <1>4, <2>1 DEF Barred
  <2>2. CASE \E k \in Session : Begin(r, k)
    <3>1. PICK k \in Session : Begin(r, k)
      BY <2>2
    <3>2. req'[r].pc \in {"read", "reread"} /\ (req'[r].pc = "read" => req'[r].marker = since)
      BY <3>1 DEF Begin, Inv, TypeOK
    <3>3. QED BY <1>1, <1>4, <3>2
  <2>3. CASE Read(r)
    <3>1. ~(token[j].c < since) \/ req[r].pc = "read"
      BY <1>4, <2>3, ReadEffect DEF Inv, Read
    <3>2. req[r].pc = "read" /\ req[r].of = j /\ ~(token[j].c < req[r].marker)
      BY <1>4, <2>3, <3>1, ReadEffect DEF Inv
    <3>3. QED BY <3>2 DEF Barred
  <2>4. CASE Load(r)
    <3>1. req[r] \in [pc : {"load", "put"}, of : Session, rec : Record, dead : BOOLEAN, due : Data]
      BY <2>4, RequestKinds DEF Inv, TypeOK, Load
    <3>2. req'[r].of = req[r].of
      BY <2>4, <3>1 DEF Inv, TypeOK, Load
    <3>3. QED BY <1>4, <2>4, <3>2 DEF Barred, Load
  <2>5. CASE Serve(r)
    BY <1>4, <2>5 DEF Serve, Served, Inv, TypeOK
  <2>6. QED BY <2>1, <2>2, <2>3, <2>4, <2>5, RequestSteps DEF Inv, Requesting
<1>5. ASSUME NEW o \in Op, op'[o].pc = "rename" PROVE op'[o].of # j
  <2>1. CASE op'[o] = op[o]
    BY <1>5, <2>1 DEF Barred
  <2>2. CASE op'[o] # op[o]
    <3>1. PICK k \in Session : Rename(o, k) /\ op'[o].of = k
      BY <1>5, <2>2, OperationSteps, OperationEffect DEF Inv
    <3>2. registry[k] # Nil /\ registry[k].c >= since /\ registry[k].c = token[k].c
      BY <3>1 DEF Rename, Listed, Inv, Known, RecordOf
    <3>3. k # j
      BY <1>2, <3>2, Steady DEF Inv
    <3>4. QED BY <3>1, <3>3
  <2>3. QED BY <2>1, <2>2
<1>6. QED BY <1>1, <1>3, <1>4, <1>5 DEF Barred

LEMMA SweptKept ==
    ASSUME Inv, [Next]_vars, NEW a \in Nat, NEW todo, Swept(a, todo)
    PROVE  Swept(a, todo)'
<1>1. a <= since'
  BY Steady DEF Inv, Swept
<1>2. ASSUME NEW j \in Session, j \in Signed', token'[j].c < a
      PROVE  j \in loose' \/ (Barred(j)' /\ (registry'[j] = Nil \/ j \in todo))
  <2>1. CASE j \in Signed /\ token'[j].c = token[j].c
    <3>1. CASE j \in loose
      BY <3>1, Steady DEF Inv
    <3>2. CASE Barred(j) /\ (registry[j] = Nil \/ j \in todo)
      <4>1. token[j].c \in Nat
        BY <2>1, TokenKinds, RecordFacts DEF Inv, TypeOK, Signed
      <4>2. token[j].c < since
        BY <1>2, <2>1, <4>1, Steady DEF Inv, Swept
      <4>3. QED BY <3>2, <4>2, BarredKept
    <3>3. QED BY <1>2, <2>1, <3>1, <3>2 DEF Swept
  <2>2. CASE token'[j].c = now
    BY <1>2, <2>2, Steady DEF Inv, Known, Swept
  <2>3. QED BY <1>2, <2>1, <2>2, SteadyToken DEF Inv
<1>3. QED BY <1>1, <1>2 DEF Swept, Signed

LEMMA PurgeSteps ==
    ASSUME Inv, [Next]_vars, NEW o \in Op, op'[o] # op[o]
    PROVE  /\ op'[o].pc = "list" => RevokeAll(o) /\ op'[o].at = now
           /\ op'[o].pc = "sweep"
                => \/ List(o)
                   \/ \E j \in Session : Sweep(o, j) /\ Delete(j) /\ op'[o].at = op[o].at
                                         /\ op'[o].todo = op[o].todo \ {j}
<1>1. CASE \E j \in Session : Revoke(o, j) \/ RevokeOthers(o, j) \/ Tomb(o, j) \/ Remove(o, j)
  <2>1. CASE \E js : RevokeThese(o, js)
    BY <2>1 DEF Inv, TypeOK, RevokeThese
  <2>2. CASE \E todo, delete : RevokeRest(o, todo, delete)
    BY <2>2 DEF Inv, TypeOK, RevokeRest, Idle
  <2>3. QED BY <1>1, <2>1, <2>2 DEF Revoke, RevokeOthers, Tomb, Remove
<1>2. ASSUME NEW j \in Session, Sweep(o, j)
      PROVE  \/ op'[o].pc = "idle"
             \/ /\ op'[o].pc = "sweep" /\ Delete(j) /\ op'[o].at = op[o].at
                /\ op'[o].todo = op[o].todo \ {j}
  <2>1. op[o] \in [pc : {"sweep"}, at : Time, todo : SUBSET Session]
    BY <1>2, OperationKinds DEF Inv, TypeOK, Sweep
  <2>2. QED BY <1>2, <2>1 DEF Inv, TypeOK, Sweep, Idle
<1>3. CASE (\E j \in Session : Rename(o, j)) \/ Purged(o) \/ RenamePut(o)
  BY <1>3 DEF Inv, TypeOK, Rename, Purged, RenamePut, Idle
<1>4. CASE RevokeAll(o)
  BY <1>4 DEF Inv, TypeOK, RevokeAll
<1>5. CASE List(o)
  BY <1>5 DEF Inv, TypeOK, List
<1>6. QED BY <1>1, <1>2, <1>3, <1>4, <1>5, OperationSteps DEF Inv, Operating

LEMMA ListSwept ==
    ASSUME Inv, [Next]_vars, NEW o \in Op, List(o)
    PROVE  op'[o].at \in Nat /\ op'[o].pc = "sweep" /\ Swept(op[o].at, op[o].todo)'
<1>1. op[o].at \in Nat /\ op[o].at <= since
  BY OperationKinds, RecordFacts DEF Inv, TypeOK, List, Erasure
<1>2. /\ op'[o].pc = "sweep" /\ op'[o].at = op[o].at
      /\ op'[o].todo = {j \in Session : registry[j] # Nil}
  BY DEF List, Inv, TypeOK
<1>3. UNCHANGED <<since, registry, token, req>> /\ \A p \in Op : p # o => op'[p] = op[p]
  BY DEF List, kvVars, Inv, TypeOK
<1>4. ASSUME NEW j \in Signed, j \notin loose' PROVE Barred(j)'
  <2>1. j \in Session /\ ~InProgress(j)
    BY <1>4 DEF List, Signed
  <2>2. QED BY <1>2, <1>3, <1>4, <2>1 DEF InProgress, Barred, Issued, Signed
<1>5. QED BY <1>1, <1>2, <1>3, <1>4 DEF Swept, Signed

LEMMA ErasureNext == Inv /\ [Next]_vars => Erasure'
<1> SUFFICES ASSUME Inv, [Next]_vars PROVE Erasure'
  OBVIOUS
<1>1. erased \in Nat /\ \A o \in Op : op[o].pc \in {"list", "sweep"} => op[o].at \in Nat
  BY OperationKinds, RecordFacts DEF Inv, TypeOK
<1>2. Swept(erased, {})'
  <2>1. CASE erased' = erased
    BY <1>1, <2>1, SweptKept DEF Inv, Erasure, Swept
  <2>2. ASSUME NEW o \in Op, Purged(o) PROVE Swept(erased, {})'
    <3>1. Swept(erased, {}) /\ Swept(op[o].at, {}) /\ op[o].at \in Nat
      BY <1>1, <2>2 DEF Inv, Erasure, Purged
    <3>2. erased' \in {erased, op[o].at}
      BY <2>2 DEF Purged, Later
    <3>3. PICK a \in Nat : a = erased' /\ Swept(a, {})
      BY <1>1, <3>1, <3>2
    <3>4. Swept(a, {})'
      BY <3>3, SweptKept
    <3>5. QED BY <3>3, <3>4 DEF Swept
  <2>3. ASSUME NEW o \in Op, Operating(o), ~Purged(o) PROVE erased' = erased
    BY <2>3 DEF Operating, Revoke, RevokeOthers, RevokeThese, Tomb, Remove, Sweep, Rename, RevokeAll,
                List, RenamePut, histVars
  <2>4. erased' = erased \/ \E o \in Op : Operating(o)
    BY NextKinds, FrameElsewhere, FrameSigning, FrameRequesting DEF Inv, vars, histVars
  <2>5. QED BY <2>1, <2>2, <2>3, <2>4
<1>3. ASSUME NEW o \in Op, op'[o].pc = "list" PROVE op'[o].at <= since'
  <2>1. CASE op'[o] = op[o]
    BY <1>1, <1>3, <2>1, Steady DEF Inv, Erasure
  <2>2. CASE op'[o] # op[o]
    BY <1>3, <2>2, PurgeSteps, Steady DEF RevokeAll, Inv
  <2>3. QED BY <2>1, <2>2
<1>4. ASSUME NEW o \in Op, op'[o].pc = "sweep" PROVE Swept(op[o].at, op[o].todo)'
  <2>1. CASE op'[o] = op[o]
    <3>1. PICK a, todo : a \in Nat /\ a = op[o].at /\ todo = op[o].todo /\ Swept(a, todo)
      BY <1>1, <1>4, <2>1 DEF Inv, Erasure
    <3>2. Swept(a, todo)'
      BY <3>1, SweptKept
    <3>3. QED BY <2>1, <3>1, <3>2 DEF Swept
  <2>2. CASE List(o)
    BY <2>2, ListSwept
  <2>3. ASSUME NEW k \in Session, Sweep(o, k), Delete(k), op'[o].at = op[o].at,
               op'[o].todo = op[o].todo \ {k}
        PROVE  Swept(op[o].at, op[o].todo)'
    <3>1. PICK a, todo : a \in Nat /\ a = op[o].at /\ todo = op[o].todo /\ Swept(a, todo)
      BY <1>1, <2>3 DEF Inv, Erasure, Sweep
    <3>2. Swept(a, todo)'
      BY <3>1, SweptKept
    <3>3. registry'[k] = Nil
      BY <2>3 DEF Delete, Inv, TypeOK
    <3>4. QED BY <2>3, <3>1, <3>2, <3>3 DEF Swept, Signed
  <2>4. QED BY <1>4, <2>1, <2>2, <2>3, PurgeSteps
<1>5. QED BY <1>2, <1>3, <1>4 DEF Erasure

-----------------------------------------------------------------------------
(* Showing. *)

(* Raising the version makes every record older, so that none claims the   *)
(* change it was raised for.                                               *)
LEMMA FreshKept ==
    ASSUME Inv, [Next]_vars, NEW rec \in Record, rec.v <= version, Fresh(rec)
    PROVE  rec.raced \/ (rec.v >= version' => rec.data >= told')
<1>1. rec.v \in Nat /\ version \in Nat
  BY RecordFacts, Steady DEF Inv
<1>2. CASE UNCHANGED <<version, told>>
  BY <1>2 DEF Fresh, Reflects
<1>3. ASSUME NEW n \in unbumped, Bump(n) PROVE UNCHANGED <<version, told>> \/ version < version'
  BY <1>1, <1>3, Steady DEF Bump, Inv, Known
<1>4. UNCHANGED <<version, told>> \/ \E n \in unbumped : Bump(n)
  BY NextKinds, FrameSigning, FrameRequesting, FrameOperating
     DEF Inv, vars, kvVars, histVars, Elsewhere, Tick, Change
<1>5. version < version' => ~(rec.v >= version')
  BY <1>1, Steady DEF Inv
<1>6. QED BY <1>2, <1>3, <1>4, <1>5

LEMMA ToldNext ==
    ASSUME Inv, [Next]_vars
    PROVE  told' <= profile' /\ \A n \in unbumped' : n <= profile'
<1>1. told \in Nat /\ profile \in Nat /\ \A n \in unbumped : n \in Nat
  BY RecordFacts DEF Inv, TypeOK
<1>2. CASE UNCHANGED <<told, profile, unbumped>>
  BY <1>2 DEF Inv, Showing
<1>3. CASE Change
  BY <1>1, <1>3 DEF Change, histVars, Inv, Showing
<1>4. CASE \E n \in unbumped : Bump(n)
  BY <1>1, <1>4 DEF Bump, Later, Inv, Showing
<1>5. UNCHANGED <<told, profile, unbumped>> \/ Change \/ \E n \in unbumped : Bump(n)
  BY NextKinds, FrameSigning, FrameRequesting, FrameOperating
     DEF Inv, vars, histVars, Elsewhere, Tick
<1>6. QED BY <1>2, <1>3, <1>4, <1>5

LEMMA FreshRequest ==
    ASSUME Inv, [Next]_vars, NEW r \in Req
    PROVE  /\ req'[r].pc = "reread" => req'[r].rec = Nil \/ Fresh(req[r].rec)'
           /\ req'[r].pc = "put" => Fresh(req[r].rec)'
<1>1. CASE req'[r] = req[r] /\ req[r].pc \in {"reread", "put"}
  <2>1. CASE req[r].rec = Nil
    <3>1. req[r].pc # "put"
      BY <2>1, RequestKinds, RecordFacts DEF Inv, TypeOK
    <3>2. QED BY <1>1, <2>1, <3>1
  <2>2. CASE req[r].rec # Nil
    <3>1. req[r].rec \in Record /\ req[r].rec.v <= version /\ Fresh(req[r].rec)
      BY <1>1, <2>2, RequestKinds DEF Inv, TypeOK, Known, RecordOf, Showing
    <3>2. QED BY <1>1, <3>1, FreshKept DEF Fresh, Reflects
  <2>3. QED BY <2>1, <2>2
<1>2. ASSUME NEW j \in Session, Begin(r, j), req'[r].pc \in {"reread", "put"}
      PROVE  req'[r].pc = "reread" /\ (req'[r].rec = Nil \/ Fresh(req[r].rec)')
  <2>1. req'[r].pc = "reread" /\ req'[r].rec = registry[j]
    BY <1>2 DEF Begin, Inv, TypeOK
  <2>2. version' = version /\ told' = told
    BY <1>2 DEF Begin, kvVars, histVars
  <2>3. QED BY <2>1, <2>2 DEF Inv, Showing, Fresh, Reflects
<1>3. CASE Read(r)
  BY <1>3, ReadEffect DEF Inv
<1>4. CASE Load(r)
  <2>1. req[r] \in [pc : {"load", "put"}, of : Session, rec : Record, dead : BOOLEAN, due : Data]
    BY <1>4, RequestKinds DEF Inv, TypeOK, Load
  <2>2. PICK data \in Data \cup {Empty} :
          Loaded(data) /\ req' = [req EXCEPT ![r].pc = "put", ![r].rec.data = data]
    BY <1>4 DEF Load
  <2>3. req'[r].pc = "put" /\ req'[r].rec.data = data
    BY <2>1, <2>2 DEF Inv, TypeOK, Record
  <2>4. data >= told
    BY <2>2, RecordFacts DEF Loaded, Inv, TypeOK, Showing
  <2>5. told' = told
    BY <1>4 DEF Load, histVars
  <2>6. QED BY <2>3, <2>4, <2>5 DEF Fresh, Reflects
<1>5. CASE Serve(r)
  BY <1>5 DEF Serve, Served, Inv, TypeOK
<1>6. QED BY <1>1, <1>2, <1>3, <1>4, <1>5, RequestSteps DEF Inv, Requesting

LEMMA FreshOperation ==
    ASSUME Inv, [Next]_vars, NEW o \in Op, op'[o].pc = "rename"
    PROVE  Fresh(op[o].rec)'
<1>1. CASE op'[o] = op[o]
  <2>1. op[o].rec \in Record /\ op[o].rec.v <= version /\ Fresh(op[o].rec)
    BY <1>1, OperationKinds DEF Inv, TypeOK, Known, RecordOf, Showing
  <2>2. QED BY <1>1, <2>1, FreshKept DEF Fresh, Reflects
<1>2. CASE op'[o] # op[o]
  <2>1. PICK j \in Session : Rename(o, j) /\ op'[o].rec = registry[j]
    BY <1>2, OperationSteps, OperationEffect DEF Inv
  <2>2. version' = version /\ told' = told /\ registry[j] # Nil
    BY <2>1 DEF Rename, Listed, kvVars, histVars
  <2>3. QED BY <2>1, <2>2 DEF Inv, Showing, Fresh, Reflects
<1>3. QED BY <1>1, <1>2

LEMMA FreshToken ==
    ASSUME Inv, [Next]_vars, NEW j \in Session, j \in Signed'
    PROVE  Fresh(token[j].rec)'
<1>1. CASE j \in Signed /\ token'[j].rec = token[j].rec
  <2>1. token[j].rec \in Record /\ token[j].rec.v <= version /\ Fresh(token[j].rec)
    BY <1>1, TokenKinds DEF Inv, TypeOK, Known, RecordOf, Showing, Signed
  <2>2. QED BY <1>1, <2>1, FreshKept DEF Fresh, Reflects
<1>2. CASE /\ Sign(j) /\ token'[j].rec.data = token[j].data
           /\ token'[j].rec.raced \/ token[j].told = told
  <2>1. told' = told /\ token[j].data >= token[j].told
    BY <1>2 DEF Sign, histVars, Inv, Showing
  <2>2. QED BY <1>2, <2>1 DEF Fresh, Reflects
<1>3. QED BY <1>1, <1>2, SteadyToken DEF Inv

LEMMA LoadedToken ==
    ASSUME Inv, [Next]_vars, NEW j \in Session, token'[j].pc = "loaded"
    PROVE  token'[j].data >= token'[j].told
<1>1. CASE token'[j] = token[j]
  BY <1>1 DEF Inv, Showing
<1>2. CASE SignIn(j)
  <2>1. PICK data \in Data \cup {Empty} :
          Loaded(data) /\ token'[j] = [pc |-> "loaded", data |-> data, told |-> told]
    BY <1>2 DEF SignIn, Inv, TypeOK
  <2>2. data >= told
    BY <2>1, RecordFacts DEF Loaded, Inv, TypeOK, Showing
  <2>3. QED BY <2>1, <2>2
<1>3. CASE Sign(j)
  <2>1. token'[j].pc = "put"
    BY <1>3 DEF Sign, Inv, TypeOK
  <2>2. QED BY <2>1
<1>4. CASE Issue(j)
  BY <1>4, TokenKinds DEF Issue, Inv, TypeOK
<1>5. QED BY <1>1, <1>2, <1>3, <1>4, TokenSteps DEF Inv, Signing

LEMMA FreshRegistry ==
    ASSUME Inv, [Next]_vars, NEW j \in Session, registry'[j] # Nil
    PROVE  Fresh(registry[j])'
<1>1. ASSUME NEW rec \in Record, rec.v <= version, Fresh(rec), registry'[j] = rec
      PROVE  Fresh(registry[j])'
  BY <1>1, FreshKept DEF Fresh, Reflects
<1>2. CASE registry'[j] = registry[j]
  BY <1>1, <1>2 DEF Inv, TypeOK, Known, RecordOf, Showing
<1>3. CASE Issue(j) /\ registry'[j] = token[j].rec
  BY <1>1, <1>3, TokenKinds DEF Inv, TypeOK, Issue, Known, RecordOf, Showing, Signed
<1>4. ASSUME NEW r \in Req, Serve(r), registry'[j] = req[r].rec PROVE Fresh(registry[j])'
  BY <1>1, <1>4, RequestKinds DEF Inv, TypeOK, Serve, Known, RecordOf, Showing
<1>5. ASSUME NEW o \in Op, RenamePut(o), registry'[j] = op[o].rec PROVE Fresh(registry[j])'
  BY <1>1, <1>5, OperationKinds DEF Inv, TypeOK, RenamePut, Known, RecordOf, Showing
<1>6. QED BY <1>2, <1>3, <1>4, <1>5, Puts DEF Inv

LEMMA ShowingNext == Inv /\ [Next]_vars => Showing'
BY ToldNext, FreshRequest, FreshOperation, FreshToken, LoadedToken, FreshRegistry DEF Showing, Signed

-----------------------------------------------------------------------------
(* Serving. *)

LEMMA ToldGrows == Inv /\ [Next]_vars => told <= told' /\ told \in Nat /\ told' \in Nat
<1> SUFFICES ASSUME Inv, [Next]_vars PROVE told <= told' /\ told \in Nat /\ told' \in Nat
  OBVIOUS
<1>1. told \in Nat /\ \A n \in unbumped : n \in Nat
  BY RecordFacts DEF Inv, TypeOK
<1>2. CASE UNCHANGED told
  BY <1>1, <1>2
<1>3. CASE \E n \in unbumped : Bump(n)
  BY <1>1, <1>3 DEF Bump, Later
<1>4. UNCHANGED told \/ \E n \in unbumped : Bump(n)
  BY NextKinds, FrameSigning, FrameRequesting, FrameOperating
     DEF Inv, vars, histVars, Elsewhere, Tick, Change
<1>5. QED BY <1>2, <1>3, <1>4

(* What a request that has read is served from, or goes on to load.        *)
LEMMA DecideEffect ==
    ASSUME TypeOK, NEW r \in Req, NEW j \in Session, NEW rec, NEW ver, NEW marker,
           Decide(r, j, rec, ver, marker)
    PROVE  \/ req'[r] = Idle
           \/ req'[r].pc = "load" /\ req'[r].due = req[r].due
           \/ /\ rec # Nil /\ ver <= rec.v
              /\ req'[r].pc = "served" /\ req'[r].rec = rec /\ req'[r].due = req[r].due
<1>1. CASE Rest(r)
  BY <1>1 DEF Rest, TypeOK
<1>2. CASE rec # Nil /\ ver <= rec.v /\ Served(r, rec)
  BY <1>2 DEF Served, TypeOK
<1>3. CASE req' = [req EXCEPT ![r] =
             [pc |-> "load", of |-> j, dead |-> req[r].dead, due |-> req[r].due,
              rec |-> [c |-> IF rec = Nil THEN token[j].c ELSE rec.c,
                       v |-> ver, data |-> 0, raced |-> FALSE]]]
  BY <1>3 DEF TypeOK
<1>4. QED BY <1>1, <1>2, <1>3, Zenon DEF Decide

LEMMA ServingRead ==
    ASSUME Inv, NEW r \in Req, Read(r)
    PROVE  \/ req'[r] = Idle
           \/ req'[r].pc = "load" /\ req'[r].due = req[r].due
           \/ req'[r].pc = "served" /\ Shows(req'[r].rec, req'[r].due)
<1> DEFINE j == req[r].of
<1>1. /\ j \in Session /\ req[r].rec \in Record \cup {Nil} /\ req[r].version \in Nat
      /\ req[r].due \in Nat /\ req[r].due <= told
  BY RequestKinds, RecordFacts DEF Inv, TypeOK, Read, Serving
<1>2. CASE req[r].pc = "read" /\ Decide(r, j, registry[j], version, req[r].marker)
  <2>1. CASE registry[j] # Nil /\ version <= registry[j].v
    <3>1. registry[j] \in Record /\ Fresh(registry[j])
      BY <1>1, <2>1 DEF Inv, TypeOK, Showing
    <3>2. /\ registry[j].v \in Nat /\ version \in Nat
          /\ registry[j].data \in Nat /\ told \in Nat
      BY <3>1, RecordFacts DEF Inv, TypeOK
    <3>3. registry[j].raced \/ registry[j].data >= told
      BY <2>1, <3>1, <3>2 DEF Fresh, Reflects
    <3>4. Shows(registry[j], req[r].due)
      BY <1>1, <3>2, <3>3 DEF Shows
    <3>5. QED BY <1>1, <1>2, <3>4, DecideEffect DEF Inv
  <2>2. CASE ~(registry[j] # Nil /\ version <= registry[j].v)
    BY <1>1, <1>2, <2>2, DecideEffect DEF Inv
  <2>3. QED BY <2>1, <2>2
<1>3. CASE req[r].pc = "reread" /\ Decide(r, j, req[r].rec, req[r].version, since)
  <2>1. CASE req[r].rec # Nil /\ req[r].version <= req[r].rec.v
    <3>1. req[r].rec.v \in Nat
      BY <1>1, <2>1, RecordFacts
    <3>2. Shows(req[r].rec, req[r].due)
      BY <1>1, <1>3, <2>1, <3>1 DEF Inv, Serving
    <3>3. QED BY <1>1, <1>3, <3>2, DecideEffect DEF Inv
  <2>2. CASE ~(req[r].rec # Nil /\ req[r].version <= req[r].rec.v)
    BY <1>1, <1>3, <2>2, DecideEffect DEF Inv
  <2>3. QED BY <2>1, <2>2
<1>4. CASE Rest(r)
  BY <1>4 DEF Rest, Inv, TypeOK
<1>5. QED BY <1>2, <1>3, <1>4 DEF Read

LEMMA ServingNext == Inv /\ [Next]_vars => Serving'
<1> SUFFICES ASSUME Inv, [Next]_vars, NEW r \in Req
             PROVE  /\ req'[r].pc \in {"read", "reread", "load"} => req'[r].due <= told'
                    /\ req'[r].pc = "reread" /\ req'[r].rec # Nil
                         /\ req'[r].rec.v >= req'[r].version
                         => Shows(req'[r].rec, req'[r].due)
                    /\ req'[r].pc \in {"put", "served"} => Shows(req'[r].rec, req'[r].due)
  BY DEF Serving, Shows
<1>1. told <= told' /\ told \in Nat /\ told' \in Nat
  BY ToldGrows
<1>2. req[r].pc \in {"read", "reread", "load"} => req[r].due \in Nat /\ req[r].due <= told
  BY RequestKinds, RecordFacts DEF Inv, TypeOK, Serving
<1>3. CASE req'[r] = req[r]
  BY <1>1, <1>2, <1>3 DEF Inv, Serving
<1>4. ASSUME NEW j \in Session, Begin(r, j)
      PROVE  /\ req'[r].pc \in {"read", "reread"} /\ req'[r].due <= told'
             /\ req'[r].pc = "reread" /\ req'[r].rec # Nil
                  /\ req'[r].rec.v >= req'[r].version
                  => Shows(req'[r].rec, req'[r].due)
  <2>1. req'[r].pc \in {"read", "reread"} /\ req'[r].due = told
    BY <1>4 DEF Begin, Inv, TypeOK
  <2>2. req'[r].pc = "reread" => req'[r].rec = registry[j] /\ req'[r].version = version
    BY <1>4 DEF Begin, Inv, TypeOK
  <2>3. registry[j] # Nil => registry[j].raced \/ (registry[j].v >= version => registry[j].data >= told)
    BY DEF Inv, Showing, Fresh, Reflects
  <2>4. QED BY <1>1, <2>1, <2>2, <2>3 DEF Shows
<1>5. CASE Read(r)
  <2>1. req[r].pc \in {"read", "reread"}
    BY <1>5 DEF Read
  <2>2. QED BY <1>1, <1>2, <1>5, <2>1, ServingRead DEF Idle
<1>6. CASE Load(r)
  <2>1. req[r] \in [pc : {"load", "put"}, of : Session, rec : Record, dead : BOOLEAN, due : Data]
        /\ req[r].pc = "load"
    BY <1>6, RequestKinds DEF Inv, TypeOK, Load
  <2>2. PICK data \in Data \cup {Empty} :
          Loaded(data) /\ req' = [req EXCEPT ![r].pc = "put", ![r].rec.data = data]
    BY <1>6 DEF Load
  <2>3. req'[r].pc = "put" /\ req'[r].rec.data = data /\ req'[r].due = req[r].due
    BY <2>1, <2>2 DEF Inv, TypeOK, Record
  <2>4. data >= told /\ data \in Nat
    BY <2>2, RecordFacts DEF Loaded, Inv, TypeOK, Showing
  <2>5. QED BY <1>1, <1>2, <2>1, <2>3, <2>4 DEF Shows
<1>7. CASE Serve(r)
  <2>1. req[r].pc = "put" /\ Shows(req[r].rec, req[r].due)
    BY <1>7 DEF Serve, Inv, Serving
  <2>2. req'[r].pc = "served" /\ req'[r].rec = req[r].rec /\ req'[r].due = req[r].due
    BY <1>7 DEF Serve, Served, Inv, TypeOK
  <2>3. QED BY <2>1, <2>2
<1>8. QED BY <1>3, <1>4, <1>5, <1>6, <1>7, RequestSteps DEF Inv, Requesting

-----------------------------------------------------------------------------
LEMMA InvInit == Init => Inv
<1> SUFFICES ASSUME Init PROVE Inv
  OBVIOUS
<1>1. /\ TypeOK
      /\ \A j \in Session : token[j].pc = "none" /\ registry[j] = Nil
      /\ \A r \in Req : req[r].pc = "idle"
      /\ \A o \in Op : op[o].pc = "idle"
      /\ Signed = {}
  BY TypeInit DEF Init, None, Idle, Signed
<1>2. Known /\ Ending /\ Marked /\ Showing /\ Serving
  BY <1>1 DEF Init, Known, Ending, Marked, Showing, Serving
<1>3. Erasure
  BY <1>1 DEF Init, Erasure, Swept
<1>4. QED BY <1>1, <1>2, <1>3 DEF Inv

LEMMA InvNext == Inv /\ [Next]_vars => Inv'
BY TypeNext, KnownNext, EndingNext, MarkedNext, ErasureNext, ShowingNext, ServingNext DEF Inv

LEMMA Invariance == Spec => []Inv
BY InvInit, InvNext, PTL DEF Spec

(* The clock, the markers, the records and what each sign-in, request and  *)
(* operation of session-store.ts holds have their types.                   *)
THEOREM TypeCorrect == Spec => []TypeOK
<1>1. Inv => TypeOK
  BY DEF Inv
<1>2. QED BY <1>1, Invariance, PTL

(* A request that begins after its session was ended (revokeSession's      *)
(* tombstone, revokeAllUserSessions' marker) is never served, in whichever *)
(* order it reads and whatever is written back meanwhile.                  *)
THEOREM EndedCorrect == Spec => []EndedStaysEnded
<1>1. Inv => EndedStaysEnded
  BY DEF Inv, Ending, EndedStaysEnded
<1>2. QED BY <1>1, Invariance, PTL

(* A session whose sign-in took its time after every marker is not denied  *)
(* by one (getSession compares strictly).                              *)
THEOREM LaterCorrect == Spec => []LaterIsKept
<1>1. ASSUME Inv PROVE LaterIsKept
  <2>1. ASSUME NEW j \in Session, Issued(j), Denied(j, registry[j], since) PROVE token[j].c < since
    BY <1>1, <2>1 DEF Inv, Known, RecordOf, Denied
  <2>2. QED BY <1>1, <2>1 DEF LaterIsKept, Inv, Marked, Signed, Issued
<1>2. QED BY <1>1, Invariance, PTL

(* After a purge (purgeUserSessions) no record of an older session comes   *)
(* back, except where something was in progress when it listed them.       *)
THEOREM ErasureCorrect == Spec => []ErasedStaysErased
<1>1. ASSUME Inv PROVE ErasedStaysErased
  <2>1. ASSUME NEW j \in Session, registry[j] # Nil, registry[j].c < erased PROVE j \in loose
    BY <1>1, <2>1 DEF Inv, Known, RecordOf, Erasure, Swept, Signed, Issued
  <2>2. QED BY <2>1 DEF ErasedStaysErased
<1>2. QED BY <1>1, Invariance, PTL

(* A snapshot a request loaded (refreshSnapshotIfStale, the self-heal)     *)
(* shows every change its version was raised for, because the version is   *)
(* read before D1.                                                         *)
THEOREM SnapshotCorrect == Spec => []LoadedReflects
<1>1. Inv => LoadedReflects
  BY DEF Inv, Showing, Fresh, LoadedReflects
<1>2. QED BY <1>1, Invariance, PTL

(* A request that begins once the version was raised for a change          *)
(* (bumpProfileVersion) is served a snapshot that shows it (getSession,    *)
(* refreshSnapshotIfStale), in whichever order it reads.                   *)
THEOREM ServedCorrect == Spec => []ServedReflects
<1>1. Inv => ServedReflects
  BY DEF Inv, Serving, Shows, ServedReflects
<1>2. QED BY <1>1, Invariance, PTL
=============================================================================
