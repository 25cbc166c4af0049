---------------------------- MODULE OrgAccessProofs ----------------------------
(***************************************************************************)
(* Theorems about Roster and OrgAccess for every set of people, requests   *)
(* and asks.                                                               *)
(***************************************************************************)
EXTENDS OrgAccess, TLAPS

(* What the roster's invariant needs to know of a request on its way: it   *)
(* has read a row before it checks the hierarchy, and past the check it    *)
(* has seen its caller as an owner if an owner is touched.                 *)
SeenRow == \A q \in Request :
    req[q].pc \in {"owner", "write"} /\ ~Adds(q) => req[q].seen \in Row
OwnerChecked == \A q \in Request :
    /\ /\ req[q].pc = "write" /\ ~Adds(q)
       /\ "owner" \in {req[q].ask.role, req[q].seen.role}
       => req[q].asOwner
    /\ req[q].pc \in {"resolve", "find", "write"} /\ Adds(q) /\ req[q].ask.role = "owner"
       => req[q].asOwner

RosterInv == RosterTypeOK /\ SeenRow /\ OwnerChecked /\ OwnerRemains

(* What a lookup read is what the roster says, or the roster has changed   *)
(* under it.                                                               *)
LateKnown == \A u \in User : fill[u] \in {"none", Listed(u)} \/ u \in late

AccessInv == TypeOK /\ LateKnown /\ AccessFollows

-----------------------------------------------------------------------------
(* The records of requests.                                                *)
Doing == Progress \cup {Idle} \cup {Written(u) : u \in User}

LEMMA DoingKinds ==
    ASSUME NEW r \in Doing
    PROVE  /\ r.pc \in {"owner", "resolve", "find", "write"} => r \in Progress
           /\ r.pc = "idle" => r = Idle
           /\ r.pc = "drop" => r.of \in User /\ r = Written(r.of)
BY DEF Doing, Progress, Idle, Written

LEMMA RowFacts ==
    /\ None \notin Row
    /\ None.role \notin Role /\ None.status = "none"
    /\ \A m \in Row \cup {None} : m.status = "active" => m \in Row
    /\ \A u \in User : IsOwner(u) => Active(u)
BY DEF None, Row, Role, Status, IsOwner, Active

(* What an update writes is a row, and asks are what AsksAssumption says. *)
LEMMA UpdatedRow ==
    ASSUME NEW q \in Request, req[q] \in Progress, req[q].seen \in Row
    PROVE  Updated(q) \in Row
<1>1. req[q].ask \in Ask
  BY AsksAssumption DEF Progress
<1>2. QED BY <1>1 DEF Updated, Row, Ask

-----------------------------------------------------------------------------
LEMMA RosterInvInit == RosterInit => RosterInv
<1> SUFFICES ASSUME RosterInit PROVE RosterInv
  OBVIOUS
<1>1. \A q \in Request : req[q].pc = "idle"
  BY DEF RosterInit, Idle
<1>2. RosterTypeOK
  BY DEF RosterInit, RosterTypeOK
<1>3. QED
  BY <1>1, <1>2 DEF RosterInv, RosterInit, SeenRow, OwnerChecked, OwnerRemains

(* A step that changes one request and no row. *)
LEMMA RequestStep ==
    ASSUME RosterInv, NEW q \in Request, NEW r \in Doing,
           req' = [req EXCEPT ![q] = r], RowsUnchanged,
           r.pc \in {"owner", "write"} /\ r.ask.do # "add" => r.seen \in Row,
           r.pc = "write" /\ r.ask.do # "add" /\ "owner" \in {r.ask.role, r.seen.role}
               => r.asOwner,
           r.pc \in {"resolve", "find", "write"} /\ r.ask.do = "add" /\ r.ask.role = "owner"
               => r.asOwner
    PROVE  RosterInv'
<1>1. RosterTypeOK'
  BY DEF RosterInv, RosterTypeOK, RowsUnchanged, Doing
<1>2. req \in [Request -> Doing]
  BY DEF RosterInv, RosterTypeOK, Doing
<1>3. \A p \in Request : req'[p] = IF p = q THEN r ELSE req[p]
  BY <1>2
<1>4. SeenRow'
  BY <1>3 DEF RosterInv, SeenRow, Adds
<1>5. OwnerChecked'
  BY <1>3 DEF RosterInv, OwnerChecked, Adds
<1>6. QED
  BY <1>1, <1>4, <1>5 DEF RosterInv, OwnerRemains, IsOwner, RowsUnchanged

LEMMA StopStep ==
    ASSUME RosterInv, NEW q \in Request, Stop(q), RowsUnchanged
    PROVE  RosterInv'
<1>1. Idle \in Doing /\ Idle.pc = "idle"
  BY DEF Doing, Idle
<1>2. QED BY <1>1, RequestStep DEF Stop

LEMMA StartStep ==
    ASSUME RosterInv, NEW q \in Request, NEW by \in User, NEW of \in User, NEW ask \in Asks,
           Start(q, by, of, ask)
    PROVE  RosterInv'
<1> DEFINE r == [pc |-> IF ask.do # "add" THEN "find" ELSE IF ask.role = "owner" THEN "owner" ELSE "resolve",
                 by |-> by, of |-> of, ask |-> ask, invite |-> FALSE, seen |-> None, asOwner |-> FALSE]
<1>1. r \in Doing
  BY DEF Doing, Progress
<1>2. /\ r.pc # "write" /\ (r.pc = "owner" => r.ask.do = "add")
      /\ r.pc \in {"resolve", "find"} /\ r.ask.do = "add" => r.ask.role # "owner"
  OBVIOUS
<1>3. req' = [req EXCEPT ![q] = r] /\ RowsUnchanged
  BY DEF Start
<1> HIDE DEF r
<1>4. QED BY <1>1, <1>2, <1>3, RequestStep

LEMMA CheckOwnerStep ==
    ASSUME RosterInv, NEW q \in Request, CheckOwner(q)
    PROVE  RosterInv'
<1>1. req[q] \in Progress /\ req \in [Request -> Doing] /\ req[q].pc = "owner"
  BY DoingKinds DEF RosterInv, RosterTypeOK, CheckOwner, Doing
<1>2. CASE IsOwner(req[q].by)
  <2> DEFINE r == [req[q] EXCEPT !.pc = IF Adds(q) THEN "resolve" ELSE "write", !.asOwner = TRUE]
  <2>1. r \in Progress
    BY <1>1 DEF Progress
  <2>2. r \in Doing /\ r.asOwner /\ r.ask = req[q].ask /\ r.seen = req[q].seen
        /\ r.pc \in {"resolve", "write"} /\ (r.pc = "write" => ~Adds(q))
    BY <1>1, <2>1 DEF Progress, Doing
  <2>3. req' = [req EXCEPT ![q] = r] /\ RowsUnchanged
    BY <1>1, <1>2 DEF CheckOwner
  <2>4. r.pc = "write" => r.seen \in Row
    BY <1>1, <2>2 DEF RosterInv, SeenRow
  <2> HIDE DEF r
  <2>5. QED BY <2>2, <2>3, <2>4, RequestStep
<1>3. CASE ~IsOwner(req[q].by)
  BY <1>3, StopStep DEF CheckOwner
<1>4. QED BY <1>2, <1>3

LEMMA ResolveStep ==
    ASSUME RosterInv, NEW q \in Request, Resolve(q)
    PROVE  RosterInv'
<1>1. req[q] \in Progress /\ req \in [Request -> Doing] /\ req[q].pc = "resolve" /\ RowsUnchanged
  BY DoingKinds DEF RosterInv, RosterTypeOK, Resolve, Doing
<1>2. CASE Stop(q)
  BY <1>1, <1>2, StopStep
<1>3. CASE req' = [req EXCEPT ![q].invite = req[q].of \notin accounts, ![q].pc = "find"]
  <2> DEFINE r == [req[q] EXCEPT !.invite = req[q].of \notin accounts, !.pc = "find"]
  <2>1. r \in Progress
    BY <1>1 DEF Progress
  <2>2. /\ r \in Doing /\ r.pc = "find" /\ r.ask = req[q].ask /\ r.asOwner = req[q].asOwner
    BY <1>1, <2>1 DEF Progress, Doing
  <2>3. req' = [req EXCEPT ![q] = r]
    BY <1>1, <1>3
  <2>4. r.ask.do = "add" /\ r.ask.role = "owner" => r.asOwner
    BY <1>1, <2>2 DEF RosterInv, OwnerChecked, Adds
  <2> HIDE DEF r
  <2>5. QED BY <1>1, <2>2, <2>3, <2>4, RequestStep
<1>4. QED BY <1>2, <1>3 DEF Resolve

LEMMA FindStep ==
    ASSUME RosterInv, NEW q \in Request, Find(q)
    PROVE  RosterInv'
<1>1. /\ req[q] \in Progress /\ req \in [Request -> Doing] /\ req[q].pc = "find" /\ RowsUnchanged
      /\ req[q].of \in User
  BY DoingKinds DEF RosterInv, RosterTypeOK, Find, Doing, Progress
<1>2. CASE Stop(q)
  BY <1>1, <1>2, StopStep
<1>3. CASE Adds(q) /\ Goto(q, "write")
  <2> DEFINE r == [req[q] EXCEPT !.pc = "write"]
  <2>1. r \in Progress
    BY <1>1 DEF Progress
  <2>2. r \in Doing /\ r.pc = "write" /\ r.ask = req[q].ask /\ r.asOwner = req[q].asOwner
        /\ r.ask.do = "add"
    BY <1>1, <1>3, <2>1 DEF Progress, Doing, Adds
  <2>3. req' = [req EXCEPT ![q] = r]
    BY <1>1, <1>3 DEF Goto
  <2>4. r.ask.role = "owner" => r.asOwner
    BY <1>1, <2>2 DEF RosterInv, OwnerChecked, Adds
  <2> HIDE DEF r
  <2>5. QED BY <1>1, <2>2, <2>3, <2>4, RequestStep
<1>4. ASSUME ~Adds(q), members[req[q].of] # None,
             req' = [req EXCEPT ![q].seen = members[req[q].of],
                                ![q].pc = IF "owner" \in {req[q].ask.role, members[req[q].of].role}
                                          THEN "owner" ELSE "write"]
      PROVE  RosterInv'
  <2> DEFINE m == members[req[q].of]
             r == [req[q] EXCEPT !.seen = m,
                                 !.pc = IF "owner" \in {req[q].ask.role, m.role}
                                        THEN "owner" ELSE "write"]
  <2>1. m \in Row
    BY <1>1, <1>4 DEF RosterInv, RosterTypeOK
  <2>2. r \in Progress
    BY <1>1, <2>1 DEF Progress
  <2>3. /\ r \in Doing /\ r.ask = req[q].ask /\ r.ask.do # "add" /\ r.seen = m
        /\ r.pc \in {"owner", "write"}
        /\ r.pc = "write" => "owner" \notin {r.ask.role, r.seen.role}
    BY <1>1, <1>4, <2>2 DEF Progress, Doing, Adds
  <2>4. req' = [req EXCEPT ![q] = r]
    BY <1>1, <1>4
  <2> HIDE DEF r, m
  <2>5. QED BY <1>1, <2>1, <2>3, <2>4, RequestStep
<1>5. QED BY <1>2, <1>3, <1>4 DEF Find

(* The only step that takes an active owner's row away is one that found   *)
(* another active owner when it wrote.                                     *)
LEMMA ChangeStep ==
    ASSUME RosterInv, NEW q \in Request, Change(q)
    PROVE  RosterInv'
<1> DEFINE of == req[q].of
<1>1. req[q] \in Progress /\ req \in [Request -> Doing] /\ req[q].pc = "write" /\ ~Adds(q)
  BY DoingKinds DEF RosterInv, RosterTypeOK, Change, Doing
<1>2. of \in User /\ req[q].seen \in Row /\ members[of] = req[q].seen
  BY <1>1 DEF RosterInv, SeenRow, Change, Matches, Progress
<1>3. Updated(q) \in Row
  BY <1>1, <1>2, UpdatedRow
<1>4. /\ members \in [User -> Row \cup {None}]
      /\ members' = [members EXCEPT ![of] = IF req[q].ask.do = "remove" THEN None ELSE Updated(q)]
  BY DEF Change, RosterInv, RosterTypeOK
<1>5. req' = [req EXCEPT ![q] = Written(of)] /\ Written(of) \in Doing /\ Written(of).pc = "drop"
  BY <1>2 DEF Change, Wrote, Doing, Written
<1>6. RosterTypeOK'
  <2>1. members' \in [User -> Row \cup {None}]
    BY <1>2, <1>3, <1>4
  <2>2. grants' \in SUBSET User
    BY DEF Change, RosterInv, RosterTypeOK
  <2>3. QED BY <1>1, <1>5, <2>1, <2>2 DEF Change, RosterInv, RosterTypeOK, Doing
<1>7. SeenRow' /\ OwnerChecked'
  BY <1>1, <1>5 DEF RosterInv, SeenRow, OwnerChecked, Adds
<1>8. OwnerRemains'
  <2>1. PICK w \in User : IsOwner(w)
    BY DEF RosterInv, OwnerRemains
  <2>2. CASE w # of
    BY <2>1, <2>2, <1>2, <1>4 DEF OwnerRemains, IsOwner
  <2>3. CASE w = of /\ Protects(q)
    <3>1. PICK v \in User \ {of} : IsOwner(v)
      BY <2>3 DEF Change, Matches
    <3>2. QED BY <3>1, <1>2, <1>4 DEF OwnerRemains, IsOwner
  <2>4. CASE w = of /\ ~Protects(q)
    <3>1. req[q].seen = [role |-> "owner", status |-> "active"]
      BY <2>1, <2>4, <1>2 DEF IsOwner
    <3>2. req[q].ask.do = "update" /\ Updated(q) = req[q].seen
      BY <2>4, <3>1 DEF Protects
    <3>3. members'[of] = req[q].seen
      BY <3>2, <1>2, <1>4
    <3>4. QED BY <3>1, <3>3, <1>2 DEF OwnerRemains, IsOwner
  <2>5. QED BY <2>2, <2>3, <2>4
<1>9. QED BY <1>6, <1>7, <1>8 DEF RosterInv

(* Steps that write a row only where there is none. *)
LEMMA CreateStep ==
    ASSUME RosterInv, NEW q \in Request, Create(q)
    PROVE  /\ RosterInv'
           /\ \A u \in User : members[u] # None => members'[u] = members[u]
<1> DEFINE of == req[q].of
           role == IF req[q].ask.role = "same" THEN "member" ELSE req[q].ask.role
           status == IF req[q].ask.status = "same" THEN "active" ELSE req[q].ask.status
<1>1. req[q] \in Progress /\ req \in [Request -> Doing] /\ req[q].pc = "write" /\ Adds(q)
  BY DoingKinds DEF RosterInv, RosterTypeOK, Create, Doing
<1>2. of \in User /\ req[q].ask \in Ask
  BY <1>1, AsksAssumption DEF Progress
<1>3. role \in Role /\ status \in Status /\ [role |-> role, status |-> status] \in Row
  BY <1>2 DEF Ask, Role, Status, Row
<1>4. req' = [req EXCEPT ![q] = Written(of)] \/ req' = [req EXCEPT ![q] = Idle]
  BY DEF Create, Wrote, Stop
<1>5. Written(of) \in Doing /\ Idle \in Doing /\ Written(of).pc = "drop" /\ Idle.pc = "idle"
  BY <1>2 DEF Doing, Written, Idle
<1>6. members' \in [User -> Row \cup {None}]
      /\ \A u \in User : members[u] # None => members'[u] = members[u]
  BY <1>2, <1>3 DEF Create, RosterInv, RosterTypeOK
<1>7. invites' \in [User -> Role \cup {"none"}]
  BY <1>2, <1>3 DEF Create, RosterInv, RosterTypeOK
<1>8. RosterTypeOK'
  BY <1>1, <1>4, <1>5, <1>6, <1>7 DEF Create, RosterInv, RosterTypeOK, Doing
<1>9. SeenRow' /\ OwnerChecked'
  BY <1>1, <1>4, <1>5 DEF RosterInv, SeenRow, OwnerChecked, Adds
<1>10. OwnerRemains'
  BY <1>6, RowFacts DEF RosterInv, OwnerRemains, IsOwner, None
<1>11. QED BY <1>6, <1>8, <1>9, <1>10 DEF RosterInv

LEMMA ActivateStep ==
    ASSUME RosterInv, NEW u \in User, Activate(u)
    PROVE  /\ RosterInv'
           /\ \A v \in User : members[v] # None => members'[v] = members[v]
<1>1. [role |-> invites[u], status |-> "active"] \in Row
  BY DEF Activate, RosterInv, RosterTypeOK, Row, Status, Role
<1>2. members' \in [User -> Row \cup {None}]
      /\ \A v \in User : members[v] # None => members'[v] = members[v]
  BY <1>1 DEF Activate, RosterInv, RosterTypeOK
<1>3. RosterTypeOK'
  BY <1>2 DEF Activate, RosterInv, RosterTypeOK
<1>4. OwnerRemains'
  BY <1>2 DEF RosterInv, OwnerRemains, IsOwner, None
<1>5. QED
  BY <1>2, <1>3, <1>4 DEF RosterInv, SeenRow, OwnerChecked, Adds, Activate

LEMMA RegisterStep ==
    ASSUME RosterInv, NEW u \in User, Register(u)
    PROVE  RosterInv'
BY DEF Register, RosterInv, RosterTypeOK, SeenRow, OwnerChecked, Adds, OwnerRemains, IsOwner

LEMMA RosterStutter ==
    ASSUME RosterInv, UNCHANGED rosterVars
    PROVE  RosterInv'
BY DEF rosterVars, RosterInv, RosterTypeOK, SeenRow, OwnerChecked, Adds, OwnerRemains, IsOwner

LEMMA RosterInvNext == RosterInv /\ [Next]_vars => RosterInv'
<1> SUFFICES ASSUME RosterInv, [Next]_vars PROVE RosterInv'
  OBVIOUS
<1>1. ASSUME NEW q \in Request, Proceed(q) PROVE RosterInv'
  <2>1. ASSUME Refused(q) PROVE RosterInv'
    BY <2>1, StopStep DEF Refused
  <2>2. QED
    BY <1>1, <2>1, StartStep, CheckOwnerStep, ResolveStep, FindStep DEF Proceed
<1>2. ASSUME NEW q \in Request, Change(q) \/ Create(q) PROVE RosterInv'
  BY <1>2, ChangeStep, CreateStep
<1>3. ASSUME NEW q \in Request, Drop(q) \/ DropFails(q) PROVE RosterInv'
  BY <1>3, StopStep DEF Drop, DropFails
<1>4. ASSUME NEW u \in User, Register(u) \/ SignIn(u) PROVE RosterInv'
  BY <1>4, RegisterStep, ActivateStep DEF SignIn
<1>5. ASSUME NEW u \in User,
             SignInDrops(u) \/ SignInFails(u) \/ Lookup(u) \/ Fill(u) \/ Expire(u)
      PROVE  RosterInv'
  BY <1>5, RosterStutter DEF SignInDrops, SignInFails, Lookup, Fill, Expire
<1>6. CASE UNCHANGED vars
  BY <1>6, RosterStutter DEF vars, rosterVars
<1>7. QED BY <1>1, <1>2, <1>3, <1>4, <1>5, <1>6 DEF Next

-----------------------------------------------------------------------------
(* The cached lists.                                                       *)

LEMMA AccessInvInit == Init => AccessInv
<1> SUFFICES ASSUME Init PROVE AccessInv
  OBVIOUS
<1>1. RosterTypeOK
  BY RosterInvInit DEF Init, RosterInv
<1>2. QED
  BY <1>1 DEF Init, AccessInit, AccessInv, TypeOK, LateKnown, AccessFollows

(* A request that reaches no row leaves what is said of the rows. *)
LEMMA ProceedAccess ==
    ASSUME RosterInv, AccessInv, NEW q \in Request, Proceed(q), UNCHANGED accessVars
    PROVE  LateKnown' /\ AccessFollows'
<1>1. req[q].pc # "drop" /\ members' = members
  BY DEF Proceed, Start, CheckOwner, Resolve, Find, Refused, RowsUnchanged
<1>2. \A p \in Request : p # q => req'[p] = req[p]
  BY DEF RosterInv, RosterTypeOK, Proceed, Start, CheckOwner, Resolve, Find, Refused, Goto, Stop
<1>3. \A u \in User : Listed(u)' = Listed(u)
  BY <1>1 DEF Listed, Active
<1>4. LateKnown'
  BY <1>3 DEF AccessInv, LateKnown, accessVars
<1>5. ASSUME NEW u \in User
      PROVE  \/ cache'[u] \in {"miss", Listed(u)'} \/ u \in signing' \cup excused'
             \/ \E p \in Request : req'[p].pc = "drop" /\ req'[p].of = u
  BY <1>1, <1>2, <1>3 DEF AccessInv, AccessFollows, accessVars
<1>6. QED BY <1>4, <1>5 DEF AccessFollows

(* Rows change, and each whose row did is left with a drop to come. *)
LEMMA RowsAccess ==
    ASSUME AccessInv, Overtaken, UNCHANGED <<cache, fill, excused>>, signing \subseteq signing',
           NEW u \in User,
           \A v \in User \ {u} : members'[v] = members[v],
           members'[u] = members[u] \/ u \in signing'
               \/ \E p \in Request : req'[p].pc = "drop" /\ req'[p].of = u,
           \A p \in Request : req[p].pc = "drop" => req'[p] = req[p]
    PROVE  LateKnown' /\ AccessFollows'
<1>1. \A v \in User : v # u \/ members'[u] = members[u] => Listed(v)' = Listed(v)
  BY DEF Listed, Active
<1>2. LateKnown'
  BY DEF LateKnown, Overtaken
<1>3. ASSUME NEW v \in User
      PROVE  \/ cache'[v] \in {"miss", Listed(v)'} \/ v \in signing' \cup excused'
             \/ \E p \in Request : req'[p].pc = "drop" /\ req'[p].of = v
  <2>1. CASE v # u \/ members'[u] = members[u]
    BY <1>1, <2>1 DEF AccessInv, AccessFollows
  <2>2. CASE v = u /\ members'[u] # members[u]
    BY <2>2
  <2>3. QED BY <2>1, <2>2
<1>4. QED BY <1>2, <1>3 DEF AccessFollows

LEMMA WriteAccess ==
    ASSUME RosterInv, AccessInv, NEW q \in Request, Change(q) \/ Create(q), Overtaken,
           UNCHANGED <<cache, fill, signing, excused>>
    PROVE  LateKnown' /\ AccessFollows'
<1> DEFINE of == req[q].of
<1>1. req[q] \in Progress /\ req \in [Request -> Doing] /\ req[q].pc = "write" /\ of \in User
  BY DoingKinds DEF RosterInv, RosterTypeOK, Change, Create, Doing, Progress
<1>2. members \in [User -> Row \cup {None}]
  BY DEF RosterInv, RosterTypeOK
<1>3. \A v \in User \ {of} : members'[v] = members[v]
  BY <1>1, <1>2 DEF Change, Create
<1>4. members'[of] = members[of] \/ req'[q] = Written(of)
  BY <1>1, <1>2 DEF Change, Create, Wrote
<1>5. members'[of] = members[of] \/ (req'[q].pc = "drop" /\ req'[q].of = of)
  BY <1>4 DEF Written
<1>6. \A p \in Request : req[p].pc = "drop" => req'[p] = req[p]
  BY <1>1 DEF Change, Create, Wrote, Stop
<1>7. QED
  BY <1>1, <1>3, <1>5, <1>6, RowsAccess

LEMMA SignInAccess ==
    ASSUME RosterInv, AccessInv, NEW u \in User, SignIn(u)
    PROVE  LateKnown' /\ AccessFollows'
<1>1. \A v \in User \ {u} : members'[v] = members[v]
  BY DEF RosterInv, RosterTypeOK, SignIn, Activate
<1>2. QED
  BY <1>1, RowsAccess DEF SignIn, Activate

LEMMA DropAccess ==
    ASSUME RosterInv, AccessInv, NEW q \in Request, Drop(q) \/ DropFails(q)
    PROVE  LateKnown' /\ AccessFollows'
<1> DEFINE of == req[q].of
<1>1. req[q].pc = "drop" /\ of \in User /\ members' = members /\ req' = [req EXCEPT ![q] = Idle]
  BY DoingKinds DEF RosterInv, RosterTypeOK, Doing, Drop, DropFails, RowsUnchanged, Stop
<1>2. \A p \in Request : p # q => req'[p] = req[p]
  BY <1>1 DEF RosterInv, RosterTypeOK
<1>3. \A u \in User : Listed(u)' = Listed(u)
  BY <1>1 DEF Listed, Active
<1>4. LateKnown'
  BY <1>3 DEF AccessInv, LateKnown, Drop, DropFails
<1>5. ASSUME NEW u \in User
      PROVE  \/ cache'[u] \in {"miss", Listed(u)'} \/ u \in signing' \cup excused'
             \/ \E p \in Request : req'[p].pc = "drop" /\ req'[p].of = u
  <2>1. CASE u = of
    BY <1>1, <2>1 DEF Drop, DropFails, Miss, AccessInv, TypeOK
  <2>2. CASE u # of
    BY <1>1, <1>2, <1>3, <2>2 DEF Drop, DropFails, Miss, AccessInv, TypeOK, AccessFollows
  <2>3. QED BY <2>1, <2>2
<1>6. QED BY <1>4, <1>5 DEF AccessFollows

LEMMA EntryAccess ==
    ASSUME AccessInv, NEW u \in User,
           SignInDrops(u) \/ SignInFails(u) \/ Lookup(u) \/ Fill(u) \/ Expire(u)
    PROVE  LateKnown' /\ AccessFollows'
<1>1. members' = members /\ req' = req /\ \A v \in User : Listed(v)' = Listed(v)
  BY DEF SignInDrops, SignInFails, Lookup, Fill, Expire, rosterVars, Listed, Active
<1>2. LateKnown'
  BY <1>1 DEF SignInDrops, SignInFails, Lookup, Fill, Expire, AccessInv, TypeOK, LateKnown
<1>3. ASSUME NEW v \in User
      PROVE  \/ cache'[v] \in {"miss", Listed(v)'} \/ v \in signing' \cup excused'
             \/ \E p \in Request : req'[p].pc = "drop" /\ req'[p].of = v
  <2>1. CASE SignInDrops(u)
    BY <1>1, <2>1 DEF SignInDrops, Miss, AccessInv, TypeOK, AccessFollows
  <2>2. CASE SignInFails(u)
    BY <1>1, <2>2 DEF SignInFails, AccessInv, AccessFollows
  <2>3. CASE Lookup(u)
    BY <1>1, <2>3 DEF Lookup, AccessInv, AccessFollows
  <2>4. CASE Fill(u)
    BY <1>1, <2>4 DEF Fill, AccessInv, TypeOK, LateKnown, AccessFollows
  <2>5. CASE Expire(u)
    BY <1>1, <2>5 DEF Expire, Miss, AccessInv, TypeOK, AccessFollows
  <2>6. QED BY <2>1, <2>2, <2>3, <2>4, <2>5
<1>4. QED BY <1>2, <1>3 DEF AccessFollows

LEMMA CacheTypes ==
    ASSUME RosterInv', TypeOK, [Next]_vars
    PROVE  TypeOK'
<1>1. RosterTypeOK'
  BY DEF RosterInv
<1>2. CASE UNCHANGED vars
  BY <1>1, <1>2 DEF vars, TypeOK
<1>3. ASSUME NEW q \in Request,
             \/ Proceed(q) /\ UNCHANGED accessVars
             \/ (Change(q) \/ Create(q)) /\ Overtaken /\ UNCHANGED <<cache, fill, signing, excused>>
      PROVE  TypeOK'
  BY <1>1, <1>3 DEF TypeOK, accessVars, Overtaken
<1>4. ASSUME NEW q \in Request, Drop(q) \/ DropFails(q) PROVE TypeOK'
  <2>1. req[q].of \in User
    BY <1>4, DoingKinds DEF TypeOK, RosterTypeOK, Doing, Drop, DropFails
  <2>2. QED BY <1>1, <1>4, <2>1 DEF TypeOK, Drop, DropFails, Miss
<1>5. ASSUME NEW u \in User, SignIn(u) \/ (Register(u) /\ UNCHANGED accessVars) PROVE TypeOK'
  BY <1>1, <1>5 DEF TypeOK, SignIn, Overtaken, accessVars
<1>6. ASSUME NEW u \in User,
             SignInDrops(u) \/ SignInFails(u) \/ Lookup(u) \/ Fill(u) \/ Expire(u)
      PROVE  TypeOK'
  BY <1>1, <1>6 DEF TypeOK, SignInDrops, SignInFails, Lookup, Fill, Expire, Miss, Listed
<1>7. QED BY <1>2, <1>3, <1>4, <1>5, <1>6 DEF Next

LEMMA AccessInvNext == RosterInv /\ RosterInv' /\ AccessInv /\ [Next]_vars => AccessInv'
<1> SUFFICES ASSUME RosterInv, RosterInv', AccessInv, [Next]_vars PROVE AccessInv'
  OBVIOUS
<1>1. TypeOK'
  BY CacheTypes DEF AccessInv
<1>2. CASE UNCHANGED vars
  BY <1>1, <1>2 DEF vars, AccessInv, LateKnown, AccessFollows, Listed, Active
<1>3. ASSUME NEW u \in User, Register(u), UNCHANGED accessVars PROVE LateKnown' /\ AccessFollows'
  BY <1>3 DEF Register, accessVars, AccessInv, LateKnown, AccessFollows, Listed, Active
<1>4. QED
  BY <1>1, <1>2, <1>3, ProceedAccess, WriteAccess, DropAccess, SignInAccess, EntryAccess
     DEF Next, AccessInv

-----------------------------------------------------------------------------
LEMMA SafeAccess == Spec => []RosterInv /\ [](RosterInv /\ AccessInv)
<1>1. Init => RosterInv /\ AccessInv
  BY RosterInvInit, AccessInvInit DEF Init
<1>2. (RosterInv /\ AccessInv) /\ [Next]_vars => (RosterInv /\ AccessInv)'
  BY RosterInvNext, AccessInvNext
<1>3. QED BY <1>1, <1>2, PTL DEF Spec

(* The rows, the grants, the requests and the cached lists have their      *)
(* types, whoever is asking for what.                                      *)
THEOREM TypeCorrect == Spec => []TypeOK
<1>1. AccessInv => TypeOK
  BY DEF AccessInv
<1>2. QED BY <1>1, SafeAccess, PTL

(* However many requests remove, demote and suspend owners at the same     *)
(* time, an active owner remains, because each write counts the others in  *)
(* the statement that writes (rosterMutationPredicate).                    *)
THEOREM OwnerCorrect == Spec => []OwnerRemains
<1>1. RosterInv => OwnerRemains
  BY DEF RosterInv
<1>2. QED BY <1>1, SafeAccess, PTL

(* Once the requests that changed a person's row are done with it, what    *)
(* the membership cache says of the person is what the roster says, or the *)
(* entry is excused (invalidateMembershipCache failed, or a lookup spanned *)
(* the change).                                                            *)
THEOREM AccessCorrect == Spec => []AccessFollows
<1>1. AccessInv => AccessFollows
  BY DEF AccessInv
<1>2. QED BY <1>1, SafeAccess, PTL

-----------------------------------------------------------------------------
(* Action properties: only the three steps that write rows matter.         *)
Rows == <<members, invites, grants>>

LEMMA RowSteps ==
    ASSUME [Next]_vars, Rows' # Rows
    PROVE  \/ \E q \in Request : Change(q) \/ Create(q)
           \/ \E u \in User : Activate(u)
BY DEF Rows, vars, rosterVars, Next, Proceed, Start, CheckOwner, Resolve, Find, Refused, Drop, DropFails,
       RowsUnchanged, Register, SignIn, SignInDrops, SignInFails, Lookup, Fill, Expire

(* What a change writes, for whom. *)
LEMMA ChangeWrites ==
    ASSUME RosterInv, NEW q \in Request, Change(q)
    PROVE  /\ req[q] \in Progress /\ req[q].pc = "write" /\ ~Adds(q) /\ req'[q].pc = "drop"
           /\ req[q].of \in User /\ req[q].ask \in Asks
           /\ members[req[q].of] = req[q].seen /\ req[q].seen \in Row
           /\ members'[req[q].of] = IF req[q].ask.do = "remove" THEN None ELSE Updated(q)
           /\ \A v \in User \ {req[q].of} : members'[v] = members[v]
           /\ invites' = invites
           /\ grants' = IF Revokes(q) THEN grants \ {req[q].of} ELSE grants
<1>1. req[q] \in Progress /\ req \in [Request -> Doing] /\ req[q].pc = "write" /\ ~Adds(q)
  BY DoingKinds DEF RosterInv, RosterTypeOK, Change, Doing
<1>2. req[q].of \in User /\ req[q].ask \in Asks
  BY <1>1 DEF Progress
<1>3. members[req[q].of] = req[q].seen /\ req[q].seen \in Row
  BY <1>1 DEF RosterInv, SeenRow, Change, Matches
<1>4. req'[q].pc = "drop"
  BY <1>1 DEF Change, Wrote, Written
<1>5. members \in [User -> Row \cup {None}]
  BY DEF RosterInv, RosterTypeOK
<1>6. QED BY <1>1, <1>2, <1>3, <1>4, <1>5 DEF Change

LEMMA CreateWrites ==
    ASSUME RosterInv, NEW q \in Request, Create(q)
    PROVE  /\ req[q] \in Progress /\ req[q].pc = "write" /\ Adds(q) /\ req'[q].pc # "write"
           /\ req[q].of \in User /\ grants' = grants
           /\ \A v \in User \ {req[q].of} : members'[v] = members[v] /\ invites'[v] = invites[v]
           /\ \/ members'[req[q].of] = members[req[q].of]
              \/ members[req[q].of] = None
           /\ \/ "owner" \in {members[req[q].of].role, members'[req[q].of].role}
                 /\ members'[req[q].of] # members[req[q].of]
              \/ invites'[req[q].of] = "owner" /\ invites[req[q].of] # "owner"
              => req[q].ask.role = "owner"
<1>1. req[q] \in Progress /\ req \in [Request -> Doing] /\ req[q].pc = "write" /\ Adds(q)
  BY DoingKinds DEF RosterInv, RosterTypeOK, Create, Doing
<1>2. req[q].of \in User
  BY <1>1 DEF Progress
<1>3. req'[q] \in {Idle, Written(req[q].of)}
  BY <1>1 DEF Create, Wrote, Stop
<1>4. req'[q].pc # "write"
  BY <1>3 DEF Idle, Written
<1>5. members \in [User -> Row \cup {None}] /\ invites \in [User -> Role \cup {"none"}]
  BY DEF RosterInv, RosterTypeOK
<1>6. QED BY <1>1, <1>2, <1>4, <1>5, RowFacts DEF Create, None

LEMMA OwnersTouchStep ==
    ASSUME RosterInv, [Next]_vars, NEW u \in User,
           \/ "owner" \in {members[u].role, members'[u].role} /\ members'[u] # members[u]
           \/ invites'[u] = "owner" /\ invites[u] # "owner"
    PROVE  \/ invites[u] = "owner" /\ invites'[u] = "none" /\ members[u] = None
           \/ \E q \in Request : req[q].pc = "write" /\ req'[q].pc # "write"
                                 /\ req[q].of = u /\ req[q].asOwner
<1>1. Rows' # Rows
  BY DEF Rows
<1>2. ASSUME NEW q \in Request, Change(q)
      PROVE  req[q].pc = "write" /\ req'[q].pc # "write" /\ req[q].of = u /\ req[q].asOwner
  <2>1. /\ req[q].of = u /\ members'[u] # members[u] /\ invites' = invites
        /\ "owner" \in {members[u].role, members'[u].role}
    BY <1>2, ChangeWrites
  <2>2. CASE req[q].ask.do = "remove"
    <3>1. req[q].seen.role = "owner"
      BY <1>2, <2>1, <2>2, ChangeWrites DEF None
    <3>2. QED BY <1>2, <2>1, <3>1, ChangeWrites DEF RosterInv, OwnerChecked
  <2>3. CASE req[q].ask.do # "remove"
    <3>1. members'[u] = Updated(q) /\ members[u] = req[q].seen
      BY <1>2, <2>1, <2>3, ChangeWrites
    <3>2. "owner" \in {req[q].ask.role, req[q].seen.role}
      BY <2>1, <3>1 DEF Updated
    <3>3. QED BY <1>2, <2>1, <3>2, ChangeWrites DEF RosterInv, OwnerChecked
  <2>4. QED BY <2>2, <2>3
<1>3. ASSUME NEW q \in Request, Create(q)
      PROVE  req[q].pc = "write" /\ req'[q].pc # "write" /\ req[q].of = u /\ req[q].asOwner
  <2>1. req[q].of = u /\ req[q].ask.role = "owner"
    BY <1>3, CreateWrites
  <2>2. QED BY <1>3, <2>1, CreateWrites DEF RosterInv, OwnerChecked
<1>4. ASSUME NEW v \in User, Activate(v)
      PROVE  invites[u] = "owner" /\ invites'[u] = "none" /\ members[u] = None
  BY <1>4 DEF Activate, RosterInv, RosterTypeOK, None
<1>5. QED BY <1>1, <1>2, <1>3, <1>4, RowSteps

LEMMA TierNat == \A role : Tier(role) \in 1 .. 3
BY DEF Tier

LEMMA GrantsStep ==
    ASSUME RosterInv, [Next]_vars, NEW u \in grants
    PROVE  u \notin grants' <=> \/ members[u] # None /\ members'[u] = None
                                \/ /\ members[u] # None /\ members'[u] # None
                                   /\ Tier(members'[u].role) < Tier(members[u].role)
<1> DEFINE Lowered == \/ members[u] # None /\ members'[u] = None
                      \/ /\ members[u] # None /\ members'[u] # None
                         /\ Tier(members'[u].role) < Tier(members[u].role)
<1>1. u \in User
  BY DEF RosterInv, RosterTypeOK
<1>2. members'[u] = members[u] \/ members[u] = None => ~Lowered
  BY TierNat
<1>3. CASE Rows' = Rows
  BY <1>2, <1>3 DEF Rows
<1>4. ASSUME NEW q \in Request, Create(q) PROVE u \notin grants' <=> Lowered
  BY <1>1, <1>2, <1>4, CreateWrites
<1>5. ASSUME NEW v \in User, Activate(v) PROVE u \notin grants' <=> Lowered
  BY <1>1, <1>2, <1>5, ActivateStep DEF Activate
<1>6. ASSUME NEW q \in Request, Change(q) PROVE u \notin grants' <=> Lowered
  <2>1. CASE u # req[q].of
    BY <1>1, <1>2, <1>6, <2>1, ChangeWrites
  <2>2. CASE u = req[q].of /\ req[q].ask.do = "remove"
    BY <1>6, <2>2, ChangeWrites, RowFacts DEF Revokes
  <2>3. CASE u = req[q].of /\ req[q].ask.do # "remove"
    <3>1. members[u] = req[q].seen /\ members'[u] = Updated(q) /\ req[q].seen \in Row
      BY <1>6, <2>3, ChangeWrites
    <3>2. Updated(q) \in Row
      BY <1>6, <3>1, ChangeWrites, UpdatedRow
    <3>3. Lowered <=> Tier(Updated(q).role) < Tier(req[q].seen.role)
      BY <3>1, <3>2, RowFacts
    <3>4. Updated(q).role = IF req[q].ask.role = "same" THEN req[q].seen.role ELSE req[q].ask.role
      BY DEF Updated
    <3>5. Revokes(q) <=> Tier(Updated(q).role) < Tier(req[q].seen.role)
      BY <2>3, <3>4, TierNat DEF Revokes
    <3>6. u \notin grants' <=> Revokes(q)
      BY <1>6, <2>3, ChangeWrites
    <3>7. QED BY <3>3, <3>5, <3>6
  <2>4. QED BY <2>1, <2>2, <2>3
<1>7. CASE Rows' # Rows
  <2>1. \/ \E q \in Request : Change(q) \/ Create(q)
        \/ \E v \in User : Activate(v)
    BY <1>7, RowSteps
  <2>2. QED BY <2>1, <1>4, <1>5, <1>6
<1>8. QED BY <1>3, <1>7

(* An owner's row, or an invite to be one, changes only by a request that  *)
(* saw its caller as an owner (hasRole(..., 'owner') on each path that     *)
(* touches an owner), or when the invited person signs in.                 *)
THEOREM HierarchyCorrect == Spec => OwnersTouchOwners
<1>1. RosterInv /\ [Next]_vars
      => [\A u \in User :
            \/ "owner" \in {members[u].role, members'[u].role} /\ members'[u] # members[u]
            \/ invites'[u] = "owner" /\ invites[u] # "owner"
            => \/ invites[u] = "owner" /\ invites'[u] = "none" /\ members[u] = None
               \/ \E q \in Request : req[q].pc = "write" /\ req'[q].pc # "write"
                                     /\ req[q].of = u /\ req[q].asOwner]_rosterVars
  BY OwnersTouchStep
<1>2. QED BY <1>1, SafeAccess, PTL DEF Spec, OwnersTouchOwners

(* A person's grants go in the batch that removes or demotes the row, and  *)
(* with nothing else (updateRosterMembership, removeRosterMembership).     *)
THEOREM GrantsCorrect == Spec => GrantsGoWithRole
<1>1. RosterInv /\ [Next]_vars
      => [\A u \in grants :
            u \notin grants' <=> \/ members[u] # None /\ members'[u] = None
                                 \/ /\ members[u] # None /\ members'[u] # None
                                    /\ Tier(members'[u].role) < Tier(members[u].role)]_rosterVars
  BY GrantsStep
<1>2. QED BY <1>1, SafeAccess, PTL DEF Spec, GrantsGoWithRole

-----------------------------------------------------------------------------
(* The organization as its requests see it: every write is one of them.    *)
LEMMA OrganizedNames ==
    /\ Organized!None = None /\ Organized!Row = Row
    /\ \A u \in User : members[u] = Organized!Owner <=> IsOwner(u)
    /\ \A role : Organized!Rank(role) = Tier(role)
BY DEF Organized!None, None, Organized!Row, Row, Role, Status, Organized!Owner, IsOwner,
       Organized!Rank, Tier

LEMMA ChangeOrganized ==
    ASSUME RosterInv, NEW q \in Request, Change(q)
    PROVE  Organized!Next
<1>1. PICK u, ask : u = req[q].of /\ ask = req[q].ask
  OBVIOUS
<1>2. /\ u \in User /\ ask \in Asks /\ ask \in Ask /\ ask.do # "add"
      /\ req[q] \in Progress /\ members \in [User -> Row \cup {None}]
      /\ members[u] = req[q].seen /\ members[u] \in Row /\ invites' = invites
      /\ members' = [members EXCEPT ![u] = IF ask.do = "remove" THEN None ELSE Updated(q)]
      /\ grants' = IF Revokes(q) THEN grants \ {u} ELSE grants
  <2>1. members \in [User -> Row \cup {None}]
    BY DEF RosterInv, RosterTypeOK
  <2>2. QED BY <1>1, <2>1, ChangeWrites, AsksAssumption DEF Change, Adds
<1>3. members[u] # None /\ members'[u] = IF ask.do = "remove" THEN None ELSE Updated(q)
  BY <1>2, RowFacts
<1>4. Protects(q) => \E v \in User \ {u} : IsOwner(v)
  BY <1>1 DEF Change, Matches
<1>5. Organized!LastOwner(u) => members[u] = [role |-> "owner", status |-> "active"] /\ ~Protects(q)
  BY <1>2, <1>4, OrganizedNames DEF Organized!LastOwner, IsOwner
<1>6. CASE ask.do = "remove"
  <2>1. ~Organized!LastOwner(u)
    BY <1>1, <1>2, <1>5, <1>6 DEF Protects
  <2>2. grants' = grants \ {u}
    BY <1>1, <1>2, <1>6 DEF Revokes
  <2>3. Organized!Leave(u, ask)
    BY <1>2, <1>3, <1>6, <2>1, <2>2, OrganizedNames DEF Organized!Leave, Organized!Put
  <2>4. QED BY <1>2, <2>3 DEF Organized!Next
<1>7. CASE ask.do = "update"
  <2>1. Updated(q) = Organized!Made(ask, members[u])
    BY <1>1, <1>2 DEF Updated, Organized!Made
  <2>2. members'[u] = Updated(q) /\ members' = [members EXCEPT ![u] = Updated(q)]
    BY <1>2, <1>3, <1>7
  <2>3. Organized!LastOwner(u) => members'[u] = Organized!Owner
    BY <1>1, <1>2, <1>5, <1>7, <2>2 DEF Protects, Organized!Owner
  <2>4. Revokes(q) <=> Tier(Updated(q).role) < Tier(members[u].role)
    <3>1. Updated(q).role = IF ask.role = "same" THEN members[u].role ELSE ask.role
      BY <1>1, <1>2 DEF Updated
    <3>2. QED BY <1>1, <1>2, <1>7, <3>1, TierNat DEF Revokes
  <2>5. grants' = IF Organized!Rank(members'[u].role) < Organized!Rank(members[u].role)
                  THEN grants \ {u} ELSE grants
    BY <1>2, <2>2, <2>4, OrganizedNames
  <2>6. Organized!Change(u, ask)
    BY <1>2, <1>3, <1>7, <2>1, <2>2, <2>3, <2>5, OrganizedNames
       DEF Organized!Change, Organized!Put
  <2>7. QED BY <1>2, <2>6 DEF Organized!Next
<1>8. ask.do \in {"update", "remove"}
  BY <1>2 DEF Ask
<1>9. QED BY <1>6, <1>7, <1>8

LEMMA CreateOrganized ==
    ASSUME RosterInv, NEW q \in Request, Create(q)
    PROVE  Organized!Next \/ UNCHANGED Rows
<1>1. PICK u, ask : u = req[q].of /\ ask = req[q].ask
  OBVIOUS
<1>2. /\ u \in User /\ ask \in Asks /\ ask.do = "add" /\ grants' = grants
      /\ members \in [User -> Row \cup {None}] /\ invites \in [User -> Role \cup {"none"}]
  <2>1. members \in [User -> Row \cup {None}] /\ invites \in [User -> Role \cup {"none"}]
    BY DEF RosterInv, RosterTypeOK
  <2>2. QED BY <1>1, <2>1, CreateWrites DEF Progress, Adds
<1> DEFINE row == Organized!Made(ask, Organized!Member)
<1>3. \/ invites' = [invites EXCEPT ![u] = IF @ = "none" THEN row.role ELSE @] /\ members' = members
      \/ members' = [members EXCEPT ![u] = IF @ = None THEN row ELSE @] /\ invites' = invites
  BY <1>1 DEF Create, Organized!Made, Organized!Member
<1> HIDE DEF row
<1>4. CASE invites' = [invites EXCEPT ![u] = IF @ = "none" THEN row.role ELSE @] /\ members' = members
  <2>1. CASE invites[u] = "none"
    <3>1. Organized!Invite(u, ask)
      BY <1>2, <1>4, <2>1 DEF Organized!Invite, row
    <3>2. QED BY <1>2, <3>1 DEF Organized!Next
  <2>2. CASE invites[u] # "none"
    BY <1>2, <1>4, <2>2 DEF Rows
  <2>3. QED BY <2>1, <2>2
<1>5. CASE members' = [members EXCEPT ![u] = IF @ = None THEN row ELSE @] /\ invites' = invites
  <2>1. CASE members[u] = None
    <3>1. Organized!Join(u, ask)
      BY <1>2, <1>5, <2>1, OrganizedNames DEF Organized!Join, Organized!Put, row
    <3>2. QED BY <1>2, <3>1 DEF Organized!Next
  <2>2. CASE members[u] # None
    BY <1>2, <1>5, <2>2 DEF Rows
  <2>3. QED BY <2>1, <2>2
<1>6. QED BY <1>3, <1>4, <1>5

LEMMA ActivateOrganized ==
    ASSUME NEW u \in User, Activate(u)
    PROVE  Organized!Next
<1>1. [Organized!Member EXCEPT !.role = invites[u]] = [role |-> invites[u], status |-> "active"]
  BY DEF Organized!Member
<1>2. Organized!Enter(u)
  BY <1>1, OrganizedNames DEF Activate, Organized!Enter, Organized!Put
<1>3. QED BY <1>2 DEF Organized!Next

(* Overlapping updates, removals, additions and sign-ins implement changes *)
(* that each happen at one moment (updateRosterMembership,                 *)
(* removeRosterMembership, create, activatePendingInvites): what a request *)
(* did not ask for it leaves as it is, it acts on no row but the one it    *)
(* read, and the last active owner stays.                                  *)
THEOREM OrganizationCorrect == Spec => ImplementsOrganization
<1>1. Init => Organized!Init
  BY OrganizedNames DEF Init, RosterInit, Organized!Init
<1>2. RosterInv /\ [Next]_vars => [Organized!Next]_(Organized!vars)
  <2> SUFFICES ASSUME RosterInv, [Next]_vars PROVE Organized!Next \/ UNCHANGED Rows
    BY DEF Organized!vars, Rows
  <2>1. CASE Rows' # Rows
    BY <2>1, RowSteps, ChangeOrganized, CreateOrganized, ActivateOrganized
  <2>2. CASE Rows' = Rows
    BY <2>2
  <2>3. QED BY <2>1, <2>2
<1>3. QED BY <1>1, <1>2, SafeAccess, PTL DEF Spec, ImplementsOrganization, Organized!Spec
=============================================================================
