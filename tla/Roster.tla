-------------------------------- MODULE Roster --------------------------------
(***************************************************************************)
(* The memberships of one organization (organization_members), the role    *)
(* grants that hang on them (user_roles), and the requests that change     *)
(* them: routes/admin-organization-members.ts over OrganizationMember.     *)
(* A request checks the standing of its caller, reads the row it is about, *)
(* checks again when an owner is touched, and only then writes, in one D1  *)
(* batch whose predicate repeats what it read.  Every check is an await,   *)
(* and another request may write between two of them.                      *)
(***************************************************************************)
EXTENDS Naturals

CONSTANTS User,      \* people
          Request,   \* requests that may be in progress at the same time
          Asks       \* what a request may ask for

Role == {"owner", "admin", "member"}
Status == {"active", "inactive"}   \* inactive: suspended, or set back to invited
Ask == [do : {"update", "remove", "add"},
        role : Role \cup {"same"}, status : Status \cup {"same"}]

ASSUME AsksAssumption ==
    /\ Asks \subseteq Ask
    /\ \A a \in Asks : a.do = "update" => a.role # "same" \/ a.status # "same"

VARIABLES
    accounts,  \* people who have registered
    members,   \* the organization's row of each person with an account, or None
    invites,   \* the role of the invite sent to a person's email, or "none"
    grants,    \* people with role grants in the organization
    req        \* what each request is doing

rosterVars == <<accounts, members, invites, grants, req>>

Row == [role : Role, status : Status]
None == [role |-> "none", status |-> "none"]
Idle == [pc |-> "idle"]
Written(u) == [pc |-> "drop", of |-> u]   \* the row is written, its cached copy is to be dropped
\* seen: the row the request read.  asOwner: a history, the caller was an owner when the
\* request looked.
Progress == [pc : {"owner", "resolve", "find", "write"}, by : User, of : User, ask : Asks,
             invite : BOOLEAN, seen : Row \cup {None}, asOwner : BOOLEAN]

RosterTypeOK ==
    /\ accounts \in SUBSET User
    /\ members \in [User -> Row \cup {None}]
    /\ invites \in [User -> Role \cup {"none"}]
    /\ grants \in SUBSET User
    /\ req \in [Request -> Progress \cup {Idle} \cup {Written(u) : u \in User}]

Active(u) == members[u].status = "active"
IsOwner(u) == members[u] = [role |-> "owner", status |-> "active"]
IsOwnerOrAdmin(u) == Active(u) /\ members[u].role \in {"owner", "admin"}

\* The organization was made with its creator as active owner, and others have joined.
RosterInit ==
    /\ members \in [User -> Row \cup {None}]
    /\ \E u \in User : IsOwner(u)
    /\ accounts \in SUBSET User
    /\ \A u \in User : members[u] # None => u \in accounts
    /\ invites = [u \in User |-> "none"]
    /\ grants = {u \in User : members[u] # None}
    /\ req = [q \in Request |-> Idle]

-----------------------------------------------------------------------------
Goto(q, pc) == req' = [req EXCEPT ![q].pc = pc]
Wrote(q) == req' = [req EXCEPT ![q] = Written(req[q].of)]
Stop(q) == req' = [req EXCEPT ![q] = Idle]
RowsUnchanged == UNCHANGED <<accounts, members, invites, grants>>

\* Adding checks the hierarchy before it looks for a row, the others after.
Adds(q) == req[q].ask.do = "add"

\* assertRosterAccess: only an owner or admin of this organization gets further.
Start(q, by, of, ask) ==
    /\ req[q].pc = "idle" /\ IsOwnerOrAdmin(by)
    /\ req' = [req EXCEPT ![q] =
         [pc |-> IF ask.do # "add" THEN "find" ELSE IF ask.role = "owner" THEN "owner" ELSE "resolve",
          by |-> by, of |-> of, ask |-> ask, invite |-> FALSE, seen |-> None, asOwner |-> FALSE]]
    /\ RowsUnchanged

\* hasRole(..., 'owner'), only when an owner is touched.
CheckOwner(q) ==
    /\ req[q].pc = "owner"
    /\ IF IsOwner(req[q].by)
       THEN req' = [req EXCEPT ![q].pc = IF Adds(q) THEN "resolve" ELSE "write",
                               ![q].asOwner = TRUE]
       ELSE Stop(q)
    /\ RowsUnchanged

\* User.find / findByEmail: without an account it is an invite, which has no other status.
Resolve(q) ==
    /\ req[q].pc = "resolve"
    /\ LET invite == req[q].of \notin accounts
       IN  IF invite /\ req[q].ask.status # "same" THEN Stop(q)
           ELSE req' = [req EXCEPT ![q].invite = invite, ![q].pc = "find"]
    /\ RowsUnchanged

\* Mutant of Find: a row that is gone is changed all the same.
FindMissing(q) ==
    /\ req[q].pc = "find"
    /\ LET u == req[q].of
       IN  IF Adds(q) THEN Goto(q, "write")
           ELSE req' = [req EXCEPT ![q].seen = members[u],
                                   ![q].pc = IF "owner" \in {req[q].ask.role, members[u].role}
                                             THEN "owner" ELSE "write"]
    /\ RowsUnchanged

\* Adding stops at a row or an invite of the person, the others where there is no row.
Find(q) ==
    /\ req[q].pc = "find"
    /\ LET u == req[q].of
       IN  IF Adds(q)
           THEN IF members[u] = None /\ invites[u] = "none" THEN Goto(q, "write") ELSE Stop(q)
           ELSE IF members[u] = None THEN Stop(q)
           ELSE req' = [req EXCEPT ![q].seen = members[u],
                                   ![q].pc = IF "owner" \in {req[q].ask.role, members[u].role}
                                             THEN "owner" ELSE "write"]
    /\ RowsUnchanged

-----------------------------------------------------------------------------
\* What an update makes of the row it read.
Updated(q) == [role |-> IF req[q].ask.role = "same" THEN req[q].seen.role ELSE req[q].ask.role,
               status |-> IF req[q].ask.status = "same" THEN req[q].seen.status
                          ELSE req[q].ask.status]

\* protectLastActiveOwner: an active owner leaves that state.
Protects(q) ==
    /\ req[q].seen = [role |-> "owner", status |-> "active"]
    /\ req[q].ask.do = "update" => Updated(q) # req[q].seen

\* Mutant of Matches: the last owner is counted before the batch.
MatchesRow(q) == members[req[q].of] = req[q].seen

\* Mutant of Matches: whatever became of the row since it was read.
MatchesAny(q) ==
    /\ members[req[q].of] # None
    /\ Protects(q) => \E v \in User \ {req[q].of} : IsOwner(v)

\* rosterMutationPredicate: the row is as it was read, and when an active owner would leave
\* that state there is another one.
Matches(q) ==
    /\ members[req[q].of] = req[q].seen
    /\ Protects(q) => \E v \in User \ {req[q].of} : IsOwner(v)

Tier(role) == CASE role = "owner" -> 3 [] role = "admin" -> 2 [] OTHER -> 1

\* Mutant of Revokes: a demotion keeps its grants.
RevokesRemoved(q) == req[q].ask.do = "remove"

\* A removal revokes the grants, and so does a demotion.
Revokes(q) == \/ req[q].ask.do = "remove"
              \/ req[q].ask.role # "same" /\ Tier(req[q].ask.role) < Tier(req[q].seen.role)

\* Mutant of Change: a suspension does not reach the cache.
ChangeQuietly(q) ==
    /\ req[q].pc = "write" /\ ~Adds(q) /\ Matches(q)
    /\ members' = [members EXCEPT ![req[q].of] =
                     IF req[q].ask.do = "remove" THEN None ELSE Updated(q)]
    /\ grants' = IF Revokes(q) THEN grants \ {req[q].of} ELSE grants
    /\ IF req[q].ask.do = "update" THEN Stop(q) ELSE Wrote(q)
    /\ UNCHANGED <<accounts, invites>>

\* updateRosterMembership, removeRosterMembership: one batch, under one predicate.  A refusal
\* (last owner, stale) ends the request.
Change(q) ==
    /\ req[q].pc = "write" /\ ~Adds(q) /\ Matches(q)
    /\ members' = [members EXCEPT ![req[q].of] =
                     IF req[q].ask.do = "remove" THEN None ELSE Updated(q)]
    /\ grants' = IF Revokes(q) THEN grants \ {req[q].of} ELSE grants
    /\ Wrote(q)
    /\ UNCHANGED <<accounts, invites>>

Refused(q) ==
    /\ req[q].pc = "write" /\ ~Adds(q) /\ ~Matches(q)
    /\ Stop(q)
    /\ RowsUnchanged

\* create(): the unique indexes let in one row per person and one invite per email.
Create(q) ==
    /\ req[q].pc = "write" /\ Adds(q)
    /\ LET u == req[q].of
           role == IF req[q].ask.role = "same" THEN "member" ELSE req[q].ask.role
           status == IF req[q].ask.status = "same" THEN "active" ELSE req[q].ask.status
       IN  IF req[q].invite
           THEN /\ invites' = [invites EXCEPT ![u] = IF @ = "none" THEN role ELSE @]
                /\ Stop(q) /\ UNCHANGED members
           ELSE /\ members' = [members EXCEPT ![u] = IF @ = None THEN [role |-> role, status |-> status]
                                                     ELSE @]
                /\ IF members[u] = None THEN Wrote(q) ELSE Stop(q)
                /\ UNCHANGED invites
    /\ UNCHANGED <<accounts, grants>>

Register(u) ==
    /\ u \notin accounts
    /\ accounts' = accounts \cup {u}
    /\ UNCHANGED <<members, invites, grants, req>>

\* activatePendingInvites at sign-in: the invite becomes the person's row, with its role.
\* When the person has a row already the unique index refuses, and the invite stays.
Activate(u) ==
    /\ u \in accounts /\ invites[u] # "none" /\ members[u] = None
    /\ members' = [members EXCEPT ![u] = [role |-> invites[u], status |-> "active"]]
    /\ invites' = [invites EXCEPT ![u] = "none"]
    /\ UNCHANGED <<accounts, grants, req>>

-----------------------------------------------------------------------------
\* "The SQL predicate prevents two concurrent requests from removing both owners": whatever
\* requests overlap, there is someone who can manage the organization.
OwnerRemains == \E u \in User : IsOwner(u)

\* "Only an OWNER may grant owner or modify an existing owner": an owner's row, or an invite
\* to be one, changes only by a request that saw its caller as an owner, although the caller
\* and the row are read before the write and other requests run in between.
OwnersTouchOwners ==
    [][\A u \in User :
         \/ "owner" \in {members[u].role, members'[u].role} /\ members'[u] # members[u]
         \/ invites'[u] = "owner" /\ invites[u] # "owner"
         => \/ invites[u] = "owner" /\ invites'[u] = "none" /\ members[u] = None
            \/ \E q \in Request : req[q].pc = "write" /\ req'[q].pc # "write"
                                  /\ req[q].of = u /\ req[q].asOwner]_rosterVars

\* "Neither can succeed alone": a person's grants go with the removal or the demotion of the
\* row, in the same step, and with nothing else.
GrantsGoWithRole ==
    [][\A u \in grants :
         u \notin grants' <=> \/ members[u] # None /\ members'[u] = None
                              \/ /\ members[u] # None /\ members'[u] # None
                                 /\ Tier(members'[u].role) < Tier(members[u].role)]_rosterVars

Organized == INSTANCE Organization WITH rows <- members

\* The requests in progress, their checks and reads spread over many awaits, implement changes
\* that each happen at one moment: no update is lost, none acts on a row that is no longer as
\* it was read, and the organization never goes without an active owner.
ImplementsOrganization == Organized!Spec
=============================================================================
