------------------------------ MODULE OrgAccess ------------------------------
(***************************************************************************)
(* The roster together with what requests of its members are let through   *)
(* on: getSecurityContext looks a person's organizations up through a KV   *)
(* cache in front of D1 (lib/auth-utils.ts, cachedMembershipLookup), and   *)
(* every change of a row is followed by a drop of the person's entry.  A   *)
(* lookup reads D1 and fills the entry later, so it may span both.         *)
(***************************************************************************)
EXTENDS Roster

VARIABLES
    cache,    \* what a person's cached list says of this organization, or "miss"
    fill,     \* what a lookup in progress read from D1, or "none"
    signing,  \* people whose sign-in activated an invite and has the entry to drop yet
    late,     \* history: people whose lookup in progress was overtaken by a change
    excused   \* history: entries filled by such a lookup, or whose drop failed

accessVars == <<cache, fill, signing, late, excused>>
vars == <<accounts, members, invites, grants, req, cache, fill, signing, late, excused>>

TypeOK ==
    /\ RosterTypeOK
    /\ cache \in [User -> {"miss", "in", "out"}]
    /\ fill \in [User -> {"none", "in", "out"}]
    /\ signing \in SUBSET User /\ late \in SUBSET User /\ excused \in SUBSET User

AccessInit ==
    /\ cache = [u \in User |-> "miss"]
    /\ fill = [u \in User |-> "none"]
    /\ signing = {} /\ late = {} /\ excused = {}
Init == RosterInit /\ AccessInit

\* organizationIdsForUser: active memberships only.
Listed(u) == IF Active(u) THEN "in" ELSE "out"

\* What a change of rows overtakes: the lookups that have read something else.
Overtaken == late' = late \cup {u \in User : fill[u] # "none" /\ fill[u] # Listed(u)'}

Miss(u) == cache' = [cache EXCEPT ![u] = "miss"] /\ excused' = excused \ {u}

-----------------------------------------------------------------------------
\* A request of the person finds no entry and reads D1.
Lookup(u) ==
    /\ u \in accounts /\ cache[u] = "miss" /\ fill[u] = "none"
    /\ fill' = [fill EXCEPT ![u] = Listed(u)]
    /\ late' = late \ {u}
    /\ UNCHANGED <<rosterVars, cache, signing, excused>>

\* The answer is put in the cache; a put that fails is swallowed.
Fill(u) ==
    /\ fill[u] # "none"
    /\ fill' = [fill EXCEPT ![u] = "none"]
    /\ late' = late \ {u}
    /\ \/ /\ cache' = [cache EXCEPT ![u] = fill[u]]
          /\ excused' = IF u \in late THEN excused \cup {u} ELSE excused \ {u}
       \/ UNCHANGED <<cache, excused>>
    /\ UNCHANGED <<rosterVars, signing>>

\* The entry's time is up.
Expire(u) ==
    /\ cache[u] # "miss" /\ Miss(u)
    /\ UNCHANGED <<rosterVars, fill, signing, late>>

\* invalidateMembershipCache after the batch.
Drop(q) ==
    /\ req[q].pc = "drop" /\ Stop(q) /\ Miss(req[q].of)
    /\ RowsUnchanged /\ UNCHANGED <<fill, signing, late>>

\* Best effort: the failure is swallowed and the entry's time bounds what is stale.
DropFails(q) ==
    /\ req[q].pc = "drop" /\ Stop(q)
    /\ excused' = excused \cup {u \in {req[q].of} : cache[u] # "miss"}
    /\ RowsUnchanged /\ UNCHANGED <<cache, fill, signing, late>>

SignIn(u) ==
    /\ Activate(u) /\ Overtaken
    /\ signing' = signing \cup {u}
    /\ UNCHANGED <<cache, fill, excused>>

SignInDrops(u) ==
    /\ u \in signing /\ signing' = signing \ {u} /\ Miss(u)
    /\ UNCHANGED <<rosterVars, fill, late>>

\* The group invites failed next to it, or the drop did.
SignInFails(u) ==
    /\ u \in signing /\ signing' = signing \ {u}
    /\ excused' = excused \cup {v \in {u} : cache[v] # "miss"}
    /\ UNCHANGED <<rosterVars, cache, fill, late>>

\* A request up to its write, and the write.
Proceed(q) == \/ \E by, of \in User, ask \in Asks : Start(q, by, of, ask)
           \/ CheckOwner(q) \/ Resolve(q) \/ Find(q) \/ Refused(q)

Next ==
    \/ \E q \in Request :
         \/ Proceed(q) /\ UNCHANGED accessVars
         \/ (Change(q) \/ Create(q)) /\ Overtaken /\ UNCHANGED <<cache, fill, signing, excused>>
         \/ Drop(q) \/ DropFails(q)
    \/ \E u \in User :
         \/ Register(u) /\ UNCHANGED accessVars
         \/ SignIn(u) \/ SignInDrops(u) \/ SignInFails(u)
         \/ Lookup(u) \/ Fill(u) \/ Expire(u)

Spec == Init /\ [][Next]_vars

-----------------------------------------------------------------------------
\* "Access ends now, not at TTL expiry", and begins: once the requests and sign-ins that
\* changed a person's row are done with it, the cached list says of the organization what the
\* roster says, unless a lookup spanned the change or a drop failed.
AccessFollows ==
    \A u \in User :
        cache[u] \in {"miss", Listed(u)} \/ u \in signing \cup excused
        \/ \E q \in Request : req[q].pc = "drop" /\ req[q].of = u
=============================================================================
