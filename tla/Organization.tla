----------------------------- MODULE Organization -----------------------------
(***************************************************************************)
(* What the roster of one organization promises whoever asks for a change: *)
(* however long a request takes and whatever runs beside it, it acts on    *)
(* the row as it is at one moment, all of it or nothing.  What was not     *)
(* asked for stays; an organization keeps an active owner; and a person's  *)
(* grants go in the moment the row goes or is demoted.                     *)
(***************************************************************************)
EXTENDS Naturals

CONSTANTS User, Asks

VARIABLES rows,     \* each person's row, or None
          invites,  \* the role each person is invited to, or "none"
          grants    \* people with grants in the organization

vars == <<rows, invites, grants>>

None == [role |-> "none", status |-> "none"]
Owner == [role |-> "owner", status |-> "active"]
Member == [role |-> "member", status |-> "active"]
Row == [role : {"owner", "admin", "member"}, status : {"active", "inactive"}]

Rank(role) == CASE role = "owner" -> 3 [] role = "admin" -> 2 [] OTHER -> 1

\* The row an ask makes of a row: what it does not name stays.
Made(ask, row) == [role |-> IF ask.role = "same" THEN row.role ELSE ask.role,
                   status |-> IF ask.status = "same" THEN row.status ELSE ask.status]

LastOwner(u) == rows[u] = Owner /\ \A v \in User \ {u} : rows[v] # Owner

Init ==
    /\ rows \in [User -> Row \cup {None}] /\ \E u \in User : rows[u] = Owner
    /\ invites = [u \in User |-> "none"]
    /\ grants = {u \in User : rows[u] # None}

Put(u, row) == rows' = [rows EXCEPT ![u] = row]

Join(u, ask) ==
    /\ ask.do = "add" /\ rows[u] = None /\ Put(u, Made(ask, Member))
    /\ UNCHANGED <<invites, grants>>

Invite(u, ask) ==
    /\ ask.do = "add" /\ invites[u] = "none"
    /\ invites' = [invites EXCEPT ![u] = Made(ask, Member).role]
    /\ UNCHANGED <<rows, grants>>

\* The invited person signs in.
Enter(u) ==
    /\ invites[u] # "none" /\ rows[u] = None
    /\ Put(u, [Member EXCEPT !.role = invites[u]])
    /\ invites' = [invites EXCEPT ![u] = "none"]
    /\ UNCHANGED grants

Change(u, ask) ==
    /\ ask.do = "update" /\ rows[u] # None /\ Put(u, Made(ask, rows[u]))
    /\ LastOwner(u) => rows'[u] = Owner
    /\ grants' = IF Rank(rows'[u].role) < Rank(rows[u].role) THEN grants \ {u} ELSE grants
    /\ UNCHANGED invites

Leave(u, ask) ==
    /\ ask.do = "remove" /\ rows[u] # None /\ ~LastOwner(u) /\ Put(u, None)
    /\ grants' = grants \ {u}
    /\ UNCHANGED invites

Next == \E u \in User :
    \/ Enter(u)
    \/ \E ask \in Asks : Join(u, ask) \/ Invite(u, ask) \/ Change(u, ask) \/ Leave(u, ask)

Spec == Init /\ [][Next]_vars
=============================================================================
