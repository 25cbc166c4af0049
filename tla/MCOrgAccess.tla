----------------------------- MODULE MCOrgAccess -----------------------------
EXTENDS OrgAccess, TLC

CONSTANTS ann, ben, q1, q2

MCAsks == {[do |-> "update", role |-> "member", status |-> "same"],
           [do |-> "update", role |-> "owner", status |-> "same"],
           [do |-> "update", role |-> "same", status |-> "inactive"],
           [do |-> "remove", role |-> "same", status |-> "same"],
           [do |-> "add", role |-> "owner", status |-> "same"]}

Owner == [role |-> "owner", status |-> "active"]

\* Two owners, an owner and an admin, or an owner whose colleague has yet to join.
MCRosters == {(ann :> Owner) @@ (ben :> row) :
                 row \in {Owner, [Owner EXCEPT !.role = "admin"], None}}

MCInit == Init /\ members \in MCRosters /\ accounts = {u \in User : members[u] # None}
\* The entries of two people do not meet: only one person's is looked up.
MCNext == Next /\ fill'[ann] = "none"
MCSpec == MCInit /\ [][MCNext]_vars

MCSymmetry == Permutations(Request)
=============================================================================
