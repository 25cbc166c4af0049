SPECIFICATION MCSpec
CONSTANTS
    ann = ann
    ben = ben
    q1 = q1
    q2 = q2
    User = {ann, ben}
    Request = {q1, q2}
    Asks <- MCAsks
SYMMETRY MCSymmetry
INVARIANTS
    TypeOK
    OwnerRemains
    AccessFollows
PROPERTIES
    OwnersTouchOwners
    ImplementsOrganization
