---------------------------- MODULE MCSessionStore ----------------------------
EXTENDS SessionStore, TLC

CONSTANTS s1, s2, o1, o2, r1

\* A second session has signed in before everything else.
MCInit ==
    LET rec == [c |-> 1, v |-> 0, data |-> 0, raced |-> FALSE]
    IN  /\ now = 1 /\ profile = 0 /\ unbumped = {} /\ version = 0 /\ since = 0 /\ tombs = {}
        /\ registry = [j \in Session |-> IF j = s2 THEN rec ELSE Nil]
        /\ token = [j \in Session |-> IF j = s2 THEN [pc |-> "issued", c |-> 1, rec |-> rec]
                                      ELSE None]
        /\ req = [r \in Req |-> Idle] /\ op = [o \in Op |-> Idle]
        /\ ops = 0 /\ faults = 0 /\ told = 0 /\ bulk = {} /\ ended = {}
        /\ erased = 0 /\ loose = {}

\* It is only there to end the others from, and to be swept with them.
MCNext ==
    /\ Next
    /\ \A r \in Req : req'[r].pc \in {"idle", "served"} \/ req'[r].of # s2
    /\ \A o \in Op : /\ op'[o].pc = "rename" => op'[o].of # s2
                     /\ op'[o].pc = "tomb" => s2 \notin op'[o].todo

MCSpec == MCInit /\ [][MCNext]_vars
MCSymmetry == Permutations(Op)
=============================================================================
