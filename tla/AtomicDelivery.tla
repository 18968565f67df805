--------------------------- MODULE AtomicDelivery ---------------------------
(***************************************************************************)
(* What the transactional workspace promises about the source tree, with   *)
(* no record, journal, shadow or recovery copy in it:                      *)
(*                                                                         *)
(*   - until a delivery starts, the source is the user's tree;             *)
(*   - a delivery either shows all of its plan, and the user's tree        *)
(*     everywhere else, or puts the user's tree back;                      *)
(*   - if it can do neither, or forgets that it did, it is in doubt, says   *)
(*     so for ever, and changes the source only to put paths back.         *)
(*                                                                         *)
(* A path of the plan that the delivery had not seen as the user had it is *)
(* the first exception: nothing is promised of how it is put back.  A path *)
(* that somebody rewrites in what is being delivered is the other: nothing *)
(* is promised of what it is given.                                        *)
(***************************************************************************)
CONSTANTS Paths, Value

VARIABLES
    source,   \* the tree everybody sees
    user,     \* the tree as the user alone would have it
    plan,     \* the values the delivery gives to some paths
    seen,     \* the paths the delivery knows how to put back
    raced,    \* the paths somebody else rewrote in what is delivered
    phase     \* "open", "delivering", "delivered", "undone", "inDoubt"

Init ==
    /\ source \in [Paths -> Value]
    /\ user = source
    /\ plan = << >>
    /\ seen = {} /\ raced = {}
    /\ phase = "open"

UserEdits ==
    /\ \E p \in Paths, v \in Value :
          /\ source' = [source EXCEPT ![p] = v]
          /\ user' = [user EXCEPT ![p] = v]
    /\ UNCHANGED <<plan, seen, raced, phase>>

Start ==
    /\ phase = "open"
    /\ phase' = "delivering"
    /\ \E P \in SUBSET Paths : plan' \in [P -> Value]
    /\ seen' \in SUBSET Paths /\ raced' \in SUBSET Paths
    /\ UNCHANGED <<source, user>>

Race ==
    /\ phase # "open"
    /\ raced' \in SUBSET Paths /\ raced \subseteq raced'
    /\ UNCHANGED <<source, user, plan, seen, phase>>

Show ==
    /\ phase = "delivering"
    /\ \E p \in DOMAIN plan, v \in Value :
          /\ p \notin raced => v = plan[p]
          /\ source' = [source EXCEPT ![p] = v]
    /\ UNCHANGED <<user, plan, seen, raced, phase>>

PutBack ==
    /\ phase \in {"delivering", "inDoubt"}
    /\ \E p \in DOMAIN plan, v \in Value :
          /\ p \in seen => v = user[p]
          /\ source' = [source EXCEPT ![p] = v]
    /\ UNCHANGED <<user, plan, seen, raced, phase>>

Deliver ==
    /\ phase = "delivering"
    /\ \A p \in DOMAIN plan \ raced : source[p] = plan[p]
    /\ \A p \in Paths \ DOMAIN plan : source[p] = user[p]
    /\ phase' = "delivered"
    /\ UNCHANGED <<source, user, plan, seen, raced>>

GiveUp ==
    /\ phase = "delivering"
    /\ \A p \in Paths : p \in seen \/ p \notin DOMAIN plan => source[p] = user[p]
    /\ phase' = "undone"
    /\ UNCHANGED <<source, user, plan, seen, raced>>

Doubt ==
    /\ phase \in {"delivering", "undone"}
    /\ phase' = "inDoubt"
    /\ UNCHANGED <<source, user, plan, seen, raced>>

(* Putting a path back failed halfway: what it showed is gone. *)
LosePath ==
    /\ phase \in {"delivering", "inDoubt"}
    /\ phase' = "inDoubt"
    /\ \E p \in DOMAIN plan, v \in Value : source' = [source EXCEPT ![p] = v]
    /\ UNCHANGED <<user, plan, seen, raced>>

Next ==
    \/ UserEdits \/ Start \/ Race \/ Show \/ PutBack \/ Deliver \/ GiveUp
    \/ Doubt \/ LosePath

Spec == Init /\ [][Next]_<<source, user, plan, seen, raced, phase>>
=============================================================================
