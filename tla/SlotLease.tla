------------------------------ MODULE SlotLease ------------------------------
(***************************************************************************)
(* What a slot lock promises: a lease.  A key belongs to one owner until   *)
(* this owner gives it back, or until the owner is gone and the key runs   *)
(* out; nobody else can end it.                                            *)
(***************************************************************************)
CONSTANTS Owners, Keys

VARIABLES
    lease,   \* the keys of each owner
    orphans  \* keys whose owner is gone

Leased(k) == \E o \in Owners : k \in lease[o]

Init ==
    /\ lease = [o \in Owners |-> {}]
    /\ orphans = {}

Acquire(o, k) ==
    /\ ~Leased(k) /\ k \notin orphans
    /\ lease' = [lease EXCEPT ![o] = @ \cup {k}]
    /\ UNCHANGED orphans

Release(o, k) ==
    /\ k \in lease[o]
    /\ lease' = [lease EXCEPT ![o] = @ \ {k}]
    /\ UNCHANGED orphans

Abandon(o) ==
    /\ orphans' = orphans \cup lease[o]
    /\ lease' = [lease EXCEPT ![o] = {}]

Expire(k) ==
    /\ k \in orphans
    /\ orphans' = orphans \ {k}
    /\ UNCHANGED lease

Next ==
    \/ \E o \in Owners : Abandon(o) \/ \E k \in Keys : Acquire(o, k) \/ Release(o, k)
    \/ \E k \in Keys : Expire(k)

Spec == Init /\ [][Next]_<<lease, orphans>>
=============================================================================
