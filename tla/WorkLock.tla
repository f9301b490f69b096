------------------------------ MODULE WorkLock ------------------------------
(***************************************************************************)
(* What the active-conditions store promises about units of work: a lock   *)
(* per server.  A unit takes the lock of its server only while nobody      *)
(* holds it, a holder is never replaced by another unit directly, and a    *)
(* unit that gave the lock up, or whose creation came to nothing, never    *)
(* takes one again.                                                        *)
(***************************************************************************)
CONSTANTS
    Servers, IDs,
    Free           \* not one of IDs

VARIABLES
    holder,  \* holder[s]: the unit of work that owns server s, or Free
    spent    \* the units that may not take a lock any more

lockVars == <<holder, spent>>

Init ==
    /\ holder = [s \in Servers |-> Free]
    /\ spent = {}

Acquire(s, id) ==
    /\ holder[s] = Free
    /\ id \notin spent
    /\ holder' = [holder EXCEPT ![s] = id]
    /\ spent' = spent \cup {id}

Release(s) ==
    /\ holder' = [holder EXCEPT ![s] = Free]
    /\ UNCHANGED spent

Discard(ids) ==
    /\ spent' = spent \cup ids
    /\ UNCHANGED holder

Next ==
    \/ \E s \in Servers, id \in IDs : Acquire(s, id)
    \/ \E s \in Servers : Release(s)
    \/ \E ids \in SUBSET IDs : Discard(ids)

Spec == Init /\ [][Next]_lockVars

=============================================================================
