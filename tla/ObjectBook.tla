------------------------------ MODULE ObjectBook ------------------------------
(***************************************************************************)
(* What a controller promises of the external objects it makes (channels,  *)
(* user groups), without reconciles, caches, replicas or failures: a       *)
(* resource obtains at most one object at a time, and until that object is *)
(* gone its book entry (the external-name annotation) is never moved to    *)
(* another object and never struck out.                                    *)
(***************************************************************************)
CONSTANTS MRs, Objects, Nobody, NoID

VARIABLES
    holder,  \* holder[x]: the resource that obtained object x
    book     \* book[m]: the object ID recorded in resource m

bookVars == <<holder, book>>

BookInit ==
    /\ holder = [x \in Objects |-> Nobody]
    /\ book = [m \in MRs |-> NoID]

\* m obtains a new object, having none.
Obtain(m, x) ==
    /\ holder[x] = Nobody
    /\ \A y \in Objects : holder[y] # m
    /\ holder' = [holder EXCEPT ![x] = m]
    /\ UNCHANGED book

\* The object x is given up: it is archived, disabled or deleted in Slack.
GiveUp(x) ==
    /\ holder[x] # Nobody
    /\ holder' = [holder EXCEPT ![x] = Nobody]
    /\ UNCHANGED book

\* The entry of m changes: to the object m holds, if it holds one.
Record(m, id) ==
    /\ \A x \in Objects : holder[x] = m => id = x
    /\ book' = [book EXCEPT ![m] = id]
    /\ UNCHANGED holder

BookNext ==
    \/ \E m \in MRs, x \in Objects : Obtain(m, x)
    \/ \E x \in Objects : GiveUp(x)
    \/ \E m \in MRs, id \in Objects \cup {NoID} : Record(m, id)

BookSpec == BookInit /\ [][BookNext]_bookVars
=============================================================================
