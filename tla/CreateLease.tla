----------------------------- MODULE CreateLease -----------------------------
(***************************************************************************)
(* What the create annotations of the reconcile loop amount to: a lease    *)
(* that a replica takes on a resource before it creates the external       *)
(* object and gives back with the recorded outcome.  A lease whose holder  *)
(* dies, or cannot record the outcome, is lost: nobody creates for that    *)
(* resource again.                                                         *)
(***************************************************************************)
CONSTANTS MRs, Workers

VARIABLES
    holders,  \* holders[m]: the workers that are creating for m
    lost      \* the resources whose last creation has no recorded outcome

leaseVars == <<holders, lost>>

LeaseInit ==
    /\ holders = [m \in MRs |-> {}]
    /\ lost = {}

Begin(m, w) ==
    /\ m \notin lost
    /\ holders[m] = {}
    /\ holders' = [holders EXCEPT ![m] = {w}]
    /\ UNCHANGED lost

\* The holder of m records how its creation ended.
End(m) ==
    /\ holders[m] # {}
    /\ holders' = [holders EXCEPT ![m] = {}]
    /\ UNCHANGED lost

Lose(m) ==
    /\ holders[m] # {}
    /\ holders' = [holders EXCEPT ![m] = {}]
    /\ lost' = lost \cup {m}

LeaseNext ==
    \E m \in MRs : End(m) \/ Lose(m) \/ \E w \in Workers : Begin(m, w)

LeaseSpec == LeaseInit /\ [][LeaseNext]_leaseVars
=============================================================================
