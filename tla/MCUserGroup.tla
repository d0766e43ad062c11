----------------------------- MODULE MCUserGroup -----------------------------
(* Small instances of the UserGroup controller. *)
EXTENDS UserGroup

CONSTANTS m1, w1, meta, n1, n2, none, text

MCMetaName == [m \in MRs |-> meta]
MCExtNames == GroupIDs \cup {meta}
MCReasons == {"NameConflict"}

\* Two names; the description comes and goes.
MCSpecs == {[name |-> n1, description |-> Nil], [name |-> n2, description |-> text]}
=============================================================================
