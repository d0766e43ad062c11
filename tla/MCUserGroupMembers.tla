------------------------- MODULE MCUserGroupMembers -------------------------
(* Small instances of the UserGroupMembers controller. *)
EXTENDS UserGroupMembers

CONSTANTS m1, w1, n1, g1, e1, e2, u1, u2

MCMetaName == [m \in MRs |-> n1]
MCSpecs == {{e1}, {e1, e2}}
MCReasons == {"UserNotFound"}
=============================================================================
