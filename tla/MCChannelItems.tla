---------------------------- MODULE MCChannelItems ----------------------------
(* Small instances of the controllers of bookmarks, pins and members. *)
EXTENDS ChannelItems

CONSTANTS m1, w1, c1, c2, conv1, meta, l1, l2, t1, u1, u2, e1

MCMetaName == [m \in MRs |-> meta]
MCNames == BookmarkNames \cup Pins \cup Memberships \cup {meta}
MCReasons == {"ChannelUnavailable", "MessageNotFound"}

\* By reference, and by ID with another body.
MCSpecs == {[conv |-> conv1, body |-> b] : b \in {l1, t1, e1}}
             \cup {[conv |-> c1, body |-> b] : b \in {l2, t1, u1}}

\* One spec of each kind, a bookmark has two.
FewSpecs == {[conv |-> conv1, body |-> l1], [conv |-> c1, body |-> l2],
             [conv |-> conv1, body |-> t1], [conv |-> conv1, body |-> e1]}
=============================================================================
