--------------------------- MODULE MCConversation ---------------------------
(* Small instances of the Conversation controller. *)
EXTENDS ConversationProperties, TLC

CONSTANTS m1, w1, w2, c1, c2, n1, n2, none, text, domain

\* A resource may be called as its channel is, or not.
MCMetaName == [m \in MRs |-> n1]

SameName == [name |-> n1, private |-> FALSE, topic |-> text, purpose |-> Nil]
Bare == [name |-> n1, private |-> FALSE, topic |-> Nil, purpose |-> Nil]
BareOther == [Bare EXCEPT !.name = n2]

\* text is the URL that Slack links the domain to.
MCLinkTarget == [t \in UrlTexts |-> text]

MixedSpecs == {SameName, [BareOther EXCEPT !.private = TRUE, !.purpose = domain]}
OneSpec == {[Bare EXCEPT !.purpose = text]}

MCReasons == {"NameConflict", "NotFound"}
Replicas == Permutations({w1, w2}) \cup Permutations({c1, c2})
=============================================================================
