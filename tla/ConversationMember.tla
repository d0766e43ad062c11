------------------------- MODULE ConversationMember -------------------------
(***************************************************************************)
(* The ConversationMember controller (internal/controller/                 *)
(* conversationmember).  The external name is made of the channel and the  *)
(* user, and only Create looks at the spec: it resolves both, lets the bot *)
(* join the channel, whether or not that works, and invites the user.      *)
(* Update is not here because Observe never says that a member drifted.    *)
(***************************************************************************)
EXTENDS ChannelItem

ConnectMember(w) == ConnectAs(w, "member")

\* The name is split at its first slash; one without it is no membership.
parseMemberName(e) == IF e \in Memberships THEN e ELSE NoItem

\* The scan over the pages of conversations.members is one step.
GetConversationMembers(c) == {u \in People : <<c, u>> \in members}

\* Any error of conversations.members is one, that of a missing channel too; an
\* archived channel still has members.
ObserveMember(w) ==
    LET p == parseMemberName(mg[w].ext)
    IN  /\ For(w, "member") /\ At(w, "observe", "list")
        /\ \/ p = NoItem /\ Answer(w, "missing", mg[w]) /\ UNCHANGED faults
           \/ /\ p # NoItem
              /\ Answer(w, IF p[2] \in GetConversationMembers(p[1]) THEN "uptodate" ELSE "missing", mg[w])
              /\ UNCHANGED faults
           \/ p # NoItem /\ Fault /\ Answer(w, "error", mg[w])
        /\ UNCHANGED slackVars

-----------------------------------------------------------------------------
(* Create *)

OnlyMembers == UNCHANGED <<conv, archived, bookmarks, made, pins, posts, dir, drift>>

\* The user of the spec: an ID as it is, or whoever has the address now.
resolveUserID(w) == IF mg[w].spec.body \in Emails THEN dir[mg[w].spec.body] ELSE mg[w].spec.body

ResolveInCreate(w) ==
    LET c == ResolveConversationID(w)
        u == resolveUserID(w)
    IN  /\ For(w, "member") /\ At(w, "create", "resolve")
        /\ \/ /\ ~Unresolved(w) /\ u # NoUser
              /\ target' = [target EXCEPT ![w] = <<c, u>>]
              /\ Goto(w, "join") /\ UNCHANGED faults
           \/ (Unresolved(w) \/ u = NoUser) /\ CreateFails(w, mg[w].synced) /\ UNCHANGED faults
           \/ Fault /\ CreateFails(w, mg[w].synced)
        /\ UNCHANGED slackVars

Enters(p) == members' = members \cup {p}

\* The bot joins if it can; an error is ignored.
JoinAsBot(w) ==
    LET c == target[w][1]
    IN  /\ For(w, "member") /\ At(w, "create", "join")
        /\ \/ IF isChannelUnavailable(c) THEN UNCHANGED members ELSE Enters(<<c, Bot>>)
              /\ UNCHANGED faults
           \/ Fault /\ UNCHANGED members
        /\ Goto(w, "invite") /\ UNCHANGED target /\ OnlyMembers

\* Slack invites for a bot that is in the channel.
Admits(p) == ~isChannelUnavailable(p[1]) /\ <<p[1], Bot>> \in members

\* already_in_channel is as good as invited.
Invite(w) ==
    LET p == target[w]
    IN  /\ For(w, "member") /\ At(w, "create", "invite")
        /\ \/ Admits(p) /\ Enters(p) /\ Created(w, p) /\ UNCHANGED faults
           \/ ~Admits(p) /\ CreateFails(w, mg[w].synced) /\ UNCHANGED <<members, faults>>
           \/ Fault /\ Admits(p) /\ Enters(p) /\ CreatedUnheard(w, p)
           \/ Fault /\ CreateFails(w, mg[w].synced) /\ UNCHANGED members
        /\ OnlyMembers

-----------------------------------------------------------------------------
(* Delete *)

\* Slack refuses to kick from an archived channel (is_archived).  A user who is
\* not there (not_in_channel) is as good as removed.
DeleteMember(w) ==
    LET p == mg[w].ext
        kicks == p[1] \notin archived /\ members' = members \ {p}
    IN  /\ For(w, "member") /\ At(w, "delete", "remove")
        /\ \/ kicks /\ CallEnds(w, TRUE) /\ UNCHANGED faults
           \/ p[1] \in archived /\ CallEnds(w, FALSE) /\ UNCHANGED <<members, faults>>
           \/ Fault /\ CallEnds(w, FALSE) /\ (kicks \/ UNCHANGED members)
        /\ OnlyMembers

MemberStep(w) == \/ ConnectMember(w) \/ ObserveMember(w) \/ ResolveInCreate(w)
                 \/ JoinAsBot(w) \/ Invite(w) \/ DeleteMember(w)
=============================================================================
