----------------------- MODULE ConversationProperties -----------------------
(* What the Conversation controller promises. *)
EXTENDS Conversation

StepOK ==
    /\ step \in [Workers -> Steps]
    /\ snap \in [Workers -> Channel]

SlackOK ==
    /\ chan \in [Channels -> Channel]
    /\ madeFor \in [Channels -> MRs \cup {NoMR}]
    /\ acked \in SUBSET Channels
    /\ drift \in 0 .. MaxDrift

\* Every variable keeps its type, whatever order the calls of Connect, Observe,
\* Create, Update and Delete fail in (conversation.go:66-272).
TypeOK == MRTypeOK /\ StepOK /\ SlackOK

\* The channel c was made by m's Create, the provider was told its ID, and
\* nobody has archived or deleted it since.
Holds(m, c) == madeFor[c] = m /\ c \in acked

\* A channel whose ID the provider got from conversations.create is never
\* forgotten: as long as it is up, its resource exists with its finalizer and
\* either records the ID or is blocked as create-incomplete for an operator.
\* (Create keeps the ID before it sets topic and purpose, conversation.go:193,
\* so that their failure does not lose it.)
NoForgottenChannel ==
    \A c \in Channels, m \in MRs :
        Holds(m, c) => /\ api[m].exists /\ api[m].fin
                       /\ api[m].ext = c \/ api[m].create = "pending"

\* One resource never has two channels made for it and up at the same time, if
\* the provider was told of both (conversation.go:111-143: Observe finds the
\* channel it made, whatever its name is now).
OneChannelPerResource ==
    \A c, d \in Channels, m \in MRs : (Holds(m, c) /\ Holds(m, d)) => c = d

\* The controller implements ObjectBook: in every interleaving of replicas,
\* stale caches, lost replies and crashes, the ID of a channel made for a
\* resource is recorded once and stays recorded until the channel is archived,
\* and no second channel is obtained before that (Observe, Create and Delete
\* with the loop's writes of the external name, conversation.go:100-272).
heldBy == [c \in Channels |-> IF c \in acked THEN madeFor[c] ELSE NoMR]
recorded == [m \in MRs |-> IF isChannelID(api[m].ext) THEN api[m].ext ELSE NoExt]

Book == INSTANCE ObjectBook
            WITH Objects <- Channels, holder <- heldBy, book <- recorded,
                 Nobody <- NoMR, NoID <- NoExt

ImplementsBook == Book!BookSpec

\* One field of a channel r becomes what the spec s says: q.
Towards(s, r, q) ==
    \/ q = [r EXCEPT !.name = s.name]
    \/ q = [r EXCEPT !.topic = Shown(ptrValueOrEmpty(s.topic))]
    \/ q = [r EXCEPT !.purpose = Shown(ptrValueOrEmpty(s.purpose))]

\* What w may make of channel c: Create makes a new one of the name it wants, and
\* completes none that was made for another resource, Update brings the recorded
\* one nearer to the spec, and only a deletion archives one.
MeantBy(w, c) ==
    \/ /\ pc[w] = "create" /\ chan[c].state = "unused"
       /\ madeFor'[c] = cur[w] /\ chan'[c].name = mg[w].spec.name
    \/ /\ mg[w].ext = c /\ Live(c)
       /\ \/ /\ pc[w] = "create" /\ madeFor[c] \in {cur[w], NoMR}
             /\ Towards(mg[w].spec, chan[c], chan'[c])
          \/ pc[w] = "update" /\ Towards(mg[w].spec, chan[c], chan'[c])
          \/ /\ pc[w] = "delete" /\ mg[w].del
             /\ chan'[c] = [chan[c] EXCEPT !.state = "archived"]

\* The provider changes a channel only as some spec it works on says, whatever
\* happens between its calls, one field at a time and in the channel of that
\* resource; Create leaves channels alone that belong to other resources
\* (conversation.go:161-272).
OnlyMeantChanges ==
    [][\A c \in Channels : chan'[c] # chan[c] =>
          drift' # drift \/ \E w \in Workers : MeantBy(w, c)]_vars

-----------------------------------------------------------------------------
(* The inductive invariant behind the first three properties *)

\* A worker calls Slack about a channel by its ID, never by a name.
Addressed(w) ==
    (\/ pc[w] \in {"update", "delete"}
     \/ pc[w] = "finalize" /\ obs[w] \in {"drifted", "uptodate"}
     \/ At(w, "observe", "info")
     \/ pc[w] = "create" /\ step[w] \in {"topic", "purpose"}) => isChannelID(mg[w].ext)

NoneHeld(m) == \A c \in Channels : ~Holds(m, c)

\* If m holds a channel, it is e.
HeldIs(m, e) == \A c \in Channels : Holds(m, c) => c = e

\* What a worker knows of the channel held by its resource.  A latest copy that
\* passed the gate names it; one that is about to create, or to let the
\* resource go, knows there is none; in the Create section, there is none until
\* CreateConversation answers, and then the copy names it.
KnowsHeld(w) ==
    LET m == cur[w]
        e == mg[w].ext
    IN  /\ pc[w] = "init" => e = NoExt /\ (w \in fresh => api[m].ext = NoExt)
        /\ (w \in fresh /\ pc[w] \in Passed) => HeldIs(m, e)
        /\ (w \in fresh /\ \/ pc[w] \in {"pending", "unfinalize"}
                           \/ pc[w] = "finalize" /\ obs[w] = "missing") => NoneHeld(m)
        /\ (pc[w] = "create" /\ step[w] \in {"create", "adopt"}) => NoneHeld(m)
        /\ (pc[w] = "create" /\ step[w] \in {"topic", "purpose"}) => HeldIs(m, e)
        /\ pc[w] = "critical" => HeldIs(m, e)
        /\ At(w, "observe", "find") => ~isChannelID(e)

HeldInv ==
    /\ \A c \in acked : madeFor[c] \in MRs /\ Live(c)
    /\ NoForgottenChannel
    /\ OneChannelPerResource
    /\ \A w \in Workers : KnowsHeld(w)

ConvInv == TypeOK /\ LoopInv /\ (\A w \in Workers : Addressed(w)) /\ HeldInv

-----------------------------------------------------------------------------
(* The inductive invariant behind OnlyMeantChanges *)

\* Past the creation Create works on a channel that is nobody else's, and Delete
\* on a deleted resource.
EntitledInv(w) ==
    /\ (pc[w] = "create" /\ step[w] \in {"topic", "purpose"}) =>
          chan[mg[w].ext].state # "unused" /\ madeFor[mg[w].ext] \in {cur[w], NoMR}
    /\ pc[w] = "delete" => mg[w].del

-----------------------------------------------------------------------------
(* Convergence *)

\* The channels m stands for: the recorded one, or one of the recorded name.
ChannelsOf(m) == {c \in Channels : c = api[m].ext \/ c \in Listed(api[m].ext)}

\* Slack shows t as it shows v, up to the labels of links.
SameText(t, v) == stripSlackAutoLinks(Shown(ptrValueOrEmpty(t))) = stripSlackAutoLinks(v)

\* m's channel is as the spec says, and the provider sees that it is (isUpToDate)
\* unless the spec has a text whose link leads elsewhere than the text says: then
\* the provider never sees it, and goes on writing what is already there.
InSync(m) ==
    LET s == api[m].spec
    IN  \E c \in ChannelsOf(m) : /\ Live(c) /\ s.name = chan[c].name
                                 /\ SameText(s.topic, chan[c].topic)
                                 /\ SameText(s.purpose, chan[c].purpose)

\* What the provider cannot overcome: a creation whose outcome is unknown, the
\* wanted name held by a channel that is archived or not its own, a private
\* channel that it would have to join.
Obstructed(m) ==
    \/ api[m].create = "pending"
    \/ \E c \in Channels : /\ chan[c].name = api[m].spec.name
                           /\ ~(Live(c) /\ c \in ChannelsOf(m))
    \/ \E c \in ChannelsOf(m) : Live(c) /\ chan[c].private

\* Whatever failed on the way, once failures and users pause for good every
\* resource that stays has its channel as specified, up to the labels of links,
\* and keeps it so, unless it is obstructed (Observe, Create and Update,
\* conversation.go:100-249).
Converges ==
    \A m \in MRs :
        <>[](api[m].exists /\ ~api[m].del => InSync(m) \/ Obstructed(m))

\* The name that m wants is held by a channel that the provider cannot find, a
\* private one, and m has no channel.
Conflict(m) ==
    /\ api[m].exists /\ ~api[m].del /\ ~isChannelID(api[m].ext)
    /\ Listed(api[m].ext) = {}
    /\ Taken(api[m].spec.name) /\ Listed(api[m].spec.name) = {}

\* A resource whose name is lastingly taken comes to say so in its condition
\* Synced, as requirements.md:81 says of conversation.go:184.
NameConflictIsShown ==
    \A m \in MRs : Conflict(m) ~> (~Conflict(m) \/ api[m].synced = "NameConflict")

\* A deleted resource goes, and not before its channel is archived (with
\* NoForgottenChannel), unless it is blocked as create-incomplete
\* (Delete, conversation.go:251-272: already_archived is answered by Observe).
DeletionCompletes ==
    \A m \in MRs : api[m].del ~> (~api[m].del \/ api[m].create = "pending")

=============================================================================
