----------------------------- MODULE ChannelItem -----------------------------
(***************************************************************************)
(* What the controllers of bookmarks, pins and channel members share: the  *)
(* Slack workspace they work on, the reference of an item to the           *)
(* Conversation whose channel it belongs to, and the control of their      *)
(* calls inside the loop of module ManagedReconciler.  Each of the three   *)
(* EXTENDS this module; module ChannelItems puts them together.            *)
(*                                                                         *)
(* A spec gives the channel as an ID or by the name of a Conversation      *)
(* resource, whose external name is read anew by every call.  The rest of  *)
(* the spec is its body: the title and link of a bookmark, the timestamp   *)
(* of a message, a user's ID or e-mail address.                            *)
(***************************************************************************)
EXTENDS ManagedReconciler

CONSTANTS
    Channels,     \* channel IDs
    Convs,        \* Conversation resources, by name
    Gone,         \* there is no such Conversation
    MaxBookmarks, \* bound on the bookmarks Slack ever makes
    Links,        \* titles and links of bookmarks
    Messages,     \* timestamps of messages
    People,       \* user IDs
    Emails,       \* e-mail addresses
    Bot,          \* the provider's own Slack user
    NoUser,       \* the lookup answers users_not_found
    NoItem,
    MaxDrift      \* bound on what others do in Slack and to Conversations

Kinds == {"bookmark", "pin", "member"}

\* Slack gives out each ID once.
BookmarkIDs == 1 .. MaxBookmarks

BookmarkName(b) == <<"bookmark", b>>
BookmarkNames == {BookmarkName(b) : b \in BookmarkIDs}
Pins == Channels \X Messages
Memberships == Channels \X People

BookmarkSpecs == {s \in Specs : s.body \in Links}
PinSpecs == {s \in Specs : s.body \in Messages}
MemberSpecs == {s \in Specs : s.body \in People \cup Emails}

SpecsFor(k) == CASE k = "bookmark" -> BookmarkSpecs [] k = "pin" -> PinSpecs [] OTHER -> MemberSpecs
NamesOf(k) == CASE k = "bookmark" -> BookmarkNames [] k = "pin" -> Pins [] OTHER -> Memberships

ASSUME ItemAssumption ==
    /\ MaxBookmarks \in Nat /\ MaxDrift \in Nat
    /\ \A k \in Kinds : NamesOf(k) \subseteq ExtNames
    \* metadata.name holds neither ':' nor '/' and is no bookmark ID
    /\ \A m \in MRs, k \in Kinds : MetaName[m] \notin NamesOf(k)
    /\ \A s \in Specs : /\ s \in [conv : Channels \cup Convs, body : Links \cup Messages \cup People \cup Emails]
    /\ Channels \cap (Convs \cup {NoExt, Gone}) = {} /\ Convs \cap {NoExt, Gone} = {} /\ Gone # NoExt
    /\ Bot \notin People /\ NoUser \notin People /\ Emails \cap People = {}
    /\ Links \cap (Messages \cup People \cup Emails) = {} /\ Messages \cap (People \cup Emails) = {}
    /\ NoItem \notin Pins \cup Memberships
    /\ ConditionReasons = {"ChannelUnavailable", "MessageNotFound"}

VARIABLES
    kind,      \* kind[m]: which of the three controllers m belongs to
    step,      \* step[w]: the next call of w within its phase
    target,    \* target[w]: the channel and user w's Create has resolved
    conv,      \* conv[n]: the external name of Conversation n, as informers show it
    archived,  \* the archived channels
    bookmarks, \* bookmarks[b]: the bookmark b
    made,      \* how many bookmarks Slack has ever made
    pins,      \* the pinned messages
    posts,     \* the messages there are
    members,   \* who is in which channel
    dir,       \* dir[e]: the user who has address e
    doubt,     \* history: workers whose Observe saw no channel, or what is no longer so
    drift

itemVars == <<bookmarks, made, pins, posts, members>>
slackVars == <<conv, archived, itemVars, dir, drift>>
vars == <<mrVars, kind, step, target, doubt, slackVars>>

NoBookmark == [ch |-> NoItem, body |-> NoItem]
Present(b) == bookmarks[b] # NoBookmark

-----------------------------------------------------------------------------
(* Channels and references *)

\* The channel the spec s means: NoExt or the Conversation's own name as long as
\* the Conversation has none.
ChannelOf(s) == IF s.conv \in Convs THEN conv[s.conv] ELSE s.conv

\* ResolveConversationID of the three referencers, on w's copy.
ResolveConversationID(w) == ChannelOf(mg[w].spec)

\* The reference cannot be read (NotFound).
Unresolved(w) == ResolveConversationID(w) = Gone

\* Slack answers channel_not_found or is_archived.
isChannelUnavailable(c) == c \notin Channels \ archived

-----------------------------------------------------------------------------
(* Control inside a phase *)

FirstStep(p, k) == CASE p = "observe" -> "connect"
                     [] p = "create"  -> IF k = "member" THEN "resolve" ELSE "add"
                     [] p = "update"  -> "edit"
                     [] p = "delete"  -> "remove"
                     [] OTHER         -> "none"

Steps == {"none", "connect", "list", "add", "resolve", "join", "invite", "edit", "remove"}

At(w, p, s) == pc[w] = p /\ step[w] = s
For(w, k) == pc[w] # "idle" /\ kind[cur[w]] = k

\* w enters the phase pc' says.  Its Observe tells it what is there; what the
\* workers ws were told is not so any more.
PhaseWith(w, ws) ==
    /\ step' = [step EXCEPT ![w] = FirstStep(pc'[w], IF cur[w] \in MRs THEN kind[cur[w]] ELSE "pin")]
    /\ target' = [target EXCEPT ![w] = NoItem]
    /\ doubt' = (IF pc[w] = "observe" \/ pc'[w] \in {"idle", "status"} THEN doubt \ {w} ELSE doubt)
                    \cup ws
    /\ UNCHANGED kind

NextPhase(w) == PhaseWith(w, {})

Goto(w, s) == step' = [step EXCEPT ![w] = s] /\ UNCHANGED <<mrVars, kind, doubt>>

\* The observation o ends w's Observe, the copy being c.
Answer(w, o, c) == ObserveAnswers(w, o, c) /\ NextPhase(w)

\* No channel can be asked: for the bookmark and the pin, the item is missing.
NoChannelToAsk(w, c) ==
    /\ ObserveAnswers(w, "missing", c)
    /\ PhaseWith(w, {w})

SaysUnavailable(w) == [mg[w] EXCEPT !.synced = "ChannelUnavailable"]

\* The workers at work on a resource that records e.
Recording(e) == {v \in Workers : pc[v] # "idle" /\ cur[v] \in MRs /\ api[cur[v]].ext = e}

\* Create has brought about e, which others may have been told is missing.
Created(w, e) ==
    CreateReturns(w, TRUE, [mg[w] EXCEPT !.ext = e]) /\ PhaseWith(w, Recording(e) \ {w})
CreatedUnheard(w, e) ==
    CreateReturns(w, FALSE, mg[w]) /\ PhaseWith(w, Recording(e) \ {w})
CreateFails(w, r) == CreateReturns(w, FALSE, [mg[w] EXCEPT !.synced = r]) /\ NextPhase(w)
CallEnds(w, ok) == CallReturns(w, ok) /\ NextPhase(w)

\* Connect tracks the usage of the ProviderConfig, reads it and its Secret and
\* checks the token; each may fail.
ConnectAs(w, k) ==
    /\ For(w, k) /\ At(w, "observe", "connect")
    /\ \/ Goto(w, "list") /\ UNCHANGED target
       \/ Fault /\ Answer(w, "error", mg[w])
    /\ UNCHANGED slackVars

-----------------------------------------------------------------------------
(* Others, in Slack and in Kubernetes *)

Drift == drift < MaxDrift /\ drift' = drift + 1
NotReconciling == UNCHANGED <<mrVars, kind, step, target>>

\* What the workers ws were told may not be so any more.
Doubts(ws) == doubt' = doubt \cup ws

\* A Conversation is created, named by the initializer and given a channel, or
\* goes, by the steps of module Conversation.
ConversationChanges(n, e) ==
    /\ Drift
    /\ \/ conv[n] = Gone /\ e = NoExt
       \/ conv[n] = NoExt /\ e = n
       \/ conv[n] = n /\ e \in Channels
       \/ conv[n] # Gone /\ e = Gone
    /\ conv' = [conv EXCEPT ![n] = e]
    /\ Doubts({w \in Workers : pc[w] # "idle" /\ mg[w].spec # NoSpec /\ mg[w].spec.conv = n})
    /\ NotReconciling /\ UNCHANGED <<archived, itemVars, dir>>

SlackUserArchives(c) ==
    /\ Drift
    /\ archived' = IF c \in archived THEN archived \ {c} ELSE archived \cup {c}
    /\ NotReconciling /\ UNCHANGED <<conv, itemVars, dir, doubt>>

SlackUserEditsBookmark(b, r) ==
    /\ Drift /\ Present(b) /\ bookmarks[b].ch \notin archived
    /\ r # bookmarks[b]
    /\ bookmarks' = [bookmarks EXCEPT ![b] = r]
    /\ NotReconciling /\ UNCHANGED <<conv, archived, made, pins, posts, members, dir, doubt>>

\* A message that is deleted takes its pin along.
SlackUserChangesPin(p) ==
    /\ Drift /\ p \in posts /\ p[1] \notin archived
    /\ \/ posts' = posts \ {p} /\ pins' = pins \ {p} /\ UNCHANGED doubt
       \/ p \in pins /\ pins' = pins \ {p} /\ UNCHANGED <<posts, doubt>>
       \/ /\ p \notin pins /\ pins' = pins \cup {p}
          /\ Doubts(Recording(p)) /\ UNCHANGED posts
    /\ NotReconciling /\ UNCHANGED <<conv, archived, bookmarks, made, members, dir>>

SlackUserChangesMember(p) ==
    /\ Drift /\ p[1] \notin archived
    /\ \/ p \in members /\ members' = members \ {p} /\ UNCHANGED doubt
       \/ p \notin members /\ members' = members \cup {p} /\ Doubts(Recording(p))
    /\ NotReconciling /\ UNCHANGED <<conv, archived, bookmarks, made, pins, posts, dir>>

DirectoryChanges(e, u) ==
    /\ Drift /\ u # dir[e]
    /\ dir' = [dir EXCEPT ![e] = u]
    /\ NotReconciling /\ UNCHANGED <<conv, archived, itemVars, doubt>>
=============================================================================
