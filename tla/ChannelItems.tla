---------------------------- MODULE ChannelItems ----------------------------
(***************************************************************************)
(* The controllers of bookmarks, pins and channel members together, with   *)
(* the users of Slack and Kubernetes, and what they promise.               *)
(***************************************************************************)
EXTENDS Bookmark, Pin, ConversationMember

Init ==
    /\ MRInit
    /\ kind \in [MRs -> Kinds]
    /\ step = [w \in Workers |-> "none"]
    /\ target = [w \in Workers |-> NoItem]
    /\ conv \in [Convs -> Channels \cup Convs \cup {NoExt, Gone}]
    /\ \A n \in Convs : conv[n] \in Convs => conv[n] = n
    /\ archived = {}
    /\ bookmarks = [b \in BookmarkIDs |-> NoBookmark]
    /\ made = 0
    /\ pins = {}
    /\ posts = Pins
    /\ members = {}
    /\ dir \in [Emails -> People]
    /\ doubt = {}
    /\ drift = 0

Runtime(w) == RuntimeStep(w) /\ NextPhase(w) /\ UNCHANGED slackVars

Reconcile(w) == Runtime(w) \/ BookmarkStep(w) \/ PinStep(w) \/ MemberStep(w)

\* The items a user may import: a bookmark must have been made.
Importable(k) == NamesOf(k) \ {BookmarkName(b) : b \in {i \in BookmarkIDs : i > made}}

KubernetesUsers ==
    /\ \E m \in MRs :
          \/ UserDeletes(m)
          \/ \E s \in SpecsFor(kind[m]) :
                UserEdits(m, s) \/ \E x \in Importable(kind[m]) \cup {NoExt} : UserCreates(m, s, x)
    /\ UNCHANGED <<kind, step, target, doubt, slackVars>>

\* Items of a kind that no resource has are left alone: nobody reads them.
Used(k) == \E m \in MRs : kind[m] = k

Others ==
    \/ \E n \in Convs, e \in Channels \cup Convs \cup {NoExt, Gone} : ConversationChanges(n, e)
    \/ \E c \in Channels : SlackUserArchives(c)
    \/ \E b \in BookmarkIDs, l \in Links :
          SlackUserEditsBookmark(b, NoBookmark) \/ SlackUserEditsBookmark(b, [bookmarks[b] EXCEPT !.body = l])
    \/ Used("pin") /\ \E p \in Pins : SlackUserChangesPin(p)
    \/ /\ Used("member")
       /\ \/ \E p \in Channels \X (People \cup {Bot}) : SlackUserChangesMember(p)
          \/ \E e \in Emails, u \in People \cup {NoUser} : DirectoryChanges(e, u)

Informer(w, m) == CacheSync(w, m) /\ UNCHANGED <<kind, step, target, doubt, slackVars>>
Dies(w) == Crash(w) /\ NextPhase(w) /\ UNCHANGED slackVars

Next == \/ KubernetesUsers \/ Others
        \/ \E w \in Workers : Reconcile(w) \/ Dies(w) \/ \E m \in MRs : Informer(w, m)

Spec == Init /\ [][Next]_vars

\* As for Conversation: calls return, informers catch up, and the queue hands
\* out every resource again and again.
Fairness == \A w \in Workers :
    /\ WF_vars(Reconcile(w) /\ pc[w] # "idle")
    /\ \A m \in MRs : /\ WF_vars(Informer(w, m))
                      /\ SF_vars(Runtime(w) /\ pc[w] = "idle" /\ cur'[w] = m)

FairSpec == Spec /\ Fairness

-----------------------------------------------------------------------------
(* Properties *)

ItemsOK ==
    /\ bookmarks \in [BookmarkIDs -> [ch : Channels, body : Links] \cup {NoBookmark}]
    /\ made \in 0 .. MaxBookmarks
    /\ pins \subseteq posts /\ posts \subseteq Pins
    /\ members \subseteq Channels \X (People \cup {Bot})

PhaseOK ==
    /\ kind \in [MRs -> Kinds]
    /\ step \in [Workers -> Steps]
    /\ target \in [Workers -> ((Channels \cup Convs \cup {NoExt}) \X People) \cup {NoItem}]
    /\ doubt \in SUBSET Workers

OthersOK ==
    /\ conv \in [Convs -> Channels \cup Convs \cup {NoExt, Gone}]
    /\ archived \in SUBSET Channels
    /\ dir \in [Emails -> People \cup {NoUser}]
    /\ drift \in 0 .. MaxDrift

\* Every variable keeps its type, and a pin or a member is never updated.
TypeOK == MRTypeOK /\ PhaseOK /\ ItemsOK /\ OthersOK
          /\ \A w \in Workers : pc[w] = "update" => For(w, "bookmark")

\* The item that cur[w] records is in Slack; a bookmark counts if it is in the
\* channel that the spec w works on means.
ItemIsThere(w) ==
    LET e == api[cur[w]].ext
    IN  CASE kind[cur[w]] = "bookmark" ->
                \E b \in ListBookmarks(ResolveConversationID(w)) : e = BookmarkName(b)
          [] kind[cur[w]] = "pin" -> e \in pins
          [] OTHER -> e \in members

\* The provider never loses sight of an item: it lets a resource go, or records
\* another item for it, only if the recorded one is gone, or if Observe was told
\* that there is no channel, or if after Observe others (users, or the
\* controller of a resource with the same spec) restored the item or moved the
\* reference (Observe and Create of the three controllers with
\* the loop's writes, bookmark.go:97-177, pin.go:99-175,
\* conversationmember.go:94-166).
NeverForgotten ==
    [][\A w \in Workers :
          LET m == cur[w]
          IN  /\ pc[w] \in {"critical", "unfinalize"} /\ pc'[w] # pc[w]
              /\ m \in MRs /\ api[m].ext \in NamesOf(kind[m]) /\ api'[m].ext # api[m].ext
              => ~ItemIsThere(w) \/ w \in doubt]_vars

Served(m) ==
    \/ \E b \in BookmarkIDs : /\ api[m].ext = BookmarkName(b)
                              /\ bookmarks[b] = [ch |-> ChannelOf(api[m].spec), body |-> api[m].spec.body]
    \/ api[m].ext \in pins \/ api[m].ext \in members

\* What the provider cannot overcome: a creation whose outcome is unknown, no
\* channel, no message or one that is pinned but not recorded (already_pinned),
\* and no user.
Obstructed(m) ==
    LET s == api[m].spec
        p == <<ChannelOf(s), s.body>>
    IN  \/ api[m].create = "pending"
        \/ isChannelUnavailable(ChannelOf(s))
        \/ kind[m] = "pin" /\ (p \notin posts \/ p \in pins)
        \/ s.body \in Emails /\ dir[s.body] = NoUser

\* Whatever failed on the way, once failures and users pause every resource that
\* stays has its item, a bookmark with the title and link of the spec, unless it
\* is obstructed (Observe, Create and Update of the three controllers).
Converges ==
    \A m \in MRs : <>[](api[m].exists /\ ~api[m].del => Served(m) \/ Obstructed(m))

\* A deleted resource goes, unless its creation is incomplete, or a bookmark's
\* Conversation went first (bookmark.go:217), or a member's channel is archived
\* (conversationmember.go:188: only not_in_channel and channel_not_found count
\* as done).
DeletionCompletes ==
    \A m \in MRs : <>[](api[m].del =>
        \/ api[m].create = "pending"
        \/ kind[m] = "bookmark" /\ ChannelOf(api[m].spec) = Gone
        \/ \E p \in members : api[m].ext = p /\ p[1] \in archived)
=============================================================================
