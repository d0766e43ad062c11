---------------------------- MODULE Conversation ----------------------------
(***************************************************************************)
(* The Conversation controller (internal/controller/conversation): Connect,*)
(* Observe, Create, Update and Delete run inside the loop of module        *)
(* ManagedReconciler, against the Slack workspace they change.             *)
(*                                                                         *)
(* Every call of the Slack client is one step of its worker, so that other *)
(* workers, users of the API server and users of Slack act between the     *)
(* calls.  A call may be refused by Slack, may fail without effect, or may *)
(* take effect and lose its reply; the provider sees an error in all three.*)
(*                                                                         *)
(* madeFor and acked are history variables: which resource's Create made a *)
(* channel, and whether the reply reached the provider.  Both forget a     *)
(* channel once it is archived or deleted.                                 *)
(***************************************************************************)
EXTENDS ManagedReconciler

CONSTANTS
    Channels,   \* channel IDs
    Names,      \* channel names
    Texts,      \* topics and purposes
    Empty,      \* the empty text
    UrlTexts,   \* texts that Slack shows with an auto-link: URLs, e-mail addresses, domains
    LinkTarget, \* LinkTarget[t]: where the link of t leads (an e-mail address: mailto:)
    Nil,        \* topic or purpose not given
    NoName,
    MaxDrift    \* bound on what users of Slack do

ASSUME SlackAssumption ==
    /\ ExtNames = Channels \cup Names
    /\ Channels \cap Names = {}
    /\ MetaName \in [MRs -> Names]   \* metadata.name is lower case, IDs are not
    /\ NoName \notin Names
    /\ Empty \in Texts /\ Nil \notin Texts
    /\ UrlTexts \subseteq Texts /\ LinkTarget \in [UrlTexts -> Texts]
    /\ Specs \subseteq [name : Names, private : BOOLEAN,
                        topic : Texts \cup {Nil}, purpose : Texts \cup {Nil}]
    /\ ConditionReasons = {"NameConflict", "NotFound"}
    /\ MaxDrift \in Nat

VARIABLES
    step,     \* step[w]: the next call of w within its phase
    snap,     \* snap[w]: the channel as Update's conversations.info returned it
    chan,     \* chan[c]: the channel c in Slack
    madeFor,  \* madeFor[c]: the resource whose Create made c
    acked,    \* the channels whose creation reached the provider
    drift

slackVars == <<chan, madeFor, acked, drift>>
vars == <<mrVars, step, snap, slackVars>>

-----------------------------------------------------------------------------
(* Slack *)

\* Slack shows a URL in a topic or purpose as <target> or <target|text>.
Shown(t) == [text |-> t, linked |-> t \in UrlTexts]

\* The controller compares with the target, which is the text only of a full URL.
stripSlackAutoLinks(v) == IF v.linked THEN LinkTarget[v.text] ELSE v.text

Channel == [state : {"unused", "live", "archived", "deleted"},
            name : Names \cup {NoName}, private : BOOLEAN,
            topic : [text : Texts, linked : BOOLEAN],
            purpose : [text : Texts, linked : BOOLEAN]]

NoChannel == [state |-> "unused", name |-> NoName, private |-> FALSE,
              topic |-> Shown(Empty), purpose |-> Shown(Empty)]

Live(c) == chan[c].state = "live"

\* An archived channel keeps its name.
Taken(n) == \E c \in Channels : chan[c].name = n

isChannelID(e) == e \in Channels

\* conversations.list shows archived channels, but no private ones: the client
\* asks for no types.  The scan over its pages is one step.
Listed(n) == {c \in Channels : chan[c].name = n /\ ~chan[c].private}

\* conversations.create: Slack makes channel c for m.
Make(c, m, n, p) ==
    /\ chan[c].state = "unused" /\ ~Taken(n)
    /\ chan' = [chan EXCEPT ![c] = [NoChannel EXCEPT !.state = "live", !.name = n, !.private = p]]
    /\ madeFor' = [madeFor EXCEPT ![c] = m]

\* A channel that is archived or deleted is nobody's any more.
Retire(c, r) ==
    /\ chan' = [chan EXCEPT ![c] = r]
    /\ madeFor' = [madeFor EXCEPT ![c] = NoMR]
    /\ acked' = acked \ {c}

\* A call that would turn c into r succeeds.
Changes(c, r) == Live(c) /\ chan' = [chan EXCEPT ![c] = r] /\ UNCHANGED faults

\* It is refused (is_archived, channel_not_found), fails, or loses its reply.
ChangeFails(c, r) ==
    \/ ~Live(c) /\ UNCHANGED <<chan, faults>>
    \/ Fault /\ (UNCHANGED chan \/ (Live(c) /\ chan' = [chan EXCEPT ![c] = r]))

\* Slip: a text that is not given stays so.
ptrValue(t) == t

\* A topic or purpose that is not given is the empty one.
ptrValueOrEmpty(t) == IF t = Nil THEN Empty ELSE t

isUpToDate(s, ch) ==
    /\ s.name = ch.name
    /\ ptrValueOrEmpty(s.topic) = stripSlackAutoLinks(ch.topic)
    /\ ptrValueOrEmpty(s.purpose) = stripSlackAutoLinks(ch.purpose)

-----------------------------------------------------------------------------
(* Control inside a phase *)

\* The first call of each phase; the other phases make none.
FirstStep(p) == CASE p = "observe" -> "connect"
                  [] p = "create"  -> "create"
                  [] p = "update"  -> "join"
                  [] p = "delete"  -> "archive"
                  [] OTHER         -> "none"

Steps == {"none", "connect", "find", "info", "create", "adopt", "join",
          "rename", "topic", "purpose", "archive"}

At(w, p, s) == pc[w] = p /\ step[w] = s

\* w goes on to call s of the same phase.
Goto(w, s) == step' = [step EXCEPT ![w] = s] /\ UNCHANGED snap

\* w enters the phase pc' says.
NextPhase(w) ==
    /\ step' = [step EXCEPT ![w] = FirstStep(pc'[w])]
    /\ snap' = [snap EXCEPT ![w] = NoChannel]

Stay == UNCHANGED mrVars

-----------------------------------------------------------------------------
(* Connect and Observe *)

\* Slip: the external name is always taken for a channel's name.
ConnectByName(w) ==
    /\ At(w, "observe", "connect")
    /\ \/ Goto(w, "find") /\ Stay
       \/ Fault /\ ObserveAnswers(w, "error", mg[w]) /\ NextPhase(w)
    /\ UNCHANGED slackVars

\* Connect tracks the ProviderConfig, reads it and the Secret, and checks the
\* token; each may fail.  Initialize has run, so the external name is set, and
\* Observe first resolves it to an ID if it is a channel's name.
Connect(w) ==
    /\ At(w, "observe", "connect")
    /\ \/ /\ Goto(w, IF isChannelID(mg[w].ext) THEN "info" ELSE "find")
          /\ Stay
       \/ Fault /\ ObserveAnswers(w, "error", mg[w]) /\ NextPhase(w)
    /\ UNCHANGED slackVars

FindConversationByName(w) ==
    /\ At(w, "observe", "find")
    /\ \/ \E c \in Listed(mg[w].ext) :
             NameInObserve(w, c) /\ Goto(w, "info") /\ UNCHANGED faults
       \/ /\ Listed(mg[w].ext) = {}
          /\ ObserveAnswers(w, "missing", mg[w]) /\ NextPhase(w) /\ UNCHANGED faults
       \/ Fault /\ ObserveAnswers(w, "error", mg[w]) /\ NextPhase(w)
    /\ UNCHANGED slackVars

\* Slip: any error of conversations.info counts as absence.
InfoErrorIsMissing(w) ==
    /\ At(w, "observe", "info")
    /\ LET ch == chan[mg[w].ext] IN
       \/ ObserveAnswers(w, "missing", mg[w]) /\ (Fault \/ (~Live(mg[w].ext) /\ UNCHANGED faults))
       \/ /\ Live(mg[w].ext)
          /\ ObserveAnswers(w, IF isUpToDate(mg[w].spec, ch) THEN "uptodate" ELSE "drifted", mg[w])
          /\ UNCHANGED faults
    /\ NextPhase(w)
    /\ UNCHANGED slackVars

\* Slip: an archived channel counts as present.
InfoIgnoresArchived(w) ==
    /\ At(w, "observe", "info")
    /\ LET ch == chan[mg[w].ext] IN
       \/ /\ ch.state \in {"unused", "deleted"}
          /\ ObserveAnswers(w, "missing", [mg[w] EXCEPT !.synced = "NotFound"])
          /\ UNCHANGED faults
       \/ /\ ch.state \in {"live", "archived"}
          /\ ObserveAnswers(w, IF isUpToDate(mg[w].spec, ch) THEN "uptodate" ELSE "drifted", mg[w])
          /\ UNCHANGED faults
       \/ Fault /\ ObserveAnswers(w, "error", mg[w])
    /\ NextPhase(w)
    /\ UNCHANGED slackVars

\* An archived channel counts as absent.
GetConversationInfo(w) ==
    /\ At(w, "observe", "info")
    /\ LET ch == chan[mg[w].ext] IN
       \/ /\ ch.state \in {"unused", "deleted"}
          /\ ObserveAnswers(w, "missing", [mg[w] EXCEPT !.synced = "NotFound"])
          /\ UNCHANGED faults
       \/ /\ ch.state = "archived"
          /\ ObserveAnswers(w, "missing", mg[w]) /\ UNCHANGED faults
       \/ /\ ch.state = "live"
          /\ ObserveAnswers(w, IF isUpToDate(mg[w].spec, ch) THEN "uptodate" ELSE "drifted", mg[w])
          /\ UNCHANGED faults
       \/ Fault /\ ObserveAnswers(w, "error", mg[w])
    /\ NextPhase(w)
    /\ UNCHANGED slackVars

-----------------------------------------------------------------------------
(* Create *)

\* Slip: a Create that fails late does not name the channel it made.
CreateFailsUnnamed(w, r) ==
    /\ CreateReturns(w, FALSE, [mg[w] EXCEPT !.synced = r, !.ext = MetaName[cur[w]]])
    /\ NextPhase(w)

CreateFails(w, r) == CreateReturns(w, FALSE, [mg[w] EXCEPT !.synced = r]) /\ NextPhase(w)

\* Create goes on after the calls before s: it sets a topic and a purpose only
\* if the spec has them.
GoOnCreate(w, c, s) ==
    IF s = "topic" /\ ptrValueOrEmpty(mg[w].spec.topic) # Empty
    THEN NameInCreate(w, c) /\ Goto(w, "topic")
    ELSE IF ptrValueOrEmpty(mg[w].spec.purpose) # Empty
    THEN NameInCreate(w, c) /\ Goto(w, "purpose")
    ELSE CreateReturns(w, TRUE, [mg[w] EXCEPT !.ext = c]) /\ NextPhase(w)

\* The ID is kept in the working copy before the topic and purpose are set.
CreateConversation(w) ==
    /\ At(w, "create", "create")
    /\ LET s == mg[w].spec IN
       \/ \E c \in Channels :
             /\ Make(c, cur[w], s.name, s.private)
             /\ acked' = acked \cup {c}
             /\ GoOnCreate(w, c, "topic")
             /\ UNCHANGED faults
       \/ /\ Taken(s.name)
          /\ Goto(w, "adopt") /\ Stay /\ UNCHANGED <<chan, madeFor, acked>>
       \/ /\ Fault /\ CreateFails(w, mg[w].synced)
          /\ UNCHANGED acked
          /\ \/ \E c \in Channels : Make(c, cur[w], s.name, s.private)
             \/ UNCHANGED <<chan, madeFor>>
    /\ UNCHANGED drift

\* After name_taken: take the channel of that name, if it can be found.
AdoptTaken(w) ==
    /\ At(w, "create", "adopt")
    /\ LET found == Listed(mg[w].spec.name) IN
       \/ \E c \in found :
             /\ CreateReturns(w, TRUE, [mg[w] EXCEPT !.ext = c]) /\ NextPhase(w)
             /\ UNCHANGED faults
       \/ found = {} /\ CreateFails(w, "NameConflict") /\ UNCHANGED faults
       \/ Fault /\ CreateFails(w, "NameConflict")
    /\ UNCHANGED slackVars

SetTopicInCreate(w) ==
    /\ At(w, "create", "topic")
    /\ LET c == mg[w].ext
           r == [chan[c] EXCEPT !.topic = Shown(ptrValueOrEmpty(mg[w].spec.topic))]
       IN  \/ Changes(c, r) /\ GoOnCreate(w, c, "purpose")
           \/ ChangeFails(c, r) /\ CreateFails(w, mg[w].synced)
    /\ UNCHANGED <<madeFor, acked, drift>>

SetPurposeInCreate(w) ==
    /\ At(w, "create", "purpose")
    /\ LET c == mg[w].ext
           r == [chan[c] EXCEPT !.purpose = Shown(ptrValueOrEmpty(mg[w].spec.purpose))]
       IN  \/ Changes(c, r) /\ CreateReturns(w, TRUE, mg[w]) /\ NextPhase(w)
           \/ ChangeFails(c, r) /\ CreateFails(w, mg[w].synced)
    /\ UNCHANGED <<madeFor, acked, drift>>

-----------------------------------------------------------------------------
(* Update *)

UpdateReturns(w, ok) == CallReturns(w, ok) /\ NextPhase(w)

\* Slip: a topic that is not given is left as it is, though Observe compares it.
TodoGivenOnly(w, ch) == {s \in {"rename", "topic", "purpose"} :
    \/ s = "rename"  /\ mg[w].spec.name # ch.name
    \/ s = "topic"   /\ mg[w].spec.topic \notin {Nil, stripSlackAutoLinks(ch.topic)}
    \/ s = "purpose" /\ mg[w].spec.purpose \notin {Nil, stripSlackAutoLinks(ch.purpose)}}

\* What Update still has to do, decided on the one snapshot ch of the channel.
Todo(w, ch) == {s \in {"rename", "topic", "purpose"} :
    \/ s = "rename"  /\ mg[w].spec.name # ch.name
    \/ s = "topic"   /\ ptrValueOrEmpty(mg[w].spec.topic) # stripSlackAutoLinks(ch.topic)
    \/ s = "purpose" /\ ptrValueOrEmpty(mg[w].spec.purpose) # stripSlackAutoLinks(ch.purpose)}

\* Update goes on to the first of the calls in ss, in the order of the code.
GoOnUpdate(w, ch, ss) ==
    IF ss = {} THEN UpdateReturns(w, TRUE)
    ELSE /\ step' = [step EXCEPT ![w] = CASE "rename" \in ss -> "rename"
                                          [] "topic" \in ss -> "topic"
                                          [] OTHER -> "purpose"]
         /\ snap' = [snap EXCEPT ![w] = ch]
         /\ Stay

\* conversations.join is refused for a private or an archived channel.
JoinConversation(w) ==
    /\ At(w, "update", "join")
    /\ LET ch == chan[mg[w].ext]
           joinable == ch.state = "live" /\ ~ch.private
       IN  \/ joinable /\ Goto(w, "info") /\ Stay
           \/ ~joinable /\ UpdateReturns(w, FALSE) /\ UNCHANGED faults
           \/ Fault /\ UpdateReturns(w, FALSE)
    /\ UNCHANGED slackVars

\* conversations.info answers for an archived channel too.
InfoForUpdate(w) ==
    /\ At(w, "update", "info")
    /\ LET ch == chan[mg[w].ext] IN
       \/ /\ ch.state \in {"live", "archived"}
          /\ GoOnUpdate(w, ch, Todo(w, ch)) /\ UNCHANGED faults
       \/ ch.state \in {"unused", "deleted"} /\ UpdateReturns(w, FALSE) /\ UNCHANGED faults
       \/ Fault /\ UpdateReturns(w, FALSE)
    /\ UNCHANGED slackVars

\* conversations.rename is refused for a name that is taken.
RenameConversation(w) ==
    /\ At(w, "update", "rename")
    /\ LET c == mg[w].ext
           n == mg[w].spec.name
           r == [chan[c] EXCEPT !.name = n]
           free == ~ \E d \in Channels \ {c} : chan[d].name = n
       IN  \/ /\ free /\ Changes(c, r)
              /\ GoOnUpdate(w, snap[w], Todo(w, snap[w]) \ {"rename"})
           \/ free /\ ChangeFails(c, r) /\ UpdateReturns(w, FALSE)
           \/ ~free /\ UpdateReturns(w, FALSE) /\ UNCHANGED <<chan, faults>>
    /\ UNCHANGED <<madeFor, acked, drift>>

SetConversationTopic(w) ==
    /\ At(w, "update", "topic")
    /\ LET c == mg[w].ext
           r == [chan[c] EXCEPT !.topic = Shown(ptrValueOrEmpty(mg[w].spec.topic))]
       IN  \/ /\ Changes(c, r)
              /\ GoOnUpdate(w, snap[w], Todo(w, snap[w]) \ {"rename", "topic"})
           \/ ChangeFails(c, r) /\ UpdateReturns(w, FALSE)
    /\ UNCHANGED <<madeFor, acked, drift>>

\* Slip: the topic is written as the purpose.
PurposeFromTopic(w) ==
    /\ At(w, "update", "purpose")
    /\ LET c == mg[w].ext
           r == [chan[c] EXCEPT !.purpose = Shown(ptrValueOrEmpty(mg[w].spec.topic))]
       IN  \/ Changes(c, r) /\ UpdateReturns(w, TRUE)
           \/ ChangeFails(c, r) /\ UpdateReturns(w, FALSE)
    /\ UNCHANGED <<madeFor, acked, drift>>

SetConversationPurpose(w) ==
    /\ At(w, "update", "purpose")
    /\ LET c == mg[w].ext
           r == [chan[c] EXCEPT !.purpose = Shown(ptrValueOrEmpty(mg[w].spec.purpose))]
       IN  \/ Changes(c, r) /\ UpdateReturns(w, TRUE)
           \/ ChangeFails(c, r) /\ UpdateReturns(w, FALSE)
    /\ UNCHANGED <<madeFor, acked, drift>>

-----------------------------------------------------------------------------
(* Delete *)

\* Only channel_not_found counts as done; already_archived is an error.
ArchiveConversation(w) ==
    /\ At(w, "delete", "archive")
    /\ LET c == mg[w].ext
           r == [chan[c] EXCEPT !.state = "archived"]
           same == UNCHANGED <<chan, madeFor, acked>>
       IN  \/ Live(c) /\ Retire(c, r) /\ UpdateReturns(w, TRUE) /\ UNCHANGED faults
           \/ /\ chan[c].state \in {"unused", "deleted"}
              /\ UpdateReturns(w, TRUE) /\ same /\ UNCHANGED faults
           \/ chan[c].state = "archived" /\ UpdateReturns(w, FALSE) /\ same /\ UNCHANGED faults
           \/ Fault /\ UpdateReturns(w, FALSE) /\ (same \/ (Live(c) /\ Retire(c, r)))
    /\ UNCHANGED drift

-----------------------------------------------------------------------------
(* Users of Slack *)

Drift == drift < MaxDrift /\ drift' = drift + 1

SlackUserCreates(c, n, p) ==
    /\ Drift /\ Make(c, NoMR, n, p)
    /\ UNCHANGED <<mrVars, step, snap, acked>>

SlackUserChanges(c) ==
    /\ Drift /\ Live(c)
    /\ \/ \E n \in Names : ~Taken(n) /\ chan' = [chan EXCEPT ![c].name = n]
       \/ \E t \in Texts : chan' = [chan EXCEPT ![c].topic = Shown(t)]
       \/ \E t \in Texts : chan' = [chan EXCEPT ![c].purpose = Shown(t)]
    /\ UNCHANGED <<mrVars, step, snap, madeFor, acked>>

SlackUserRetires(c) ==
    /\ Drift /\ chan[c].state \in {"live", "archived"}
    /\ \/ Live(c) /\ Retire(c, [chan[c] EXCEPT !.state = "archived"])
       \/ Retire(c, [NoChannel EXCEPT !.state = "deleted"])
    /\ UNCHANGED <<mrVars, step, snap>>

SlackUserRestores(c) ==
    /\ Drift /\ chan[c].state = "archived"
    /\ chan' = [chan EXCEPT ![c].state = "live"]
    /\ UNCHANGED <<mrVars, step, snap, madeFor, acked>>

-----------------------------------------------------------------------------
(* The specification *)

Init ==
    /\ MRInit
    /\ step = [w \in Workers |-> "none"]
    /\ snap = [w \in Workers |-> NoChannel]
    /\ chan = [c \in Channels |-> NoChannel]
    /\ madeFor = [c \in Channels |-> NoMR]
    /\ acked = {}
    /\ drift = 0

Runtime(w) == RuntimeStep(w) /\ NextPhase(w) /\ UNCHANGED slackVars

Observe(w) == Connect(w) \/ FindConversationByName(w) \/ GetConversationInfo(w)

Create(w) == \/ CreateConversation(w) \/ AdoptTaken(w)
             \/ SetTopicInCreate(w) \/ SetPurposeInCreate(w)

Update(w) == \/ JoinConversation(w) \/ InfoForUpdate(w) \/ RenameConversation(w)
             \/ SetConversationTopic(w) \/ SetConversationPurpose(w)

Reconcile(w) == Runtime(w) \/ Observe(w) \/ Create(w) \/ Update(w) \/ ArchiveConversation(w)

\* A user imports a channel by its ID, or lets the provider name it.
Imports == {NoExt} \cup {c \in Channels : Live(c)}

Users ==
    \/ /\ \/ \E m \in MRs : UserDeletes(m) \/ \E s \in Specs : UserEdits(m, s)
          \/ \E m \in MRs, s \in Specs, e \in Imports : UserCreates(m, s, e)
       /\ UNCHANGED <<step, snap, slackVars>>
    \/ \E c \in Channels :
          \/ \E n \in Names, p \in BOOLEAN : SlackUserCreates(c, n, p)
          \/ SlackUserChanges(c) \/ SlackUserRetires(c) \/ SlackUserRestores(c)

Informer(w, m) == CacheSync(w, m) /\ UNCHANGED <<step, snap, slackVars>>
Dies(w) == Crash(w) /\ NextPhase(w) /\ UNCHANGED slackVars

Next == \/ Users
        \/ \E w \in Workers : Reconcile(w) \/ Dies(w) \/ \E m \in MRs : Informer(w, m)

Spec == Init /\ [][Next]_vars

\* A worker goes on with the reconcile it is in, its informer catches up, and
\* the queue hands it every resource again and again (poll interval, requeues).
Fairness == \A w \in Workers :
    /\ WF_vars(Reconcile(w) /\ pc[w] # "idle")
    /\ \A m \in MRs : /\ WF_vars(Informer(w, m))
                      /\ SF_vars(Runtime(w) /\ pc[w] = "idle" /\ cur'[w] = m)

FairSpec == Spec /\ Fairness
=============================================================================
