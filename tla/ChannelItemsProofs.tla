--------------------------- MODULE ChannelItemsProofs ---------------------------
(***************************************************************************)
(* The controllers of bookmarks, pins and members run inside the reconcile *)
(* loop, keep their types, create under its lease and let no item go that  *)
(* is still in Slack, for every number of replicas, resources, channels    *)
(* and items and every bound on failures.                                  *)
(***************************************************************************)
EXTENDS ChannelItems, ManagedReconcilerProofs

-----------------------------------------------------------------------------
(* The inductive invariant *)

\* What an object that is there specifies is of the kind of its controller.
Fits(m, o) == o.exists => o.spec \in SpecsFor(kind[m])

\* A worker works on a spec of the right kind, and only a bookmark is ever found
\* to have drifted.
WorksOn(w) ==
    /\ pc[w] \notin {"idle", "status"} => mg[w].spec \in SpecsFor(kind[cur[w]])
    /\ pc[w] = "update" => kind[cur[w]] = "bookmark"
    /\ pc[w] = "finalize" /\ obs[w] = "drifted" => kind[cur[w]] = "bookmark"

\* Before it joins and invites, a worker has resolved the channel and the user.
Resolved(w) ==
    step[w] \in {"join", "invite"} => target[w] \in (Channels \cup Convs \cup {NoExt}) \X People

SpecInv == /\ \A m \in MRs : Fits(m, api[m])
           /\ \A w \in Workers, m \in MRs : Fits(m, cache[w][m])

SlackOK == ItemsOK /\ OthersOK

ItemInv == /\ MRTypeOK /\ PhaseOK /\ SlackOK /\ SpecInv
           /\ \A w \in Workers : WorksOn(w) /\ Resolved(w)

-----------------------------------------------------------------------------
(* Specs and names *)

LEMMA NamesShape ==
    Pins \subseteq ExtNames /\ Memberships \subseteq ExtNames /\ BookmarkNames \subseteq ExtNames
<1>1. \A k \in Kinds : NamesOf(k) \subseteq ExtNames
  BY ItemAssumption
<1> QED BY <1>1 DEF Kinds, NamesOf

LEMMA SpecShape ==
    /\ \A s \in BookmarkSpecs : s.conv \in Channels \cup Convs /\ s.body \in Links
    /\ \A s \in PinSpecs : s.conv \in Channels \cup Convs /\ s.body \in Messages
    /\ \A s \in MemberSpecs : s.conv \in Channels \cup Convs /\ s.body \in People \cup Emails
<1>1. \A s \in Specs : s \in [conv : Channels \cup Convs, body : Links \cup Messages \cup People \cup Emails]
  BY ItemAssumption
<1> QED BY <1>1 DEF BookmarkSpecs, PinSpecs, MemberSpecs

\* The spec of a worker that calls Slack is of its controller's kind.
LEMMA WorkingSpec ==
    ASSUME ItemInv, NEW w \in Workers, pc[w] \notin {"idle", "status"}
    PROVE  /\ kind[cur[w]] = "bookmark" => mg[w].spec \in BookmarkSpecs
           /\ kind[cur[w]] = "pin" => mg[w].spec \in PinSpecs
           /\ kind[cur[w]] = "member" => mg[w].spec \in MemberSpecs
           /\ cur[w] \in MRs /\ mg[w] \in Object
<1>1. mg[w].spec \in SpecsFor(kind[cur[w]]) /\ cur[w] \in MRs /\ mg[w] \in Object
  BY DEF ItemInv, MRTypeOK, WorkerOK, WorksOn
<1> QED BY <1>1 DEF SpecsFor

LEMMA ChannelType ==
    ASSUME OthersOK, NEW s, s.conv \in Channels \cup Convs
    PROVE  ChannelOf(s) \in Channels \cup Convs \cup {NoExt, Gone}
  BY DEF OthersOK, ChannelOf

-----------------------------------------------------------------------------
(* What a call does to the loop *)

\* What a call may have made of w's copy.
Said(w, c) == \/ c = mg[w]
              \/ \E e \in ExtNames : c = [mg[w] EXCEPT !.ext = e]
              \/ \E r \in ConditionReasons : c = [mg[w] EXCEPT !.synced = r]

\* w's call returns.
Returns(w, c) ==
    \/ \E o \in Observations : ObserveAnswers(w, o, c) /\ (o = "drifted" => kind[cur[w]] = "bookmark")
    \/ \E ok \in BOOLEAN : CreateReturns(w, ok, c)
    \/ \E ok \in BOOLEAN : CallReturns(w, ok) /\ c = mg[w]

\* What a step of w in a call of a controller does, apart from Slack.
CallMoves(w) ==
    /\ ControllerStep(w) \/ UNCHANGED mrVars
    /\ UNCHANGED <<api, cache, kind>>
    /\ WorksOn(w)'

LEMMA EnterWorks ==
    ASSUME ItemInv, NEW w \in Workers, NEW m, NEW o, NEW p, Enter(w, m, o, p), UNCHANGED kind,
           p \notin {"idle", "status"} => o.spec \in SpecsFor(kind[m]),
           p = "update" => kind[m] = "bookmark"
    PROVE  WorksOn(w)'
<1>1. pc'[w] = p /\ cur'[w] = m /\ mg'[w] = o /\ obs'[w] = "error"
  BY DEF ItemInv, MRTypeOK, WorkerOK, Enter
<1> QED BY <1>1 DEF WorksOn

LEMMA ReturnMoves ==
    ASSUME ItemInv, NEW w \in Workers, NEW c, Said(w, c), Returns(w, c), UNCHANGED kind,
           UNCHANGED faults \/ Fault
    PROVE  CallMoves(w)
<1>0. /\ MRTypeOK /\ mg[w] \in Object /\ WorksOn(w)
      /\ pc[w] \in {"observe", "create", "update", "delete"}
  BY DEF ItemInv, MRTypeOK, WorkerOK, Returns, ObserveAnswers, CreateReturns, CallReturns
<1>1. c.spec = mg[w].spec /\ \A s : [c EXCEPT !.create = s].spec = c.spec
  BY <1>0 DEF Said, Object
<1>2. mg[w].spec \in SpecsFor(kind[cur[w]])
  BY <1>0 DEF WorksOn
<1>3. ControllerStep(w)
  <2>1. CASE \E ok \in BOOLEAN : CallReturns(w, ok)
    BY <2>1 DEF ControllerStep
  <2>2. CASE \/ \E o \in Observations : ObserveAnswers(w, o, c)
             \/ \E ok \in BOOLEAN : CreateReturns(w, ok, c)
    BY <1>0, <2>2, AnswerIsStep DEF Said
  <2> QED BY <2>1, <2>2 DEF Returns
<1>4. WorksOn(w)'
  <2>1. ASSUME NEW o, NEW p, Enter(w, cur[w], o, p), o.spec = mg[w].spec \/ p = "status",
               p = "update" => kind[cur[w]] = "bookmark"
        PROVE  WorksOn(w)'
    BY <1>2, <2>1, EnterWorks
  <2>2. ASSUME NEW o \in Observations, ObserveAnswers(w, o, c), o = "drifted" => kind[cur[w]] = "bookmark"
        PROVE  WorksOn(w)'
    <3>1. CASE Report(w, c, "ReconcileError") \/ Report(w, c, "ReconcileSuccess")
      BY <2>1, <3>1 DEF Report
    <3>2. CASE Enter(w, cur[w], c, "unfinalize") \/ Enter(w, cur[w], c, "delete")
               \/ Enter(w, cur[w], c, "pending")
      BY <1>1, <2>1, <3>2
    <3>3. CASE o = "drifted" /\ Enter(w, cur[w], c, "update")
      BY <1>1, <2>1, <2>2, <3>3
    <3>4. CASE /\ pc' = [pc EXCEPT ![w] = "finalize"] /\ mg' = [mg EXCEPT ![w] = c]
               /\ obs' = [obs EXCEPT ![w] = o] /\ UNCHANGED cur
      <4>1. pc'[w] = "finalize" /\ mg'[w] = c /\ obs'[w] = o /\ cur'[w] = cur[w]
        BY <3>4 DEF ItemInv, MRTypeOK, WorkerOK
      <4> QED BY <1>1, <1>2, <2>2, <4>1 DEF WorksOn
    <3> QED BY <2>2, <3>1, <3>2, <3>3, <3>4 DEF ObserveAnswers, Decide
  <2>3. ASSUME NEW ok, CreateReturns(w, ok, c) PROVE WorksOn(w)'
    BY <1>1, <2>1, <2>3 DEF CreateReturns
  <2>4. ASSUME NEW ok, CallReturns(w, ok) PROVE WorksOn(w)'
    BY <2>1, <2>4 DEF CallReturns, Report
  <2> QED BY <2>2, <2>3, <2>4 DEF Returns
<1>5. UNCHANGED <<api, cache>>
  BY DEF Returns, ObserveAnswers, CreateReturns, CallReturns, Calls
<1> QED BY <1>3, <1>4, <1>5 DEF CallMoves

LEMMA GotoMoves ==
    ASSUME ItemInv, NEW w \in Workers, NEW s, Goto(w, s)
    PROVE  CallMoves(w)
<1>1. WorksOn(w) /\ UNCHANGED <<pc, cur, mg, obs, kind>>
  BY DEF ItemInv, Goto, mrVars
<1> QED BY <1>1 DEF CallMoves, Goto, mrVars, WorksOn

\* The phase that follows starts with its first step, which is no join.
LEMMA PhaseType ==
    ASSUME ItemInv, NEW w \in Workers, NEW ws \in SUBSET Workers, PhaseWith(w, ws)
    PROVE  PhaseOK' /\ (\A v \in Workers : Resolved(v)') /\ UNCHANGED kind
<1> DEFINE s == FirstStep(pc'[w], IF cur[w] \in MRs THEN kind[cur[w]] ELSE "pin")
<1>1. s \in Steps \ {"join", "invite"} /\ step' = [step EXCEPT ![w] = s]
  BY DEF FirstStep, Steps, PhaseWith
<1> HIDE DEF s
<1>2. PhaseOK'
  BY <1>1 DEF ItemInv, PhaseOK, PhaseWith
<1>3. ASSUME NEW v \in Workers PROVE Resolved(v)'
  <2>1. Resolved(v) /\ step \in [Workers -> Steps]
        /\ target \in [Workers -> ((Channels \cup Convs \cup {NoExt}) \X People) \cup {NoItem}]
    BY DEF ItemInv, PhaseOK
  <2>2. CASE v = w
    BY <1>1, <2>1, <2>2 DEF Resolved
  <2>3. CASE v # w
    BY <1>1, <2>1, <2>3 DEF Resolved, PhaseWith
  <2> QED BY <2>2, <2>3
<1> QED BY <1>2, <1>3 DEF PhaseWith

\* What a step of w in a call does as a whole.
CallKeeps(w) == CallMoves(w) /\ PhaseOK' /\ SlackOK' /\ \A v \in Workers : Resolved(v)'

LEMMA AnswerKeeps ==
    ASSUME ItemInv, NEW w \in Workers, NEW c, Said(w, c), NEW o \in Observations,
           Answer(w, o, c) \/ (o = "missing" /\ NoChannelToAsk(w, c)),
           o = "drifted" => kind[cur[w]] = "bookmark",
           UNCHANGED faults \/ Fault, SlackOK'
    PROVE  CallKeeps(w)
<1>1. \E ws \in SUBSET Workers : PhaseWith(w, ws)
  BY DEF Answer, NextPhase, NoChannelToAsk
<1>2. Returns(w, c)
  BY DEF Returns, Answer, NoChannelToAsk
<1> QED BY <1>1, <1>2, PhaseType, ReturnMoves DEF CallKeeps

LEMMA EndKeeps ==
    ASSUME ItemInv, NEW w \in Workers, UNCHANGED faults \/ Fault, SlackOK',
           \/ \E e \in ExtNames : Created(w, e) \/ CreatedUnheard(w, e)
           \/ \E r \in ConditionReasons \cup {mg[w].synced} : CreateFails(w, r)
           \/ \E ok \in BOOLEAN : CallEnds(w, ok)
    PROVE  CallKeeps(w)
<1>0. (\E ws \in SUBSET Workers : PhaseWith(w, ws)) /\ mg[w] \in Object
  BY DEF Created, CreatedUnheard, CreateFails, CallEnds, NextPhase, Recording, ItemInv, MRTypeOK, WorkerOK
<1>1. [mg[w] EXCEPT !.synced = mg[w].synced] = mg[w]
  BY <1>0 DEF Object
<1>2. \E c : Said(w, c) /\ Returns(w, c)
  <2>1. CASE \E e \in ExtNames : Created(w, e) \/ CreatedUnheard(w, e)
    BY <2>1 DEF Said, Returns, Created, CreatedUnheard
  <2>2. CASE \E r \in ConditionReasons \cup {mg[w].synced} : CreateFails(w, r)
    <3>1. PICK r \in ConditionReasons \cup {mg[w].synced} : CreateFails(w, r)
      BY <2>2
    <3>2. Said(w, [mg[w] EXCEPT !.synced = r])
      BY <1>1, <3>1 DEF Said
    <3> QED BY <3>1, <3>2 DEF Returns, CreateFails
  <2>3. CASE \E ok \in BOOLEAN : CallEnds(w, ok)
    BY <2>3 DEF Said, Returns, CallEnds
  <2> QED BY <2>1, <2>2, <2>3
<1> QED BY <1>0, <1>2, PhaseType, ReturnMoves DEF CallKeeps

LEMMA QuietSlack == SlackOK /\ UNCHANGED slackVars => SlackOK'
  BY DEF SlackOK, ItemsOK, OthersOK, slackVars, itemVars

LEMMA ConnectKeeps ==
    ASSUME ItemInv, NEW w \in Workers, NEW k, ConnectAs(w, k)
    PROVE  CallKeeps(w)
<1>1. SlackOK'
  BY QuietSlack DEF ItemInv, ConnectAs
<1>2. CASE Goto(w, "list") /\ UNCHANGED target
  <2>1. PhaseOK' /\ \A v \in Workers : Resolved(v)'
    BY <1>2 DEF ItemInv, PhaseOK, Resolved, Goto, Steps
  <2> QED BY <1>1, <1>2, <2>1, GotoMoves DEF CallKeeps
<1>3. CASE Fault /\ Answer(w, "error", mg[w])
  BY <1>1, <1>3, AnswerKeeps DEF Observations, Said
<1> QED BY <1>2, <1>3 DEF ConnectAs

-----------------------------------------------------------------------------
(* The bookmark *)

LEMMA AnUnavailable ==
    ASSUME ItemInv, NEW w \in Workers
    PROVE  Said(w, SaysUnavailable(w)) /\ Said(w, mg[w])
  BY ItemAssumption DEF Said, SaysUnavailable

\* A channel that is available is a channel.
LEMMA Available == \A c : ~isChannelUnavailable(c) => c \in Channels
  BY DEF isChannelUnavailable

LEMMA BookmarkWrites ==
    ASSUME SlackOK, OthersSame, made' \in 0 .. MaxBookmarks,
           NEW r \in [ch : Channels, body : Links] \cup {NoBookmark},
           \A b \in BookmarkIDs : bookmarks'[b] \in {bookmarks[b], r},
           bookmarks' = [b \in BookmarkIDs |-> bookmarks'[b]]
    PROVE  SlackOK'
<1>1. bookmarks' \in [BookmarkIDs -> [ch : Channels, body : Links] \cup {NoBookmark}]
  BY DEF SlackOK, ItemsOK
<1> QED BY <1>1 DEF SlackOK, ItemsOK, OthersOK, OthersSame

LEMMA AddsType ==
    ASSUME ItemInv, NEW w \in Workers, mg[w].spec \in BookmarkSpecs, Adds(w), OthersSame
    PROVE  SlackOK' /\ BookmarkName(made') \in ExtNames
<1> DEFINE r == [ch |-> ResolveConversationID(w), body |-> mg[w].spec.body]
<1>1. r \in [ch : Channels, body : Links]
  BY SpecShape, Available DEF Adds
<1>2. made' \in 0 .. MaxBookmarks /\ made' \in BookmarkIDs /\ SlackOK
  BY ItemAssumption DEF ItemInv, SlackOK, ItemsOK, Adds, BookmarkIDs
<1>3. bookmarks' = [bookmarks EXCEPT ![made'] = r] /\ DOMAIN bookmarks = BookmarkIDs
  BY DEF Adds, ItemInv, SlackOK, ItemsOK
<1> HIDE DEF r
<1>4. /\ \A b \in BookmarkIDs : bookmarks'[b] \in {bookmarks[b], r}
      /\ bookmarks' = [b \in BookmarkIDs |-> bookmarks'[b]]
  BY <1>3
<1>5. SlackOK'
  BY <1>1, <1>2, <1>4, BookmarkWrites
<1> QED BY <1>2, <1>5, NamesShape DEF BookmarkNames

LEMMA PutsType ==
    ASSUME ItemInv, NEW w \in Workers, OthersSame, UNCHANGED made,
           NEW r, Puts(w, r) \/ UNCHANGED bookmarks,
           ~isChannelUnavailable(ResolveConversationID(w))
               => r \in [ch : Channels, body : Links] \cup {NoBookmark}
    PROVE  SlackOK'
<1>0. SlackOK /\ made' \in 0 .. MaxBookmarks
  BY DEF ItemInv, SlackOK, ItemsOK
<1>1. CASE UNCHANGED bookmarks
  BY <1>0, <1>1 DEF SlackOK, ItemsOK, OthersOK, OthersSame
<1>2. CASE Puts(w, r)
  <2>1. r \in [ch : Channels, body : Links] \cup {NoBookmark}
    BY <1>2 DEF Puts
  <2>2. /\ \A b \in BookmarkIDs : bookmarks'[b] \in {bookmarks[b], r}
        /\ bookmarks' = [b \in BookmarkIDs |-> bookmarks'[b]]
    BY <1>2 DEF Puts
  <2> QED BY <1>0, <2>1, <2>2, BookmarkWrites
<1> QED BY <1>1, <1>2

LEMMA BookmarkKeeps ==
    ASSUME ItemInv, NEW w \in Workers, BookmarkStep(w)
    PROVE  CallKeeps(w)
<1>0. /\ pc[w] \notin {"idle", "status"} /\ kind[cur[w]] = "bookmark" /\ mg[w].spec \in BookmarkSpecs
      /\ SlackOK
  <2>1. pc[w] \notin {"idle", "status"} /\ kind[cur[w]] = "bookmark"
    BY DEF BookmarkStep, ConnectBookmark, ConnectAs, ObserveBookmark, CreateBookmark, UpdateBookmark,
           DeleteBookmark, For, At
  <2> QED BY <2>1, WorkingSpec DEF ItemInv
<1>1. CASE ConnectBookmark(w)
  BY <1>1, ConnectKeeps DEF ConnectBookmark
<1>2. CASE ObserveBookmark(w)
  <2>1. SlackOK'
    BY <1>0, <1>2, QuietSlack DEF ObserveBookmark
  <2>2. \E o \in Observations, c \in {mg[w], SaysUnavailable(w)} :
            Answer(w, o, c) \/ (o = "missing" /\ NoChannelToAsk(w, c))
    BY <1>2 DEF ObserveBookmark, Observations
  <2>3. UNCHANGED faults \/ Fault
    BY <1>2 DEF ObserveBookmark
  <2> QED BY <1>0, <2>1, <2>2, <2>3, AnUnavailable, AnswerKeeps
<1>3. CASE CreateBookmark(w)
  <2>1. UNCHANGED <<bookmarks, made>> => SlackOK'
    BY <1>0, <1>3 DEF CreateBookmark, SlackOK, ItemsOK, OthersOK, OthersSame
  <2>2. Adds(w) => SlackOK' /\ BookmarkName(made') \in ExtNames
    BY <1>0, <1>3, AddsType DEF CreateBookmark
  <2>3. /\ UNCHANGED faults \/ Fault
        /\ SlackOK'
        /\ \/ \E e \in ExtNames : Created(w, e)
           \/ \E r \in ConditionReasons \cup {mg[w].synced} : CreateFails(w, r)
    BY <1>3, <2>1, <2>2, ItemAssumption DEF CreateBookmark
  <2> QED BY <2>3, EndKeeps
<1>4. CASE UpdateBookmark(w)
  <2> DEFINE r == [ch |-> ResolveConversationID(w), body |-> mg[w].spec.body]
  <2>1. ~isChannelUnavailable(ResolveConversationID(w)) => r \in [ch : Channels, body : Links]
    BY <1>0, SpecShape, Available
  <2>2. /\ Puts(w, r) \/ UNCHANGED bookmarks
        /\ UNCHANGED made /\ OthersSame /\ (UNCHANGED faults \/ Fault)
        /\ \E ok \in BOOLEAN : CallEnds(w, ok)
    BY <1>4 DEF UpdateBookmark
  <2> HIDE DEF r
  <2>3. SlackOK'
    BY <2>1, <2>2, PutsType
  <2> QED BY <2>2, <2>3, EndKeeps
<1>5. CASE DeleteBookmark(w)
  <2>1. /\ Puts(w, NoBookmark) \/ UNCHANGED bookmarks
        /\ UNCHANGED made /\ OthersSame /\ (UNCHANGED faults \/ Fault)
        /\ \E ok \in BOOLEAN : CallEnds(w, ok)
    BY <1>5 DEF DeleteBookmark
  <2>2. SlackOK'
    BY <2>1, PutsType
  <2> QED BY <2>1, <2>2, EndKeeps
<1> QED BY <1>1, <1>2, <1>3, <1>4, <1>5 DEF BookmarkStep

-----------------------------------------------------------------------------
(* The pin *)

LEMMA PinWrites ==
    ASSUME SlackOK, OnlyPins, pins' \subseteq posts
    PROVE  SlackOK'
  BY DEF SlackOK, ItemsOK, OthersOK, OnlyPins

LEMMA PinKeeps ==
    ASSUME ItemInv, NEW w \in Workers, PinStep(w)
    PROVE  CallKeeps(w)
<1>0. SlackOK /\ pins \subseteq posts /\ posts \subseteq ExtNames
  BY NamesShape DEF ItemInv, SlackOK, ItemsOK
<1>1. CASE ConnectPin(w)
  BY <1>1, ConnectKeeps DEF ConnectPin
<1>2. CASE ObservePin(w)
  <2>1. SlackOK'
    BY <1>0, <1>2, QuietSlack DEF ObservePin
  <2>2. \E o \in Observations \ {"drifted"}, c \in {mg[w], SaysUnavailable(w)} :
            Answer(w, o, c) \/ (o = "missing" /\ NoChannelToAsk(w, c))
    BY <1>2 DEF ObservePin, Observations
  <2>3. UNCHANGED faults \/ Fault
    BY <1>2 DEF ObservePin
  <2> QED BY <2>1, <2>2, <2>3, AnUnavailable, AnswerKeeps
<1>3. CASE CreatePin(w)
  <2>1. AddPin(w) => Wanted(w) \in ExtNames /\ pins' \subseteq posts
    BY <1>0 DEF AddPin
  <2>2. Refusal(w) \in ConditionReasons \cup {mg[w].synced}
    BY ItemAssumption DEF Refusal
  <2>3. /\ UNCHANGED faults \/ Fault
        /\ pins' \subseteq posts /\ OnlyPins
        /\ \/ \E e \in ExtNames : Created(w, e) \/ CreatedUnheard(w, e)
           \/ \E r \in ConditionReasons \cup {mg[w].synced} : CreateFails(w, r)
    BY <1>0, <1>3, <2>1, <2>2 DEF CreatePin
  <2> QED BY <1>0, <2>3, PinWrites, EndKeeps
<1>4. CASE DeletePin(w)
  <2>1. /\ UNCHANGED faults \/ Fault
        /\ pins' \subseteq posts /\ OnlyPins
        /\ \E ok \in BOOLEAN : CallEnds(w, ok)
    BY <1>0, <1>4 DEF DeletePin
  <2> QED BY <1>0, <2>1, PinWrites, EndKeeps
<1> QED BY <1>1, <1>2, <1>3, <1>4 DEF PinStep

-----------------------------------------------------------------------------
(* The member *)

LEMMA MemberWrites ==
    ASSUME SlackOK, OnlyMembers, members' \subseteq Channels \X (People \cup {Bot})
    PROVE  SlackOK'
  BY DEF SlackOK, ItemsOK, OthersOK, OnlyMembers

\* A member is only invited to a channel, once both are resolved.
LEMMA Invited ==
    ASSUME ItemInv, NEW w \in Workers, step[w] = "invite", Admits(target[w])
    PROVE  target[w] \in Memberships
<1>1. target[w] \in (Channels \cup Convs \cup {NoExt}) \X People /\ target[w][1] \in Channels
  BY Available DEF ItemInv, Resolved, Admits
<1> QED BY <1>1 DEF Memberships

LEMMA ResolveKeeps ==
    ASSUME ItemInv, NEW w \in Workers, ResolveInCreate(w)
    PROVE  CallKeeps(w)
<1>0. SlackOK' /\ pc[w] \notin {"idle", "status"} /\ kind[cur[w]] = "member" /\ OthersOK
  BY QuietSlack DEF ItemInv, SlackOK, ResolveInCreate, For, At
<1>1. mg[w].spec.conv \in Channels \cup Convs /\ mg[w].spec.body \in People \cup Emails
  BY <1>0, WorkingSpec, SpecShape
<1>2. CASE \E r \in ConditionReasons \cup {mg[w].synced} : CreateFails(w, r)
  <2>1. UNCHANGED faults \/ Fault
    BY DEF ResolveInCreate
  <2> QED BY <1>0, <1>2, <2>1, EndKeeps
<1>3. CASE /\ ~Unresolved(w) /\ resolveUserID(w) # NoUser
           /\ target' = [target EXCEPT ![w] = <<ResolveConversationID(w), resolveUserID(w)>>]
           /\ Goto(w, "join")
  <2> DEFINE t == <<ResolveConversationID(w), resolveUserID(w)>>
  <2>1. ResolveConversationID(w) \in Channels \cup Convs \cup {NoExt}
    BY <1>0, <1>1, <1>3, ChannelType DEF Unresolved, ResolveConversationID
  <2>2. resolveUserID(w) \in People
    BY <1>0, <1>1, <1>3 DEF resolveUserID, OthersOK
  <2>3. t \in (Channels \cup Convs \cup {NoExt}) \X People
    BY <2>1, <2>2
  <2>4. target' = [target EXCEPT ![w] = t] /\ step' = [step EXCEPT ![w] = "join"]
    BY <1>3 DEF Goto
  <2> HIDE DEF t
  <2>5. PhaseOK' /\ \A v \in Workers : Resolved(v)'
    BY <1>3, <2>3, <2>4 DEF ItemInv, PhaseOK, Resolved, Goto, Steps
  <2> QED BY <1>0, <1>3, <2>5, GotoMoves DEF CallKeeps
<1> QED BY <1>2, <1>3 DEF ResolveInCreate

LEMMA JoinKeeps ==
    ASSUME ItemInv, NEW w \in Workers, JoinAsBot(w)
    PROVE  CallKeeps(w)
<1>1. members' \subseteq Channels \X (People \cup {Bot})
  <2>1. members \subseteq Channels \X (People \cup {Bot})
    BY DEF ItemInv, SlackOK, ItemsOK
  <2>2. ~isChannelUnavailable(target[w][1]) => target[w][1] \in Channels
    BY Available
  <2> QED BY <2>1, <2>2 DEF JoinAsBot, Enters
<1>2. SlackOK'
  BY <1>1, MemberWrites DEF JoinAsBot, ItemInv
<1>3. Goto(w, "invite") /\ UNCHANGED target /\ step[w] = "join"
  BY DEF JoinAsBot, At
<1>4. PhaseOK' /\ \A v \in Workers : Resolved(v)'
  BY <1>3 DEF ItemInv, PhaseOK, Resolved, Goto, Steps
<1> QED BY <1>2, <1>3, <1>4, GotoMoves DEF CallKeeps

LEMMA MemberKeeps ==
    ASSUME ItemInv, NEW w \in Workers, MemberStep(w)
    PROVE  CallKeeps(w)
<1>0. SlackOK /\ members \subseteq Channels \X (People \cup {Bot})
  BY DEF ItemInv, SlackOK, ItemsOK
<1>1. CASE ConnectMember(w)
  BY <1>1, ConnectKeeps DEF ConnectMember
<1>2. CASE ObserveMember(w)
  <2>1. SlackOK'
    BY <1>0, <1>2, QuietSlack DEF ObserveMember
  <2>2. \E o \in Observations \ {"drifted"} : Answer(w, o, mg[w])
    BY <1>2 DEF ObserveMember, Observations
  <2>3. UNCHANGED faults \/ Fault
    BY <1>2 DEF ObserveMember
  <2> QED BY <2>1, <2>2, <2>3, AnUnavailable, AnswerKeeps
<1>3. CASE Invite(w)
  <2>1. Admits(target[w]) => target[w] \in Memberships /\ target[w] \in ExtNames
    BY <1>3, Invited, NamesShape DEF Invite, At
  <2>2. Admits(target[w]) /\ Enters(target[w]) => members' \subseteq Channels \X (People \cup {Bot})
    BY <1>0, <2>1 DEF Enters, Memberships
  <2>3. /\ UNCHANGED faults \/ Fault
        /\ members' \subseteq Channels \X (People \cup {Bot}) /\ OnlyMembers
        /\ \/ \E e \in ExtNames : Created(w, e) \/ CreatedUnheard(w, e)
           \/ \E r \in ConditionReasons \cup {mg[w].synced} : CreateFails(w, r)
    BY <1>0, <1>3, <2>1, <2>2 DEF Invite
  <2> QED BY <1>0, <2>3, MemberWrites, EndKeeps
<1>4. CASE DeleteMember(w)
  <2>1. /\ UNCHANGED faults \/ Fault
        /\ members' \subseteq Channels \X (People \cup {Bot}) /\ OnlyMembers
        /\ \E ok \in BOOLEAN : CallEnds(w, ok)
    BY <1>0, <1>4 DEF DeleteMember
  <2> QED BY <1>0, <2>1, MemberWrites, EndKeeps
<1> QED BY <1>1, <1>2, <1>3, <1>4, ResolveKeeps, JoinKeeps DEF MemberStep

-----------------------------------------------------------------------------
(* The steps of the loop, users and informers *)

\* A write stores an object of the right kind.
LEMMA StoreFits ==
    ASSUME ItemInv, UNCHANGED <<cache, kind>>, NEW m \in MRs, NEW o, o.exists => o.spec \in SpecsFor(kind[m]),
           Store(m, o)
    PROVE  SpecInv'
<1>1. \A n \in MRs : api'[n] = IF n = m THEN o ELSE api[n]
  BY DEF ItemInv, MRTypeOK, ApiOK, Store
<1>2. \A n \in MRs : Fits(n, api[n])'
  BY <1>1 DEF ItemInv, SpecInv, Fits
<1> QED BY <1>2 DEF ItemInv, SpecInv, Fits

LEMMA QuietFits ==
    ASSUME ItemInv, UNCHANGED <<api, cache, kind>>
    PROVE  SpecInv'
  BY DEF ItemInv, SpecInv, Fits

LEMMA RuntimeKeeps ==
    ASSUME ItemInv, NEW w \in Workers, RuntimeStep(w), UNCHANGED kind
    PROVE  WorksOn(w)' /\ SpecInv'
<1>0. /\ mg[w] \in Object /\ WorksOn(w)
      /\ \A m \in MRs : api[m] \in Object /\ cache[w][m] \in Object
      /\ pc[w] # "idle" => cur[w] \in MRs
  BY DEF ItemInv, MRTypeOK, WorkerOK, ApiOK, RestOK
<1>1. ASSUME NEW m, NEW o, NEW p, Enter(w, m, o, p),
             p \notin {"idle", "status"} => o.spec \in SpecsFor(kind[m]),
             p = "update" => kind[m] = "bookmark"
      PROVE  WorksOn(w)'
  BY <1>1, EnterWorks
<1>2. (\E o : Report(w, o, "ReconcileError") \/ Report(w, o, "ReconcileSuccess")) \/ Release(w) => WorksOn(w)'
  BY <1>1 DEF Report, Release
<1>3. WriteFails(w) => WorksOn(w)' /\ UNCHANGED api
  BY <1>2 DEF WriteFails
<1>4. ASSUME NEW m \in MRs, Start(w, m) PROVE WorksOn(w)' /\ SpecInv'
  <2>1. cache[w][m].spec \in SpecsFor(kind[m])
    BY <1>4 DEF ItemInv, SpecInv, Fits, Start
  <2>2. WorksOn(w)'
    BY <1>1, <1>4, <2>1 DEF Start, PassGate
  <2> QED BY <1>4, <2>2, QuietFits DEF Start
<1>5. CASE Initialize(w)
  <2> DEFINE o == [mg[w] EXCEPT !.ext = MetaName[cur[w]]]
  <2>1. o.spec = mg[w].spec /\ o.spec \in SpecsFor(kind[cur[w]]) /\ cur[w] \in MRs /\ UNCHANGED cache
    BY <1>0, <1>5 DEF Object, Initialize, WorksOn
  <2>2. CASE StoreBy(w, o) /\ PassGate(w, cur[w], o)
    <3> HIDE DEF o
    <3>1. WorksOn(w)'
      BY <1>1, <2>1, <2>2 DEF PassGate
    <3> QED BY <2>1, <2>2, <3>1, StoreFits DEF StoreBy
  <2> QED BY <1>3, <1>5, <2>1, <2>2, QuietFits DEF Initialize
<1>6. CASE AddFinalizer(w)
  <2> DEFINE o == [mg[w] EXCEPT !.fin = TRUE, !.synced = api[cur[w]].synced]
  <2>1. o.spec = mg[w].spec /\ o.spec \in SpecsFor(kind[cur[w]]) /\ cur[w] \in MRs /\ UNCHANGED cache
        /\ pc[w] = "finalize"
    BY <1>0, <1>6 DEF Object, AddFinalizer, WorksOn
  <2>2. CASE StoreBy(w, o) /\ Decide(w, obs[w], o)
    <3> HIDE DEF o
    <3>1. WorksOn(w)'
      BY <1>0, <1>1, <1>2, <2>1, <2>2 DEF Decide, WorksOn
    <3> QED BY <2>1, <2>2, <3>1, StoreFits DEF StoreBy
  <2> QED BY <1>3, <1>6, <2>1, <2>2, QuietFits DEF AddFinalizer
<1>7. CASE RemoveFinalizer(w)
  <2>1. cur[w] \in MRs /\ UNCHANGED cache
    BY <1>0, <1>7 DEF RemoveFinalizer
  <2>2. CASE StoreByUser(cur[w], Blank) /\ Release(w)
    BY <1>2, <2>1, <2>2, StoreFits DEF StoreByUser, Blank
  <2> QED BY <1>3, <1>7, <2>1, <2>2, QuietFits DEF RemoveFinalizer
<1>8. CASE CreatePending(w)
  <2> DEFINE o == [mg[w] EXCEPT !.create = "pending", !.synced = api[cur[w]].synced]
  <2>1. o.spec = mg[w].spec /\ o.spec \in SpecsFor(kind[cur[w]]) /\ cur[w] \in MRs /\ UNCHANGED cache
    BY <1>0, <1>8 DEF Object, CreatePending, WorksOn
  <2>2. CASE StoreBy(w, o) /\ Enter(w, cur[w], o, "create")
    <3> HIDE DEF o
    <3>1. WorksOn(w)'
      BY <1>1, <2>1, <2>2
    <3> QED BY <2>1, <2>2, <3>1, StoreFits DEF StoreBy
  <2> QED BY <1>3, <1>8, <2>1, <2>2, QuietFits DEF CreatePending
<1>9. CASE UpdateCritical(w)
  <2> DEFINE o == [api[cur[w]] EXCEPT !.ext = mg[w].ext, !.create = mg[w].create]
  <2>1. /\ cur[w] \in MRs /\ UNCHANGED cache /\ Fits(cur[w], api[cur[w]]) /\ WorksOn(w)'
        /\ o.spec = api[cur[w]].spec /\ o.exists = api[cur[w]].exists
    BY <1>0, <1>2, <1>9 DEF Object, UpdateCritical, ItemInv, SpecInv
  <2>2. CASE StoreBy(w, o)
    <3> HIDE DEF o
    <3> QED BY <2>1, <2>2, StoreFits DEF StoreBy, Fits
  <2> QED BY <1>9, <2>1, <2>2, QuietFits DEF UpdateCritical
<1>10. CASE StatusUpdate(w)
  <2> DEFINE o == [api[cur[w]] EXCEPT !.synced = mg[w].synced]
  <2>1. /\ cur[w] \in MRs /\ UNCHANGED cache /\ Fits(cur[w], api[cur[w]]) /\ WorksOn(w)'
        /\ o.spec = api[cur[w]].spec /\ o.exists = api[cur[w]].exists
    BY <1>0, <1>2, <1>10 DEF Object, StatusUpdate, ItemInv, SpecInv
  <2>2. CASE StoreByUser(cur[w], o)
    <3> HIDE DEF o
    <3> QED BY <2>1, <2>2, StoreFits DEF StoreByUser, Fits
  <2> QED BY <1>10, <2>1, <2>2, QuietFits DEF StatusUpdate
<1> QED BY <1>4, <1>5, <1>6, <1>7, <1>8, <1>9, <1>10 DEF RuntimeStep

LEMMA UsersKeep ==
    ASSUME ItemInv, KubernetesUsers
    PROVE  EnvironmentStep /\ SpecInv' /\ UNCHANGED <<cur, mg, obs, pc>>
<1>1. PICK m \in MRs : \/ UserDeletes(m)
                       \/ \E s \in SpecsFor(kind[m]) :
                             UserEdits(m, s) \/ \E x \in Importable(kind[m]) \cup {NoExt} : UserCreates(m, s, x)
  BY DEF KubernetesUsers
<1>2. UNCHANGED kind /\ api[m] \in Object /\ Fits(m, api[m]) /\ kind[m] \in Kinds
  BY DEF KubernetesUsers, ItemInv, MRTypeOK, ApiOK, SpecInv, PhaseOK
<1>3. SpecsFor(kind[m]) \subseteq Specs /\ Importable(kind[m]) \subseteq ExtNames
  BY <1>2, ItemAssumption DEF SpecsFor, BookmarkSpecs, PinSpecs, MemberSpecs, Importable
<1>4. CASE UserDeletes(m)
  <2> DEFINE o == IF api[m].fin THEN [api[m] EXCEPT !.del = TRUE] ELSE Blank
  <2>1. o.exists => o.spec \in SpecsFor(kind[m])
    BY <1>2, <1>4 DEF Fits, Object, Blank, UserDeletes
  <2>2. Store(m, o) /\ UNCHANGED <<cache, cur, mg, obs, pc>>
    BY <1>4 DEF UserDeletes, StoreByUser, EditOnly
  <2> HIDE DEF o
  <2> QED BY <1>2, <1>4, <2>1, <2>2, StoreFits DEF EnvironmentStep
<1>5. ASSUME NEW s \in SpecsFor(kind[m]), UserEdits(m, s)
      PROVE  EnvironmentStep /\ SpecInv' /\ UNCHANGED <<cur, mg, obs, pc>>
  <2> DEFINE o == [api[m] EXCEPT !.spec = s]
  <2>1. o.spec = s
    BY <1>2 DEF Object
  <2>2. Store(m, o) /\ UNCHANGED <<cache, cur, mg, obs, pc>>
    BY <1>5 DEF UserEdits, StoreByUser, EditOnly
  <2> HIDE DEF o
  <2> QED BY <1>2, <1>3, <1>5, <2>1, <2>2, StoreFits DEF EnvironmentStep
<1>6. ASSUME NEW s \in SpecsFor(kind[m]), NEW x \in Importable(kind[m]) \cup {NoExt}, UserCreates(m, s, x)
      PROVE  EnvironmentStep /\ SpecInv' /\ UNCHANGED <<cur, mg, obs, pc>>
  <2> DEFINE o == [Blank EXCEPT !.exists = TRUE, !.spec = s, !.ext = x]
  <2>1. o.spec = s
    BY DEF Blank
  <2>2. Store(m, o) /\ UNCHANGED <<cache, cur, mg, obs, pc>>
    BY <1>6 DEF UserCreates, StoreByUser, EditOnly
  <2> HIDE DEF o
  <2> QED BY <1>2, <1>3, <1>6, <2>1, <2>2, StoreFits DEF EnvironmentStep
<1> QED BY <1>1, <1>4, <1>5, <1>6

LEMMA InformerKeeps ==
    ASSUME ItemInv, NEW w \in Workers, NEW m \in MRs, Informer(w, m)
    PROVE  EnvironmentStep /\ SpecInv' /\ UNCHANGED <<cur, mg, obs, pc, kind>>
<1>1. EnvironmentStep /\ UNCHANGED <<api, cur, mg, obs, pc, kind>> /\ cache' = [cache EXCEPT ![w][m] = api[m]]
  BY DEF Informer, CacheSync, EnvironmentStep
<1>2. ASSUME NEW v \in Workers, NEW n \in MRs PROVE Fits(n, cache[v][n])'
  <2>1. cache'[v][n] \in {cache[v][n], api[n]}
    BY <1>1 DEF ItemInv, MRTypeOK, RestOK
  <2> QED BY <1>1, <2>1 DEF ItemInv, SpecInv, Fits
<1>3. \A n \in MRs : Fits(n, api[n])'
  BY <1>1 DEF ItemInv, SpecInv, Fits
<1> QED BY <1>1, <1>2, <1>3 DEF SpecInv

\* What others do in Slack and to Conversations.
LEMMA OthersKeep ==
    ASSUME ItemInv, Others
    PROVE  SlackOK' /\ UNCHANGED <<mrVars, kind, step, target>> /\ doubt' \in SUBSET Workers
<1>0. ItemsOK /\ OthersOK /\ doubt \in SUBSET Workers
  BY DEF ItemInv, SlackOK, PhaseOK
<1>1. Drift => drift' \in 0 .. MaxDrift
  BY <1>0, ItemAssumption DEF Drift, OthersOK
<1>3. ASSUME NEW n \in Convs, NEW e \in Channels \cup Convs \cup {NoExt, Gone}, ConversationChanges(n, e)
      PROVE  SlackOK' /\ UNCHANGED <<mrVars, kind, step, target>> /\ doubt' \in SUBSET Workers
  BY <1>0, <1>1, <1>3 DEF ConversationChanges, Doubts, NotReconciling, SlackOK, ItemsOK, OthersOK, itemVars
<1>4. ASSUME NEW c \in Channels, SlackUserArchives(c)
      PROVE  SlackOK' /\ UNCHANGED <<mrVars, kind, step, target>> /\ doubt' \in SUBSET Workers
  BY <1>0, <1>1, <1>4 DEF SlackUserArchives, NotReconciling, SlackOK, ItemsOK, OthersOK, itemVars
<1>5. ASSUME NEW b \in BookmarkIDs, NEW l \in Links,
             SlackUserEditsBookmark(b, NoBookmark) \/ SlackUserEditsBookmark(b, [bookmarks[b] EXCEPT !.body = l])
      PROVE  SlackOK' /\ UNCHANGED <<mrVars, kind, step, target>> /\ doubt' \in SUBSET Workers
  <2>1. bookmarks[b] \in [ch : Channels, body : Links]
    BY <1>0, <1>5 DEF ItemsOK, SlackUserEditsBookmark, Present
  <2>2. [bookmarks[b] EXCEPT !.body = l] \in [ch : Channels, body : Links]
    BY <2>1
  <2>3. PICK r \in [ch : Channels, body : Links] \cup {NoBookmark} : SlackUserEditsBookmark(b, r)
    BY <1>5, <2>2
  <2> QED BY <1>0, <1>1, <2>3 DEF SlackUserEditsBookmark, NotReconciling, SlackOK, ItemsOK, OthersOK
<1>6. ASSUME NEW p \in Pins, SlackUserChangesPin(p)
      PROVE  SlackOK' /\ UNCHANGED <<mrVars, kind, step, target>> /\ doubt' \in SUBSET Workers
  <2>1. pins' \subseteq posts' /\ posts' \subseteq Pins /\ doubt' \in SUBSET Workers
    BY <1>0, <1>6 DEF SlackUserChangesPin, ItemsOK, Doubts, Recording
  <2> QED BY <1>0, <1>1, <1>6, <2>1 DEF SlackUserChangesPin, NotReconciling, SlackOK, ItemsOK, OthersOK
<1>7. ASSUME NEW p \in Channels \X (People \cup {Bot}), SlackUserChangesMember(p)
      PROVE  SlackOK' /\ UNCHANGED <<mrVars, kind, step, target>> /\ doubt' \in SUBSET Workers
  <2>1. members' \subseteq Channels \X (People \cup {Bot}) /\ doubt' \in SUBSET Workers
    BY <1>0, <1>7 DEF SlackUserChangesMember, ItemsOK, Doubts, Recording
  <2> QED BY <1>0, <1>1, <1>7, <2>1 DEF SlackUserChangesMember, NotReconciling, SlackOK, ItemsOK, OthersOK
<1>8. ASSUME NEW e \in Emails, NEW u \in People \cup {NoUser}, DirectoryChanges(e, u)
      PROVE  SlackOK' /\ UNCHANGED <<mrVars, kind, step, target>> /\ doubt' \in SUBSET Workers
  BY <1>0, <1>1, <1>8 DEF DirectoryChanges, NotReconciling, SlackOK, ItemsOK, OthersOK, itemVars
<1> QED BY <1>3, <1>4, <1>5, <1>6, <1>7, <1>8 DEF Others

-----------------------------------------------------------------------------
(* Every step *)

\* What a step keeps besides the types of the loop.
LEMMA WorkersStay ==
    ASSUME ItemInv, UNCHANGED <<cur, mg, obs, pc, kind, step, target>>
    PROVE  \A v \in Workers : WorksOn(v)' /\ Resolved(v)'
  BY DEF ItemInv, WorksOn, Resolved

LEMMA OneMoves ==
    ASSUME ItemInv, NEW w \in Workers, UNCHANGED kind, WorksOn(w)',
           RuntimeStep(w) \/ ControllerStep(w) \/ Crash(w) \/ UNCHANGED mrVars
    PROVE  \A v \in Workers : WorksOn(v)'
<1>1. ASSUME NEW v \in Workers \ {w} PROVE WorksOn(v)'
  <2>1. WorkerOK /\ WorksOn(v)
    BY DEF ItemInv, MRTypeOK
  <2>2. pc'[v] = pc[v] /\ cur'[v] = cur[v] /\ mg'[v] = mg[v] /\ obs'[v] = obs[v]
    BY <2>1, MovesAlone DEF mrVars
  <2> QED BY <2>1, <2>2 DEF WorksOn
<1> QED BY <1>1

LEMMA ItemStep ==
    ASSUME ItemInv, [Next]_vars
    PROVE  ItemInv' /\ [MRNext]_mrVars
<1>0. SlackOK /\ MRTypeOK /\ PhaseOK
  BY DEF ItemInv
<1>1. [MRNext]_mrVars => MRTypeOK'
  BY <1>0, MRTypeStep
<1>2. ASSUME NEW w \in Workers, BookmarkStep(w) \/ PinStep(w) \/ MemberStep(w)
      PROVE  ItemInv' /\ [MRNext]_mrVars
  <2>1. CallKeeps(w)
    BY <1>2, BookmarkKeeps, PinKeeps, MemberKeeps
  <2>2. [MRNext]_mrVars /\ UNCHANGED <<api, cache, kind>>
    BY <2>1 DEF CallKeeps, CallMoves, MRNext
  <2>3. SpecInv'
    BY <2>2, QuietFits
  <2>4. \A v \in Workers : WorksOn(v)'
    BY <2>1, <2>2, OneMoves DEF CallKeeps, CallMoves
  <2> QED BY <1>1, <2>1, <2>2, <2>3, <2>4 DEF ItemInv, CallKeeps
<1>3. ASSUME NEW w \in Workers, Runtime(w) PROVE ItemInv' /\ [MRNext]_mrVars
  <2>1. PhaseOK' /\ (\A v \in Workers : Resolved(v)') /\ UNCHANGED kind /\ RuntimeStep(w)
    BY <1>3, PhaseType DEF Runtime, NextPhase
  <2>2. WorksOn(w)' /\ SpecInv'
    BY <2>1, RuntimeKeeps
  <2>3. SlackOK' /\ [MRNext]_mrVars
    BY <1>0, <1>3, <2>1, QuietSlack DEF Runtime, MRNext
  <2>4. \A v \in Workers : WorksOn(v)'
    BY <2>1, <2>2, OneMoves
  <2> QED BY <1>1, <2>1, <2>2, <2>3, <2>4 DEF ItemInv
<1>4. ASSUME NEW w \in Workers, Dies(w) PROVE ItemInv' /\ [MRNext]_mrVars
  <2>1. PhaseOK' /\ (\A v \in Workers : Resolved(v)') /\ UNCHANGED <<kind, api, cache>> /\ Crash(w)
    BY <1>4, PhaseType DEF Dies, NextPhase, Crash
  <2>2. WorksOn(w)'
    BY <2>1, EnterWorks DEF Crash, Release
  <2>3. SlackOK' /\ [MRNext]_mrVars
    BY <1>0, <1>4, <2>1, QuietSlack DEF Dies, MRNext, EnvironmentStep
  <2>4. (\A v \in Workers : WorksOn(v)') /\ SpecInv'
    BY <2>1, <2>2, OneMoves, QuietFits
  <2> QED BY <1>1, <2>1, <2>3, <2>4 DEF ItemInv
<1>5. CASE KubernetesUsers \/ \E w \in Workers, m \in MRs : Informer(w, m)
  <2>1. UNCHANGED <<kind, step, target, doubt, slackVars>>
    BY <1>5 DEF KubernetesUsers, Informer
  <2>2. EnvironmentStep /\ SpecInv' /\ UNCHANGED <<cur, mg, obs, pc>>
    BY <1>5, UsersKeep, InformerKeeps
  <2>3. SlackOK' /\ PhaseOK'
    BY <1>0, <2>1, QuietSlack DEF PhaseOK
  <2> QED BY <1>1, <2>1, <2>2, <2>3, WorkersStay DEF ItemInv, MRNext
<1>6. CASE Others
  <2>1. UNCHANGED <<mrVars, kind, step, target>> /\ SlackOK' /\ doubt' \in SUBSET Workers
    BY <1>6, OthersKeep
  <2>2. UNCHANGED <<cur, mg, obs, pc, api, cache>>
    BY <2>1 DEF mrVars
  <2>3. PhaseOK'
    BY <1>0, <2>1 DEF PhaseOK
  <2> QED BY <1>1, <2>1, <2>2, <2>3, WorkersStay, QuietFits DEF ItemInv
<1>7. CASE UNCHANGED vars
  <2>1. UNCHANGED <<mrVars, kind, step, target, doubt, slackVars>>
    BY <1>7 DEF vars
  <2>2. UNCHANGED <<cur, mg, obs, pc, api, cache>>
    BY <2>1 DEF mrVars
  <2>3. PhaseOK' /\ SlackOK'
    BY <1>0, <2>1, QuietSlack DEF PhaseOK
  <2> QED BY <1>1, <2>1, <2>2, <2>3, WorkersStay, QuietFits DEF ItemInv
<1> QED BY <1>2, <1>3, <1>4, <1>5, <1>6, <1>7 DEF Next, Reconcile

LEMMA ItemInit == Init => ItemInv /\ MRInit
<1> SUFFICES ASSUME Init PROVE ItemInv
  BY DEF Init
<1>1. MRTypeOK
  BY MRTypeInit DEF Init
<1>2. PhaseOK
  BY DEF Init, PhaseOK, Steps
<1>3. SlackOK
  BY ItemAssumption DEF Init, SlackOK, ItemsOK, OthersOK
<1>4. SpecInv
  BY DEF Init, MRInit, SpecInv, Fits, Blank
<1>5. \A w \in Workers : WorksOn(w) /\ Resolved(w)
  BY DEF Init, MRInit, WorksOn, Resolved
<1> QED BY <1>1, <1>2, <1>3, <1>4, <1>5 DEF ItemInv

-----------------------------------------------------------------------------
(* The theorems *)

\* The inductive invariant of the three controllers.
THEOREM ItemInvariant == Spec => []ItemInv
  BY ItemInit, ItemStep, PTL DEF Spec

\* Every step of the three controllers is one the loop allows a controller
\* (bookmark.go:91-235, pin.go:93-211, conversationmember.go:88-199).
THEOREM ItemsInLoop == Spec => MRSpec
<1>1. ItemInv /\ [Next]_vars => [MRNext]_mrVars
  BY ItemStep
<1> QED BY <1>1, ItemInvariant, ItemInit, PTL DEF Spec, MRSpec

\* Every variable keeps its type, and Update is never called for a pin or a
\* member (pin.go:177-180, conversationmember.go:168-171).
THEOREM ItemTypeCorrect == Spec => []TypeOK
<1>1. ItemInv => TypeOK
  BY DEF ItemInv, SlackOK, WorksOn, TypeOK, For
<1> QED BY <1>1, ItemInvariant, PTL

\* No two replicas create the bookmark, the pin or the membership of one
\* resource together (bookmark.go:152, pin.go:149, conversationmember.go:134).
THEOREM ItemCreateIsExclusive == Spec => []CreateExclusive
  BY ItemsInLoop, CreateIsExclusive, PTL

\* A bookmark, pin or membership whose creation has lost its outcome is the last
\* one made for its resource, nothing that is written undoes what users decided,
\* and while a worker creates an item nobody records another name for the
\* resource (bookmark.go:152, pin.go:149, conversationmember.go:134 inside
\* managed.Reconciler).
THEOREM ItemCreationsAreLeased == Spec => ImplementsLease /\ UsersDecide /\ CreatorNames
  BY ItemsInLoop, LeaseIsKept, OnlyUsersDecide, OnlyTheCreatorNames, PTL

-----------------------------------------------------------------------------
(* What a worker knows of the item it may let go *)

\* Slack had made e before it was recorded for m.
WasMade(m, e) == kind[m] = "bookmark" => \A b \in BookmarkIDs : e = BookmarkName(b) => b <= made

\* If w's resource records an item, it is not there, or w has been misled.
Absent(w) == api[cur[w]].ext \in NamesOf(kind[cur[w]]) => ~ItemIsThere(w)
Missed(w) == Absent(w) \/ w \in doubt

\* The phases in which w believes that there is no item.
Misses(w) ==
    \/ pc[w] = "create"
    \/ w \in fresh /\ (pc[w] \in {"pending", "unfinalize"} \/ (pc[w] = "finalize" /\ obs[w] = "missing"))

\* The copy w works on records what the object does, until Create records another
\* item; and what w believes to be missing is.
KnowsItem(w) ==
    LET e == api[cur[w]].ext
    IN  /\ pc[w] = "create" \/ (w \in fresh /\ pc[w] \in Passed) => mg[w].ext = e
        /\ Misses(w) => Missed(w)
        /\ pc[w] = "critical" => WasMade(cur[w], mg[w].ext) /\ (mg[w].ext # e => Missed(w))

KnowledgeInv == (\A m \in MRs : WasMade(m, api[m].ext)) /\ \A w \in Workers : KnowsItem(w)

LEMMA MadeGrows ==
    ASSUME ItemInv, [Next]_vars
    PROVE  made <= made'
<1>0. made \in Nat
  BY DEF ItemInv, SlackOK, ItemsOK
<1>1. UNCHANGED made => made <= made'
  BY <1>0
<1>2. ASSUME NEW w \in Workers, Adds(w) PROVE made <= made'
  BY <1>0, <1>2 DEF Adds
<1>3. UNCHANGED slackVars => UNCHANGED made
  BY DEF slackVars, itemVars
<1>4. ASSUME NEW w \in Workers, BookmarkStep(w) PROVE made <= made'
  BY <1>1, <1>2, <1>3, <1>4
     DEF BookmarkStep, ConnectBookmark, ConnectAs, ObserveBookmark, CreateBookmark, UpdateBookmark,
         DeleteBookmark
<1>5. ASSUME NEW w \in Workers, PinStep(w) PROVE made <= made'
  BY <1>1, <1>3, <1>5 DEF PinStep, ConnectPin, ConnectAs, ObservePin, CreatePin, DeletePin, OnlyPins
<1>6. ASSUME NEW w \in Workers, MemberStep(w) PROVE made <= made'
  BY <1>1, <1>3, <1>6
     DEF MemberStep, ConnectMember, ConnectAs, ObserveMember, ResolveInCreate, JoinAsBot, Invite,
         DeleteMember, OnlyMembers
<1>7. CASE Others
  BY <1>1, <1>7 DEF Others, ConversationChanges, SlackUserArchives, SlackUserEditsBookmark,
                    SlackUserChangesPin, SlackUserChangesMember, DirectoryChanges, itemVars
<1>8. CASE UNCHANGED slackVars
  BY <1>1, <1>3, <1>8
<1> QED BY <1>4, <1>5, <1>6, <1>7, <1>8
        DEF Next, Reconcile, Runtime, KubernetesUsers, Informer, Dies, vars

LEMMA StillMade ==
    ASSUME ItemInv, [Next]_vars, UNCHANGED kind, NEW m, NEW e, WasMade(m, e)
    PROVE  WasMade(m, e)'
<1>1. made \in Nat /\ made' \in Nat /\ BookmarkIDs \subseteq Nat
  BY ItemStep DEF ItemInv, SlackOK, ItemsOK, BookmarkIDs
<1> QED BY <1>1, MadeGrows DEF WasMade

\* What is missing stays so as long as nobody makes an item.
LEMMA StillAbsent ==
    ASSUME NEW w \in Workers, Absent(w), UNCHANGED <<kind, conv, bookmarks, pins, members>>,
           cur'[w] = cur[w], mg'[w].spec = mg[w].spec, api'[cur[w]].ext = api[cur[w]].ext
    PROVE  Absent(w)'
  BY DEF Absent, ItemIsThere, ListBookmarks, Present, ResolveConversationID, ChannelOf

LEMMA StillMissed ==
    ASSUME NEW w \in Workers, Missed(w), UNCHANGED <<kind, conv, bookmarks, pins, members>>,
           cur'[w] = cur[w], mg'[w].spec = mg[w].spec, api'[cur[w]].ext = api[cur[w]].ext,
           w \in doubt => w \in doubt'
    PROVE  Missed(w)'
  BY StillAbsent DEF Missed

-----------------------------------------------------------------------------
(* Calls *)

\* Observe and Create leave the record alone, but for a Create that succeeds.
LEMMA AnswerKnows ==
    ASSUME ItemInv, NEW w \in Workers, KnowsItem(w), UNCHANGED slackVars, NEW o \in Observations,
           NEW c \in {mg[w], SaysUnavailable(w)},
           Answer(w, o, c) \/ (o = "missing" /\ NoChannelToAsk(w, c)),
           o = "missing" /\ mg[w].ext = api[cur[w]].ext => Absent(w) \/ NoChannelToAsk(w, c)
    PROVE  KnowsItem(w)'
<1>0. /\ pc[w] = "observe" /\ ObserveAnswers(w, o, c) /\ UNCHANGED <<kind, api, fresh>>
      /\ mg[w] \in Object /\ PhaseOK /\ UNCHANGED <<conv, bookmarks, pins, members>> /\ WorkerOK
  BY DEF ObserveAnswers, Answer, NoChannelToAsk, NextPhase, PhaseWith, Calls, ItemInv, MRTypeOK, WorkerOK,
         slackVars, itemVars
<1>1. c.ext = mg[w].ext /\ c.spec = mg[w].spec
  BY <1>0 DEF SaysUnavailable, Object
<1>2. NoChannelToAsk(w, c) => w \in doubt'
  BY DEF NoChannelToAsk, PhaseWith
<1>3. CASE pc'[w] = "status"
  BY <1>3 DEF KnowsItem, Misses, Passed
<1>4. CASE /\ pc'[w] \in {"update", "delete", "finalize", "pending", "unfinalize"}
           /\ cur'[w] = cur[w] /\ mg'[w] = c
           /\ pc'[w] \in {"pending", "unfinalize"} \/ (pc'[w] = "finalize" /\ obs'[w] = "missing")
                 => o = "missing"
  <2>1. w \in fresh => mg[w].ext = api[cur[w]].ext
    BY <1>0 DEF KnowsItem, Passed
  <2>2. ASSUME Misses(w)' PROVE Missed(w)'
    <3>1. o = "missing" /\ w \in fresh
      BY <1>0, <1>4, <2>2 DEF Misses
    <3>2. CASE Absent(w)
      BY <1>0, <1>1, <1>4, <3>2, StillAbsent DEF Missed
    <3>3. CASE NoChannelToAsk(w, c)
      BY <1>2, <3>3 DEF Missed
    <3> QED BY <2>1, <3>1, <3>2, <3>3
  <2> QED BY <1>0, <1>1, <1>4, <2>1, <2>2 DEF KnowsItem
<1>5. ASSUME NEW p, NEW d, Enter(w, cur[w], d, p)
      PROVE  pc'[w] = p /\ cur'[w] = cur[w] /\ mg'[w] = d /\ obs'[w] = "error"
  BY <1>0, <1>5 DEF WorkerOK, Enter
<1>6. CASE Report(w, c, "ReconcileError") \/ Report(w, c, "ReconcileSuccess")
  BY <1>3, <1>5, <1>6 DEF Report
<1>7. CASE \/ o = "missing" /\ Enter(w, cur[w], c, "unfinalize")
           \/ Enter(w, cur[w], c, "delete")
           \/ o = "missing" /\ Enter(w, cur[w], c, "pending")
           \/ Enter(w, cur[w], c, "update")
  BY <1>4, <1>5, <1>7
<1>8. CASE /\ pc' = [pc EXCEPT ![w] = "finalize"] /\ mg' = [mg EXCEPT ![w] = c]
           /\ obs' = [obs EXCEPT ![w] = o] /\ UNCHANGED cur
  <2>1. pc'[w] = "finalize" /\ mg'[w] = c /\ obs'[w] = o /\ cur'[w] = cur[w]
    BY <1>0, <1>8 DEF WorkerOK
  <2> QED BY <1>4, <2>1
<1> QED BY <1>0, <1>6, <1>7, <1>8 DEF ObserveAnswers, Decide

LEMMA ObserveKnows ==
    ASSUME ItemInv, NEW w \in Workers, KnowsItem(w),
           ObserveBookmark(w) \/ ObservePin(w) \/ ObserveMember(w)
    PROVE  KnowsItem(w)'
<1>0. UNCHANGED slackVars
  BY DEF ObserveBookmark, ObservePin, ObserveMember
<1>1. CASE ObserveBookmark(w)
  <2>1. \E o \in Observations, c \in {mg[w], SaysUnavailable(w)} :
            /\ Answer(w, o, c) \/ (o = "missing" /\ NoChannelToAsk(w, c))
            /\ o = "missing" => NoChannelToAsk(w, c) \/ Recorded(w) = {}
    BY <1>1 DEF ObserveBookmark, Observations
  <2>2. mg[w].ext = api[cur[w]].ext /\ Recorded(w) = {} => Absent(w)
    BY <1>1 DEF Recorded, Absent, ItemIsThere, ObserveBookmark, For
  <2> QED BY <1>0, <2>1, <2>2, AnswerKnows
<1>2. CASE ObservePin(w)
  <2>1. \E o \in Observations, c \in {mg[w], SaysUnavailable(w)} :
            /\ Answer(w, o, c) \/ (o = "missing" /\ NoChannelToAsk(w, c))
            /\ o = "missing" => \/ NoChannelToAsk(w, c)
                                \/ parseExternalName(mg[w].ext) = NoItem
                                \/ mg[w].ext \notin ListPins(mg[w].ext[1])
    BY <1>2 DEF ObservePin, Observations, parseExternalName
  <2>2. ASSUME mg[w].ext = api[cur[w]].ext, parseExternalName(mg[w].ext) = NoItem
        PROVE  Absent(w)
    <3>1. mg[w].ext \in Pins => FALSE
      BY <2>2, ItemAssumption DEF parseExternalName
    <3> QED BY <1>2, <2>2, <3>1 DEF Absent, NamesOf, ObservePin, For
  <2>3. mg[w].ext = api[cur[w]].ext /\ mg[w].ext \notin ListPins(mg[w].ext[1]) => Absent(w)
    BY <1>2 DEF ListPins, Absent, ItemIsThere, ObservePin, For
  <2> QED BY <1>0, <2>1, <2>2, <2>3, AnswerKnows
<1>3. CASE ObserveMember(w)
  <2>1. \E o \in Observations :
            /\ Answer(w, o, mg[w])
            /\ o = "missing" =>
                  \/ parseMemberName(mg[w].ext) = NoItem
                  \/ mg[w].ext \in Memberships /\ mg[w].ext[2] \notin GetConversationMembers(mg[w].ext[1])
    BY <1>3 DEF ObserveMember, Observations, parseMemberName
  <2>2. kind[cur[w]] = "member"
    BY <1>3 DEF ObserveMember, For
  <2>3. mg[w].ext = api[cur[w]].ext /\ parseMemberName(mg[w].ext) = NoItem => Absent(w)
    BY <2>2, ItemAssumption DEF parseMemberName, Absent, NamesOf
  <2>4. ASSUME mg[w].ext = api[cur[w]].ext, mg[w].ext \in Memberships,
               mg[w].ext[2] \notin GetConversationMembers(mg[w].ext[1])
        PROVE  Absent(w)
    <3>1. mg[w].ext = <<mg[w].ext[1], mg[w].ext[2]>> /\ mg[w].ext[2] \in People
      BY <2>4 DEF Memberships
    <3>2. mg[w].ext \notin members
      BY <2>4, <3>1 DEF GetConversationMembers
    <3> QED BY <2>2, <2>4, <3>2 DEF Absent, ItemIsThere
  <2> QED BY <1>0, <2>1, <2>3, <2>4, AnswerKnows
<1> QED BY <1>1, <1>2, <1>3

LEMMA GotoKnows ==
    ASSUME ItemInv, NEW w \in Workers, KnowsItem(w), NEW s, Goto(w, s), UNCHANGED <<conv, bookmarks, made, pins>>,
           members' = members \/ \E c : members' = members \cup {<<c, Bot>>}
    PROVE  KnowsItem(w)'
<1>0. UNCHANGED <<api, fresh, cur, mg, obs, pc, kind, doubt>>
  BY DEF Goto, mrVars
<1>1. ASSUME Missed(w), kind[cur[w]] \in Kinds PROVE Missed(w)'
  <2>1. CASE members' = members
    BY <1>0, <1>1, <2>1, StillMissed
  <2>2. CASE kind[cur[w]] # "member"
    BY <1>0, <1>1, <2>2 DEF Missed, Absent, ItemIsThere, ListBookmarks, Present, ResolveConversationID, ChannelOf, Kinds
  <2>3. ASSUME NEW c, members' = members \cup {<<c, Bot>>}, kind[cur[w]] = "member",
               api[cur[w]].ext \in Memberships
        PROVE  api[cur[w]].ext \in members' => api[cur[w]].ext \in members
    BY <2>3, ItemAssumption DEF Memberships
  <2> QED BY <1>0, <1>1, <2>1, <2>2, <2>3 DEF Missed, Absent, ItemIsThere, NamesOf
<1>2. pc[w] # "idle" => kind[cur[w]] \in Kinds
  BY DEF ItemInv, MRTypeOK, WorkerOK, PhaseOK
<1> QED BY <1>0, <1>1, <1>2 DEF KnowsItem, Misses, WasMade

\* Create has failed, or seems to: w's copy records what it did.
LEMMA FailedKnows ==
    ASSUME ItemInv, KnowledgeInv, [Next]_vars, NEW w \in Workers, NEW c, CreateReturns(w, FALSE, c), UNCHANGED kind,
           c \in {[mg[w] EXCEPT !.synced = r] : r \in ConditionReasons \cup {mg[w].synced}} \cup {mg[w]}
    PROVE  KnowsItem(w)'
<1>0. mg[w] \in Object /\ pc[w] = "create" /\ cur[w] \in MRs
  BY DEF ItemInv, MRTypeOK, WorkerOK, CreateReturns
<1>1. mg[w].ext = api[cur[w]].ext
  BY <1>0 DEF KnowledgeInv, KnowsItem
<1>2. /\ pc'[w] = "critical" /\ cur'[w] = cur[w] /\ mg'[w].ext = mg[w].ext /\ UNCHANGED api
  BY <1>0 DEF CreateReturns, Enter, Calls, Object, ItemInv, MRTypeOK, WorkerOK
<1>3. WasMade(cur[w], mg[w].ext)'
  <2>1. WasMade(cur[w], mg[w].ext)
    BY <1>0, <1>1 DEF KnowledgeInv
  <2> QED BY <1>2, <2>1, StillMade DEF WasMade
<1> QED BY <1>1, <1>2, <1>3 DEF KnowsItem, Misses, Passed

\* Create has made e; what was recorded before was missing, and still is.
LEMMA CreatedKnows ==
    ASSUME ItemInv, NEW w \in Workers, KnowsItem(w), NEW e, Created(w, e), UNCHANGED conv,
           kind[cur[w]] = "bookmark" =>
               /\ \A b \in BookmarkIDs : e = BookmarkName(b) => b <= made'
               /\ \A b \in BookmarkIDs : e # BookmarkName(b) => bookmarks'[b] = bookmarks[b],
           kind[cur[w]] = "pin" => pins' = pins \cup {e},
           kind[cur[w]] \notin {"bookmark", "pin"} => members' = members \cup {e}
    PROVE  KnowsItem(w)'
<1>0. /\ mg[w] \in Object /\ pc[w] = "create" /\ cur[w] \in MRs /\ UNCHANGED <<kind, api>>
      /\ PhaseWith(w, Recording(e) \ {w})
  BY DEF ItemInv, MRTypeOK, WorkerOK, Created, CreateReturns, PhaseWith, Calls
<1>1. /\ pc'[w] = "critical" /\ cur'[w] = cur[w] /\ mg'[w].ext = e /\ mg'[w].spec = mg[w].spec
  BY <1>0 DEF Created, CreateReturns, Enter, Object, ItemInv, MRTypeOK, WorkerOK
<1>2. Missed(w) /\ (w \in doubt => w \in doubt')
  BY <1>0, <1>1 DEF KnowsItem, Misses, PhaseWith
<1>3. ASSUME e # api[cur[w]].ext PROVE Missed(w)'
  BY <1>0, <1>1, <1>2, <1>3
     DEF Missed, Absent, ItemIsThere, ListBookmarks, Present, ResolveConversationID, ChannelOf
<1>4. WasMade(cur[w], mg[w].ext)'
  BY <1>0, <1>1 DEF WasMade
<1> QED BY <1>0, <1>1, <1>3, <1>4 DEF KnowsItem, Misses, Passed

\* Update and Delete end in a report.
LEMMA EndKnows ==
    ASSUME ItemInv, NEW w \in Workers, NEW ok, CallEnds(w, ok)
    PROVE  KnowsItem(w)'
<1>1. pc'[w] = "status"
  BY DEF CallEnds, CallReturns, Report, Enter, ItemInv, MRTypeOK, WorkerOK
<1> QED BY <1>1 DEF KnowsItem, Misses, Passed

LEMMA CallsKnow ==
    ASSUME ItemInv, KnowledgeInv, [Next]_vars, NEW w \in Workers,
           BookmarkStep(w) \/ PinStep(w) \/ MemberStep(w)
    PROVE  KnowsItem(w)'
<1>0. KnowsItem(w) /\ SlackOK
  BY DEF KnowledgeInv, ItemInv
<1>1. ASSUME NEW k, ConnectAs(w, k) PROVE KnowsItem(w)'
  <2>1. UNCHANGED slackVars
    BY <1>1 DEF ConnectAs
  <2>2. CASE Goto(w, "list")
    BY <1>0, <2>1, <2>2, GotoKnows DEF slackVars, itemVars
  <2> QED BY <1>0, <1>1, <2>1, <2>2, AnswerKnows DEF ConnectAs, Observations
<1>2. ASSUME NEW r \in ConditionReasons \cup {mg[w].synced}, CreateFails(w, r) PROVE KnowsItem(w)'
  BY <1>2, FailedKnows DEF CreateFails, NextPhase, PhaseWith
<1>20. ASSUME NEW e, CreatedUnheard(w, e) PROVE KnowsItem(w)'
  BY <1>20, FailedKnows DEF CreatedUnheard, PhaseWith
<1>3. CASE CreateBookmark(w)
  <2>1. CASE Adds(w) /\ Created(w, BookmarkName(made'))
    <3>1. /\ kind[cur[w]] = "bookmark" /\ UNCHANGED conv /\ made' \in Nat
          /\ \A b \in BookmarkIDs : b # made' => bookmarks'[b] = bookmarks[b]
          /\ \A b : BookmarkName(made') = BookmarkName(b) => b = made'
      BY <1>0, <1>3, <2>1 DEF CreateBookmark, For, OthersSame, Adds, SlackOK, ItemsOK, BookmarkName
    <3> QED BY <1>0, <2>1, <3>1, CreatedKnows
  <2> QED BY <1>2, <1>3, <2>1, ItemAssumption DEF CreateBookmark
<1>4. CASE CreatePin(w)
  <2>1. CASE AddPin(w) /\ Created(w, Wanted(w))
    <3>1. kind[cur[w]] = "pin" /\ UNCHANGED conv /\ pins' = pins \cup {Wanted(w)}
      BY <1>4, <2>1 DEF CreatePin, For, OnlyPins, AddPin
    <3> QED BY <1>0, <2>1, <3>1, CreatedKnows
  <2>2. Refusal(w) \in ConditionReasons \cup {mg[w].synced}
    BY ItemAssumption DEF Refusal
  <2> QED BY <1>2, <1>20, <1>4, <2>1, <2>2 DEF CreatePin
<1>5. CASE ResolveInCreate(w)
  <2>1. CASE Goto(w, "join")
    BY <1>0, <1>5, <2>1, GotoKnows DEF ResolveInCreate, slackVars, itemVars
  <2> QED BY <1>2, <1>5, <2>1 DEF ResolveInCreate
<1>6. CASE JoinAsBot(w)
  BY <1>0, <1>6, GotoKnows DEF JoinAsBot, OnlyMembers, Enters
<1>7. CASE Invite(w)
  <2>1. CASE Enters(target[w]) /\ Created(w, target[w])
    <3>1. kind[cur[w]] = "member" /\ UNCHANGED conv /\ members' = members \cup {target[w]}
      BY <1>7, <2>1 DEF Invite, For, OnlyMembers, Enters
    <3> QED BY <1>0, <2>1, <3>1, CreatedKnows
  <2> QED BY <1>2, <1>20, <1>7, <2>1 DEF Invite
<1>8. CASE UpdateBookmark(w) \/ DeleteBookmark(w) \/ DeletePin(w) \/ DeleteMember(w)
  BY <1>8, EndKnows DEF UpdateBookmark, DeleteBookmark, DeletePin, DeleteMember
<1> QED BY <1>0, <1>1, <1>3, <1>4, <1>5, <1>6, <1>7, <1>8, ObserveKnows
        DEF BookmarkStep, PinStep, MemberStep, ConnectBookmark, ConnectPin, ConnectMember

-----------------------------------------------------------------------------
(* The loop *)

LEMMA KnowsNothing ==
    ASSUME NEW w, pc'[w] \in {"idle", "status", "init"}
    PROVE  KnowsItem(w)'
  BY DEF KnowsItem, Misses, Passed

LEMMA StoreMade ==
    ASSUME ItemInv, KnowledgeInv, UNCHANGED <<kind, made>>, NEW m \in MRs, NEW o, Store(m, o), WasMade(m, o.ext)
    PROVE  \A n \in MRs : WasMade(n, api[n].ext)'
<1>1. \A n \in MRs : api'[n] = IF n = m THEN o ELSE api[n]
  BY DEF ItemInv, MRTypeOK, ApiOK, Store
<1> QED BY <1>1 DEF KnowledgeInv, WasMade

LEMMA QuietMade ==
    ASSUME KnowledgeInv, UNCHANGED <<api, kind, made>>
    PROVE  \A n \in MRs : WasMade(n, api[n].ext)'
  BY DEF KnowledgeInv, WasMade

\* No other name is taken for one of a bookmark.
LEMMA OtherNames == WasMade(NoMR, NoExt) /\ \A m \in MRs : WasMade(m, NoExt) /\ WasMade(m, MetaName[m])
<1>1. \A b \in BookmarkIDs : BookmarkName(b) \in BookmarkNames /\ BookmarkName(b) # NoExt
  BY NamesShape, NamesAssumption DEF BookmarkNames
<1>2. \A m \in MRs : MetaName[m] \notin BookmarkNames
  BY ItemAssumption DEF Kinds, NamesOf
<1> QED BY <1>1, <1>2 DEF WasMade

LEMMA RuntimeKnows ==
    ASSUME ItemInv, LoopInv, KnowledgeInv, NEW w \in Workers, Runtime(w)
    PROVE  KnowsItem(w)' /\ \A n \in MRs : WasMade(n, api[n].ext)'
<1>0. /\ RuntimeStep(w) /\ KnowsItem(w) /\ UNCHANGED <<conv, bookmarks, made, pins, members, kind>>
      /\ mg[w] \in Object /\ (pc[w] # "idle" => cur[w] \in MRs) /\ \A m \in MRs : api[m] \in Object
      /\ (pc'[w] \notin {"idle", "status"} => (w \in doubt => w \in doubt')) /\ WorkerOK
  <2>1. RuntimeStep(w) => pc[w] # "observe"
    BY DEF RuntimeStep, Start, Initialize, AddFinalizer, RemoveFinalizer, CreatePending, UpdateCritical,
           StatusUpdate
  <2> QED BY <2>1 DEF Runtime, NextPhase, PhaseWith, slackVars, itemVars, KnowledgeInv, ItemInv, MRTypeOK,
                      WorkerOK, ApiOK
<1>1. ASSUME NEW m, NEW o, NEW p, Enter(w, m, o, p)
      PROVE  pc'[w] = p /\ cur'[w] = m /\ mg'[w] = o /\ obs'[w] = "error"
  BY <1>0, <1>1 DEF WorkerOK, Enter
<1>2. (\E o, r : Report(w, o, r)) \/ Release(w) => KnowsItem(w)'
  <2>1. ASSUME NEW o, NEW r, Report(w, o, r) PROVE KnowsItem(w)'
    BY <1>1, <2>1, KnowsNothing DEF Report
  <2>2. Release(w) => KnowsItem(w)'
    BY <1>1, KnowsNothing DEF Release
  <2> QED BY <2>1, <2>2
<1>3. WriteFails(w) => KnowsItem(w)' /\ \A n \in MRs : WasMade(n, api[n].ext)'
  BY <1>0, <1>2, QuietMade DEF WriteFails
\* w has stored o, which records what the object did, and goes on with it.
<1>4. ASSUME NEW o, StoreBy(w, o), NEW p, Enter(w, cur[w], o, p), cur[w] \in MRs, o.spec = mg[w].spec,
             o.ext = api[cur[w]].ext, p \in {"pending", "create"} => Missed(w),
             p \in {"pending", "create", "update"}
      PROVE  KnowsItem(w)' /\ \A n \in MRs : WasMade(n, api[n].ext)'
  <2>1. api'[cur[w]] = o /\ Store(cur[w], o)
    BY <1>4 DEF StoreBy, Store, ItemInv, MRTypeOK, ApiOK
  <2>2. Missed(w) => Missed(w)'
    BY <1>0, <1>1, <1>4, <2>1, StillMissed
  <2>3. KnowsItem(w)'
    BY <1>1, <1>4, <2>1, <2>2 DEF KnowsItem, Misses
  <2>4. WasMade(cur[w], o.ext)
    BY <1>4 DEF KnowledgeInv
  <2> QED BY <1>0, <1>4, <2>1, <2>3, <2>4, StoreMade
<1>5. ASSUME NEW m \in MRs, Start(w, m) PROVE KnowsItem(w)' /\ \A n \in MRs : WasMade(n, api[n].ext)'
  <2>1. w \in fresh' => cache[w][m] = api[m]
    BY <1>5 DEF LoopInv, WorkerInv, CacheInv, Start
  <2>2. UNCHANGED api
    BY <1>5 DEF Start
  <2>3. \/ pc'[w] \in {"init", "status"}
        \/ pc'[w] = "observe" /\ cur'[w] = m /\ mg'[w] = cache[w][m]
    BY <1>1, <1>5 DEF Start, PassGate
  <2>4. KnowsItem(w)'
    BY <2>1, <2>2, <2>3, KnowsNothing DEF KnowsItem, Misses
  <2> QED BY <1>0, <2>2, <2>4, QuietMade
<1>6. CASE Initialize(w)
  <2> DEFINE o == [mg[w] EXCEPT !.ext = MetaName[cur[w]]]
  <2>1. CASE StoreBy(w, o) /\ PassGate(w, cur[w], o)
    <3>0. cur[w] \in MRs /\ o.ext = MetaName[cur[w]]
      BY <1>0, <1>6 DEF Initialize, Object
    <3> HIDE DEF o
    <3>1. api'[cur[w]] = o /\ Store(cur[w], o)
      BY <2>1, <3>0 DEF StoreBy, Store, ItemInv, MRTypeOK, ApiOK
    <3>2. \/ pc'[w] = "status"
          \/ pc'[w] = "observe" /\ cur'[w] = cur[w] /\ mg'[w] = o
      BY <1>1, <2>1 DEF PassGate
    <3>3. KnowsItem(w)'
      BY <3>1, <3>2, KnowsNothing DEF KnowsItem, Misses
    <3> QED BY <1>0, <3>0, <3>1, <3>3, OtherNames, StoreMade
  <2> QED BY <1>3, <1>6, <2>1 DEF Initialize
<1>7. CASE AddFinalizer(w)
  <2> DEFINE o == [mg[w] EXCEPT !.fin = TRUE, !.synced = api[cur[w]].synced]
  <2>1. CASE w \in fresh /\ StoreBy(w, o) /\ Decide(w, obs[w], o)
    <3>0. /\ cur[w] \in MRs /\ o.ext = api[cur[w]].ext /\ o.spec = mg[w].spec
          /\ obs[w] = "missing" => Missed(w)
      BY <1>0, <1>7, <2>1 DEF AddFinalizer, Object, KnowsItem, Misses, Passed
    <3> HIDE DEF o
    <3>1. CASE Report(w, o, "ReconcileSuccess")
      <4>1. WasMade(cur[w], o.ext) /\ Store(cur[w], o)
        BY <2>1, <3>0 DEF KnowledgeInv, StoreBy
      <4> QED BY <1>0, <1>2, <3>0, <3>1, <4>1, StoreMade
    <3>2. CASE obs[w] = "missing" /\ Enter(w, cur[w], o, "pending")
      BY <1>4, <2>1, <3>0, <3>2
    <3>3. CASE Enter(w, cur[w], o, "update")
      BY <1>4, <2>1, <3>0, <3>3
    <3> QED BY <2>1, <3>1, <3>2, <3>3 DEF Decide
  <2> QED BY <1>3, <1>7, <2>1 DEF AddFinalizer
<1>8. CASE RemoveFinalizer(w)
  <2>1. CASE StoreByUser(cur[w], Blank) /\ Release(w)
    BY <1>0, <1>2, <1>8, <2>1, OtherNames, StoreMade DEF StoreByUser, Blank, RemoveFinalizer
  <2> QED BY <1>3, <1>8, <2>1 DEF RemoveFinalizer
<1>9. CASE CreatePending(w)
  <2> DEFINE o == [mg[w] EXCEPT !.create = "pending", !.synced = api[cur[w]].synced]
  <2>1. CASE w \in fresh /\ StoreBy(w, o) /\ Enter(w, cur[w], o, "create")
    <3>0. cur[w] \in MRs /\ o.ext = api[cur[w]].ext /\ o.spec = mg[w].spec /\ Missed(w)
      <4>1. pc[w] = "pending" /\ cur[w] \in MRs /\ o.ext = mg[w].ext /\ o.spec = mg[w].spec
        BY <1>0, <1>9 DEF CreatePending, Object
      <4>2. mg[w].ext = api[cur[w]].ext /\ Missed(w)
        BY <1>0, <2>1, <4>1 DEF KnowsItem, Misses, Passed
      <4> QED BY <4>1, <4>2
    <3> HIDE DEF o
    <3> QED BY <1>4, <2>1, <3>0
  <2> QED BY <1>3, <1>9, <2>1 DEF CreatePending
<1>10. CASE UpdateCritical(w)
  <2> DEFINE o == [api[cur[w]] EXCEPT !.ext = mg[w].ext, !.create = mg[w].create]
  <2>1. cur[w] \in MRs /\ o.ext = mg[w].ext /\ WasMade(cur[w], o.ext) /\ KnowsItem(w)'
    BY <1>0, <1>2, <1>10 DEF UpdateCritical, Object, KnowsItem
  <2> HIDE DEF o
  <2>2. StoreBy(w, o) \/ UNCHANGED api
    BY <1>10 DEF UpdateCritical, o
  <2> QED BY <1>0, <2>1, <2>2, QuietMade, StoreMade DEF StoreBy
<1>11. CASE StatusUpdate(w)
  <2> DEFINE o == [api[cur[w]] EXCEPT !.synced = mg[w].synced]
  <2>1. cur[w] \in MRs /\ o.ext = api[cur[w]].ext /\ KnowsItem(w)'
    BY <1>0, <1>2, <1>11 DEF StatusUpdate, Object
  <2>2. WasMade(cur[w], o.ext)
    BY <2>1 DEF KnowledgeInv
  <2> HIDE DEF o
  <2>3. StoreByUser(cur[w], o) \/ UNCHANGED api
    BY <1>11 DEF StatusUpdate, o
  <2> QED BY <1>0, <2>1, <2>2, <2>3, QuietMade, StoreMade DEF StoreByUser
<1> QED BY <1>0, <1>5, <1>6, <1>7, <1>8, <1>9, <1>10, <1>11 DEF RuntimeStep

-----------------------------------------------------------------------------
(* Users and others *)

\* Users do not change what an object records, once it has its finalizer, nor do
\* they write under a latest copy; and they import only bookmarks that are made.
LEMMA UsersKnow ==
    ASSUME ItemInv, LoopInv, KnowledgeInv, KubernetesUsers
    PROVE  KnowledgeInv'
<1>0. PICK m \in MRs :
         \/ UserDeletes(m)
         \/ \E s \in SpecsFor(kind[m]) :
               UserEdits(m, s) \/ \E x \in Importable(kind[m]) \cup {NoExt} : UserCreates(m, s, x)
  BY DEF KubernetesUsers
<1>1. /\ UNCHANGED <<cur, mg, obs, pc, kind, conv, bookmarks, made, pins, members, doubt>> /\ MRTypeOK
      /\ EnvironmentStep /\ api[m] \in Object /\ ApiOK
  BY UsersKeep DEF KubernetesUsers, slackVars, itemVars, ItemInv, MRTypeOK, ApiOK
<1>2. PICK o : /\ StoreByUser(m, o)
               /\ \/ o.ext = api[m].ext
                  \/ ~ (api[m].exists /\ api[m].fin) /\ o.ext \in Importable(kind[m]) \cup {NoExt}
  <2>1. ASSUME UserDeletes(m)
        PROVE  \E o : /\ StoreByUser(m, o)
                      /\ o.ext = api[m].ext \/ (o.ext = NoExt /\ ~ (api[m].exists /\ api[m].fin))
    <3> DEFINE o == IF api[m].fin THEN [api[m] EXCEPT !.del = TRUE] ELSE Blank
    <3>1. StoreByUser(m, o)
      BY <2>1 DEF UserDeletes
    <3>2. api[m].fin => o.ext = api[m].ext
      BY <1>1 DEF Object
    <3>3. ~api[m].fin => o.ext = NoExt
      BY DEF Blank
    <3> HIDE DEF o
    <3> QED BY <3>1, <3>2, <3>3
  <2>2. ASSUME NEW s, UserEdits(m, s) PROVE \E o : StoreByUser(m, o) /\ o.ext = api[m].ext
    BY <1>1, <2>2 DEF UserEdits, Object
  <2>3. ASSUME NEW s, NEW x \in Importable(kind[m]) \cup {NoExt}, UserCreates(m, s, x)
        PROVE  \E o : /\ StoreByUser(m, o) /\ ~ (api[m].exists /\ api[m].fin)
                      /\ o.ext \in Importable(kind[m]) \cup {NoExt}
    <3> DEFINE o == [Blank EXCEPT !.exists = TRUE, !.spec = s, !.ext = x]
    <3>1. o.ext = x
      BY DEF Blank
    <3>2. StoreByUser(m, o) /\ ~ api[m].exists
      BY <2>3 DEF UserCreates
    <3> HIDE DEF o
    <3> QED BY <3>1, <3>2
  <2> QED BY <1>0, <2>1, <2>2, <2>3
<1>3. \A n \in MRs : WasMade(n, api[n].ext)'
  <2>1. ASSUME NEW x \in Importable(kind[m]) PROVE WasMade(m, x)
    <3>1. \A b \in BookmarkIDs : x = BookmarkName(b) => ~ (b > made)
      BY <2>1 DEF Importable
    <3>2. made \in Nat /\ BookmarkIDs \subseteq Nat
      BY DEF ItemInv, SlackOK, ItemsOK, BookmarkIDs
    <3> QED BY <3>1, <3>2 DEF WasMade
  <2>2. WasMade(m, o.ext)
    BY <1>2, <2>1, OtherNames DEF KnowledgeInv
  <2> QED BY <1>1, <1>2, <2>2, StoreMade DEF StoreByUser
<1>4. ASSUME NEW w \in Workers PROVE KnowsItem(w)'
  <2>1. KnowsItem(w) /\ (pc[w] # "idle" => cur[w] \in MRs)
    BY DEF KnowledgeInv, ItemInv, MRTypeOK, WorkerOK
  <2>2. w \in fresh' /\ pc[w] # "idle" => w \in fresh /\ api'[cur[w]] = api[cur[w]]
    <3>1. ~Crash(w)
      <4>1. Crash(w) => cur'[w] = NoMR /\ pc[w] # "idle"
        BY DEF Crash, Release, Enter, ItemInv, MRTypeOK, WorkerOK
      <4> QED BY <1>1, <2>1, <4>1, NamesAssumption
    <3> QED BY <1>1, <2>1, <3>1, FreshStays
  <2>3. InCreate(w) => api'[cur[w]].ext = api[cur[w]].ext
    <3>1. InCreate(w) => api[cur[w]].exists /\ api[cur[w]].fin /\ cur[w] \in MRs
      BY <2>1 DEF LoopInv, WorkerInv, InCreate
    <3>2. \A n \in MRs : api'[n] = IF n = m THEN o ELSE api[n]
      BY <1>1, <1>2 DEF StoreByUser, Store, ApiOK
    <3> QED BY <1>2, <3>1, <3>2
  <2>4. api'[cur[w]].ext = api[cur[w]].ext /\ Missed(w) => Missed(w)'
    BY <1>1, StillMissed
  <2>5. pc[w] = "critical" /\ WasMade(cur[w], mg[w].ext) => WasMade(cur[w], mg[w].ext)'
    BY <1>1 DEF WasMade
  <2> QED BY <1>1, <2>1, <2>2, <2>3, <2>4, <2>5 DEF KnowsItem, Misses, InCreate, Passed
<1> QED BY <1>3, <1>4 DEF KnowledgeInv

LEMMA OthersMiss ==
    ASSUME ItemInv, Others, NEW w \in Workers, pc[w] \notin {"idle", "status"}, Missed(w)
    PROVE  Missed(w)'
<1>0. /\ UNCHANGED <<mrVars, kind>> /\ cur[w] \in MRs /\ mg[w].spec \in Specs /\ kind[cur[w]] \in Kinds
      /\ pc[w] # "idle" /\ mg[w].spec # NoSpec
  <2>1. mg[w].spec \in Specs
    BY WorkingSpec DEF BookmarkSpecs, PinSpecs, MemberSpecs, ItemInv, MRTypeOK, WorkerOK, PhaseOK, Kinds
  <2> QED BY <2>1, OthersKeep, NamesAssumption DEF ItemInv, MRTypeOK, WorkerOK, PhaseOK
<1>1. UNCHANGED <<api, cur, mg, kind>>
  BY <1>0 DEF mrVars
<1>2. w \in doubt' => Missed(w)'
  BY DEF Missed
<1>3. ASSUME w \in doubt => w \in doubt', UNCHANGED <<conv, bookmarks, pins, members>> PROVE Missed(w)'
  BY <1>1, <1>3, StillMissed
\* An item that is there now was there.
<1>4. ASSUME w \in doubt => w \in doubt', UNCHANGED conv,
             \A b \in BookmarkIDs : bookmarks'[b] = bookmarks[b] \/ bookmarks'[b] = NoBookmark
                                    \/ (Present(b) /\ bookmarks'[b].ch = bookmarks[b].ch),
             api[cur[w]].ext \in pins' => api[cur[w]].ext \in pins,
             api[cur[w]].ext \in members' => api[cur[w]].ext \in members
      PROVE  Missed(w)'
  <2>1. ResolveConversationID(w)' = ResolveConversationID(w)
    BY <1>1, <1>4 DEF ResolveConversationID, ChannelOf
  <2>2. ListBookmarks(ResolveConversationID(w))' \subseteq ListBookmarks(ResolveConversationID(w))
    BY <1>4, <2>1 DEF ListBookmarks, Present
  <2>3. ItemIsThere(w)' => ItemIsThere(w)
    BY <1>1, <1>4, <2>2 DEF ItemIsThere
  <2> QED BY <1>1, <1>4, <2>3 DEF Missed, Absent
<1>5. ASSUME NEW n \in Convs, NEW e, ConversationChanges(n, e) PROVE Missed(w)'
  <2>1. CASE mg[w].spec.conv = n
    BY <1>0, <1>2, <1>5, <2>1 DEF ConversationChanges, Doubts
  <2>2. CASE mg[w].spec.conv # n
    <3>1. ResolveConversationID(w)' = ResolveConversationID(w)
      BY <1>1, <1>5, <2>2 DEF ConversationChanges, ResolveConversationID, ChannelOf, ItemInv, SlackOK, OthersOK
    <3>2. UNCHANGED <<bookmarks, pins, members>> /\ (w \in doubt => w \in doubt')
      BY <1>5 DEF ConversationChanges, itemVars, Doubts
    <3> QED BY <1>1, <3>1, <3>2 DEF Missed, Absent, ItemIsThere, ListBookmarks, Present
  <2> QED BY <2>1, <2>2
<1>6. ASSUME NEW c, SlackUserArchives(c) PROVE Missed(w)'
  BY <1>3, <1>6 DEF SlackUserArchives, itemVars
<1>7. ASSUME NEW b \in BookmarkIDs, NEW l,
             SlackUserEditsBookmark(b, NoBookmark) \/ SlackUserEditsBookmark(b, [bookmarks[b] EXCEPT !.body = l])
      PROVE  Missed(w)'
  <2>1. Present(b) /\ bookmarks[b] \in [ch : Channels, body : Links]
    BY <1>7 DEF ItemInv, SlackOK, ItemsOK, SlackUserEditsBookmark, Present
  <2>2. [bookmarks[b] EXCEPT !.body = l].ch = bookmarks[b].ch
    BY <2>1
  <2>3. PICK r : SlackUserEditsBookmark(b, r) /\ (r = NoBookmark \/ r.ch = bookmarks[b].ch)
    BY <1>7, <2>2
  <2>4. bookmarks' = [bookmarks EXCEPT ![b] = r] /\ bookmarks \in [BookmarkIDs -> [ch : Channels, body : Links] \cup {NoBookmark}]
    BY <2>3 DEF SlackUserEditsBookmark, ItemInv, SlackOK, ItemsOK
  <2>5. \A d \in BookmarkIDs : bookmarks'[d] = bookmarks[d] \/ bookmarks'[d] = NoBookmark
                               \/ (Present(d) /\ bookmarks'[d].ch = bookmarks[d].ch)
    BY <2>1, <2>3, <2>4
  <2>6. UNCHANGED <<conv, pins, members, doubt>>
    BY <2>3 DEF SlackUserEditsBookmark
  <2> QED BY <1>4, <2>5, <2>6
<1>8. ASSUME NEW p, SlackUserChangesPin(p) PROVE Missed(w)'
  <2>1. UNCHANGED <<conv, bookmarks, members>> /\ (w \in doubt => w \in doubt')
    BY <1>8 DEF SlackUserChangesPin, Doubts
  <2>2. CASE pins' \subseteq pins
    BY <1>4, <2>1, <2>2
  <2>3. CASE pins' = pins \cup {p} /\ Doubts(Recording(p))
    <3>1. CASE api[cur[w]].ext = p
      BY <1>0, <1>2, <2>3, <3>1 DEF Doubts, Recording
    <3>2. CASE api[cur[w]].ext # p
      BY <1>4, <2>1, <2>3, <3>2
    <3> QED BY <3>1, <3>2
  <2> QED BY <1>8, <2>2, <2>3 DEF SlackUserChangesPin
<1>9. ASSUME NEW p, SlackUserChangesMember(p) PROVE Missed(w)'
  <2>1. UNCHANGED <<conv, bookmarks, pins>> /\ (w \in doubt => w \in doubt')
    BY <1>9 DEF SlackUserChangesMember, Doubts
  <2>2. CASE members' \subseteq members
    BY <1>4, <2>1, <2>2
  <2>3. CASE members' = members \cup {p} /\ Doubts(Recording(p))
    <3>1. CASE api[cur[w]].ext = p
      BY <1>0, <1>2, <2>3, <3>1 DEF Doubts, Recording
    <3>2. CASE api[cur[w]].ext # p
      BY <1>4, <2>1, <2>3, <3>2
    <3> QED BY <3>1, <3>2
  <2> QED BY <1>9, <2>2, <2>3 DEF SlackUserChangesMember
<1>10. ASSUME NEW e, NEW u, DirectoryChanges(e, u) PROVE Missed(w)'
  BY <1>3, <1>10 DEF DirectoryChanges, itemVars
<1> QED BY <1>5, <1>6, <1>7, <1>8, <1>9, <1>10 DEF Others

LEMMA OthersKnow ==
    ASSUME ItemInv, KnowledgeInv, Others
    PROVE  KnowledgeInv'
<1>1. UNCHANGED <<api, cur, mg, fresh, obs, pc, kind>>
  BY OthersKeep DEF mrVars
<1>2. UNCHANGED made
  BY DEF Others, ConversationChanges, SlackUserArchives, SlackUserEditsBookmark, SlackUserChangesPin,
         SlackUserChangesMember, DirectoryChanges, itemVars
<1>3. ASSUME NEW w \in Workers PROVE KnowsItem(w)'
  <2>1. KnowsItem(w)
    BY DEF KnowledgeInv
  <2>2. Missed(w) /\ (Misses(w) \/ pc[w] = "critical") => Missed(w)'
    BY OthersMiss DEF Misses
  <2> QED BY <1>1, <1>2, <2>1, <2>2 DEF KnowsItem, Misses, WasMade
<1> QED BY <1>1, <1>2, <1>3, QuietMade DEF KnowledgeInv

-----------------------------------------------------------------------------
(* The other workers *)

\* A bookmark that is here now was here, in the same channel, before the step.
WasThere(b) ==
    \/ bookmarks'[b] = bookmarks[b] \/ bookmarks'[b] = NoBookmark
    \/ Present(b) /\ bookmarks'[b].ch = bookmarks[b].ch

\* The step brings about no item of kind k and name e.
BringsNot(k, e) ==
    /\ k = "bookmark" => \A b \in BookmarkIDs : e = BookmarkName(b) => WasThere(b)
    /\ k = "pin" /\ e \in pins' => e \in pins
    /\ k = "member" /\ e \in members' => e \in members

\* What is missing stays so unless somebody brings it about.
LEMMA StillAbsentIfNotBrought ==
    ASSUME NEW w \in Workers, Absent(w), BringsNot(kind[cur[w]], api[cur[w]].ext),
           kind[cur[w]] \in Kinds, UNCHANGED <<kind, conv>>, cur'[w] = cur[w], mg'[w].spec = mg[w].spec, api'[cur[w]].ext = api[cur[w]].ext
    PROVE  Absent(w)'
<1>1. ResolveConversationID(w)' = ResolveConversationID(w)
  BY DEF ResolveConversationID, ChannelOf
<1>2. ASSUME NEW b \in ListBookmarks(ResolveConversationID(w))', api[cur[w]].ext = BookmarkName(b),
             kind[cur[w]] = "bookmark"
      PROVE  b \in ListBookmarks(ResolveConversationID(w))
  BY <1>1, <1>2 DEF ListBookmarks, Present, BringsNot, WasThere
<1>3. ItemIsThere(w)' => ItemIsThere(w)
  BY <1>2 DEF ItemIsThere, BringsNot, Kinds
<1> QED BY <1>3 DEF Absent

\* Whatever a call brings about is a bookmark that was not made before, or those
\* at work on a resource that records it are in doubt.
LEMMA CallsBring ==
    ASSUME ItemInv, NEW v \in Workers, BookmarkStep(v) \/ PinStep(v) \/ MemberStep(v),
           NEW k \in Kinds, NEW e \in NamesOf(k),
           k = "bookmark" => \A b \in BookmarkIDs : e = BookmarkName(b) => b <= made
    PROVE  /\ BringsNot(k, e) \/ Recording(e) \ {v} \subseteq doubt'
           /\ doubt \ {v} \subseteq doubt'
           /\ UNCHANGED <<conv, kind, api>>
<1> DEFINE Goal == /\ BringsNot(k, e) \/ Recording(e) \ {v} \subseteq doubt'
                   /\ doubt \ {v} \subseteq doubt'
                   /\ UNCHANGED <<conv, kind, api>>
           Quiet == /\ doubt \ {v} \subseteq doubt'
                    /\ UNCHANGED <<conv, kind, api>>
<1>0. /\ made \in Nat /\ BookmarkIDs \subseteq Nat
      /\ bookmarks \in [BookmarkIDs -> [ch : Channels, body : Links] \cup {NoBookmark}]
  BY DEF ItemInv, SlackOK, ItemsOK, BookmarkIDs
<1>1. ASSUME UNCHANGED slackVars PROVE BringsNot(k, e) /\ UNCHANGED conv
  BY <1>1 DEF slackVars, itemVars, BringsNot, WasThere
\* What the control of a call does.
<1>2. \A ws : PhaseWith(v, ws) => doubt \ {v} \subseteq doubt' /\ ws \subseteq doubt'
  BY DEF PhaseWith
<1>3. UNCHANGED <<kind, api>>
  BY BookmarkKeeps, PinKeeps, MemberKeeps DEF CallKeeps, CallMoves
<1>4. ASSUME \/ \E o, c : Answer(v, o, c) \/ NoChannelToAsk(v, c)
             \/ \E c : Created(v, c) \/ CreatedUnheard(v, c)
             \/ \E r : CreateFails(v, r)
             \/ \E ok : CallEnds(v, ok)
             \/ \E s : Goto(v, s)
      PROVE  doubt \ {v} \subseteq doubt'
  BY <1>2, <1>4 DEF Answer, NoChannelToAsk, Created, CreatedUnheard, CreateFails, CallEnds, NextPhase, Goto
<1>5. ASSUME NEW x, ConnectAs(v, x) PROVE Goal
  BY <1>1, <1>3, <1>4, <1>5 DEF ConnectAs
<1>6. CASE ObserveBookmark(v) \/ ObservePin(v) \/ ObserveMember(v)
  BY <1>1, <1>3, <1>4, <1>6 DEF ObserveBookmark, ObservePin, ObserveMember
<1>7. CASE CreateBookmark(v)
  <2>1. UNCHANGED <<conv, pins, members>> /\ doubt \ {v} \subseteq doubt'
    BY <1>4, <1>7 DEF CreateBookmark, OthersSame
  <2>2. CASE Adds(v)
    <3>1. made' = made + 1 /\ \A b \in BookmarkIDs : b # made' => bookmarks'[b] = bookmarks[b]
      BY <1>0, <2>2 DEF Adds
    <3>2. k = "bookmark" => \A b \in BookmarkIDs : e = BookmarkName(b) => WasThere(b)
      BY <1>0, <3>1 DEF WasThere
    <3> QED BY <1>3, <2>1, <3>2 DEF BringsNot
  <2>3. CASE UNCHANGED bookmarks
    BY <1>3, <2>1, <2>3 DEF BringsNot, WasThere
  <2> QED BY <1>7, <2>2, <2>3 DEF CreateBookmark
<1>8. CASE UpdateBookmark(v) \/ DeleteBookmark(v)
  <2> DEFINE r == [ch |-> ResolveConversationID(v), body |-> mg[v].spec.body]
  <2>1. UNCHANGED <<conv, pins, members>> /\ doubt \ {v} \subseteq doubt'
    BY <1>4, <1>8 DEF UpdateBookmark, DeleteBookmark, OthersSame
  <2>2. ASSUME NEW q, Puts(v, q), q = NoBookmark \/ q.ch = ResolveConversationID(v)
        PROVE  \A b \in BookmarkIDs : WasThere(b)
    BY <2>2 DEF Puts, WasThere, Recorded, ListBookmarks
  <2>3. UNCHANGED bookmarks => \A b \in BookmarkIDs : WasThere(b)
    BY DEF WasThere
  <2>4. Puts(v, r) \/ Puts(v, NoBookmark) \/ UNCHANGED bookmarks
    BY <1>8 DEF UpdateBookmark, DeleteBookmark
  <2>5. r.ch = ResolveConversationID(v)
    OBVIOUS
  <2> HIDE DEF r
  <2> QED BY <1>3, <2>1, <2>2, <2>3, <2>4, <2>5 DEF BringsNot
<1>9. CASE CreatePin(v)
  <2>1. UNCHANGED <<conv, bookmarks, members>> /\ doubt \ {v} \subseteq doubt'
    BY <1>4, <1>9 DEF CreatePin, OnlyPins
  <2>2. \/ UNCHANGED pins
        \/ pins' = pins \cup {Wanted(v)} /\ Recording(Wanted(v)) \ {v} \subseteq doubt'
    BY <1>2, <1>9 DEF CreatePin, AddPin, Created, CreatedUnheard
  <2>3. BringsNot(k, e) \/ Recording(e) \ {v} \subseteq doubt'
    BY <2>1, <2>2 DEF BringsNot, WasThere
  <2> QED BY <1>3, <2>1, <2>3
<1>10. CASE DeletePin(v)
  BY <1>3, <1>4, <1>10 DEF DeletePin, OnlyPins, BringsNot, WasThere
<1>11. CASE ResolveInCreate(v)
  BY <1>1, <1>3, <1>4, <1>11 DEF ResolveInCreate
<1>12. CASE JoinAsBot(v)
  <2>1. UNCHANGED <<conv, bookmarks, pins>> /\ doubt \ {v} \subseteq doubt'
    BY <1>4, <1>12 DEF JoinAsBot, OnlyMembers
  <2>2. k = "member" => \A c : <<c, Bot>> # e
    BY ItemAssumption DEF Memberships, NamesOf
  <2>3. k = "member" /\ e \in members' => e \in members
    BY <1>12, <2>2 DEF JoinAsBot, Enters
  <2> QED BY <1>3, <2>1, <2>3 DEF BringsNot, WasThere
<1>13. CASE Invite(v)
  <2>1. UNCHANGED <<conv, bookmarks, pins>> /\ doubt \ {v} \subseteq doubt'
    BY <1>4, <1>13 DEF Invite, OnlyMembers
  <2>2. \/ UNCHANGED members
        \/ members' = members \cup {target[v]} /\ Recording(target[v]) \ {v} \subseteq doubt'
    BY <1>2, <1>13 DEF Invite, Enters, Created, CreatedUnheard
  <2>3. BringsNot(k, e) \/ Recording(e) \ {v} \subseteq doubt'
    BY <2>1, <2>2 DEF BringsNot, WasThere
  <2> QED BY <1>3, <2>1, <2>3
<1>14. CASE DeleteMember(v)
  BY <1>3, <1>4, <1>14 DEF DeleteMember, OnlyMembers, BringsNot, WasThere
<1> QED BY <1>5, <1>6, <1>7, <1>8, <1>9, <1>10, <1>11, <1>12, <1>13, <1>14
        DEF BookmarkStep, PinStep, MemberStep, ConnectBookmark, ConnectPin, ConnectMember

\* What w knows does not suffer from what another worker does meanwhile.
LEMMA StaysKnown ==
    ASSUME ItemInv, KnowledgeInv, NEW w \in Workers,
           pc'[w] = pc[w], cur'[w] = cur[w], mg'[w] = mg[w], obs'[w] = obs[w],
           w \in fresh' /\ pc[w] # "idle" => w \in fresh /\ api'[cur[w]] = api[cur[w]],
           InCreate(w) => api'[cur[w]].ext = api[cur[w]].ext,
           pc[w] # "idle" /\ api'[cur[w]].ext = api[cur[w]].ext /\ Missed(w) => Missed(w)',
           \A m \in MRs : \A e : WasMade(m, e) => WasMade(m, e)'
    PROVE  KnowsItem(w)'
<1>1. KnowsItem(w) /\ (pc[w] # "idle" => cur[w] \in MRs)
  BY DEF KnowledgeInv, ItemInv, MRTypeOK, WorkerOK
<1>2. Misses(w)' => Misses(w) /\ Missed(w)'
  BY <1>1 DEF KnowsItem, Misses, InCreate
<1>3. pc[w] = "critical" => WasMade(cur[w], mg[w].ext)' /\ (mg[w].ext # api'[cur[w]].ext => Missed(w)')
  BY <1>1 DEF KnowsItem, InCreate, WasMade
<1> QED BY <1>1, <1>2, <1>3 DEF KnowsItem, InCreate, Passed

LEMMA MadeStays ==
    ASSUME ItemInv, [Next]_vars, UNCHANGED kind
    PROVE  \A m \in MRs : \A e : WasMade(m, e) => WasMade(m, e)'
  BY StillMade

\* A worker that waits for a call or for the API server knows what it knew.
LEMMA OtherWorkerKnows ==
    ASSUME ItemInv, LoopInv, EverybodyNamed, KnowledgeInv, [Next]_vars, NEW v \in Workers,
           BookmarkStep(v) \/ PinStep(v) \/ MemberStep(v) \/ Runtime(v) \/ Dies(v),
           NEW w \in Workers \ {v}
    PROVE  KnowsItem(w)'
<1>0. /\ ItemsOK /\ MRTypeOK /\ WorkerOK /\ (pc[w] # "idle" => cur[w] \in MRs /\ kind[cur[w]] \in Kinds)
      /\ \A m \in MRs : WasMade(m, api[m].ext)
  BY DEF ItemInv, SlackOK, MRTypeOK, WorkerOK, PhaseOK, KnowledgeInv
<1>1. RuntimeStep(v) \/ ControllerStep(v) \/ Crash(v) \/ UNCHANGED mrVars
  BY BookmarkKeeps, PinKeeps, MemberKeeps DEF CallKeeps, CallMoves, Runtime, Dies
<1>2. UNCHANGED kind
  BY BookmarkKeeps, PinKeeps, MemberKeeps
     DEF CallKeeps, CallMoves, Runtime, Dies, NextPhase, PhaseWith
<1>3. pc'[w] = pc[w] /\ cur'[w] = cur[w] /\ mg'[w] = mg[w] /\ obs'[w] = obs[w]
  BY <1>0, <1>1, MovesAlone DEF mrVars
<1>4. ASSUME w \in fresh', pc[w] # "idle" PROVE w \in fresh /\ api'[cur[w]] = api[cur[w]]
  <2>1. CASE UNCHANGED mrVars
    BY <1>4, <2>1 DEF mrVars
  <2> QED BY <1>0, <1>1, <1>4, <2>1, FreshStays
<1>5. ASSUME InCreate(w) PROVE api'[cur[w]].ext = api[cur[w]].ext
  <2>1. RuntimeStep(v) \/ UNCHANGED api
    BY <1>1 DEF mrVars, ControllerStep, NameInObserve, NameInCreate, ObserveAnswers, CreateReturns,
                CallReturns, Calls, Crash
  <2> QED BY <1>5, <2>1, RecordStays
<1>6. ASSUME pc[w] # "idle", api'[cur[w]].ext = api[cur[w]].ext, Missed(w)
      PROVE  Missed(w)'
  <2>1. CASE api[cur[w]].ext \notin NamesOf(kind[cur[w]])
    BY <1>2, <1>3, <1>6, <2>1 DEF Missed, Absent
  <2>2. CASE /\ BookmarkStep(v) \/ PinStep(v) \/ MemberStep(v)
             /\ api[cur[w]].ext \in NamesOf(kind[cur[w]])
    <3>1. WasMade(cur[w], api[cur[w]].ext)
      BY <1>0, <1>6
    <3>2. /\ \/ BringsNot(kind[cur[w]], api[cur[w]].ext)
             \/ Recording(api[cur[w]].ext) \ {v} \subseteq doubt'
          /\ doubt \ {v} \subseteq doubt' /\ UNCHANGED <<conv, kind>>
      BY <1>0, <1>6, <2>2, <3>1, CallsBring DEF WasMade
    <3>3. w \in Recording(api[cur[w]].ext)
      BY <1>0, <1>6 DEF Recording
    <3>4. Absent(w) /\ BringsNot(kind[cur[w]], api[cur[w]].ext) => Absent(w)'
      BY <1>0, <1>3, <1>6, <3>2, StillAbsentIfNotBrought
    <3> QED BY <1>6, <3>2, <3>3, <3>4 DEF Missed
  <2>3. CASE Runtime(v) \/ Dies(v)
    <3>1. doubt \ {v} \subseteq doubt' /\ UNCHANGED <<kind, conv, bookmarks, pins, members>>
      BY <2>3 DEF Runtime, Dies, NextPhase, PhaseWith, slackVars, itemVars
    <3> QED BY <1>3, <1>6, <3>1, StillMissed
  <2> QED BY <2>1, <2>2, <2>3
<1> QED BY <1>2, <1>3, <1>4, <1>5, <1>6, MadeStays, StaysKnown

-----------------------------------------------------------------------------
(* Nothing is forgotten *)

LEMMA KnowledgeStep ==
    ASSUME ItemInv, LoopInv, EverybodyNamed, KnowledgeInv, [Next]_vars
    PROVE  KnowledgeInv'
<1>1. ASSUME NEW w \in Workers, BookmarkStep(w) \/ PinStep(w) \/ MemberStep(w) PROVE KnowledgeInv'
  <2>1. KnowsItem(w)'
    BY <1>1, CallsKnow
  <2>2. UNCHANGED <<api, kind>>
    BY <1>1, BookmarkKeeps, PinKeeps, MemberKeeps DEF CallKeeps, CallMoves
  <2>3. ASSUME NEW m \in MRs PROVE WasMade(m, api[m].ext)'
    <3>1. WasMade(m, api[m].ext) /\ made \in Nat /\ made' \in Nat /\ BookmarkIDs \subseteq Nat /\ made <= made'
      BY MadeGrows, ItemStep DEF KnowledgeInv, ItemInv, SlackOK, ItemsOK, BookmarkIDs
    <3>2. ASSUME NEW b \in BookmarkIDs, b <= made PROVE b <= made'
      BY <3>1, <3>2
    <3>3. kind' = kind /\ api' = api
      BY <2>2
    <3> QED BY <3>1, <3>2, <3>3, Zenon DEF WasMade
  <2> QED BY <1>1, <2>1, <2>3, OtherWorkerKnows DEF KnowledgeInv
<1>2. ASSUME NEW w \in Workers, Runtime(w) PROVE KnowledgeInv'
  BY <1>2, RuntimeKnows, OtherWorkerKnows DEF KnowledgeInv
<1>3. ASSUME NEW w \in Workers, Dies(w) PROVE KnowledgeInv'
  <2>1. pc'[w] = "idle" /\ UNCHANGED <<api, kind, made>>
    BY <1>3 DEF Dies, Crash, Release, Enter, NextPhase, PhaseWith, slackVars, itemVars, ItemInv, MRTypeOK, WorkerOK
  <2> QED BY <1>3, <2>1, KnowsNothing, QuietMade, OtherWorkerKnows DEF KnowledgeInv
<1>4. ASSUME UNCHANGED <<api, cur, mg, fresh, obs, pc, kind, doubt, slackVars>> PROVE KnowledgeInv'
  <2>1. UNCHANGED <<conv, bookmarks, made, pins, members>>
    BY <1>4 DEF slackVars, itemVars
  <2>2. ASSUME NEW w \in Workers PROVE KnowsItem(w)'
    <3>1. KnowsItem(w) /\ (Missed(w) => Missed(w)')
      BY <1>4, <2>1, StillMissed DEF KnowledgeInv
    <3> QED BY <1>4, <2>1, <3>1 DEF KnowsItem, Misses, WasMade
  <2> QED BY <1>4, <2>1, <2>2, QuietMade DEF KnowledgeInv
<1>5. ASSUME NEW w \in Workers, NEW m \in MRs, Informer(w, m) PROVE KnowledgeInv'
  BY <1>4, <1>5 DEF Informer, CacheSync
<1>6. CASE UNCHANGED vars
  BY <1>4, <1>6 DEF vars, mrVars
<1> QED BY <1>1, <1>2, <1>3, <1>5, <1>6, UsersKnow, OthersKnow DEF Next, Reconcile

LEMMA LetsGo ==
    ASSUME ItemInv, KnowledgeInv, [Next]_vars, NEW w \in Workers,
           pc[w] \in {"critical", "unfinalize"}, pc'[w] # pc[w],
           api[cur[w]].ext \in NamesOf(kind[cur[w]]), api'[cur[w]].ext # api[cur[w]].ext
    PROVE  ~ItemIsThere(w) \/ w \in doubt
<1>1. KnowsItem(w) /\ cur[w] \in MRs /\ (Missed(w) => ~ItemIsThere(w) \/ w \in doubt)
  BY DEF KnowledgeInv, ItemInv, MRTypeOK, WorkerOK, Missed, Absent
<1>2. Runtime(w)
  <2>1. ASSUME NEW v \in Workers, BookmarkStep(v) \/ PinStep(v) \/ MemberStep(v) PROVE UNCHANGED api
    BY <2>1, BookmarkKeeps, PinKeeps, MemberKeeps DEF CallKeeps, CallMoves
  <2>2. KubernetesUsers => UNCHANGED pc
    BY UsersKeep
  <2>3. Others => UNCHANGED pc
    BY OthersKeep DEF mrVars
  <2>4. UNCHANGED vars => UNCHANGED pc
    BY DEF vars, mrVars
  <2>5. ASSUME NEW v \in Workers, Dies(v) \/ \E m \in MRs : Informer(v, m) PROVE UNCHANGED api
    BY <2>5 DEF Dies, Crash, Informer, CacheSync
  <2>6. ASSUME NEW v \in Workers \ {w}, RuntimeStep(v) PROVE pc'[w] = pc[w]
    BY <2>6, MovesAlone DEF ItemInv, MRTypeOK
  <2> QED BY <2>1, <2>2, <2>3, <2>4, <2>5, <2>6 DEF Next, Reconcile, Runtime
<1>3. CASE RemoveFinalizer(w)
  <2>1. w \in fresh
    BY <1>3 DEF RemoveFinalizer, WriteFails
  <2> QED BY <1>1, <1>3, <2>1 DEF RemoveFinalizer, KnowsItem, Misses
<1>4. CASE UpdateCritical(w)
  <2> DEFINE o == [api[cur[w]] EXCEPT !.ext = mg[w].ext, !.create = mg[w].create]
  <2>1. o.ext = mg[w].ext
    BY <1>1 DEF ItemInv, MRTypeOK, ApiOK, Object
  <2>2. api'[cur[w]] = o
    BY <1>1, <1>4 DEF UpdateCritical, StoreBy, Store, ItemInv, MRTypeOK, ApiOK
  <2>3. pc[w] = "critical"
    BY <1>4 DEF UpdateCritical
  <2> HIDE DEF o
  <2> QED BY <1>1, <2>1, <2>2, <2>3 DEF KnowsItem
<1> QED BY <1>2, <1>3, <1>4
        DEF Runtime, RuntimeStep, Start, Initialize, AddFinalizer, CreatePending, StatusUpdate

\* The provider, in however many replicas, never loses sight of a bookmark, a pin
\* or a membership, whatever fails, whoever crashes and whatever others do: it lets
\* a resource go, or records another item for it, only as NeverForgotten says
\* (bookmark.go:97-177, pin.go:99-175, conversationmember.go:94-166).
THEOREM ItemsAreNotForgotten == Spec => NeverForgotten
<1>1. Init => KnowledgeInv
  BY OtherNames DEF Init, MRInit, KnowledgeInv, KnowsItem, Misses, Passed, WasMade, Blank
<1>2. ItemInv /\ LoopInv /\ EverybodyNamed /\ KnowledgeInv /\ [Next]_vars => KnowledgeInv'
  BY KnowledgeStep
<1>3. ItemInv /\ KnowledgeInv /\ [Next]_vars
          => [\A w \in Workers :
                LET m == cur[w]
                IN  /\ pc[w] \in {"critical", "unfinalize"} /\ pc'[w] # pc[w]
                    /\ m \in MRs /\ api[m].ext \in NamesOf(kind[m]) /\ api'[m].ext # api[m].ext
                    => ~ItemIsThere(w) \/ w \in doubt]_vars
  BY LetsGo
<1>4. Spec => []LoopInv /\ []EverybodyNamed
  BY ItemsInLoop, LoopInvariant, NamedInvariant, PTL
<1> QED BY <1>1, <1>2, <1>3, <1>4, ItemInvariant, PTL DEF Spec, NeverForgotten
=============================================================================
