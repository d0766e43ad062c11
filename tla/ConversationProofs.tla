-------------------------- MODULE ConversationProofs --------------------------
(***************************************************************************)
(* The Conversation controller runs inside the reconcile loop, keeps its   *)
(* types, and never forgets a channel it made, for every number of         *)
(* replicas, resources, channels and names and every bound on failures.    *)
(***************************************************************************)
EXTENDS ConversationProperties, ManagedReconcilerProofs

-----------------------------------------------------------------------------
(* Every step of the controller is a step of the loop *)

LEMMA ReturnIsStep ==
    ASSUME NEW w \in Workers, NEW ok \in BOOLEAN, UpdateReturns(w, ok), UNCHANGED faults \/ Fault
    PROVE  ControllerStep(w)
  BY DEF UpdateReturns, ControllerStep

LEMMA NameIsStep ==
    ASSUME NEW w \in Workers, NEW e \in NamesFor(w), NameInObserve(w, e) \/ NameInCreate(w, e),
           UNCHANGED faults
    PROVE  ControllerStep(w)
  BY DEF ControllerStep

LEMMA ObserveIsStep ==
    ASSUME MRTypeOK, NEW w \in Workers, Observe(w)
    PROVE  ControllerStep(w) \/ UNCHANGED mrVars
<1>1. CASE Connect(w)
  BY <1>1, AnswerIsStep DEF Connect, Stay, Observations
<1>2. CASE FindConversationByName(w)
  BY <1>2, AnswerIsStep, NameIsStep, SlackAssumption
     DEF FindConversationByName, Listed, Observations, NamesFor
<1>3. CASE GetConversationInfo(w)
  BY <1>3, AnswerIsStep, SlackAssumption DEF GetConversationInfo, Observations
<1> QED BY <1>1, <1>2, <1>3 DEF Observe

LEMMA CreateIsStep ==
    ASSUME MRTypeOK, NEW w \in Workers, Create(w)
    PROVE  ControllerStep(w) \/ UNCHANGED mrVars
<1>1. ASSUME NEW r, r = mg[w].synced \/ r \in ConditionReasons, CreateFails(w, r),
             UNCHANGED faults \/ Fault
      PROVE  ControllerStep(w)
  <2>1. mg[w] \in Object
    BY DEF MRTypeOK, WorkerOK
  <2>2. r = mg[w].synced => [mg[w] EXCEPT !.synced = r] = mg[w]
    BY <2>1, CopyForms
  <2> QED BY <1>1, <2>2, AnswerIsStep DEF CreateFails
<1>2. ASSUME NEW c \in NamesFor(w), NEW s, GoOnCreate(w, c, s), UNCHANGED faults
      PROVE  ControllerStep(w)
  <2>1. CASE NameInCreate(w, c)
    BY <1>2, <2>1, NameIsStep
  <2>2. CASE CreateReturns(w, TRUE, [mg[w] EXCEPT !.ext = c])
    <3>1. c = mg[w].ext => [mg[w] EXCEPT !.ext = c] = mg[w]
      BY CopyForms DEF MRTypeOK, WorkerOK, Object
    <3> QED BY <1>2, <2>2, <3>1, AnswerIsStep DEF NamesFor
  <2> QED BY <1>2, <2>1, <2>2 DEF GoOnCreate
<1>3. CASE CreateConversation(w)
  BY <1>1, <1>2, <1>3, SlackAssumption DEF CreateConversation, Stay, NamesFor
<1>4. CASE AdoptTaken(w)
  BY <1>1, <1>4, AnswerIsStep, SlackAssumption DEF AdoptTaken, Listed
<1>5. CASE SetTopicInCreate(w)
  BY <1>1, <1>2, <1>5 DEF SetTopicInCreate, Changes, ChangeFails, NamesFor
<1>6. CASE SetPurposeInCreate(w)
  BY <1>1, <1>6, AnswerIsStep DEF SetPurposeInCreate, Changes, ChangeFails
<1> QED BY <1>3, <1>4, <1>5, <1>6 DEF Create

LEMMA UpdateIsStep ==
    ASSUME MRTypeOK, NEW w \in Workers, Update(w) \/ ArchiveConversation(w)
    PROVE  ControllerStep(w) \/ UNCHANGED mrVars
<1>1. ASSUME NEW ch, NEW ss, GoOnUpdate(w, ch, ss), UNCHANGED faults
      PROVE  ControllerStep(w) \/ UNCHANGED mrVars
  BY <1>1, ReturnIsStep DEF GoOnUpdate, Stay
<1>2. CASE JoinConversation(w)
  BY <1>2, ReturnIsStep DEF JoinConversation, Stay
<1>3. CASE InfoForUpdate(w)
  BY <1>1, <1>3, ReturnIsStep DEF InfoForUpdate
<1>4. CASE RenameConversation(w)
  BY <1>1, <1>4, ReturnIsStep DEF RenameConversation, Changes, ChangeFails
<1>5. CASE SetConversationTopic(w)
  BY <1>1, <1>5, ReturnIsStep DEF SetConversationTopic, Changes, ChangeFails
<1>6. CASE SetConversationPurpose(w)
  BY <1>6, ReturnIsStep DEF SetConversationPurpose, Changes, ChangeFails
<1>7. CASE ArchiveConversation(w)
  BY <1>7, ReturnIsStep DEF ArchiveConversation
<1> QED BY <1>2, <1>3, <1>4, <1>5, <1>6, <1>7 DEF Update

LEMMA ReconcileIsStep ==
    ASSUME MRTypeOK, NEW w \in Workers, Reconcile(w)
    PROVE  MRNext \/ UNCHANGED mrVars
<1>1. CASE Runtime(w)
  BY <1>1 DEF Runtime, MRNext
<1>2. CASE Observe(w)
  BY <1>2, ObserveIsStep DEF MRNext
<1>3. CASE Create(w)
  BY <1>3, CreateIsStep DEF MRNext
<1>4. CASE Update(w) \/ ArchiveConversation(w)
  BY <1>4, UpdateIsStep DEF MRNext
<1> QED BY <1>1, <1>2, <1>3, <1>4 DEF Reconcile

\* The users of the API server may do in this module what they may do in the
\* loop; the users of Slack do not touch it.
LEMMA OthersAreSteps ==
    ASSUME MRTypeOK, \/ Users
                     \/ \E w \in Workers : Dies(w) \/ \E m \in MRs : Informer(w, m)
    PROVE  MRNext \/ UNCHANGED mrVars
<1>1. Imports \subseteq ExtNames \cup {NoExt}
  BY SlackAssumption DEF Imports
<1>2. ASSUME NEW m \in MRs, NEW s \in Specs, NEW e \in Imports, UserCreates(m, s, e)
      PROVE  EnvironmentStep
  BY <1>1, <1>2 DEF EnvironmentStep
<1>3. ASSUME NEW m \in MRs, UserDeletes(m) \/ \E s \in Specs : UserEdits(m, s)
      PROVE  EnvironmentStep
  BY <1>3 DEF EnvironmentStep
<1>4. ASSUME NEW c \in Channels,
             \/ \E n \in Names, p \in BOOLEAN : SlackUserCreates(c, n, p)
             \/ SlackUserChanges(c) \/ SlackUserRetires(c) \/ SlackUserRestores(c)
      PROVE  UNCHANGED mrVars
  BY <1>4 DEF SlackUserCreates, SlackUserChanges, SlackUserRetires, SlackUserRestores
<1>5. CASE Users
  BY <1>2, <1>3, <1>4, <1>5 DEF Users, MRNext
<1>6. CASE \E w \in Workers : Dies(w) \/ \E m \in MRs : Informer(w, m)
  BY <1>6 DEF Dies, Informer, EnvironmentStep, MRNext
<1> QED BY <1>5, <1>6

LEMMA StepIsLoopStep ==
    ASSUME MRTypeOK, [Next]_vars
    PROVE  [MRNext]_mrVars
<1>1. CASE \E w \in Workers : Reconcile(w)
  BY <1>1, ReconcileIsStep
<1>2. CASE \/ Users
           \/ \E w \in Workers : Dies(w) \/ \E m \in MRs : Informer(w, m)
  BY <1>2, OthersAreSteps
<1>3. CASE UNCHANGED vars
  BY <1>3 DEF vars
<1> QED BY <1>1, <1>2, <1>3 DEF Next

\* The Conversation controller implements the reconcile loop: whatever its
\* calls to Slack do, every step of it is one the loop allows a controller
\* (conversation.go:66-272 inside managed.Reconciler).
THEOREM ImplementsLoop == Spec => MRSpec
<1>1. Init => MRInit
  BY DEF Init
<1>2. MRTypeOK /\ [Next]_vars => MRTypeOK' /\ [MRNext]_mrVars
  <2> SUFFICES ASSUME MRTypeOK, [Next]_vars PROVE MRTypeOK' /\ [MRNext]_mrVars
    OBVIOUS
  <2>1. [MRNext]_mrVars
    BY StepIsLoopStep
  <2> QED BY <2>1, MRTypeStep
<1>3. MRInit => MRTypeOK
  BY MRTypeInit
<1> QED BY <1>1, <1>2, <1>3, PTL DEF Spec, MRSpec

-----------------------------------------------------------------------------
(* Types *)

LEMMA NoChannelType == NoChannel \in Channel
  BY SlackAssumption DEF NoChannel, Channel, Shown

LEMMA ShownType ==
    ASSUME NEW t, ptrValueOrEmpty(t) \in Texts
    PROVE  Shown(ptrValueOrEmpty(t)) \in [text : Texts, linked : BOOLEAN]
  BY DEF Shown

\* What the changes of a channel make of it.
LEMMA ChannelFields ==
    ASSUME NEW r \in Channel
    PROVE  /\ \A n \in Names : [r EXCEPT !.name = n] \in Channel
           /\ \A t \in [text : Texts, linked : BOOLEAN] :
                 [r EXCEPT !.topic = t] \in Channel /\ [r EXCEPT !.purpose = t] \in Channel
           /\ \A st \in {"unused", "live", "archived", "deleted"} :
                 [r EXCEPT !.state = st] \in Channel
           /\ \A n \in Names, p \in BOOLEAN :
                 [r EXCEPT !.state = "live", !.name = n, !.private = p] \in Channel
<1>1. \A n \in Names : [r EXCEPT !.name = n] \in Channel
  BY DEF Channel
<1>2. \A t \in [text : Texts, linked : BOOLEAN] :
         [r EXCEPT !.topic = t] \in Channel /\ [r EXCEPT !.purpose = t] \in Channel
  BY DEF Channel
<1>3. \A st \in {"unused", "live", "archived", "deleted"} : [r EXCEPT !.state = st] \in Channel
  BY DEF Channel
<1>4. \A n \in Names, p \in BOOLEAN :
         [r EXCEPT !.state = "live", !.name = n, !.private = p] \in Channel
  BY DEF Channel
<1> QED BY <1>1, <1>2, <1>3, <1>4

\* A worker in the middle of a reconcile has a spec of the right shape.
LEMMA SpecShape ==
    ASSUME LoopInv, NEW w \in Workers, pc[w] \notin {"idle", "status"}
    PROVE  /\ mg[w].spec.name \in Names /\ mg[w].spec.private \in BOOLEAN
           /\ ptrValueOrEmpty(mg[w].spec.topic) \in Texts
           /\ ptrValueOrEmpty(mg[w].spec.purpose) \in Texts
<1>1. mg[w] \in Object /\ mg[w].exists
  BY DEF LoopInv, MRTypeOK, WorkerOK, WorkerInv
<1>2. mg[w].spec \in [name : Names, private : BOOLEAN,
                      topic : Texts \cup {Nil}, purpose : Texts \cup {Nil}]
  BY <1>1, SlackAssumption DEF Object
<1> QED BY <1>2, SlackAssumption DEF ptrValueOrEmpty

LEMMA StepType ==
    ASSUME StepOK, NEW w \in Workers,
           \/ NextPhase(w)
           \/ \E s \in Steps : Goto(w, s)
           \/ \E ch \in Channel, s \in Steps :
                 step' = [step EXCEPT ![w] = s] /\ snap' = [snap EXCEPT ![w] = ch]
    PROVE  StepOK'
<1>1. CASE NextPhase(w)
  <2>1. FirstStep(pc'[w]) \in Steps
    BY DEF FirstStep, Steps
  <2> QED BY <1>1, <2>1, NoChannelType DEF NextPhase, StepOK
<1>2. CASE \E s \in Steps : Goto(w, s)
  BY <1>2 DEF Goto, StepOK
<1>3. CASE \E ch \in Channel, s \in Steps :
              step' = [step EXCEPT ![w] = s] /\ snap' = [snap EXCEPT ![w] = ch]
  BY <1>3 DEF StepOK
<1> QED BY <1>1, <1>2, <1>3

LEMMA MakeType ==
    ASSUME SlackOK, NEW c \in Channels, NEW m \in MRs \cup {NoMR},
           NEW n \in Names, NEW p \in BOOLEAN, Make(c, m, n, p)
    PROVE  chan' \in [Channels -> Channel] /\ madeFor' \in [Channels -> MRs \cup {NoMR}]
<1>1. [NoChannel EXCEPT !.state = "live", !.name = n, !.private = p] \in Channel
  BY NoChannelType, ChannelFields
<1> QED BY <1>1 DEF Make, SlackOK

LEMMA RetireType ==
    ASSUME SlackOK, NEW c \in Channels, NEW r \in Channel, Retire(c, r)
    PROVE  /\ chan' \in [Channels -> Channel] /\ madeFor' \in [Channels -> MRs \cup {NoMR}]
           /\ acked' \in SUBSET Channels
  BY DEF Retire, SlackOK

LEMMA ChangeType ==
    ASSUME SlackOK, NEW c \in Channels, NEW r \in Channel, Changes(c, r) \/ ChangeFails(c, r),
           UNCHANGED <<madeFor, acked, drift>>
    PROVE  SlackOK'
  BY DEF Changes, ChangeFails, SlackOK

LEMMA GoOnCreateType ==
    ASSUME StepOK, NEW w \in Workers, NEW c, NEW s, GoOnCreate(w, c, s)
    PROVE  StepOK'
  BY StepType DEF GoOnCreate, Steps

LEMMA GoOnUpdateType ==
    ASSUME StepOK, NEW w \in Workers, NEW ch \in Channel, NEW ss, GoOnUpdate(w, ch, ss)
    PROVE  StepOK'
<1>1. CASE UpdateReturns(w, TRUE)
  BY <1>1, StepType DEF UpdateReturns
<1>2. CASE ss # {}
  <2> DEFINE s == CASE "rename" \in ss -> "rename" [] "topic" \in ss -> "topic" [] OTHER -> "purpose"
  <2>1. s \in Steps
    BY DEF Steps
  <2>2. step' = [step EXCEPT ![w] = s] /\ snap' = [snap EXCEPT ![w] = ch]
    BY <1>2 DEF GoOnUpdate
  <2> HIDE DEF s
  <2> QED BY <2>1, <2>2, StepType
<1> QED BY <1>1, <1>2 DEF GoOnUpdate

LEMMA ObserveType ==
    ASSUME TypeOK, NEW w \in Workers, Observe(w)
    PROVE  StepOK' /\ SlackOK'
<1>0. StepOK /\ SlackOK
  BY DEF TypeOK
<1>1. UNCHANGED slackVars => SlackOK'
  BY <1>0 DEF SlackOK, slackVars
<1>2. CASE Connect(w)
  BY <1>0, <1>1, <1>2, StepType DEF Connect, Steps
<1>3. CASE FindConversationByName(w)
  BY <1>0, <1>1, <1>3, StepType DEF FindConversationByName, Steps
<1>4. CASE GetConversationInfo(w)
  BY <1>0, <1>1, <1>4, StepType DEF GetConversationInfo
<1> QED BY <1>2, <1>3, <1>4 DEF Observe

LEMMA CreateType ==
    ASSUME TypeOK, LoopInv, NEW w \in Workers, Create(w), Addressed(w)
    PROVE  StepOK' /\ SlackOK'
<1>0. StepOK /\ SlackOK
  BY DEF TypeOK
<1>1. CASE CreateConversation(w)
  <2>1. pc[w] = "create" /\ cur[w] \in MRs
    BY <1>1 DEF CreateConversation, At, LoopInv, MRTypeOK, WorkerOK
  <2>2. mg[w].spec.name \in Names /\ mg[w].spec.private \in BOOLEAN
    BY <2>1, SpecShape
  <2>3. StepOK'
    BY <1>0, <1>1, StepType, GoOnCreateType DEF CreateConversation, CreateFails, Steps
  <2>4. SlackOK'
    BY <1>0, <1>1, <2>1, <2>2, MakeType DEF CreateConversation, SlackOK
  <2> QED BY <2>3, <2>4
<1>2. CASE AdoptTaken(w)
  BY <1>0, <1>2, StepType DEF AdoptTaken, CreateFails, SlackOK, slackVars
<1>3. CASE SetTopicInCreate(w)
  <2>1. pc[w] = "create" /\ mg[w].ext \in Channels
    BY <1>3 DEF SetTopicInCreate, At, Addressed, isChannelID
  <2>2. [chan[mg[w].ext] EXCEPT !.topic = Shown(ptrValueOrEmpty(mg[w].spec.topic))] \in Channel
    BY <1>0, <2>1, SpecShape, ShownType, ChannelFields DEF SlackOK
  <2>3. StepOK'
    BY <1>0, <1>3, StepType, GoOnCreateType DEF SetTopicInCreate, CreateFails
  <2> QED BY <1>0, <1>3, <2>1, <2>2, <2>3, ChangeType DEF SetTopicInCreate
<1>4. CASE SetPurposeInCreate(w)
  <2>1. pc[w] = "create" /\ mg[w].ext \in Channels
    BY <1>4 DEF SetPurposeInCreate, At, Addressed, isChannelID
  <2>2. [chan[mg[w].ext] EXCEPT !.purpose = Shown(ptrValueOrEmpty(mg[w].spec.purpose))] \in Channel
    BY <1>0, <2>1, SpecShape, ShownType, ChannelFields DEF SlackOK
  <2>3. StepOK'
    BY <1>0, <1>4, StepType DEF SetPurposeInCreate, CreateFails
  <2> QED BY <1>0, <1>4, <2>1, <2>2, <2>3, ChangeType DEF SetPurposeInCreate
<1> QED BY <1>1, <1>2, <1>3, <1>4 DEF Create

LEMMA UpdateType ==
    ASSUME TypeOK, LoopInv, NEW w \in Workers, Update(w), Addressed(w)
    PROVE  StepOK' /\ SlackOK'
<1>0. StepOK /\ SlackOK /\ snap[w] \in Channel /\ pc[w] = "update" /\ mg[w].ext \in Channels
  BY DEF TypeOK, StepOK, Addressed, isChannelID, Update, At, JoinConversation, InfoForUpdate,
         RenameConversation, SetConversationTopic, SetConversationPurpose
<1>1. chan[mg[w].ext] \in Channel
  BY <1>0 DEF SlackOK
<1>2. CASE JoinConversation(w)
  BY <1>0, <1>2, StepType DEF JoinConversation, UpdateReturns, Steps, SlackOK, slackVars
<1>3. CASE InfoForUpdate(w)
  <2>1. StepOK'
    BY <1>0, <1>1, <1>3, StepType, GoOnUpdateType DEF InfoForUpdate, UpdateReturns
  <2> QED BY <1>0, <1>3, <2>1 DEF InfoForUpdate, SlackOK, slackVars
<1>4. CASE RenameConversation(w)
  <2>1. [chan[mg[w].ext] EXCEPT !.name = mg[w].spec.name] \in Channel
    BY <1>0, <1>1, SpecShape, ChannelFields
  <2>2. StepOK'
    BY <1>0, <1>4, StepType, GoOnUpdateType DEF RenameConversation, UpdateReturns
  <2> QED BY <1>0, <1>4, <2>1, <2>2, ChangeType DEF RenameConversation, SlackOK
<1>5. CASE SetConversationTopic(w)
  <2>1. [chan[mg[w].ext] EXCEPT !.topic = Shown(ptrValueOrEmpty(mg[w].spec.topic))] \in Channel
    BY <1>0, <1>1, SpecShape, ShownType, ChannelFields
  <2>2. StepOK'
    BY <1>0, <1>5, StepType, GoOnUpdateType DEF SetConversationTopic, UpdateReturns
  <2> QED BY <1>0, <1>5, <2>1, <2>2, ChangeType DEF SetConversationTopic
<1>6. CASE SetConversationPurpose(w)
  <2>1. [chan[mg[w].ext] EXCEPT !.purpose = Shown(ptrValueOrEmpty(mg[w].spec.purpose))] \in Channel
    BY <1>0, <1>1, SpecShape, ShownType, ChannelFields
  <2>2. StepOK'
    BY <1>0, <1>6, StepType DEF SetConversationPurpose, UpdateReturns
  <2> QED BY <1>0, <1>6, <2>1, <2>2, ChangeType DEF SetConversationPurpose
<1> QED BY <1>2, <1>3, <1>4, <1>5, <1>6 DEF Update

LEMMA ArchiveType ==
    ASSUME TypeOK, NEW w \in Workers, ArchiveConversation(w), Addressed(w)
    PROVE  StepOK' /\ SlackOK'
<1>0. StepOK /\ SlackOK /\ mg[w].ext \in Channels
  BY DEF TypeOK, ArchiveConversation, At, Addressed, isChannelID
<1>1. [chan[mg[w].ext] EXCEPT !.state = "archived"] \in Channel
  BY <1>0, ChannelFields DEF SlackOK
<1>2. StepOK'
  BY <1>0, StepType DEF ArchiveConversation, UpdateReturns
<1> QED BY <1>0, <1>1, <1>2, RetireType DEF ArchiveConversation, SlackOK

LEMMA UsersType ==
    ASSUME TypeOK, Users
    PROVE  StepOK' /\ SlackOK'
<1>0. StepOK /\ SlackOK /\ drift \in 0 .. MaxDrift
  BY DEF TypeOK, SlackOK
<1>1. Drift => drift' \in 0 .. MaxDrift
  BY <1>0, SlackAssumption DEF Drift
<1>2. UNCHANGED <<step, snap, slackVars>> => StepOK' /\ SlackOK'
  BY <1>0 DEF StepOK, SlackOK, slackVars
<1>3. UNCHANGED <<step, snap>> => StepOK'
  BY <1>0 DEF StepOK
<1>4. ASSUME NEW c \in Channels, NEW n \in Names, NEW p \in BOOLEAN, SlackUserCreates(c, n, p)
      PROVE  StepOK' /\ SlackOK'
  BY <1>0, <1>1, <1>3, <1>4, MakeType DEF SlackUserCreates, SlackOK
<1>5. ASSUME NEW c \in Channels, SlackUserChanges(c) PROVE StepOK' /\ SlackOK'
  <2>1. chan[c] \in Channel
    BY <1>0 DEF SlackOK
  <2>2. \A t \in Texts : Shown(t) \in [text : Texts, linked : BOOLEAN]
    BY DEF Shown
  <2>3. PICK r \in Channel : chan' = [chan EXCEPT ![c] = r]
    BY <1>5, <2>1, <2>2, ChannelFields DEF SlackUserChanges
  <2> QED BY <1>0, <1>1, <1>3, <1>5, <2>3 DEF SlackUserChanges, SlackOK
<1>6. ASSUME NEW c \in Channels, SlackUserRetires(c) PROVE StepOK' /\ SlackOK'
  <2>1. /\ [chan[c] EXCEPT !.state = "archived"] \in Channel
        /\ [NoChannel EXCEPT !.state = "deleted"] \in Channel
    BY <1>0, NoChannelType, ChannelFields DEF SlackOK
  <2> QED BY <1>0, <1>1, <1>3, <1>6, <2>1, RetireType DEF SlackUserRetires, SlackOK
<1>7. ASSUME NEW c \in Channels, SlackUserRestores(c) PROVE StepOK' /\ SlackOK'
  <2>1. [chan[c] EXCEPT !.state = "live"] \in Channel
    BY <1>0, ChannelFields DEF SlackOK
  <2> QED BY <1>0, <1>1, <1>3, <1>7, <2>1 DEF SlackUserRestores, SlackOK
<1> QED BY <1>2, <1>4, <1>5, <1>6, <1>7 DEF Users

LEMMA TypeStep ==
    ASSUME TypeOK, LoopInv, \A w \in Workers : Addressed(w), [Next]_vars
    PROVE  TypeOK'
<1>0. StepOK /\ SlackOK /\ MRTypeOK /\ MRTypeOK'
  BY StepIsLoopStep, MRTypeStep DEF TypeOK
<1>1. UNCHANGED slackVars => SlackOK'
  BY <1>0 DEF SlackOK, slackVars
<1>2. ASSUME NEW w \in Workers, Runtime(w) \/ Dies(w) PROVE StepOK' /\ SlackOK'
  BY <1>0, <1>1, <1>2, StepType DEF Runtime, Dies
<1>3. ASSUME NEW w \in Workers, NEW m \in MRs, Informer(w, m) PROVE StepOK' /\ SlackOK'
  BY <1>0, <1>1, <1>3 DEF Informer, StepOK
<1>4. UNCHANGED vars => StepOK' /\ SlackOK'
  BY <1>0, <1>1 DEF vars, StepOK
<1>5. StepOK' /\ SlackOK'
  BY <1>2, <1>3, <1>4, ObserveType, CreateType, UpdateType, ArchiveType, UsersType
     DEF Next, Reconcile
<1> QED BY <1>0, <1>5 DEF TypeOK

-----------------------------------------------------------------------------
(* Calls by ID *)

\* A step of w moves no other worker.
LEMMA OthersStay ==
    ASSUME TypeOK, NEW w \in Workers, Reconcile(w) \/ Dies(w), NEW v \in Workers \ {w}
    PROVE  /\ pc'[v] = pc[v] /\ cur'[v] = cur[v] /\ mg'[v] = mg[v] /\ obs'[v] = obs[v]
           /\ step'[v] = step[v]
<1>0. WorkerOK /\ MRTypeOK /\ step \in [Workers -> Steps]
  BY DEF TypeOK, MRTypeOK, StepOK
<1>1. RuntimeStep(w) \/ ControllerStep(w) \/ Crash(w) \/ UNCHANGED mrVars
  BY <1>0, ObserveIsStep, CreateIsStep, UpdateIsStep DEF Reconcile, Runtime, Dies
<1>2. pc'[v] = pc[v] /\ cur'[v] = cur[v] /\ mg'[v] = mg[v] /\ obs'[v] = obs[v]
  BY <1>0, <1>1, MovesAlone DEF mrVars
<1>3. ASSUME NEW s, step' = [step EXCEPT ![w] = s] PROVE step'[v] = step[v]
  BY <1>0, <1>3
<1>4. NextPhase(w) => step'[v] = step[v]
  BY <1>3 DEF NextPhase
<1>5. ASSUME NEW s, Goto(w, s) PROVE step'[v] = step[v]
  BY <1>3, <1>5 DEF Goto
<1>6. ASSUME NEW ch, NEW ss, GoOnUpdate(w, ch, ss) PROVE step'[v] = step[v]
  BY <1>3, <1>4, <1>6 DEF GoOnUpdate, UpdateReturns
<1>7. Runtime(w) \/ Dies(w) \/ ArchiveConversation(w) => step'[v] = step[v]
  BY <1>4 DEF Runtime, Dies, ArchiveConversation, UpdateReturns
<1>8. Observe(w) => step'[v] = step[v]
  BY <1>4, <1>5 DEF Observe, Connect, FindConversationByName, GetConversationInfo
<1>9. Create(w) => step'[v] = step[v]
  BY <1>4, <1>5 DEF Create, CreateConversation, AdoptTaken, SetTopicInCreate, SetPurposeInCreate,
                    GoOnCreate, CreateFails
<1>10. Update(w) => step'[v] = step[v]
  BY <1>4, <1>5, <1>6 DEF Update, JoinConversation, InfoForUpdate, RenameConversation,
                          SetConversationTopic, SetConversationPurpose, UpdateReturns
<1> QED BY <1>2, <1>7, <1>8, <1>9, <1>10 DEF Reconcile

\* A worker that enters a phase is at its first call.
LEMMA Entered ==
    ASSUME TypeOK, NEW w \in Workers, NEW m, NEW o, NEW p, Enter(w, m, o, p), NextPhase(w)
    PROVE  /\ pc'[w] = p /\ cur'[w] = m /\ mg'[w] = o /\ obs'[w] = "error"
           /\ step'[w] = FirstStep(p)
           /\ (p \notin {"update", "delete"} \/ isChannelID(o.ext)) => Addressed(w)'
<1>1. pc'[w] = p /\ cur'[w] = m /\ mg'[w] = o /\ obs'[w] = "error"
  BY DEF TypeOK, MRTypeOK, WorkerOK, Enter
<1>2. step'[w] = FirstStep(p)
  BY <1>1 DEF TypeOK, StepOK, NextPhase
<1> QED BY <1>1, <1>2 DEF Addressed, At, FirstStep, isChannelID

LEMMA RuntimeAddressed ==
    ASSUME TypeOK, NEW w \in Workers, Addressed(w), Runtime(w)
    PROVE  Addressed(w)'
<1>0. mg[w] \in Object /\ NextPhase(w)
  BY DEF TypeOK, MRTypeOK, WorkerOK, Runtime
<1>1. ASSUME NEW m, NEW o, NEW p, Enter(w, m, o, p),
             p \notin {"update", "delete"} \/ isChannelID(o.ext)
      PROVE  Addressed(w)'
  BY <1>0, <1>1, Entered
<1>2. CASE \/ \E m \in MRs : Start(w, m)
           \/ Initialize(w) \/ RemoveFinalizer(w) \/ CreatePending(w) \/ UpdateCritical(w)
           \/ StatusUpdate(w)
  BY <1>1, <1>2 DEF Start, PassGate, Initialize, WriteFails, Release, Report, RemoveFinalizer,
                    CreatePending, UpdateCritical, StatusUpdate
<1>3. CASE AddFinalizer(w)
  <2> DEFINE o == [mg[w] EXCEPT !.fin = TRUE, !.synced = api[cur[w]].synced]
  <2>1. o.ext = mg[w].ext /\ pc[w] = "finalize"
    BY <1>0, <1>3 DEF Object, AddFinalizer
  <2>2. CASE Decide(w, obs[w], o)
    <3> HIDE DEF o
    <3> QED BY <1>1, <2>1, <2>2 DEF Decide, Addressed, Report
  <2>3. CASE WriteFails(w)
    BY <1>1, <2>3 DEF WriteFails, Release, Report
  <2> QED BY <1>3, <2>2, <2>3 DEF AddFinalizer
<1> QED BY <1>2, <1>3 DEF Runtime, RuntimeStep

\* Observe answers about the channel it has found.
LEMMA AnswerAddressed ==
    ASSUME TypeOK, NEW w \in Workers, NEW o \in Observations, NEW c, ObserveAnswers(w, o, c),
           o \in {"drifted", "uptodate"} => isChannelID(c.ext), NextPhase(w)
    PROVE  Addressed(w)'
<1>1. ASSUME NEW m, NEW p, Enter(w, m, c, p), p \notin {"update", "delete"} \/ isChannelID(c.ext)
      PROVE  Addressed(w)'
  BY <1>1, Entered
<1>2. CASE Report(w, c, "ReconcileError") \/ Report(w, c, "ReconcileSuccess")
  BY <1>2, Entered DEF Report
<1>3. CASE /\ pc' = [pc EXCEPT ![w] = "finalize"] /\ mg' = [mg EXCEPT ![w] = c]
           /\ obs' = [obs EXCEPT ![w] = o]
  <2>1. pc'[w] = "finalize" /\ mg'[w] = c /\ obs'[w] = o
    BY <1>3 DEF TypeOK, MRTypeOK, WorkerOK
  <2> QED BY <2>1 DEF Addressed, At, isChannelID
<1> QED BY <1>1, <1>2, <1>3 DEF ObserveAnswers, Decide

LEMMA ObserveAddressed ==
    ASSUME TypeOK, NEW w \in Workers, Addressed(w), Observe(w)
    PROVE  Addressed(w)'
<1>0. mg[w] \in Object /\ mg \in [Workers -> Object] /\ step \in [Workers -> Steps]
      /\ pc[w] = "observe"
  BY DEF TypeOK, MRTypeOK, WorkerOK, StepOK, Observe, Connect, FindConversationByName,
         GetConversationInfo, At
<1>1. \A r : [mg[w] EXCEPT !.synced = r].ext = mg[w].ext
  BY <1>0 DEF Object
<1>2. CASE Connect(w)
  <2>1. CASE /\ Goto(w, IF isChannelID(mg[w].ext) THEN "info" ELSE "find") /\ Stay
    BY <1>0, <2>1 DEF Goto, Stay, mrVars, Addressed, At, isChannelID
  <2> QED BY <1>2, <2>1, AnswerAddressed DEF Connect, Observations
<1>3. CASE FindConversationByName(w)
  <2>1. ASSUME NEW c \in Channels, NameInObserve(w, c), Goto(w, "info")
        PROVE  Addressed(w)'
    <3>1. mg'[w].ext = c
      BY <1>0, <2>1 DEF NameInObserve, Object
    <3> QED BY <3>1 DEF Addressed, isChannelID
  <2> QED BY <1>3, <2>1, AnswerAddressed DEF FindConversationByName, Observations, Listed
<1>4. CASE GetConversationInfo(w)
  <2>1. isChannelID(mg[w].ext)
    BY <1>4 DEF GetConversationInfo, Addressed
  <2> QED BY <1>1, <1>4, <2>1, AnswerAddressed DEF GetConversationInfo, Observations
<1> QED BY <1>2, <1>3, <1>4 DEF Observe

LEMMA CreateAddressed ==
    ASSUME TypeOK, NEW w \in Workers, Addressed(w), Create(w)
    PROVE  Addressed(w)'
<1>0. mg[w] \in Object /\ mg \in [Workers -> Object] /\ step \in [Workers -> Steps]
  BY DEF TypeOK, MRTypeOK, WorkerOK, StepOK
<1>1. ASSUME NEW ok, NEW c, CreateReturns(w, ok, c), NextPhase(w) PROVE Addressed(w)'
  BY <1>1, Entered DEF CreateReturns
<1>2. ASSUME NEW c \in Channels, NEW s, GoOnCreate(w, c, s) PROVE Addressed(w)'
  <2>1. CASE NameInCreate(w, c)
    <3>1. mg'[w].ext = c
      BY <1>0, <2>1 DEF NameInCreate, Object
    <3> QED BY <3>1 DEF Addressed, isChannelID
  <2> QED BY <1>1, <1>2, <2>1 DEF GoOnCreate
<1>3. CASE CreateConversation(w)
  <2>1. CASE Goto(w, "adopt") /\ Stay
    BY <1>0, <1>3, <2>1 DEF CreateConversation, Goto, Stay, mrVars, Addressed, At
  <2> QED BY <1>1, <1>2, <1>3, <2>1 DEF CreateConversation, CreateFails
<1>4. CASE AdoptTaken(w)
  BY <1>1, <1>4 DEF AdoptTaken, CreateFails
<1>5. CASE SetTopicInCreate(w)
  <2>1. mg[w].ext \in Channels
    BY <1>5 DEF SetTopicInCreate, Addressed, At, isChannelID
  <2> QED BY <1>1, <1>2, <1>5, <2>1 DEF SetTopicInCreate, CreateFails
<1>6. CASE SetPurposeInCreate(w)
  BY <1>1, <1>6 DEF SetPurposeInCreate, CreateFails
<1> QED BY <1>3, <1>4, <1>5, <1>6 DEF Create

\* In Update and Delete the ID does not change.
LEMMA UpdateAddressed ==
    ASSUME TypeOK, NEW w \in Workers, Addressed(w), Update(w) \/ ArchiveConversation(w)
    PROVE  Addressed(w)'
<1>1. ASSUME NEW ok, UpdateReturns(w, ok) PROVE Addressed(w)'
  BY <1>1, Entered DEF UpdateReturns, CallReturns, Report
<1>2. pc[w] \in {"update", "delete"}
  BY DEF Update, JoinConversation, InfoForUpdate, RenameConversation, SetConversationTopic,
         SetConversationPurpose, ArchiveConversation, At
<1>3. Stay => Addressed(w)'
  BY <1>2 DEF Stay, mrVars, Addressed, isChannelID
<1>4. ASSUME NEW ch, NEW ss, GoOnUpdate(w, ch, ss) PROVE Addressed(w)'
  BY <1>1, <1>3, <1>4 DEF GoOnUpdate
<1>5. CASE Update(w)
  BY <1>1, <1>3, <1>4, <1>5
     DEF Update, JoinConversation, InfoForUpdate, RenameConversation, SetConversationTopic,
         SetConversationPurpose
<1>6. CASE ArchiveConversation(w)
  BY <1>1, <1>6 DEF ArchiveConversation
<1> QED BY <1>5, <1>6

\* Users and informers move no worker.
LEMMA WorkersStay ==
    ASSUME Users \/ (\E w \in Workers, m \in MRs : Informer(w, m)) \/ UNCHANGED vars
    PROVE  UNCHANGED <<pc, cur, mg, obs, step, snap>>
<1>1. ASSUME NEW m \in MRs, UserDeletes(m) \/ (\E s \in Specs : UserEdits(m, s))
                            \/ \E s \in Specs, e \in Imports : UserCreates(m, s, e)
      PROVE  UNCHANGED <<pc, cur, mg, obs>>
  BY <1>1 DEF UserDeletes, UserEdits, UserCreates, EditOnly
<1>2. CASE Users
  BY <1>1, <1>2 DEF Users, SlackUserCreates, SlackUserChanges, SlackUserRetires,
                    SlackUserRestores, mrVars
<1>3. CASE \E w \in Workers, m \in MRs : Informer(w, m)
  BY <1>3 DEF Informer, CacheSync
<1> QED BY <1>2, <1>3 DEF vars, mrVars

LEMMA AddressedStep ==
    ASSUME TypeOK, \A w \in Workers : Addressed(w), [Next]_vars, NEW v \in Workers
    PROVE  Addressed(v)'
<1>1. ASSUME NEW w \in Workers, Reconcile(w) \/ Dies(w) PROVE Addressed(v)'
  <2>1. CASE v # w
    BY <1>1, <2>1, OthersStay DEF Addressed, At, isChannelID
  <2>2. CASE v = w /\ Reconcile(w)
    BY <2>2, RuntimeAddressed, ObserveAddressed, CreateAddressed, UpdateAddressed DEF Reconcile
  <2>3. CASE v = w /\ Dies(w)
    BY <2>3, Entered DEF Dies, Crash, Release
  <2> QED BY <1>1, <2>1, <2>2, <2>3
<1>2. CASE Users \/ (\E w \in Workers, m \in MRs : Informer(w, m)) \/ UNCHANGED vars
  BY <1>2, WorkersStay DEF Addressed, At, isChannelID
<1> QED BY <1>1, <1>2 DEF Next

-----------------------------------------------------------------------------
(* The theorems on types *)

LEMMA TypeInit == Init => TypeOK /\ \A w \in Workers : Addressed(w)
<1> SUFFICES ASSUME Init PROVE TypeOK /\ \A w \in Workers : Addressed(w)
  OBVIOUS
<1>1. MRTypeOK
  BY MRTypeInit DEF Init
<1>2. StepOK /\ SlackOK
  BY NoChannelType, SlackAssumption DEF Init, StepOK, SlackOK, Steps
<1>3. \A w \in Workers : Addressed(w)
  BY DEF Init, MRInit, Addressed, At
<1> QED BY <1>1, <1>2, <1>3 DEF TypeOK

\* Every variable keeps its type, and calls about a channel carry an ID
\* (conversation.go:66-272).
THEOREM TypeCorrect == Spec => [](TypeOK /\ \A w \in Workers : Addressed(w))
<1>1. LoopInv /\ TypeOK /\ (\A w \in Workers : Addressed(w)) /\ [Next]_vars
          => TypeOK' /\ (\A w \in Workers : Addressed(w))'
  BY TypeStep, AddressedStep
<1>2. Spec => []LoopInv
  BY ImplementsLoop, LoopInvariant, PTL
<1> QED BY <1>1, <1>2, TypeInit, PTL DEF Spec

-----------------------------------------------------------------------------
(* Channels that are held *)

\* A step that gives no channel away: what is still acknowledged afterwards was
\* so before, is held by the same resource, and is up.
HoldsNoMore ==
    \A c \in acked' : c \in acked /\ madeFor'[c] = madeFor[c] /\ chan'[c].state = "live"

\* What HeldInv says of Slack alone.
HeldLive == \A c \in acked : madeFor[c] \in MRs /\ Live(c)

LEMMA FewerHeld ==
    ASSUME HoldsNoMore, HeldLive
    PROVE  /\ HeldLive'
           /\ \A m : NoneHeld(m) => NoneHeld(m)'
           /\ \A m, e : HeldIs(m, e) => HeldIs(m, e)'
           /\ OneChannelPerResource => OneChannelPerResource'
<1>1. HeldLive'
  BY DEF HoldsNoMore, HeldLive, Live
<1>2. \A m, c : Holds(m, c)' => Holds(m, c)
  BY DEF HoldsNoMore, Holds
<1> QED BY <1>1, <1>2 DEF NoneHeld, HeldIs, OneChannelPerResource

\* Changes of a channel that is up leave it up.
LEMMA ChangeHolds ==
    ASSUME SlackOK, HeldLive, NEW c \in Channels, NEW r, r.state = chan[c].state,
           Changes(c, r) \/ ChangeFails(c, r), UNCHANGED <<madeFor, acked>>
    PROVE  HoldsNoMore
  BY DEF Changes, ChangeFails, HoldsNoMore, HeldLive, Live, SlackOK

LEMMA SameSlackHolds ==
    ASSUME HeldLive, UNCHANGED <<chan, madeFor, acked>>
    PROVE  HoldsNoMore
  BY DEF HoldsNoMore, HeldLive, Live

LEMMA RetireHolds ==
    ASSUME SlackOK, HeldLive, NEW c \in Channels, NEW r, Retire(c, r)
    PROVE  HoldsNoMore
  BY DEF Retire, HoldsNoMore, HeldLive, Live, SlackOK

\* Nobody holds a channel that is not in use, so making one takes none away.
LEMMA MakeHolds ==
    ASSUME SlackOK, HeldLive, NEW c \in Channels, NEW m, NEW n, NEW p, Make(c, m, n, p),
           UNCHANGED acked
    PROVE  HoldsNoMore
  BY DEF Make, HoldsNoMore, HeldLive, Live, SlackOK

LEMMA StateKept ==
    ASSUME NEW r \in Channel
    PROVE  /\ \A n : [r EXCEPT !.name = n].state = r.state
           /\ \A t : [r EXCEPT !.topic = t].state = r.state
           /\ \A t : [r EXCEPT !.purpose = t].state = r.state
           /\ [r EXCEPT !.state = "live"].state = "live"
<1>1. \A n : [r EXCEPT !.name = n].state = r.state
  BY DEF Channel
<1>2. \A t : [r EXCEPT !.topic = t].state = r.state
  BY DEF Channel
<1>3. \A t : [r EXCEPT !.purpose = t].state = r.state
  BY DEF Channel
<1>4. [r EXCEPT !.state = "live"].state = "live"
  BY DEF Channel
<1> QED BY <1>1, <1>2, <1>3, <1>4

\* Conversations.create answered w: its resource holds the new channel c.
Obtains(w, c) ==
    /\ At(w, "create", "create")
    /\ Make(c, cur[w], mg[w].spec.name, mg[w].spec.private)
    /\ acked' = acked \cup {c}
    /\ GoOnCreate(w, c, "topic")

LEMMA ReconcileHolds ==
    ASSUME TypeOK, HeldLive, NEW w \in Workers, Addressed(w), Reconcile(w)
    PROVE  HoldsNoMore \/ \E c \in Channels : Obtains(w, c)
<1>0. SlackOK
  BY DEF TypeOK
<1>1. ASSUME mg[w].ext \in Channels
      PROVE  /\ chan[mg[w].ext] \in Channel
             /\ \A n : [chan[mg[w].ext] EXCEPT !.name = n].state = chan[mg[w].ext].state
             /\ \A t : [chan[mg[w].ext] EXCEPT !.topic = t].state = chan[mg[w].ext].state
             /\ \A t : [chan[mg[w].ext] EXCEPT !.purpose = t].state = chan[mg[w].ext].state
  BY <1>0, <1>1, StateKept DEF SlackOK
<1>2. CASE Runtime(w) \/ Observe(w)
  BY <1>2, SameSlackHolds DEF Runtime, Observe, Connect, FindConversationByName,
                              GetConversationInfo, slackVars
<1>3. CASE CreateConversation(w)
  BY <1>0, <1>3, SameSlackHolds, MakeHolds DEF CreateConversation, Obtains
<1>4. CASE AdoptTaken(w)
  BY <1>4, SameSlackHolds DEF AdoptTaken, slackVars
<1>5. CASE SetTopicInCreate(w)
  <2>1. mg[w].ext \in Channels
    BY <1>5 DEF SetTopicInCreate, Addressed, At, isChannelID
  <2> QED BY <1>0, <1>1, <1>5, <2>1, ChangeHolds DEF SetTopicInCreate
<1>6. CASE SetPurposeInCreate(w)
  <2>1. mg[w].ext \in Channels
    BY <1>6 DEF SetPurposeInCreate, Addressed, At, isChannelID
  <2> QED BY <1>0, <1>1, <1>6, <2>1, ChangeHolds DEF SetPurposeInCreate
<1>7. CASE Update(w)
  <2>1. mg[w].ext \in Channels
    BY <1>7 DEF Update, JoinConversation, InfoForUpdate, RenameConversation,
                SetConversationTopic, SetConversationPurpose, Addressed, At, isChannelID
  <2>2. CASE JoinConversation(w) \/ InfoForUpdate(w)
    BY <2>2, SameSlackHolds DEF JoinConversation, InfoForUpdate, slackVars
  <2>3. CASE RenameConversation(w)
    BY <1>0, <1>1, <2>1, <2>3, ChangeHolds, SameSlackHolds DEF RenameConversation
  <2>4. CASE SetConversationTopic(w)
    BY <1>0, <1>1, <2>1, <2>4, ChangeHolds DEF SetConversationTopic
  <2>5. CASE SetConversationPurpose(w)
    BY <1>0, <1>1, <2>1, <2>5, ChangeHolds DEF SetConversationPurpose
  <2> QED BY <1>7, <2>2, <2>3, <2>4, <2>5 DEF Update
<1>8. CASE ArchiveConversation(w)
  <2>1. mg[w].ext \in Channels
    BY <1>8 DEF ArchiveConversation, Addressed, At, isChannelID
  <2> QED BY <1>0, <1>8, <2>1, SameSlackHolds, RetireHolds DEF ArchiveConversation
<1> QED BY <1>2, <1>3, <1>4, <1>5, <1>6, <1>7, <1>8 DEF Reconcile, Create

LEMMA OthersHold ==
    ASSUME TypeOK, HeldLive, \/ Users
                             \/ \E w \in Workers : Dies(w) \/ \E m \in MRs : Informer(w, m)
                             \/ UNCHANGED vars
    PROVE  HoldsNoMore
<1>0. SlackOK
  BY DEF TypeOK
<1>1. ASSUME NEW c \in Channels, NEW n \in Names, NEW p \in BOOLEAN, SlackUserCreates(c, n, p)
      PROVE  HoldsNoMore
  BY <1>0, <1>1, MakeHolds DEF SlackUserCreates
<1>2. ASSUME NEW c \in Channels, SlackUserChanges(c) PROVE HoldsNoMore
  <2>1. PICK r : chan' = [chan EXCEPT ![c] = r] /\ r.state = chan[c].state
    <3>1. chan[c] \in Channel
      BY <1>0 DEF SlackOK
    <3>2. \/ \E n : chan' = [chan EXCEPT ![c] = [chan[c] EXCEPT !.name = n]]
          \/ \E t : chan' = [chan EXCEPT ![c] = [chan[c] EXCEPT !.topic = t]]
          \/ \E t : chan' = [chan EXCEPT ![c] = [chan[c] EXCEPT !.purpose = t]]
      BY <1>2 DEF SlackUserChanges
    <3>3. ASSUME NEW n, chan' = [chan EXCEPT ![c] = [chan[c] EXCEPT !.name = n]]
          PROVE  \E r : chan' = [chan EXCEPT ![c] = r] /\ r.state = chan[c].state
      <4> WITNESS [chan[c] EXCEPT !.name = n]
      <4> QED BY <3>1, <3>3, StateKept
    <3>4. ASSUME NEW t, chan' = [chan EXCEPT ![c] = [chan[c] EXCEPT !.topic = t]]
          PROVE  \E r : chan' = [chan EXCEPT ![c] = r] /\ r.state = chan[c].state
      <4> WITNESS [chan[c] EXCEPT !.topic = t]
      <4> QED BY <3>1, <3>4, StateKept
    <3>5. ASSUME NEW t, chan' = [chan EXCEPT ![c] = [chan[c] EXCEPT !.purpose = t]]
          PROVE  \E r : chan' = [chan EXCEPT ![c] = r] /\ r.state = chan[c].state
      <4> WITNESS [chan[c] EXCEPT !.purpose = t]
      <4> QED BY <3>1, <3>5, StateKept
    <3> QED BY <3>2, <3>3, <3>4, <3>5
  <2> QED BY <1>0, <1>2, <2>1 DEF SlackUserChanges, HoldsNoMore, HeldLive, Live, SlackOK
<1>3. ASSUME NEW c \in Channels, SlackUserRetires(c) PROVE HoldsNoMore
  BY <1>0, <1>3, RetireHolds DEF SlackUserRetires
<1>4. ASSUME NEW c \in Channels, SlackUserRestores(c) PROVE HoldsNoMore
  <2>1. chan' = [chan EXCEPT ![c] = [chan[c] EXCEPT !.state = "live"]]
        /\ [chan[c] EXCEPT !.state = "live"].state = "live"
    BY <1>0, <1>4, StateKept DEF SlackUserRestores, SlackOK
  <2> QED BY <1>0, <1>4, <2>1 DEF SlackUserRestores, HoldsNoMore, HeldLive, Live, SlackOK
<1>5. CASE UNCHANGED slackVars
  BY <1>5, SameSlackHolds DEF slackVars
<1> QED BY <1>1, <1>2, <1>3, <1>4, <1>5 DEF Users, Dies, Informer, vars

\* What a step writes never drops the record of a channel that stays held.
LEMMA QuietKeeps ==
    ASSUME NoForgottenChannel, HoldsNoMore, UNCHANGED api
    PROVE  NoForgottenChannel'
  BY DEF NoForgottenChannel, HoldsNoMore, Holds

LEMMA WriteKeeps ==
    ASSUME NoForgottenChannel, HoldsNoMore, ApiOK, NEW m \in MRs, NEW o, Store(m, o),
           \A c \in Channels : Holds(m, c) =>
               o.exists /\ o.fin /\ (o.ext = c \/ o.create = "pending")
    PROVE  NoForgottenChannel'
<1>1. api'[m] = o /\ \A n \in MRs \ {m} : api'[n] = api[n]
  BY DEF ApiOK, Store
<1> QED BY <1>1 DEF NoForgottenChannel, HoldsNoMore, Holds

\* A worker that does not move knows what it knew, if its latest copy stays the
\* latest only while its object stays the same.
LEMMA OtherKnows ==
    ASSUME HoldsNoMore, HeldLive, NEW v \in Workers, KnowsHeld(v),
           pc'[v] = pc[v] /\ cur'[v] = cur[v] /\ mg'[v] = mg[v] /\ obs'[v] = obs[v],
           step'[v] = step[v],
           v \in fresh' => v \in fresh /\ api'[cur[v]] = api[cur[v]]
    PROVE  KnowsHeld(v)'
<1>1. /\ NoneHeld(cur[v]) => NoneHeld(cur[v])'
      /\ \A e : HeldIs(cur[v], e) => HeldIs(cur[v], e)'
  BY FewerHeld
<1> QED BY <1>1 DEF KnowsHeld, At, isChannelID, NoneHeld, HeldIs

\* What a worker must know to enter a phase.
LEMMA KnowsEntered ==
    ASSUME TypeOK, HoldsNoMore, HeldLive, NEW w \in Workers, NEW m, NEW o, NEW p,
           Enter(w, m, o, p), NextPhase(w),
           p = "init" => o.ext = NoExt /\ (w \in fresh' => api'[m].ext = NoExt),
           (w \in fresh' /\ p \in Passed) => HeldIs(m, o.ext),
           (w \in fresh' /\ p \in {"pending", "unfinalize"}) => NoneHeld(m),
           p = "create" => NoneHeld(m),
           p = "critical" => HeldIs(m, o.ext)
    PROVE  KnowsHeld(w)'
<1>1. /\ pc'[w] = p /\ cur'[w] = m /\ mg'[w] = o /\ obs'[w] = "error" /\ step'[w] = FirstStep(p)
  BY Entered
<1>2. (NoneHeld(m) => NoneHeld(m)') /\ (HeldIs(m, o.ext) => HeldIs(m, o.ext)')
  BY FewerHeld
<1> QED BY <1>1, <1>2 DEF KnowsHeld, At, FirstStep, Passed, NoneHeld, HeldIs

\* A worker that reports or leaves needs to know nothing.
LEMMA KnowsAtEnd ==
    ASSUME TypeOK, HoldsNoMore, HeldLive, NEW w \in Workers, NextPhase(w),
           Release(w) \/ \E o, r : Report(w, o, r)
    PROVE  KnowsHeld(w)'
<1>1. ASSUME NEW m, NEW o, NEW p \in {"idle", "status"}, Enter(w, m, o, p) PROVE KnowsHeld(w)'
  BY <1>1, KnowsEntered DEF Passed
<1> QED BY <1>1 DEF Release, Report

LEMMA RuntimeHeld ==
    ASSUME ConvInv, NEW w \in Workers, Runtime(w), HoldsNoMore
    PROVE  NoForgottenChannel' /\ KnowsHeld(w)'
<1>0. /\ TypeOK /\ HeldLive /\ ApiOK /\ NoForgottenChannel /\ KnowsHeld(w) /\ WorkerInv(w)
      /\ mg[w] \in Object /\ NextPhase(w) /\ CacheInv
      /\ pc[w] # "idle" => cur[w] \in MRs /\ api[cur[w]] \in Object
  BY DEF ConvInv, TypeOK, MRTypeOK, ApiOK, WorkerOK, HeldInv, HeldLive, LoopInv, Runtime
<1>1. ASSUME NEW m \in MRs, Start(w, m) PROVE NoForgottenChannel' /\ KnowsHeld(w)'
  <2> DEFINE c == cache[w][m]
  <2>1. UNCHANGED api /\ (w \in fresh' => c = api[m]) /\ pc[w] = "idle"
    BY <1>0, <1>1 DEF Start, WorkerInv, CacheInv
  <2>2. NoForgottenChannel'
    BY <1>0, <2>1, QuietKeeps
  <2>3. CASE Enter(w, m, c, "init") /\ c.ext = NoExt
    BY <1>0, <2>1, <2>2, <2>3, KnowsEntered DEF Passed
  <2>4. CASE Enter(w, m, c, "observe") /\ c.create # "pending"
    <3>1. w \in fresh' => HeldIs(m, c.ext)
      BY <1>0, <2>1, <2>4 DEF NoForgottenChannel, HeldIs
    <3> QED BY <1>0, <2>2, <2>4, <3>1, KnowsEntered
  <2>5. CASE Enter(w, m, [c EXCEPT !.synced = "ReconcileError"], "status")
    BY <1>0, <2>2, <2>5, KnowsEntered DEF Passed
  <2> QED BY <1>1, <2>3, <2>4, <2>5 DEF Start, PassGate
<1>2. ASSUME WriteFails(w) PROVE NoForgottenChannel' /\ KnowsHeld(w)'
  BY <1>0, <1>2, QuietKeeps, KnowsAtEnd DEF WriteFails
<1>3. CASE Initialize(w)
  <2> DEFINE o == [mg[w] EXCEPT !.ext = MetaName[cur[w]]]
  <2>1. CASE w \in fresh /\ StoreBy(w, o) /\ PassGate(w, cur[w], o)
    <3>1. /\ Store(cur[w], o) /\ pc[w] = "init" /\ cur[w] \in MRs
          /\ o.exists = mg[w].exists /\ o.fin = mg[w].fin /\ o.create = mg[w].create
      BY <1>0, <1>3, <2>1 DEF Initialize, StoreBy, Object
    <3>2. Agrees(w) /\ api[cur[w]].ext = NoExt
      BY <1>0, <2>1, <3>1 DEF WorkerInv, KnowsHeld
    <3>3. \A c \in Channels : Holds(cur[w], c) =>
              api[cur[w]].exists /\ api[cur[w]].fin /\ api[cur[w]].create = "pending"
      BY <1>0, <3>1, <3>2, NamesAssumption, SlackAssumption DEF NoForgottenChannel
    <3>4. NoForgottenChannel'
      <4> HIDE DEF o
      <4> QED BY <1>0, <3>1, <3>2, <3>3, WriteKeeps DEF Agrees
    <3>5. CASE o.create # "pending" /\ Enter(w, cur[w], o, "observe")
      <4>1. HeldIs(cur[w], o.ext)
        BY <3>1, <3>2, <3>3, <3>5 DEF HeldIs, Agrees
      <4> HIDE DEF o
      <4> QED BY <1>0, <3>4, <3>5, <4>1, KnowsEntered
    <3>6. CASE Enter(w, cur[w], [o EXCEPT !.synced = "ReconcileError"], "status")
      BY <1>0, <3>4, <3>6, KnowsEntered DEF Passed
    <3> QED BY <2>1, <3>5, <3>6 DEF PassGate
  <2> QED BY <1>2, <1>3, <2>1 DEF Initialize
<1>4. CASE AddFinalizer(w)
  <2> DEFINE o == [mg[w] EXCEPT !.fin = TRUE, !.synced = api[cur[w]].synced]
  <2>1. CASE w \in fresh /\ StoreBy(w, o) /\ Decide(w, obs[w], o)
    <3>1. /\ Store(cur[w], o) /\ pc[w] = "finalize" /\ cur[w] \in MRs
          /\ o.exists = mg[w].exists /\ o.fin /\ o.ext = mg[w].ext
      BY <1>0, <1>4, <2>1 DEF AddFinalizer, StoreBy, Object
    <3>2. /\ mg[w].exists /\ HeldIs(cur[w], mg[w].ext)
          /\ obs[w] = "missing" => NoneHeld(cur[w])
      BY <1>0, <2>1, <3>1 DEF WorkerInv, KnowsHeld, Passed
    <3> HIDE DEF o
    <3>3. NoForgottenChannel'
      BY <1>0, <3>1, <3>2, WriteKeeps DEF HeldIs
    <3>4. CASE obs[w] = "missing" /\ Enter(w, cur[w], o, "pending")
      BY <1>0, <3>1, <3>2, <3>3, <3>4, KnowsEntered
    <3>5. CASE Enter(w, cur[w], o, "update")
      BY <1>0, <3>1, <3>2, <3>3, <3>5, KnowsEntered
    <3>6. CASE Report(w, o, "ReconcileSuccess")
      BY <1>0, <3>3, <3>6, KnowsAtEnd
    <3> QED BY <2>1, <3>4, <3>5, <3>6 DEF Decide
  <2> QED BY <1>2, <1>4, <2>1 DEF AddFinalizer
<1>5. CASE RemoveFinalizer(w)
  <2>1. CASE w \in fresh /\ StoreByUser(cur[w], Blank) /\ Release(w)
    <3>1. Store(cur[w], Blank) /\ cur[w] \in MRs /\ NoneHeld(cur[w])
      BY <1>0, <1>5, <2>1 DEF RemoveFinalizer, StoreByUser, KnowsHeld
    <3>2. NoForgottenChannel'
      BY <1>0, <3>1, WriteKeeps DEF NoneHeld
    <3> QED BY <1>0, <2>1, <3>2, KnowsAtEnd
  <2> QED BY <1>2, <1>5, <2>1 DEF RemoveFinalizer
<1>6. CASE CreatePending(w)
  <2> DEFINE o == [mg[w] EXCEPT !.create = "pending", !.synced = api[cur[w]].synced]
  <2>1. CASE w \in fresh /\ StoreBy(w, o) /\ Enter(w, cur[w], o, "create")
    <3>1. Store(cur[w], o) /\ cur[w] \in MRs /\ NoneHeld(cur[w])
      BY <1>0, <1>6, <2>1 DEF CreatePending, StoreBy, KnowsHeld
    <3> HIDE DEF o
    <3>2. NoForgottenChannel'
      BY <1>0, <3>1, WriteKeeps DEF NoneHeld
    <3> QED BY <1>0, <2>1, <3>1, <3>2, KnowsEntered DEF Passed
  <2> QED BY <1>2, <1>6, <2>1 DEF CreatePending
<1>7. CASE UpdateCritical(w)
  <2> DEFINE o == [api[cur[w]] EXCEPT !.ext = mg[w].ext, !.create = mg[w].create]
  <2>1. KnowsHeld(w)'
    BY <1>0, <1>7, KnowsAtEnd DEF UpdateCritical
  <2>2. CASE StoreBy(w, o)
    <3>1. /\ Store(cur[w], o) /\ cur[w] \in MRs /\ HeldIs(cur[w], mg[w].ext)
          /\ o.exists = api[cur[w]].exists /\ o.fin = api[cur[w]].fin /\ o.ext = mg[w].ext
          /\ api[cur[w]].exists /\ api[cur[w]].fin
      BY <1>0, <1>7, <2>2 DEF UpdateCritical, StoreBy, KnowsHeld, WorkerInv, InCreate, Object
    <3> HIDE DEF o
    <3> QED BY <1>0, <2>1, <3>1, WriteKeeps DEF HeldIs
  <2>3. CASE UNCHANGED api
    BY <1>0, <2>1, <2>3, QuietKeeps
  <2> QED BY <1>7, <2>2, <2>3 DEF UpdateCritical
<1>8. CASE StatusUpdate(w)
  <2> DEFINE o == [api[cur[w]] EXCEPT !.synced = mg[w].synced]
  <2>1. KnowsHeld(w)'
    BY <1>0, <1>8, KnowsAtEnd DEF StatusUpdate
  <2>2. CASE StoreByUser(cur[w], o)
    <3>1. /\ Store(cur[w], o) /\ cur[w] \in MRs
          /\ o.exists = api[cur[w]].exists /\ o.fin = api[cur[w]].fin
          /\ o.ext = api[cur[w]].ext /\ o.create = api[cur[w]].create
      BY <1>0, <1>8, <2>2 DEF StatusUpdate, StoreByUser, Object
    <3> HIDE DEF o
    <3> QED BY <1>0, <2>1, <3>1, WriteKeeps DEF NoForgottenChannel
  <2>3. CASE UNCHANGED api
    BY <1>0, <2>1, <2>3, QuietKeeps
  <2> QED BY <1>8, <2>2, <2>3 DEF StatusUpdate
<1> QED BY <1>1, <1>3, <1>4, <1>5, <1>6, <1>7, <1>8 DEF Runtime, RuntimeStep

\* Observe answers "missing" only of a resource that holds no channel.
LEMMA AnswerKnows ==
    ASSUME TypeOK, HoldsNoMore, HeldLive, NEW w \in Workers, NEW o \in Observations, NEW c,
           ObserveAnswers(w, o, c), NextPhase(w),
           w \in fresh => HeldIs(cur[w], c.ext),
           w \in fresh /\ o = "missing" => NoneHeld(cur[w])
    PROVE  KnowsHeld(w)'
<1>0. UNCHANGED <<api, fresh, cache, current>>
  BY DEF ObserveAnswers, Calls
<1>1. CASE Enter(w, cur[w], c, "update") \/ Enter(w, cur[w], c, "delete")
  BY <1>0, <1>1, KnowsEntered
<1>2. CASE o = "missing" /\ (Enter(w, cur[w], c, "pending") \/ Enter(w, cur[w], c, "unfinalize"))
  BY <1>0, <1>2, KnowsEntered
<1>3. CASE Report(w, c, "ReconcileError") \/ Report(w, c, "ReconcileSuccess")
  BY <1>3, KnowsAtEnd
<1>4. CASE /\ pc' = [pc EXCEPT ![w] = "finalize"] /\ mg' = [mg EXCEPT ![w] = c]
           /\ obs' = [obs EXCEPT ![w] = o] /\ UNCHANGED cur
  <2>1. pc'[w] = "finalize" /\ mg'[w] = c /\ obs'[w] = o /\ cur'[w] = cur[w]
    BY <1>4 DEF TypeOK, MRTypeOK, WorkerOK
  <2>2. /\ \A m : NoneHeld(m) => NoneHeld(m)'
        /\ \A m, e : HeldIs(m, e) => HeldIs(m, e)'
    BY FewerHeld
  <2> QED BY <1>0, <2>1, <2>2 DEF KnowsHeld, At, NoneHeld, HeldIs
<1> QED BY <1>1, <1>2, <1>3, <1>4 DEF ObserveAnswers, Decide

LEMMA ObserveKnows ==
    ASSUME ConvInv, NEW w \in Workers, Observe(w), HoldsNoMore
    PROVE  KnowsHeld(w)'
<1>0. /\ TypeOK /\ HeldLive /\ KnowsHeld(w) /\ mg[w] \in Object /\ mg \in [Workers -> Object]
      /\ step \in [Workers -> Steps] /\ pc[w] = "observe"
  BY DEF ConvInv, TypeOK, MRTypeOK, WorkerOK, StepOK, HeldInv, HeldLive, Observe, Connect,
         FindConversationByName, GetConversationInfo, At
<1>1. w \in fresh => HeldIs(cur[w], mg[w].ext)
  BY <1>0 DEF KnowsHeld, Passed
<1>2. \A r : [mg[w] EXCEPT !.synced = r].ext = mg[w].ext
  BY <1>0 DEF Object
<1>3. /\ \A m : NoneHeld(m) => NoneHeld(m)'
      /\ \A m, e : HeldIs(m, e) => HeldIs(m, e)'
  BY <1>0, FewerHeld
<1>4. CASE Connect(w)
  <2>1. CASE Goto(w, IF isChannelID(mg[w].ext) THEN "info" ELSE "find") /\ Stay
    <3>1. step'[w] = IF isChannelID(mg[w].ext) THEN "info" ELSE "find"
      BY <1>0, <2>1 DEF Goto
    <3> QED BY <1>0, <1>1, <1>3, <2>1, <3>1
            DEF Stay, mrVars, KnowsHeld, At, isChannelID, NoneHeld, HeldIs, Passed
  <2> QED BY <1>0, <1>1, <1>4, <2>1, AnswerKnows DEF Connect, Observations
<1>5. CASE FindConversationByName(w)
  <2>1. w \in fresh => NoneHeld(cur[w])
    BY <1>0, <1>1, <1>5 DEF FindConversationByName, KnowsHeld, HeldIs, NoneHeld, isChannelID
  <2>2. ASSUME NEW c \in Channels, NameInObserve(w, c), Goto(w, "info")
        PROVE  KnowsHeld(w)'
    <3>1. mg'[w].ext = c /\ step'[w] = "info" /\ UNCHANGED <<pc, cur, obs, fresh, api>>
      BY <1>0, <2>2 DEF NameInObserve, Goto, Calls, Object
    <3> QED BY <1>0, <1>3, <2>1, <3>1 DEF KnowsHeld, At, NoneHeld, HeldIs
  <2> QED BY <1>0, <1>1, <1>5, <2>1, <2>2, AnswerKnows DEF FindConversationByName, Observations, Listed
<1>6. CASE GetConversationInfo(w)
  <2>1. w \in fresh /\ chan[mg[w].ext].state # "live" => NoneHeld(cur[w])
    BY <1>0, <1>1 DEF HeldLive, HeldIs, NoneHeld, Holds, Live
  <2>2. NextPhase(w)
    BY <1>6 DEF GetConversationInfo
  <2>3. ASSUME NEW o \in {"error", "drifted", "uptodate"}, ObserveAnswers(w, o, mg[w])
        PROVE  KnowsHeld(w)'
    BY <1>0, <1>1, <2>2, <2>3, AnswerKnows DEF Observations
  <2>4. ASSUME chan[mg[w].ext].state # "live", NEW c, c.ext = mg[w].ext, ObserveAnswers(w, "missing", c)
        PROVE  KnowsHeld(w)'
    BY <1>0, <1>1, <2>1, <2>2, <2>4, AnswerKnows DEF Observations
  <2> QED BY <1>2, <1>6, <2>3, <2>4 DEF GetConversationInfo
<1> QED BY <1>4, <1>5, <1>6 DEF Observe

LEMMA CreateKnows ==
    ASSUME ConvInv, NEW w \in Workers, Create(w), HoldsNoMore
    PROVE  KnowsHeld(w)'
<1>0. /\ TypeOK /\ HeldLive /\ KnowsHeld(w) /\ mg[w] \in Object /\ mg \in [Workers -> Object]
      /\ step \in [Workers -> Steps] /\ pc[w] = "create" /\ Addressed(w)
  BY DEF ConvInv, TypeOK, MRTypeOK, WorkerOK, StepOK, HeldInv, HeldLive, Create,
         CreateConversation, AdoptTaken, SetTopicInCreate, SetPurposeInCreate, At
<1>1. /\ \A m : NoneHeld(m) => NoneHeld(m)'
      /\ \A m, e : HeldIs(m, e) => HeldIs(m, e)'
  BY <1>0, FewerHeld
<1>2. ASSUME NEW ok, NEW c \in Object, HeldIs(cur[w], c.ext), CreateReturns(w, ok, c), NextPhase(w)
      PROVE  KnowsHeld(w)'
  <2> DEFINE o == [c EXCEPT !.create = IF ok THEN "succeeded" ELSE "failed"]
  <2>1. o.ext = c.ext /\ Enter(w, cur[w], o, "critical")
    BY <1>2 DEF Object, CreateReturns
  <2> HIDE DEF o
  <2> QED BY <1>0, <1>2, <2>1, KnowsEntered DEF Passed
<1>3. ASSUME NEW e \in ExtNames, NEW r \in ReasonsFor(w)
      PROVE  /\ [mg[w] EXCEPT !.ext = e] \in Object /\ [mg[w] EXCEPT !.ext = e].ext = e
             /\ [mg[w] EXCEPT !.synced = r] \in Object
             /\ [mg[w] EXCEPT !.synced = r].ext = mg[w].ext
  <2>1. r \in Reasons
    BY <1>0 DEF ReasonsFor, Reasons, Object
  <2>2. [mg[w] EXCEPT !.ext = e] \in Object /\ [mg[w] EXCEPT !.synced = r] \in Object
    BY <1>0, <2>1, ObjectFields
  <2>3. [mg[w] EXCEPT !.ext = e].ext = e /\ [mg[w] EXCEPT !.synced = r].ext = mg[w].ext
    BY <1>0 DEF Object
  <2> QED BY <2>2, <2>3
<1>4. ASSUME NEW r \in ReasonsFor(w), HeldIs(cur[w], mg[w].ext) \/ NoneHeld(cur[w]), CreateFails(w, r)
      PROVE  KnowsHeld(w)'
  <2>1. HeldIs(cur[w], mg[w].ext)
    BY <1>4 DEF HeldIs, NoneHeld
  <2>2. \E e \in ExtNames : TRUE
    BY <1>0, NamesAssumption DEF TypeOK, MRTypeOK, WorkerOK
  <2> QED BY <1>2, <1>3, <1>4, <2>1, <2>2 DEF CreateFails
<1>5. ASSUME NEW c \in Channels, HeldIs(cur[w], c), NEW s \in {"topic", "purpose"}, GoOnCreate(w, c, s)
      PROVE  KnowsHeld(w)'
  <2>1. CASE CreateReturns(w, TRUE, [mg[w] EXCEPT !.ext = c]) /\ NextPhase(w)
    <3>1. [mg[w] EXCEPT !.ext = c] \in Object /\ [mg[w] EXCEPT !.ext = c].ext = c
      BY <1>3, SlackAssumption DEF ReasonsFor
    <3> QED BY <1>2, <1>5, <2>1, <3>1
  <2>2. CASE NameInCreate(w, c) /\ (Goto(w, "topic") \/ Goto(w, "purpose"))
    <3>1. /\ mg'[w].ext = c /\ step'[w] \in {"topic", "purpose"}
          /\ UNCHANGED <<pc, cur, obs, fresh, api>>
      BY <1>0, <2>2 DEF NameInCreate, Goto, Calls, Object
    <3> QED BY <1>0, <1>1, <1>5, <3>1 DEF KnowsHeld, At, HeldIs, Passed
  <2> QED BY <1>5, <2>1, <2>2 DEF GoOnCreate
<1>6. mg[w].synced \in ReasonsFor(w) /\ "NameConflict" \in ReasonsFor(w)
  BY SlackAssumption DEF ReasonsFor
<1>7. CASE AdoptTaken(w)
  <2>1. NoneHeld(cur[w]) /\ \A e : HeldIs(cur[w], e)
    BY <1>0, <1>7 DEF AdoptTaken, KnowsHeld, At, NoneHeld, HeldIs
  <2> QED BY <1>2, <1>3, <1>4, <1>6, <1>7, <2>1, SlackAssumption DEF AdoptTaken, Listed
<1>8. CASE SetTopicInCreate(w)
  <2>1. HeldIs(cur[w], mg[w].ext) /\ mg[w].ext \in Channels
    BY <1>0, <1>8 DEF SetTopicInCreate, KnowsHeld, Addressed, At, isChannelID
  <2> QED BY <1>4, <1>5, <1>6, <1>8, <2>1 DEF SetTopicInCreate
<1>9. CASE SetPurposeInCreate(w)
  <2>1. HeldIs(cur[w], mg[w].ext)
    BY <1>0, <1>9 DEF SetPurposeInCreate, KnowsHeld, At
  <2> QED BY <1>0, <1>2, <1>4, <1>6, <1>9, <2>1 DEF SetPurposeInCreate
<1>10. CASE CreateConversation(w)
  <2>1. NoneHeld(cur[w])
    BY <1>0, <1>10 DEF CreateConversation, KnowsHeld, At
  <2>2. CASE \E c \in Channels : acked' = acked \cup {c} /\ GoOnCreate(w, c, "topic")
    <3>1. PICK c \in Channels : acked' = acked \cup {c} /\ GoOnCreate(w, c, "topic")
      BY <2>2
    <3> QED BY <1>5, <2>1, <3>1 DEF NoneHeld, HeldIs
  <2>3. CASE Goto(w, "adopt") /\ Stay
    <3>1. step'[w] = "adopt" /\ UNCHANGED <<pc, cur, obs, fresh, api, mg>>
      BY <1>0, <2>3 DEF Stay, mrVars, Goto
    <3> QED BY <1>0, <1>1, <2>1, <3>1 DEF KnowsHeld, At, NoneHeld, Passed
  <2> QED BY <1>4, <1>6, <1>10, <2>1, <2>2, <2>3 DEF CreateConversation
<1> QED BY <1>7, <1>8, <1>9, <1>10 DEF Create

LEMMA UpdateKnows ==
    ASSUME ConvInv, NEW w \in Workers, Update(w) \/ ArchiveConversation(w), HoldsNoMore
    PROVE  KnowsHeld(w)'
<1>0. TypeOK /\ HeldLive /\ KnowsHeld(w) /\ pc[w] \in {"update", "delete"}
  BY DEF ConvInv, HeldInv, HeldLive, Update, JoinConversation, InfoForUpdate,
         RenameConversation, SetConversationTopic, SetConversationPurpose,
         ArchiveConversation, At
<1>1. ASSUME NEW ok, UpdateReturns(w, ok) PROVE KnowsHeld(w)'
  BY <1>0, <1>1, KnowsAtEnd DEF UpdateReturns, CallReturns
<1>2. Stay => KnowsHeld(w)'
  <2>1. \A m, e : HeldIs(m, e) => HeldIs(m, e)'
    BY <1>0, FewerHeld
  <2> QED BY <1>0, <2>1 DEF Stay, mrVars, KnowsHeld, At, HeldIs, Passed
<1>3. ASSUME NEW ch, NEW ss, GoOnUpdate(w, ch, ss) PROVE KnowsHeld(w)'
  BY <1>1, <1>2, <1>3 DEF GoOnUpdate
<1>4. CASE Update(w)
  BY <1>1, <1>2, <1>3, <1>4
     DEF Update, JoinConversation, InfoForUpdate, RenameConversation, SetConversationTopic,
         SetConversationPurpose
<1>5. CASE ArchiveConversation(w)
  BY <1>1, <1>5 DEF ArchiveConversation
<1> QED BY <1>4, <1>5

\* The users of the API server never drop the record of a held channel: its
\* resource has the finalizer, so a deletion leaves the object.
LEMMA UsersKeep ==
    ASSUME ConvInv, Users, HoldsNoMore
    PROVE  NoForgottenChannel'
<1>0. ApiOK /\ NoForgottenChannel
  BY DEF ConvInv, TypeOK, MRTypeOK, HeldInv
<1>1. CASE UNCHANGED api
  BY <1>0, <1>1, QuietKeeps
<1>2. ASSUME NEW m \in MRs, NEW o, StoreByUser(m, o),
             NoneHeld(m) \/ (/\ o.exists = api[m].exists /\ o.fin = api[m].fin
                             /\ o.ext = api[m].ext /\ o.create = api[m].create)
      PROVE  NoForgottenChannel'
  <2>1. Store(m, o)
    BY <1>2 DEF StoreByUser
  <2>2. \A c \in Channels : Holds(m, c) =>
            o.exists /\ o.fin /\ (o.ext = c \/ o.create = "pending")
    BY <1>0, <1>2 DEF NoneHeld, NoForgottenChannel
  <2> QED BY <1>0, <2>1, <2>2, WriteKeeps
<1>3. \A m \in MRs : ~(api[m].exists /\ api[m].fin) => NoneHeld(m)
  BY <1>0 DEF NoForgottenChannel, NoneHeld
<1>4. ASSUME NEW m \in MRs, UserDeletes(m) PROVE NoForgottenChannel'
  <2>1. api[m] \in Object
    BY <1>0 DEF ApiOK
  <2>2. CASE ~api[m].fin
    BY <1>2, <1>3, <1>4, <2>2 DEF UserDeletes
  <2>3. CASE api[m].fin
    <3> DEFINE o == [api[m] EXCEPT !.del = TRUE]
    <3>1. /\ o.exists = api[m].exists /\ o.fin = api[m].fin
          /\ o.ext = api[m].ext /\ o.create = api[m].create
      BY <2>1 DEF Object
    <3>2. StoreByUser(m, o)
      BY <1>4, <2>3 DEF UserDeletes
    <3> HIDE DEF o
    <3> QED BY <1>2, <3>1, <3>2
  <2> QED BY <2>2, <2>3
<1>5. ASSUME NEW m \in MRs, NEW s \in Specs, UserEdits(m, s) PROVE NoForgottenChannel'
  <2> DEFINE o == [api[m] EXCEPT !.spec = s]
  <2>1. /\ o.exists = api[m].exists /\ o.fin = api[m].fin
        /\ o.ext = api[m].ext /\ o.create = api[m].create
    BY <1>0 DEF ApiOK, Object
  <2>2. StoreByUser(m, o)
    BY <1>5 DEF UserEdits
  <2> HIDE DEF o
  <2> QED BY <1>2, <2>1, <2>2
<1>6. ASSUME NEW m \in MRs, NEW s \in Specs, NEW e, UserCreates(m, s, e) PROVE NoForgottenChannel'
  BY <1>2, <1>3, <1>6 DEF UserCreates
<1> QED BY <1>1, <1>4, <1>5, <1>6
        DEF Users, SlackUserCreates, SlackUserChanges, SlackUserRetires, SlackUserRestores, mrVars

\* Conversations.create answers with a new channel: nobody else is about to
\* create for the resource, or knows of it what is no longer so.
LEMMA ObtainsHeld ==
    ASSUME ConvInv, NEW w \in Workers, NEW c \in Channels, Obtains(w, c), Reconcile(w)
    PROVE  HeldInv'
<1> DEFINE m == cur[w]
<1>0. /\ TypeOK /\ LoopInv /\ HeldLive /\ NoForgottenChannel /\ OneChannelPerResource
      /\ SlackOK /\ KnowsHeld(w) /\ WorkerInv(w) /\ InCreate(w) /\ pc[w] = "create"
      /\ mg[w] \in Object /\ mg \in [Workers -> Object] /\ step \in [Workers -> Steps]
      /\ pc \in [Workers -> Phases] /\ cur \in [Workers -> MRs \cup {NoMR}] /\ m \in MRs
  BY DEF ConvInv, TypeOK, MRTypeOK, WorkerOK, StepOK, HeldInv, HeldLive, LoopInv, Obtains,
         At, InCreate
<1>1. /\ NoneHeld(m)
      /\ api[m].exists /\ api[m].fin /\ api[m].create = "pending"
  BY <1>0 DEF Obtains, KnowsHeld, At, WorkerInv
<1>2. /\ c \notin acked /\ madeFor' = [madeFor EXCEPT ![c] = m] /\ acked' = acked \cup {c}
      /\ chan'[c].state = "live" /\ \A d \in Channels \ {c} : chan'[d] = chan[d]
  BY <1>0 DEF Obtains, Make, HeldLive, Live, SlackOK, NoChannel
<1>3. UNCHANGED <<api, fresh, cur>>
  BY <1>0 DEF Obtains, GoOnCreate, NameInCreate, CreateReturns, Calls, Enter
<1>4. \A n, d : Holds(n, d)' => Holds(n, d) \/ (n = m /\ d = c)
  BY <1>0, <1>2 DEF Holds, SlackOK
<1>5. HeldLive'
  BY <1>0, <1>2 DEF HeldLive, Live, SlackOK
<1>6. NoForgottenChannel'
  <2>1. ASSUME NEW d \in Channels, NEW n \in MRs, Holds(n, d)'
        PROVE  api[n].exists /\ api[n].fin /\ (api[n].ext = d \/ api[n].create = "pending")
    BY <1>0, <1>1, <1>4, <2>1 DEF NoForgottenChannel
  <2> QED BY <1>3, <2>1 DEF NoForgottenChannel
<1>7. OneChannelPerResource'
  <2>1. ASSUME NEW d \in Channels, NEW e \in Channels, NEW n \in MRs, Holds(n, d)', Holds(n, e)'
        PROVE  d = e
    BY <1>0, <1>1, <1>4, <2>1 DEF OneChannelPerResource, NoneHeld
  <2> QED BY <2>1 DEF OneChannelPerResource
<1>8. HeldIs(m, c)' /\ m' = m
  BY <1>1, <1>3, <1>4 DEF HeldIs, NoneHeld
<1>9. KnowsHeld(w)'
  <2>1. mg'[w].ext = c /\ cur'[w] = m /\ \/ pc'[w] = "critical"
                                         \/ pc'[w] = "create" /\ step'[w] \in {"topic", "purpose"}
    <3>1. CASE NameInCreate(w, c) /\ (Goto(w, "topic") \/ Goto(w, "purpose"))
      BY <1>0, <1>3, <3>1 DEF NameInCreate, Goto, Object
    <3>2. CASE CreateReturns(w, TRUE, [mg[w] EXCEPT !.ext = c])
      BY <1>0, <1>3, <3>2 DEF CreateReturns, Enter, Object
    <3> QED BY <3>1, <3>2 DEF Obtains, GoOnCreate
  <2> QED BY <1>8, <2>1 DEF KnowsHeld, At, Passed, HeldIs
<1>10. ASSUME NEW v \in Workers \ {w} PROVE KnowsHeld(v)'
  <2>1. /\ pc'[v] = pc[v] /\ cur'[v] = cur[v] /\ mg'[v] = mg[v] /\ obs'[v] = obs[v]
        /\ step'[v] = step[v] /\ KnowsHeld(v)
    BY <1>0, OthersStay DEF ConvInv, HeldInv
  <2>2. CASE cur[v] # m
    <3>1. \A d : Holds(cur[v], d)' => Holds(cur[v], d)
      BY <1>3, <1>4, <2>2
    <3> QED BY <1>3, <2>1, <3>1 DEF KnowsHeld, NoneHeld, HeldIs, At, isChannelID
  <2>3. CASE cur[v] = m
    <3>1. ~InCreate(v) /\ ~(v \in fresh /\ pc[v] \in Passed)
      BY <1>0, <2>3, NobodyElseCreates
    <3> QED BY <1>3, <2>1, <3>1 DEF KnowsHeld, At, isChannelID, InCreate, Passed
  <2> QED BY <2>2, <2>3
<1> QED BY <1>5, <1>6, <1>7, <1>9, <1>10 DEF HeldInv, HeldLive

LEMMA ReconcileHeld ==
    ASSUME ConvInv, NEW w \in Workers, Reconcile(w), HoldsNoMore
    PROVE  NoForgottenChannel' /\ KnowsHeld(w)'
<1>1. CASE Runtime(w)
  BY <1>1, RuntimeHeld
<1>2. CASE Observe(w) \/ Create(w) \/ Update(w) \/ ArchiveConversation(w)
  <2>1. KnowsHeld(w)'
    BY <1>2, ObserveKnows, CreateKnows, UpdateKnows
  <2>2. ControllerStep(w) \/ UNCHANGED mrVars
    BY <1>2, ObserveIsStep, CreateIsStep, UpdateIsStep DEF ConvInv, TypeOK
  <2>3. UNCHANGED api
    BY <2>2 DEF ControllerStep, NameInObserve, NameInCreate, ObserveAnswers, CreateReturns,
                CallReturns, Calls, mrVars
  <2> QED BY <2>1, <2>3, QuietKeeps DEF ConvInv, HeldInv
<1> QED BY <1>1, <1>2 DEF Reconcile

LEMMA HeldStep ==
    ASSUME ConvInv, [Next]_vars
    PROVE  HeldInv'
<1>0. /\ TypeOK /\ LoopInv /\ HeldLive /\ NoForgottenChannel /\ OneChannelPerResource
      /\ \A v \in Workers : KnowsHeld(v) /\ WorkerInv(v) /\ Addressed(v)
      /\ \A v \in Workers : pc[v] # "idle" => cur[v] \in MRs
  BY DEF ConvInv, TypeOK, MRTypeOK, WorkerOK, HeldInv, HeldLive, LoopInv
\* The others know what they knew.
<1>1. ASSUME HoldsNoMore, NEW v \in Workers,
             pc'[v] = pc[v] /\ cur'[v] = cur[v] /\ mg'[v] = mg[v] /\ obs'[v] = obs[v],
             step'[v] = step[v],
             \/ \E w \in Workers \ {v} : RuntimeStep(w) \/ ControllerStep(w) \/ Crash(w)
             \/ EnvironmentStep /\ ~ Crash(v)
             \/ UNCHANGED mrVars
      PROVE  KnowsHeld(v)'
  <2>1. CASE pc[v] = "idle"
    BY <1>1, <2>1 DEF KnowsHeld, At, Passed
  <2>2. CASE pc[v] # "idle"
    <3>1. v \in fresh' => v \in fresh /\ api'[cur[v]] = api[cur[v]]
      BY <1>0, <1>1, <2>2, FreshStays DEF mrVars, TypeOK
    <3> QED BY <1>0, <1>1, <3>1, OtherKnows
  <2> QED BY <2>1, <2>2
<1>2. HoldsNoMore => HeldLive' /\ OneChannelPerResource'
  BY <1>0, FewerHeld
<1>3. ASSUME NEW w \in Workers, Reconcile(w), HoldsNoMore PROVE HeldInv'
  <2>1. NoForgottenChannel' /\ KnowsHeld(w)'
    BY <1>3, ReconcileHeld
  <2>2. RuntimeStep(w) \/ ControllerStep(w) \/ UNCHANGED mrVars
    BY <1>0, <1>3, ObserveIsStep, CreateIsStep, UpdateIsStep DEF Reconcile, Runtime, TypeOK
  <2>3. \A v \in Workers \ {w} : KnowsHeld(v)'
    BY <1>0, <1>1, <1>3, <2>2, OthersStay
  <2> QED BY <1>2, <1>3, <2>1, <2>3 DEF HeldInv, HeldLive
<1>4. ASSUME NEW w \in Workers, Dies(w), HoldsNoMore PROVE HeldInv'
  <2>1. KnowsHeld(w)' /\ NoForgottenChannel'
    BY <1>0, <1>4, KnowsAtEnd, QuietKeeps DEF Dies, Crash
  <2>2. \A v \in Workers \ {w} : KnowsHeld(v)'
    BY <1>0, <1>1, <1>4, OthersStay DEF Dies
  <2> QED BY <1>2, <1>4, <2>1, <2>2 DEF HeldInv, HeldLive
<1>5. ASSUME Users \/ (\E w \in Workers, m \in MRs : Informer(w, m)) \/ UNCHANGED vars, HoldsNoMore
      PROVE  HeldInv'
  <2>1. UNCHANGED <<pc, cur, mg, obs, step>>
    BY <1>5, WorkersStay
  <2>2. NoForgottenChannel'
    <3>1. CASE Users
      BY <1>5, <3>1, UsersKeep
    <3>2. CASE UNCHANGED api
      BY <1>0, <1>5, <3>2, QuietKeeps
    <3> QED BY <1>5, <3>1, <3>2 DEF Informer, CacheSync, vars, mrVars
  <2>3. EnvironmentStep \/ UNCHANGED mrVars
    <3>1. Imports \subseteq ExtNames \cup {NoExt}
      BY SlackAssumption DEF Imports
    <3>2. CASE Users
      <4>1. ASSUME NEW m \in MRs, UserDeletes(m) \/ (\E s \in Specs : UserEdits(m, s))
                                  \/ \E s \in Specs, e \in Imports : UserCreates(m, s, e)
            PROVE  EnvironmentStep
        BY <3>1, <4>1 DEF EnvironmentStep
      <4> QED BY <3>2, <4>1 DEF Users, SlackUserCreates, SlackUserChanges, SlackUserRetires,
                                SlackUserRestores
    <3> QED BY <1>5, <3>2 DEF Informer, EnvironmentStep, vars
  <2>4. ASSUME NEW v \in Workers PROVE KnowsHeld(v)'
    <3>1. CASE Crash(v)
      BY <2>1, <3>1, Entered, <1>0 DEF Crash, Release, Enter, TypeOK, MRTypeOK, WorkerOK
    <3>2. CASE ~Crash(v)
      BY <1>1, <1>5, <2>1, <2>3, <3>2
    <3> QED BY <3>1, <3>2
  <2> QED BY <1>2, <1>5, <2>2, <2>4 DEF HeldInv, HeldLive
<1>6. CASE \E w \in Workers : Reconcile(w)
  BY <1>0, <1>3, <1>6, ReconcileHolds, ObtainsHeld
<1>7. CASE ~ \E w \in Workers : Reconcile(w)
  <2>1. \/ Users \/ UNCHANGED vars
        \/ \E w \in Workers : Dies(w) \/ \E m \in MRs : Informer(w, m)
    BY <1>7 DEF Next
  <2>2. HoldsNoMore
    BY <1>0, <2>1, OthersHold
  <2> QED BY <1>4, <1>5, <2>1, <2>2
<1> QED BY <1>6, <1>7

-----------------------------------------------------------------------------
(* The theorems on channels *)

LEMMA HeldInit == Init => HeldInv
  BY DEF Init, MRInit, HeldInv, NoForgottenChannel, OneChannelPerResource, Holds, KnowsHeld, At

\* The inductive invariant of the controller in its loop.
THEOREM ConversationInvariant == Spec => []ConvInv
<1>1. ConvInv /\ LoopInv' /\ [Next]_vars => ConvInv'
  BY TypeStep, AddressedStep, HeldStep DEF ConvInv
<1>2. Spec => []LoopInv
  BY ImplementsLoop, LoopInvariant, PTL
<1>3. Init /\ LoopInv => ConvInv
  BY TypeInit, HeldInit DEF ConvInv
<1> QED BY <1>1, <1>2, <1>3, PTL DEF Spec

\* Whatever fails, whoever crashes, however many replicas run: a channel whose
\* creation was answered is never forgotten.
THEOREM ChannelsAreNotForgotten == Spec => []NoForgottenChannel
<1>1. ConvInv => NoForgottenChannel
  BY DEF ConvInv, HeldInv
<1> QED BY <1>1, ConversationInvariant, PTL

\* Nor does a resource ever hold two channels made for it.
THEOREM ChannelsAreNotDuplicated == Spec => []OneChannelPerResource
<1>1. ConvInv => OneChannelPerResource
  BY DEF ConvInv, HeldInv
<1> QED BY <1>1, ConversationInvariant, PTL

-----------------------------------------------------------------------------
(* The controller implements ObjectBook *)

\* A write of m is an entry in the book, or it leaves the book alone.
LEMMA WriteIsRecord ==
    ASSUME ApiOK, SlackOK, UNCHANGED slackVars, NEW m \in MRs, NEW o, Store(m, o),
           \/ HeldIs(m, o.ext)
           \/ o.ext = api[m].ext
           \/ ~isChannelID(o.ext) /\ ~isChannelID(api[m].ext)
    PROVE  Book!BookNext \/ UNCHANGED Book!bookVars
<1> DEFINE id == IF isChannelID(o.ext) THEN o.ext ELSE NoExt
<1>1. api' = [api EXCEPT ![m] = o] /\ UNCHANGED heldBy
  BY DEF Store, slackVars, heldBy
<1>2. recorded' = [recorded EXCEPT ![m] = id]
  BY <1>1 DEF recorded, ApiOK
<1>3. id \in Channels \cup {NoExt}
  BY DEF isChannelID
<1>4. CASE HeldIs(m, o.ext)
  <2>1. \A c \in Channels : heldBy[c] = m => id = c
    BY <1>4, NamesAssumption DEF heldBy, HeldIs, Holds, isChannelID
  <2>2. Book!Record(m, id)
    BY <1>1, <1>2, <2>1 DEF Book!Record
  <2> QED BY <1>3, <2>2 DEF Book!BookNext
<1>5. CASE o.ext = api[m].ext \/ (~isChannelID(o.ext) /\ ~isChannelID(api[m].ext))
  <2>1. recorded[m] = id
    BY <1>5 DEF recorded
  <2>2. recorded' = recorded
    BY <1>2, <2>1 DEF recorded
  <2> QED BY <1>1, <2>2 DEF Book!bookVars
<1> QED BY <1>4, <1>5

LEMMA QuietBook ==
    ASSUME UNCHANGED api, acked' = acked, \A c \in acked : madeFor'[c] = madeFor[c]
    PROVE  UNCHANGED Book!bookVars
  BY DEF recorded, heldBy, Book!bookVars

LEMMA RetireIsGiveUp ==
    ASSUME SlackOK, HeldLive, NEW c \in Channels, NEW r, Retire(c, r), UNCHANGED api
    PROVE  Book!BookNext \/ UNCHANGED Book!bookVars
<1>1. recorded' = recorded
  BY DEF recorded
<1>2. heldBy' = [heldBy EXCEPT ![c] = NoMR]
  BY DEF heldBy, Retire, SlackOK
<1>3. CASE c \in acked
  <2>1. heldBy[c] # NoMR
    BY <1>3, NamesAssumption DEF heldBy, HeldLive
  <2>2. Book!GiveUp(c)
    BY <1>1, <1>2, <2>1 DEF Book!GiveUp
  <2> QED BY <2>2 DEF Book!BookNext
<1>4. CASE c \notin acked
  <2>1. heldBy' = heldBy
    BY <1>2, <1>4 DEF heldBy
  <2> QED BY <1>1, <2>1 DEF Book!bookVars
<1> QED BY <1>3, <1>4

LEMMA ObtainsIsObtain ==
    ASSUME ConvInv, NEW w \in Workers, NEW c \in Channels, Obtains(w, c)
    PROVE  Book!BookNext
<1>1. /\ NoneHeld(cur[w]) /\ cur[w] \in MRs /\ SlackOK /\ HeldLive
  BY DEF ConvInv, TypeOK, MRTypeOK, WorkerOK, HeldInv, HeldLive, KnowsHeld, Obtains, At
<1>2. /\ c \notin acked /\ madeFor' = [madeFor EXCEPT ![c] = cur[w]] /\ acked' = acked \cup {c}
  BY <1>1 DEF Obtains, Make, HeldLive, Live
<1>3. recorded' = recorded
  BY DEF recorded, Obtains, GoOnCreate, NameInCreate, CreateReturns, Calls
<1>4. heldBy' = [heldBy EXCEPT ![c] = cur[w]]
  BY <1>1, <1>2 DEF heldBy, SlackOK
<1>5. heldBy[c] = NoMR /\ \A d \in Channels : heldBy[d] # cur[w]
  BY <1>1, <1>2, NamesAssumption DEF heldBy, NoneHeld, Holds
<1>6. Book!Obtain(cur[w], c)
  BY <1>3, <1>4, <1>5 DEF Book!Obtain
<1> QED BY <1>1, <1>6 DEF Book!BookNext

LEMMA RuntimeBook ==
    ASSUME ConvInv, NEW w \in Workers, Runtime(w)
    PROVE  Book!BookNext \/ UNCHANGED Book!bookVars
<1>0. /\ ApiOK /\ SlackOK /\ KnowsHeld(w) /\ WorkerInv(w) /\ mg[w] \in Object
      /\ pc[w] # "idle" => cur[w] \in MRs /\ api[cur[w]] \in Object
      /\ UNCHANGED slackVars
  BY DEF ConvInv, TypeOK, MRTypeOK, ApiOK, WorkerOK, HeldInv, LoopInv, Runtime
<1>1. UNCHANGED api => UNCHANGED Book!bookVars
  BY <1>0, QuietBook DEF slackVars
<1>2. CASE Initialize(w)
  <2> DEFINE o == [mg[w] EXCEPT !.ext = MetaName[cur[w]]]
  <2>1. CASE w \in fresh /\ StoreBy(w, o)
    <3>1. Store(cur[w], o) /\ cur[w] \in MRs /\ pc[w] = "init" /\ o.ext = MetaName[cur[w]]
      BY <1>0, <1>2, <2>1 DEF Initialize, StoreBy, Object
    <3>2. ~isChannelID(o.ext) /\ ~isChannelID(api[cur[w]].ext)
      BY <1>0, <2>1, <3>1, NamesAssumption, SlackAssumption DEF KnowsHeld, isChannelID
    <3> HIDE DEF o
    <3> QED BY <1>0, <3>1, <3>2, WriteIsRecord
  <2> QED BY <1>1, <1>2, <2>1 DEF Initialize, WriteFails
<1>3. CASE AddFinalizer(w)
  <2> DEFINE o == [mg[w] EXCEPT !.fin = TRUE, !.synced = api[cur[w]].synced]
  <2>1. CASE w \in fresh /\ StoreBy(w, o)
    <3>1. Store(cur[w], o) /\ cur[w] \in MRs /\ HeldIs(cur[w], mg[w].ext) /\ o.ext = mg[w].ext
      BY <1>0, <1>3, <2>1 DEF AddFinalizer, StoreBy, Object, KnowsHeld, Passed
    <3> HIDE DEF o
    <3> QED BY <1>0, <3>1, WriteIsRecord
  <2> QED BY <1>1, <1>3, <2>1 DEF AddFinalizer, WriteFails
<1>4. CASE RemoveFinalizer(w)
  <2>1. CASE w \in fresh /\ StoreByUser(cur[w], Blank)
    <3>1. Store(cur[w], Blank) /\ cur[w] \in MRs /\ HeldIs(cur[w], Blank.ext)
      BY <1>0, <1>4, <2>1 DEF RemoveFinalizer, StoreByUser, KnowsHeld, NoneHeld, HeldIs
    <3> QED BY <1>0, <3>1, WriteIsRecord
  <2> QED BY <1>1, <1>4, <2>1 DEF RemoveFinalizer, WriteFails
<1>5. CASE CreatePending(w)
  <2> DEFINE o == [mg[w] EXCEPT !.create = "pending", !.synced = api[cur[w]].synced]
  <2>1. CASE w \in fresh /\ StoreBy(w, o)
    <3>1. Store(cur[w], o) /\ cur[w] \in MRs /\ HeldIs(cur[w], o.ext)
      BY <1>0, <1>5, <2>1 DEF CreatePending, StoreBy, KnowsHeld, NoneHeld, HeldIs
    <3> HIDE DEF o
    <3> QED BY <1>0, <3>1, WriteIsRecord
  <2> QED BY <1>1, <1>5, <2>1 DEF CreatePending, WriteFails
<1>6. CASE UpdateCritical(w)
  <2> DEFINE o == [api[cur[w]] EXCEPT !.ext = mg[w].ext, !.create = mg[w].create]
  <2>1. CASE StoreBy(w, o)
    <3>1. Store(cur[w], o) /\ cur[w] \in MRs /\ HeldIs(cur[w], mg[w].ext) /\ o.ext = mg[w].ext
      BY <1>0, <1>6, <2>1 DEF UpdateCritical, StoreBy, Object, KnowsHeld
    <3> HIDE DEF o
    <3> QED BY <1>0, <3>1, WriteIsRecord
  <2> QED BY <1>1, <1>6, <2>1 DEF UpdateCritical
<1>7. CASE StatusUpdate(w)
  <2> DEFINE o == [api[cur[w]] EXCEPT !.synced = mg[w].synced]
  <2>1. CASE StoreByUser(cur[w], o)
    <3>1. Store(cur[w], o) /\ cur[w] \in MRs /\ o.ext = api[cur[w]].ext
      BY <1>0, <1>7, <2>1 DEF StatusUpdate, StoreByUser, Object
    <3> HIDE DEF o
    <3> QED BY <1>0, <3>1, WriteIsRecord
  <2> QED BY <1>1, <1>7, <2>1 DEF StatusUpdate
<1>8. CASE \E m \in MRs : Start(w, m)
  BY <1>1, <1>8 DEF Start
<1> QED BY <1>2, <1>3, <1>4, <1>5, <1>6, <1>7, <1>8 DEF Runtime, RuntimeStep

LEMMA CallsBook ==
    ASSUME ConvInv, NEW w \in Workers,
           Observe(w) \/ Create(w) \/ Update(w) \/ ArchiveConversation(w)
    PROVE  Book!BookNext \/ UNCHANGED Book!bookVars
<1>0. SlackOK /\ HeldLive /\ Addressed(w)
  BY DEF ConvInv, TypeOK, HeldInv, HeldLive
<1>1. UNCHANGED api
  <2>1. ControllerStep(w) \/ UNCHANGED mrVars
    BY ObserveIsStep, CreateIsStep, UpdateIsStep DEF ConvInv, TypeOK
  <2> QED BY <2>1 DEF ControllerStep, NameInObserve, NameInCreate, ObserveAnswers,
                      CreateReturns, CallReturns, Calls, mrVars
<1>2. UNCHANGED <<madeFor, acked>> => UNCHANGED Book!bookVars
  BY <1>1, QuietBook
<1>3. CASE Observe(w)
  BY <1>2, <1>3 DEF Observe, Connect, FindConversationByName, GetConversationInfo, slackVars
<1>4. CASE CreateConversation(w)
  <2>1. ASSUME NEW c \in Channels, NEW m, NEW n, NEW p, Make(c, m, n, p), UNCHANGED acked
        PROVE  UNCHANGED Book!bookVars
    BY <1>0, <1>1, <2>1, QuietBook DEF Make, HeldLive, Live, SlackOK
  <2> QED BY <1>2, <1>4, <2>1, ObtainsIsObtain DEF CreateConversation, Obtains
<1>5. CASE AdoptTaken(w) \/ SetTopicInCreate(w) \/ SetPurposeInCreate(w)
  BY <1>2, <1>5 DEF AdoptTaken, SetTopicInCreate, SetPurposeInCreate, slackVars
<1>6. CASE Update(w)
  BY <1>2, <1>6 DEF Update, JoinConversation, InfoForUpdate, RenameConversation,
                    SetConversationTopic, SetConversationPurpose, slackVars
<1>7. CASE ArchiveConversation(w)
  <2>1. mg[w].ext \in Channels
    BY <1>0, <1>7 DEF ArchiveConversation, Addressed, At, isChannelID
  <2> QED BY <1>0, <1>1, <1>2, <1>7, <2>1, RetireIsGiveUp DEF ArchiveConversation
<1> QED BY <1>3, <1>4, <1>5, <1>6, <1>7 DEF Create

LEMMA OthersBook ==
    ASSUME ConvInv, \/ Users \/ UNCHANGED vars
                    \/ \E w \in Workers : Dies(w) \/ \E m \in MRs : Informer(w, m)
    PROVE  Book!BookNext \/ UNCHANGED Book!bookVars
<1>0. ApiOK /\ SlackOK /\ HeldLive /\ NoForgottenChannel
  BY DEF ConvInv, TypeOK, MRTypeOK, HeldInv, HeldLive
<1>1. UNCHANGED <<api, madeFor, acked>> => UNCHANGED Book!bookVars
  BY QuietBook
<1>2. ASSUME NEW m \in MRs, NEW o, StoreByUser(m, o), UNCHANGED slackVars,
             NoneHeld(m) \/ o.ext = api[m].ext
      PROVE  Book!BookNext \/ UNCHANGED Book!bookVars
  <2>1. HeldIs(m, o.ext) \/ o.ext = api[m].ext
    BY <1>2 DEF NoneHeld, HeldIs
  <2> QED BY <1>0, <1>2, <2>1, WriteIsRecord DEF StoreByUser
<1>3. \A m \in MRs : ~(api[m].exists /\ api[m].fin) => NoneHeld(m)
  BY <1>0 DEF NoForgottenChannel, NoneHeld
<1>4. ASSUME NEW m \in MRs, UserDeletes(m), UNCHANGED slackVars
      PROVE  Book!BookNext \/ UNCHANGED Book!bookVars
  <2>1. [api[m] EXCEPT !.del = TRUE].ext = api[m].ext
    BY <1>0 DEF ApiOK, Object
  <2> QED BY <1>2, <1>3, <1>4, <2>1 DEF UserDeletes
<1>5. ASSUME NEW m \in MRs, NEW s \in Specs, UserEdits(m, s), UNCHANGED slackVars
      PROVE  Book!BookNext \/ UNCHANGED Book!bookVars
  <2>1. [api[m] EXCEPT !.spec = s].ext = api[m].ext
    BY <1>0 DEF ApiOK, Object
  <2> QED BY <1>2, <1>5, <2>1 DEF UserEdits
<1>6. ASSUME NEW m \in MRs, NEW s, NEW e, UserCreates(m, s, e), UNCHANGED slackVars
      PROVE  Book!BookNext \/ UNCHANGED Book!bookVars
  BY <1>2, <1>3, <1>6 DEF UserCreates
<1>7. ASSUME NEW c \in Channels, NEW n, NEW p, SlackUserCreates(c, n, p)
      PROVE  UNCHANGED Book!bookVars
  BY <1>0, <1>7, QuietBook DEF SlackUserCreates, Make, HeldLive, Live, SlackOK, mrVars
<1>8. ASSUME NEW c \in Channels, SlackUserRetires(c)
      PROVE  Book!BookNext \/ UNCHANGED Book!bookVars
  BY <1>0, <1>8, RetireIsGiveUp DEF SlackUserRetires, mrVars
<1>9. ASSUME NEW c \in Channels, SlackUserChanges(c) \/ SlackUserRestores(c)
      PROVE  UNCHANGED Book!bookVars
  BY <1>1, <1>9 DEF SlackUserChanges, SlackUserRestores, mrVars
<1>10. CASE Users
  BY <1>4, <1>5, <1>6, <1>7, <1>8, <1>9, <1>10 DEF Users
<1>11. CASE UNCHANGED vars \/ \E w \in Workers : Dies(w) \/ \E m \in MRs : Informer(w, m)
  BY <1>1, <1>11 DEF vars, mrVars, slackVars, Dies, Crash, Informer, CacheSync
<1> QED BY <1>10, <1>11

\* The controller implements ObjectBook: seen through heldBy and recorded it
\* is a book in which a held channel is never struck out or replaced.
THEOREM BookIsKept == Spec => ImplementsBook
<1>1. Init => Book!BookInit
  BY NamesAssumption, SlackAssumption
     DEF Init, MRInit, Book!BookInit, heldBy, recorded, Blank, isChannelID
<1>2. ConvInv /\ [Next]_vars => [Book!BookNext]_(Book!bookVars)
  BY RuntimeBook, CallsBook, OthersBook DEF Next, Reconcile
<1> QED BY <1>1, <1>2, ConversationInvariant, PTL DEF Spec, ImplementsBook, Book!BookSpec

\* What holds of the loop holds of this controller: a channel whose creation has
\* lost its outcome is the last one the provider makes for its resource, nothing
\* the provider writes undoes what users decided, and while a worker creates a
\* channel nobody records another one for the resource (conversation.go:161
\* inside managed.Reconciler).
THEOREM ChannelCreationsAreLeased == Spec => ImplementsLease /\ UsersDecide /\ CreatorNames
  BY ImplementsLoop, LeaseIsKept, OnlyUsersDecide, OnlyTheCreatorNames, PTL

-----------------------------------------------------------------------------
(* Only meant changes *)

\* A channel that has been made is never unused again, and nobody becomes the
\* one it was made for.
Ages(c) ==
    chan[c].state # "unused" =>
        chan'[c].state # "unused" /\ madeFor'[c] \in {madeFor[c], NoMR}

AllAge == \A c \in Channels : Ages(c)

LEMMA Archives == ASSUME NEW r \in Channel PROVE [r EXCEPT !.state = "archived"].state = "archived"
  BY DEF Channel

LEMMA SameAges ==
    ASSUME UNCHANGED <<chan, madeFor>> PROVE AllAge
  BY DEF AllAge, Ages

LEMMA MakeAges ==
    ASSUME SlackOK, NEW c \in Channels, NEW m, NEW n, NEW p, Make(c, m, n, p)
    PROVE  /\ AllAge /\ madeFor'[c] = m
           /\ chan'[c].state = "live" /\ chan'[c].name = n
           /\ \A d \in Channels \ {c} : chan'[d] = chan[d]
<1>1. chan'[c] = [NoChannel EXCEPT !.state = "live", !.name = n, !.private = p]
      /\ madeFor'[c] = m
      /\ \A d \in Channels \ {c} : chan'[d] = chan[d] /\ madeFor'[d] = madeFor[d]
  BY DEF Make, SlackOK
<1>2. chan'[c].state = "live" /\ chan'[c].name = n
  BY <1>1 DEF NoChannel
<1> QED BY <1>1, <1>2 DEF AllAge, Ages, Make

\* A change of channel c as in Changes, ChangeFails or by a user of Slack.
LEMMA ChangeAges ==
    ASSUME SlackOK, NEW c \in Channels, NEW r, r.state = chan[c].state,
           Changes(c, r) \/ ChangeFails(c, r) \/ chan' = [chan EXCEPT ![c] = r],
           UNCHANGED madeFor
    PROVE  AllAge
<1>1. chan' = chan \/ chan' = [chan EXCEPT ![c] = r]
  BY DEF Changes, ChangeFails
<1> QED BY <1>1 DEF AllAge, Ages, SlackOK

LEMMA NameAges ==
    ASSUME SlackOK, NEW c \in Channels, NEW n, UNCHANGED madeFor,
           LET r == [chan[c] EXCEPT !.name = n]
           IN  Changes(c, r) \/ ChangeFails(c, r) \/ chan' = [chan EXCEPT ![c] = r]
    PROVE  AllAge
<1> DEFINE r == [chan[c] EXCEPT !.name = n]
<1>1. chan[c] \in Channel
  BY DEF SlackOK
<1>2. r.state = chan[c].state
  BY <1>1, StateKept
<1>3. Changes(c, r) \/ ChangeFails(c, r) \/ chan' = [chan EXCEPT ![c] = r]
  OBVIOUS
<1> HIDE DEF r
<1> QED BY <1>2, <1>3, ChangeAges

LEMMA TopicAges ==
    ASSUME SlackOK, NEW c \in Channels, NEW t, UNCHANGED madeFor,
           LET r == [chan[c] EXCEPT !.topic = t]
           IN  Changes(c, r) \/ ChangeFails(c, r) \/ chan' = [chan EXCEPT ![c] = r]
    PROVE  AllAge
<1> DEFINE r == [chan[c] EXCEPT !.topic = t]
<1>1. chan[c] \in Channel
  BY DEF SlackOK
<1>2. r.state = chan[c].state
  BY <1>1, StateKept
<1>3. Changes(c, r) \/ ChangeFails(c, r) \/ chan' = [chan EXCEPT ![c] = r]
  OBVIOUS
<1> HIDE DEF r
<1> QED BY <1>2, <1>3, ChangeAges

LEMMA PurposeAges ==
    ASSUME SlackOK, NEW c \in Channels, NEW t, UNCHANGED madeFor,
           LET r == [chan[c] EXCEPT !.purpose = t]
           IN  Changes(c, r) \/ ChangeFails(c, r) \/ chan' = [chan EXCEPT ![c] = r]
    PROVE  AllAge
<1> DEFINE r == [chan[c] EXCEPT !.purpose = t]
<1>1. chan[c] \in Channel
  BY DEF SlackOK
<1>2. r.state = chan[c].state
  BY <1>1, StateKept
<1>3. Changes(c, r) \/ ChangeFails(c, r) \/ chan' = [chan EXCEPT ![c] = r]
  OBVIOUS
<1> HIDE DEF r
<1> QED BY <1>2, <1>3, ChangeAges

LEMMA RetireAges ==
    ASSUME SlackOK, NEW c \in Channels, NEW r, Retire(c, r), r.state # "unused"
    PROVE  AllAge
  BY DEF Retire, AllAge, Ages, SlackOK

\* The channel a worker in Update or Delete, or late in Create, works on.
LEMMA OnChannel ==
    ASSUME TypeOK, NEW w \in Workers, Addressed(w),
           pc[w] \in {"update", "delete"} \/ (pc[w] = "create" /\ step[w] \in {"topic", "purpose"})
    PROVE  mg[w].ext \in Channels /\ chan[mg[w].ext] \in Channel
  BY DEF TypeOK, SlackOK, Addressed, isChannelID

LEMMA ReconcileAges ==
    ASSUME TypeOK, NEW w \in Workers, Addressed(w), Reconcile(w)
    PROVE  AllAge
<1>0. SlackOK
  BY DEF TypeOK
<1>1. CASE Runtime(w) \/ Observe(w)
  BY <1>1, SameAges DEF Runtime, Observe, Connect, FindConversationByName, GetConversationInfo,
                        slackVars
<1>2. CASE CreateConversation(w) \/ AdoptTaken(w)
  BY <1>0, <1>2, SameAges, MakeAges DEF CreateConversation, AdoptTaken, slackVars
<1>3. CASE SetTopicInCreate(w) \/ SetPurposeInCreate(w)
  <2>1. mg[w].ext \in Channels /\ chan[mg[w].ext] \in Channel
    BY <1>3, OnChannel DEF SetTopicInCreate, SetPurposeInCreate, At
  <2>2. CASE SetTopicInCreate(w)
    BY <1>0, <2>1, <2>2, TopicAges DEF SetTopicInCreate
  <2>3. CASE SetPurposeInCreate(w)
    BY <1>0, <2>1, <2>3, PurposeAges DEF SetPurposeInCreate
  <2> QED BY <1>3, <2>2, <2>3
<1>4. CASE Update(w)
  <2>1. mg[w].ext \in Channels /\ chan[mg[w].ext] \in Channel
    BY <1>4, OnChannel DEF Update, JoinConversation, InfoForUpdate, RenameConversation,
                           SetConversationTopic, SetConversationPurpose, At
  <2>2. CASE JoinConversation(w) \/ InfoForUpdate(w)
    BY <2>2, SameAges DEF JoinConversation, InfoForUpdate, slackVars
  <2>3. CASE RenameConversation(w)
    BY <1>0, <2>1, <2>3, NameAges, SameAges DEF RenameConversation
  <2>4. CASE SetConversationTopic(w)
    BY <1>0, <2>1, <2>4, TopicAges DEF SetConversationTopic
  <2>5. CASE SetConversationPurpose(w)
    BY <1>0, <2>1, <2>5, PurposeAges DEF SetConversationPurpose
  <2> QED BY <1>4, <2>2, <2>3, <2>4, <2>5 DEF Update
<1>5. CASE ArchiveConversation(w)
  <2>1. mg[w].ext \in Channels /\ chan[mg[w].ext] \in Channel
    BY <1>5, OnChannel DEF ArchiveConversation, At
  <2> DEFINE r == [chan[mg[w].ext] EXCEPT !.state = "archived"]
  <2>2. r.state # "unused"
    BY <2>1, Archives
  <2>3. Retire(mg[w].ext, r) \/ UNCHANGED <<chan, madeFor>>
    BY <1>5 DEF ArchiveConversation
  <2> HIDE DEF r
  <2> QED BY <1>0, <2>1, <2>2, <2>3, SameAges, RetireAges
<1> QED BY <1>1, <1>2, <1>3, <1>4, <1>5 DEF Reconcile, Create

LEMMA OthersAge ==
    ASSUME TypeOK, \/ Users
                   \/ \E w \in Workers : Dies(w) \/ \E m \in MRs : Informer(w, m)
                   \/ UNCHANGED vars
    PROVE  AllAge
<1>0. SlackOK /\ \A c \in Channels : chan[c] \in Channel
  BY DEF TypeOK, SlackOK
<1>1. ASSUME NEW c \in Channels, NEW n \in Names, NEW p \in BOOLEAN, SlackUserCreates(c, n, p)
      PROVE  AllAge
  BY <1>0, <1>1, MakeAges DEF SlackUserCreates
<1>2. ASSUME NEW c \in Channels, SlackUserChanges(c) PROVE AllAge
  <2>1. ASSUME NEW n, chan' = [chan EXCEPT ![c] = [chan[c] EXCEPT !.name = n]] PROVE AllAge
    BY <1>0, <1>2, <2>1, NameAges DEF SlackUserChanges
  <2>2. ASSUME NEW t, chan' = [chan EXCEPT ![c] = [chan[c] EXCEPT !.topic = t]] PROVE AllAge
    BY <1>0, <1>2, <2>2, TopicAges DEF SlackUserChanges
  <2>3. ASSUME NEW t, chan' = [chan EXCEPT ![c] = [chan[c] EXCEPT !.purpose = t]] PROVE AllAge
    BY <1>0, <1>2, <2>3, PurposeAges DEF SlackUserChanges
  <2> QED BY <1>2, <2>1, <2>2, <2>3 DEF SlackUserChanges
<1>3. ASSUME NEW c \in Channels, SlackUserRetires(c) PROVE AllAge
  <2>1. CASE Retire(c, [chan[c] EXCEPT !.state = "archived"])
    <3> DEFINE r == [chan[c] EXCEPT !.state = "archived"]
    <3>1. r.state # "unused"
      BY <1>0, Archives
    <3>2. Retire(c, r)
      BY <2>1
    <3> HIDE DEF r
    <3> QED BY <1>0, <3>1, <3>2, RetireAges
  <2>2. CASE Retire(c, [NoChannel EXCEPT !.state = "deleted"])
    <3> DEFINE r == [NoChannel EXCEPT !.state = "deleted"]
    <3>1. r.state # "unused"
      BY DEF NoChannel
    <3>2. Retire(c, r)
      BY <2>2
    <3> HIDE DEF r
    <3> QED BY <1>0, <3>1, <3>2, RetireAges
  <2> QED BY <1>3, <2>1, <2>2 DEF SlackUserRetires
<1>4. ASSUME NEW c \in Channels, SlackUserRestores(c) PROVE AllAge
  <2>1. chan' = [chan EXCEPT ![c] = [chan[c] EXCEPT !.state = "live"]] /\ UNCHANGED madeFor
    BY <1>4 DEF SlackUserRestores
  <2>2. [chan[c] EXCEPT !.state = "live"].state = "live"
    BY <1>0, StateKept
  <2> QED BY <1>0, <2>1, <2>2 DEF AllAge, Ages, SlackOK
<1>5. CASE UNCHANGED slackVars
  BY <1>5, SameAges DEF slackVars
<1> QED BY <1>1, <1>2, <1>3, <1>4, <1>5 DEF Users, Dies, Informer, vars

\* A worker that enters a phase is entitled to its first call.
LEMMA EntersEntitled ==
    ASSUME TypeOK, NEW w \in Workers, NEW m, NEW o, NEW p, Enter(w, m, o, p), NextPhase(w),
           p = "delete" => o.del
    PROVE  EntitledInv(w)'
<1>1. pc'[w] = p /\ mg'[w] = o /\ step'[w] = FirstStep(p)
  BY Entered
<1> QED BY <1>1 DEF EntitledInv, FirstStep

LEMMA ReturnEntitled ==
    ASSUME TypeOK, NEW w \in Workers, NextPhase(w), NEW c, NEW ok, NEW r,
           CreateReturns(w, ok, c) \/ CallReturns(w, ok) \/ Report(w, c, r)
    PROVE  EntitledInv(w)'
  BY EntersEntitled DEF CreateReturns, CallReturns, Report

LEMMA RuntimeEntitled ==
    ASSUME TypeOK, NEW w \in Workers, Runtime(w)
    PROVE  EntitledInv(w)'
<1>0. NextPhase(w)
  BY DEF Runtime
<1>1. ASSUME NEW m, NEW o, NEW p, Enter(w, m, o, p), p # "delete" PROVE EntitledInv(w)'
  BY <1>0, <1>1, EntersEntitled
<1> QED BY <1>1 DEF Runtime, RuntimeStep, Start, PassGate, Initialize, WriteFails, Release, Report,
     AddFinalizer, Decide, RemoveFinalizer, CreatePending, UpdateCritical, StatusUpdate

LEMMA AnswerEntitled ==
    ASSUME TypeOK, NEW w \in Workers, NEW o, NEW c, ObserveAnswers(w, o, c), NextPhase(w)
    PROVE  EntitledInv(w)'
<1>1. ASSUME NEW p, Enter(w, cur[w], c, p), p = "delete" => c.del PROVE EntitledInv(w)'
  BY <1>1, EntersEntitled
<1>2. CASE pc' = [pc EXCEPT ![w] = "finalize"]
  <2>1. pc'[w] = "finalize"
    BY <1>2 DEF TypeOK, MRTypeOK, WorkerOK
  <2> QED BY <2>1 DEF EntitledInv
<1> QED BY <1>1, <1>2, ReturnEntitled DEF ObserveAnswers, Decide

LEMMA ObserveEntitled ==
    ASSUME TypeOK, NEW w \in Workers, Observe(w)
    PROVE  EntitledInv(w)'
<1>1. pc[w] = "observe"
  BY DEF Observe, Connect, FindConversationByName, GetConversationInfo, At
<1>2. CASE UNCHANGED pc
  BY <1>1, <1>2 DEF EntitledInv
<1> QED BY <1>2, AnswerEntitled
        DEF Observe, Connect, FindConversationByName, GetConversationInfo, Stay, mrVars, NameInObserve

LEMMA CreateEntitled ==
    ASSUME TypeOK, AllAge, NEW w \in Workers, Addressed(w), EntitledInv(w), Create(w)
    PROVE  EntitledInv(w)'
<1>0. /\ mg[w] \in Object /\ mg \in [Workers -> Object] /\ step \in [Workers -> Steps]
      /\ SlackOK /\ pc[w] = "create"
  BY DEF TypeOK, MRTypeOK, WorkerOK, StepOK, Create, CreateConversation, AdoptTaken,
         SetTopicInCreate, SetPurposeInCreate, At
<1>1. ASSUME NEW c \in Channels, NEW s, GoOnCreate(w, c, s),
             chan'[c].state # "unused", madeFor'[c] \in {cur[w], NoMR}
      PROVE  EntitledInv(w)'
  <2>1. CASE NameInCreate(w, c)
    <3>1. mg'[w].ext = c /\ UNCHANGED <<pc, cur>>
      BY <1>0, <2>1 DEF NameInCreate, Object
    <3> QED BY <1>0, <1>1, <3>1 DEF EntitledInv
  <2> QED BY <1>1, <2>1, ReturnEntitled DEF GoOnCreate
<1>2. ASSUME NEW r, CreateFails(w, r) PROVE EntitledInv(w)'
  BY <1>2, ReturnEntitled DEF CreateFails
<1>3. CASE CreateConversation(w)
  <2>1. CASE Goto(w, "adopt") /\ Stay
    <3>1. pc'[w] = "create" /\ step'[w] = "adopt"
      BY <1>0, <2>1 DEF Goto, Stay, mrVars
    <3> QED BY <3>1 DEF EntitledInv
  <2>2. ASSUME NEW c \in Channels, Make(c, cur[w], mg[w].spec.name, mg[w].spec.private),
               GoOnCreate(w, c, "topic")
        PROVE  EntitledInv(w)'
    BY <1>0, <1>1, <2>2, MakeAges
  <2> QED BY <1>2, <1>3, <2>1, <2>2 DEF CreateConversation
<1>4. CASE AdoptTaken(w)
  BY <1>2, <1>4, ReturnEntitled DEF AdoptTaken
<1>5. CASE SetTopicInCreate(w)
  <2>1. mg[w].ext \in Channels /\ step[w] = "topic"
    BY <1>5, OnChannel DEF SetTopicInCreate, At
  <2>2. chan'[mg[w].ext].state # "unused" /\ madeFor'[mg[w].ext] \in {cur[w], NoMR}
    BY <1>0, <2>1 DEF EntitledInv, AllAge, Ages
  <2> QED BY <1>1, <1>2, <1>5, <2>1, <2>2 DEF SetTopicInCreate
<1>6. CASE SetPurposeInCreate(w)
  BY <1>2, <1>6, ReturnEntitled DEF SetPurposeInCreate
<1> QED BY <1>3, <1>4, <1>5, <1>6 DEF Create

LEMMA UpdateEntitled ==
    ASSUME TypeOK, NEW w \in Workers, Update(w) \/ ArchiveConversation(w)
    PROVE  EntitledInv(w)'
<1>1. CASE ArchiveConversation(w)
  BY <1>1, ReturnEntitled DEF ArchiveConversation, UpdateReturns
<1>2. CASE Update(w)
  <2>1. pc[w] = "update"
    BY <1>2 DEF Update, JoinConversation, InfoForUpdate, RenameConversation,
                SetConversationTopic, SetConversationPurpose, At
  <2>2. CASE UNCHANGED pc
    BY <2>1, <2>2 DEF EntitledInv
  <2>3. ASSUME NEW ok, UpdateReturns(w, ok) PROVE EntitledInv(w)'
    BY <2>3, ReturnEntitled DEF UpdateReturns
  <2> QED BY <1>2, <2>2, <2>3 DEF Update, JoinConversation, InfoForUpdate, RenameConversation,
             SetConversationTopic, SetConversationPurpose, GoOnUpdate, Stay, mrVars
<1> QED BY <1>1, <1>2

LEMMA EntitledStep ==
    ASSUME TypeOK, \A w \in Workers : Addressed(w) /\ EntitledInv(w), [Next]_vars,
           NEW v \in Workers
    PROVE  EntitledInv(v)'
<1>1. AllAge
  BY ReconcileAges, OthersAge DEF Next
<1>2. ASSUME \/ UNCHANGED <<pc, cur, mg, step>>
             \/ pc'[v] = pc[v] /\ cur'[v] = cur[v] /\ mg'[v] = mg[v] /\ step'[v] = step[v]
      PROVE  EntitledInv(v)'
  <2>1. pc'[v] = pc[v] /\ cur'[v] = cur[v] /\ mg'[v] = mg[v] /\ step'[v] = step[v]
    BY <1>2
  <2>2. (pc[v] = "create" /\ step[v] \in {"topic", "purpose"}) => mg[v].ext \in Channels
    BY OnChannel
  <2>3. EntitledInv(v)
    OBVIOUS
  <2> QED BY <1>1, <2>1, <2>2, <2>3 DEF EntitledInv, AllAge, Ages
<1>3. ASSUME NEW w \in Workers, Reconcile(w) \/ Dies(w) PROVE EntitledInv(v)'
  <2>1. CASE v # w
    BY <1>2, <1>3, <2>1, OthersStay
  <2>2. CASE v = w /\ Reconcile(w)
    BY <1>1, <2>2, RuntimeEntitled, ObserveEntitled, CreateEntitled, UpdateEntitled DEF Reconcile
  <2>3. CASE v = w /\ Dies(w)
    BY <2>3, EntersEntitled DEF Dies, Crash, Release
  <2> QED BY <1>3, <2>1, <2>2, <2>3
<1>4. CASE Users \/ (\E w \in Workers, m \in MRs : Informer(w, m)) \/ UNCHANGED vars
  BY <1>2, <1>4, WorkersStay
<1> QED BY <1>3, <1>4 DEF Next

LEMMA EntitledInvariant == Spec => [](\A w \in Workers : EntitledInv(w))
<1>1. Init => \A w \in Workers : EntitledInv(w)
  BY DEF Init, MRInit, EntitledInv
<1>2. TypeOK /\ (\A w \in Workers : Addressed(w)) /\ (\A w \in Workers : EntitledInv(w)) /\ [Next]_vars
        => (\A w \in Workers : EntitledInv(w))'
  BY EntitledStep
<1> QED BY <1>1, <1>2, TypeCorrect, PTL DEF Spec

\* What the calls that change channel mg[w].ext make of it.
LEMMA CallChanges ==
    ASSUME SlackOK, NEW w \in Workers, mg[w].ext \in Channels, NEW r,
           Changes(mg[w].ext, r) \/ ChangeFails(mg[w].ext, r),
           NEW c \in Channels, chan'[c] # chan[c]
    PROVE  mg[w].ext = c /\ Live(c) /\ chan'[c] = r
  BY DEF Changes, ChangeFails, SlackOK

LEMMA ReconcileIsMeant ==
    ASSUME TypeOK, NEW w \in Workers, Addressed(w), EntitledInv(w), Reconcile(w),
           NEW c \in Channels, chan'[c] # chan[c]
    PROVE  MeantBy(w, c)
<1>0. SlackOK
  BY DEF TypeOK
<1>1. ~Runtime(w) /\ ~Observe(w) /\ ~AdoptTaken(w) /\ ~JoinConversation(w) /\ ~InfoForUpdate(w)
  BY DEF Runtime, Observe, Connect, FindConversationByName, GetConversationInfo, AdoptTaken,
         JoinConversation, InfoForUpdate, slackVars
<1>2. CASE CreateConversation(w)
  <2>1. PICK d \in Channels : Make(d, cur[w], mg[w].spec.name, mg[w].spec.private)
    BY <1>2 DEF CreateConversation, Make
  <2>2. c = d /\ chan[d].state = "unused" /\ madeFor'[d] = cur[w]
        /\ chan'[d].name = mg[w].spec.name
    <3>1. /\ madeFor'[d] = cur[w] /\ chan'[d].name = mg[w].spec.name
          /\ \A e \in Channels \ {d} : chan'[e] = chan[e]
      BY <1>0, <2>1, MakeAges
    <3>2. c = d
      BY <3>1
    <3> QED BY <2>1, <3>1, <3>2 DEF Make
  <2> QED BY <1>2, <2>2 DEF CreateConversation, At, MeantBy
<1>3. CASE SetTopicInCreate(w) \/ SetPurposeInCreate(w)
  <2>1. mg[w].ext \in Channels /\ pc[w] = "create" /\ step[w] \in {"topic", "purpose"}
    BY <1>3, OnChannel DEF SetTopicInCreate, SetPurposeInCreate, At
  <2>2. madeFor[mg[w].ext] \in {cur[w], NoMR}
    BY <2>1 DEF EntitledInv
  <2>3. mg[w].ext = c /\ Live(c) /\ Towards(mg[w].spec, chan[c], chan'[c])
    <3>1. CASE SetTopicInCreate(w)
      <4> DEFINE r == [chan[mg[w].ext] EXCEPT !.topic = Shown(ptrValueOrEmpty(mg[w].spec.topic))]
      <4>1. Changes(mg[w].ext, r) \/ ChangeFails(mg[w].ext, r)
        BY <3>1 DEF SetTopicInCreate
      <4>2. mg[w].ext = c /\ Live(c) /\ chan'[c] = r
        BY <1>0, <2>1, <4>1, CallChanges
      <4> QED BY <4>2 DEF Towards
    <3>2. CASE SetPurposeInCreate(w)
      <4> DEFINE r == [chan[mg[w].ext] EXCEPT !.purpose = Shown(ptrValueOrEmpty(mg[w].spec.purpose))]
      <4>1. Changes(mg[w].ext, r) \/ ChangeFails(mg[w].ext, r)
        BY <3>2 DEF SetPurposeInCreate
      <4>2. mg[w].ext = c /\ Live(c) /\ chan'[c] = r
        BY <1>0, <2>1, <4>1, CallChanges
      <4> QED BY <4>2 DEF Towards
    <3> QED BY <1>3, <3>1, <3>2
  <2> QED BY <2>1, <2>2, <2>3 DEF MeantBy
<1>4. CASE RenameConversation(w) \/ SetConversationTopic(w) \/ SetConversationPurpose(w)
  <2>1. mg[w].ext \in Channels /\ pc[w] = "update"
    BY <1>4, OnChannel DEF RenameConversation, SetConversationTopic, SetConversationPurpose, At
  <2>2. mg[w].ext = c /\ Live(c) /\ Towards(mg[w].spec, chan[c], chan'[c])
    <3>1. CASE RenameConversation(w)
      <4> DEFINE r == [chan[mg[w].ext] EXCEPT !.name = mg[w].spec.name]
      <4>1. Changes(mg[w].ext, r) \/ ChangeFails(mg[w].ext, r) \/ UNCHANGED chan
        BY <3>1 DEF RenameConversation
      <4>2. mg[w].ext = c /\ Live(c) /\ chan'[c] = r
        BY <1>0, <2>1, <4>1, CallChanges
      <4> QED BY <4>2 DEF Towards
    <3>2. CASE SetConversationTopic(w)
      <4> DEFINE r == [chan[mg[w].ext] EXCEPT !.topic = Shown(ptrValueOrEmpty(mg[w].spec.topic))]
      <4>1. Changes(mg[w].ext, r) \/ ChangeFails(mg[w].ext, r)
        BY <3>2 DEF SetConversationTopic
      <4>2. mg[w].ext = c /\ Live(c) /\ chan'[c] = r
        BY <1>0, <2>1, <4>1, CallChanges
      <4> QED BY <4>2 DEF Towards
    <3>3. CASE SetConversationPurpose(w)
      <4> DEFINE r == [chan[mg[w].ext] EXCEPT !.purpose = Shown(ptrValueOrEmpty(mg[w].spec.purpose))]
      <4>1. Changes(mg[w].ext, r) \/ ChangeFails(mg[w].ext, r)
        BY <3>3 DEF SetConversationPurpose
      <4>2. mg[w].ext = c /\ Live(c) /\ chan'[c] = r
        BY <1>0, <2>1, <4>1, CallChanges
      <4> QED BY <4>2 DEF Towards
    <3> QED BY <1>4, <3>1, <3>2, <3>3
  <2> QED BY <2>1, <2>2 DEF MeantBy
<1>5. CASE ArchiveConversation(w)
  <2>1. mg[w].ext \in Channels /\ pc[w] = "delete" /\ mg[w].del
    BY <1>5, OnChannel DEF ArchiveConversation, At, EntitledInv
  <2>2. Live(mg[w].ext) /\ chan' = [chan EXCEPT ![mg[w].ext] = [chan[mg[w].ext] EXCEPT !.state = "archived"]]
    BY <1>5 DEF ArchiveConversation, Retire
  <2>3. mg[w].ext = c /\ chan'[c] = [chan[c] EXCEPT !.state = "archived"]
    BY <1>0, <2>1, <2>2 DEF SlackOK
  <2> QED BY <2>1, <2>2, <2>3 DEF MeantBy
<1> QED BY <1>1, <1>2, <1>3, <1>4, <1>5 DEF Reconcile, Create, Update

\* Whatever the provider does to a channel is what a spec says, on a channel that
\* its worker is entitled to (conversation.go:161-272).
THEOREM ChangesAreMeant == Spec => OnlyMeantChanges
<1>1. ASSUME TypeOK, \A w \in Workers : Addressed(w) /\ EntitledInv(w), [Next]_vars,
             NEW c \in Channels, chan'[c] # chan[c], drift' = drift
      PROVE  \E w \in Workers : MeantBy(w, c)
  <2>1. drift \in Nat
    BY <1>1 DEF TypeOK, SlackOK
  <2>2. ASSUME Users PROVE FALSE
    <3>1. ~UNCHANGED slackVars
      BY <1>1 DEF slackVars
    <3>2. ~Drift
      BY <1>1, <2>1 DEF Drift
    <3> QED BY <2>2, <3>1, <3>2 DEF Users, SlackUserCreates, SlackUserChanges, SlackUserRetires,
                                    SlackUserRestores
  <2>3. ~UNCHANGED vars /\ \A w \in Workers : ~Dies(w) /\ \A m \in MRs : ~Informer(w, m)
    BY <1>1 DEF vars, slackVars, Dies, Informer
  <2>4. PICK w \in Workers : Reconcile(w)
    BY <1>1, <2>2, <2>3 DEF Next
  <2> QED BY <1>1, <2>4, ReconcileIsMeant
<1>2. TypeOK /\ (\A w \in Workers : Addressed(w)) /\ (\A w \in Workers : EntitledInv(w)) /\ [Next]_vars
        => [\A c \in Channels : chan'[c] # chan[c] =>
                drift' # drift \/ \E w \in Workers : MeantBy(w, c)]_vars
  BY <1>1
<1> QED BY <1>2, TypeCorrect, EntitledInvariant, PTL DEF Spec, OnlyMeantChanges
=============================================================================
