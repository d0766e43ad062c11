---------------------------- MODULE UserGroupProofs ----------------------------
(***************************************************************************)
(* The UserGroup controller runs inside the reconcile loop, keeps its      *)
(* types, and never forgets or duplicates a group whose creation was       *)
(* answered, for every number of replicas, resources, groups and names and *)
(* every bound on failures.                                                *)
(***************************************************************************)
EXTENDS UserGroup, ManagedReconcilerProofs

-----------------------------------------------------------------------------
(* The inductive invariant *)

\* A worker changes or disables a group by its ID, never by a name.
Addressed(w) ==
    (\/ pc[w] \in {"update", "delete"}
     \/ pc[w] = "finalize" /\ obs[w] \in {"drifted", "uptodate"}) => mg[w].ext \in Groups

NoneHeld(m) == \A g \in GroupIDs : ~Holds(m, g)

\* If m holds a group, it is e.
HeldIs(m, e) == \A g \in GroupIDs : Holds(m, g) => g = e

\* What a worker knows of the group its resource holds.  A latest copy that
\* passed the gate names it; one that is about to create, or to let the resource
\* go, knows there is none; once Create has answered, the copy names it.
KnowsHeld(w) ==
    LET m == cur[w]
        e == mg[w].ext
    IN  /\ pc[w] = "init" => e = NoExt /\ (w \in fresh => api[m].ext = NoExt)
        /\ (w \in fresh /\ pc[w] \in Passed) => HeldIs(m, e)
        /\ (w \in fresh /\ \/ pc[w] \in {"pending", "unfinalize"}
                           \/ pc[w] = "finalize" /\ obs[w] = "missing") => NoneHeld(m)
        /\ pc[w] = "create" => NoneHeld(m)
        /\ pc[w] = "critical" => HeldIs(m, e)

\* A group that is held is enabled.
HeldEnabled == \A g \in acked : madeFor[g] \in MRs /\ Enabled(g)

HeldInv ==
    /\ HeldEnabled
    /\ NoForgottenGroup
    /\ OneGroupPerResource
    /\ \A w \in Workers : KnowsHeld(w)

GroupInv == TypeOK /\ LoopInv /\ (\A w \in Workers : Addressed(w)) /\ HeldInv

-----------------------------------------------------------------------------
(* Every step of the controller is a step of the loop *)

LEMMA GroupsAreNames == made \in 0 .. MaxGroups => Groups \subseteq GroupIDs /\ Groups \subseteq ExtNames
  BY GroupAssumption DEF Groups, GroupIDs

LEMMA CallIsStep ==
    ASSUME NEW w \in Workers, NEW ok \in BOOLEAN, CallEnds(w, ok), UNCHANGED faults \/ Fault
    PROVE  ControllerStep(w)
  BY DEF CallEnds, ControllerStep

LEMMA CallsAreSteps ==
    ASSUME MRTypeOK, made \in 0 .. MaxGroups, NEW w \in Workers,
           Connect(w) \/ Observe(w) \/ Create(w) \/ Update(w) \/ Delete(w)
    PROVE  ControllerStep(w) \/ UNCHANGED mrVars
<1>1. CASE Connect(w)
  BY <1>1, AnswerIsStep DEF Connect, Observations
<1>2. CASE Observe(w)
  BY <1>2, AnswerIsStep DEF Observe, Observations
<1>3. CASE Create(w)
  <2>1. ASSUME Make(cur[w], mg[w].spec) PROVE made' \in ExtNames
    BY <2>1, GroupAssumption DEF Make, GroupIDs
  <2>2. ASSUME NEW r, CreateFails(w, r), r = mg[w].synced \/ r \in ConditionReasons,
               UNCHANGED faults \/ Fault
        PROVE  ControllerStep(w)
    <3>1. mg[w] \in Object
      BY DEF MRTypeOK, WorkerOK
    <3>2. r = mg[w].synced => [mg[w] EXCEPT !.synced = r] = mg[w]
      BY <3>1 DEF Object
    <3> QED BY <2>2, <3>2, AnswerIsStep DEF CreateFails
  <2> QED BY <1>3, <2>1, <2>2, AnswerIsStep, GroupAssumption DEF Create
<1>4. CASE Update(w)
  BY <1>4, CallIsStep DEF Update
<1>5. CASE Delete(w)
  BY <1>5, CallIsStep DEF Delete
<1> QED BY <1>1, <1>2, <1>3, <1>4, <1>5

\* The users of the API server may do in this module what they may do in the
\* loop; the users of Slack do not touch it.
LEMMA OthersAreSteps ==
    ASSUME MRTypeOK, made \in 0 .. MaxGroups,
           \/ KubernetesUsers \/ SlackUsers
           \/ \E w \in Workers : Dies(w) \/ \E m \in MRs : Informer(w, m)
    PROVE  EnvironmentStep \/ UNCHANGED mrVars
<1>1. CASE KubernetesUsers
  <2>1. Groups \cup {NoExt} \subseteq ExtNames \cup {NoExt}
    BY GroupsAreNames
  <2>2. ASSUME NEW m \in MRs, NEW s \in Specs, NEW e \in Groups \cup {NoExt}, UserCreates(m, s, e)
        PROVE  EnvironmentStep
    BY <2>1, <2>2 DEF EnvironmentStep
  <2>3. ASSUME NEW m \in MRs, UserDeletes(m) \/ \E s \in Specs : UserEdits(m, s)
        PROVE  EnvironmentStep
    BY <2>3 DEF EnvironmentStep
  <2> QED BY <1>1, <2>2, <2>3 DEF KubernetesUsers
<1>2. CASE SlackUsers
  BY <1>2 DEF SlackUsers, SlackUserCreates, SlackUserChanges, SlackUserSwitches, NotReconciling
<1>3. CASE \E w \in Workers : Dies(w) \/ \E m \in MRs : Informer(w, m)
  BY <1>3 DEF Dies, Informer, EnvironmentStep
<1> QED BY <1>1, <1>2, <1>3

LEMMA StepIsLoopStep ==
    ASSUME MRTypeOK, made \in 0 .. MaxGroups, [Next]_vars
    PROVE  [MRNext]_mrVars
<1>1. ASSUME NEW w \in Workers, Reconcile(w) PROVE MRNext \/ UNCHANGED mrVars
  BY <1>1, CallsAreSteps DEF Reconcile, Runtime, MRNext
<1>2. CASE \/ KubernetesUsers \/ SlackUsers
           \/ \E w \in Workers : Dies(w) \/ \E m \in MRs : Informer(w, m)
  BY <1>2, OthersAreSteps DEF MRNext
<1>3. CASE UNCHANGED vars
  BY <1>3 DEF vars
<1> QED BY <1>1, <1>2, <1>3 DEF Next

\* Slack gives out IDs one after the other.
LEMMA MadeStep ==
    ASSUME made \in 0 .. MaxGroups, [Next]_vars
    PROVE  made' \in 0 .. MaxGroups /\ made <= made'
<1>1. ASSUME NEW m, NEW s, Make(m, s) PROVE made' \in 0 .. MaxGroups /\ made <= made'
  BY <1>1, GroupAssumption DEF Make
<1>2. ASSUME NEW w \in Workers, Reconcile(w) \/ Dies(w) \/ \E m \in MRs : Informer(w, m)
      PROVE  made' \in 0 .. MaxGroups /\ made <= made'
  <2>1. UNCHANGED made => made' \in 0 .. MaxGroups /\ made <= made'
    BY GroupAssumption
  <2>2. UNCHANGED slackVars => UNCHANGED made
    BY DEF slackVars
  <2>3. CASE Create(w)
    BY <1>1, <2>1, <2>3 DEF Create
  <2>4. CASE Update(w) \/ Delete(w)
    BY <2>1, <2>4 DEF Update, Delete
  <2> QED BY <1>2, <2>1, <2>2, <2>3, <2>4 DEF Reconcile, Runtime, Connect, Observe, Dies, Informer
<1>3. CASE KubernetesUsers \/ SlackUsers \/ UNCHANGED vars
  <2>1. UNCHANGED made => made' \in 0 .. MaxGroups /\ made <= made'
    BY GroupAssumption
  <2> QED BY <1>1, <1>3, <2>1
          DEF KubernetesUsers, SlackUsers, SlackUserCreates, SlackUserChanges, SlackUserSwitches,
              vars, slackVars
<1> QED BY <1>2, <1>3 DEF Next

\* The UserGroup controller implements the reconcile loop: whatever its calls
\* to Slack do, every step of it is one the loop allows a controller
\* (usergroup.go:63-215 inside managed.Reconciler).
THEOREM GroupsInLoop == Spec => MRSpec
<1> DEFINE Inv == MRTypeOK /\ made \in 0 .. MaxGroups
<1>1. Init => MRInit /\ Inv
  BY MRTypeInit, GroupAssumption DEF Init
<1>2. Inv /\ [Next]_vars => Inv' /\ [MRNext]_mrVars
  BY StepIsLoopStep, MRTypeStep, MadeStep
<1> QED BY <1>1, <1>2, PTL DEF Spec, MRSpec

-----------------------------------------------------------------------------
(* Types *)

\* A worker in the middle of a reconcile has a spec of the right shape.
LEMMA SpecShape ==
    ASSUME LoopInv, NEW w \in Workers, pc[w] \notin {"idle", "status"}
    PROVE  mg[w].spec.name \in Names /\ ptrValueOrEmpty(mg[w].spec.description) \in Texts
<1>1. mg[w] \in Object /\ mg[w].exists
  BY DEF LoopInv, MRTypeOK, WorkerOK, WorkerInv
<1>2. mg[w].spec \in [name : Names, description : Texts \cup {Nil}]
  BY <1>1, GroupAssumption DEF Object
<1> QED BY <1>2, GroupAssumption DEF ptrValueOrEmpty

LEMMA SpecsShape ==
    ASSUME NEW s \in Specs
    PROVE  s.name \in Names /\ ptrValueOrEmpty(s.description) \in Texts
<1>1. s \in [name : Names, description : Texts \cup {Nil}]
  BY GroupAssumption
<1> QED BY <1>1, GroupAssumption DEF ptrValueOrEmpty

LEMMA StepType ==
    ASSUME step \in [Workers -> Steps], NEW w \in Workers,
           NextPhase(w) \/ \E s \in Steps : step' = [step EXCEPT ![w] = s]
    PROVE  step' \in [Workers -> Steps]
<1>1. FirstStep(pc'[w]) \in Steps
  BY DEF FirstStep, Steps
<1> QED BY <1>1 DEF NextPhase

\* What the changes of a group make of it.
LEMMA GroupFields ==
    ASSUME NEW r \in Group
    PROVE  /\ \A n \in Names, t \in Texts : [r EXCEPT !.name = n, !.description = t] \in Group
           /\ \A b \in BOOLEAN : [r EXCEPT !.enabled = b] \in Group
           /\ r.description \in Texts
<1>1. \A n \in Names, t \in Texts : [r EXCEPT !.name = n, !.description = t] \in Group
  BY DEF Group
<1>2. \A b \in BOOLEAN : [r EXCEPT !.enabled = b] \in Group
  BY DEF Group
<1> QED BY <1>1, <1>2 DEF Group

LEMMA MakeFacts ==
    ASSUME SlackOK, NEW m, NEW s, Make(m, s)
    PROVE  /\ made' = made + 1 /\ made' \in GroupIDs /\ made' \notin Groups
           /\ Groups' = Groups \cup {made'}
           /\ \A g \in GroupIDs \ {made'} : group'[g] = group[g] /\ madeFor'[g] = madeFor[g]
           /\ group'[made'] = [name |-> s.name, description |-> ptrValueOrEmpty(s.description),
                               enabled |-> TRUE]
           /\ madeFor'[made'] = m
<1>1. made' = made + 1 /\ made' \in GroupIDs /\ made' \notin Groups /\ Groups' = Groups \cup {made'}
  BY GroupAssumption DEF SlackOK, Make, Groups, GroupIDs
<1> QED BY <1>1 DEF SlackOK, Make

LEMMA MakeType ==
    ASSUME SlackOK, NEW m \in MRs \cup {NoMR}, NEW s, Make(m, s), s.name \in Names,
           ptrValueOrEmpty(s.description) \in Texts, drift' \in 0 .. MaxDrift,
           acked' = acked \/ acked' = acked \cup {made'}
    PROVE  SlackOK'
<1> DEFINE r == [name |-> s.name, description |-> ptrValueOrEmpty(s.description), enabled |-> TRUE]
<1>1. r \in Group
  BY DEF Group
<1>2. group' = [group EXCEPT ![made'] = r] /\ madeFor' = [madeFor EXCEPT ![made'] = m]
  BY DEF Make
<1> HIDE DEF r
<1>3. made' \in 0 .. MaxGroups
  BY GroupAssumption DEF SlackOK, Make
<1>4. group' \in [GroupIDs -> Group \cup {Unmade}] /\ madeFor' \in [GroupIDs -> MRs \cup {NoMR}]
  BY <1>1, <1>2 DEF SlackOK
<1>5. \A g \in Groups' : group'[g] \in Group
  <2>1. group'[made'] \in Group
    BY <1>1, <1>2, MakeFacts DEF SlackOK
  <2>2. ASSUME NEW g \in Groups PROVE group'[g] \in Group
    <3>1. group[g] \in Group /\ g \in GroupIDs \ {made'}
      BY MakeFacts, GroupsAreNames DEF SlackOK
    <3> QED BY <3>1, MakeFacts
  <2> QED BY <2>1, <2>2, MakeFacts
<1>6. acked' \in SUBSET Groups'
  BY MakeFacts DEF SlackOK
<1> QED BY <1>3, <1>4, <1>5, <1>6 DEF SlackOK

\* Storing a group that is made as another one.
LEMMA ReplaceType ==
    ASSUME SlackOK, NEW g \in Groups, NEW r \in Group, group' = [group EXCEPT ![g] = r],
           UNCHANGED made, drift' \in 0 .. MaxDrift,
           \/ UNCHANGED <<madeFor, acked>>
           \/ madeFor' = [madeFor EXCEPT ![g] = NoMR] /\ acked' = acked \ {g}
    PROVE  SlackOK'
<1>1. Groups' = Groups /\ Groups \subseteq GroupIDs
  BY GroupsAreNames DEF Groups, SlackOK
<1>2. group' \in [GroupIDs -> Group \cup {Unmade}] /\ \A h \in Groups : group'[h] \in Group
  BY <1>1 DEF SlackOK
<1> QED BY <1>1, <1>2 DEF SlackOK

LEMMA ChangeIsReplace ==
    ASSUME SlackOK, NEW g \in Groups, NEW n \in Names, NEW t \in Texts, NEW d,
           group' = [group EXCEPT ![g].name = n, ![g].description = IF d THEN @ ELSE t]
    PROVE  \E r \in Group : group' = [group EXCEPT ![g] = r] /\ r.enabled = group[g].enabled
<1>0. group[g] \in Group /\ group[g].description \in Texts
  BY GroupFields DEF SlackOK
<1> DEFINE r == [group[g] EXCEPT !.name = n, !.description = IF d THEN group[g].description ELSE t]
<1>1. r \in Group /\ r.enabled = group[g].enabled
  BY <1>0 DEF Group
<1>2. group' = [group EXCEPT ![g] = r]
  BY <1>0, GroupsAreNames DEF SlackOK, Group
<1> QED BY <1>1, <1>2

LEMMA SwitchIsReplace ==
    ASSUME SlackOK, NEW g \in Groups, NEW b \in BOOLEAN, group' = [group EXCEPT ![g].enabled = b]
    PROVE  \E r \in Group : group' = [group EXCEPT ![g] = r] /\ r.enabled = b
<1>0. group[g] \in Group
  BY DEF SlackOK
<1>1. [group[g] EXCEPT !.enabled = b] \in Group /\ [group[g] EXCEPT !.enabled = b].enabled = b
  BY <1>0 DEF Group
<1>2. group' = [group EXCEPT ![g] = [group[g] EXCEPT !.enabled = b]]
  OBVIOUS
<1> QED BY <1>1, <1>2

LEMMA CreateType ==
    ASSUME TypeOK, LoopInv, NEW w \in Workers, Create(w)
    PROVE  step' \in [Workers -> Steps] /\ SlackOK'
<1>0. SlackOK /\ step \in [Workers -> Steps] /\ pc[w] = "create" /\ cur[w] \in MRs
      /\ UNCHANGED drift /\ drift \in 0 .. MaxDrift
  BY DEF TypeOK, MRTypeOK, WorkerOK, SlackOK, Create, At
<1>1. step' \in [Workers -> Steps]
  BY <1>0, StepType DEF Create, CreateFails
<1>2. CASE UNCHANGED <<group, made, madeFor, acked>>
  BY <1>0, <1>1, <1>2 DEF SlackOK, Groups
<1>3. CASE Make(cur[w], mg[w].spec) /\ (acked' = acked \/ acked' = acked \cup {made'})
  BY <1>0, <1>1, <1>3, SpecShape, MakeType
<1> QED BY <1>2, <1>3 DEF Create

LEMMA UpdateType ==
    ASSUME TypeOK, LoopInv, NEW w \in Workers, Update(w)
    PROVE  step' \in [Workers -> Steps] /\ SlackOK'
<1>0. SlackOK /\ step \in [Workers -> Steps] /\ pc[w] = "update" /\ mg[w].ext \in Groups
      /\ UNCHANGED <<made, madeFor, acked, drift>> /\ drift \in 0 .. MaxDrift
  BY DEF TypeOK, SlackOK, Update, At
<1>1. step' \in [Workers -> Steps]
  BY <1>0, StepType DEF Update, CallEnds
<1>2. CASE UNCHANGED group
  BY <1>0, <1>1, <1>2 DEF SlackOK, Groups
<1>3. CASE Change(mg[w].ext, mg[w].spec)
  <2>1. mg[w].spec.name \in Names /\ ptrValueOrEmpty(mg[w].spec.description) \in Texts
    BY <1>0, SpecShape
  <2>2. \E r \in Group : group' = [group EXCEPT ![mg[w].ext] = r]
    BY <1>0, <1>3, <2>1, ChangeIsReplace DEF Change
  <2> QED BY <1>0, <1>1, <2>2, ReplaceType
<1> QED BY <1>2, <1>3 DEF Update

LEMMA DeleteType ==
    ASSUME TypeOK, NEW w \in Workers, Delete(w)
    PROVE  step' \in [Workers -> Steps] /\ SlackOK'
<1>0. SlackOK /\ step \in [Workers -> Steps] /\ pc[w] = "delete" /\ mg[w].ext \in Groups
      /\ UNCHANGED <<made, drift>> /\ drift \in 0 .. MaxDrift
  BY DEF TypeOK, SlackOK, Delete, At
<1>1. step' \in [Workers -> Steps]
  BY <1>0, StepType DEF Delete, CallEnds
<1>2. CASE UNCHANGED <<group, madeFor, acked>>
  BY <1>0, <1>1, <1>2 DEF SlackOK, Groups
<1>3. CASE Disable(mg[w].ext)
  BY <1>0, <1>1, <1>3, SwitchIsReplace, ReplaceType DEF Disable
<1> QED BY <1>2, <1>3 DEF Delete

LEMMA SlackUsersType ==
    ASSUME SlackOK, SlackUsers
    PROVE  SlackOK'
<1>1. Drift => drift' \in 0 .. MaxDrift
  BY GroupAssumption DEF Drift, SlackOK
<1>2. ASSUME NEW s \in Specs, SlackUserCreates(s) PROVE SlackOK'
  BY <1>1, <1>2, SpecsShape, MakeType DEF SlackUserCreates
<1>3. ASSUME NEW s \in Specs, NEW g \in Groups, SlackUserChanges(g, s) PROVE SlackOK'
  <2>1. group[g] \in Group /\ s.name \in Names /\ ptrValueOrEmpty(s.description) \in Texts
    BY SpecsShape DEF SlackOK
  <2>2. group' = [group EXCEPT ![g] = [group[g] EXCEPT !.name = s.name,
                                       !.description = ptrValueOrEmpty(s.description)]]
    BY <1>3 DEF SlackUserChanges
  <2> QED BY <1>1, <1>3, <2>1, <2>2, GroupFields, ReplaceType DEF SlackUserChanges
<1>4. ASSUME NEW g \in Groups, SlackUserSwitches(g) PROVE SlackOK'
  BY <1>1, <1>4, SwitchIsReplace, ReplaceType DEF SlackUserSwitches, Disable
<1> QED BY <1>2, <1>3, <1>4 DEF SlackUsers

LEMMA TypeStep ==
    ASSUME TypeOK, LoopInv, [Next]_vars
    PROVE  MRTypeOK' /\ step' \in [Workers -> Steps] /\ SlackOK'
<1>0. SlackOK /\ step \in [Workers -> Steps] /\ MRTypeOK'
  BY StepIsLoopStep, MRTypeStep DEF TypeOK, SlackOK
<1>1. UNCHANGED slackVars => SlackOK'
  BY <1>0 DEF SlackOK, slackVars, Groups
<1>2. ASSUME NEW w \in Workers, Runtime(w) \/ Connect(w) \/ Observe(w) \/ Dies(w)
      PROVE  step' \in [Workers -> Steps] /\ SlackOK'
  BY <1>0, <1>1, <1>2, StepType DEF Runtime, Connect, Observe, Dies, Steps
<1>3. CASE \/ KubernetesUsers \/ UNCHANGED vars
           \/ \E w \in Workers, m \in MRs : Informer(w, m)
  BY <1>0, <1>1, <1>3 DEF KubernetesUsers, vars, Informer
<1>4. CASE SlackUsers
  <2>1. UNCHANGED step
    BY <1>4 DEF SlackUsers, SlackUserCreates, SlackUserChanges, SlackUserSwitches, NotReconciling
  <2> QED BY <1>0, <1>4, <2>1, SlackUsersType
<1> QED BY <1>0, <1>2, <1>3, <1>4, CreateType, UpdateType, DeleteType DEF Next, Reconcile

-----------------------------------------------------------------------------
(* Calls by ID *)

\* A step of w moves no other worker.
LEMMA OthersStay ==
    ASSUME TypeOK, NEW w \in Workers, Reconcile(w) \/ Dies(w), NEW v \in Workers \ {w}
    PROVE  pc'[v] = pc[v] /\ cur'[v] = cur[v] /\ mg'[v] = mg[v] /\ obs'[v] = obs[v]
<1>0. WorkerOK /\ MRTypeOK /\ made \in 0 .. MaxGroups
  BY DEF TypeOK, MRTypeOK, SlackOK
<1>1. RuntimeStep(w) \/ ControllerStep(w) \/ Crash(w) \/ UNCHANGED mrVars
  BY <1>0, CallsAreSteps DEF Reconcile, Runtime, Dies
<1> QED BY <1>0, <1>1, MovesAlone DEF mrVars

\* The name of no group is forgotten.
LEMMA GroupsStay == TypeOK /\ [Next]_vars => Groups \subseteq Groups'
<1>1. made \in 0 .. MaxGroups => \A k \in 0 .. MaxGroups : made <= k => Groups \subseteq 1 .. k
  BY GroupAssumption DEF Groups
<1> QED BY <1>1, MadeStep DEF TypeOK, SlackOK, Groups

LEMMA Entered ==
    ASSUME TypeOK, [Next]_vars, NEW w \in Workers, NEW m, NEW o, NEW p, Enter(w, m, o, p)
    PROVE  /\ pc'[w] = p /\ cur'[w] = m /\ mg'[w] = o /\ obs'[w] = "error"
           /\ (p \notin {"update", "delete"} \/ o.ext \in Groups) => Addressed(w)'
<1>1. pc'[w] = p /\ cur'[w] = m /\ mg'[w] = o /\ obs'[w] = "error"
  BY DEF TypeOK, MRTypeOK, WorkerOK, Enter
<1>2. o.ext \in Groups => o.ext \in Groups'
  BY GroupsStay
<1> QED BY <1>1, <1>2 DEF Addressed

LEMMA RuntimeAddressed ==
    ASSUME TypeOK, [Next]_vars, NEW w \in Workers, Addressed(w), Runtime(w)
    PROVE  Addressed(w)'
<1>0. mg[w] \in Object
  BY DEF TypeOK, MRTypeOK, WorkerOK
<1>1. ASSUME NEW m, NEW o, NEW p, Enter(w, m, o, p),
             p \notin {"update", "delete"} \/ o.ext \in Groups
      PROVE  Addressed(w)'
  BY <1>1, Entered
<1>2. CASE \/ \E m \in MRs : Start(w, m)
           \/ Initialize(w) \/ RemoveFinalizer(w) \/ CreatePending(w) \/ UpdateCritical(w)
           \/ StatusUpdate(w)
  BY <1>1, <1>2 DEF Start, PassGate, Initialize, WriteFails, Release, Report, RemoveFinalizer,
                    CreatePending, UpdateCritical, StatusUpdate
<1>3. CASE AddFinalizer(w)
  <2> DEFINE o == [mg[w] EXCEPT !.fin = TRUE, !.synced = api[cur[w]].synced]
  <2>1. o.ext = mg[w].ext /\ pc[w] = "finalize"
    BY <1>0, <1>3 DEF Object, AddFinalizer
  <2>2. CASE Decide(w, obs[w], o)
    <3> HIDE DEF o
    <3> QED BY <1>1, <2>1, <2>2 DEF Decide, Addressed, Report
  <2>3. CASE WriteFails(w)
    BY <1>1, <2>3 DEF WriteFails, Release, Report
  <2> QED BY <1>3, <2>2, <2>3 DEF AddFinalizer
<1> QED BY <1>2, <1>3 DEF Runtime, RuntimeStep

\* Observe finds a group by its ID only.
LEMMA AnswerAddressed ==
    ASSUME TypeOK, [Next]_vars, NEW w \in Workers, NEW o \in Observations,
           ObserveAnswers(w, o, mg[w]),
           o \in {"drifted", "uptodate"} => mg[w].ext \in Groups
    PROVE  Addressed(w)'
<1>1. ASSUME NEW m, NEW c, NEW p, Enter(w, m, c, p), p \notin {"update", "delete"} \/ c.ext \in Groups
      PROVE  Addressed(w)'
  BY <1>1, Entered
<1>2. CASE Report(w, mg[w], "ReconcileError") \/ Report(w, mg[w], "ReconcileSuccess")
  BY <1>1, <1>2 DEF Report
<1>3. CASE /\ pc' = [pc EXCEPT ![w] = "finalize"] /\ mg' = [mg EXCEPT ![w] = mg[w]]
           /\ obs' = [obs EXCEPT ![w] = o]
  <2>1. pc'[w] = "finalize" /\ mg'[w] = mg[w] /\ obs'[w] = o
    BY <1>3 DEF TypeOK, MRTypeOK, WorkerOK
  <2> QED BY <2>1, GroupsStay DEF Addressed
<1> QED BY <1>1, <1>2, <1>3 DEF ObserveAnswers, Decide

LEMMA CallsAddressed ==
    ASSUME TypeOK, [Next]_vars, NEW w \in Workers, Addressed(w),
           Connect(w) \/ Observe(w) \/ Create(w) \/ Update(w) \/ Delete(w)
    PROVE  Addressed(w)'
<1>1. CASE Connect(w)
  <2>1. CASE UNCHANGED mrVars
    BY <2>1, GroupsStay DEF Addressed, mrVars
  <2> QED BY <1>1, <2>1, AnswerAddressed DEF Connect, Observations
<1>2. CASE Observe(w)
  BY <1>2, AnswerAddressed DEF Observe, IsEnabled, Observations
<1>3. CASE Create(w)
  <2>1. ASSUME NEW ok, NEW c, CreateReturns(w, ok, c) PROVE Addressed(w)'
    BY <2>1, Entered DEF CreateReturns
  <2> QED BY <1>3, <2>1 DEF Create, CreateFails
<1>4. CASE Update(w) \/ Delete(w)
  <2>1. ASSUME NEW ok, CallEnds(w, ok) PROVE Addressed(w)'
    BY <2>1, Entered DEF CallEnds, CallReturns, Report
  <2> QED BY <1>4, <2>1 DEF Update, Delete
<1> QED BY <1>1, <1>2, <1>3, <1>4

\* Users and informers move no worker.
LEMMA WorkersStay ==
    ASSUME KubernetesUsers \/ SlackUsers \/ (\E w \in Workers, m \in MRs : Informer(w, m))
             \/ UNCHANGED vars
    PROVE  UNCHANGED <<pc, cur, mg, obs>>
<1>1. CASE KubernetesUsers
  BY <1>1 DEF KubernetesUsers, UserDeletes, UserEdits, UserCreates, EditOnly
<1>2. CASE SlackUsers
  BY <1>2 DEF SlackUsers, SlackUserCreates, SlackUserChanges, SlackUserSwitches, NotReconciling, mrVars
<1>3. CASE \E w \in Workers, m \in MRs : Informer(w, m)
  BY <1>3 DEF Informer, CacheSync
<1> QED BY <1>1, <1>2, <1>3 DEF vars, mrVars

LEMMA AddressedStep ==
    ASSUME TypeOK, \A w \in Workers : Addressed(w), [Next]_vars, NEW v \in Workers
    PROVE  Addressed(v)'
<1>1. ASSUME NEW w \in Workers, Reconcile(w) \/ Dies(w) PROVE Addressed(v)'
  <2>1. CASE v # w
    BY <1>1, <2>1, OthersStay, GroupsStay DEF Addressed
  <2>2. CASE v = w /\ Reconcile(w)
    BY <2>2, RuntimeAddressed, CallsAddressed DEF Reconcile
  <2>3. CASE v = w /\ Dies(w)
    BY <2>3, Entered DEF Dies, Crash, Release
  <2> QED BY <1>1, <2>1, <2>2, <2>3
<1>2. CASE KubernetesUsers \/ SlackUsers \/ (\E w \in Workers, m \in MRs : Informer(w, m))
             \/ UNCHANGED vars
  BY <1>2, WorkersStay, GroupsStay DEF Addressed
<1> QED BY <1>1, <1>2 DEF Next

LEMMA TypeInit == Init => TypeOK /\ \A w \in Workers : Addressed(w)
<1> SUFFICES ASSUME Init PROVE TypeOK /\ \A w \in Workers : Addressed(w)
  OBVIOUS
<1>1. MRTypeOK
  BY MRTypeInit DEF Init
<1>2. step \in [Workers -> Steps] /\ SlackOK
  BY GroupAssumption DEF Init, SlackOK, Steps, Groups
<1>3. \A w \in Workers : pc[w] = "idle"
  BY DEF Init, MRInit
<1> QED BY <1>1, <1>2, <1>3 DEF TypeOK, Addressed

\* Every variable keeps its type, and Slack is asked to change or to disable a
\* group by an ID that it gave out only (usergroup.go:63-215).
THEOREM GroupTypeCorrect == Spec => [](TypeOK /\ \A w \in Workers : Addressed(w))
<1>1. LoopInv /\ TypeOK /\ (\A w \in Workers : Addressed(w)) /\ [Next]_vars
          => TypeOK' /\ (\A w \in Workers : Addressed(w))'
  <2> SUFFICES ASSUME LoopInv, TypeOK, \A w \in Workers : Addressed(w), [Next]_vars
               PROVE  TypeOK' /\ \A w \in Workers : Addressed(w)'
    OBVIOUS
  <2>1. \A w \in Workers : Addressed(w)'
    BY AddressedStep
  <2> QED BY <2>1, TypeStep DEF TypeOK, Addressed
<1>2. Spec => []LoopInv
  BY GroupsInLoop, LoopInvariant, PTL
<1> QED BY <1>1, <1>2, TypeInit, PTL DEF Spec

-----------------------------------------------------------------------------
(* Groups that are held *)

\* A step that gives no group away: what is still acknowledged afterwards was so
\* before, is held by the same resource, and is enabled.
HoldsNoMore == \A g \in acked' : g \in acked /\ madeFor'[g] = madeFor[g] /\ Enabled(g)'

LEMMA FewerHeld ==
    ASSUME HoldsNoMore, HeldEnabled
    PROVE  /\ HeldEnabled'
           /\ \A m : NoneHeld(m) => NoneHeld(m)'
           /\ \A m, e : HeldIs(m, e) => HeldIs(m, e)'
           /\ OneGroupPerResource => OneGroupPerResource'
<1>1. HeldEnabled'
  BY DEF HoldsNoMore, HeldEnabled
<1>2. \A m, g : Holds(m, g)' => Holds(m, g)
  BY DEF HoldsNoMore, Holds
<1> QED BY <1>1, <1>2 DEF NoneHeld, HeldIs, OneGroupPerResource

LEMMA SameSlackHolds ==
    ASSUME HeldEnabled, UNCHANGED <<group, made, madeFor, acked>>
    PROVE  HoldsNoMore
  BY DEF HoldsNoMore, HeldEnabled, Enabled, Groups

LEMMA ReplaceHolds ==
    ASSUME SlackOK, HeldEnabled, NEW g \in Groups, NEW r, group' = [group EXCEPT ![g] = r],
           UNCHANGED made,
           \/ UNCHANGED <<madeFor, acked>> /\ (r.enabled \/ r.enabled = group[g].enabled)
           \/ madeFor' = [madeFor EXCEPT ![g] = NoMR] /\ acked' = acked \ {g}
    PROVE  HoldsNoMore
<1>1. Groups' = Groups /\ g \in GroupIDs /\ acked \subseteq GroupIDs
  BY GroupsAreNames DEF Groups, SlackOK
<1>2. ASSUME NEW h \in acked, h # g, madeFor'[h] = madeFor[h]
      PROVE  madeFor'[h] = madeFor[h] /\ Enabled(h)'
  BY <1>1, <1>2 DEF HeldEnabled, Enabled, SlackOK
<1>3. CASE UNCHANGED <<madeFor, acked>> /\ (r.enabled \/ r.enabled = group[g].enabled)
  <2>1. group'[g] = r
    BY <1>1 DEF SlackOK
  <2>2. g \in acked => Enabled(g)'
    BY <1>1, <1>3, <2>1 DEF HeldEnabled, Enabled
  <2> QED BY <1>2, <1>3, <2>2 DEF HoldsNoMore
<1>4. CASE madeFor' = [madeFor EXCEPT ![g] = NoMR] /\ acked' = acked \ {g}
  BY <1>1, <1>2, <1>4 DEF HoldsNoMore, SlackOK
<1> QED BY <1>3, <1>4

\* A group that Slack has not made is nobody's, so making one takes none away.
LEMMA MakeHolds ==
    ASSUME SlackOK, HeldEnabled, NEW m, NEW s, Make(m, s), UNCHANGED acked
    PROVE  HoldsNoMore
<1>1. \A g \in acked : g \in GroupIDs \ {made'} /\ g \in Groups /\ g \in Groups'
  BY MakeFacts, GroupsAreNames DEF SlackOK
<1> QED BY <1>1, MakeFacts DEF HoldsNoMore, HeldEnabled, Enabled

\* Usergroups.create answered w: its resource holds the new group.
Obtains(w) ==
    /\ At(w, "create", "call")
    /\ Make(cur[w], mg[w].spec) /\ acked' = acked \cup {made'}
    /\ CreateReturns(w, TRUE, [mg[w] EXCEPT !.ext = made'])

LEMMA ReconcileHolds ==
    ASSUME TypeOK, LoopInv, HeldEnabled, NEW w \in Workers, Reconcile(w)
    PROVE  HoldsNoMore \/ Obtains(w)
<1>0. SlackOK
  BY DEF TypeOK
<1>1. CASE Runtime(w) \/ Connect(w) \/ Observe(w)
  BY <1>1, SameSlackHolds DEF Runtime, Connect, Observe, slackVars
<1>2. CASE Create(w)
  BY <1>0, <1>2, SameSlackHolds, MakeHolds DEF Create, Obtains
<1>3. CASE Update(w)
  <2>1. mg[w].ext \in Groups /\ pc[w] = "update"
    BY <1>3 DEF TypeOK, Update, At
  <2>2. CASE UNCHANGED group
    BY <1>3, <2>2, SameSlackHolds DEF Update
  <2>3. CASE Change(mg[w].ext, mg[w].spec)
    <3>1. \E r \in Group : /\ group' = [group EXCEPT ![mg[w].ext] = r]
                           /\ r.enabled = group[mg[w].ext].enabled
      BY <1>0, <2>1, <2>3, SpecShape, ChangeIsReplace DEF Change
    <3> QED BY <1>0, <1>3, <2>1, <3>1, ReplaceHolds DEF Update
  <2> QED BY <1>3, <2>2, <2>3 DEF Update
<1>4. CASE Delete(w)
  <2>1. mg[w].ext \in Groups
    BY <1>4 DEF TypeOK, Delete, At
  <2>2. CASE UNCHANGED <<group, madeFor, acked>>
    BY <1>4, <2>2, SameSlackHolds DEF Delete
  <2>3. CASE Disable(mg[w].ext)
    BY <1>0, <1>4, <2>1, <2>3, SwitchIsReplace, ReplaceHolds DEF Delete, Disable
  <2> QED BY <1>4, <2>2, <2>3 DEF Delete
<1> QED BY <1>1, <1>2, <1>3, <1>4 DEF Reconcile

LEMMA OthersHold ==
    ASSUME TypeOK, HeldEnabled,
           \/ KubernetesUsers \/ SlackUsers \/ UNCHANGED vars
           \/ \E w \in Workers : Dies(w) \/ \E m \in MRs : Informer(w, m)
    PROVE  HoldsNoMore
<1>0. SlackOK
  BY DEF TypeOK
<1>1. ASSUME NEW s \in Specs, SlackUserCreates(s) PROVE HoldsNoMore
  BY <1>0, <1>1, MakeHolds DEF SlackUserCreates
<1>2. ASSUME NEW s \in Specs, NEW g \in Groups, SlackUserChanges(g, s) PROVE HoldsNoMore
  <2> DEFINE r == [group[g] EXCEPT !.name = s.name, !.description = ptrValueOrEmpty(s.description)]
  <2>1. group[g] \in Group
    BY <1>0 DEF SlackOK
  <2>2. group' = [group EXCEPT ![g] = r] /\ r.enabled = group[g].enabled
    BY <1>2, <2>1 DEF SlackUserChanges, Group
  <2> HIDE DEF r
  <2> QED BY <1>0, <1>2, <2>2, ReplaceHolds DEF SlackUserChanges
<1>3. ASSUME NEW g \in Groups, SlackUserSwitches(g) PROVE HoldsNoMore
  BY <1>0, <1>3, SwitchIsReplace, ReplaceHolds DEF SlackUserSwitches, Disable
<1>4. CASE UNCHANGED slackVars
  BY <1>4, SameSlackHolds DEF slackVars
<1> QED BY <1>1, <1>2, <1>3, <1>4 DEF KubernetesUsers, SlackUsers, Dies, Informer, vars

\* What a step writes never drops the record of a group that stays held.
LEMMA QuietKeeps ==
    ASSUME NoForgottenGroup, HoldsNoMore, UNCHANGED api
    PROVE  NoForgottenGroup'
  BY DEF NoForgottenGroup, HoldsNoMore, Holds

LEMMA WriteKeeps ==
    ASSUME NoForgottenGroup, HoldsNoMore, ApiOK, NEW m \in MRs, NEW o, Store(m, o),
           \A g \in GroupIDs : Holds(m, g) =>
               o.exists /\ o.fin /\ (o.ext = g \/ o.create = "pending")
    PROVE  NoForgottenGroup'
<1>1. api'[m] = o /\ \A n \in MRs \ {m} : api'[n] = api[n]
  BY DEF ApiOK, Store
<1> QED BY <1>1 DEF NoForgottenGroup, HoldsNoMore, Holds

\* A worker that does not move knows what it knew, if its latest copy stays the
\* latest only while its object stays the same.
LEMMA OtherKnows ==
    ASSUME HoldsNoMore, HeldEnabled, NEW v \in Workers, KnowsHeld(v),
           pc'[v] = pc[v] /\ cur'[v] = cur[v] /\ mg'[v] = mg[v] /\ obs'[v] = obs[v],
           v \in fresh' => v \in fresh /\ api'[cur[v]] = api[cur[v]]
    PROVE  KnowsHeld(v)'
<1>1. /\ NoneHeld(cur[v]) => NoneHeld(cur[v])'
      /\ \A e : HeldIs(cur[v], e) => HeldIs(cur[v], e)'
  BY FewerHeld
<1> QED BY <1>1 DEF KnowsHeld, NoneHeld, HeldIs

\* What a worker must know to enter a phase.
LEMMA KnowsEntered ==
    ASSUME TypeOK, HoldsNoMore, HeldEnabled, NEW w \in Workers, NEW m, NEW o, NEW p,
           Enter(w, m, o, p),
           p = "init" => o.ext = NoExt /\ (w \in fresh' => api'[m].ext = NoExt),
           (w \in fresh' /\ p \in Passed) => HeldIs(m, o.ext),
           (w \in fresh' /\ p \in {"pending", "unfinalize"}) => NoneHeld(m),
           p = "create" => NoneHeld(m),
           p = "critical" => HeldIs(m, o.ext)
    PROVE  KnowsHeld(w)'
<1>1. pc'[w] = p /\ cur'[w] = m /\ mg'[w] = o /\ obs'[w] = "error"
  BY DEF TypeOK, MRTypeOK, WorkerOK, Enter
<1>2. (NoneHeld(m) => NoneHeld(m)') /\ (HeldIs(m, o.ext) => HeldIs(m, o.ext)')
  BY FewerHeld
<1> QED BY <1>1, <1>2 DEF KnowsHeld, Passed, NoneHeld, HeldIs

\* A worker that reports or leaves needs to know nothing.
LEMMA KnowsAtEnd ==
    ASSUME TypeOK, HoldsNoMore, HeldEnabled, NEW w \in Workers,
           Release(w) \/ \E o, r : Report(w, o, r)
    PROVE  KnowsHeld(w)'
<1>1. ASSUME NEW m, NEW o, NEW p \in {"idle", "status"}, Enter(w, m, o, p) PROVE KnowsHeld(w)'
  BY <1>1, KnowsEntered DEF Passed
<1> QED BY <1>1 DEF Release, Report

LEMMA RuntimeHeld ==
    ASSUME GroupInv, NEW w \in Workers, Runtime(w), HoldsNoMore
    PROVE  NoForgottenGroup' /\ KnowsHeld(w)'
<1>0. /\ TypeOK /\ HeldEnabled /\ ApiOK /\ NoForgottenGroup /\ KnowsHeld(w) /\ WorkerInv(w)
      /\ mg[w] \in Object /\ CacheInv
      /\ pc[w] # "idle" => cur[w] \in MRs /\ api[cur[w]] \in Object
  BY DEF GroupInv, TypeOK, MRTypeOK, ApiOK, WorkerOK, HeldInv, HeldEnabled, LoopInv, Runtime
<1>1. ASSUME NEW m \in MRs, Start(w, m) PROVE NoForgottenGroup' /\ KnowsHeld(w)'
  <2> DEFINE c == cache[w][m]
  <2>1. UNCHANGED api /\ (w \in fresh' => c = api[m]) /\ pc[w] = "idle"
    BY <1>0, <1>1 DEF Start, WorkerInv, CacheInv
  <2>2. NoForgottenGroup'
    BY <1>0, <2>1, QuietKeeps
  <2>3. CASE Enter(w, m, c, "init") /\ c.ext = NoExt
    BY <1>0, <2>1, <2>2, <2>3, KnowsEntered DEF Passed
  <2>4. CASE Enter(w, m, c, "observe") /\ c.create # "pending"
    <3>1. w \in fresh' => HeldIs(m, c.ext)
      BY <1>0, <2>1, <2>4 DEF NoForgottenGroup, HeldIs
    <3> QED BY <1>0, <2>2, <2>4, <3>1, KnowsEntered
  <2>5. CASE Enter(w, m, [c EXCEPT !.synced = "ReconcileError"], "status")
    BY <1>0, <2>2, <2>5, KnowsEntered DEF Passed
  <2> QED BY <1>1, <2>3, <2>4, <2>5 DEF Start, PassGate
<1>2. ASSUME WriteFails(w) PROVE NoForgottenGroup' /\ KnowsHeld(w)'
  BY <1>0, <1>2, QuietKeeps, KnowsAtEnd DEF WriteFails
<1>3. CASE Initialize(w)
  <2> DEFINE o == [mg[w] EXCEPT !.ext = MetaName[cur[w]]]
  <2>1. CASE w \in fresh /\ StoreBy(w, o) /\ PassGate(w, cur[w], o)
    <3>1. /\ Store(cur[w], o) /\ pc[w] = "init" /\ cur[w] \in MRs
          /\ o.exists = mg[w].exists /\ o.fin = mg[w].fin /\ o.create = mg[w].create
      BY <1>0, <1>3, <2>1 DEF Initialize, StoreBy, Object
    <3>2. Agrees(w) /\ api[cur[w]].ext = NoExt
      BY <1>0, <2>1, <3>1 DEF WorkerInv, KnowsHeld
    <3>3. \A g \in GroupIDs : Holds(cur[w], g) =>
              api[cur[w]].exists /\ api[cur[w]].fin /\ api[cur[w]].create = "pending"
      BY <1>0, <3>1, <3>2, NamesAssumption, GroupAssumption DEF NoForgottenGroup
    <3>4. NoForgottenGroup'
      <4> HIDE DEF o
      <4> QED BY <1>0, <3>1, <3>2, <3>3, WriteKeeps DEF Agrees
    <3>5. CASE o.create # "pending" /\ Enter(w, cur[w], o, "observe")
      <4>1. HeldIs(cur[w], o.ext)
        BY <3>1, <3>2, <3>3, <3>5 DEF HeldIs, Agrees
      <4> HIDE DEF o
      <4> QED BY <1>0, <3>4, <3>5, <4>1, KnowsEntered
    <3>6. CASE Enter(w, cur[w], [o EXCEPT !.synced = "ReconcileError"], "status")
      BY <1>0, <3>4, <3>6, KnowsEntered DEF Passed
    <3> QED BY <2>1, <3>5, <3>6 DEF PassGate
  <2> QED BY <1>2, <1>3, <2>1 DEF Initialize
<1>4. CASE AddFinalizer(w)
  <2> DEFINE o == [mg[w] EXCEPT !.fin = TRUE, !.synced = api[cur[w]].synced]
  <2>1. CASE w \in fresh /\ StoreBy(w, o) /\ Decide(w, obs[w], o)
    <3>1. /\ Store(cur[w], o) /\ pc[w] = "finalize" /\ cur[w] \in MRs
          /\ o.exists = mg[w].exists /\ o.fin /\ o.ext = mg[w].ext
      BY <1>0, <1>4, <2>1 DEF AddFinalizer, StoreBy, Object
    <3>2. /\ mg[w].exists /\ HeldIs(cur[w], mg[w].ext)
          /\ obs[w] = "missing" => NoneHeld(cur[w])
      BY <1>0, <2>1, <3>1 DEF WorkerInv, KnowsHeld, Passed
    <3> HIDE DEF o
    <3>3. NoForgottenGroup'
      BY <1>0, <3>1, <3>2, WriteKeeps DEF HeldIs
    <3>4. CASE obs[w] = "missing" /\ Enter(w, cur[w], o, "pending")
      BY <1>0, <3>1, <3>2, <3>3, <3>4, KnowsEntered
    <3>5. CASE Enter(w, cur[w], o, "update")
      BY <1>0, <3>1, <3>2, <3>3, <3>5, KnowsEntered
    <3>6. CASE Report(w, o, "ReconcileSuccess")
      BY <1>0, <3>3, <3>6, KnowsAtEnd
    <3> QED BY <2>1, <3>4, <3>5, <3>6 DEF Decide
  <2> QED BY <1>2, <1>4, <2>1 DEF AddFinalizer
<1>5. CASE RemoveFinalizer(w)
  <2>1. CASE w \in fresh /\ StoreByUser(cur[w], Blank) /\ Release(w)
    <3>1. Store(cur[w], Blank) /\ cur[w] \in MRs /\ NoneHeld(cur[w])
      BY <1>0, <1>5, <2>1 DEF RemoveFinalizer, StoreByUser, KnowsHeld
    <3>2. NoForgottenGroup'
      BY <1>0, <3>1, WriteKeeps DEF NoneHeld
    <3> QED BY <1>0, <2>1, <3>2, KnowsAtEnd
  <2> QED BY <1>2, <1>5, <2>1 DEF RemoveFinalizer
<1>6. CASE CreatePending(w)
  <2> DEFINE o == [mg[w] EXCEPT !.create = "pending", !.synced = api[cur[w]].synced]
  <2>1. CASE w \in fresh /\ StoreBy(w, o) /\ Enter(w, cur[w], o, "create")
    <3>1. Store(cur[w], o) /\ cur[w] \in MRs /\ NoneHeld(cur[w])
      BY <1>0, <1>6, <2>1 DEF CreatePending, StoreBy, KnowsHeld
    <3> HIDE DEF o
    <3>2. NoForgottenGroup'
      BY <1>0, <3>1, WriteKeeps DEF NoneHeld
    <3> QED BY <1>0, <2>1, <3>1, <3>2, KnowsEntered DEF Passed
  <2> QED BY <1>2, <1>6, <2>1 DEF CreatePending
<1>7. CASE UpdateCritical(w)
  <2> DEFINE o == [api[cur[w]] EXCEPT !.ext = mg[w].ext, !.create = mg[w].create]
  <2>1. KnowsHeld(w)'
    BY <1>0, <1>7, KnowsAtEnd DEF UpdateCritical
  <2>2. CASE StoreBy(w, o)
    <3>1. /\ Store(cur[w], o) /\ cur[w] \in MRs /\ HeldIs(cur[w], mg[w].ext)
          /\ o.exists = api[cur[w]].exists /\ o.fin = api[cur[w]].fin /\ o.ext = mg[w].ext
          /\ api[cur[w]].exists /\ api[cur[w]].fin
      BY <1>0, <1>7, <2>2 DEF UpdateCritical, StoreBy, KnowsHeld, WorkerInv, InCreate, Object
    <3> HIDE DEF o
    <3> QED BY <1>0, <2>1, <3>1, WriteKeeps DEF HeldIs
  <2>3. CASE UNCHANGED api
    BY <1>0, <2>1, <2>3, QuietKeeps
  <2> QED BY <1>7, <2>2, <2>3 DEF UpdateCritical
<1>8. CASE StatusUpdate(w)
  <2> DEFINE o == [api[cur[w]] EXCEPT !.synced = mg[w].synced]
  <2>1. KnowsHeld(w)'
    BY <1>0, <1>8, KnowsAtEnd DEF StatusUpdate
  <2>2. CASE StoreByUser(cur[w], o)
    <3>1. /\ Store(cur[w], o) /\ cur[w] \in MRs
          /\ o.exists = api[cur[w]].exists /\ o.fin = api[cur[w]].fin
          /\ o.ext = api[cur[w]].ext /\ o.create = api[cur[w]].create
      BY <1>0, <1>8, <2>2 DEF StatusUpdate, StoreByUser, Object
    <3> HIDE DEF o
    <3> QED BY <1>0, <2>1, <3>1, WriteKeeps DEF NoForgottenGroup
  <2>3. CASE UNCHANGED api
    BY <1>0, <2>1, <2>3, QuietKeeps
  <2> QED BY <1>8, <2>2, <2>3 DEF StatusUpdate
<1> QED BY <1>1, <1>3, <1>4, <1>5, <1>6, <1>7, <1>8 DEF Runtime, RuntimeStep

\* Observe answers "missing" only of a resource that holds no group.
LEMMA AnswerKnows ==
    ASSUME TypeOK, HoldsNoMore, HeldEnabled, NEW w \in Workers, NEW o \in Observations, NEW c,
           ObserveAnswers(w, o, c),
           w \in fresh => HeldIs(cur[w], c.ext),
           w \in fresh /\ o = "missing" => NoneHeld(cur[w])
    PROVE  KnowsHeld(w)'
<1>0. UNCHANGED <<api, fresh, cache, current>>
  BY DEF ObserveAnswers, Calls
<1>1. CASE Enter(w, cur[w], c, "update") \/ Enter(w, cur[w], c, "delete")
  BY <1>0, <1>1, KnowsEntered
<1>2. CASE o = "missing" /\ (Enter(w, cur[w], c, "pending") \/ Enter(w, cur[w], c, "unfinalize"))
  BY <1>0, <1>2, KnowsEntered
<1>3. CASE Report(w, c, "ReconcileError") \/ Report(w, c, "ReconcileSuccess")
  BY <1>3, KnowsAtEnd
<1>4. CASE /\ pc' = [pc EXCEPT ![w] = "finalize"] /\ mg' = [mg EXCEPT ![w] = c]
           /\ obs' = [obs EXCEPT ![w] = o] /\ UNCHANGED cur
  <2>1. pc'[w] = "finalize" /\ mg'[w] = c /\ obs'[w] = o /\ cur'[w] = cur[w]
    BY <1>4 DEF TypeOK, MRTypeOK, WorkerOK
  <2>2. /\ \A m : NoneHeld(m) => NoneHeld(m)'
        /\ \A m, e : HeldIs(m, e) => HeldIs(m, e)'
    BY FewerHeld
  <2> QED BY <1>0, <2>1, <2>2 DEF KnowsHeld, At, NoneHeld, HeldIs
<1> QED BY <1>1, <1>2, <1>3, <1>4 DEF ObserveAnswers, Decide

\* The users of the API server never drop the record of a held group: its
\* resource has the finalizer, so a deletion leaves the object.
LEMMA UsersKeep ==
    ASSUME GroupInv, KubernetesUsers, HoldsNoMore
    PROVE  NoForgottenGroup'
<1>0. ApiOK /\ NoForgottenGroup
  BY DEF GroupInv, TypeOK, MRTypeOK, HeldInv
<1>1. CASE UNCHANGED api
  BY <1>0, <1>1, QuietKeeps
<1>2. ASSUME NEW m \in MRs, NEW o, StoreByUser(m, o),
             NoneHeld(m) \/ (/\ o.exists = api[m].exists /\ o.fin = api[m].fin
                             /\ o.ext = api[m].ext /\ o.create = api[m].create)
      PROVE  NoForgottenGroup'
  <2>1. Store(m, o)
    BY <1>2 DEF StoreByUser
  <2>2. \A g \in GroupIDs : Holds(m, g) =>
            o.exists /\ o.fin /\ (o.ext = g \/ o.create = "pending")
    BY <1>0, <1>2 DEF NoneHeld, NoForgottenGroup
  <2> QED BY <1>0, <2>1, <2>2, WriteKeeps
<1>3. \A m \in MRs : ~(api[m].exists /\ api[m].fin) => NoneHeld(m)
  BY <1>0 DEF NoForgottenGroup, NoneHeld
<1>4. ASSUME NEW m \in MRs, UserDeletes(m) PROVE NoForgottenGroup'
  <2>1. api[m] \in Object
    BY <1>0 DEF ApiOK
  <2>2. CASE ~api[m].fin
    BY <1>2, <1>3, <1>4, <2>2 DEF UserDeletes
  <2>3. CASE api[m].fin
    <3> DEFINE o == [api[m] EXCEPT !.del = TRUE]
    <3>1. /\ o.exists = api[m].exists /\ o.fin = api[m].fin
          /\ o.ext = api[m].ext /\ o.create = api[m].create
      BY <2>1 DEF Object
    <3>2. StoreByUser(m, o)
      BY <1>4, <2>3 DEF UserDeletes
    <3> HIDE DEF o
    <3> QED BY <1>2, <3>1, <3>2
  <2> QED BY <2>2, <2>3
<1>5. ASSUME NEW m \in MRs, NEW s \in Specs, UserEdits(m, s) PROVE NoForgottenGroup'
  <2> DEFINE o == [api[m] EXCEPT !.spec = s]
  <2>1. /\ o.exists = api[m].exists /\ o.fin = api[m].fin
        /\ o.ext = api[m].ext /\ o.create = api[m].create
    BY <1>0 DEF ApiOK, Object
  <2>2. StoreByUser(m, o)
    BY <1>5 DEF UserEdits
  <2> HIDE DEF o
  <2> QED BY <1>2, <2>1, <2>2
<1>6. ASSUME NEW m \in MRs, NEW s \in Specs, NEW e, UserCreates(m, s, e) PROVE NoForgottenGroup'
  BY <1>2, <1>3, <1>6 DEF UserCreates
<1> QED BY <1>1, <1>4, <1>5, <1>6 DEF KubernetesUsers

\* Observe answers "missing" only of a resource that holds no group: a group
\* that is held is enabled, and its ID is in the latest copy.
LEMMA CallsKnow ==
    ASSUME GroupInv, NEW w \in Workers, HoldsNoMore,
           Connect(w) \/ Observe(w) \/ Create(w) \/ Update(w) \/ Delete(w)
    PROVE  KnowsHeld(w)'
<1>0. TypeOK /\ HeldEnabled /\ KnowsHeld(w) /\ mg[w] \in Object
  BY DEF GroupInv, TypeOK, MRTypeOK, WorkerOK, HeldInv
<1>1. ASSUME pc[w] = "observe", NEW o \in Observations, ObserveAnswers(w, o, mg[w]),
             o = "missing" => ~IsEnabled(mg[w].ext)
      PROVE  KnowsHeld(w)'
  <2>1. w \in fresh => HeldIs(cur[w], mg[w].ext)
    BY <1>0, <1>1 DEF KnowsHeld, Passed
  <2>2. w \in fresh /\ o = "missing" => NoneHeld(cur[w])
    BY <1>0, <1>1, <2>1 DEF HeldEnabled, HeldIs, NoneHeld, Holds, Enabled, IsEnabled
  <2> QED BY <1>0, <1>1, <2>1, <2>2, AnswerKnows
<1>2. CASE Connect(w)
  <2>1. CASE UNCHANGED mrVars
    BY <1>0, <2>1, OtherKnows DEF mrVars
  <2> QED BY <1>1, <1>2, <2>1 DEF Connect, At, Observations
<1>3. CASE Observe(w)
  BY <1>1, <1>3 DEF Observe, At, Observations
<1>4. CASE Create(w)
  <2>1. NoneHeld(cur[w])
    BY <1>0, <1>4 DEF Create, At, KnowsHeld
  <2>2. ASSUME NEW ok, NEW c, CreateReturns(w, ok, c) PROVE KnowsHeld(w)'
    <3> DEFINE o == [c EXCEPT !.create = IF ok THEN "succeeded" ELSE "failed"]
    <3>1. Enter(w, cur[w], o, "critical") /\ HeldIs(cur[w], o.ext)
      BY <2>1, <2>2 DEF CreateReturns, HeldIs, NoneHeld
    <3> HIDE DEF o
    <3> QED BY <1>0, <2>1, <3>1, KnowsEntered DEF Passed
  <2> QED BY <1>4, <2>2 DEF Create, CreateFails
<1>5. CASE Update(w) \/ Delete(w)
  BY <1>0, <1>5, KnowsAtEnd DEF Update, Delete, CallEnds, CallReturns
<1> QED BY <1>2, <1>3, <1>4, <1>5

LEMMA ReconcileHeld ==
    ASSUME GroupInv, NEW w \in Workers, Reconcile(w), HoldsNoMore
    PROVE  NoForgottenGroup' /\ KnowsHeld(w)'
<1>1. CASE Runtime(w)
  BY <1>1, RuntimeHeld
<1>2. CASE Connect(w) \/ Observe(w) \/ Create(w) \/ Update(w) \/ Delete(w)
  <2>1. KnowsHeld(w)'
    BY <1>2, CallsKnow
  <2>2. ControllerStep(w) \/ UNCHANGED mrVars
    BY <1>2, CallsAreSteps DEF GroupInv, TypeOK, SlackOK
  <2>3. UNCHANGED api
    BY <2>2 DEF ControllerStep, NameInObserve, NameInCreate, ObserveAnswers, CreateReturns,
                CallReturns, Calls, mrVars
  <2> QED BY <2>1, <2>3, QuietKeeps DEF GroupInv, HeldInv
<1> QED BY <1>1, <1>2 DEF Reconcile

\* Usergroups.create answers with a new group: nobody else is about to create for
\* the resource, or knows of it what is no longer so.
LEMMA ObtainsHeld ==
    ASSUME GroupInv, NEW w \in Workers, Obtains(w), Reconcile(w)
    PROVE  HeldInv'
<1> DEFINE m == cur[w]
           g == made'
<1>0. /\ TypeOK /\ LoopInv /\ HeldEnabled /\ NoForgottenGroup /\ OneGroupPerResource
      /\ SlackOK /\ KnowsHeld(w) /\ WorkerInv(w) /\ InCreate(w) /\ pc[w] = "create"
      /\ mg[w] \in Object /\ mg \in [Workers -> Object]
      /\ pc \in [Workers -> Phases] /\ cur \in [Workers -> MRs \cup {NoMR}] /\ m \in MRs
  BY DEF GroupInv, TypeOK, MRTypeOK, WorkerOK, HeldInv, LoopInv, Obtains, At, InCreate
<1>1. NoneHeld(m) /\ api[m].exists /\ api[m].fin /\ api[m].create = "pending"
  BY <1>0 DEF KnowsHeld, WorkerInv
<1>2. /\ g \in GroupIDs /\ g \notin acked /\ madeFor'[g] = m /\ acked' = acked \cup {g}
      /\ Groups' = Groups \cup {g} /\ group'[g].enabled
      /\ \A h \in GroupIDs \ {g} : group'[h] = group[h] /\ madeFor'[h] = madeFor[h]
  <2>1. Make(m, mg[w].spec) /\ acked' = acked \cup {g}
    BY DEF Obtains
  <2>2. /\ g \in GroupIDs /\ g \notin Groups /\ madeFor'[g] = m /\ Groups' = Groups \cup {g}
        /\ \A h \in GroupIDs \ {g} : group'[h] = group[h] /\ madeFor'[h] = madeFor[h]
    BY <1>0, <2>1, MakeFacts
  <2>3. group'[g].enabled
    <3>1. group'[g] = [name |-> mg[w].spec.name,
                       description |-> ptrValueOrEmpty(mg[w].spec.description), enabled |-> TRUE]
      BY <1>0, <2>1, MakeFacts
    <3> QED BY <3>1
  <2> QED BY <1>0, <2>1, <2>2, <2>3 DEF SlackOK
<1>3. UNCHANGED <<api, fresh, cur>>
  BY <1>0 DEF Obtains, CreateReturns, Calls, Enter
<1>4. \A n, h : h \in GroupIDs /\ Holds(n, h)' => Holds(n, h) \/ (n = m /\ h = g)
  BY <1>2 DEF Holds
<1>5. HeldEnabled'
  <2>1. acked \subseteq GroupIDs
    BY <1>0, GroupsAreNames DEF SlackOK
  <2> QED BY <1>0, <1>2, <2>1 DEF HeldEnabled, Enabled
<1> HIDE DEF g
<1>6. NoForgottenGroup'
  <2>1. ASSUME NEW h \in GroupIDs, NEW n \in MRs, Holds(n, h)'
        PROVE  api[n].exists /\ api[n].fin /\ (api[n].ext = h \/ api[n].create = "pending")
    BY <1>0, <1>1, <1>4, <2>1 DEF NoForgottenGroup
  <2> QED BY <1>3, <2>1 DEF NoForgottenGroup
<1>7. OneGroupPerResource'
  <2>1. ASSUME NEW h \in GroupIDs, NEW k \in GroupIDs, NEW n \in MRs, Holds(n, h)', Holds(n, k)'
        PROVE  h = k
    BY <1>0, <1>1, <1>4, <2>1 DEF OneGroupPerResource, NoneHeld
  <2> QED BY <2>1 DEF OneGroupPerResource
<1>8. \A h \in GroupIDs : Holds(m, h)' => h = g
  BY <1>1, <1>3, <1>4 DEF NoneHeld
<1>9. KnowsHeld(w)'
  <2>1. mg'[w].ext = g /\ cur'[w] = m /\ pc'[w] = "critical"
    <3> DEFINE c == [mg[w] EXCEPT !.ext = g]
               o == [c EXCEPT !.create = "succeeded"]
    <3>1. c \in Object /\ c.ext = g
      <4>1. g \in ExtNames
        BY <1>2, GroupAssumption
      <4>2. c.ext = g
        BY <1>0 DEF Object
      <4> QED BY <1>0, <4>1, <4>2, ObjectFields
    <3>2. CreateReturns(w, TRUE, c)
      BY DEF Obtains, g
    <3> HIDE DEF c
    <3>3. Enter(w, m, o, "critical")
      BY <3>2 DEF CreateReturns
    <3>4. o.ext = g
      BY <3>1 DEF Object
    <3> HIDE DEF o
    <3>5. WorkerOK
      BY <1>0 DEF TypeOK, MRTypeOK
    <3> QED BY <3>3, <3>4, <3>5, EnterOthers
  <2> QED BY <1>8, <2>1 DEF KnowsHeld, Passed, HeldIs
<1>10. ASSUME NEW v \in Workers \ {w} PROVE KnowsHeld(v)'
  <2>1. /\ pc'[v] = pc[v] /\ cur'[v] = cur[v] /\ mg'[v] = mg[v] /\ obs'[v] = obs[v]
        /\ KnowsHeld(v)
    BY <1>0, OthersStay DEF GroupInv, HeldInv
  <2>2. CASE cur[v] # m
    <3>1. \A h \in GroupIDs : Holds(cur[v], h)' => Holds(cur[v], h)
      BY <1>3, <1>4, <2>1, <2>2
    <3> QED BY <1>3, <2>1, <3>1 DEF KnowsHeld, NoneHeld, HeldIs
  <2>3. CASE cur[v] = m
    <3>1. ~InCreate(v) /\ ~(v \in fresh /\ pc[v] \in Passed)
      BY <1>0, <2>3, NobodyElseCreates
    <3> QED BY <1>3, <2>1, <3>1 DEF KnowsHeld, InCreate, Passed
  <2> QED BY <2>2, <2>3
<1> QED BY <1>5, <1>6, <1>7, <1>9, <1>10 DEF HeldInv, HeldEnabled

LEMMA HeldStep ==
    ASSUME GroupInv, [Next]_vars
    PROVE  HeldInv'
<1>0. /\ TypeOK /\ LoopInv /\ HeldEnabled /\ NoForgottenGroup /\ OneGroupPerResource
      /\ MRTypeOK /\ WorkerOK /\ ApiOK /\ made \in 0 .. MaxGroups
      /\ \A v \in Workers : KnowsHeld(v) /\ WorkerInv(v)
      /\ \A v \in Workers : pc[v] # "idle" => cur[v] \in MRs
  BY DEF GroupInv, TypeOK, MRTypeOK, WorkerOK, HeldInv, HeldEnabled, LoopInv, SlackOK
\* The others know what they knew.
<1>1. ASSUME HoldsNoMore, NEW v \in Workers,
             pc'[v] = pc[v] /\ cur'[v] = cur[v] /\ mg'[v] = mg[v] /\ obs'[v] = obs[v],
             \/ \E w \in Workers \ {v} : RuntimeStep(w) \/ ControllerStep(w) \/ Crash(w)
             \/ EnvironmentStep /\ ~ Crash(v)
             \/ UNCHANGED mrVars
      PROVE  KnowsHeld(v)'
  <2>1. CASE pc[v] = "idle"
    BY <1>1, <2>1 DEF KnowsHeld, Passed
  <2>2. CASE pc[v] # "idle"
    <3>1. v \in fresh' => v \in fresh /\ api'[cur[v]] = api[cur[v]]
      BY <1>0, <1>1, <2>2, FreshStays DEF mrVars
    <3> QED BY <1>0, <1>1, <3>1, OtherKnows
  <2> QED BY <2>1, <2>2
<1>2. HoldsNoMore => HeldEnabled' /\ OneGroupPerResource'
  BY <1>0, FewerHeld
<1>3. ASSUME NEW w \in Workers, Reconcile(w), HoldsNoMore PROVE HeldInv'
  <2>1. NoForgottenGroup' /\ KnowsHeld(w)'
    BY <1>3, ReconcileHeld
  <2>2. RuntimeStep(w) \/ ControllerStep(w) \/ UNCHANGED mrVars
    BY <1>0, <1>3, CallsAreSteps DEF Reconcile, Runtime
  <2>3. \A v \in Workers \ {w} : KnowsHeld(v)'
    BY <1>0, <1>1, <1>3, <2>2, OthersStay
  <2> QED BY <1>2, <1>3, <2>1, <2>3 DEF HeldInv, HeldEnabled
<1>4. ASSUME NEW w \in Workers, Dies(w), HoldsNoMore PROVE HeldInv'
  <2>1. KnowsHeld(w)' /\ NoForgottenGroup'
    BY <1>0, <1>4, KnowsAtEnd, QuietKeeps DEF Dies, Crash
  <2>2. \A v \in Workers \ {w} : KnowsHeld(v)'
    BY <1>0, <1>1, <1>4, OthersStay DEF Dies
  <2> QED BY <1>2, <1>4, <2>1, <2>2 DEF HeldInv, HeldEnabled
<1>5. ASSUME \/ KubernetesUsers \/ SlackUsers \/ UNCHANGED vars
             \/ \E w \in Workers, m \in MRs : Informer(w, m),
             HoldsNoMore
      PROVE  HeldInv'
  <2>1. UNCHANGED <<pc, cur, mg, obs>>
    BY <1>5, WorkersStay
  <2>2. NoForgottenGroup'
    <3>1. CASE KubernetesUsers
      BY <1>5, <3>1, UsersKeep
    <3>2. CASE UNCHANGED api
      BY <1>0, <1>5, <3>2, QuietKeeps
    <3>3. SlackUsers => UNCHANGED api
      BY DEF SlackUsers, SlackUserCreates, SlackUserChanges, SlackUserSwitches, NotReconciling, mrVars
    <3> QED BY <1>5, <3>1, <3>2, <3>3 DEF Informer, CacheSync, vars, mrVars
  <2>3. EnvironmentStep \/ UNCHANGED mrVars
    BY <1>0, <1>5, OthersAreSteps DEF vars
  <2>4. ASSUME NEW v \in Workers PROVE KnowsHeld(v)'
    <3>1. ~Crash(v)
      <4>1. ASSUME Crash(v) PROVE FALSE
        <5>1. pc[v] # "idle" /\ pc'[v] = "idle"
          BY <1>0, <4>1 DEF Crash, Release, Enter, WorkerOK
        <5> QED BY <2>1, <5>1
      <4> QED BY <4>1
    <3> QED BY <1>1, <1>5, <2>1, <2>3, <3>1
  <2> QED BY <1>2, <1>5, <2>2, <2>4 DEF HeldInv, HeldEnabled
<1>6. CASE \E w \in Workers : Reconcile(w)
  BY <1>0, <1>3, <1>6, ReconcileHolds, ObtainsHeld
<1>7. CASE ~ \E w \in Workers : Reconcile(w)
  <2>1. \/ KubernetesUsers \/ SlackUsers \/ UNCHANGED vars
        \/ \E w \in Workers : Dies(w) \/ \E m \in MRs : Informer(w, m)
    BY <1>7 DEF Next
  <2>2. HoldsNoMore
    BY <1>0, <2>1, OthersHold
  <2> QED BY <1>4, <1>5, <2>1, <2>2
<1> QED BY <1>6, <1>7

-----------------------------------------------------------------------------
(* The theorems on groups *)

LEMMA HeldInit == Init => HeldInv
  BY DEF Init, MRInit, HeldInv, HeldEnabled, NoForgottenGroup, OneGroupPerResource, Holds, KnowsHeld, Passed

\* The inductive invariant of the controller in its loop.
THEOREM GroupInvariant == Spec => []GroupInv
<1>1. GroupInv /\ (TypeOK /\ \A w \in Workers : Addressed(w))' /\ LoopInv' /\ [Next]_vars
          => GroupInv'
  BY HeldStep DEF GroupInv
<1>2. Spec => []LoopInv
  BY GroupsInLoop, LoopInvariant, PTL
<1>3. Init /\ LoopInv => GroupInv
  BY TypeInit, HeldInit DEF GroupInv
<1> QED BY <1>1, <1>2, <1>3, GroupTypeCorrect, PTL DEF Spec

\* Whatever fails, whoever crashes, however many replicas run: a group whose
\* creation was answered is never forgotten (usergroup.go:95-167).
THEOREM GroupsAreNotForgotten == Spec => []NoForgottenGroup
<1>1. GroupInv => NoForgottenGroup
  BY DEF GroupInv, HeldInv
<1> QED BY <1>1, GroupInvariant, PTL

\* Nor does a resource ever hold two groups made for it (usergroup.go:95-167).
THEOREM GroupsAreNotDuplicated == Spec => []OneGroupPerResource
<1>1. GroupInv => OneGroupPerResource
  BY DEF GroupInv, HeldInv
<1> QED BY <1>1, GroupInvariant, PTL

-----------------------------------------------------------------------------
(* The controller implements ObjectBook *)

\* A write of m is an entry in the book, or it leaves the book alone.
LEMMA WriteIsRecord ==
    ASSUME ApiOK, UNCHANGED slackVars, NEW m \in MRs, NEW o, Store(m, o),
           \/ HeldIs(m, o.ext)
           \/ o.ext = api[m].ext
           \/ o.ext \notin GroupIDs /\ api[m].ext \notin GroupIDs
    PROVE  Book!BookNext \/ UNCHANGED Book!bookVars
<1> DEFINE id == IF o.ext \in GroupIDs THEN o.ext ELSE NoExt
<1>1. api' = [api EXCEPT ![m] = o] /\ UNCHANGED heldBy
  BY DEF Store, slackVars, heldBy
<1>2. recorded' = [recorded EXCEPT ![m] = id]
  BY <1>1 DEF recorded, ApiOK
<1>3. id \in GroupIDs \cup {NoExt}
  OBVIOUS
<1>4. CASE HeldIs(m, o.ext)
  <2>1. \A g \in GroupIDs : heldBy[g] = m => id = g
    BY <1>4, NamesAssumption DEF heldBy, HeldIs, Holds
  <2>2. Book!Record(m, id)
    BY <1>1, <1>2, <2>1 DEF Book!Record
  <2> QED BY <1>3, <2>2 DEF Book!BookNext
<1>5. CASE o.ext = api[m].ext \/ (o.ext \notin GroupIDs /\ api[m].ext \notin GroupIDs)
  <2>1. recorded[m] = id
    BY <1>5 DEF recorded
  <2>2. recorded' = recorded
    BY <1>2, <2>1 DEF recorded
  <2> QED BY <1>1, <2>2 DEF Book!bookVars
<1> QED BY <1>4, <1>5

LEMMA QuietBook ==
    ASSUME UNCHANGED api, acked' = acked, \A g \in acked : madeFor'[g] = madeFor[g]
    PROVE  UNCHANGED Book!bookVars
  BY DEF recorded, heldBy, Book!bookVars

LEMMA DisableIsGiveUp ==
    ASSUME SlackOK, HeldEnabled, NEW g \in Groups, Disable(g), UNCHANGED api
    PROVE  Book!BookNext \/ UNCHANGED Book!bookVars
<1>0. g \in GroupIDs
  BY GroupsAreNames DEF SlackOK
<1>1. recorded' = recorded
  BY DEF recorded
<1>2. heldBy' = [heldBy EXCEPT ![g] = NoMR]
  BY <1>0 DEF heldBy, Disable, SlackOK
<1>3. CASE g \in acked
  <2>1. heldBy[g] # NoMR
    BY <1>0, <1>3, NamesAssumption DEF heldBy, HeldEnabled
  <2>2. Book!GiveUp(g)
    BY <1>1, <1>2, <2>1 DEF Book!GiveUp
  <2> QED BY <1>0, <2>2 DEF Book!BookNext
<1>4. CASE g \notin acked
  <2>1. heldBy' = heldBy
    BY <1>2, <1>4 DEF heldBy
  <2> QED BY <1>1, <2>1 DEF Book!bookVars
<1> QED BY <1>3, <1>4

\* A group that Slack makes is in nobody's hands yet.
LEMMA MakeBook ==
    ASSUME SlackOK, NEW m, NEW s, Make(m, s), UNCHANGED <<api, acked>>
    PROVE  UNCHANGED Book!bookVars
<1>1. \A g \in acked : madeFor'[g] = madeFor[g]
  BY MakeFacts, GroupsAreNames DEF SlackOK
<1> QED BY <1>1, QuietBook

LEMMA ObtainsIsObtain ==
    ASSUME GroupInv, NEW w \in Workers, Obtains(w), UNCHANGED api
    PROVE  Book!BookNext
<1> DEFINE g == made'
<1>1. NoneHeld(cur[w]) /\ cur[w] \in MRs /\ SlackOK /\ HeldEnabled
  BY DEF GroupInv, TypeOK, MRTypeOK, WorkerOK, HeldInv, HeldEnabled, KnowsHeld, Obtains, At
<1>2. /\ g \in GroupIDs /\ g \notin acked /\ acked' = acked \cup {g}
      /\ madeFor'[g] = cur[w] /\ \A h \in GroupIDs \ {g} : madeFor'[h] = madeFor[h]
  BY <1>1, MakeFacts DEF Obtains, SlackOK
<1> HIDE DEF g
<1>3. recorded' = recorded
  BY DEF recorded
<1>4. heldBy' = [heldBy EXCEPT ![g] = cur[w]]
  BY <1>2 DEF heldBy
<1>5. heldBy[g] = NoMR /\ \A h \in GroupIDs : heldBy[h] # cur[w]
  BY <1>1, <1>2, NamesAssumption DEF heldBy, NoneHeld, Holds
<1>6. Book!Obtain(cur[w], g)
  BY <1>3, <1>4, <1>5 DEF Book!Obtain
<1> QED BY <1>1, <1>2, <1>6 DEF Book!BookNext

LEMMA RuntimeBook ==
    ASSUME GroupInv, NEW w \in Workers, Runtime(w)
    PROVE  Book!BookNext \/ UNCHANGED Book!bookVars
<1>0. /\ ApiOK /\ KnowsHeld(w) /\ WorkerInv(w) /\ mg[w] \in Object
      /\ pc[w] # "idle" => cur[w] \in MRs /\ api[cur[w]] \in Object
      /\ UNCHANGED slackVars
  BY DEF GroupInv, TypeOK, MRTypeOK, ApiOK, WorkerOK, HeldInv, LoopInv, Runtime
<1>1. UNCHANGED api => UNCHANGED Book!bookVars
  BY <1>0, QuietBook DEF slackVars
<1>2. CASE Initialize(w)
  <2> DEFINE o == [mg[w] EXCEPT !.ext = MetaName[cur[w]]]
  <2>1. CASE w \in fresh /\ StoreBy(w, o)
    <3>1. Store(cur[w], o) /\ cur[w] \in MRs /\ pc[w] = "init" /\ o.ext = MetaName[cur[w]]
      BY <1>0, <1>2, <2>1 DEF Initialize, StoreBy, Object
    <3>2. o.ext \notin GroupIDs /\ api[cur[w]].ext \notin GroupIDs
      BY <1>0, <2>1, <3>1, NamesAssumption, GroupAssumption DEF KnowsHeld
    <3> HIDE DEF o
    <3> QED BY <1>0, <3>1, <3>2, WriteIsRecord
  <2> QED BY <1>1, <1>2, <2>1 DEF Initialize, WriteFails
<1>3. CASE AddFinalizer(w)
  <2> DEFINE o == [mg[w] EXCEPT !.fin = TRUE, !.synced = api[cur[w]].synced]
  <2>1. CASE w \in fresh /\ StoreBy(w, o)
    <3>1. Store(cur[w], o) /\ cur[w] \in MRs /\ HeldIs(cur[w], mg[w].ext) /\ o.ext = mg[w].ext
      BY <1>0, <1>3, <2>1 DEF AddFinalizer, StoreBy, Object, KnowsHeld, Passed
    <3> HIDE DEF o
    <3> QED BY <1>0, <3>1, WriteIsRecord
  <2> QED BY <1>1, <1>3, <2>1 DEF AddFinalizer, WriteFails
<1>4. CASE RemoveFinalizer(w)
  <2>1. CASE w \in fresh /\ StoreByUser(cur[w], Blank)
    <3>1. Store(cur[w], Blank) /\ cur[w] \in MRs /\ HeldIs(cur[w], Blank.ext)
      BY <1>0, <1>4, <2>1 DEF RemoveFinalizer, StoreByUser, KnowsHeld, NoneHeld, HeldIs
    <3> QED BY <1>0, <3>1, WriteIsRecord
  <2> QED BY <1>1, <1>4, <2>1 DEF RemoveFinalizer, WriteFails
<1>5. CASE CreatePending(w)
  <2> DEFINE o == [mg[w] EXCEPT !.create = "pending", !.synced = api[cur[w]].synced]
  <2>1. CASE w \in fresh /\ StoreBy(w, o)
    <3>1. Store(cur[w], o) /\ cur[w] \in MRs /\ HeldIs(cur[w], o.ext)
      BY <1>0, <1>5, <2>1 DEF CreatePending, StoreBy, KnowsHeld, NoneHeld, HeldIs
    <3> HIDE DEF o
    <3> QED BY <1>0, <3>1, WriteIsRecord
  <2> QED BY <1>1, <1>5, <2>1 DEF CreatePending, WriteFails
<1>6. CASE UpdateCritical(w)
  <2> DEFINE o == [api[cur[w]] EXCEPT !.ext = mg[w].ext, !.create = mg[w].create]
  <2>1. CASE StoreBy(w, o)
    <3>1. Store(cur[w], o) /\ cur[w] \in MRs /\ HeldIs(cur[w], mg[w].ext) /\ o.ext = mg[w].ext
      BY <1>0, <1>6, <2>1 DEF UpdateCritical, StoreBy, Object, KnowsHeld
    <3> HIDE DEF o
    <3> QED BY <1>0, <3>1, WriteIsRecord
  <2> QED BY <1>1, <1>6, <2>1 DEF UpdateCritical
<1>7. CASE StatusUpdate(w)
  <2> DEFINE o == [api[cur[w]] EXCEPT !.synced = mg[w].synced]
  <2>1. CASE StoreByUser(cur[w], o)
    <3>1. Store(cur[w], o) /\ cur[w] \in MRs /\ o.ext = api[cur[w]].ext
      BY <1>0, <1>7, <2>1 DEF StatusUpdate, StoreByUser, Object
    <3> HIDE DEF o
    <3> QED BY <1>0, <3>1, WriteIsRecord
  <2> QED BY <1>1, <1>7, <2>1 DEF StatusUpdate
<1>8. CASE \E m \in MRs : Start(w, m)
  BY <1>1, <1>8 DEF Start
<1> QED BY <1>2, <1>3, <1>4, <1>5, <1>6, <1>7, <1>8 DEF Runtime, RuntimeStep

LEMMA CallsBook ==
    ASSUME GroupInv, NEW w \in Workers,
           Connect(w) \/ Observe(w) \/ Create(w) \/ Update(w) \/ Delete(w)
    PROVE  Book!BookNext \/ UNCHANGED Book!bookVars
<1>0. SlackOK /\ HeldEnabled /\ (pc[w] = "delete" => mg[w].ext \in Groups)
  BY DEF GroupInv, TypeOK, HeldInv, HeldEnabled
<1>1. UNCHANGED api
  <2>1. ControllerStep(w) \/ UNCHANGED mrVars
    BY CallsAreSteps DEF GroupInv, TypeOK, SlackOK
  <2> QED BY <2>1 DEF ControllerStep, NameInObserve, NameInCreate, ObserveAnswers,
                      CreateReturns, CallReturns, Calls, mrVars
<1>2. UNCHANGED <<madeFor, acked>> => UNCHANGED Book!bookVars
  BY <1>1, QuietBook
<1>3. CASE Connect(w) \/ Observe(w)
  BY <1>2, <1>3 DEF Connect, Observe, slackVars
<1>4. CASE Create(w)
  BY <1>0, <1>1, <1>2, <1>4, MakeBook, ObtainsIsObtain DEF Create, Obtains
<1>5. CASE Update(w)
  BY <1>2, <1>5 DEF Update
<1>6. CASE Delete(w)
  BY <1>0, <1>1, <1>2, <1>6, DisableIsGiveUp DEF Delete, At
<1> QED BY <1>3, <1>4, <1>5, <1>6

LEMMA OthersBook ==
    ASSUME GroupInv, \/ KubernetesUsers \/ SlackUsers \/ UNCHANGED vars
                     \/ \E w \in Workers : Dies(w) \/ \E m \in MRs : Informer(w, m)
    PROVE  Book!BookNext \/ UNCHANGED Book!bookVars
<1>0. ApiOK /\ SlackOK /\ HeldEnabled /\ NoForgottenGroup
  BY DEF GroupInv, TypeOK, MRTypeOK, HeldInv, HeldEnabled
<1>1. UNCHANGED <<api, madeFor, acked>> => UNCHANGED Book!bookVars
  BY QuietBook
<1>2. ASSUME NEW m \in MRs, NEW o, StoreByUser(m, o), UNCHANGED slackVars,
             NoneHeld(m) \/ o.ext = api[m].ext
      PROVE  Book!BookNext \/ UNCHANGED Book!bookVars
  <2>1. HeldIs(m, o.ext) \/ o.ext = api[m].ext
    BY <1>2 DEF NoneHeld, HeldIs
  <2> QED BY <1>0, <1>2, <2>1, WriteIsRecord DEF StoreByUser
<1>3. \A m \in MRs : ~(api[m].exists /\ api[m].fin) => NoneHeld(m)
  BY <1>0 DEF NoForgottenGroup, NoneHeld
<1>4. ASSUME NEW m \in MRs, UserDeletes(m), UNCHANGED slackVars
      PROVE  Book!BookNext \/ UNCHANGED Book!bookVars
  <2>1. [api[m] EXCEPT !.del = TRUE].ext = api[m].ext
    BY <1>0 DEF ApiOK, Object
  <2> QED BY <1>2, <1>3, <1>4, <2>1 DEF UserDeletes
<1>5. ASSUME NEW m \in MRs, NEW s \in Specs, UserEdits(m, s), UNCHANGED slackVars
      PROVE  Book!BookNext \/ UNCHANGED Book!bookVars
  <2>1. [api[m] EXCEPT !.spec = s].ext = api[m].ext
    BY <1>0 DEF ApiOK, Object
  <2> QED BY <1>2, <1>5, <2>1 DEF UserEdits
<1>6. ASSUME NEW m \in MRs, NEW s, NEW e, UserCreates(m, s, e), UNCHANGED slackVars
      PROVE  Book!BookNext \/ UNCHANGED Book!bookVars
  BY <1>2, <1>3, <1>6 DEF UserCreates
<1>7. ASSUME NEW s, SlackUserCreates(s) PROVE UNCHANGED Book!bookVars
  BY <1>0, <1>7, MakeBook DEF SlackUserCreates, NotReconciling, mrVars
<1>8. ASSUME NEW g \in Groups, SlackUserSwitches(g)
      PROVE  Book!BookNext \/ UNCHANGED Book!bookVars
  BY <1>0, <1>1, <1>8, DisableIsGiveUp DEF SlackUserSwitches, NotReconciling, mrVars
<1>9. ASSUME NEW g, NEW s, SlackUserChanges(g, s) PROVE UNCHANGED Book!bookVars
  BY <1>1, <1>9 DEF SlackUserChanges, NotReconciling, mrVars
<1>10. CASE KubernetesUsers
  BY <1>4, <1>5, <1>6, <1>10 DEF KubernetesUsers
<1>11. CASE SlackUsers
  BY <1>7, <1>8, <1>9, <1>11 DEF SlackUsers
<1>12. CASE UNCHANGED vars \/ \E w \in Workers : Dies(w) \/ \E m \in MRs : Informer(w, m)
  BY <1>1, <1>12 DEF vars, mrVars, slackVars, Dies, Crash, Informer, CacheSync
<1> QED BY <1>10, <1>11, <1>12

\* The controller implements ObjectBook: seen through heldBy and recorded it is a
\* book in which a held group is never struck out or replaced, and no second one
\* is obtained (usergroup.go:95-215).
THEOREM GroupBookIsKept == Spec => ImplementsBook
<1>1. Init => Book!BookInit
  BY NamesAssumption, GroupAssumption
     DEF Init, MRInit, Book!BookInit, heldBy, recorded, Blank
<1>2. GroupInv /\ [Next]_vars => [Book!BookNext]_(Book!bookVars)
  BY RuntimeBook, CallsBook, OthersBook DEF Next, Reconcile
<1> QED BY <1>1, <1>2, GroupInvariant, PTL DEF Spec, ImplementsBook, Book!BookSpec

\* What holds of the loop holds of this controller: a group whose creation has
\* lost its outcome is the last one the provider makes for its resource, nothing
\* the provider writes undoes what users decided, and while a worker creates a
\* group nobody records another one for the resource (usergroup.go:146-167 inside
\* managed.Reconciler).
THEOREM GroupCreationsAreLeased == Spec => ImplementsLease /\ UsersDecide /\ CreatorNames
  BY GroupsInLoop, LeaseIsKept, OnlyUsersDecide, OnlyTheCreatorNames, PTL
=============================================================================
