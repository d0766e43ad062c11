------------------------ MODULE UserGroupMembersProofs ------------------------
(***************************************************************************)
(* The UserGroupMembers controller runs inside the reconcile loop, and     *)
(* takes nobody from a group whom its resource asks for, for every number  *)
(* of replicas, resources, groups, e-mails and users and every bound on    *)
(* failures.                                                               *)
(***************************************************************************)
EXTENDS UserGroupMembers, ManagedReconcilerProofs

-----------------------------------------------------------------------------
(* Every step of the controller is a step of the loop *)

\* The forms in which Observe leaves the copy of a worker.
LEMMA ObservedIsStep ==
    ASSUME MRTypeOK, NEW w \in Workers, UNCHANGED faults \/ Fault, NEW o \in Observations,
           NEW c, c = mg[w] \/ \E r \in ConditionReasons : c = [mg[w] EXCEPT !.synced = r],
           ObserveAnswers(w, o, c)
    PROVE  ControllerStep(w)
<1>1. mg[w] \in Object
  BY DEF MRTypeOK, WorkerOK
<1>2. \E r \in ReasonsFor(w) : c = [mg[w] EXCEPT !.ext = mg[w].ext, !.synced = r]
  BY <1>1 DEF ReasonsFor, Object
<1>3. mg[w].ext \in NamesFor(w)
  BY DEF NamesFor
<1> QED BY <1>2, <1>3 DEF ControllerStep

LEMMA CallIsStep ==
    ASSUME NEW w \in Workers, NEW ok \in BOOLEAN, CallEnds(w, ok), UNCHANGED faults \/ Fault
    PROVE  ControllerStep(w)
  BY DEF CallEnds, ControllerStep

LEMMA ObserveIsStep ==
    ASSUME MRTypeOK, NEW w \in Workers,
           Connect(w) \/ ListUserGroupMembers(w) \/ LookupInObserve(w)
    PROVE  ControllerStep(w) \/ UNCHANGED mrVars
<1>1. ASSUME ObserveAnswers(w, "error", mg[w]), UNCHANGED faults \/ Fault
      PROVE  ControllerStep(w)
  BY <1>1, ObservedIsStep DEF Observations
<1>2. CASE Connect(w)
  BY <1>1, <1>2 DEF Connect, Goto
<1>3. CASE ListUserGroupMembers(w)
  BY <1>1, <1>3 DEF ListUserGroupMembers, Goto
<1>4. CASE LookupInObserve(w)
  <2>1. ASSUME NEW r, Compare(w, r), UNCHANGED faults PROVE ControllerStep(w)
    <3>1. "UserNotFound" \in ConditionReasons
      BY GroupAssumption
    <3> QED BY <2>1, <3>1, ObservedIsStep DEF Compare, Observations
  <2>2. ASSUME NEW r, LookupMore(w, r) PROVE UNCHANGED mrVars
    BY <2>2 DEF LookupMore
  <2> QED BY <1>1, <1>4, <2>1, <2>2 DEF LookupInObserve
<1> QED BY <1>2, <1>3, <1>4

LEMMA WriteIsStep ==
    ASSUME NEW w \in Workers, LookupInUpdate(w) \/ Write(w) \/ Delete(w)
    PROVE  ControllerStep(w) \/ UNCHANGED mrVars
<1>1. CASE LookupInUpdate(w)
  <2>1. ASSUME NEW r, LookupMore(w, r) \/ GoOnUpdate(w, r)
        PROVE  ControllerStep(w) \/ UNCHANGED mrVars
    BY <2>1, CallIsStep DEF LookupMore, GoOnUpdate, Goto
  <2> QED BY <1>1, <2>1, CallIsStep DEF LookupInUpdate
<1>2. ASSUME NEW us, UpdateUserGroupMembers(w, us) PROVE ControllerStep(w)
  BY <1>2, CallIsStep DEF UpdateUserGroupMembers
<1> QED BY <1>1, <1>2 DEF Write, Delete

LEMMA StepIsLoopStep ==
    ASSUME MRTypeOK, [Next]_vars
    PROVE  [MRNext]_mrVars
<1>1. CASE KubernetesUsers
  <2>1. GroupIDs \cup {NoExt} \subseteq ExtNames \cup {NoExt}
    BY GroupAssumption
  <2> QED BY <1>1, <2>1 DEF KubernetesUsers, MRNext, EnvironmentStep
<1>2. CASE SlackUsers
  BY <1>2 DEF SlackUsers, SlackUserSetsMembers, DirectoryChanges
<1>3. ASSUME NEW w \in Workers, Reconcile(w) PROVE [MRNext]_mrVars
  BY <1>3, ObserveIsStep, WriteIsStep DEF Reconcile, Runtime, MRNext
<1>4. ASSUME NEW w \in Workers, Dies(w) \/ \E m \in MRs : Informer(w, m) PROVE MRNext
  BY <1>4 DEF Dies, Informer, MRNext, EnvironmentStep
<1>5. CASE UNCHANGED vars
  BY <1>5 DEF vars
<1> QED BY <1>1, <1>2, <1>3, <1>4, <1>5 DEF Next

\* The UserGroupMembers controller implements the reconcile loop around an
\* arbitrary controller (usergroupmembers.go:62-268 inside managed.Reconciler).
THEOREM MembersInLoop == Spec => MRSpec
<1>1. Init => MRInit
  BY DEF Init
<1>2. MRTypeOK /\ [Next]_vars => MRTypeOK' /\ [MRNext]_mrVars
  BY StepIsLoopStep, MRTypeStep
<1> QED BY <1>1, <1>2, MRTypeInit, PTL DEF Spec, MRSpec

-----------------------------------------------------------------------------
(* Types and the invariant *)

\* What the loop gives: its invariant, and the moves of the other workers.
LEMMA SpecIsEmails ==
    ASSUME LoopInv, NEW w \in Workers, pc[w] \notin {"idle", "status"}
    PROVE  mg[w].spec \subseteq Emails
  BY GroupAssumption DEF LoopInv, MRTypeOK, WorkerOK, WorkerInv, Object

\* The variables of this module, apart from those of the loop.
LocalOK ==
    /\ step \in [Workers -> Steps]
    /\ got \in [Workers -> [Emails -> Users \cup {NoUser, Unasked}]]
    /\ seen \in [Workers -> SUBSET Users]
    /\ members \in [GroupIDs -> SUBSET Users]
    /\ dir \in [Emails -> Users \cup {NoUser}]
    /\ stale \in SUBSET Workers
    /\ drift \in 0 .. MaxDrift

LocalInv == LocalOK /\ \A w \in Workers : ListInv(w)

LEMMA PhaseInv ==
    ASSUME LocalInv, NEW w \in Workers, NextPhase(w), UNCHANGED <<dir, drift>>,
           members' \in [GroupIDs -> SUBSET Users],
           \A v \in Workers \ {w} : mg'[v] = mg[v]
    PROVE  LocalInv'
<1>1. LocalOK'
  BY DEF LocalInv, LocalOK, NextPhase, FirstStep, Steps, Nothing
<1>2. ListInv(w)'
  BY DEF LocalInv, LocalOK, NextPhase, FirstStep, Nothing, ListInv
<1>3. ASSUME NEW v \in Workers \ {w} PROVE ListInv(v)'
  <2>1. step'[v] = step[v] /\ got'[v] = got[v] /\ (v \in stale' <=> v \in stale)
    BY <1>3 DEF LocalInv, LocalOK, NextPhase
  <2> QED BY <1>3, <2>1 DEF LocalInv, ListInv, resolvedIDs, Found
<1> QED BY <1>1, <1>2, <1>3 DEF LocalInv

\* w notes an answer or goes on to another call, and nothing else changes.
LEMMA NoteInv ==
    ASSUME LocalInv, NEW w \in Workers, UNCHANGED <<mrVars, stale, slackVars>>,
           NEW s \in Steps, step' = [step EXCEPT ![w] = s],
           NEW r \in [Emails -> Users \cup {NoUser, Unasked}], got' = [got EXCEPT ![w] = r],
           seen' \in [Workers -> SUBSET Users],
           w \notin stale => \A e \in Emails : r[e] \in {Unasked, dir[e]},
           s = "write" => /\ resolvedIDs(mg[w].spec, r) # {}
                          /\ \A e \in mg[w].spec : r[e] # Unasked
    PROVE  LocalInv'
<1>1. LocalOK'
  BY DEF LocalInv, LocalOK, slackVars
<1>2. ListInv(w)'
  BY DEF LocalInv, LocalOK, slackVars, mrVars, ListInv, resolvedIDs, Found
<1>3. ASSUME NEW v \in Workers \ {w} PROVE ListInv(v)'
  <2>1. step'[v] = step[v] /\ got'[v] = got[v]
    BY <1>3 DEF LocalInv, LocalOK
  <2> QED BY <1>3, <2>1 DEF LocalInv, ListInv, resolvedIDs, Found, mrVars, slackVars
<1> QED BY <1>1, <1>2, <1>3 DEF LocalInv

\* What a lookup that is answered makes of the answers of w.
LEMMA LookupAnswer ==
    ASSUME LocalInv, NEW w \in Workers, NEW r, Lookup(w, r)
    PROVE  /\ step[w] = "lookup"
           /\ r \in [Emails -> Users \cup {NoUser, Unasked}]
           /\ w \notin stale => \A e \in Emails : r[e] \in {Unasked, dir[e]}
<1>1. PICK e \in ToAsk(w) : r = [got[w] EXCEPT ![e] = dir[e]]
  BY DEF Lookup
<1>2. step[w] = "lookup"
  BY DEF Lookup
<1>3. got[w] \in [Emails -> Users \cup {NoUser, Unasked}]
      /\ (w \notin stale => \A f \in Emails : got[w][f] \in {Unasked, dir[f]})
  BY DEF LocalInv, LocalOK, ListInv
<1>4. \A f \in Emails : dir[f] \in Users \cup {NoUser}
  BY DEF LocalInv, LocalOK
<1>5. r \in [Emails -> Users \cup {NoUser, Unasked}] /\ \A f \in Emails : r[f] \in {got[w][f], dir[f]}
  BY <1>1, <1>3, <1>4
<1> QED BY <1>2, <1>3, <1>5

LEMMA LookupMoreInv ==
    ASSUME LocalInv, NEW w \in Workers, NEW r, LookupMore(w, r), UNCHANGED slackVars
    PROVE  LocalInv'
<1>1. Lookup(w, r) /\ step' = [step EXCEPT ![w] = "lookup"]
  BY LookupAnswer DEF LookupMore, LocalInv, LocalOK
<1>2. "lookup" \in Steps /\ "lookup" # "write"
  BY DEF Steps
<1>3. r \in [Emails -> Users \cup {NoUser, Unasked}]
      /\ (w \notin stale => \A e \in Emails : r[e] \in {Unasked, dir[e]})
  BY <1>1, LookupAnswer
<1>4. seen' \in [Workers -> SUBSET Users]
  BY DEF LookupMore, LocalInv, LocalOK
<1>5. got' = [got EXCEPT ![w] = r] /\ UNCHANGED <<mrVars, stale, slackVars>>
  BY DEF LookupMore
<1> QED BY <1>1, <1>2, <1>3, <1>4, <1>5, NoteInv

LEMMA GoOnUpdateInv ==
    ASSUME LocalInv, WorkerOK, NEW w \in Workers, NEW r, LookupLast(w, r), GoOnUpdate(w, r),
           UNCHANGED slackVars
    PROVE  LocalInv'
<1>1. CASE resolvedIDs(mg[w].spec, r) # {}
  <2>1. "write" \in Steps /\ step' = [step EXCEPT ![w] = "write"] /\ got' = [got EXCEPT ![w] = r]
        /\ UNCHANGED <<mrVars, stale, slackVars>>
    BY <1>1 DEF GoOnUpdate, Goto, Steps
  <2>2. r \in [Emails -> Users \cup {NoUser, Unasked}]
        /\ (w \notin stale => \A e \in Emails : r[e] \in {Unasked, dir[e]})
    BY LookupAnswer DEF LookupLast
  <2>3. \A e \in mg[w].spec : r[e] # Unasked
    BY DEF LookupLast
  <2>4. seen' \in [Workers -> SUBSET Users]
    BY <1>1 DEF GoOnUpdate, LocalInv, LocalOK
  <2> QED BY <1>1, <2>1, <2>2, <2>3, <2>4, NoteInv
<1>2. CASE CallEnds(w, TRUE)
  BY <1>2, PhaseInv, EnterOthers DEF CallEnds, CallReturns, Report, slackVars, LocalInv, LocalOK
<1> QED BY <1>1, <1>2 DEF GoOnUpdate

LEMMA CallEndsInv ==
    ASSUME LocalInv, WorkerOK, NEW w \in Workers, NEW ok, CallEnds(w, ok),
           UNCHANGED <<dir, drift>>, members' \in [GroupIDs -> SUBSET Users]
    PROVE  LocalInv'
  BY PhaseInv, EnterOthers DEF CallEnds, CallReturns, Report

LEMMA ObserveEndsInv ==
    ASSUME LocalInv, WorkerOK, NEW w \in Workers, NEW o, NEW c,
           ObserveAnswers(w, o, c), NextPhase(w), UNCHANGED slackVars
    PROVE  LocalInv'
<1>1. \A v \in Workers \ {w} : mg'[v] = mg[v]
  BY EnterOthers DEF ObserveAnswers, Decide, Report, WorkerOK
<1> QED BY <1>1, PhaseInv DEF slackVars, LocalInv, LocalOK

LEMMA ReplaceType ==
    ASSUME LocalInv, NEW g, NEW us \in SUBSET Users, Replace(g, us) \/ UNCHANGED members
    PROVE  members' \in [GroupIDs -> SUBSET Users]
  BY DEF Replace, LocalInv, LocalOK

LEMMA UpdateMembersInv ==
    ASSUME LocalInv, WorkerOK, NEW w \in Workers, NEW us \in SUBSET Users,
           UpdateUserGroupMembers(w, us)
    PROVE  LocalInv'
  BY CallEndsInv, ReplaceType DEF UpdateUserGroupMembers

LEMMA ReconcileInv ==
    ASSUME LocalInv, WorkerOK, NEW w \in Workers, Reconcile(w)
    PROVE  LocalInv'
<1>0. /\ got[w] \in [Emails -> Users \cup {NoUser, Unasked}]
      /\ w \notin stale => \A e \in Emails : got[w][e] \in {Unasked, dir[e]}
  BY DEF LocalInv, LocalOK, ListInv
<1>1. CASE Runtime(w)
  <2>1. \A v \in Workers \ {w} : mg'[v] = mg[v]
    BY <1>1, MovesAlone DEF Runtime
  <2> QED BY <1>1, <2>1, PhaseInv DEF Runtime, slackVars, LocalInv, LocalOK
<1>2. CASE Connect(w)
  <2>1. CASE Goto(w, "list") /\ UNCHANGED <<got, seen>>
    <3>1. "list" \in Steps /\ got' = [got EXCEPT ![w] = got[w]]
          /\ step' = [step EXCEPT ![w] = "list"] /\ UNCHANGED <<mrVars, stale, slackVars>>
      BY <1>2, <2>1 DEF Connect, Goto, Steps, LocalInv, LocalOK
    <3>2. seen' \in [Workers -> SUBSET Users] /\ "list" # "write"
      BY <2>1 DEF LocalInv, LocalOK
    <3> QED BY <1>0, <3>1, <3>2, NoteInv
  <2> QED BY <1>2, <2>1, ObserveEndsInv DEF Connect
<1>3. CASE ListUserGroupMembers(w)
  <2>1. CASE mg[w].ext \in GroupIDs /\ Goto(w, "lookup") /\ UNCHANGED got
             /\ seen' = [seen EXCEPT ![w] = members[mg[w].ext]]
    <3>1. "lookup" \in Steps /\ got' = [got EXCEPT ![w] = got[w]]
          /\ step' = [step EXCEPT ![w] = "lookup"] /\ UNCHANGED <<mrVars, stale, slackVars>>
      BY <1>3, <2>1 DEF ListUserGroupMembers, Goto, Steps, LocalInv, LocalOK
    <3>2. seen' \in [Workers -> SUBSET Users] /\ "lookup" # "write"
      BY <2>1 DEF LocalInv, LocalOK
    <3> QED BY <1>0, <3>1, <3>2, NoteInv
  <2> QED BY <1>3, <2>1, ObserveEndsInv DEF ListUserGroupMembers
<1>4. CASE LookupInObserve(w)
  BY <1>4, LookupMoreInv, ObserveEndsInv DEF LookupInObserve, Compare
<1>5. CASE LookupInUpdate(w)
  <2>1. UNCHANGED slackVars
    BY <1>5 DEF LookupInUpdate
  <2>2. ASSUME CallEnds(w, FALSE) PROVE LocalInv'
    BY <2>1, <2>2, CallEndsInv DEF slackVars, LocalInv, LocalOK
  <2> QED BY <1>5, <2>1, <2>2, LookupMoreInv, GoOnUpdateInv DEF LookupInUpdate
<1>6. CASE Write(w)
  <2>1. resolvedIDs(mg[w].spec, got[w]) \in SUBSET Users
    BY DEF resolvedIDs, Found
  <2> QED BY <1>6, <2>1, UpdateMembersInv DEF Write
<1>7. CASE Delete(w)
  BY <1>7, UpdateMembersInv DEF Delete
<1> QED BY <1>1, <1>2, <1>3, <1>4, <1>5, <1>6, <1>7 DEF Reconcile

\* Steps that leave the workers alone: only what was said may be out of date.
LEMMA RestInv ==
    ASSUME LocalInv, UNCHANGED <<step, got, seen, mg>>, stale \subseteq stale', LocalOK',
           \A w \in Workers : w \notin stale' => \A e \in Emails :
               got[w][e] # Unasked => dir'[e] = dir[e]
    PROVE  LocalInv'
<1> SUFFICES ASSUME NEW w \in Workers PROVE ListInv(w)'
  BY DEF LocalInv
<1> QED BY DEF LocalInv, ListInv, resolvedIDs, Found

LEMMA OthersInv ==
    ASSUME LocalInv, WorkerOK,
           \/ KubernetesUsers \/ SlackUsers
           \/ \E w \in Workers : Dies(w) \/ \E m \in MRs : Informer(w, m)
    PROVE  LocalInv'
<1>1. CASE KubernetesUsers
  <2>1. UNCHANGED mg
    BY <1>1 DEF KubernetesUsers, UserDeletes, UserEdits, UserCreates, EditOnly
  <2> QED BY <1>1, <2>1, RestInv DEF KubernetesUsers, slackVars, LocalInv, LocalOK
<1>2. ASSUME NEW g \in GroupIDs, NEW us \in SUBSET Users, SlackUserSetsMembers(g, us)
      PROVE  LocalInv'
  <2>1. LocalOK'
    BY <1>2, GroupAssumption, ReplaceType DEF SlackUserSetsMembers, Drift, LocalInv, LocalOK
  <2> QED BY <1>2, <2>1, RestInv DEF SlackUserSetsMembers, mrVars
<1>3. ASSUME NEW e \in Emails, NEW u \in Users \cup {NoUser}, DirectoryChanges(e, u)
      PROVE  LocalInv'
  <2>1. LocalOK'
    BY <1>3, GroupAssumption DEF DirectoryChanges, Drift, LocalInv, LocalOK
  <2>2. \A w \in Workers : w \notin stale' => \A f \in Emails :
            got[w][f] # Unasked => dir'[f] = dir[f]
    BY <1>3 DEF DirectoryChanges, LocalInv, LocalOK
  <2>3. UNCHANGED <<step, got, seen, mg>> /\ stale \subseteq stale'
    BY <1>3 DEF DirectoryChanges, mrVars
  <2> QED BY <2>1, <2>2, <2>3, RestInv
<1>4. ASSUME NEW w \in Workers, Dies(w) PROVE LocalInv'
  <2>1. \A v \in Workers \ {w} : mg'[v] = mg[v]
    BY <1>4, MovesAlone DEF Dies
  <2> QED BY <1>4, <2>1, PhaseInv DEF Dies, slackVars, LocalInv, LocalOK
<1>5. ASSUME NEW w \in Workers, NEW m \in MRs, Informer(w, m) PROVE LocalInv'
  <2>1. UNCHANGED mg
    BY <1>5 DEF Informer, CacheSync
  <2> QED BY <1>5, <2>1, RestInv DEF Informer, slackVars, LocalInv, LocalOK
<1> QED BY <1>1, <1>2, <1>3, <1>4, <1>5 DEF SlackUsers

LEMMA LocalStep ==
    ASSUME LocalInv, WorkerOK, [Next]_vars
    PROVE  LocalInv'
<1>1. CASE UNCHANGED vars
  BY <1>1, RestInv DEF vars, slackVars, mrVars, LocalInv, LocalOK
<1> QED BY <1>1, ReconcileInv, OthersInv DEF Next

LEMMA LocalInit == Init => LocalInv
  BY GroupAssumption
     DEF Init, LocalInv, LocalOK, ListInv, Nothing, Steps

-----------------------------------------------------------------------------
(* No resource is found missing *)

\* The phases this controller is in.
Reached == Phases \ {"pending", "create", "critical", "unfinalize"}

PhaseOK == \A w \in Workers : pc[w] \in Reached /\ obs[w] # "missing"

LEMMA EnterReached ==
    ASSUME PhaseOK, WorkerOK, NEW w \in Workers, NEW m, NEW o, NEW p \in Reached, Enter(w, m, o, p)
    PROVE  PhaseOK'
  BY DEF PhaseOK, WorkerOK, Enter

LEMMA ReportReached ==
    ASSUME PhaseOK, WorkerOK, NEW w \in Workers, NEW o, NEW r, Report(w, o, r) \/ Release(w)
    PROVE  PhaseOK'
  BY EnterReached DEF Report, Release, Reached, Phases

LEMMA DecideReached ==
    ASSUME PhaseOK, WorkerOK, NEW w \in Workers, NEW o, o # "missing", NEW c, Decide(w, o, c)
    PROVE  PhaseOK'
  BY EnterReached, ReportReached DEF Decide, Reached, Phases

LEMMA AnswerReached ==
    ASSUME PhaseOK, WorkerOK, NEW w \in Workers, NEW o, o # "missing", NEW c, ObserveAnswers(w, o, c)
    PROVE  PhaseOK'
<1>1. ASSUME NEW m, NEW d, Enter(w, m, d, "delete") PROVE PhaseOK'
  BY <1>1, EnterReached DEF Reached, Phases
<1>2. ASSUME pc' = [pc EXCEPT ![w] = "finalize"], obs' = [obs EXCEPT ![w] = o] PROVE PhaseOK'
  BY <1>2 DEF PhaseOK, WorkerOK, Reached, Phases
<1> QED BY <1>1, <1>2, ReportReached, DecideReached DEF ObserveAnswers

LEMMA RuntimeReached ==
    ASSUME PhaseOK, WorkerOK, NEW w \in Workers, RuntimeStep(w)
    PROVE  PhaseOK'
<1>0. pc[w] \in Reached /\ obs[w] # "missing"
  BY DEF PhaseOK
<1>1. ASSUME NEW m, NEW o, PassGate(w, m, o) PROVE PhaseOK'
  BY <1>1, EnterReached DEF PassGate, Reached, Phases
<1>2. ASSUME WriteFails(w) PROVE PhaseOK'
  BY <1>2, ReportReached DEF WriteFails
<1>3. ASSUME NEW m, Start(w, m) PROVE PhaseOK'
  BY <1>1, <1>3, EnterReached DEF Start, Reached, Phases
<1>4. CASE Initialize(w)
  BY <1>1, <1>2, <1>4 DEF Initialize
<1>5. CASE AddFinalizer(w)
  BY <1>0, <1>2, <1>5, DecideReached DEF AddFinalizer
<1>6. CASE StatusUpdate(w)
  BY <1>6, ReportReached DEF StatusUpdate
<1>7. CASE RemoveFinalizer(w) \/ CreatePending(w) \/ UpdateCritical(w)
  BY <1>0, <1>7 DEF RemoveFinalizer, CreatePending, UpdateCritical, Reached
<1> QED BY <1>3, <1>4, <1>5, <1>6, <1>7 DEF RuntimeStep

LEMMA CallsReached ==
    ASSUME PhaseOK, WorkerOK, NEW w \in Workers, Reconcile(w), ~Runtime(w)
    PROVE  PhaseOK'
<1>1. ASSUME UNCHANGED mrVars PROVE PhaseOK'
  BY <1>1 DEF mrVars, PhaseOK
<1>2. ASSUME NEW ok, CallEnds(w, ok) PROVE PhaseOK'
  BY <1>2, ReportReached DEF CallEnds, CallReturns
<1>3. CASE Connect(w) \/ ListUserGroupMembers(w)
  BY <1>1, <1>3, AnswerReached DEF Connect, ListUserGroupMembers, Goto
<1>4. CASE LookupInObserve(w)
  BY <1>1, <1>4, AnswerReached DEF LookupInObserve, LookupMore, Compare
<1>5. CASE LookupInUpdate(w)
  BY <1>1, <1>2, <1>5 DEF LookupInUpdate, LookupMore, GoOnUpdate, Goto
<1>6. CASE Write(w) \/ Delete(w)
  BY <1>2, <1>6 DEF Write, Delete, UpdateUserGroupMembers
<1> QED BY <1>3, <1>4, <1>5, <1>6 DEF Reconcile

LEMMA PhaseStep ==
    ASSUME PhaseOK, WorkerOK, [Next]_vars
    PROVE  PhaseOK'
<1>1. ASSUME UNCHANGED <<pc, obs>> PROVE PhaseOK'
  BY <1>1 DEF PhaseOK
<1>2. CASE KubernetesUsers
  BY <1>1, <1>2 DEF KubernetesUsers, UserDeletes, UserEdits, UserCreates, EditOnly
<1>3. CASE SlackUsers
  BY <1>1, <1>3 DEF SlackUsers, SlackUserSetsMembers, DirectoryChanges, mrVars
<1>4. ASSUME NEW w \in Workers, Dies(w) \/ \E m \in MRs : Informer(w, m) PROVE PhaseOK'
  BY <1>1, <1>4, ReportReached DEF Dies, Crash, Informer, CacheSync
<1>5. ASSUME NEW w \in Workers, Reconcile(w) PROVE PhaseOK'
  BY <1>5, RuntimeReached, CallsReached DEF Runtime
<1>6. CASE UNCHANGED vars
  BY <1>1, <1>6 DEF vars, mrVars
<1> QED BY <1>2, <1>3, <1>4, <1>5, <1>6 DEF Next

-----------------------------------------------------------------------------
(* The theorems *)

\* The inductive invariant: what was looked up is true or known to be stale, a
\* list to be written is complete, and no resource is found missing.
THEOREM MembersInvariant == Spec => []MembersInv
<1>1. Init => LocalInv /\ PhaseOK
  BY LocalInit DEF Init, MRInit, PhaseOK, Reached, Phases
<1>2. MRTypeOK /\ LocalInv /\ PhaseOK /\ [Next]_vars => LocalInv' /\ PhaseOK'
  BY LocalStep, PhaseStep DEF MRTypeOK
<1>3. MRTypeOK /\ LocalInv /\ PhaseOK => MembersInv
  BY DEF LocalInv, LocalOK, PhaseOK, Reached, MembersInv, TypeOK, NeverMissing
<1>4. Spec => []MRTypeOK
  BY MembersInLoop, MRTypeCorrect, PTL
<1> QED BY <1>1, <1>2, <1>3, <1>4, PTL DEF Spec

\* Every variable keeps its type, and Create is never called.
THEOREM MembersTypeCorrect == Spec => []TypeOK
<1>1. MembersInv => TypeOK
  BY DEF MembersInv
<1> QED BY <1>1, MembersInvariant, PTL

\* Who may change the member lists: users of Slack, and an Update or Delete.
LEMMA OnlyWrites ==
    ASSUME [Next]_vars, drift \in Nat, drift' = drift
    PROVE  \/ UNCHANGED members
           \/ \E w \in Workers : Write(w) \/ Delete(w)
<1>1. CASE SlackUsers
  <2>1. drift' # drift
    BY <1>1 DEF SlackUsers, SlackUserSetsMembers, DirectoryChanges, Drift
  <2> QED BY <2>1
<1>2. CASE KubernetesUsers
  BY <1>2 DEF KubernetesUsers, slackVars
<1>3. ASSUME NEW w \in Workers, Dies(w) \/ \E m \in MRs : Informer(w, m) PROVE UNCHANGED members
  BY <1>3 DEF Dies, Informer, slackVars
<1>4. ASSUME NEW w \in Workers, Reconcile(w), ~Write(w), ~Delete(w) PROVE UNCHANGED members
  BY <1>4 DEF Reconcile, Runtime, Connect, ListUserGroupMembers, LookupInObserve, LookupInUpdate, slackVars
<1>5. CASE UNCHANGED vars
  BY <1>5 DEF vars, slackVars
<1> QED BY <1>1, <1>2, <1>3, <1>4, <1>5 DEF Next

\* What the call of Write or Delete makes of the list of one group.
LEMMA ReplaceFacts ==
    ASSUME LocalOK, NEW w \in Workers, NEW us, UpdateUserGroupMembers(w, us),
           NEW g \in GroupIDs, members'[g] # members[g]
    PROVE  mg[w].ext = g /\ members'[g] = us
  BY DEF UpdateUserGroupMembers, Replace, LocalOK

\* The list that Write writes.
LEMMA WriteFacts ==
    ASSUME LoopInv, MembersInv, NEW w \in Workers, Write(w)
    PROVE  /\ pc[w] = "update" /\ resolvedIDs(mg[w].spec, got[w]) # {}
           /\ w \notin stale => resolvedIDs(mg[w].spec, got[w]) = Meant(mg[w].spec)
<1>1. pc[w] = "update" /\ step[w] = "write"
  BY DEF Write, At
<1>2. mg[w].spec \subseteq Emails
  BY <1>1, SpecIsEmails
<1>3. ListInv(w)
  BY DEF MembersInv
<1>4. resolvedIDs(mg[w].spec, got[w]) # {} /\ \A e \in mg[w].spec : got[w][e] # Unasked
  BY <1>1, <1>3 DEF ListInv
<1>5. ASSUME w \notin stale PROVE resolvedIDs(mg[w].spec, got[w]) = Meant(mg[w].spec)
  <2>1. \A e \in mg[w].spec : got[w][e] = dir[e] /\ dir[e] \in Users \cup {NoUser}
    BY <1>2, <1>3, <1>4, <1>5 DEF ListInv, MembersInv, TypeOK
  <2> QED BY <2>1, GroupAssumption DEF resolvedIDs, Found, Meant
<1> QED BY <1>1, <1>4, <1>5

\* What the provider writes is what the spec stands for, or nobody when the
\* resource is deleted (usergroupmembers.go:186-268).
THEOREM MembersAreMeant == Spec => OnlyMeantMembers
<1>1. ASSUME LoopInv, MembersInv, [Next]_vars, drift' = drift,
             NEW g \in GroupIDs, members'[g] # members[g]
      PROVE  \E w \in Workers :
              /\ mg[w].ext = g
              /\ \/ pc[w] = "delete" /\ members'[g] = {}
                 \/ pc[w] = "update" /\ (w \in stale \/ members'[g] = Meant(mg[w].spec))
  <2>1. LocalOK /\ drift \in Nat
    BY <1>1 DEF MembersInv, TypeOK, LocalOK
  <2>2. PICK w \in Workers : Write(w) \/ Delete(w)
    BY <1>1, <2>1, OnlyWrites
  <2>3. CASE Delete(w)
    BY <1>1, <2>1, <2>3, ReplaceFacts DEF Delete, At
  <2>4. CASE Write(w)
    <3>1. mg[w].ext = g /\ members'[g] = resolvedIDs(mg[w].spec, got[w])
      BY <1>1, <2>1, <2>4, ReplaceFacts DEF Write
    <3> QED BY <1>1, <2>4, <3>1, WriteFacts
  <2> QED BY <2>2, <2>3, <2>4
<1>2. LoopInv /\ MembersInv /\ [Next]_vars =>
        [\A g \in GroupIDs : members'[g] # members[g] =>
            drift' # drift \/ \E w \in Workers :
                /\ mg[w].ext = g
                /\ \/ pc[w] = "delete" /\ members'[g] = {}
                   \/ pc[w] = "update" /\ (w \in stale \/ members'[g] = Meant(mg[w].spec))]_vars
  BY <1>1
<1> QED BY <1>2, MembersInLoop, LoopInvariant, MembersInvariant, PTL DEF Spec, OnlyMeantMembers

\* An Update that finds nobody leaves the group as it is: only a deletion
\* empties it (usergroupmembers.go:209-213).
THEOREM NothingIsEmptied == Spec => NeverEmptied
<1>1. ASSUME LoopInv, MembersInv, [Next]_vars, drift' = drift,
             NEW g \in GroupIDs, members'[g] = {}, members[g] # {}
      PROVE  \E w \in Workers : pc[w] = "delete" /\ mg[w].ext = g
  <2>1. LocalOK /\ drift \in Nat /\ members'[g] # members[g]
    BY <1>1 DEF MembersInv, TypeOK, LocalOK
  <2>2. PICK w \in Workers : Write(w) \/ Delete(w)
    BY <1>1, <2>1, OnlyWrites
  <2>3. CASE Delete(w)
    BY <2>1, <2>3, ReplaceFacts DEF Delete, At
  <2>4. CASE Write(w)
    BY <1>1, <2>1, <2>4, ReplaceFacts, WriteFacts DEF Write
  <2> QED BY <2>2, <2>3, <2>4
<1>2. LoopInv /\ MembersInv /\ [Next]_vars =>
        [\A g \in GroupIDs : members'[g] = {} /\ members[g] # {} =>
            drift' # drift \/ \E w \in Workers : pc[w] = "delete" /\ mg[w].ext = g]_vars
  BY <1>1
<1> QED BY <1>2, MembersInLoop, LoopInvariant, MembersInvariant, PTL DEF Spec, NeverEmptied

\* Which comparison it takes for Observe to answer that the list is up to date.
LEMMA OnlyCompares ==
    ASSUME MRTypeOK, [Next]_vars, NEW w \in Workers, FindsUpToDate(w)
    PROVE  \E r : /\ LookupLast(w, r) /\ r \in Answers(w)
                  /\ setsEqual(mg[w].spec, r, seen[w])
<1>0. pc[w] = "observe" /\ pc'[w] # "observe"
  BY DEF FindsUpToDate
<1>1. MRTypeOK /\ pc \in [Workers -> Phases] /\ mg \in [Workers -> Object]
  BY DEF MRTypeOK, WorkerOK
<1>2. ASSUME UNCHANGED pc PROVE FALSE
  BY <1>0, <1>2
<1>3. ~KubernetesUsers
  BY <1>2 DEF KubernetesUsers, UserDeletes, UserEdits, UserCreates, EditOnly
<1>4. ~SlackUsers
  BY <1>2 DEF SlackUsers, SlackUserSetsMembers, DirectoryChanges, mrVars
<1>5. ~UNCHANGED vars
  BY <1>2 DEF vars, mrVars
<1>6. PICK v \in Workers : Reconcile(v) \/ Dies(v) \/ \E m \in MRs : Informer(v, m)
  BY <1>3, <1>4, <1>5 DEF Next
<1>7. \A m \in MRs : ~Informer(v, m)
  BY <1>2 DEF Informer, CacheSync
<1>8. v = w
  <2>1. Reconcile(v) => RuntimeStep(v) \/ ControllerStep(v)
    BY <1>2, ObserveIsStep, WriteIsStep DEF Reconcile, Runtime, mrVars
  <2>2. RuntimeStep(v) \/ ControllerStep(v) \/ Crash(v)
    BY <1>6, <1>7, <2>1 DEF Dies
  <2> QED BY <1>0, <1>1, <2>2, MovesAlone DEF MRTypeOK
<1>9. ASSUME NEW c \in Object, ObserveAnswers(w, "error", c) PROVE FALSE
  <2>1. mg'[w].synced # "ReconcileSuccess" /\ pc'[w] # "finalize"
    BY <1>1, <1>9 DEF ObserveAnswers, Report, Enter, Decide, Object
  <2> QED BY <2>1 DEF FindsUpToDate
<1>10. mg[w] \in Object /\ [mg[w] EXCEPT !.synced = "UserNotFound"] \in Object
  BY <1>1, GroupAssumption DEF Object, Reasons
<1>11. ~Dies(w) /\ ~Runtime(w)
  BY <1>0, <1>1 DEF Dies, Crash, Release, Enter, FindsUpToDate, Runtime, RuntimeStep, Start,
     Initialize, AddFinalizer, RemoveFinalizer, CreatePending, UpdateCritical, StatusUpdate
<1>12. ASSUME Connect(w) \/ ListUserGroupMembers(w) PROVE FALSE
  BY <1>2, <1>9, <1>12, <1>10 DEF Connect, ListUserGroupMembers, Goto, mrVars
<1>13. LookupInObserve(w)
  BY <1>0, <1>6, <1>7, <1>8, <1>11, <1>12
     DEF Reconcile, LookupInUpdate, Write, Delete, At
<1>14. PICK r \in Answers(w) : LookupLast(w, r) /\ Compare(w, r)
  BY <1>2, <1>9, <1>13, <1>10 DEF LookupInObserve, LookupMore, mrVars
<1>15. ASSUME NEW c \in Object, ObserveAnswers(w, "drifted", c)
       PROVE  FALSE
  <2>1. CASE pc' = [pc EXCEPT ![w] = "finalize"] /\ obs' = [obs EXCEPT ![w] = "drifted"]
    BY <1>1, <2>1 DEF FindsUpToDate, MRTypeOK, WorkerOK
  <2>2. CASE Enter(w, cur[w], c, "delete") \/ Enter(w, cur[w], c, "update")
    BY <1>1, <2>2 DEF FindsUpToDate, Enter
  <2> QED BY <1>15, <2>1, <2>2 DEF ObserveAnswers, Decide
<1> QED BY <1>14, <1>15, <1>10 DEF Compare

\* Observe answers that the list is up to date only if Slack listed exactly the
\* users whom the spec stands for (setsEqual, usergroupmembers.go:279-299).
THEOREM UpToDateListsAreExact == Spec => UpToDateIsExact
<1>1. ASSUME LoopInv, MembersInv, [Next]_vars, NEW w \in Workers \ stale, FindsUpToDate(w)
      PROVE  seen[w] = Meant(mg[w].spec)
  <2>1. PICK r : LookupLast(w, r) /\ setsEqual(mg[w].spec, r, seen[w])
    BY <1>1, OnlyCompares DEF LoopInv
  <2>2. mg[w].spec \subseteq Emails
    BY <1>1, SpecIsEmails DEF FindsUpToDate
  <2>3. LocalInv
    BY <1>1 DEF MembersInv, TypeOK, LocalInv, LocalOK
  <2>4. \A e \in mg[w].spec : r[e] = dir[e] /\ dir[e] \in Users \cup {NoUser}
    BY <2>1, <2>2, <2>3, LookupAnswer DEF LookupLast, LocalInv, LocalOK
  <2> QED BY <2>1, <2>4, GroupAssumption DEF setsEqual, resolvedIDs, Found, Meant
<1>2. LoopInv /\ MembersInv /\ [Next]_vars =>
        [\A w \in Workers \ stale : FindsUpToDate(w) => seen[w] = Meant(mg[w].spec)]_vars
  BY <1>1
<1> QED BY <1>2, MembersInLoop, LoopInvariant, MembersInvariant, PTL DEF Spec, UpToDateIsExact
=============================================================================
