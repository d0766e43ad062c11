----------------------- MODULE ManagedReconcilerProofs -----------------------
(***************************************************************************)
(* Type correctness of the reconcile loop, and exclusion of its Create     *)
(* section, for every number of replicas and resources and for every       *)
(* controller.                                                             *)
(***************************************************************************)
EXTENDS ManagedReconciler, TLAPS

-----------------------------------------------------------------------------
(* Lemmas about the building blocks of the actions *)

LEMMA BlankType == Blank \in Object
  BY DEF Blank, Object, CreateStates, Reasons

\* Changing fields of an object gives an object.
LEMMA ObjectFields ==
    ASSUME NEW o \in Object
    PROVE  /\ \A r \in Reasons : [o EXCEPT !.synced = r] \in Object
           /\ \A e \in ExtNames \cup {NoExt} : [o EXCEPT !.ext = e] \in Object
           /\ \A s \in CreateStates : [o EXCEPT !.create = s] \in Object
           /\ \A s \in Specs : [o EXCEPT !.spec = s] \in Object
           /\ \A b \in BOOLEAN : [o EXCEPT !.fin = b] \in Object /\ [o EXCEPT !.del = b] \in Object
           /\ \A r \in Reasons : [o EXCEPT !.fin = TRUE, !.synced = r] \in Object
           /\ \A s \in CreateStates, r \in Reasons : [o EXCEPT !.create = s, !.synced = r] \in Object
           /\ \A s \in CreateStates, e \in ExtNames \cup {NoExt} :
                 [o EXCEPT !.ext = e, !.create = s] \in Object
           /\ \A e \in ExtNames \cup {NoExt}, r \in Reasons :
                 [o EXCEPT !.ext = e, !.synced = r] \in Object
           /\ \A e \in ExtNames \cup {NoExt}, s \in Specs :
                 [o EXCEPT !.exists = TRUE, !.spec = s, !.ext = e] \in Object
           /\ o.synced \in Reasons /\ o.create \in CreateStates
           /\ o.ext \in ExtNames \cup {NoExt} /\ o.exists \in BOOLEAN
           /\ o.fin \in BOOLEAN /\ o.del \in BOOLEAN
           /\ o.exists => o.spec \in Specs
  BY DEF Object

LEMMA Constants ==
    /\ {"none", "ReconcileSuccess", "ReconcileError"} \subseteq Reasons
    /\ ConditionReasons \subseteq Reasons
    /\ {"none", "pending", "failed", "succeeded"} = CreateStates
  BY DEF Reasons, CreateStates

LEMMA EnterType ==
    ASSUME WorkerOK, NEW w \in Workers, NEW m \in MRs \cup {NoMR}, NEW o \in Object,
           NEW p \in Phases, p # "idle" => m \in MRs, Enter(w, m, o, p)
    PROVE  WorkerOK'
  BY DEF WorkerOK, Enter, Observations

LEMMA ReleaseType ==
    ASSUME WorkerOK, NEW w \in Workers, Release(w)
    PROVE  WorkerOK'
  BY EnterType, BlankType DEF Release, Phases

LEMMA ReportType ==
    ASSUME WorkerOK, NEW w \in Workers, pc[w] # "idle", NEW o \in Object,
           NEW r \in Reasons, Report(w, o, r)
    PROVE  WorkerOK'
<1>1. cur[w] \in MRs /\ [o EXCEPT !.synced = r] \in Object /\ "status" \in Phases
  BY ObjectFields DEF WorkerOK, Phases
<1> QED BY <1>1, EnterType DEF Report

LEMMA PassGateType ==
    ASSUME WorkerOK, NEW w \in Workers, NEW m \in MRs, NEW o \in Object, PassGate(w, m, o)
    PROVE  WorkerOK'
<1>1. [o EXCEPT !.synced = "ReconcileError"] \in Object
  BY ObjectFields, Constants
<1> QED BY <1>1, EnterType DEF PassGate, Phases

LEMMA DecideType ==
    ASSUME WorkerOK, NEW w \in Workers, pc[w] # "idle", NEW o \in Observations,
           NEW c \in Object, Decide(w, o, c)
    PROVE  WorkerOK'
<1>1. cur[w] \in MRs
  BY DEF WorkerOK
<1> QED BY <1>1, EnterType, ReportType, Constants DEF Decide, Phases

LEMMA StoreType ==
    ASSUME ApiOK, NEW m \in MRs, NEW o \in Object, Store(m, o)
    PROVE  ApiOK'
  BY DEF ApiOK, Store

LEMMA StoreByUserType ==
    ASSUME ApiOK, fresh \in SUBSET Workers, NEW m \in MRs, NEW o \in Object, StoreByUser(m, o)
    PROVE  ApiOK' /\ fresh' \in SUBSET Workers
  BY StoreType DEF StoreByUser

LEMMA StoreByType ==
    ASSUME ApiOK, fresh \in SUBSET Workers, NEW w \in Workers, cur[w] \in MRs,
           NEW o \in Object, StoreBy(w, o)
    PROVE  ApiOK' /\ fresh' \in SUBSET Workers
  BY StoreType DEF StoreBy

LEMMA FaultType ==
    ASSUME faults \in 0 .. MaxFaults, Fault \/ UNCHANGED faults
    PROVE  faults' \in 0 .. MaxFaults
  BY BoundsAssumption DEF Fault

LEMMA WriteFailsType ==
    ASSUME ApiOK, WorkerOK, RestOK, NEW w \in Workers, pc[w] # "idle", WriteFails(w)
    PROVE  ApiOK' /\ WorkerOK' /\ fresh' \in SUBSET Workers /\ faults' \in 0 .. MaxFaults
<1>1. mg[w] \in Object /\ "ReconcileError" \in Reasons
  BY Constants DEF WorkerOK
<1>2. WorkerOK'
  BY <1>1, ReleaseType, ReportType DEF WriteFails
<1>3. faults' \in 0 .. MaxFaults
  BY FaultType DEF WriteFails, RestOK
<1> QED BY <1>2, <1>3 DEF WriteFails, ApiOK, RestOK

-----------------------------------------------------------------------------
(* Type correctness *)

LEMMA RuntimeStepType ==
    ASSUME MRTypeOK, NEW w \in Workers, RuntimeStep(w)
    PROVE  MRTypeOK'
<1> USE DEF MRTypeOK
<1>0. /\ mg[w] \in Object
      /\ pc[w] # "idle" => cur[w] \in MRs /\ api[cur[w]] \in Object
  BY DEF WorkerOK, ApiOK
<1>1. ASSUME NEW m \in MRs, Start(w, m) PROVE MRTypeOK'
  <2>1. cache[w][m] \in Object
    BY DEF RestOK
  <2>2. WorkerOK'
    BY <1>1, <2>1, EnterType, PassGateType DEF Start, Phases
  <2>3. ApiOK' /\ RestOK'
    BY <1>1 DEF Start, ApiOK, RestOK
  <2> QED BY <2>2, <2>3
<1>2. CASE Initialize(w)
  <2> DEFINE o == [mg[w] EXCEPT !.ext = MetaName[cur[w]]]
  <2>1. pc[w] # "idle" /\ cur[w] \in MRs /\ o \in Object
    BY <1>0, <1>2, ObjectFields, NamesAssumption DEF Initialize
  <2>2. CASE StoreBy(w, o) /\ PassGate(w, cur[w], o) /\ UNCHANGED faults
    BY <1>2, <2>1, <2>2, StoreByType, PassGateType DEF Initialize, RestOK
  <2>3. CASE WriteFails(w)
    BY <1>2, <2>1, <2>3, WriteFailsType DEF Initialize, RestOK
  <2> QED BY <1>2, <2>2, <2>3 DEF Initialize
<1>3. CASE AddFinalizer(w)
  <2> DEFINE o == [mg[w] EXCEPT !.fin = TRUE, !.synced = api[cur[w]].synced]
  <2>1. pc[w] # "idle" /\ cur[w] \in MRs /\ o \in Object /\ obs[w] \in Observations
    BY <1>0, <1>3, ObjectFields DEF AddFinalizer, WorkerOK
  <2>2. CASE StoreBy(w, o) /\ Decide(w, obs[w], o) /\ UNCHANGED faults
    BY <1>3, <2>1, <2>2, StoreByType, DecideType DEF AddFinalizer, RestOK
  <2>3. CASE WriteFails(w)
    BY <1>3, <2>1, <2>3, WriteFailsType DEF AddFinalizer, RestOK
  <2> QED BY <1>3, <2>2, <2>3 DEF AddFinalizer
<1>4. CASE RemoveFinalizer(w)
  <2>1. pc[w] # "idle" /\ cur[w] \in MRs
    BY <1>0, <1>4 DEF RemoveFinalizer
  <2>2. CASE StoreByUser(cur[w], Blank) /\ Release(w) /\ UNCHANGED faults
    BY <1>4, <2>1, <2>2, StoreByUserType, ReleaseType, BlankType DEF RemoveFinalizer, RestOK
  <2>3. CASE WriteFails(w)
    BY <1>4, <2>1, <2>3, WriteFailsType DEF RemoveFinalizer, RestOK
  <2> QED BY <1>4, <2>2, <2>3 DEF RemoveFinalizer
<1>5. CASE CreatePending(w)
  <2> DEFINE o == [mg[w] EXCEPT !.create = "pending", !.synced = api[cur[w]].synced]
  <2>1. pc[w] # "idle" /\ cur[w] \in MRs /\ o \in Object
    BY <1>0, <1>5, ObjectFields, Constants DEF CreatePending
  <2>2. CASE StoreBy(w, o) /\ Enter(w, cur[w], o, "create") /\ UNCHANGED faults
    BY <1>5, <2>1, <2>2, StoreByType, EnterType DEF CreatePending, RestOK, Phases
  <2>3. CASE WriteFails(w)
    BY <1>5, <2>1, <2>3, WriteFailsType DEF CreatePending, RestOK
  <2> QED BY <1>5, <2>2, <2>3 DEF CreatePending
<1>6. CASE UpdateCritical(w)
  <2> DEFINE o == [api[cur[w]] EXCEPT !.ext = mg[w].ext, !.create = mg[w].create]
             r == IF mg[w].create = "succeeded" THEN "ReconcileSuccess" ELSE "ReconcileError"
  <2>1. pc[w] # "idle" /\ cur[w] \in MRs /\ o \in Object /\ r \in Reasons
        /\ "ReconcileError" \in Reasons
    BY <1>0, <1>6, ObjectFields, Constants DEF UpdateCritical
  <2>2. CASE StoreBy(w, o) /\ Report(w, o, r) /\ UNCHANGED faults
    BY <1>6, <2>1, <2>2, StoreByType, ReportType DEF UpdateCritical, RestOK
  <2>3. CASE Fault /\ Report(w, mg[w], "ReconcileError") /\ UNCHANGED <<api, current, fresh>>
    BY <1>0, <1>6, <2>1, <2>3, ReportType, FaultType DEF UpdateCritical, ApiOK, RestOK
  <2> QED BY <1>6, <2>2, <2>3 DEF UpdateCritical
<1>7. CASE StatusUpdate(w)
  <2>1. /\ pc[w] # "idle" /\ cur[w] \in MRs
        /\ [api[cur[w]] EXCEPT !.synced = mg[w].synced] \in Object
    BY <1>0, <1>7, ObjectFields DEF StatusUpdate
  <2>2. WorkerOK'
    BY <1>7, ReleaseType DEF StatusUpdate
  <2>3. ApiOK' /\ fresh' \in SUBSET Workers
    BY <1>7, <2>1, StoreByUserType DEF StatusUpdate, ApiOK, RestOK
  <2>4. faults' \in 0 .. MaxFaults
    BY <1>7, FaultType DEF StatusUpdate, RestOK
  <2> QED BY <1>7, <2>2, <2>3, <2>4 DEF StatusUpdate, RestOK
<1> QED BY <1>1, <1>2, <1>3, <1>4, <1>5, <1>6, <1>7 DEF RuntimeStep

LEMMA ControllerStepType ==
    ASSUME MRTypeOK, NEW w \in Workers, ControllerStep(w)
    PROVE  MRTypeOK'
<1> USE DEF MRTypeOK
<1>1. faults' \in 0 .. MaxFaults
  BY FaultType DEF ControllerStep, RestOK
<1>2. ASSUME Calls, WorkerOK' PROVE MRTypeOK'
  BY <1>1, <1>2 DEF Calls, ApiOK, RestOK
<1>3. mg[w] \in Object /\ (pc[w] # "idle" => cur[w] \in MRs)
  BY DEF WorkerOK
<1>4. ASSUME NEW e \in NamesFor(w), NEW r \in ReasonsFor(w)
      PROVE  [mg[w] EXCEPT !.ext = e, !.synced = r] \in Object
  BY <1>3, ObjectFields, Constants DEF NamesFor, ReasonsFor
<1>5. ASSUME NEW e \in NamesFor(w), NameInObserve(w, e) \/ NameInCreate(w, e) PROVE MRTypeOK'
  <2>1. [mg[w] EXCEPT !.ext = e] \in Object
    BY <1>3, ObjectFields DEF NamesFor
  <2>2. mg' = [mg EXCEPT ![w] = [mg[w] EXCEPT !.ext = e]]
    BY <1>5 DEF NameInObserve, NameInCreate
  <2>3. Calls /\ UNCHANGED <<cur, obs, pc>>
    BY <1>5 DEF NameInObserve, NameInCreate
  <2> QED BY <1>2, <2>1, <2>2, <2>3 DEF WorkerOK
<1>6. ASSUME NEW o \in Observations, NEW c \in Object, ObserveAnswers(w, o, c) PROVE MRTypeOK'
  <2>1. Calls /\ pc[w] # "idle"
    BY <1>6 DEF ObserveAnswers
  <2>2. CASE o = "error" /\ Report(w, c, "ReconcileError")
    BY <1>2, <2>1, <2>2, ReportType, Constants
  <2>3. CASE Enter(w, cur[w], c, "unfinalize") \/ Enter(w, cur[w], c, "delete")
    BY <1>2, <1>3, <2>1, <2>3, EnterType DEF Phases
  <2>4. CASE Decide(w, o, c)
    BY <1>2, <2>1, <2>4, DecideType
  <2>5. CASE /\ pc' = [pc EXCEPT ![w] = "finalize"] /\ mg' = [mg EXCEPT ![w] = c]
             /\ obs' = [obs EXCEPT ![w] = o] /\ UNCHANGED cur
    BY <1>2, <1>3, <2>1, <2>5 DEF WorkerOK, Phases
  <2> QED BY <1>6, <2>2, <2>3, <2>4, <2>5 DEF ObserveAnswers
<1>7. ASSUME NEW ok \in BOOLEAN, NEW c \in Object, CreateReturns(w, ok, c) PROVE MRTypeOK'
  <2>1. [c EXCEPT !.create = IF ok THEN "succeeded" ELSE "failed"] \in Object
    BY ObjectFields, Constants
  <2> QED BY <1>2, <1>3, <1>7, <2>1, EnterType DEF CreateReturns, Phases
<1>8. ASSUME NEW ok \in BOOLEAN, CallReturns(w, ok) PROVE MRTypeOK'
  BY <1>2, <1>3, <1>8, ReportType, Constants DEF CallReturns
<1> QED BY <1>4, <1>5, <1>6, <1>7, <1>8 DEF ControllerStep

LEMMA EnvironmentStepType ==
    ASSUME MRTypeOK, EnvironmentStep
    PROVE  MRTypeOK'
<1> USE DEF MRTypeOK
<1>1. ASSUME NEW w \in Workers, Crash(w) PROVE MRTypeOK'
  BY <1>1, ReleaseType, BoundsAssumption DEF Crash, ApiOK, RestOK
<1>2. ASSUME NEW w \in Workers, NEW m \in MRs, CacheSync(w, m) PROVE MRTypeOK'
  BY <1>2 DEF CacheSync, ApiOK, RestOK, WorkerOK
<1>3. ASSUME NEW m \in MRs, NEW o \in Object, Edit, EditOnly, StoreByUser(m, o) PROVE MRTypeOK'
  <2>1. ApiOK' /\ fresh' \in SUBSET Workers
    BY <1>3, StoreByUserType DEF RestOK
  <2> QED BY <1>3, <2>1, BoundsAssumption DEF Edit, EditOnly, RestOK, WorkerOK
<1>4. \A m \in MRs : api[m] \in Object
  BY DEF ApiOK
<1>5. ASSUME NEW m \in MRs, UserDeletes(m) PROVE MRTypeOK'
  BY <1>3, <1>4, <1>5, ObjectFields, BlankType DEF UserDeletes
<1>6. ASSUME NEW m \in MRs, NEW s \in Specs, UserEdits(m, s) PROVE MRTypeOK'
  BY <1>3, <1>4, <1>6, ObjectFields DEF UserEdits
<1>7. ASSUME NEW m \in MRs, NEW s \in Specs, NEW e \in ExtNames \cup {NoExt}, UserCreates(m, s, e)
      PROVE  MRTypeOK'
  BY <1>3, <1>7, ObjectFields, BlankType DEF UserCreates
<1> QED BY <1>1, <1>2, <1>5, <1>6, <1>7 DEF EnvironmentStep

LEMMA MRTypeInit == MRInit => MRTypeOK
  BY BlankType, BoundsAssumption
     DEF MRInit, MRTypeOK, ApiOK, WorkerOK, RestOK, Observations, Phases

LEMMA MRTypeStep ==
    ASSUME MRTypeOK, [MRNext]_mrVars
    PROVE  MRTypeOK'
<1>1. CASE UNCHANGED mrVars
  BY <1>1 DEF mrVars, MRTypeOK, ApiOK, WorkerOK, RestOK
<1> QED BY <1>1, RuntimeStepType, ControllerStepType, EnvironmentStepType DEF MRNext

\* Every variable of the loop keeps its type, whatever a controller answers.
THEOREM MRTypeCorrect == MRSpec => []MRTypeOK
<1>1. MRTypeOK /\ [MRNext]_mrVars => MRTypeOK'
  BY MRTypeStep
<1> QED BY <1>1, MRTypeInit, PTL DEF MRSpec

-----------------------------------------------------------------------------
(* Exclusion of the Create section *)

LEMMA LoopInit == MRInit => LoopInv
  BY BlankType, BoundsAssumption
     DEF MRInit, LoopInv, CacheInv, WorkerInv, CreateExclusive, InCreate, Passed,
         MRTypeOK, ApiOK, WorkerOK, RestOK, Observations, Phases

\* A worker that does not move keeps its invariant, if no object it may write
\* over or create for changes under it.
LEMMA OtherKeeps ==
    ASSUME NEW v \in Workers, WorkerInv(v),
           pc'[v] = pc[v], cur'[v] = cur[v], mg'[v] = mg[v],
           v \in fresh' => v \in fresh /\ api'[cur[v]] = api[cur[v]],
           InCreate(v) => \/ api'[cur[v]] = api[cur[v]]
                          \/ /\ api'[cur[v]].exists /\ api'[cur[v]].fin
                             /\ api'[cur[v]].create = "pending"
    PROVE  WorkerInv(v)'
  BY DEF WorkerInv, InCreate, Agrees

\* Entering a phase leaves the other workers alone.
LEMMA EnterOthers ==
    ASSUME WorkerOK, NEW w \in Workers, NEW m, NEW o, NEW p, Enter(w, m, o, p)
    PROVE  /\ pc'[w] = p /\ cur'[w] = m /\ mg'[w] = o
           /\ \A v \in Workers \ {w} :
                 pc'[v] = pc[v] /\ cur'[v] = cur[v] /\ mg'[v] = mg[v] /\ obs'[v] = obs[v]
  BY DEF WorkerOK, Enter

\* A step of w moves no other worker.
LEMMA MovesAlone ==
    ASSUME WorkerOK, NEW w \in Workers, RuntimeStep(w) \/ ControllerStep(w) \/ Crash(w),
           NEW v \in Workers \ {w}
    PROVE  pc'[v] = pc[v] /\ cur'[v] = cur[v] /\ mg'[v] = mg[v] /\ obs'[v] = obs[v]
<1>1. CASE \E m, o, p : Enter(w, m, o, p)
  BY <1>1, EnterOthers
<1>2. CASE \E e : NameInObserve(w, e) \/ NameInCreate(w, e)
  BY <1>2 DEF WorkerOK, NameInObserve, NameInCreate
<1>3. CASE \E o, c : ObserveAnswers(w, o, c)
  <2>1. PICK o, c : ObserveAnswers(w, o, c)
    BY <1>3
  <2>2. CASE pc' = [pc EXCEPT ![w] = "finalize"] /\ mg' = [mg EXCEPT ![w] = c]
             /\ obs' = [obs EXCEPT ![w] = o] /\ UNCHANGED cur
    BY <2>2 DEF WorkerOK
  <2> QED BY <1>1, <2>1, <2>2 DEF ObserveAnswers, Report, Decide
<1>4. CASE RuntimeStep(w)
  BY <1>1, <1>4 DEF RuntimeStep, Start, PassGate, Initialize, WriteFails, Release, Report,
                    AddFinalizer, Decide, RemoveFinalizer, CreatePending, UpdateCritical,
                    StatusUpdate
<1>5. CASE ControllerStep(w)
  BY <1>1, <1>2, <1>3, <1>5 DEF ControllerStep, CreateReturns, CallReturns, Report
<1>6. CASE Crash(w)
  BY <1>1, <1>6 DEF Crash, Release
<1> QED BY <1>4, <1>5, <1>6

\* A write changes one object, and makes every cached copy of it old.
LEMMA StoreCache ==
    ASSUME ApiOK, CacheInv, UNCHANGED cache, NEW m \in MRs, NEW o, Store(m, o)
    PROVE  CacheInv' /\ api'[m] = o /\ \A n \in MRs \ {m} : api'[n] = api[n]
  BY DEF ApiOK, CacheInv, Store

\* A step of w that writes nothing and changes no freshness but its own.
LEMMA QuietStep ==
    ASSUME LoopInv, MRTypeOK', NEW w \in Workers,
           NEW m, NEW o, NEW p, Enter(w, m, o, p),
           UNCHANGED <<api, cache, current>>,
           \A v \in Workers \ {w} : v \in fresh' => v \in fresh,
           WorkerInv(w)', InCreate(w)' => InCreate(w) /\ cur'[w] = cur[w]
    PROVE  LoopInv'
<1>1. \A v \in Workers \ {w} : pc'[v] = pc[v] /\ cur'[v] = cur[v] /\ mg'[v] = mg[v]
  BY EnterOthers DEF LoopInv, MRTypeOK
<1>2. \A v \in Workers \ {w} : WorkerInv(v)'
  BY <1>1, OtherKeeps DEF LoopInv
<1>3. CreateExclusive'
  BY <1>1 DEF LoopInv, CreateExclusive, InCreate
<1> QED BY <1>2, <1>3 DEF LoopInv, CacheInv

\* A step in which w stores o over the object it works on.
LEMMA WriteStep ==
    ASSUME LoopInv, MRTypeOK', NEW w \in Workers, cur[w] \in MRs,
           NEW n, NEW c, NEW p, Enter(w, n, c, p),
           NEW o, Store(cur[w], o), UNCHANGED cache,
           \A v \in Workers \ {w} : v \in fresh' => v \in fresh /\ cur[v] # cur[w],
           \A v \in Workers \ {w} : (InCreate(v) /\ cur[v] = cur[w])
               => o.exists /\ o.fin /\ o.create = "pending",
           WorkerInv(w)',
           InCreate(w)' => /\ cur'[w] = cur[w]
                           /\ \A v \in Workers \ {w} : InCreate(v) => cur[v] # cur[w]
    PROVE  LoopInv'
<1>1. \A v \in Workers \ {w} : pc'[v] = pc[v] /\ cur'[v] = cur[v] /\ mg'[v] = mg[v]
  BY EnterOthers DEF LoopInv, MRTypeOK
<1>2. CacheInv' /\ api'[cur[w]] = o /\ \A m \in MRs \ {cur[w]} : api'[m] = api[m]
  BY StoreCache DEF LoopInv, MRTypeOK
<1>3. ASSUME NEW v \in Workers \ {w} PROVE WorkerInv(v)'
  <2>1. WorkerInv(v) /\ (pc[v] # "idle" => cur[v] \in MRs)
    BY DEF LoopInv, MRTypeOK, WorkerOK
  <2>2. v \in fresh' => v \in fresh /\ api'[cur[v]] = api[cur[v]]
    BY <1>2, <2>1 DEF WorkerInv
  <2>3. InCreate(v) => \/ api'[cur[v]] = api[cur[v]]
                       \/ /\ api'[cur[v]].exists /\ api'[cur[v]].fin
                          /\ api'[cur[v]].create = "pending"
    BY <1>2, <2>1 DEF InCreate
  <2> QED BY <1>1, <2>1, <2>2, <2>3, OtherKeeps
<1>4. CreateExclusive'
  BY <1>1 DEF LoopInv, CreateExclusive, InCreate
<1> QED BY <1>2, <1>3, <1>4 DEF LoopInv

\* Nobody creates an object that the latest copy of a worker past the gate, or
\* the worker in its Create section, works on.
LEMMA NobodyElseCreates ==
    ASSUME LoopInv, NEW w \in Workers,
           \/ InCreate(w)
           \/ w \in fresh /\ pc[w] \in Passed
           \/ w \in fresh /\ pc[w] = "init" /\ mg[w].create # "pending"
    PROVE  \A v \in Workers \ {w} : InCreate(v) => cur[v] # cur[w]
<1>1. CASE InCreate(w)
  BY <1>1 DEF LoopInv, CreateExclusive
<1>2. CASE w \in fresh /\ pc[w] \in Passed \cup {"init"} /\ mg[w].create # "pending"
  BY <1>2 DEF LoopInv, WorkerInv, Agrees
<1> QED BY <1>1, <1>2 DEF LoopInv, WorkerInv

\* A worker that reports or leaves has nothing left to keep.
LEMMA ReportInv ==
    ASSUME WorkerOK, NEW w \in Workers, NEW m, NEW o, Enter(w, m, o, "status")
    PROVE  WorkerInv(w)' /\ ~InCreate(w)'
  BY EnterOthers DEF WorkerInv, InCreate, Passed

LEMMA ReleaseInv ==
    ASSUME WorkerOK, NEW w \in Workers, Release(w), w \notin fresh'
    PROVE  WorkerInv(w)' /\ ~InCreate(w)'
  BY EnterOthers DEF Release, WorkerInv, InCreate, Passed

LEMMA WriteFailsInv ==
    ASSUME LoopInv, MRTypeOK', NEW w \in Workers, WriteFails(w), UNCHANGED cache
    PROVE  LoopInv'
<1>0. WorkerOK
  BY DEF LoopInv, MRTypeOK
<1>1. UNCHANGED <<api, cache, current, fresh>>
  BY DEF WriteFails
<1>2. CASE w \notin fresh /\ Release(w)
  BY <1>0, <1>1, <1>2, ReleaseInv, QuietStep DEF Release
<1>3. CASE Report(w, mg[w], "ReconcileError")
  BY <1>0, <1>1, <1>3, ReportInv, QuietStep DEF Report
<1> QED BY <1>2, <1>3 DEF WriteFails

LEMMA RuntimeStepInv ==
    ASSUME LoopInv, MRTypeOK', NEW w \in Workers, RuntimeStep(w)
    PROVE  LoopInv'
<1>0. /\ WorkerOK /\ WorkerInv(w) /\ mg[w] \in Object
      /\ pc[w] # "idle" => cur[w] \in MRs /\ api[cur[w]] \in Object
  BY DEF LoopInv, MRTypeOK, WorkerOK, ApiOK
<1>1. ASSUME NEW m \in MRs, Start(w, m) PROVE LoopInv'
  <2> DEFINE c == cache[w][m]
             r == [c EXCEPT !.synced = "ReconcileError"]
  <2>1. c \in Object /\ c.exists /\ (m \in current[w] => c = api[m])
    BY <1>1 DEF Start, LoopInv, MRTypeOK, RestOK, CacheInv
  <2>2. w \in fresh' => m \in current[w]
    BY <1>0, <1>1 DEF Start, WorkerInv
  <2>3. UNCHANGED <<api, cache, current>>
        /\ \A v \in Workers \ {w} : v \in fresh' => v \in fresh
    BY <1>1 DEF Start
  <2>4. CASE Enter(w, m, c, "init") \/ (Enter(w, m, c, "observe") /\ c.create # "pending")
    <3>1. WorkerInv(w)' /\ ~InCreate(w)'
      BY <1>0, <2>1, <2>2, <2>3, <2>4, EnterOthers DEF WorkerInv, Agrees, InCreate, Passed
    <3> QED BY <2>3, <2>4, <3>1, QuietStep
  <2>5. CASE Enter(w, m, r, "status")
    BY <1>0, <2>3, <2>5, ReportInv, QuietStep
  <2> QED BY <1>1, <2>4, <2>5 DEF Start, PassGate
<1>2. CASE Initialize(w)
  <2> DEFINE o == [mg[w] EXCEPT !.ext = MetaName[cur[w]]]
             r == [o EXCEPT !.synced = "ReconcileError"]
  <2>1. CASE w \in fresh /\ StoreBy(w, o) /\ PassGate(w, cur[w], o)
    <3>1. /\ Store(cur[w], o) /\ UNCHANGED cache /\ pc[w] = "init" /\ cur[w] \in MRs
          /\ \A v \in Workers \ {w} : v \in fresh' => v \in fresh /\ cur[v] # cur[w]
      BY <1>0, <1>2, <2>1 DEF Initialize, StoreBy
    <3>2. /\ o.exists = mg[w].exists /\ o.del = mg[w].del /\ o.fin = mg[w].fin
          /\ o.create = mg[w].create /\ o.spec = mg[w].spec
      BY <1>0 DEF Object
    <3>3. api'[cur[w]] = o
      BY <3>1, StoreCache DEF LoopInv, MRTypeOK
    <3>4. mg[w].exists /\ Agrees(w)
      BY <1>0, <2>1, <3>1 DEF WorkerInv
    <3>5. \A v \in Workers \ {w} : (InCreate(v) /\ cur[v] = cur[w])
               => o.exists /\ o.fin /\ o.create = "pending"
      BY <3>2, <3>4 DEF Agrees, LoopInv, WorkerInv
    <3>6. CASE o.create # "pending" /\ Enter(w, cur[w], o, "observe")
      <4>0. pc'[w] = "observe" /\ cur'[w] = cur[w] /\ mg'[w] = o
        BY <1>0, <3>6, EnterOthers
      <4> HIDE DEF o
      <4>1. WorkerInv(w)' /\ ~InCreate(w)'
        BY <3>2, <3>3, <3>4, <3>6, <4>0 DEF WorkerInv, Agrees, InCreate, Passed
      <4> QED BY <3>1, <3>5, <3>6, <4>1, WriteStep
    <3>7. CASE Enter(w, cur[w], r, "status")
      BY <1>0, <3>1, <3>5, <3>7, ReportInv, WriteStep
    <3> QED BY <2>1, <3>6, <3>7 DEF PassGate
  <2>2. CASE WriteFails(w)
    BY <1>2, <2>2, WriteFailsInv DEF Initialize
  <2> QED BY <1>2, <2>1, <2>2 DEF Initialize
<1>3. CASE AddFinalizer(w)
  <2> DEFINE o == [mg[w] EXCEPT !.fin = TRUE, !.synced = api[cur[w]].synced]
  <2>1. CASE w \in fresh /\ StoreBy(w, o) /\ Decide(w, obs[w], o)
    <3>1. /\ Store(cur[w], o) /\ UNCHANGED cache /\ pc[w] = "finalize" /\ cur[w] \in MRs
          /\ \A v \in Workers \ {w} : v \in fresh' => v \in fresh /\ cur[v] # cur[w]
      BY <1>0, <1>3, <2>1 DEF AddFinalizer, StoreBy
    <3>2. /\ o.exists = mg[w].exists /\ o.del = mg[w].del /\ o.fin
          /\ o.create = mg[w].create /\ o.spec = mg[w].spec
      BY <1>0 DEF Object
    <3>3. api'[cur[w]] = o
      BY <3>1, StoreCache DEF LoopInv, MRTypeOK
    <3>4. mg[w].exists /\ mg[w].create # "pending"
      BY <1>0, <3>1 DEF WorkerInv, Passed
    <3>5. \A v \in Workers \ {w} : InCreate(v) => cur[v] # cur[w]
      BY <2>1, <3>1, NobodyElseCreates DEF Passed
    <3>6. CASE Enter(w, cur[w], o, "pending") \/ Enter(w, cur[w], o, "update")
      <4>0. pc'[w] \in {"pending", "update"} /\ cur'[w] = cur[w] /\ mg'[w] = o
        BY <1>0, <3>6, EnterOthers
      <4> HIDE DEF o
      <4>1. WorkerInv(w)' /\ ~InCreate(w)'
        BY <3>2, <3>3, <3>4, <4>0 DEF WorkerInv, Agrees, InCreate, Passed
      <4> QED BY <3>1, <3>5, <3>6, <4>1, WriteStep
    <3>7. CASE Report(w, o, "ReconcileSuccess")
      BY <1>0, <3>1, <3>5, <3>7, ReportInv, WriteStep DEF Report
    <3> QED BY <2>1, <3>6, <3>7 DEF Decide
  <2>2. CASE WriteFails(w)
    BY <1>3, <2>2, WriteFailsInv DEF AddFinalizer
  <2> QED BY <1>3, <2>1, <2>2 DEF AddFinalizer
<1>4. CASE RemoveFinalizer(w)
  <2>1. CASE w \in fresh /\ StoreByUser(cur[w], Blank) /\ Release(w)
    <3>1. /\ Store(cur[w], Blank) /\ UNCHANGED cache /\ pc[w] = "unfinalize" /\ cur[w] \in MRs
          /\ \A v \in Workers \ {w} : v \in fresh' => v \in fresh /\ cur[v] # cur[w]
          /\ w \notin fresh'
      BY <1>0, <1>4, <2>1 DEF RemoveFinalizer, StoreByUser
    <3>2. \A v \in Workers \ {w} : InCreate(v) => cur[v] # cur[w]
      BY <2>1, <3>1, NobodyElseCreates DEF Passed
    <3>3. WorkerInv(w)' /\ ~InCreate(w)'
      BY <1>0, <2>1, <3>1, ReleaseInv
    <3> QED BY <2>1, <3>1, <3>2, <3>3, WriteStep DEF Release
  <2>2. CASE WriteFails(w)
    BY <1>4, <2>2, WriteFailsInv DEF RemoveFinalizer
  <2> QED BY <1>4, <2>1, <2>2 DEF RemoveFinalizer
<1>5. CASE CreatePending(w)
  <2> DEFINE o == [mg[w] EXCEPT !.create = "pending", !.synced = api[cur[w]].synced]
  <2>1. CASE w \in fresh /\ StoreBy(w, o) /\ Enter(w, cur[w], o, "create")
    <3>1. /\ Store(cur[w], o) /\ UNCHANGED cache /\ pc[w] = "pending" /\ cur[w] \in MRs
          /\ \A v \in Workers \ {w} : v \in fresh' => v \in fresh /\ cur[v] # cur[w]
      BY <1>0, <1>5, <2>1 DEF CreatePending, StoreBy
    <3>2. o.exists /\ o.fin /\ o.create = "pending"
      BY <1>0, <3>1 DEF Object, WorkerInv, Passed
    <3>3. api'[cur[w]] = o
      BY <3>1, StoreCache DEF LoopInv, MRTypeOK
    <3>4. \A v \in Workers \ {w} : InCreate(v) => cur[v] # cur[w]
      BY <2>1, <3>1, NobodyElseCreates DEF Passed
    <3>5. WorkerInv(w)' /\ cur'[w] = cur[w]
      <4>1. pc'[w] = "create" /\ cur'[w] = cur[w] /\ mg'[w] = o
        BY <1>0, <2>1, EnterOthers
      <4> HIDE DEF o
      <4> QED BY <3>2, <3>3, <4>1 DEF WorkerInv, InCreate, Passed
    <3> QED BY <2>1, <3>1, <3>4, <3>5, WriteStep
  <2>2. CASE WriteFails(w)
    BY <1>5, <2>2, WriteFailsInv DEF CreatePending
  <2> QED BY <1>5, <2>1, <2>2 DEF CreatePending
<1>6. CASE UpdateCritical(w)
  <2> DEFINE o == [api[cur[w]] EXCEPT !.ext = mg[w].ext, !.create = mg[w].create]
             r == IF mg[w].create = "succeeded" THEN "ReconcileSuccess" ELSE "ReconcileError"
  <2>0. InCreate(w) /\ cur[w] \in MRs
    BY <1>0, <1>6 DEF UpdateCritical, InCreate
  <2>1. CASE StoreBy(w, o) /\ Report(w, o, r)
    <3>1. /\ Store(cur[w], o) /\ UNCHANGED cache
          /\ \A v \in Workers \ {w} : v \in fresh' => v \in fresh /\ cur[v] # cur[w]
      BY <1>6, <2>1 DEF UpdateCritical, StoreBy
    <3>2. \A v \in Workers \ {w} : InCreate(v) => cur[v] # cur[w]
      BY <2>0, NobodyElseCreates
    <3> QED BY <1>0, <2>0, <2>1, <3>1, <3>2, ReportInv, WriteStep DEF Report
  <2>2. CASE Report(w, mg[w], "ReconcileError") /\ UNCHANGED <<api, current, fresh>>
    BY <1>0, <1>6, <2>2, ReportInv, QuietStep DEF Report, UpdateCritical
  <2> QED BY <1>6, <2>1, <2>2 DEF UpdateCritical
<1>7. CASE StatusUpdate(w)
  <2> DEFINE o == [api[cur[w]] EXCEPT !.synced = mg[w].synced]
  <2>0. pc[w] = "status" /\ cur[w] \in MRs /\ Release(w) /\ UNCHANGED cache
    BY <1>0, <1>7 DEF StatusUpdate
  <2>1. CASE StoreByUser(cur[w], o)
    <3>1. /\ Store(cur[w], o) /\ w \notin fresh'
          /\ \A v \in Workers \ {w} : v \in fresh' => v \in fresh /\ cur[v] # cur[w]
      BY <2>1 DEF StoreByUser
    <3>2. \A v \in Workers \ {w} : (InCreate(v) /\ cur[v] = cur[w])
               => o.exists /\ o.fin /\ o.create = "pending"
      BY <1>0, <2>0 DEF Object, LoopInv, WorkerInv
    <3>3. WorkerInv(w)' /\ ~InCreate(w)'
      BY <1>0, <2>0, <3>1, ReleaseInv
    <3> QED BY <2>0, <3>1, <3>2, <3>3, WriteStep DEF Release
  <2>2. CASE fresh' = fresh \ {w} /\ UNCHANGED <<api, current>>
    <3>1. WorkerInv(w)' /\ ~InCreate(w)'
      BY <1>0, <2>0, <2>2, ReleaseInv
    <3> QED BY <2>0, <2>2, <3>1, QuietStep DEF Release
  <2> QED BY <1>7, <2>1, <2>2 DEF StatusUpdate
<1> QED BY <1>1, <1>2, <1>3, <1>4, <1>5, <1>6, <1>7 DEF RuntimeStep

LEMMA ControllerStepInv ==
    ASSUME LoopInv, MRTypeOK', NEW w \in Workers, ControllerStep(w)
    PROVE  LoopInv'
<1>0. WorkerOK /\ WorkerInv(w) /\ mg[w] \in Object
  BY DEF LoopInv, MRTypeOK, WorkerOK
<1> DEFINE Renamed(c) == /\ c.exists = mg[w].exists /\ c.del = mg[w].del /\ c.fin = mg[w].fin
                         /\ c.create = mg[w].create /\ c.spec = mg[w].spec
<1>1. ASSUME NEW e \in NamesFor(w), NEW r \in ReasonsFor(w)
      PROVE  [mg[w] EXCEPT !.ext = e, !.synced = r] \in Object
             /\ Renamed([mg[w] EXCEPT !.ext = e, !.synced = r])
  <2>1. [mg[w] EXCEPT !.ext = e, !.synced = r] \in Object
    BY <1>0, ObjectFields, Constants DEF NamesFor, ReasonsFor
  <2>2. Renamed([mg[w] EXCEPT !.ext = e, !.synced = r])
    BY <1>0 DEF Object
  <2> QED BY <2>1, <2>2
<1>2. ASSUME NEW e, NameInObserve(w, e) \/ NameInCreate(w, e) PROVE LoopInv'
  <2>1. /\ UNCHANGED <<api, cache, current, fresh, cur, pc>>
        /\ mg' = [mg EXCEPT ![w] = [mg[w] EXCEPT !.ext = e]]
    BY <1>2 DEF NameInObserve, NameInCreate, Calls
  <2>2. Renamed(mg'[w]) /\ \A v \in Workers \ {w} : mg'[v] = mg[v]
    BY <1>0, <2>1 DEF WorkerOK, Object
  <2>3. WorkerInv(w)'
    BY <1>0, <2>1, <2>2 DEF WorkerInv, Agrees, InCreate
  <2>4. \A v \in Workers \ {w} : WorkerInv(v)'
    BY <2>1, <2>2, OtherKeeps DEF LoopInv
  <2> QED BY <2>1, <2>3, <2>4 DEF LoopInv, CacheInv, CreateExclusive, InCreate
<1>3. ASSUME NEW o \in Observations, NEW c, Renamed(c), ObserveAnswers(w, o, c) PROVE LoopInv'
  <2> HIDE DEF Renamed
  <2>1. pc[w] = "observe" /\ UNCHANGED <<api, cache, current, fresh>>
    BY <1>3 DEF ObserveAnswers, Calls
  <2>2. CASE Report(w, c, "ReconcileError") \/ Report(w, c, "ReconcileSuccess")
    BY <1>0, <2>1, <2>2, ReportInv, QuietStep DEF Report
  <2>3. ASSUME NEW p \in {"unfinalize", "delete", "pending", "update"}, Enter(w, cur[w], c, p),
               p = "pending" => c.fin
        PROVE  LoopInv'
    <3>1. pc'[w] = p /\ cur'[w] = cur[w] /\ mg'[w] = c
      BY <1>0, <2>3, EnterOthers
    <3>2. WorkerInv(w)' /\ ~InCreate(w)'
      BY <1>0, <1>3, <2>1, <2>3, <3>1 DEF Renamed, WorkerInv, Agrees, InCreate, Passed
    <3> QED BY <2>1, <2>3, <3>2, QuietStep
  <2>4. CASE ~c.del /\ c.fin /\ Decide(w, o, c)
    BY <2>2, <2>3, <2>4 DEF Decide
  <2>5. CASE /\ pc' = [pc EXCEPT ![w] = "finalize"] /\ mg' = [mg EXCEPT ![w] = c]
             /\ UNCHANGED cur
    <3>1. /\ pc'[w] = "finalize" /\ mg'[w] = c
          /\ \A v \in Workers \ {w} : pc'[v] = pc[v] /\ mg'[v] = mg[v]
      BY <1>0, <2>5 DEF WorkerOK
    <3>2. WorkerInv(w)' /\ ~InCreate(w)'
      BY <1>0, <1>3, <2>1, <2>5, <3>1 DEF Renamed, WorkerInv, Agrees, InCreate, Passed
    <3>3. \A v \in Workers \ {w} : WorkerInv(v)'
      BY <2>1, <2>5, <3>1, OtherKeeps DEF LoopInv
    <3> QED BY <2>1, <2>5, <3>1, <3>2, <3>3 DEF LoopInv, CacheInv, CreateExclusive, InCreate
  <2> QED BY <1>3, <2>2, <2>3, <2>4, <2>5 DEF ObserveAnswers
<1>4. ASSUME NEW ok, NEW c \in Object, Renamed(c), CreateReturns(w, ok, c) PROVE LoopInv'
  <2> DEFINE o == [c EXCEPT !.create = IF ok THEN "succeeded" ELSE "failed"]
  <2>1. /\ pc[w] = "create" /\ UNCHANGED <<api, cache, current, fresh>>
        /\ o.exists = mg[w].exists
    BY <1>4 DEF CreateReturns, Calls, Object
  <2>2. Enter(w, cur[w], o, "critical")
    BY <1>4 DEF CreateReturns
  <2> HIDE DEF o
  <2>3. WorkerInv(w)' /\ InCreate(w) /\ cur'[w] = cur[w]
    BY <1>0, <2>1, <2>2, EnterOthers DEF WorkerInv, InCreate, Passed
  <2> QED BY <2>1, <2>2, <2>3, QuietStep
<1>5. ASSUME NEW ok, CallReturns(w, ok) PROVE LoopInv'
  <2>1. PICK r : Report(w, mg[w], r)
    BY <1>5 DEF CallReturns
  <2> QED BY <1>0, <1>5, <2>1, ReportInv, QuietStep DEF Report, CallReturns, Calls
<1> HIDE DEF Renamed
<1> QED BY <1>1, <1>2, <1>3, <1>4, <1>5 DEF ControllerStep

LEMMA EnvironmentStepInv ==
    ASSUME LoopInv, MRTypeOK', EnvironmentStep
    PROVE  LoopInv'
<1>0. WorkerOK /\ ApiOK /\ \A v \in Workers : WorkerInv(v)
  BY DEF LoopInv, MRTypeOK
<1>1. ASSUME NEW w \in Workers, Crash(w) PROVE LoopInv'
  <2>1. WorkerInv(w)' /\ ~InCreate(w)'
    BY <1>0, <1>1, ReleaseInv DEF Crash
  <2> QED BY <1>1, <2>1, QuietStep DEF Crash, Release
<1>2. ASSUME NEW w \in Workers, NEW m \in MRs, CacheSync(w, m) PROVE LoopInv'
  <2>1. CacheInv'
    BY <1>2 DEF CacheSync, LoopInv, MRTypeOK, ApiOK, RestOK, CacheInv
  <2>2. \A v \in Workers : WorkerInv(v)'
    BY <1>0, <1>2, OtherKeeps DEF CacheSync
  <2> QED BY <1>2, <2>1, <2>2 DEF LoopInv, CacheSync, CreateExclusive, InCreate
<1>3. ASSUME NEW m \in MRs, NEW o, EditOnly, StoreByUser(m, o),
             (api[m].exists /\ api[m].fin /\ api[m].create = "pending")
                 => o.exists /\ o.fin /\ o.create = "pending"
      PROVE  LoopInv'
  <2>1. CacheInv' /\ api'[m] = o /\ \A n \in MRs \ {m} : api'[n] = api[n]
    BY <1>0, <1>3, StoreCache DEF EditOnly, StoreByUser, LoopInv
  <2>2. UNCHANGED <<cur, mg, pc>> /\ \A v \in Workers : v \in fresh' => v \in fresh /\ cur[v] # m
    BY <1>3 DEF EditOnly, StoreByUser
  <2>3. ASSUME NEW v \in Workers PROVE WorkerInv(v)'
    <3>1. WorkerInv(v) /\ (pc[v] # "idle" => cur[v] \in MRs)
      BY <1>0 DEF WorkerOK
    <3>2. v \in fresh' => v \in fresh /\ api'[cur[v]] = api[cur[v]]
      BY <2>1, <2>2, <3>1 DEF WorkerInv
    <3>3. InCreate(v) => \/ api'[cur[v]] = api[cur[v]]
                         \/ /\ api'[cur[v]].exists /\ api'[cur[v]].fin
                            /\ api'[cur[v]].create = "pending"
      BY <1>3, <2>1, <3>1 DEF WorkerInv, InCreate
    <3> QED BY <2>2, <3>1, <3>2, <3>3, OtherKeeps
  <2> QED BY <2>1, <2>2, <2>3 DEF LoopInv, CreateExclusive, InCreate
<1>4. \A m \in MRs : api[m] \in Object
  BY <1>0 DEF ApiOK
<1>5. ASSUME NEW m \in MRs, UserDeletes(m) PROVE LoopInv'
  <2>1. api[m].fin => [api[m] EXCEPT !.del = TRUE].exists = api[m].exists
                   /\ [api[m] EXCEPT !.del = TRUE].fin = api[m].fin
                   /\ [api[m] EXCEPT !.del = TRUE].create = api[m].create
    BY <1>4 DEF Object
  <2> QED BY <1>3, <1>5, <2>1 DEF UserDeletes
<1>6. ASSUME NEW m \in MRs, NEW s \in Specs, UserEdits(m, s) PROVE LoopInv'
  <2>1. /\ [api[m] EXCEPT !.spec = s].exists = api[m].exists
        /\ [api[m] EXCEPT !.spec = s].fin = api[m].fin
        /\ [api[m] EXCEPT !.spec = s].create = api[m].create
    BY <1>4 DEF Object
  <2> QED BY <1>3, <1>6, <2>1 DEF UserEdits
<1>7. ASSUME NEW m \in MRs, NEW s \in Specs, NEW e, UserCreates(m, s, e) PROVE LoopInv'
  BY <1>3, <1>7 DEF UserCreates
<1> QED BY <1>1, <1>2, <1>5, <1>6, <1>7 DEF EnvironmentStep

\* The inductive invariant of the loop.
THEOREM LoopInvariant == MRSpec => []LoopInv
<1>1. LoopInv /\ MRTypeOK' /\ [MRNext]_mrVars => LoopInv'
  <2> SUFFICES ASSUME LoopInv, MRTypeOK', [MRNext]_mrVars PROVE LoopInv'
    OBVIOUS
  <2>1. CASE UNCHANGED mrVars
    BY <2>1 DEF mrVars, LoopInv, CacheInv, WorkerInv, Agrees, CreateExclusive, InCreate
  <2> QED BY <2>1, RuntimeStepInv, ControllerStepInv, EnvironmentStepInv DEF MRNext
<1> QED BY <1>1, LoopInit, MRTypeCorrect, PTL DEF MRSpec

\* However many replicas run, whatever their caches hold, whoever crashes and
\* whatever the controller answers: at most one worker at a time is in the
\* Create section of a resource.
THEOREM CreateIsExclusive == MRSpec => []CreateExclusive
<1>1. LoopInv => CreateExclusive
  BY DEF LoopInv
<1> QED BY <1>1, LoopInvariant, PTL

-----------------------------------------------------------------------------
(* What the proofs about a controller need of the loop *)

\* What a controller may do to w's copy of its resource.
LEMMA CopyForms ==
    ASSUME NEW c \in Object
    PROVE  /\ c = [c EXCEPT !.ext = c.ext, !.synced = c.synced]
           /\ \A e : [c EXCEPT !.ext = e] = [c EXCEPT !.ext = e, !.synced = c.synced]
           /\ \A r : [c EXCEPT !.synced = r] = [c EXCEPT !.ext = c.ext, !.synced = r]
  BY DEF Object

LEMMA AnswerIsStep ==
    ASSUME MRTypeOK, NEW w \in Workers, UNCHANGED faults \/ Fault,
           NEW c, \/ c = mg[w]
                  \/ \E e \in ExtNames : c = [mg[w] EXCEPT !.ext = e]
                  \/ \E r \in ConditionReasons : c = [mg[w] EXCEPT !.synced = r],
           \/ \E o \in Observations : ObserveAnswers(w, o, c)
           \/ \E ok \in BOOLEAN : CreateReturns(w, ok, c)
    PROVE  ControllerStep(w)
<1>1. mg[w] \in Object
  BY DEF MRTypeOK, WorkerOK
<1>2. PICK e \in NamesFor(w), r \in ReasonsFor(w) : c = [mg[w] EXCEPT !.ext = e, !.synced = r]
  <2>0. mg[w].ext \in NamesFor(w) /\ mg[w].synced \in ReasonsFor(w)
    BY DEF NamesFor, ReasonsFor
  <2>1. CASE c = mg[w]
    <3>1. c = [mg[w] EXCEPT !.ext = mg[w].ext, !.synced = mg[w].synced]
      BY <1>1, <2>1, CopyForms
    <3> QED BY <2>0, <3>1
  <2>2. CASE \E e \in ExtNames : c = [mg[w] EXCEPT !.ext = e]
    <3>1. PICK e \in ExtNames : c = [mg[w] EXCEPT !.ext = e]
      BY <2>2
    <3>2. c = [mg[w] EXCEPT !.ext = e, !.synced = mg[w].synced] /\ e \in NamesFor(w)
      BY <1>1, <3>1, CopyForms DEF NamesFor
    <3> QED BY <2>0, <3>2
  <2>3. CASE \E r \in ConditionReasons : c = [mg[w] EXCEPT !.synced = r]
    <3>1. PICK r \in ConditionReasons : c = [mg[w] EXCEPT !.synced = r]
      BY <2>3
    <3>2. c = [mg[w] EXCEPT !.ext = mg[w].ext, !.synced = r] /\ r \in ReasonsFor(w)
      BY <1>1, <3>1, CopyForms DEF ReasonsFor
    <3> QED BY <2>0, <3>2
  <2> QED BY <2>1, <2>2, <2>3
<1>3. CASE \E o \in Observations : ObserveAnswers(w, o, c)
  BY <1>2, <1>3 DEF ControllerStep
<1>4. CASE \E ok \in BOOLEAN : CreateReturns(w, ok, c)
  BY <1>2, <1>4 DEF ControllerStep
<1> QED BY <1>3, <1>4

\* The latest copy of a worker that does not move stays the latest only while
\* nobody writes the object.
LEMMA FreshStays ==
    ASSUME MRTypeOK, NEW v \in Workers, cur[v] \in MRs, v \in fresh',
           \/ \E w \in Workers \ {v} : RuntimeStep(w) \/ ControllerStep(w) \/ Crash(w)
           \/ EnvironmentStep /\ ~ Crash(v)
    PROVE  v \in fresh /\ api'[cur[v]] = api[cur[v]]
<1>0. ApiOK
  BY DEF MRTypeOK
<1>1. ASSUME NEW m, NEW o, Store(m, o), cur[v] # m
      PROVE  api'[cur[v]] = api[cur[v]]
  BY <1>0, <1>1 DEF Store, ApiOK
<1>2. ASSUME NEW m, NEW o, StoreByUser(m, o) PROVE v \in fresh /\ api'[cur[v]] = api[cur[v]]
  BY <1>1, <1>2 DEF StoreByUser
<1>3. ASSUME NEW w \in Workers \ {v}, NEW o, StoreBy(w, o)
      PROVE  v \in fresh /\ api'[cur[v]] = api[cur[v]]
  BY <1>1, <1>3 DEF StoreBy
<1>4. ASSUME NEW w \in Workers \ {v}, RuntimeStep(w)
      PROVE  v \in fresh /\ api'[cur[v]] = api[cur[v]]
  BY <1>2, <1>3, <1>4
     DEF RuntimeStep, Start, Initialize, WriteFails, AddFinalizer, RemoveFinalizer,
         CreatePending, UpdateCritical, StatusUpdate
<1>5. ASSUME NEW w \in Workers \ {v}, ControllerStep(w)
      PROVE  v \in fresh /\ api'[cur[v]] = api[cur[v]]
  BY <1>5 DEF ControllerStep, NameInObserve, NameInCreate, ObserveAnswers, CreateReturns,
              CallReturns, Calls
<1>6. ASSUME NEW w \in Workers \ {v}, Crash(w)
      PROVE  v \in fresh /\ api'[cur[v]] = api[cur[v]]
  BY <1>6 DEF Crash
<1>7. ASSUME EnvironmentStep, ~ Crash(v)
      PROVE  v \in fresh /\ api'[cur[v]] = api[cur[v]]
  BY <1>2, <1>6, <1>7 DEF EnvironmentStep, CacheSync, UserDeletes, UserEdits, UserCreates
<1> QED BY <1>4, <1>5, <1>6, <1>7

-----------------------------------------------------------------------------
(* What is stored of creations *)

\* A write of a sound object leaves sound objects.
LEMMA StoreRecords ==
    ASSUME ApiOK, RecordInv, UNCHANGED cache, NEW m \in MRs, NEW o, Store(m, o),
           o.create = "pending" => o.exists /\ o.fin
    PROVE  \A n \in MRs : StoredInv(n)'
  BY DEF ApiOK, RecordInv, StoredInv, Store

LEMMA NothingRecorded ==
    ASSUME RecordInv, UNCHANGED <<api, cache>>
    PROVE  \A n \in MRs : StoredInv(n)'
  BY DEF RecordInv, StoredInv

\* Entering a phase with a copy that suits it.
LEMMA EnterCopy ==
    ASSUME WorkerOK, NEW w \in Workers, NEW m, NEW o, NEW p, Enter(w, m, o, p),
           p = "critical" => o.create \in {"succeeded", "failed"},
           p = "unfinalize" => o.del
    PROVE  CopyInv(w)'
  BY EnterOthers DEF CopyInv

LEMMA ReportCopy ==
    ASSUME WorkerOK, NEW w \in Workers, NEW o \in Object, NEW r, Report(w, o, r)
    PROVE  CopyInv(w)'
  BY EnterCopy DEF Report

LEMMA PassGateCopy ==
    ASSUME WorkerOK, NEW w \in Workers, NEW m, NEW o \in Object, PassGate(w, m, o)
    PROVE  CopyInv(w)'
  BY EnterCopy DEF PassGate

LEMMA DecideCopy ==
    ASSUME WorkerOK, NEW w \in Workers, NEW o, NEW c \in Object, Decide(w, o, c)
    PROVE  CopyInv(w)'
  BY EnterCopy, ReportCopy DEF Decide

LEMMA WriteFailsRecord ==
    ASSUME LoopInv, RecordInv, NEW w \in Workers, WriteFails(w), UNCHANGED cache
    PROVE  (\A m \in MRs : StoredInv(m)') /\ CopyInv(w)'
<1>1. \A m \in MRs : StoredInv(m)'
  BY NothingRecorded DEF WriteFails
<1>2. WorkerOK /\ mg[w] \in Object
  BY DEF LoopInv, MRTypeOK, WorkerOK
<1>3. CopyInv(w)'
  BY <1>2, EnterCopy, ReportCopy DEF WriteFails, Release
<1> QED BY <1>1, <1>3

LEMMA RuntimeStepRecord ==
    ASSUME LoopInv, RecordInv, NEW w \in Workers, RuntimeStep(w)
    PROVE  (\A m \in MRs : StoredInv(m)') /\ CopyInv(w)'
<1> DEFINE Goal == (\A m \in MRs : StoredInv(m)') /\ CopyInv(w)'
<1>0. /\ WorkerOK /\ ApiOK /\ WorkerInv(w) /\ CopyInv(w) /\ mg[w] \in Object
      /\ \A m \in MRs : api[m] \in Object /\ StoredInv(m) /\ cache[w][m] \in Object
      /\ pc[w] # "idle" => cur[w] \in MRs
  BY DEF LoopInv, MRTypeOK, WorkerOK, ApiOK, RestOK, RecordInv
<1>1. ASSUME NEW m \in MRs, Start(w, m) PROVE Goal
  <2>1. CopyInv(w)'
    BY <1>0, <1>1, EnterCopy, PassGateCopy DEF Start
  <2> QED BY <1>1, <2>1, NothingRecorded DEF Start
<1>2. CASE Initialize(w)
  <2> DEFINE o == [mg[w] EXCEPT !.ext = MetaName[cur[w]]]
  <2>1. CASE w \in fresh /\ StoreBy(w, o) /\ PassGate(w, cur[w], o)
    <3>0. pc[w] = "init" /\ cur[w] \in MRs /\ MetaName[cur[w]] \in ExtNames
      BY <1>0, <1>2, NamesAssumption DEF Initialize
    <3>1. /\ o \in Object /\ o.exists = mg[w].exists /\ o.fin = mg[w].fin
          /\ o.create = mg[w].create /\ o.synced = mg[w].synced
      <4>1. o \in Object
        BY <1>0, <3>0, ObjectFields
      <4> QED BY <1>0, <4>1 DEF Object
    <3>2. Agrees(w) /\ UNCHANGED cache
      BY <1>0, <1>2, <2>1, <3>0 DEF Initialize, WorkerInv, CopyInv
    <3>3. o.create = "pending" => o.exists /\ o.fin
      BY <1>0, <3>0, <3>1, <3>2 DEF Agrees, StoredInv
    <3> HIDE DEF o
    <3> QED BY <1>0, <2>1, <3>0, <3>1, <3>2, <3>3, StoreRecords, PassGateCopy DEF StoreBy
  <2> QED BY <1>2, <2>1, WriteFailsRecord DEF Initialize
<1>3. CASE AddFinalizer(w)
  <2> DEFINE o == [mg[w] EXCEPT !.fin = TRUE, !.synced = api[cur[w]].synced]
  <2>1. CASE StoreBy(w, o) /\ Decide(w, obs[w], o)
    <3>1. cur[w] \in MRs /\ UNCHANGED cache /\ pc[w] \in Passed
      BY <1>0, <1>3 DEF AddFinalizer, Passed
    <3>2. /\ o \in Object /\ o.create = mg[w].create /\ o.synced = api[cur[w]].synced
      <4>1. o \in Object
        BY <1>0, <3>1, ObjectFields
      <4> QED BY <1>0, <4>1 DEF Object
    <3>3. o.create # "pending"
      BY <1>0, <3>1, <3>2 DEF WorkerInv, StoredInv
    <3> HIDE DEF o
    <3> QED BY <1>0, <2>1, <3>1, <3>2, <3>3, StoreRecords, DecideCopy DEF StoreBy
  <2> QED BY <1>3, <2>1, WriteFailsRecord DEF AddFinalizer
<1>4. CASE RemoveFinalizer(w)
  <2>1. CASE StoreByUser(cur[w], Blank) /\ Release(w)
    <3>1. Blank.create # "pending"
      BY DEF Blank
    <3>2. cur[w] \in MRs /\ UNCHANGED cache
      BY <1>0, <1>4 DEF RemoveFinalizer
    <3> QED BY <1>0, <2>1, <3>1, <3>2, StoreRecords, EnterCopy DEF StoreByUser, Release
  <2> QED BY <1>4, <2>1, WriteFailsRecord DEF RemoveFinalizer
<1>5. CASE CreatePending(w)
  <2> DEFINE o == [mg[w] EXCEPT !.create = "pending", !.synced = api[cur[w]].synced]
  <2>1. CASE StoreBy(w, o) /\ Enter(w, cur[w], o, "create")
    <3>1. cur[w] \in MRs /\ UNCHANGED cache /\ pc[w] = "pending"
      BY <1>0, <1>5 DEF CreatePending
    <3>2. o.exists /\ o.fin
      BY <1>0, <3>1 DEF Object, WorkerInv, StoredInv
    <3> HIDE DEF o
    <3> QED BY <1>0, <2>1, <3>1, <3>2, StoreRecords, EnterCopy DEF StoreBy
  <2> QED BY <1>5, <2>1, WriteFailsRecord DEF CreatePending
<1>6. CASE UpdateCritical(w)
  <2> DEFINE o == [api[cur[w]] EXCEPT !.ext = mg[w].ext, !.create = mg[w].create]
             r == IF mg[w].create = "succeeded" THEN "ReconcileSuccess" ELSE "ReconcileError"
  <2>0. cur[w] \in MRs /\ UNCHANGED cache /\ pc[w] = "critical"
    BY <1>0, <1>6 DEF UpdateCritical
  <2>1. CASE StoreBy(w, o) /\ Report(w, o, r)
    <3>1. /\ o \in Object /\ o.create # "pending"
      <4>1. mg[w].create \in {"succeeded", "failed"}
        BY <1>0, <2>0 DEF CopyInv, StoredInv
      <4>2. /\ mg[w].ext \in ExtNames \cup {NoExt} /\ mg[w].create \in CreateStates
            /\ api[cur[w]] \in Object
        BY <1>0, <2>0, ObjectFields
      <4>3. o \in Object
        BY <4>2, ObjectFields
      <4>4. o.create = mg[w].create /\ o.synced = api[cur[w]].synced
        BY <4>2 DEF Object
      <4> QED BY <1>0, <4>1, <4>3, <4>4
    <3> HIDE DEF o, r
    <3> QED BY <1>0, <2>0, <2>1, <3>1, StoreRecords, ReportCopy DEF StoreBy
  <2>2. CASE Report(w, mg[w], "ReconcileError") /\ UNCHANGED <<api, current, fresh>>
    BY <1>0, <2>0, <2>2, NothingRecorded, ReportCopy
  <2> QED BY <1>6, <2>1, <2>2 DEF UpdateCritical
<1>7. CASE StatusUpdate(w)
  <2> DEFINE o == [api[cur[w]] EXCEPT !.synced = mg[w].synced]
  <2>0. cur[w] \in MRs /\ UNCHANGED cache /\ pc[w] = "status" /\ Release(w)
    BY <1>0, <1>7 DEF StatusUpdate
  <2>1. CopyInv(w)'
    BY <1>0, <2>0, EnterCopy DEF Release
  <2>2. CASE StoreByUser(cur[w], o)
    <3>1. /\ o.create = "pending" => o.exists /\ o.fin
         
      BY <1>0, <2>0 DEF Object, CopyInv, StoredInv
    <3> HIDE DEF o
    <3> QED BY <1>0, <2>0, <2>1, <2>2, <3>1, StoreRecords DEF StoreByUser
  <2>3. CASE UNCHANGED api
    BY <2>0, <2>1, <2>3, NothingRecorded
  <2> QED BY <1>7, <2>2, <2>3 DEF StatusUpdate
<1> QED BY <1>1, <1>2, <1>3, <1>4, <1>5, <1>6, <1>7 DEF RuntimeStep

LEMMA ControllerStepRecord ==
    ASSUME LoopInv, RecordInv, NEW w \in Workers, ControllerStep(w)
    PROVE  (\A m \in MRs : StoredInv(m)') /\ CopyInv(w)'
<1>0. /\ WorkerOK /\ CopyInv(w) /\ mg[w] \in Object
  BY DEF LoopInv, MRTypeOK, WorkerOK, RecordInv
<1>1. UNCHANGED <<api, cache>>
  BY DEF ControllerStep, NameInObserve, NameInCreate, ObserveAnswers, CreateReturns,
         CallReturns, Calls
<1>2. ASSUME NEW e \in NamesFor(w), NEW r \in ReasonsFor(w)
      PROVE  [mg[w] EXCEPT !.ext = e, !.synced = r] \in Object
  BY <1>0, ObjectFields, Constants DEF NamesFor, ReasonsFor
<1>3. ASSUME NEW e, NameInObserve(w, e) \/ NameInCreate(w, e) PROVE CopyInv(w)'
  BY <1>0, <1>3 DEF NameInObserve, NameInCreate, CopyInv, WorkerOK
<1>4. ASSUME NEW o, NEW c \in Object, ObserveAnswers(w, o, c) PROVE CopyInv(w)'
  <2>1. CASE pc' = [pc EXCEPT ![w] = "finalize"]
    BY <1>0, <2>1 DEF CopyInv, WorkerOK
  <2> QED BY <1>0, <1>4, <2>1, EnterCopy, ReportCopy, DecideCopy DEF ObserveAnswers
<1>5. ASSUME NEW ok, NEW c \in Object, CreateReturns(w, ok, c) PROVE CopyInv(w)'
  <2>1. [c EXCEPT !.create = IF ok THEN "succeeded" ELSE "failed"].create \in {"succeeded", "failed"}
    BY DEF Object
  <2> QED BY <1>0, <1>5, <2>1, EnterCopy DEF CreateReturns
<1>6. ASSUME NEW ok, CallReturns(w, ok) PROVE CopyInv(w)'
  BY <1>0, <1>6, ReportCopy DEF CallReturns
<1> QED BY <1>1, <1>2, <1>3, <1>4, <1>5, <1>6, NothingRecorded DEF ControllerStep

LEMMA EnvironmentStepRecord ==
    ASSUME LoopInv, RecordInv, EnvironmentStep
    PROVE  RecordInv'
<1>0. /\ WorkerOK /\ ApiOK /\ \A m \in MRs : api[m] \in Object /\ StoredInv(m)
      /\ \A w \in Workers : CopyInv(w)
  BY DEF LoopInv, MRTypeOK, ApiOK, RecordInv
<1>1. ASSUME NEW w \in Workers, Crash(w) PROVE RecordInv'
  <2>1. CopyInv(w)'
    BY <1>0, <1>1, EnterCopy DEF Crash, Release
  <2>2. \A v \in Workers \ {w} : CopyInv(v)'
    BY <1>0, <1>1, MovesAlone DEF CopyInv
  <2> QED BY <1>1, <2>1, <2>2, NothingRecorded DEF Crash, RecordInv
<1>2. ASSUME NEW w \in Workers, NEW m \in MRs, CacheSync(w, m) PROVE RecordInv'
  BY <1>0, <1>2 DEF CacheSync, RecordInv, StoredInv, CopyInv, LoopInv, MRTypeOK, RestOK
<1>3. ASSUME NEW m \in MRs, NEW o, EditOnly, StoreByUser(m, o),
             o.create = "pending" => o.exists /\ o.fin
      PROVE  RecordInv'
  <2>1. \A v \in Workers : CopyInv(v)'
    BY <1>0, <1>3 DEF EditOnly, CopyInv
  <2> QED BY <1>0, <1>3, <2>1, StoreRecords DEF EditOnly, StoreByUser, RecordInv
<1>4. \A e, s : LET o == [Blank EXCEPT !.exists = TRUE, !.spec = s, !.ext = e]
                IN  o.create # "pending"
  BY DEF Blank
<1>5. Blank.create # "pending"
  BY DEF Blank
<1>6. ASSUME NEW m \in MRs, UserDeletes(m) PROVE RecordInv'
  BY <1>0, <1>3, <1>5, <1>6 DEF UserDeletes, Object, StoredInv
<1>7. ASSUME NEW m \in MRs, NEW s \in Specs, UserEdits(m, s) PROVE RecordInv'
  BY <1>0, <1>3, <1>7 DEF UserEdits, Object, StoredInv
<1>8. ASSUME NEW m \in MRs, NEW s \in Specs, NEW e, UserCreates(m, s, e) PROVE RecordInv'
  BY <1>3, <1>4, <1>8 DEF UserCreates
<1> QED BY <1>1, <1>2, <1>6, <1>7, <1>8 DEF EnvironmentStep

\* What is stored of creations, and what the copies that are about to be written
\* say of them.
THEOREM RecordInvariant == MRSpec => []RecordInv
<1>1. MRInit => RecordInv
  BY DEF MRInit, RecordInv, StoredInv, CopyInv, Blank
<1>2. LoopInv /\ RecordInv /\ [MRNext]_mrVars => RecordInv'
  <2> SUFFICES ASSUME LoopInv, RecordInv, [MRNext]_mrVars PROVE RecordInv'
    OBVIOUS
  <2>1. CASE UNCHANGED mrVars
    BY <2>1 DEF mrVars, RecordInv, StoredInv, CopyInv
  <2>2. ASSUME NEW w \in Workers, RuntimeStep(w) \/ ControllerStep(w) PROVE RecordInv'
    <3>1. \A v \in Workers \ {w} : CopyInv(v)'
      BY <2>2, MovesAlone DEF LoopInv, MRTypeOK, RecordInv, CopyInv
    <3> QED BY <2>2, <3>1, RuntimeStepRecord, ControllerStepRecord DEF RecordInv
  <2> QED BY <2>1, <2>2, EnvironmentStepRecord DEF MRNext
<1> QED BY <1>1, <1>2, LoopInvariant, PTL DEF MRSpec

-----------------------------------------------------------------------------
(* What users have decided is kept *)

LEMMA StoreKeepsDecisions ==
    ASSUME ApiOK, NEW m \in MRs, NEW o, Store(m, o),
           o.exists => api[m].exists /\ o.spec = api[m].spec /\ o.del = api[m].del,
           (api[m].exists /\ ~o.exists) => api[m].del
    PROVE  \A n \in MRs : KeepsDecision(n)
  BY DEF ApiOK, Store, KeepsDecision

LEMMA RuntimeKeepsDecisions ==
    ASSUME LoopInv, RecordInv, NEW w \in Workers, RuntimeStep(w)
    PROVE  \A m \in MRs : KeepsDecision(m)
<1> DEFINE Goal == \A m \in MRs : KeepsDecision(m)
<1>0. /\ ApiOK /\ WorkerInv(w) /\ CopyInv(w) /\ mg[w] \in Object
      /\ pc[w] # "idle" => cur[w] \in MRs /\ api[cur[w]] \in Object
  BY DEF LoopInv, MRTypeOK, WorkerOK, ApiOK, RecordInv
<1>1. ASSUME UNCHANGED api PROVE Goal
  BY <1>1 DEF KeepsDecision
<1>2. WriteFails(w) => Goal
  BY <1>1 DEF WriteFails
<1>3. ASSUME NEW m \in MRs, Start(w, m) PROVE Goal
  BY <1>1, <1>3 DEF Start
<1>4. CASE Initialize(w)
  <2> DEFINE o == [mg[w] EXCEPT !.ext = MetaName[cur[w]]]
  <2>1. CASE w \in fresh /\ StoreBy(w, o)
    <3>1. Agrees(w) /\ cur[w] \in MRs
      BY <1>0, <1>4, <2>1 DEF Initialize, WorkerInv
    <3>2. o.exists = mg[w].exists /\ o.del = mg[w].del /\ o.spec = mg[w].spec
      BY <1>0 DEF Object
    <3> QED BY <1>0, <2>1, <3>1, <3>2, StoreKeepsDecisions DEF StoreBy, Agrees
  <2> QED BY <1>2, <1>4, <2>1 DEF Initialize
<1>5. CASE AddFinalizer(w)
  <2> DEFINE o == [mg[w] EXCEPT !.fin = TRUE, !.synced = api[cur[w]].synced]
  <2>1. CASE w \in fresh /\ StoreBy(w, o)
    <3>1. Agrees(w) /\ cur[w] \in MRs
      BY <1>0, <1>5, <2>1 DEF AddFinalizer, WorkerInv, Passed
    <3>2. o.exists = mg[w].exists /\ o.del = mg[w].del /\ o.spec = mg[w].spec
      BY <1>0 DEF Object
    <3> QED BY <1>0, <2>1, <3>1, <3>2, StoreKeepsDecisions DEF StoreBy, Agrees
  <2> QED BY <1>2, <1>5, <2>1 DEF AddFinalizer
<1>6. CASE RemoveFinalizer(w)
  <2>1. CASE w \in fresh /\ StoreByUser(cur[w], Blank)
    <3>1. api[cur[w]].del /\ cur[w] \in MRs /\ ~Blank.exists
      BY <1>0, <1>6, <2>1 DEF RemoveFinalizer, WorkerInv, CopyInv, Passed, Agrees, Blank
    <3> QED BY <1>0, <2>1, <3>1, StoreKeepsDecisions DEF StoreByUser
  <2> QED BY <1>2, <1>6, <2>1 DEF RemoveFinalizer
<1>7. CASE CreatePending(w)
  <2> DEFINE o == [mg[w] EXCEPT !.create = "pending", !.synced = api[cur[w]].synced]
  <2>1. CASE w \in fresh /\ StoreBy(w, o)
    <3>1. Agrees(w) /\ cur[w] \in MRs
      BY <1>0, <1>7, <2>1 DEF CreatePending, WorkerInv, Passed
    <3>2. o.exists = mg[w].exists /\ o.del = mg[w].del /\ o.spec = mg[w].spec
      BY <1>0 DEF Object
    <3> QED BY <1>0, <2>1, <3>1, <3>2, StoreKeepsDecisions DEF StoreBy, Agrees
  <2> QED BY <1>2, <1>7, <2>1 DEF CreatePending
<1>8. CASE UpdateCritical(w)
  <2> DEFINE o == [api[cur[w]] EXCEPT !.ext = mg[w].ext, !.create = mg[w].create]
  <2>1. CASE StoreBy(w, o)
    <3>1. cur[w] \in MRs /\ api[cur[w]] \in Object
      BY <1>0, <1>8 DEF UpdateCritical
    <3>2. o.exists = api[cur[w]].exists /\ o.del = api[cur[w]].del /\ o.spec = api[cur[w]].spec
      BY <3>1 DEF Object
    <3> QED BY <1>0, <2>1, <3>1, <3>2, StoreKeepsDecisions DEF StoreBy
  <2> QED BY <1>1, <1>8, <2>1 DEF UpdateCritical
<1>9. CASE StatusUpdate(w)
  <2> DEFINE o == [api[cur[w]] EXCEPT !.synced = mg[w].synced]
  <2>1. CASE StoreByUser(cur[w], o)
    <3>1. cur[w] \in MRs /\ api[cur[w]] \in Object
      BY <1>0, <1>9 DEF StatusUpdate
    <3>2. o.exists = api[cur[w]].exists /\ o.del = api[cur[w]].del /\ o.spec = api[cur[w]].spec
      BY <3>1 DEF Object
    <3> QED BY <1>0, <2>1, <3>1, <3>2, StoreKeepsDecisions DEF StoreByUser
  <2> QED BY <1>1, <1>9, <2>1 DEF StatusUpdate
<1> QED BY <1>3, <1>4, <1>5, <1>6, <1>7, <1>8, <1>9 DEF RuntimeStep

\* No replica, however old its copy, reverts what users have decided of a
\* resource, lets one go that is not to be deleted, or brings one back.
THEOREM OnlyUsersDecide == MRSpec => UsersDecide
<1>1. LoopInv /\ RecordInv /\ [MRNext]_mrVars
      => [edits' = edits => \A m \in MRs : KeepsDecision(m)]_mrVars
  <2> SUFFICES ASSUME LoopInv, RecordInv, MRNext, edits' = edits
               PROVE  \A m \in MRs : KeepsDecision(m)
    OBVIOUS
  <2>0. edits \in Nat /\ ~Edit
    BY BoundsAssumption DEF LoopInv, MRTypeOK, RestOK, Edit
  <2>1. ASSUME UNCHANGED api PROVE \A m \in MRs : KeepsDecision(m)
    BY <2>1 DEF KeepsDecision
  <2>2. CASE EnvironmentStep
    BY <2>0, <2>1, <2>2
       DEF EnvironmentStep, Crash, CacheSync, UserDeletes, UserEdits, UserCreates
  <2>3. ASSUME NEW w \in Workers, ControllerStep(w) PROVE UNCHANGED api
    BY <2>3 DEF ControllerStep, NameInObserve, NameInCreate, ObserveAnswers, CreateReturns,
                CallReturns, Calls
  <2> QED BY <2>1, <2>2, <2>3, RuntimeKeepsDecisions DEF MRNext
<1> QED BY <1>1, LoopInvariant, RecordInvariant, PTL DEF MRSpec, UsersDecide

-----------------------------------------------------------------------------
(* The loop implements CreateLease *)

\* Nothing happens to the leases.
LEMMA QuietLease ==
    ASSUME \A v \in Workers : InCreate(v)' = InCreate(v) /\ (InCreate(v) => cur'[v] = cur[v]),
           \A m \in MRs : api'[m].create = "pending" <=> api[m].create = "pending"
    PROVE  UNCHANGED Lease!leaseVars
<1>1. holders' = holders
  BY DEF holders
<1> QED BY <1>1 DEF lost, Lease!leaseVars

\* w leaves its Create section: the lease is over, or lost.
LEMMA LeaveLease ==
    ASSUME LoopInv, NEW w \in Workers, InCreate(w), ~InCreate(w)', cur[w] \in MRs,
           \A v \in Workers \ {w} : InCreate(v)' = InCreate(v) /\ cur'[v] = cur[v],
           \A m \in MRs \ {cur[w]} : api'[m].create = api[m].create
    PROVE  Lease!LeaseNext
<1>1. w \in holders[cur[w]] /\ \A v \in Workers \ {w} : ~(InCreate(v) /\ cur[v] = cur[w])
  BY DEF holders, LoopInv, CreateExclusive
<1>2. holders' = [holders EXCEPT ![cur[w]] = {}]
  <2>1. \A m \in MRs \ {cur[w]} : {v \in Workers : InCreate(v) /\ cur[v] = m}'
                                = {v \in Workers : InCreate(v) /\ cur[v] = m}
    OBVIOUS
  <2>2. {v \in Workers : InCreate(v) /\ cur[v] = cur[w]}' = {} \/ cur'[w] # cur[w]
    BY <1>1
  <2>3. \A v \in Workers : ~(InCreate(v)' /\ cur'[v] = cur[w])
    BY <1>1
  <2> QED BY <2>1, <2>3 DEF holders
<1>3. holders[cur[w]] # {} /\ holders'[cur[w]] = {} /\ cur[w] \notin lost
      /\ \A m \in MRs \ {cur[w]} : holders'[m] = holders[m]
  BY <1>1, <1>2 DEF holders, lost
<1>4. CASE api'[cur[w]].create = "pending"
  <2>1. lost' = lost \cup {cur[w]}
    BY <1>3, <1>4 DEF lost
  <2> QED BY <1>2, <1>3, <2>1 DEF Lease!Lose, Lease!LeaseNext
<1>5. CASE api'[cur[w]].create # "pending"
  <2>1. lost' = lost
    BY <1>3, <1>5 DEF lost
  <2> QED BY <1>2, <1>3, <2>1 DEF Lease!End, Lease!LeaseNext
<1> QED BY <1>4, <1>5

\* w enters its Create section.
LEMMA TakeLease ==
    ASSUME LoopInv, NEW w \in Workers, ~InCreate(w), InCreate(w)', cur[w] \in MRs,
           cur'[w] = cur[w],
           \A v \in Workers \ {w} : InCreate(v)' = InCreate(v) /\ cur'[v] = cur[v],
           \A v \in Workers \ {w} : InCreate(v) => cur[v] # cur[w],
           api[cur[w]].create # "pending",
           \A m \in MRs \ {cur[w]} : api'[m].create = api[m].create
    PROVE  Lease!LeaseNext
<1>1. holders' = [holders EXCEPT ![cur[w]] = {w}] /\ holders[cur[w]] = {}
  <2>1. \A m \in MRs \ {cur[w]} : \A v \in Workers :
            (InCreate(v)' /\ cur'[v] = m) <=> (InCreate(v) /\ cur[v] = m)
    OBVIOUS
  <2>2. \A v \in Workers : (InCreate(v)' /\ cur'[v] = cur[w]) <=> v = w
    OBVIOUS
  <2>3. \A m \in MRs \ {cur[w]} : {v \in Workers : InCreate(v) /\ cur[v] = m}'
                                = {v \in Workers : InCreate(v) /\ cur[v] = m}
    BY <2>1
  <2>4. {v \in Workers : InCreate(v) /\ cur[v] = cur[w]} = {}
    OBVIOUS
  <2>5. \A m \in MRs : m = cur[w] => {v \in Workers : InCreate(v) /\ cur[v] = m}' = {w}
    BY <2>2
  <2> QED BY <2>3, <2>4, <2>5 DEF holders
<1>2. lost' = lost /\ cur[w] \notin lost
  <2>1. \A m \in MRs \ {cur[w]} : holders'[m] = holders[m]
    BY <1>1 DEF holders
  <2>2. holders'[cur[w]] # {}
    BY <1>1 DEF holders
  <2> QED BY <2>1, <2>2 DEF lost
<1> QED BY <1>1, <1>2 DEF Lease!Begin, Lease!LeaseNext

\* A write that leaves the pending annotation as it is, by a worker outside of
\* the Create section.
LEMMA StoreQuiet ==
    ASSUME ApiOK, NEW m \in MRs, NEW o, Store(m, o),
           o.create = "pending" <=> api[m].create = "pending"
    PROVE  \A n \in MRs : api'[n].create = "pending" <=> api[n].create = "pending"
  BY DEF ApiOK, Store

LEMMA RuntimeLease ==
    ASSUME LoopInv, RecordInv, NEW w \in Workers, RuntimeStep(w)
    PROVE  Lease!LeaseNext \/ UNCHANGED Lease!leaseVars
<1> DEFINE Goal == Lease!LeaseNext \/ UNCHANGED Lease!leaseVars
           SamePending == \A m \in MRs :
               api'[m].create = "pending" <=> api[m].create = "pending"
<1>0. /\ WorkerOK /\ ApiOK /\ WorkerInv(w) /\ CopyInv(w) /\ mg[w] \in Object
      /\ pc[w] # "idle" => cur[w] \in MRs /\ api[cur[w]] \in Object
  BY DEF LoopInv, MRTypeOK, WorkerOK, ApiOK, RecordInv
<1>1. \A v \in Workers \ {w} : InCreate(v)' = InCreate(v) /\ cur'[v] = cur[v]
  BY <1>0, MovesAlone DEF InCreate
<1>2. ASSUME ~InCreate(w), ~InCreate(w)', SamePending PROVE Goal
  <2>1. \A v \in Workers : InCreate(v)' = InCreate(v) /\ (InCreate(v) => cur'[v] = cur[v])
    BY <1>1, <1>2 DEF InCreate
  <2> QED BY <1>2, <2>1, QuietLease
<1>3. ASSUME NEW m, NEW o, NEW p \in Phases \ {"create", "critical"}, Enter(w, m, o, p)
      PROVE  ~InCreate(w)'
  BY <1>0, <1>3, EnterOthers DEF InCreate
<1>4. ASSUME Release(w) \/ (\E o, r : Report(w, o, r)) \/ (\E m, o : PassGate(w, m, o))
             \/ (\E o, c : Decide(w, o, c))
      PROVE  ~InCreate(w)'
  BY <1>3, <1>4 DEF Release, Report, PassGate, Decide, Phases
<1>5. ASSUME UNCHANGED api PROVE SamePending
  BY <1>5
<1>6. ASSUME WriteFails(w), ~InCreate(w) PROVE Goal
  BY <1>2, <1>4, <1>5, <1>6 DEF WriteFails
<1>7. ASSUME NEW m \in MRs, Start(w, m) PROVE Goal
  <2>1. ~InCreate(w)' /\ ~InCreate(w) /\ UNCHANGED api
    BY <1>3, <1>4, <1>7 DEF Start, InCreate, Phases
  <2> QED BY <1>2, <1>5, <2>1
<1>8. CASE Initialize(w)
  <2> DEFINE o == [mg[w] EXCEPT !.ext = MetaName[cur[w]]]
  <2>0. ~InCreate(w) /\ cur[w] \in MRs /\ pc[w] = "init"
    BY <1>0, <1>8 DEF Initialize, InCreate
  <2>1. CASE w \in fresh /\ StoreBy(w, o) /\ PassGate(w, cur[w], o)
    <3>1. o.create = mg[w].create /\ mg[w].create = api[cur[w]].create
      BY <1>0, <2>0, <2>1 DEF Object, WorkerInv, Agrees
    <3>2. SamePending
      BY <1>0, <2>0, <2>1, <3>1, StoreQuiet DEF StoreBy
    <3> QED BY <1>2, <1>4, <2>0, <2>1, <3>2
  <2> QED BY <1>6, <1>8, <2>0, <2>1 DEF Initialize
<1>9. CASE AddFinalizer(w)
  <2> DEFINE o == [mg[w] EXCEPT !.fin = TRUE, !.synced = api[cur[w]].synced]
  <2>0. ~InCreate(w) /\ cur[w] \in MRs /\ pc[w] = "finalize"
    BY <1>0, <1>9 DEF AddFinalizer, InCreate
  <2>1. CASE w \in fresh /\ StoreBy(w, o) /\ Decide(w, obs[w], o)
    <3>1. o.create = mg[w].create /\ mg[w].create = api[cur[w]].create
      BY <1>0, <2>0, <2>1 DEF Object, WorkerInv, Agrees, Passed
    <3>2. SamePending
      BY <1>0, <2>0, <2>1, <3>1, StoreQuiet DEF StoreBy
    <3> QED BY <1>2, <1>4, <2>0, <2>1, <3>2
  <2> QED BY <1>6, <1>9, <2>0, <2>1 DEF AddFinalizer
<1>10. CASE RemoveFinalizer(w)
  <2>0. ~InCreate(w) /\ cur[w] \in MRs /\ pc[w] = "unfinalize"
    BY <1>0, <1>10 DEF RemoveFinalizer, InCreate
  <2>1. CASE w \in fresh /\ StoreByUser(cur[w], Blank) /\ Release(w)
    <3>1. Blank.create # "pending" /\ api[cur[w]].create # "pending"
      BY <1>0, <2>0, <2>1 DEF Blank, WorkerInv, Agrees, Passed
    <3>2. SamePending
      BY <1>0, <2>0, <2>1, <3>1, StoreQuiet DEF StoreByUser
    <3> QED BY <1>2, <1>4, <2>0, <2>1, <3>2
  <2> QED BY <1>6, <1>10, <2>0, <2>1 DEF RemoveFinalizer
<1>11. CASE CreatePending(w)
  <2> DEFINE o == [mg[w] EXCEPT !.create = "pending", !.synced = api[cur[w]].synced]
  <2>0. ~InCreate(w) /\ cur[w] \in MRs /\ pc[w] = "pending"
    BY <1>0, <1>11 DEF CreatePending, InCreate
  <2>1. CASE w \in fresh /\ StoreBy(w, o) /\ Enter(w, cur[w], o, "create")
    <3>1. api[cur[w]].create # "pending"
      BY <1>0, <2>0, <2>1 DEF WorkerInv, Agrees, Passed
    <3>2. InCreate(w)' /\ cur'[w] = cur[w]
      BY <1>0, <2>1, EnterOthers DEF InCreate
    <3>3. \A v \in Workers \ {w} : InCreate(v) => cur[v] # cur[w]
      BY <2>0, <2>1, NobodyElseCreates DEF Passed
    <3>4. \A m \in MRs \ {cur[w]} : api'[m].create = api[m].create
      BY <1>0, <2>0, <2>1 DEF StoreBy, Store, ApiOK
    <3> QED BY <1>1, <2>0, <3>1, <3>2, <3>3, <3>4, TakeLease
  <2> QED BY <1>6, <1>11, <2>0, <2>1 DEF CreatePending
<1>12. CASE UpdateCritical(w)
  <2>1. InCreate(w) /\ cur[w] \in MRs /\ ~InCreate(w)'
    BY <1>0, <1>4, <1>12 DEF UpdateCritical, InCreate
  <2>2. \A m \in MRs \ {cur[w]} : api'[m].create = api[m].create
    BY <1>0, <1>12, <2>1 DEF UpdateCritical, StoreBy, Store, ApiOK
  <2> QED BY <1>1, <2>1, <2>2, LeaveLease
<1>13. CASE StatusUpdate(w)
  <2> DEFINE o == [api[cur[w]] EXCEPT !.synced = mg[w].synced]
  <2>0. ~InCreate(w) /\ cur[w] \in MRs /\ Release(w)
    BY <1>0, <1>13 DEF StatusUpdate, InCreate
  <2>1. SamePending
    <3>1. CASE StoreByUser(cur[w], o)
      <4>1. o.create = api[cur[w]].create
        BY <1>0, <1>13 DEF StatusUpdate, Object
      <4> QED BY <1>0, <2>0, <3>1, <4>1, StoreQuiet DEF StoreByUser
    <3> QED BY <1>5, <1>13, <3>1 DEF StatusUpdate
  <2> QED BY <1>2, <1>4, <2>0, <2>1
<1> QED BY <1>7, <1>8, <1>9, <1>10, <1>11, <1>12, <1>13 DEF RuntimeStep

LEMMA ControllerLease ==
    ASSUME LoopInv, NEW w \in Workers, ControllerStep(w)
    PROVE  UNCHANGED Lease!leaseVars
<1>0. WorkerOK
  BY DEF LoopInv, MRTypeOK
<1>1. \A v \in Workers \ {w} : InCreate(v)' = InCreate(v) /\ cur'[v] = cur[v]
  BY <1>0, MovesAlone DEF InCreate
<1>2. UNCHANGED api
  BY DEF ControllerStep, NameInObserve, NameInCreate, ObserveAnswers, CreateReturns,
         CallReturns, Calls
<1>3. InCreate(w)' = InCreate(w) /\ (InCreate(w) => cur'[w] = cur[w])
  <2>1. ASSUME NEW e, NameInObserve(w, e) \/ NameInCreate(w, e) PROVE UNCHANGED <<pc, cur>>
    BY <2>1 DEF NameInObserve, NameInCreate
  <2>2. ASSUME NEW o, NEW c, ObserveAnswers(w, o, c)
        PROVE  pc[w] = "observe" /\ pc'[w] \notin {"create", "critical"}
    BY <1>0, <2>2, EnterOthers DEF ObserveAnswers, Report, Decide, WorkerOK
  <2>3. ASSUME NEW ok, NEW c, CreateReturns(w, ok, c)
        PROVE  pc[w] = "create" /\ pc'[w] = "critical" /\ cur'[w] = cur[w]
    BY <1>0, <2>3, EnterOthers DEF CreateReturns
  <2>4. ASSUME NEW ok, CallReturns(w, ok)
        PROVE  pc[w] \in {"update", "delete"} /\ pc'[w] = "status"
    BY <1>0, <2>4, EnterOthers DEF CallReturns, Report
  <2>5. InCreate(w)' <=> InCreate(w)
    BY <2>1, <2>2, <2>3, <2>4 DEF ControllerStep, InCreate
  <2>6. InCreate(w) => cur'[w] = cur[w]
    BY <2>1, <2>2, <2>3, <2>4 DEF ControllerStep, InCreate
  <2>7. InCreate(w) \in BOOLEAN /\ InCreate(w)' \in BOOLEAN
    BY DEF InCreate
  <2> QED BY <2>5, <2>6, <2>7
<1> QED BY <1>1, <1>2, <1>3, QuietLease

LEMMA EnvironmentLease ==
    ASSUME LoopInv, RecordInv, EnvironmentStep
    PROVE  Lease!LeaseNext \/ UNCHANGED Lease!leaseVars
<1>0. /\ WorkerOK /\ ApiOK /\ \A m \in MRs : api[m] \in Object /\ StoredInv(m)
      /\ \A v \in Workers : pc[v] # "idle" => cur[v] \in MRs
  BY DEF LoopInv, MRTypeOK, WorkerOK, ApiOK, RecordInv
<1>1. ASSUME NEW w \in Workers, Crash(w)
      PROVE  Lease!LeaseNext \/ UNCHANGED Lease!leaseVars
  <2>1. \A v \in Workers \ {w} : InCreate(v)' = InCreate(v) /\ cur'[v] = cur[v]
    BY <1>0, <1>1, MovesAlone DEF InCreate
  <2>2. ~InCreate(w)' /\ UNCHANGED api /\ cur[w] \in MRs
    BY <1>0, <1>1, EnterOthers DEF Crash, Release, InCreate
  <2>3. CASE InCreate(w)
    BY <2>1, <2>2, <2>3, LeaveLease
  <2>4. CASE ~InCreate(w)
    <3>1. \A v \in Workers : InCreate(v)' = InCreate(v) /\ (InCreate(v) => cur'[v] = cur[v])
      BY <2>1, <2>2, <2>4 DEF InCreate
    <3> QED BY <2>2, <3>1, QuietLease
  <2> QED BY <2>3, <2>4
<1>2. ASSUME NEW w \in Workers, NEW m \in MRs, CacheSync(w, m)
      PROVE  UNCHANGED Lease!leaseVars
  <2>1. UNCHANGED <<api, pc, cur>>
    BY <1>2 DEF CacheSync
  <2> QED BY <2>1, QuietLease DEF InCreate
<1>3. ASSUME NEW m \in MRs, NEW o, EditOnly, StoreByUser(m, o),
             o.create = "pending" <=> api[m].create = "pending"
      PROVE  UNCHANGED Lease!leaseVars
  BY <1>0, <1>3, StoreQuiet, QuietLease DEF EditOnly, StoreByUser, InCreate
<1>4. ASSUME NEW m \in MRs, UserDeletes(m) PROVE UNCHANGED Lease!leaseVars
  <2>1. Blank.create # "pending" /\ [api[m] EXCEPT !.del = TRUE].create = api[m].create
    BY <1>0 DEF Blank, Object
  <2> QED BY <1>0, <1>3, <1>4, <2>1 DEF UserDeletes, StoredInv
<1>5. ASSUME NEW m \in MRs, NEW s, UserEdits(m, s) PROVE UNCHANGED Lease!leaseVars
  <2>1. [api[m] EXCEPT !.spec = s].create = api[m].create
    BY <1>0 DEF Object
  <2> QED BY <1>3, <1>5, <2>1 DEF UserEdits
<1>6. ASSUME NEW m \in MRs, NEW s, NEW e, UserCreates(m, s, e) PROVE UNCHANGED Lease!leaseVars
  <2>1. [Blank EXCEPT !.exists = TRUE, !.spec = s, !.ext = e].create # "pending"
    BY DEF Blank
  <2> QED BY <1>0, <1>3, <1>6, <2>1 DEF UserCreates, StoredInv
<1> QED BY <1>1, <1>2, <1>4, <1>5, <1>6 DEF EnvironmentStep

\* The create annotations implement CreateLease, for any controller, any number
\* of replicas and any failures: once the outcome of a creation is lost, nobody
\* creates for that resource again.
THEOREM LeaseIsKept == MRSpec => ImplementsLease
<1>1. MRInit => Lease!LeaseInit
  BY DEF MRInit, Lease!LeaseInit, holders, lost, InCreate, Blank
<1>2. LoopInv /\ RecordInv /\ [MRNext]_mrVars => [Lease!LeaseNext]_(Lease!leaseVars)
  <2> SUFFICES ASSUME LoopInv, RecordInv, [MRNext]_mrVars
               PROVE  Lease!LeaseNext \/ UNCHANGED Lease!leaseVars
    OBVIOUS
  <2>1. CASE UNCHANGED mrVars
    BY <2>1, QuietLease DEF mrVars, InCreate
  <2> QED BY <2>1, RuntimeLease, ControllerLease, EnvironmentLease DEF MRNext
<1> QED BY <1>1, <1>2, LoopInvariant, RecordInvariant, PTL
     DEF MRSpec, ImplementsLease, Lease!LeaseSpec

-----------------------------------------------------------------------------
(* Only the creator names what it creates *)

EverybodyNamed == \A w \in Workers : NamedInv(w)

LEMMA EnterNamed ==
    ASSUME WorkerOK, NEW w \in Workers, NEW m, NEW o, NEW p, Enter(w, m, o, p),
           p \notin {"idle", "init", "status"} => o.ext # NoExt,
           p \notin {"init", "create", "critical"}
    PROVE  NamedInv(w)'
  BY EnterOthers DEF NamedInv, InCreate

LEMMA ReportNamed ==
    ASSUME WorkerOK, NEW w \in Workers, NEW o, NEW r, Report(w, o, r)
    PROVE  NamedInv(w)'
  BY EnterNamed DEF Report

LEMMA PassGateNamed ==
    ASSUME WorkerOK, NEW w \in Workers, NEW m, NEW o, PassGate(w, m, o), o.ext # NoExt
    PROVE  NamedInv(w)'
  BY EnterNamed DEF PassGate

LEMMA DecideNamed ==
    ASSUME WorkerOK, NEW w \in Workers, NEW o, NEW c, Decide(w, o, c), c.ext # NoExt
    PROVE  NamedInv(w)'
  BY EnterNamed, ReportNamed DEF Decide

LEMMA WriteFailsNamed ==
    ASSUME WorkerOK, NEW w \in Workers, WriteFails(w)
    PROVE  NamedInv(w)' /\ UNCHANGED api
  BY EnterNamed, ReportNamed DEF WriteFails, Release

\* Who writes while w creates, without being w, writes the name that is there.
LEMMA RecordStays ==
    ASSUME LoopInv, EverybodyNamed, NEW w \in Workers, InCreate(w), NEW v \in Workers \ {w}, RuntimeStep(v)
    PROVE  api'[cur[w]].ext = api[cur[w]].ext
<1>0. /\ ApiOK /\ WorkerOK /\ WorkerInv(v) /\ NamedInv(v) /\ NamedInv(w) /\ mg[v] \in Object
      /\ (pc[v] # "idle" => cur[v] \in MRs) /\ cur[w] \in MRs /\ api[cur[w]] \in Object
  BY DEF LoopInv, MRTypeOK, WorkerOK, ApiOK, EverybodyNamed, InCreate
<1>1. ASSUME NEW m, NEW o, Store(m, o), m = cur[w] => o.ext = api[m].ext
      PROVE  api'[cur[w]].ext = api[cur[w]].ext
  BY <1>0, <1>1 DEF Store, ApiOK
<1>2. UNCHANGED api => api'[cur[w]].ext = api[cur[w]].ext
  OBVIOUS
<1>3. v \in fresh /\ pc[v] \in Passed => cur[v] # cur[w]
  BY NobodyElseCreates
<1>4. CASE Initialize(v)
  <2>1. ASSUME v \in fresh, pc[v] = "init" PROVE cur[v] # cur[w]
    BY <1>0, <2>1 DEF NamedInv
  <2> QED BY <1>1, <1>2, <1>4, <2>1 DEF Initialize, WriteFails, StoreBy
<1>5. CASE AddFinalizer(v)
  BY <1>1, <1>2, <1>3, <1>5 DEF AddFinalizer, WriteFails, StoreBy, Passed
<1>6. CASE RemoveFinalizer(v)
  BY <1>1, <1>2, <1>3, <1>6 DEF RemoveFinalizer, WriteFails, StoreByUser, Passed
<1>7. CASE CreatePending(v)
  BY <1>1, <1>2, <1>3, <1>7 DEF CreatePending, WriteFails, StoreBy, Passed
<1>8. CASE UpdateCritical(v)
  <2>1. cur[v] # cur[w]
    BY <1>8 DEF UpdateCritical, InCreate, LoopInv, CreateExclusive
  <2> QED BY <1>1, <1>2, <1>8, <2>1 DEF UpdateCritical, StoreBy
<1>9. CASE StatusUpdate(v)
  <2> DEFINE o == [api[cur[v]] EXCEPT !.synced = mg[v].synced]
  <2>1. cur[v] = cur[w] => o.ext = api[cur[v]].ext
    BY <1>0 DEF Object
  <2>2. StoreByUser(cur[v], o) \/ UNCHANGED api
    BY <1>9 DEF StatusUpdate
  <2> HIDE DEF o
  <2> QED BY <1>1, <1>2, <2>1, <2>2 DEF StoreByUser
<1> QED BY <1>4, <1>5, <1>6, <1>7, <1>8, <1>9 DEF RuntimeStep, Start

LEMMA RuntimeNamed ==
    ASSUME LoopInv, EverybodyNamed, NEW w \in Workers, RuntimeStep(w)
    PROVE  NamedInv(w)'
<1>0. /\ ApiOK /\ WorkerOK /\ NamedInv(w) /\ mg[w] \in Object
      /\ pc[w] # "idle" => cur[w] \in MRs
      /\ \A m \in MRs : cache[w][m] \in Object
  BY DEF LoopInv, MRTypeOK, WorkerOK, RestOK, EverybodyNamed
<1>1. ASSUME NEW m \in MRs, Start(w, m) PROVE NamedInv(w)'
  <2>1. CASE cache[w][m].ext # NoExt
    BY <1>0, <1>1, <2>1, PassGateNamed DEF Start
  <2>2. CASE cache[w][m].ext = NoExt
    <3>1. pc'[w] = "init" /\ cur'[w] = m /\ UNCHANGED api
      BY <1>0, <1>1, <2>2, EnterOthers DEF Start
    <3>2. w \in fresh' => cache[w][m] = api[m]
      BY <1>0, <1>1 DEF Start, LoopInv, CacheInv, WorkerInv
    <3> QED BY <2>2, <3>1, <3>2 DEF NamedInv, InCreate
  <2> QED BY <2>1, <2>2
<1>2. CASE Initialize(w)
  <2> DEFINE o == [mg[w] EXCEPT !.ext = MetaName[cur[w]]]
  <2>1. CASE PassGate(w, cur[w], o)
    <3>1. o.ext # NoExt
      BY <1>0, <1>2, NamesAssumption DEF Initialize, Object
    <3> HIDE DEF o
    <3> QED BY <1>0, <2>1, <3>1, PassGateNamed
  <2> QED BY <1>0, <1>2, <2>1, WriteFailsNamed DEF Initialize
<1>3. CASE AddFinalizer(w)
  <2> DEFINE o == [mg[w] EXCEPT !.fin = TRUE, !.synced = api[cur[w]].synced]
  <2>1. CASE Decide(w, obs[w], o)
    <3>1. o.ext # NoExt
      BY <1>0, <1>3 DEF AddFinalizer, Object, NamedInv
    <3> HIDE DEF o
    <3> QED BY <1>0, <2>1, <3>1, DecideNamed
  <2> QED BY <1>0, <1>3, <2>1, WriteFailsNamed DEF AddFinalizer
<1>4. CASE RemoveFinalizer(w)
  BY <1>0, <1>4, WriteFailsNamed, EnterNamed DEF RemoveFinalizer, Release
<1>5. CASE CreatePending(w)
  <2> DEFINE o == [mg[w] EXCEPT !.create = "pending", !.synced = api[cur[w]].synced]
  <2>1. CASE StoreBy(w, o) /\ Enter(w, cur[w], o, "create")
    <3>1. o.ext # NoExt /\ cur[w] \in MRs
      BY <1>0, <1>5 DEF CreatePending, Object, NamedInv
    <3> HIDE DEF o
    <3>2. /\ pc'[w] = "create" /\ cur'[w] = cur[w] /\ mg'[w] = o
          /\ api'[cur[w]] = o
      BY <1>0, <2>1, <3>1, EnterOthers DEF StoreBy, Store, ApiOK
    <3> QED BY <3>1, <3>2 DEF NamedInv, InCreate
  <2> QED BY <1>0, <1>5, <2>1, WriteFailsNamed DEF CreatePending
<1>6. CASE UpdateCritical(w)
  BY <1>0, <1>6, ReportNamed DEF UpdateCritical
<1>7. CASE StatusUpdate(w)
  BY <1>0, <1>7, EnterNamed DEF StatusUpdate, Release
<1> QED BY <1>1, <1>2, <1>3, <1>4, <1>5, <1>6, <1>7 DEF RuntimeStep

LEMMA ControllerNamed ==
    ASSUME LoopInv, EverybodyNamed, NEW w \in Workers, ControllerStep(w)
    PROVE  NamedInv(w)'
<1>0. WorkerOK /\ NamedInv(w) /\ mg[w] \in Object /\ UNCHANGED <<api, fresh>>
  BY DEF LoopInv, MRTypeOK, WorkerOK, EverybodyNamed, ControllerStep, NameInObserve, NameInCreate,
         ObserveAnswers, CreateReturns, CallReturns, Calls
<1>1. /\ pc[w] \in {"observe", "create", "update", "delete"}
      /\ mg[w].ext # NoExt /\ \A e \in NamesFor(w) : e # NoExt
  <2>1. pc[w] \in {"observe", "create", "update", "delete"}
    BY DEF ControllerStep, NameInObserve, NameInCreate, ObserveAnswers, CreateReturns, CallReturns
  <2> QED BY <1>0, <2>1, NamesAssumption DEF NamedInv, NamesFor
<1>2. \A e, r : [mg[w] EXCEPT !.ext = e, !.synced = r].ext = e
  BY <1>0 DEF Object
<1>3. ASSUME NEW e \in NamesFor(w), NameInObserve(w, e) \/ NameInCreate(w, e) PROVE NamedInv(w)'
  <2>1. pc'[w] = pc[w] /\ cur'[w] = cur[w] /\ mg'[w].ext = e
    BY <1>0, <1>3 DEF NameInObserve, NameInCreate, WorkerOK, Object
  <2> QED BY <1>0, <1>1, <1>3, <2>1 DEF NamedInv, InCreate
<1>4. ASSUME NEW o, NEW c, c.ext # NoExt, ObserveAnswers(w, o, c) PROVE NamedInv(w)'
  <2>1. CASE /\ pc' = [pc EXCEPT ![w] = "finalize"]
             /\ mg' = [mg EXCEPT ![w] = c]
    <3>1. pc'[w] = "finalize" /\ mg'[w] = c
      BY <1>0, <2>1 DEF WorkerOK
    <3> QED BY <1>4, <3>1 DEF NamedInv, InCreate
  <2> QED BY <1>0, <1>4, <2>1, EnterNamed, ReportNamed, DecideNamed DEF ObserveAnswers
<1>5. ASSUME NEW ok, NEW e \in NamesFor(w), NEW r,
             CreateReturns(w, ok, [mg[w] EXCEPT !.ext = e, !.synced = r])
      PROVE  NamedInv(w)'
  <2> DEFINE c == [mg[w] EXCEPT !.ext = e, !.synced = r]
             o == [c EXCEPT !.create = IF ok THEN "succeeded" ELSE "failed"]
  <2>1. o.ext = e
    BY <1>0 DEF Object
  <2>2. Enter(w, cur[w], o, "critical") /\ pc[w] = "create"
    BY <1>5 DEF CreateReturns
  <2> HIDE DEF o
  <2>3. pc'[w] = "critical" /\ cur'[w] = cur[w] /\ mg'[w] = o
    BY <1>0, <2>2, EnterOthers
  <2> QED BY <1>0, <1>1, <2>1, <2>2, <2>3 DEF NamedInv, InCreate
<1>6. ASSUME NEW ok, CallReturns(w, ok) PROVE NamedInv(w)'
  BY <1>0, <1>6, ReportNamed DEF CallReturns
<1> QED BY <1>1, <1>2, <1>3, <1>4, <1>5, <1>6 DEF ControllerStep

\* Users rename no object that has its finalizer.
LEMMA UserRecord ==
    ASSUME LoopInv, NEW w \in Workers, InCreate(w),
           NEW m \in MRs, \/ UserDeletes(m) \/ \E s : UserEdits(m, s)
                          \/ \E s, e : UserCreates(m, s, e)
    PROVE  api'[cur[w]].ext = api[cur[w]].ext
<1>0. /\ ApiOK /\ cur[w] \in MRs /\ api[cur[w]] \in Object /\ api[m] \in Object
      /\ api[cur[w]].exists /\ api[cur[w]].fin
  BY DEF LoopInv, MRTypeOK, WorkerOK, ApiOK, WorkerInv, InCreate
<1>1. ASSUME NEW o, Store(m, o), m = cur[w] => o.ext = api[m].ext
      PROVE  api'[cur[w]].ext = api[cur[w]].ext
  BY <1>0, <1>1 DEF Store, ApiOK
<1>2. CASE UserDeletes(m)
  <2> DEFINE o == IF api[m].fin THEN [api[m] EXCEPT !.del = TRUE] ELSE Blank
  <2>1. m = cur[w] => o.ext = api[m].ext
    BY <1>0 DEF Object
  <2>2. Store(m, o)
    BY <1>2 DEF UserDeletes, StoreByUser
  <2> HIDE DEF o
  <2> QED BY <1>1, <2>1, <2>2
<1>3. ASSUME NEW s, UserEdits(m, s) PROVE api'[cur[w]].ext = api[cur[w]].ext
  <2> DEFINE o == [api[m] EXCEPT !.spec = s]
  <2>1. o.ext = api[m].ext
    BY <1>0 DEF Object
  <2>2. Store(m, o)
    BY <1>3 DEF UserEdits, StoreByUser
  <2> HIDE DEF o
  <2> QED BY <1>1, <2>1, <2>2
<1>4. ASSUME NEW s, NEW e, UserCreates(m, s, e) PROVE api'[cur[w]].ext = api[cur[w]].ext
  BY <1>0, <1>1, <1>4 DEF UserCreates, StoreByUser
<1> QED BY <1>2, <1>3, <1>4

LEMMA NamedStep ==
    ASSUME LoopInv, EverybodyNamed, [MRNext]_mrVars
    PROVE  EverybodyNamed'
<1>0. /\ MRTypeOK /\ WorkerOK /\ \A w \in Workers : NamedInv(w) /\ (pc[w] # "idle" => cur[w] \in MRs)
  BY DEF LoopInv, MRTypeOK, WorkerOK, EverybodyNamed
\* A worker that does not move keeps its names as long as the record does.
<1>1. ASSUME NEW v \in Workers, pc'[v] = pc[v], cur'[v] = cur[v], mg'[v] = mg[v],
             v \in fresh' /\ pc[v] = "init" => v \in fresh /\ api'[cur[v]] = api[cur[v]],
             InCreate(v) => api'[cur[v]].ext = api[cur[v]].ext
      PROVE  NamedInv(v)'
  BY <1>0, <1>1 DEF NamedInv, InCreate
<1>2. ASSUME NEW w \in Workers, RuntimeStep(w) \/ ControllerStep(w) \/ Crash(w),
             NEW v \in Workers \ {w}
      PROVE  NamedInv(v)'
  <2>1. pc'[v] = pc[v] /\ cur'[v] = cur[v] /\ mg'[v] = mg[v]
    BY <1>0, <1>2, MovesAlone
  <2>2. v \in fresh' /\ pc[v] = "init" => v \in fresh /\ api'[cur[v]] = api[cur[v]]
    BY <1>0, <1>2, FreshStays
  <2>3. ControllerStep(w) \/ Crash(w) => UNCHANGED api
    BY DEF ControllerStep, NameInObserve, NameInCreate, ObserveAnswers, CreateReturns, CallReturns,
           Calls, Crash
  <2>4. InCreate(v) => api'[cur[v]].ext = api[cur[v]].ext
    BY <1>2, <2>3, RecordStays
  <2> QED BY <1>1, <2>1, <2>2, <2>4
<1>3. ASSUME NEW w \in Workers, RuntimeStep(w) \/ ControllerStep(w) PROVE EverybodyNamed'
  BY <1>2, <1>3, RuntimeNamed, ControllerNamed DEF EverybodyNamed
<1>4. ASSUME NEW w \in Workers, Crash(w) PROVE EverybodyNamed'
  <2>1. NamedInv(w)'
    BY <1>0, <1>4, EnterNamed DEF Crash, Release
  <2> QED BY <1>2, <1>4, <2>1 DEF EverybodyNamed
<1>5. ASSUME NEW w \in Workers, NEW m \in MRs, CacheSync(w, m) PROVE EverybodyNamed'
  BY <1>0, <1>5 DEF CacheSync, EverybodyNamed, NamedInv, InCreate
<1>6. ASSUME NEW m \in MRs, \/ UserDeletes(m) \/ \E s \in Specs : UserEdits(m, s)
                            \/ \E s \in Specs, e \in ExtNames \cup {NoExt} : UserCreates(m, s, e)
      PROVE  EverybodyNamed'
  <2>1. UNCHANGED <<pc, cur, mg>> /\ EnvironmentStep
    BY <1>6 DEF UserDeletes, UserEdits, UserCreates, EditOnly, EnvironmentStep
  <2>2. ASSUME NEW v \in Workers PROVE NamedInv(v)'
    <3>1. Crash(v) => FALSE
      <4>1. Crash(v) => pc'[v] = "idle" /\ pc[v] # "idle"
        BY <1>0 DEF Crash, Release, Enter, WorkerOK
      <4> QED BY <2>1, <4>1
    <3>2. v \in fresh' /\ pc[v] = "init" => v \in fresh /\ api'[cur[v]] = api[cur[v]]
      BY <1>0, <2>1, <3>1, FreshStays
    <3>3. InCreate(v) => api'[cur[v]].ext = api[cur[v]].ext
      BY <1>6, UserRecord
    <3> QED BY <1>1, <2>1, <3>2, <3>3
  <2> QED BY <2>2 DEF EverybodyNamed
<1>7. CASE UNCHANGED mrVars
  BY <1>0, <1>7 DEF mrVars, EverybodyNamed, NamedInv, InCreate
<1> QED BY <1>3, <1>4, <1>5, <1>6, <1>7 DEF MRNext, EnvironmentStep

LEMMA NamedInvariant == MRSpec => []EverybodyNamed
<1>1. MRInit => EverybodyNamed
  BY DEF MRInit, EverybodyNamed, NamedInv, InCreate
<1>2. LoopInv /\ EverybodyNamed /\ [MRNext]_mrVars => EverybodyNamed'
  BY NamedStep
<1> QED BY <1>1, <1>2, LoopInvariant, PTL DEF MRSpec

\* What a step does to the name of a resource somebody creates for.
LEMMA NamerStep ==
    ASSUME LoopInv, EverybodyNamed, [MRNext]_mrVars, NEW w \in Workers, InCreate(w),
           api'[cur[w]].ext # api[cur[w]].ext
    PROVE  pc[w] = "critical" /\ pc'[w] # pc[w]
<1>1. ASSUME NEW v \in Workers, ControllerStep(v) \/ Crash(v) \/ (\E m \in MRs : CacheSync(v, m)) PROVE FALSE
  BY <1>1 DEF ControllerStep, NameInObserve, NameInCreate, ObserveAnswers, CreateReturns, CallReturns,
              Calls, Crash, CacheSync
<1>2. UNCHANGED mrVars => FALSE
  BY DEF mrVars
<1>3. ASSUME NEW m \in MRs, \/ UserDeletes(m) \/ \E s \in Specs : UserEdits(m, s)
                            \/ \E s \in Specs, e \in ExtNames \cup {NoExt} : UserCreates(m, s, e)
      PROVE  FALSE
  BY <1>3, UserRecord
<1>4. RuntimeStep(w)
  BY <1>1, <1>2, <1>3, RecordStays DEF MRNext, EnvironmentStep
<1>5. UpdateCritical(w)
  BY <1>4 DEF RuntimeStep, InCreate, Start, Initialize, AddFinalizer, RemoveFinalizer, CreatePending,
              StatusUpdate
<1>6. pc'[w] = "status"
  BY <1>5 DEF UpdateCritical, Report, Enter, LoopInv, MRTypeOK, WorkerOK
<1> QED BY <1>5, <1>6 DEF UpdateCritical

\* While a worker creates, the recorded name changes only when its creation is
\* recorded (managed.Reconciler; UpdateCriticalAnnotations).
THEOREM OnlyTheCreatorNames == MRSpec => CreatorNames
<1>1. LoopInv /\ EverybodyNamed /\ [MRNext]_mrVars
          => [\A w \in Workers :
                 /\ InCreate(w)
                 /\ api'[cur[w]].ext # api[cur[w]].ext
                 => pc[w] = "critical" /\ pc'[w] # pc[w]]_mrVars
  BY NamerStep
<1> QED BY <1>1, LoopInvariant, NamedInvariant, PTL DEF MRSpec, CreatorNames
=============================================================================
