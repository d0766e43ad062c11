------------------------- MODULE ManagedReconciler -------------------------
(***************************************************************************)
(* The reconcile loop every managed-resource controller of the provider    *)
(* runs in: crossplane-runtime's managed.Reconciler, as the Setup          *)
(* functions of internal/controller configure it (default initializer,     *)
(* default finalizer, default critical-annotation updater, poll interval   *)
(* left to the runtime).  The runtime is a library, so these definitions   *)
(* are external; a controller module EXTENDS this one and says what its    *)
(* Connect, Observe, Create, Update and Delete do while pc is at the       *)
(* phase of that name.  Here those calls are abstract: they answer         *)
(* anything.                                                               *)
(*                                                                         *)
(* A worker is one replica of the provider with the default concurrency of *)
(* one reconcile at a time.  Leader election is off by default, so several *)
(* replicas may run.  The Kubernetes API is the variable api; each worker  *)
(* reads through an informer cache that may lag behind it.                 *)
(*                                                                         *)
(* resourceVersion is abstracted to the one thing optimistic concurrency   *)
(* asks of it, whether a copy is still the latest version: a write of w    *)
(* succeeds only when w \in fresh, and every write makes other copies old. *)
(***************************************************************************)
EXTENDS Naturals, FiniteSets

CONSTANTS
    MRs,         \* the managed resources (by Kubernetes name)
    Workers,     \* the provider's replicas
    ExtNames,    \* values of the external-name annotation
    NoExt,       \* the annotation is absent
    MetaName,    \* MetaName[m]: metadata.name of m, as an external name
    Specs,       \* values of spec.forProvider
    ConditionReasons, \* reasons the controller itself sets on Synced
    NoSpec, NoMR,
    MaxEdits,    \* bound on user writes (create, edit, delete) of resources
    MaxFaults,   \* bound on failed or lost calls
    MaxCrashes   \* bound on crashes of workers

ASSUME NamesAssumption ==
    /\ NoExt \notin ExtNames
    /\ NoMR \notin MRs
    /\ NoSpec \notin Specs
    /\ MetaName \in [MRs -> ExtNames]

ASSUME BoundsAssumption ==
    MaxEdits \in Nat /\ MaxFaults \in Nat /\ MaxCrashes \in Nat

VARIABLES
    api,      \* api[m]: the object the API server stores
    cache,    \* cache[w][m]: the object w's informer holds
    current,  \* current[w]: the resources whose cached object is the latest
    cur,      \* cur[w]: the resource w reconciles
    mg,       \* mg[w]: w's working copy of it
    fresh,    \* the workers whose working copy is the latest version
    obs,      \* obs[w]: the observation w carries over AddFinalizer
    pc,       \* pc[w]: the phase of w's reconcile
    edits, faults, crashes

mrVars == <<api, cache, current, cur, mg, fresh, obs, pc, edits, faults, crashes>>

-----------------------------------------------------------------------------
(* Objects *)

\* The create annotations: the latest of external-create-pending, -failed
\* and -succeeded.  "pending" is meta.ExternalCreateIncomplete.
CreateStates == {"none", "pending", "failed", "succeeded"}

\* The reason of the Synced condition.  There is one Synced condition: setting
\* it again overwrites it.
Reasons == {"none", "ReconcileSuccess", "ReconcileError"} \cup ConditionReasons

Observations == {"error", "missing", "drifted", "uptodate"}

Phases == {"idle", "init", "observe", "finalize", "pending", "create",
           "critical", "update", "delete", "unfinalize", "status"}

Object ==
    {o \in [exists : BOOLEAN, del : BOOLEAN, fin : BOOLEAN,
            ext : ExtNames \cup {NoExt}, create : CreateStates,
            spec : Specs \cup {NoSpec}, synced : Reasons] :
        o.exists => o.spec \in Specs}

Blank == [exists |-> FALSE, del |-> FALSE, fin |-> FALSE, ext |-> NoExt,
          create |-> "none", spec |-> NoSpec, synced |-> "none"]

\* The types of what the API server, the workers and the rest of the state hold.
ApiOK == api \in [MRs -> Object] /\ current \in [Workers -> SUBSET MRs]

WorkerOK ==
    /\ cur \in [Workers -> MRs \cup {NoMR}]
    /\ mg \in [Workers -> Object]
    /\ obs \in [Workers -> Observations]
    /\ pc \in [Workers -> Phases]
    /\ \A w \in Workers : pc[w] # "idle" => cur[w] \in MRs

RestOK ==
    /\ cache \in [Workers -> [MRs -> Object]]
    /\ fresh \in SUBSET Workers
    /\ edits \in 0 .. MaxEdits
    /\ faults \in 0 .. MaxFaults
    /\ crashes \in 0 .. MaxCrashes

\* The variables of the loop keep their types, and a worker that is not idle
\* reconciles a resource (managed.Reconciler, Reconcile).
MRTypeOK == ApiOK /\ WorkerOK /\ RestOK

MRInit ==
    /\ api = [m \in MRs |-> Blank]
    /\ cache = [w \in Workers |-> [m \in MRs |-> Blank]]
    /\ current = [w \in Workers |-> MRs]
    /\ cur = [w \in Workers |-> NoMR]
    /\ mg = [w \in Workers |-> Blank]
    /\ fresh = {}
    /\ obs = [w \in Workers |-> "error"]
    /\ pc = [w \in Workers |-> "idle"]
    /\ edits = 0
    /\ faults = 0
    /\ crashes = 0

-----------------------------------------------------------------------------
(* Writes of the API server *)

\* The server stores o as m: every cached or working copy of m is now old.
Store(m, o) ==
    /\ api' = [api EXCEPT ![m] = o]
    /\ current' = [v \in Workers |-> current[v] \ {m}]

\* A write by someone who is not reconciling m.
StoreByUser(m, o) ==
    /\ Store(m, o)
    /\ fresh' = {v \in fresh : cur[v] # m}

\* A write by w of the resource it reconciles; the response refreshes its copy.
StoreBy(w, o) ==
    /\ Store(cur[w], o)
    /\ fresh' = {v \in fresh : cur[v] # cur[w]} \cup {w}

\* A call to Slack or to the API server fails.
Fault == faults < MaxFaults /\ faults' = faults + 1

-----------------------------------------------------------------------------
(* Moves of a worker *)

\* w continues its reconcile of m at phase p, with working copy o.
Enter(w, m, o, p) ==
    /\ pc' = [pc EXCEPT ![w] = p]
    /\ cur' = [cur EXCEPT ![w] = m]
    /\ mg' = [mg EXCEPT ![w] = o]
    /\ obs' = [obs EXCEPT ![w] = "error"]

\* w ends its reconcile; the item goes back to the queue.
Release(w) == Enter(w, NoMR, Blank, "idle")

\* Slip: the loop forgets which resource it reports on.
ReportForNone(w, o, r) == Enter(w, NoMR, [o EXCEPT !.synced = r], "status")

\* w goes on to its status update, the Synced condition set for reason r.
Report(w, o, r) == Enter(w, cur[w], [o EXCEPT !.synced = r], "status")

\* Slip: an unfinished creation is not noticed.
OpenGate(w, m, o) == Enter(w, m, o, "observe")

\* Slip: deletions may pass, to get rid of the external object.
GateForDeletions(w, m, o) ==
    IF o.create = "pending" /\ ~o.del
    THEN Enter(w, m, [o EXCEPT !.synced = "ReconcileError"], "status")
    ELSE Enter(w, m, o, "observe")

\* A reconcile proceeds with copy o of m, unless a creation was started and its
\* outcome never recorded: then it reports an error, even for a deletion.
PassGate(w, m, o) ==
    IF o.create = "pending"
    THEN Enter(w, m, [o EXCEPT !.synced = "ReconcileError"], "status")
    ELSE Enter(w, m, o, "observe")

\* A write of w is refused as a conflict, and the item is requeued at once, or
\* it fails otherwise, and the error is reported.
WriteFails(w) ==
    /\ \/ w \notin fresh /\ Release(w) /\ UNCHANGED faults
       \/ Fault /\ Report(w, mg[w], "ReconcileError")
    /\ UNCHANGED <<api, current, fresh>>

\* Status().Update writes the status, only over the version w holds.  An update
\* that changes nothing makes no new version; a refused one is dropped.
StatusUpdate(w) ==
    LET m == cur[w]
        changes == mg[w].synced # api[m].synced
    IN  /\ pc[w] = "status"
        /\ Release(w)
        /\ \/ /\ w \in fresh /\ changes
              /\ StoreByUser(m, [api[m] EXCEPT !.synced = mg[w].synced])
              /\ UNCHANGED faults
           \/ /\ IF w \in fresh /\ changes THEN Fault ELSE UNCHANGED faults
              /\ fresh' = fresh \ {w}
              /\ UNCHANGED <<api, current>>
        /\ UNCHANGED <<cache, edits, crashes>>

-----------------------------------------------------------------------------
(* Start and initializer *)

\* The work queue hands m to w, which reads it from its cache.
Start(w, m) ==
    /\ pc[w] = "idle"
    /\ cache[w][m].exists
    /\ fresh' = IF m \in current[w] THEN fresh \cup {w} ELSE fresh
    /\ IF cache[w][m].ext = NoExt THEN Enter(w, m, cache[w][m], "init")
                                  ELSE PassGate(w, m, cache[w][m])
    /\ UNCHANGED <<api, cache, current, edits, faults, crashes>>

\* NameAsExternalName: a resource without an external name gets its own name.
Initialize(w) ==
    /\ pc[w] = "init"
    /\ \/ LET o == [mg[w] EXCEPT !.ext = MetaName[cur[w]]]
          IN  /\ w \in fresh
              /\ StoreBy(w, o)
              /\ PassGate(w, cur[w], o)
              /\ UNCHANGED faults
       \/ WriteFails(w)
    /\ UNCHANGED <<cache, edits, crashes>>

-----------------------------------------------------------------------------
(* Observe, and what the loop does with its answer *)

\* w writes nothing in this step: it only calls out.
Calls == UNCHANGED <<api, cache, current, fresh, edits, crashes>>

\* Observe names the external resource in w's copy and goes on.
NameInObserve(w, e) ==
    /\ pc[w] = "observe"
    /\ mg' = [mg EXCEPT ![w].ext = e]
    /\ Calls /\ UNCHANGED <<cur, obs, pc>>

\* The loop acts on observation o of a resource that has its finalizer.
Decide(w, o, c) ==
    \/ o = "missing" /\ Enter(w, cur[w], c, "pending")
    \/ o = "drifted" /\ Enter(w, cur[w], c, "update")
    \/ o = "uptodate" /\ Report(w, c, "ReconcileSuccess")

\* Connect or Observe answers o, having left w's copy as c.
ObserveAnswers(w, o, c) ==
    /\ pc[w] = "observe"
    /\ \/ o = "error" /\ Report(w, c, "ReconcileError")
       \/ o = "missing" /\ c.del /\ Enter(w, cur[w], c, "unfinalize")
       \/ o \in {"drifted", "uptodate"} /\ c.del /\ Enter(w, cur[w], c, "delete")
       \/ ~c.del /\ c.fin /\ Decide(w, o, c)
       \/ /\ o # "error" /\ ~c.del /\ ~c.fin
          /\ pc' = [pc EXCEPT ![w] = "finalize"]
          /\ mg' = [mg EXCEPT ![w] = c]
          /\ obs' = [obs EXCEPT ![w] = o]
          /\ UNCHANGED cur
    /\ Calls

\* Slip: the object is written whatever became of it meanwhile.
AddFinalizerBlindly(w) ==
    /\ pc[w] = "finalize"
    /\ LET o == [mg[w] EXCEPT !.fin = TRUE, !.synced = api[cur[w]].synced]
       IN  StoreBy(w, o) /\ Decide(w, obs[w], o)
    /\ UNCHANGED <<cache, edits, faults, crashes>>

\* AddFinalizer writes the whole object, so it also persists an external name
\* that Observe set; the response resets the status of w's copy.
AddFinalizer(w) ==
    /\ pc[w] = "finalize"
    /\ \/ LET o == [mg[w] EXCEPT !.fin = TRUE, !.synced = api[cur[w]].synced]
          IN  /\ w \in fresh
              /\ StoreBy(w, o)
              /\ Decide(w, obs[w], o)
              /\ UNCHANGED faults
       \/ WriteFails(w)
    /\ UNCHANGED <<cache, edits, crashes>>

\* RemoveFinalizer is the last write of a deleted resource: the object goes.
RemoveFinalizer(w) ==
    /\ pc[w] = "unfinalize"
    /\ \/ /\ w \in fresh
          /\ StoreByUser(cur[w], Blank)
          /\ Release(w)
          /\ UNCHANGED faults
       \/ WriteFails(w)
    /\ UNCHANGED <<cache, edits, crashes>>

-----------------------------------------------------------------------------
(* Create, Update, Delete *)

\* external-create-pending is written before Create is called.
CreatePending(w) ==
    /\ pc[w] = "pending"
    /\ \/ LET o == [mg[w] EXCEPT !.create = "pending", !.synced = api[cur[w]].synced]
          IN  /\ w \in fresh
              /\ StoreBy(w, o)
              /\ Enter(w, cur[w], o, "create")
              /\ UNCHANGED faults
       \/ WriteFails(w)
    /\ UNCHANGED <<cache, edits, crashes>>

\* Create names the external resource in w's copy and goes on.
NameInCreate(w, e) ==
    /\ pc[w] = "create"
    /\ mg' = [mg EXCEPT ![w].ext = e]
    /\ Calls /\ UNCHANGED <<cur, obs, pc>>

\* Create returns, with an error or not, having left w's copy as c.
CreateReturns(w, ok, c) ==
    /\ pc[w] = "create"
    /\ Enter(w, cur[w],
             [c EXCEPT !.create = IF ok THEN "succeeded" ELSE "failed"], "critical")
    /\ Calls

\* UpdateCriticalAnnotations: the external name and the outcome of Create are
\* written with retries that merge them into the latest version of the object.
UpdateCritical(w) ==
    /\ pc[w] = "critical"
    /\ LET r == IF mg[w].create = "succeeded" THEN "ReconcileSuccess" ELSE "ReconcileError"
           o == [api[cur[w]] EXCEPT !.ext = mg[w].ext, !.create = mg[w].create]
       IN  \/ /\ api[cur[w]].exists
              /\ StoreBy(w, o)
              /\ Report(w, o, r)
              /\ UNCHANGED faults
           \/ \* The retries run out: the outcome is not recorded.
              /\ Fault
              /\ Report(w, mg[w], "ReconcileError")
              /\ UNCHANGED <<api, current, fresh>>
    /\ UNCHANGED <<cache, edits, crashes>>

\* Update or Delete returns; whatever condition the call set is overwritten.
CallReturns(w, ok) ==
    /\ pc[w] \in {"update", "delete"}
    /\ Report(w, mg[w], IF ok THEN "ReconcileSuccess" ELSE "ReconcileError")
    /\ Calls

-----------------------------------------------------------------------------
(* The environment *)

\* The informer of w catches up with the API server.
CacheSync(w, m) ==
    /\ m \notin current[w]
    /\ cache' = [cache EXCEPT ![w][m] = api[m]]
    /\ current' = [current EXCEPT ![w] = @ \cup {m}]
    /\ UNCHANGED <<api, cur, mg, fresh, obs, pc, edits, faults, crashes>>

\* w dies in the middle of a reconcile and is restarted.
Crash(w) ==
    /\ pc[w] # "idle"
    /\ crashes < MaxCrashes
    /\ crashes' = crashes + 1
    /\ Release(w)
    /\ fresh' = fresh \ {w}
    /\ UNCHANGED <<api, cache, current, edits, faults>>

Edit == edits < MaxEdits /\ edits' = edits + 1
EditOnly == UNCHANGED <<cache, cur, mg, obs, pc, faults, crashes>>

\* A user applies m with spec s, and with external name e to import a resource.
UserCreates(m, s, e) ==
    /\ ~api[m].exists
    /\ Edit /\ EditOnly
    /\ StoreByUser(m, [Blank EXCEPT !.exists = TRUE, !.spec = s, !.ext = e])

UserEdits(m, s) ==
    /\ api[m].exists /\ s # api[m].spec
    /\ Edit /\ EditOnly
    /\ StoreByUser(m, [api[m] EXCEPT !.spec = s])

\* Deletion waits for the finalizer; without one the object goes at once.
UserDeletes(m) ==
    /\ api[m].exists /\ ~api[m].del
    /\ Edit /\ EditOnly
    /\ StoreByUser(m, IF api[m].fin THEN [api[m] EXCEPT !.del = TRUE] ELSE Blank)

-----------------------------------------------------------------------------
(* The specification of the loop around any controller *)

\* The steps in which w calls no code of a controller.
RuntimeStep(w) ==
    \/ \E m \in MRs : Start(w, m)
    \/ Initialize(w) \/ AddFinalizer(w) \/ RemoveFinalizer(w)
    \/ CreatePending(w) \/ UpdateCritical(w) \/ StatusUpdate(w)

\* What a call may make of w's copy: it names the resource, sets a condition.
NamesFor(w) == ExtNames \cup {mg[w].ext}
ReasonsFor(w) == ConditionReasons \cup {mg[w].synced}

\* The steps in which it does: the controller may answer anything.
ControllerStep(w) ==
    /\ \/ \E e \in NamesFor(w) : NameInObserve(w, e) \/ NameInCreate(w, e)
       \/ \E o \in Observations, e \in NamesFor(w), r \in ReasonsFor(w) :
             ObserveAnswers(w, o, [mg[w] EXCEPT !.ext = e, !.synced = r])
       \/ \E ok \in BOOLEAN, e \in NamesFor(w), r \in ReasonsFor(w) :
             CreateReturns(w, ok, [mg[w] EXCEPT !.ext = e, !.synced = r])
       \/ \E ok \in BOOLEAN : CallReturns(w, ok)
    /\ UNCHANGED faults \/ Fault

EnvironmentStep ==
    \/ \E w \in Workers : Crash(w) \/ \E m \in MRs : CacheSync(w, m)
    \/ \E m \in MRs : UserDeletes(m) \/ \E s \in Specs : UserEdits(m, s)
    \/ \E m \in MRs, s \in Specs, e \in ExtNames \cup {NoExt} : UserCreates(m, s, e)

MRNext == EnvironmentStep \/ \E w \in Workers : RuntimeStep(w) \/ ControllerStep(w)

MRSpec == MRInit /\ [][MRNext]_mrVars

-----------------------------------------------------------------------------
(* Properties *)

InCreate(w) == pc[w] \in {"create", "critical"}

\* At most one worker at a time is between external-create-pending and the
\* record of the outcome of one resource, whatever the caches hold and whoever
\* crashed: no two replicas create the Slack object of one resource together.
CreateExclusive ==
    \A v, w \in Workers :
        (InCreate(v) /\ InCreate(w) /\ cur[v] = cur[w]) => v = w

\* The leases that the create annotations stand for: who is creating, and the
\* resources whose pending annotation nobody stands behind any more.
holders == [m \in MRs |-> {w \in Workers : InCreate(w) /\ cur[w] = m}]
lost == {m \in MRs : api[m].create = "pending" /\ holders[m] = {}}

Lease == INSTANCE CreateLease

\* The loop implements CreateLease: one worker creates for a resource at a time,
\* and once a creation has lost its outcome, to a crash or to writes that fail,
\* no replica ever creates for that resource again, deleted or not, whatever
\* their caches hold (meta.ExternalCreateIncomplete in Reconcile).
ImplementsLease == Lease!LeaseSpec

\* m keeps what users decided of it: its spec, and that it is to be deleted or
\* not.  It may go only if it is to be deleted, and does not come back.
KeepsDecision(m) ==
    /\ api'[m].exists => /\ api[m].exists
                         /\ api'[m].spec = api[m].spec /\ api'[m].del = api[m].del
    /\ (api[m].exists /\ ~api'[m].exists) => api[m].del

\* Only users change a spec, ask for a deletion or make a resource: no replica
\* writes an old copy of the object over what a user has decided since, or
\* brings back an object that has gone (writes of AddFinalizer and the others).
UsersDecide == [][edits' = edits => \A m \in MRs : KeepsDecision(m)]_mrVars

\* While a worker creates for a resource nobody records another external name for
\* it, not even a replica that starts from an old cached copy: the name changes
\* only when the creation itself is recorded (UpdateCriticalAnnotations).
CreatorNames ==
    [][\A w \in Workers :
          /\ InCreate(w)
          /\ api'[cur[w]].ext # api[cur[w]].ext
          => pc[w] = "critical" /\ pc'[w] # pc[w]]_mrVars

-----------------------------------------------------------------------------
(* The inductive invariant behind CreateExclusive *)

\* The phases whose copy has passed the create-incomplete gate.
Passed == {"observe", "finalize", "pending", "unfinalize", "update", "delete"}

\* The latest copy of a worker agrees with the API server on all that the
\* worker does not itself change.
Agrees(w) ==
    LET o == api[cur[w]]
    IN  /\ mg[w].exists = o.exists /\ mg[w].del = o.del /\ mg[w].fin = o.fin
        /\ mg[w].create = o.create /\ mg[w].spec = o.spec

\* A Create section stands behind a stored pending annotation and a finalizer,
\* which a latest copy that passed the gate excludes.
WorkerInv(w) ==
    /\ pc[w] = "idle" => w \notin fresh
    /\ pc[w] \notin {"idle", "status"} => mg[w].exists
    /\ (w \in fresh /\ pc[w] \in Passed \cup {"init"}) => Agrees(w)
    /\ pc[w] \in Passed => mg[w].create # "pending"
    /\ pc[w] = "pending" => mg[w].fin
    /\ InCreate(w) => /\ api[cur[w]].exists /\ api[cur[w]].fin
                      /\ api[cur[w]].create = "pending"

\* A cached object is the stored one as long as it is the latest version.
CacheInv == \A w \in Workers, m \in MRs : m \in current[w] => cache[w][m] = api[m]

LoopInv == MRTypeOK /\ CacheInv /\ (\A w \in Workers : WorkerInv(w)) /\ CreateExclusive

-----------------------------------------------------------------------------
(* What ImplementsLease and UsersDecide need besides *)

\* A pending annotation is stored only in an object that has its finalizer.
StoredInv(m) == api[m].create = "pending" => api[m].exists /\ api[m].fin

CopyInv(w) ==
    /\ pc[w] = "critical" => mg[w].create \in {"succeeded", "failed"}
    /\ pc[w] = "unfinalize" => mg[w].del

RecordInv == (\A m \in MRs : StoredInv(m)) /\ (\A w \in Workers : CopyInv(w))

\* What CreatorNames needs: the initializer works on an object without a name, and
\* everybody after it on one that has a name.
NamedInv(w) ==
    /\ pc[w] \notin {"idle", "init", "status"} => mg[w].ext # NoExt
    /\ (w \in fresh /\ pc[w] = "init") => api[cur[w]].ext = NoExt
    /\ InCreate(w) => api[cur[w]].ext # NoExt
=============================================================================
