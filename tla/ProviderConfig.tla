--------------------------- MODULE ProviderConfig ---------------------------
(***************************************************************************)
(* The ProviderConfig controller (internal/controller/providerconfig) on   *)
(* one ProviderConfig: a wrapper that calls the reconciler of              *)
(* crossplane-runtime (finalizer, count of the users, deletion; external)  *)
(* and then judges the credentials.                                        *)
(*                                                                         *)
(* The controller watches the ProviderConfig and its usages, not Secrets.  *)
(* It reads through the manager's cached client, which has an informer of  *)
(* its own for each kind: what a replica sees of the ProviderConfig (the   *)
(* variables of module ManagedReconciler, for one object) and what it sees *)
(* of the usages lag independently, and an old copy of the ProviderConfig  *)
(* makes a write conflict.  What the informer shows of Secrets is what     *)
(* secret holds.  A worker is a replica, as leader election is off by      *)
(* default.                                                                *)
(***************************************************************************)
EXTENDS Naturals, FiniteSets

CONSTANTS
    Workers,
    Secrets,      \* keys of Secrets that credentials may refer to
    NoRef,        \* the credentials name no Secret, or another source
    Users,        \* managed resources that may use the ProviderConfig
    MaxEdits,     \* bound on what users do
    MaxFaults,    \* bound on failed calls
    MaxCrashes    \* bound on crashes

ASSUME ConfigAssumption ==
    /\ Workers # {} /\ IsFiniteSet(Users) /\ NoRef \notin Secrets
    /\ MaxEdits \in Nat /\ MaxFaults \in Nat /\ MaxCrashes \in Nat

VARIABLES
    config,   \* the ProviderConfig the API server stores
    secret,   \* secret[s]: what the Secret has under the key s
    usages,   \* who has a ProviderConfigUsage
    seen,     \* seen[w]: the usages that w's informer of usages shows
    old,      \* history: old[w] is who of seen[w] used it when deletion was asked for,
              \* and ever since
    unread,   \* history: a Secret has changed, or could not be read, since it was last read
    cache,    \* cache[w]: the ProviderConfig w's informer holds
    current,  \* the workers whose informer holds the latest version
    queued,   \* the workers whose work queue holds it
    pc,       \* pc[w]: the phase of w's reconcile
    copy,     \* copy[w]: w's working copy
    fresh,    \* the workers whose working copy is the latest version
    again,    \* the workers that have to requeue the item after this reconcile
    deleted,  \* the workers that saw it deleted at the start
    users,    \* users[w]: the number of users w has counted
    token,    \* token[w]: what w has read of the Secret
    edits, faults, crashes

ownVars == <<again, deleted, users, token>>
worldVars == <<secret, usages, seen, old>>
vars == <<config, worldVars, unread, cache, current, queued, pc, copy, fresh, ownVars,
          edits, faults, crashes>>

-----------------------------------------------------------------------------
(* Objects *)

\* An absent Secret; no such key in it, nothing under the key or no bot token; a
\* bot token.
Contents == {"absent", "invalid", "valid"}

\* What ExtractToken returns: an error or a token.
Tokens == {"error", "invalid", "valid"}

Conditions == {"none", "True", "SecretNotFound", "InvalidCredentials"}

Config == [exists : BOOLEAN, del : BOOLEAN, fin : BOOLEAN, credentials : Secrets \cup {NoRef},
           ready : Conditions, users : 0 .. Cardinality(Users)]

NoConfig == [exists |-> FALSE, del |-> FALSE, fin |-> FALSE, credentials |-> NoRef,
             ready |-> "none", users |-> 0]

Phases == {"idle", "standard", "finalizer", "count", "terminating", "unfinalize",
           "get", "extract", "status"}

-----------------------------------------------------------------------------
(* Reads and writes of the API server *)

Fault == faults < MaxFaults /\ faults' = faults + 1

\* w goes on at phase p with copy c.
Enter(w, c, p) == pc' = [pc EXCEPT ![w] = p] /\ copy' = [copy EXCEPT ![w] = c]

\* Get: w's copy is what its informer holds.
Gets(w, p) ==
    /\ Enter(w, cache[w], p)
    /\ fresh' = IF w \in current THEN fresh \cup {w} ELSE fresh \ {w}

\* The stored object is now c; the informers will see it and queue the item.
Store(c) == config' = c /\ current' = {}
StoreByUser(c) == Store(c) /\ fresh' = {}

\* w's Update of the object to c, refused if w's copy is old.  One that changes
\* nothing makes no new version.
Writes(w, c) ==
    /\ w \in fresh
    /\ IF c = config THEN UNCHANGED <<config, current, fresh>> ELSE Store(c) /\ fresh' = {w}
    /\ UNCHANGED faults

WriteFails(w) == (IF w \in fresh THEN Fault ELSE UNCHANGED faults) /\ UNCHANGED <<config, current, fresh>>

\* Reconcile returns; r says that the item is requeued, at once or after a while.
Return(w, r) ==
    /\ Enter(w, NoConfig, "idle")
    /\ queued' = IF r THEN queued \cup {w} ELSE queued
    /\ again' = again \ {w} /\ deleted' = deleted \ {w}
    /\ users' = [users EXCEPT ![w] = 0] /\ token' = [token EXCEPT ![w] = "error"]

Reads == UNCHANGED <<config, current>>
Unseen == UNCHANGED <<worldVars, cache, edits, crashes>>

-----------------------------------------------------------------------------
(* The wrapper: the start of Reconcile *)

\* Slip: the finalizer of a deleted object is removed here and now.
BeginUnfinalizes(w) ==
    /\ pc[w] = "idle" /\ w \in queued
    /\ queued' = queued \ {w}
    /\ IF cache[w].exists
       THEN /\ Gets(w, IF cache[w].del THEN "unfinalize" ELSE "standard")
            /\ deleted' = IF cache[w].del THEN deleted \cup {w} ELSE deleted
       ELSE UNCHANGED <<pc, copy, fresh, deleted>>
    /\ Reads /\ Unseen /\ UNCHANGED <<unread, again, users, token, faults>>

\* Get, and whether the object was deleted.
Begin(w) ==
    /\ pc[w] = "idle" /\ w \in queued
    /\ queued' = queued \ {w}
    /\ IF cache[w].exists
       THEN /\ Gets(w, "standard")
            /\ deleted' = IF cache[w].del THEN deleted \cup {w} ELSE deleted
       ELSE UNCHANGED <<pc, copy, fresh, deleted>>
    /\ Reads /\ Unseen /\ UNCHANGED <<unread, again, users, token, faults>>

\* Slip: the result is not passed on for a deleted object.
DropResult(w, r) ==
    IF w \in deleted THEN Return(w, FALSE)
    ELSE /\ Enter(w, copy[w], "get")
         /\ again' = IF r THEN again \cup {w} ELSE again
         /\ UNCHANGED <<queued, deleted, users, token>>

\* Slip: the wrapper forgets the result of the standard reconciler.
ForgetResult(w, r) ==
    IF w \in deleted THEN Return(w, r)
    ELSE Enter(w, copy[w], "get") /\ UNCHANGED <<queued, ownVars>>

\* The standard reconciler returns no error, and r if it wants a requeue.  For a
\* deleted object that is all; else the wrapper goes on.
AfterStandard(w, r) ==
    IF w \in deleted THEN Return(w, r)
    ELSE /\ Enter(w, copy[w], "get")
         /\ again' = IF r THEN again \cup {w} ELSE again
         /\ UNCHANGED <<queued, deleted, users, token>>

-----------------------------------------------------------------------------
(* The standard reconciler *)

\* Get, and List of the usages, each from its informer; the list may fail.
Standard(w) ==
    /\ pc[w] = "standard"
    /\ \/ /\ cache[w].exists
          /\ Gets(w, IF ~cache[w].del THEN "finalizer" ELSE IF seen[w] = {} THEN "unfinalize" ELSE "terminating")
          /\ users' = [users EXCEPT ![w] = Cardinality(seen[w])]
          /\ UNCHANGED <<queued, again, deleted, token, faults>>
       \/ ~cache[w].exists /\ AfterStandard(w, FALSE) /\ UNCHANGED <<fresh, faults>>
       \/ Fault /\ AfterStandard(w, TRUE) /\ UNCHANGED fresh
    /\ Reads /\ Unseen /\ UNCHANGED unread

AddFinalizer(w) ==
    /\ pc[w] = "finalizer"
    /\ \/ LET c == [copy[w] EXCEPT !.fin = TRUE]
          IN  Writes(w, c) /\ Enter(w, c, "count") /\ UNCHANGED <<queued, ownVars>>
       \/ WriteFails(w) /\ AfterStandard(w, TRUE)
    /\ Unseen /\ UNCHANGED unread

\* An error of this status update is one of Reconcile.
Count(w) ==
    /\ pc[w] = "count"
    /\ \/ Writes(w, [copy[w] EXCEPT !.users = users[w]]) /\ AfterStandard(w, FALSE)
       \/ WriteFails(w) /\ Return(w, TRUE)
    /\ Unseen /\ UNCHANGED unread

\* A deleted object that is in use waits for an event of its usages; the condition
\* Terminating is left out.
Terminating(w) ==
    /\ pc[w] = "terminating"
    /\ \/ Writes(w, [copy[w] EXCEPT !.users = users[w]]) /\ AfterStandard(w, FALSE)
       \/ WriteFails(w) /\ Return(w, TRUE)
    /\ Unseen /\ UNCHANGED unread

RemoveFinalizer(w) ==
    /\ pc[w] = "unfinalize"
    /\ \/ Writes(w, NoConfig) /\ AfterStandard(w, FALSE)
       \/ WriteFails(w) /\ AfterStandard(w, TRUE)
    /\ Unseen /\ UNCHANGED unread

-----------------------------------------------------------------------------
(* The wrapper: the credentials *)

GetAgain(w) ==
    /\ pc[w] = "get"
    /\ IF cache[w].exists THEN Gets(w, "extract") /\ UNCHANGED <<queued, ownVars>>
                          ELSE Return(w, FALSE) /\ UNCHANGED fresh
    /\ Reads /\ Unseen /\ UNCHANGED <<unread, faults>>

\* Slip: the error of Get is not looked at.
TokenUnchecked(r) == IF r = NoRef THEN "error" ELSE secret[r]

\* The token under the key that the credentials refer to.
TokenOf(r) == IF r = NoRef \/ secret[r] = "absent" THEN "error" ELSE secret[r]

\* Any error of Get is taken for a Secret that is not there.
ExtractToken(w) ==
    /\ pc[w] = "extract"
    /\ Enter(w, copy[w], "status")
    /\ \/ token' = [token EXCEPT ![w] = TokenOf(copy[w].credentials)] /\ unread' = FALSE /\ UNCHANGED faults
       \/ Fault /\ token' = [token EXCEPT ![w] = "error"] /\ unread' = TRUE
    /\ Reads /\ Unseen /\ UNCHANGED <<fresh, queued, again, deleted, users>>

ValidateToken(t) == t = "valid"

\* Slip: an error leaves the condition alone.
KeepOnError(c, t) == IF t = "error" THEN c
    ELSE [c EXCEPT !.ready = IF ValidateToken(t) THEN "True" ELSE "InvalidCredentials"]

SetCredentialCondition(c, t) ==
    [c EXCEPT !.ready = IF t = "error" THEN "SecretNotFound"
                        ELSE IF ValidateToken(t) THEN "True" ELSE "InvalidCredentials"]

UpdateStatus(w) ==
    /\ pc[w] = "status"
    /\ \/ Writes(w, SetCredentialCondition(copy[w], token[w])) /\ Return(w, w \in again)
       \/ WriteFails(w) /\ Return(w, TRUE)
    /\ Unseen /\ UNCHANGED unread

Reconcile(w) == \/ Begin(w) \/ Standard(w) \/ AddFinalizer(w) \/ Count(w) \/ Terminating(w)
                \/ RemoveFinalizer(w) \/ GetAgain(w) \/ ExtractToken(w) \/ UpdateStatus(w)

-----------------------------------------------------------------------------
(* The environment *)

\* The informer of w catches up, and the event queues the item.
Informer(w) ==
    /\ w \notin current
    /\ cache' = [cache EXCEPT ![w] = config] /\ current' = current \cup {w}
    /\ queued' = queued \cup {w}
    /\ UNCHANGED <<config, worldVars, unread, pc, copy, fresh, ownVars, edits, faults, crashes>>

\* The informer of w learns that u began or ceased to use the ProviderConfig, and
\* the event queues the item.
UsageInformer(w, u) ==
    /\ u \in usages <=> u \notin seen[w]
    /\ seen' = [seen EXCEPT ![w] = IF u \in usages THEN @ \cup {u} ELSE @ \ {u}]
    /\ queued' = queued \cup {w}
    /\ UNCHANGED <<config, secret, usages, old, unread, cache, current, pc, copy, fresh, ownVars,
                   edits, faults, crashes>>

\* SyncPeriod queues everything every ten hours.
Resync(w) ==
    /\ queued' = queued \cup {w}
    /\ UNCHANGED <<config, worldVars, unread, cache, current, pc, copy, fresh, ownVars, edits, faults, crashes>>

\* w dies; after its restart it lists what there is.
Crash(w) ==
    /\ pc[w] # "idle" /\ crashes < MaxCrashes /\ crashes' = crashes + 1
    /\ Return(w, TRUE) /\ fresh' = fresh \ {w}
    /\ UNCHANGED <<config, worldVars, unread, cache, current, edits, faults>>

Edit == edits < MaxEdits /\ edits' = edits + 1
NotReconciling == UNCHANGED <<cache, pc, copy, ownVars, faults, crashes>>

UserApplies(r) ==
    /\ Edit
    /\ \/ ~config.exists /\ StoreByUser([NoConfig EXCEPT !.exists = TRUE, !.credentials = r])
       \/ config.exists /\ r # config.credentials /\ StoreByUser([config EXCEPT !.credentials = r])
    /\ NotReconciling /\ UNCHANGED <<worldVars, unread, queued>>

\* Without a finalizer the object goes at once.
UserDeletes ==
    /\ Edit /\ config.exists /\ ~config.del
    /\ StoreByUser(IF config.fin THEN [config EXCEPT !.del = TRUE] ELSE NoConfig)
    /\ old' = [w \in Workers |-> seen[w] \cap usages]
    /\ NotReconciling /\ UNCHANGED <<secret, usages, seen, unread, queued>>

\* No watch: nothing is queued.
SecretChanges(s, v) ==
    /\ Edit /\ v # secret[s]
    /\ secret' = [secret EXCEPT ![s] = v] /\ unread' = TRUE
    /\ NotReconciling /\ UNCHANGED <<config, usages, seen, old, current, queued, fresh>>

\* The Connect of a resource tracks its use; the usage goes with the resource.
UsageChanges(u) ==
    /\ Edit
    /\ usages' = IF u \in usages THEN usages \ {u} ELSE usages \cup {u}
    /\ old' = [w \in Workers |-> old[w] \ {u}]
    /\ NotReconciling /\ UNCHANGED <<config, secret, seen, unread, current, queued, fresh>>

-----------------------------------------------------------------------------
(* The specification *)

Init ==
    /\ config = NoConfig
    /\ secret \in [Secrets -> Contents]
    /\ usages = {} /\ unread = FALSE
    /\ seen = [w \in Workers |-> {}] /\ old = [w \in Workers |-> {}]
    /\ cache = [w \in Workers |-> NoConfig] /\ current = Workers
    /\ queued = {} /\ pc = [w \in Workers |-> "idle"]
    /\ copy = [w \in Workers |-> NoConfig] /\ fresh = {}
    /\ again = {} /\ deleted = {}
    /\ users = [w \in Workers |-> 0] /\ token = [w \in Workers |-> "error"]
    /\ edits = 0 /\ faults = 0 /\ crashes = 0

KubernetesUsers ==
    \/ UserDeletes \/ \E r \in Secrets \cup {NoRef} : UserApplies(r)
    \/ \E s \in Secrets, v \in Contents : SecretChanges(s, v)
    \/ \E u \in Users : UsageChanges(u)

Next == \/ KubernetesUsers
        \/ \E w \in Workers : Reconcile(w) \/ Informer(w) \/ Resync(w) \/ Crash(w)
        \/ \E w \in Workers, u \in Users : UsageInformer(w, u)

Spec == Init /\ [][Next]_vars

\* Calls return, queues are worked off and informers catch up.  The resync is
\* not relied on.
Fairness == \A w \in Workers : /\ WF_vars(Reconcile(w)) /\ WF_vars(Informer(w))
                                /\ \A u \in Users : WF_vars(UsageInformer(w, u))

FairSpec == Spec /\ Fairness

-----------------------------------------------------------------------------
(* Properties *)

WorkerOK ==
    /\ pc \in [Workers -> Phases] /\ copy \in [Workers -> Config]
    /\ users \in [Workers -> 0 .. Cardinality(Users)] /\ token \in [Workers -> Tokens]
    /\ fresh \in SUBSET Workers /\ again \in SUBSET Workers /\ deleted \in SUBSET Workers
    /\ queued \in SUBSET Workers

WorldOK ==
    /\ config \in Config /\ cache \in [Workers -> Config] /\ current \in SUBSET Workers
    /\ secret \in [Secrets -> Contents] /\ usages \in SUBSET Users
    /\ seen \in [Workers -> SUBSET Users] /\ old \in [Workers -> SUBSET Users]
    /\ unread \in BOOLEAN
    /\ edits \in 0 .. MaxEdits /\ faults \in 0 .. MaxFaults /\ crashes \in 0 .. MaxCrashes

\* Every variable keeps its type.
TypeOK == WorkerOK /\ WorldOK

\* A ProviderConfig that has its finalizer goes only by a replica that has taken
\* the finalizer off, and not as long as a resource uses it that, as far as this
\* replica could see, used it when the deletion was asked for and ever since (the
\* branch for deleted objects, setup.go:107, and the standard reconciler), so
\* that this resource can still reach Slack to delete what it has there.  A use
\* that the replica's informer did not show at that time may be missed.
InUseIsKept ==
    [][config.fin /\ ~config'.exists =>
          \E w \in Workers : pc[w] = "unfinalize" /\ old[w] = {}]_vars

\* What the stored condition Ready should say of a Secret's content.
Fits(r, t) ==
    /\ t = "valid" => r = "True"
    /\ t = "error" => r = "SecretNotFound"
    /\ t \in Tokens \ {"valid", "error"} => r = "InvalidCredentials"

\* Nothing is left to do: every informer is up to date, every queue is empty, no
\* worker is busy.
AtRest == queued = {} /\ current = Workers /\ \A w \in Workers : pc[w] = "idle" /\ seen[w] = usages

\* No wake-up is lost: whenever all workers rest, whatever failed, conflicted or
\* crashed on the way, the count of users is right, a deletion waits only for users
\* that are there, and, unless it is being deleted, Ready tells the truth about the
\* credentials (the results that Reconcile returns and requeues, setup.go:91-134);
\* for Ready, unless the Secret changed or could not be read.
RestsRight ==
    (AtRest /\ config.exists) =>
        /\ config.del => usages # {}
        /\ config.del \/ unread \/ Fits(config.ready, TokenOf(config.credentials))
        /\ config.users = Cardinality(usages)

\* Once users and failures pause, Ready tells the truth about the credentials
\* and the count of users is right, without any resync, whatever conflicts and
\* lagging informers did on the way (Reconcile, setup.go:91-134); unless the
\* Secret changed, which is not watched, or could not be read, which is not
\* tried again.
Converges ==
    <>[](config.exists /\ ~config.del =>
            /\ Fits(config.ready, TokenOf(config.credentials)) \/ unread
            /\ config.users = Cardinality(usages))

\* A deleted ProviderConfig goes as soon as nobody uses it: the last usage to go
\* wakes a replica, and setup.go:107-109 passes on the result that asks for
\* another try when the finalizer could not be removed.
DeletionCompletes == <>[](config.del => usages # {})

-----------------------------------------------------------------------------
(* The inductive invariant behind RestsRight *)

\* Neither the object nor what w sees of its usages has changed since w took it
\* from its queue, so no event that has happened is going to wake w.
Steady(w) == w \in current /\ w \notin queued

\* A steady worker works on the stored object, and has counted the users it sees;
\* when it is done with the standard reconciler, the stored count is theirs and a
\* deletion waits for one of them, or it is going to try again.
SteadyInv(w) ==
    /\ w \in current => cache[w] = config
    /\ pc[w] = "idle" => w \notin again \cup deleted
    /\ Steady(w) =>
        /\ pc[w] # "idle" => /\ copy[w] = config /\ w \in fresh
                             /\ w \in deleted <=> config.del
        /\ pc[w] \in {"finalizer", "count", "terminating"} => users[w] = Cardinality(seen[w])
        /\ pc[w] \in {"finalizer", "count"} => ~config.del
        /\ pc[w] \in {"terminating", "unfinalize"} => config.del
        /\ pc[w] = "terminating" => seen[w] # {}
        /\ (pc[w] \in {"idle", "get", "extract", "status"} /\ config.exists) =>
              \/ w \in again
              \/ config.users = Cardinality(seen[w]) /\ (config.del => seen[w] # {})

\* w is going to judge the credentials by what the Secret has now.
Judges(w) ==
    \/ ~Steady(w) \/ w \in again
    \/ pc[w] \notin {"idle", "status"}
    \/ pc[w] = "status" /\ token[w] = TokenOf(config.credentials)

ReadyInv ==
    config.exists => \/ config.del \/ Fits(config.ready, TokenOf(config.credentials)) \/ unread
                     \/ \E w \in Workers : Judges(w)

RestInv == (\A w \in Workers : SteadyInv(w)) /\ ReadyInv
=============================================================================
