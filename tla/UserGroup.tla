------------------------------ MODULE UserGroup ------------------------------
(***************************************************************************)
(* The UserGroup controller (internal/controller/usergroup) inside the     *)
(* loop of module ManagedReconciler.  Slack user groups are never deleted: *)
(* they are disabled, and keep their names.                                *)
(*                                                                         *)
(* A name stands for the name and the handle, which the code treats alike. *)
(* madeFor and acked are history variables: which resource's Create made a *)
(* group, and whether the reply reached the provider.  Both forget a group *)
(* once it is disabled.                                                    *)
(***************************************************************************)
EXTENDS ManagedReconciler

CONSTANTS
    MaxGroups,    \* bound on the groups Slack ever makes
    Names,        \* names with their handles
    Texts,        \* descriptions
    Empty,        \* the empty description
    Nil,          \* description not given
    FlagDisabled, \* what is_usergroup, read as IsEnabled, says of a disabled group
    MaxDrift      \* bound on what users of Slack do

\* Slack gives out each ID once.
GroupIDs == 1 .. MaxGroups

ASSUME GroupAssumption ==
    /\ MaxGroups \in Nat /\ MaxDrift \in Nat /\ FlagDisabled \in BOOLEAN
    /\ GroupIDs \subseteq ExtNames
    /\ \A m \in MRs : MetaName[m] \notin GroupIDs   \* lower case, IDs are not
    /\ Empty \in Texts /\ Nil \notin Texts
    /\ Specs \subseteq [name : Names, description : Texts \cup {Nil}]
    /\ ConditionReasons = {"NameConflict"}

VARIABLES
    step,     \* step[w]: the next call of w within its phase
    group,    \* group[g]: the group g in Slack
    made,     \* how many groups Slack has ever made
    madeFor,  \* madeFor[g]: the resource whose Create made g
    acked,    \* the groups whose creation reached the provider
    drift

slackVars == <<group, made, madeFor, acked, drift>>
vars == <<mrVars, step, slackVars>>

-----------------------------------------------------------------------------
(* Slack *)

Group == [name : Names, description : Texts, enabled : BOOLEAN]

Unmade == [name |-> Nil, description |-> Nil, enabled |-> FALSE]

Groups == 1 .. made
Enabled(g) == g \in Groups /\ group[g].enabled

\* Slip: any group that is listed will do.
IsListed(g) == g \in Groups

\* g is listed, and not as disabled.
IsEnabled(g) == g \in Groups /\ (group[g].enabled \/ FlagDisabled)

\* A disabled group keeps its name.
Taken(n) == \E g \in Groups : group[g].name = n

\* Slip: a description that is not given is left out of the comparison.
ptrValue(t) == t

ptrValueOrEmpty(t) == IF t = Nil THEN Empty ELSE t

isUpToDate(s, r) == s.name = r.name /\ ptrValueOrEmpty(s.description) = r.description

\* usergroups.create for m; an empty description is not sent, and none is shown.
Make(m, s) ==
    /\ ~Taken(s.name) /\ made < MaxGroups
    /\ made' = made + 1
    /\ group' = [group EXCEPT ![made'] =
                    [name |-> s.name, description |-> ptrValueOrEmpty(s.description), enabled |-> TRUE]]
    /\ madeFor' = [madeFor EXCEPT ![made'] = m]

\* usergroups.update of g to s, refused if another group has the name; an empty
\* description is not sent, and the old one stays.
Change(g, s) ==
    LET d == ptrValueOrEmpty(s.description)
    IN  /\ \A h \in Groups \ {g} : group[h].name # s.name
        /\ group' = [group EXCEPT ![g].name = s.name,
                                  ![g].description = IF d = Empty THEN @ ELSE d]

\* usergroups.disable: the group is nobody's any more.
Disable(g) ==
    /\ group' = [group EXCEPT ![g].enabled = FALSE]
    /\ madeFor' = [madeFor EXCEPT ![g] = NoMR]
    /\ acked' = acked \ {g}

-----------------------------------------------------------------------------
(* Control inside a phase *)

FirstStep(p) == CASE p = "observe" -> "connect"
                  [] p \in {"create", "update", "delete"} -> "call"
                  [] OTHER -> "none"

Steps == {"none", "connect", "list", "call"}

At(w, p, s) == pc[w] = p /\ step[w] = s
NextPhase(w) == step' = [step EXCEPT ![w] = FirstStep(pc'[w])]

Connect(w) ==
    /\ At(w, "observe", "connect")
    /\ \/ step' = [step EXCEPT ![w] = "list"] /\ UNCHANGED mrVars
       \/ Fault /\ ObserveAnswers(w, "error", mg[w]) /\ NextPhase(w)
    /\ UNCHANGED slackVars

-----------------------------------------------------------------------------
(* Observe, Create, Update, Delete *)

\* Slip: an error of usergroups.list is taken for an empty list.
ListErrorIsMissing(w) ==
    LET g == mg[w].ext
    IN  /\ At(w, "observe", "list")
        /\ \/ /\ IsEnabled(g)
              /\ ObserveAnswers(w, IF isUpToDate(mg[w].spec, group[g]) THEN "uptodate"
                                   ELSE "drifted", mg[w])
              /\ UNCHANGED faults
           \/ /\ IsEnabled(g) => Fault
              /\ IsEnabled(g) \/ UNCHANGED faults
              /\ ObserveAnswers(w, "missing", mg[w])
        /\ NextPhase(w) /\ UNCHANGED slackVars

\* Slip: a group that differs from the spec is not the one.
ObserveByContent(w) ==
    /\ At(w, "observe", "list")
    /\ \/ /\ ObserveAnswers(w, IF mg[w].ext \in Groups /\ isUpToDate(mg[w].spec, group[mg[w].ext])
                               THEN "uptodate" ELSE "missing", mg[w])
          /\ UNCHANGED faults
       \/ Fault /\ ObserveAnswers(w, "error", mg[w])
    /\ NextPhase(w) /\ UNCHANGED slackVars

\* The external name is never empty here: the initializer has run.
Observe(w) ==
    LET g == mg[w].ext
    IN  /\ At(w, "observe", "list")
        /\ \/ /\ ~IsEnabled(g)
              /\ ObserveAnswers(w, "missing", mg[w]) /\ UNCHANGED faults
           \/ /\ IsEnabled(g)
              /\ ObserveAnswers(w, IF isUpToDate(mg[w].spec, group[g]) THEN "uptodate"
                                   ELSE "drifted", mg[w])
              /\ UNCHANGED faults
           \/ Fault /\ ObserveAnswers(w, "error", mg[w])
        /\ NextPhase(w) /\ UNCHANGED slackVars

CreateFails(w, r) == CreateReturns(w, FALSE, [mg[w] EXCEPT !.synced = r]) /\ NextPhase(w)

\* name_already_exists sets a condition, and is an error like any other.
Create(w) ==
    /\ At(w, "create", "call")
    /\ \/ /\ Make(cur[w], mg[w].spec) /\ acked' = acked \cup {made'}
          /\ CreateReturns(w, TRUE, [mg[w] EXCEPT !.ext = made']) /\ NextPhase(w)
          /\ UNCHANGED faults
       \/ /\ Taken(mg[w].spec.name) /\ CreateFails(w, "NameConflict")
          /\ UNCHANGED <<group, made, madeFor, acked, faults>>
       \/ /\ Fault /\ CreateFails(w, mg[w].synced)
          /\ Make(cur[w], mg[w].spec) \/ UNCHANGED <<group, made, madeFor>>
          /\ UNCHANGED acked
    /\ UNCHANGED drift

CallEnds(w, ok) == CallReturns(w, ok) /\ NextPhase(w)

\* Slip: the group is looked up and left as it is.
UpdateNothing(w) ==
    At(w, "update", "call") /\ CallEnds(w, TRUE) /\ UNCHANGED <<slackVars, faults>>

\* The condition NameConflict that a refusal sets is overwritten at once.
Update(w) ==
    LET g == mg[w].ext
        s == mg[w].spec
    IN  /\ At(w, "update", "call")
        /\ \/ Change(g, s) /\ CallEnds(w, TRUE) /\ UNCHANGED faults
           \/ /\ \E h \in Groups \ {g} : group[h].name = s.name
              /\ CallEnds(w, FALSE) /\ UNCHANGED <<group, faults>>
           \/ Fault /\ CallEnds(w, FALSE) /\ (Change(g, s) \/ UNCHANGED group)
        /\ UNCHANGED <<made, madeFor, acked, drift>>

\* Slack refuses to disable a group that is disabled, and any refusal is an error.
Delete(w) ==
    LET g == mg[w].ext
        same == UNCHANGED <<group, madeFor, acked>>
    IN  /\ At(w, "delete", "call")
        /\ \/ Enabled(g) /\ Disable(g) /\ CallEnds(w, TRUE) /\ UNCHANGED faults
           \/ ~Enabled(g) /\ CallEnds(w, FALSE) /\ same /\ UNCHANGED faults
           \/ Fault /\ CallEnds(w, FALSE) /\ (same \/ (Enabled(g) /\ Disable(g)))
        /\ UNCHANGED <<made, drift>>

-----------------------------------------------------------------------------
(* Users of Slack *)

Drift == drift < MaxDrift /\ drift' = drift + 1
NotReconciling == UNCHANGED <<mrVars, step>>

SlackUserCreates(s) ==
    Drift /\ Make(NoMR, s) /\ UNCHANGED acked /\ NotReconciling

SlackUserChanges(g, s) ==
    /\ Drift /\ \A h \in Groups \ {g} : group[h].name # s.name
    /\ group' = [group EXCEPT ![g].name = s.name, ![g].description = ptrValueOrEmpty(s.description)]
    /\ UNCHANGED <<made, madeFor, acked>> /\ NotReconciling

SlackUserSwitches(g) ==
    /\ Drift
    /\ \/ Enabled(g) /\ Disable(g)
       \/ ~Enabled(g) /\ group' = [group EXCEPT ![g].enabled = TRUE] /\ UNCHANGED <<madeFor, acked>>
    /\ UNCHANGED made /\ NotReconciling

-----------------------------------------------------------------------------
(* The specification *)

Init ==
    /\ MRInit
    /\ step = [w \in Workers |-> "none"]
    /\ group = [g \in GroupIDs |-> Unmade]
    /\ made = 0
    /\ madeFor = [g \in GroupIDs |-> NoMR]
    /\ acked = {}
    /\ drift = 0

Runtime(w) == RuntimeStep(w) /\ NextPhase(w) /\ UNCHANGED slackVars

Reconcile(w) == Runtime(w) \/ Connect(w) \/ Observe(w) \/ Create(w) \/ Update(w) \/ Delete(w)

\* A user may import a group that is there.
KubernetesUsers ==
    /\ \E m \in MRs :
          \/ UserDeletes(m)
          \/ \E s \in Specs : \/ UserEdits(m, s)
                              \/ \E x \in Groups \cup {NoExt} : UserCreates(m, s, x)
    /\ UNCHANGED <<step, slackVars>>

SlackUsers ==
    \/ \E s \in Specs : SlackUserCreates(s) \/ \E g \in Groups : SlackUserChanges(g, s)
    \/ \E g \in Groups : SlackUserSwitches(g)

Informer(w, m) == CacheSync(w, m) /\ UNCHANGED <<step, slackVars>>
Dies(w) == Crash(w) /\ NextPhase(w) /\ UNCHANGED slackVars

Next == \/ KubernetesUsers \/ SlackUsers
        \/ \E w \in Workers : Reconcile(w) \/ Dies(w) \/ \E m \in MRs : Informer(w, m)

Spec == Init /\ [][Next]_vars

\* As for Conversation: calls return, informers catch up, and the queue hands
\* out every resource again and again.
Fairness == \A w \in Workers :
    /\ WF_vars(Reconcile(w) /\ pc[w] # "idle")
    /\ \A m \in MRs : /\ WF_vars(Informer(w, m))
                      /\ SF_vars(Runtime(w) /\ pc[w] = "idle" /\ cur'[w] = m)

FairSpec == Spec /\ Fairness

-----------------------------------------------------------------------------
(* Properties *)

SlackOK ==
    /\ made \in 0 .. MaxGroups
    /\ group \in [GroupIDs -> Group \cup {Unmade}]
    /\ \A g \in Groups : group[g] \in Group
    /\ madeFor \in [GroupIDs -> MRs \cup {NoMR}]
    /\ acked \in SUBSET Groups
    /\ drift \in 0 .. MaxDrift

\* Every variable keeps its type, and Slack is asked to update or disable a
\* group by its ID only.
TypeOK ==
    /\ MRTypeOK
    /\ step \in [Workers -> Steps]
    /\ SlackOK
    /\ \A w \in Workers : pc[w] \in {"update", "delete"} => mg[w].ext \in Groups

\* The group g was made by m's Create, the provider was told its ID, and nobody
\* has disabled it since.
Holds(m, g) == g \in acked /\ madeFor[g] = m

\* A group whose ID the provider got from usergroups.create is never forgotten:
\* as long as it is enabled, its resource is there with its finalizer and either
\* records the ID or is blocked as create-incomplete (Create and Observe,
\* usergroup.go:95-167).
NoForgottenGroup ==
    \A m \in MRs, g \in GroupIDs :
        Holds(m, g) => /\ api[m].exists /\ api[m].fin
                       /\ api[m].ext = g \/ api[m].create = "pending"

\* No resource has two enabled groups made for it, both known to the provider
\* (Observe finds the group it made, whatever its name is now).
OneGroupPerResource ==
    \A m \in MRs, g, h \in GroupIDs : Holds(m, g) /\ Holds(m, h) => g = h

\* The controller implements ObjectBook: in every interleaving of replicas, stale
\* caches, lost replies and crashes, the ID of a group made for a resource is
\* recorded once and stays recorded until the group is disabled, and no second
\* group is obtained before that (Observe, Create and Delete with the loop's
\* writes of the external name, usergroup.go:95-215).
heldBy == [g \in GroupIDs |-> IF g \in acked THEN madeFor[g] ELSE NoMR]
recorded == [m \in MRs |-> IF api[m].ext \in GroupIDs THEN api[m].ext ELSE NoExt]

Book == INSTANCE ObjectBook
            WITH Objects <- GroupIDs, holder <- heldBy, book <- recorded,
                 Nobody <- NoMR, NoID <- NoExt

ImplementsBook == Book!BookSpec

Served(m) == \E g \in Groups : /\ api[m].ext = g /\ Enabled(g)
                               /\ isUpToDate(api[m].spec, group[g])

\* What the provider cannot overcome: a creation whose outcome is unknown, a
\* name that another group has (its own whose reply was lost or that was
\* disabled, too), and a description that it would have to empty.
Obstructed(m) ==
    \/ api[m].create = "pending"
    \/ \E g \in Groups : /\ group[g].name = api[m].spec.name
                         /\ ~(api[m].ext = g /\ Enabled(g))
    \/ \E g \in Groups : /\ api[m].ext = g /\ group[g].description # Empty
                         /\ ptrValueOrEmpty(api[m].spec.description) = Empty

\* Whatever failed on the way, once failures and users pause every resource that
\* stays has an enabled group as specified, unless it is obstructed (Observe,
\* Create and Update, usergroup.go:95-197).
Converges ==
    \A m \in MRs : <>[](api[m].exists /\ ~api[m].del => Served(m) \/ Obstructed(m))

\* A deleted resource goes, and not before its group is disabled (with
\* NoForgottenGroup), unless its creation is incomplete: a reply of
\* usergroups.disable that is lost makes the next one fail, but Observe finds
\* the group disabled (usergroup.go:119, 210).
DeletionCompletes ==
    \A m \in MRs : <>[](api[m].del => api[m].create = "pending")

-----------------------------------------------------------------------------
(* What the documents say and the code does not do *)

\* requirements.md 6.6: a description that differs is updated.  One that the
\* spec no longer has is taken out of the group.
DescriptionIsCleared ==
    \A m \in MRs :
        <>[](/\ api[m].exists /\ ~api[m].del
             /\ \E g \in Groups : api[m].ext = g /\ Enabled(g)
             /\ ptrValueOrEmpty(api[m].spec.description) = Empty)
        => <>(\E g \in Groups : api[m].ext = g /\ group[g].description = Empty)
=============================================================================
