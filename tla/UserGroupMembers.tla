--------------------------- MODULE UserGroupMembers ---------------------------
(***************************************************************************)
(* The UserGroupMembers controller (internal/controller/usergroupmembers)  *)
(* inside the loop of module ManagedReconciler: it resolves the e-mails of *)
(* the spec one by one and replaces the member list of a Slack user group. *)
(*                                                                         *)
(* Create is not here because it is never called: the default initializer  *)
(* gives every resource an external name, so Observe asks Slack about it   *)
(* and answers that the resource exists, or an error.                      *)
(*                                                                         *)
(* An element of Emails is an entry of userEmails; two entries with the    *)
(* same address resolve to the same user.  The entries are looked up in    *)
(* any order, which only decides what was asked when a lookup fails.       *)
(***************************************************************************)
EXTENDS ManagedReconciler

CONSTANTS
    GroupIDs,  \* user group IDs
    Emails,    \* entries of userEmails
    Users,     \* Slack user IDs
    NoUser,    \* the lookup answers users_not_found
    Unasked,   \* the entry has not been looked up
    MaxDrift   \* bound on what users of Slack do

ASSUME GroupAssumption ==
    /\ GroupIDs \subseteq ExtNames
    /\ \A m \in MRs : MetaName[m] \notin GroupIDs   \* lower case, IDs are not
    /\ NoUser \notin Users /\ Unasked \notin Users \cup {NoUser}
    /\ Specs \subseteq (SUBSET Emails) \ {{}}       \* MinItems=1
    /\ \A s \in Specs : IsFiniteSet(s)
    /\ ConditionReasons = {"UserNotFound"}
    /\ MaxDrift \in Nat

VARIABLES
    step,     \* step[w]: the next call of w within its phase
    got,      \* got[w][e]: what w's lookup of entry e returned
    seen,     \* seen[w]: the members w's Observe was told
    members,  \* members[g]: the members of group g in Slack
    dir,      \* dir[e]: the user who has the address of entry e
    stale,    \* history: workers some of whose lookups are out of date
    drift

slackVars == <<members, dir, drift>>
vars == <<mrVars, step, got, seen, stale, slackVars>>

-----------------------------------------------------------------------------
(* Control inside a phase *)

FirstStep(p) == CASE p = "observe" -> "connect"
                  [] p = "update"  -> "lookup"
                  [] p = "delete"  -> "clear"
                  [] OTHER         -> "none"

Steps == {"none", "connect", "list", "lookup", "write", "clear"}

At(w, p, s) == pc[w] = p /\ step[w] = s

Nothing == [e \in Emails |-> Unasked]

\* w enters the phase pc' says.
NextPhase(w) ==
    /\ step' = [step EXCEPT ![w] = FirstStep(pc'[w])]
    /\ got' = [got EXCEPT ![w] = Nothing]
    /\ seen' = [seen EXCEPT ![w] = {}]
    /\ stale' = stale \ {w}

Goto(w, s) == step' = [step EXCEPT ![w] = s] /\ UNCHANGED <<mrVars, stale>>

-----------------------------------------------------------------------------
(* resolveEmails *)

\* The entries w still has to look up, and what a result r of the lookups says.
ToAsk(w) == {e \in mg[w].spec : got[w][e] = Unasked}
Found(s, r) == {e \in s : r[e] \in Users}
resolvedIDs(s, r) == {r[e] : e \in Found(s, r)}
unresolvable(s, r) == {e \in s : r[e] = NoUser}

\* Slip: only the lengths are compared.
sizesEqual(s, r, ms) == Cardinality(Found(s, r)) = Cardinality(ms)

\* The IDs are a list with one element per entry, the members a set: the
\* lengths agree only if no two entries are the same user.
setsEqual(s, r, ms) ==
    resolvedIDs(s, r) = ms /\ Cardinality(Found(s, r)) = Cardinality(ms)

\* One users.lookupByEmail that is answered: r is w's result afterwards.
Lookup(w, r) ==
    /\ step[w] = "lookup"
    /\ \E e \in ToAsk(w) : r = [got[w] EXCEPT ![e] = dir[e]]

\* It is not the last one.
LookupMore(w, r) ==
    /\ Lookup(w, r) /\ Unasked \in {r[e] : e \in mg[w].spec}
    /\ got' = [got EXCEPT ![w] = r]
    /\ UNCHANGED <<mrVars, step, seen, stale>>

\* It is, and the call goes on with r.
LookupLast(w, r) == Lookup(w, r) /\ Unasked \notin {r[e] : e \in mg[w].spec}

Answers(w) == {[got[w] EXCEPT ![e] = dir[e]] : e \in ToAsk(w)}

-----------------------------------------------------------------------------
(* Connect and Observe *)

Connect(w) ==
    /\ At(w, "observe", "connect")
    /\ \/ Goto(w, "list") /\ UNCHANGED <<got, seen>>
       \/ Fault /\ ObserveAnswers(w, "error", mg[w]) /\ NextPhase(w)
    /\ UNCHANGED slackVars

\* An external name that is no group ID is refused (no_such_subteam).
ListUserGroupMembers(w) ==
    /\ At(w, "observe", "list")
    /\ \/ /\ mg[w].ext \in GroupIDs
          /\ seen' = [seen EXCEPT ![w] = members[mg[w].ext]]
          /\ Goto(w, "lookup") /\ UNCHANGED got
       \/ /\ mg[w].ext \notin GroupIDs
          /\ ObserveAnswers(w, "error", mg[w]) /\ NextPhase(w) /\ UNCHANGED faults
       \/ Fault /\ ObserveAnswers(w, "error", mg[w]) /\ NextPhase(w)
    /\ UNCHANGED slackVars

\* Slip: a group without members counts as absent.
CompareEmptyAsMissing(w, r) ==
    ObserveAnswers(w, IF seen[w] = {} THEN "missing"
                      ELSE IF setsEqual(mg[w].spec, r, seen[w]) THEN "uptodate" ELSE "drifted", mg[w])

\* The resource exists whatever was found; the condition UserNotFound is set on
\* the copy.
Compare(w, r) ==
    LET s == mg[w].spec
        c == IF unresolvable(s, r) # {} THEN [mg[w] EXCEPT !.synced = "UserNotFound"] ELSE mg[w]
    IN  ObserveAnswers(w, IF setsEqual(s, r, seen[w]) THEN "uptodate" ELSE "drifted", c)

LookupInObserve(w) ==
    /\ pc[w] = "observe"
    /\ \/ \E r \in Answers(w) :
             \/ LookupMore(w, r)
             \/ LookupLast(w, r) /\ Compare(w, r) /\ NextPhase(w) /\ UNCHANGED faults
       \/ /\ step[w] = "lookup"
          /\ Fault /\ ObserveAnswers(w, "error", mg[w]) /\ NextPhase(w)
    /\ UNCHANGED slackVars

-----------------------------------------------------------------------------
(* Update and Delete *)

CallEnds(w, ok) == CallReturns(w, ok) /\ NextPhase(w)

\* Slip: the list is written even if nobody was found.
WriteAlways(w, r) == got' = [got EXCEPT ![w] = r] /\ Goto(w, "write") /\ UNCHANGED seen

\* Update writes the IDs it found, if any; without one it succeeds and leaves
\* the list as it is.
GoOnUpdate(w, r) ==
    IF resolvedIDs(mg[w].spec, r) # {}
    THEN got' = [got EXCEPT ![w] = r] /\ Goto(w, "write") /\ UNCHANGED seen
    ELSE CallEnds(w, TRUE) /\ UNCHANGED faults

\* Slip: a lookup that fails counts as a user who does not exist.
LookupSwallowsErrors(w) ==
    /\ pc[w] = "update"
    /\ \E r \in Answers(w) \cup {[got[w] EXCEPT ![e] = NoUser] : e \in ToAsk(w)} :
          IF Unasked \in {r[e] : e \in mg[w].spec}
          THEN got' = [got EXCEPT ![w] = r] /\ UNCHANGED <<mrVars, step, seen, stale>>
          ELSE GoOnUpdate(w, r)
    /\ UNCHANGED slackVars

LookupInUpdate(w) ==
    /\ pc[w] = "update"
    /\ \/ \E r \in Answers(w) : LookupMore(w, r) \/ (LookupLast(w, r) /\ GoOnUpdate(w, r))
       \/ step[w] = "lookup" /\ Fault /\ CallEnds(w, FALSE)
    /\ UNCHANGED slackVars

\* usergroups.users.update replaces the whole list of g by us.
Replace(g, us) == members' = [members EXCEPT ![g] = us]

\* One such call of w: it may fail, without effect or after it.
UpdateUserGroupMembers(w, us) ==
    /\ \/ Replace(mg[w].ext, us) /\ CallEnds(w, TRUE) /\ UNCHANGED faults
       \/ Fault /\ CallEnds(w, FALSE) /\ (Replace(mg[w].ext, us) \/ UNCHANGED members)
    /\ UNCHANGED <<dir, drift>>

Write(w) ==
    /\ At(w, "update", "write")
    /\ UpdateUserGroupMembers(w, resolvedIDs(mg[w].spec, got[w]))

Delete(w) == At(w, "delete", "clear") /\ UpdateUserGroupMembers(w, {})

-----------------------------------------------------------------------------
(* Users of Slack *)

Drift == drift < MaxDrift /\ drift' = drift + 1

SlackUserSetsMembers(g, us) ==
    /\ Drift /\ us # members[g]
    /\ Replace(g, us)
    /\ UNCHANGED <<mrVars, step, got, seen, stale, dir>>

\* A user joins, leaves or changes address; what workers were told is old now.
DirectoryChanges(e, u) ==
    /\ Drift /\ u # dir[e]
    /\ dir' = [dir EXCEPT ![e] = u]
    /\ stale' = stale \cup {w \in Workers : got[w][e] # Unasked}
    /\ UNCHANGED <<mrVars, step, got, seen, members>>

-----------------------------------------------------------------------------
(* The specification *)

Init ==
    /\ MRInit
    /\ step = [w \in Workers |-> "none"]
    /\ got = [w \in Workers |-> Nothing]
    /\ seen = [w \in Workers |-> {}]
    /\ members = [g \in GroupIDs |-> {}]
    /\ dir \in [Emails -> Users \cup {NoUser}]
    /\ stale = {}
    /\ drift = 0

Runtime(w) == RuntimeStep(w) /\ NextPhase(w) /\ UNCHANGED slackVars

Reconcile(w) == \/ Runtime(w) \/ Connect(w) \/ ListUserGroupMembers(w)
                \/ LookupInObserve(w) \/ LookupInUpdate(w) \/ Write(w) \/ Delete(w)

KubernetesUsers ==
    /\ \/ \E m \in MRs : UserDeletes(m) \/ \E s \in Specs : UserEdits(m, s)
       \/ \E m \in MRs, s \in Specs, x \in GroupIDs \cup {NoExt} : UserCreates(m, s, x)
    /\ UNCHANGED <<step, got, seen, stale, slackVars>>

SlackUsers == \/ \E g \in GroupIDs, us \in SUBSET Users : SlackUserSetsMembers(g, us)
              \/ \E e \in Emails, u \in Users \cup {NoUser} : DirectoryChanges(e, u)

Informer(w, m) == CacheSync(w, m) /\ UNCHANGED <<step, got, seen, stale, slackVars>>
Dies(w) == Crash(w) /\ NextPhase(w) /\ UNCHANGED slackVars

Next == \/ KubernetesUsers \/ SlackUsers
        \/ \E w \in Workers : Reconcile(w) \/ Dies(w) \/ \E m \in MRs : Informer(w, m)

Spec == Init /\ [][Next]_vars

\* As for Conversation: calls return, informers catch up, and the queue hands
\* out every resource again and again.
Fairness == \A w \in Workers :
    /\ WF_vars(Reconcile(w) /\ pc[w] # "idle")
    /\ \A m \in MRs : /\ WF_vars(Informer(w, m))
                      /\ SF_vars(Runtime(w) /\ pc[w] = "idle" /\ cur'[w] = m)

FairSpec == Spec /\ Fairness

-----------------------------------------------------------------------------
(* Properties *)

\* Every variable keeps its type, and Create is indeed never called.
TypeOK ==
    /\ MRTypeOK
    /\ step \in [Workers -> Steps]
    /\ got \in [Workers -> [Emails -> Users \cup {NoUser, Unasked}]]
    /\ seen \in [Workers -> SUBSET Users]
    /\ members \in [GroupIDs -> SUBSET Users]
    /\ dir \in [Emails -> Users \cup {NoUser}]
    /\ stale \in SUBSET Workers
    /\ drift \in 0 .. MaxDrift
    /\ \A w \in Workers : pc[w] \notin {"pending", "create", "critical"}

\* The users whom the entries s stand for.
Meant(s) == {dir[e] : e \in s} \ {NoUser}

\* The provider writes a list for two reasons only: w deletes the resource of
\* the group and empties it, or w updates it and writes the users whom the spec
\* it works on stands for at that moment, no more and no fewer, unless the
\* directory has changed since w asked. No failed lookup, no half-resolved list
\* and no worker that is interrupted costs anyone his membership or gives it to
\* anyone (resolveEmails, Update and Delete, usergroupmembers.go:186-268).
OnlyMeantMembers ==
    [][\A g \in GroupIDs : members'[g] # members[g] =>
          drift' # drift \/ \E w \in Workers :
              /\ mg[w].ext = g
              /\ \/ pc[w] = "delete" /\ members'[g] = {}
                 \/ pc[w] = "update" /\ (w \in stale \/ members'[g] = Meant(mg[w].spec))]_vars

\* Only a deletion empties a group: an Update that finds nobody, however that
\* came about, leaves the list alone (usergroupmembers.go:209-213).
NeverEmptied ==
    [][\A g \in GroupIDs : members'[g] = {} /\ members[g] # {} =>
          drift' # drift \/ \E w \in Workers : pc[w] = "delete" /\ mg[w].ext = g]_vars

\* Observe answers w that the list is up to date.
FindsUpToDate(w) ==
    /\ pc[w] = "observe"
    /\ \/ pc'[w] = "finalize" /\ obs'[w] = "uptodate"
       \/ pc'[w] = "status" /\ mg'[w].synced = "ReconcileSuccess"

\* It does so only if Slack listed exactly the users whom the spec stands for
\* by the end of all the lookups, whatever the list and the directory went
\* through in between (Observe and setsEqual, usergroupmembers.go:112-149, 279).
UpToDateIsExact ==
    [][\A w \in Workers \ stale : FindsUpToDate(w) => seen[w] = Meant(mg[w].spec)]_vars

\* Once users and failures pause, the group of a resource has the members its
\* e-mails stand for, if there are any and no other resource claims the group
\* (Observe and Update, usergroupmembers.go:97-216).
Converges ==
    \A m \in MRs :
        <>[](/\ api[m].exists /\ ~api[m].del
             /\ api[m].ext \in GroupIDs /\ Meant(api[m].spec) # {}
             /\ \A n \in MRs \ {m} : api[n].ext # api[m].ext)
        => <>[](\E g \in GroupIDs : g = api[m].ext /\ members[g] = Meant(api[m].spec))

-----------------------------------------------------------------------------
(* The inductive invariant behind OnlyMeantMembers and NeverEmptied *)

\* What w was told is true or w is stale, and a list about to be written comes
\* from a lookup of every entry and has somebody on it.
ListInv(w) ==
    /\ w \notin stale => \A e \in Emails : got[w][e] \in {Unasked, dir[e]}
    /\ step[w] = "write" => /\ resolvedIDs(mg[w].spec, got[w]) # {}
                            /\ \A e \in mg[w].spec : got[w][e] # Unasked

\* No resource is ever found missing, so none is created and no finalizer goes.
NeverMissing(w) == obs[w] # "missing" /\ pc[w] # "unfinalize"

MembersInv == TypeOK /\ \A w \in Workers : ListInv(w) /\ NeverMissing(w)

-----------------------------------------------------------------------------
(* What the documents say and the code does not do *)

\* Observe answers w that the list is to be written.
FindsDrifted(w) ==
    /\ pc[w] = "observe"
    /\ pc'[w] = "update" \/ (pc'[w] = "finalize" /\ obs'[w] = "drifted")

\* design.md:939: a list that Slack gives is reported as different from the one
\* that is wanted only if it does not have the same set of IDs.  (setsEqual
\* compares lengths first, usergroupmembers.go:280: two entries that are one user
\* are never equal to what Slack lists.)
DriftIsReal ==
    [][\A w \in Workers \ stale : FindsDrifted(w) => seen[w] # Meant(mg[w].spec)]_vars

\* requirements.md 8 (user story): a deleted resource converges, too, and goes.
DeletionCompletes == \A m \in MRs : api[m].del ~> ~api[m].del
=============================================================================
