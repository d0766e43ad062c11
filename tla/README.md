# Verification of crossplane-provider-slack

TLA+ models of the provider in `src/`, TLC runs that check them on small
instances, and theorems about them that TLAPS proves for every instance.
Paths below are relative to `src/`, `internal/controller/` is abbreviated to
`controller/` and `internal/clients/slack/` to `slack/`.

## 1. The system

The provider is a set of Kubernetes controllers that make a Slack workspace look
as custom resources say. Each managed resource kind has a controller with the
four calls of crossplane-runtime's `ExternalClient` (Observe, Create, Update,
Delete) behind `Connect`; the runtime's reconcile loop calls them. All memory
that survives a reconcile is in the custom resource: its finalizer, the
`external-name` annotation (the Slack ID), the three `external-create-*`
annotations, and the conditions of its status.

| Part | State it keeps | Operations | Talks to |
| --- | --- | --- | --- |
| Reconcile loop (crossplane-runtime, configured by each `setup.go`) | annotations, finalizer and conditions of the resource; an informer cache per replica | initializer, finalizer, create-pending and critical annotations, status update | API server; the controllers |
| Conversation (`controller/conversation`) | none of its own; the channel in Slack | find or read the channel; create or adopt; join, rename, set topic and purpose; archive | `conversations.*` |
| ConversationBookmark, ConversationPin, ConversationMember | none; bookmark, pin, membership in Slack | list, add, edit, remove in a channel named by ID or by reference to a Conversation resource | `bookmarks.*`, `pins.*`, `conversations.members/invite/kick` |
| UserGroup, UserGroupMembers | none; group and its member list in Slack | list, create, update, disable; resolve e-mails, replace the member list | `usergroups.*`, `users.lookupByEmail` |
| ProviderConfig (`controller/providerconfig`) | finalizer, count of users and Ready condition of the ProviderConfig | the standard reconciler; then read the token in the Secret and judge it | API server |
| Slack client (`slack/client.go`, `ratelimit.go`, `errors.go`) | per call: attempt, request body | `Do`, retries after HTTP 429, error classification | Slack over HTTP |
| Processes (`cmd/*`) | none | start the controllers; leader election off by default | |

What is hard here is not any one call but what lies between calls: replicas and
informer caches that lag, users of Kubernetes and of Slack who act between two
calls, calls that take effect and lose their answer, crashes between a Slack
call and the record of its result, and a single `Synced` condition that several
writers overwrite. What must be true all the same:

- loop: no two replicas create for one resource together;
- Conversation: the ID of a channel that was made is never lost, no resource
  gets a second channel while it has one, channels converge to their specs and
  deletions complete unless a named obstacle stands in the way;
- client: one call has at most one effect, its result is true about the effect,
  it waits as long as Slack asks, and it returns;
- bookmarks, pins, members: the provider never lets go of an item that is there,
  items converge to their specs, deletion completes;
- user groups: the ID of a group that was made is never lost and no resource has
  two; the member list converges to the resolved e-mails and is never emptied or
  cut by a failed lookup;
- ProviderConfig: it stays while resources that a replica knows of need it, Ready agrees with the Secret
  it was computed from, deletion completes.

## 2. Modules

| Module | Models |
| --- | --- |
| `ManagedReconciler` | the reconcile loop around an arbitrary controller (external library), with API server, informer caches, conflicts, faults, crashes |
| `Conversation` | the Conversation controller inside that loop, and the Slack channels |
| `ConversationProperties` | its properties and the inductive invariant of the proofs |
| `CreateLease` | abstract: who creates for which resource, and which creations lost their outcome |
| `ObjectBook` | abstract: who holds which channel or group, and which ID each resource records |
| `SlackClient` | one call of the client with its retries, the network and Slack |
| `SlackCall` | abstract: an atomic call |
| `UserGroupMembers` | the UserGroupMembers controller in the loop, member lists and the directory |
| `UserGroup` | the UserGroup controller in the loop, and the groups in Slack |
| `ChannelItem` | what bookmarks, pins and members share: the channels, references to Conversations, others who act on them |
| `Bookmark`, `Pin`, `ConversationMember` | the three controllers, each EXTENDS `ChannelItem` |
| `ChannelItems` | the three together in the loop, with their properties |
| `ProviderConfig` | the ProviderConfig controller: wrapper, standard reconciler, Secrets, usages |
| `ManagedReconcilerProofs`, `ConversationProofs`, `SlackClientProofs`, `UserGroupMembersProofs`, `UserGroupProofs`, `ChannelItemsProofs`, `ProviderConfigProofs` | theorems |
| `MCConversation`, `MCSlackClient`, `MCUserGroupMembers`, `MCUserGroup`, `MCChannelItems`, `MCProviderConfig` | instances for TLC |

### How the models correspond to the code

`ManagedReconciler` has one variable per place where a copy of the object lives:
`api` (API server), `cache` (informer of each replica), `mg` (the copy a
reconcile works on). resourceVersion is reduced to the question optimistic
concurrency asks: is this copy still the latest (`fresh`, `current`)? `pc` is the
phase of a worker's reconcile. One action stands for one request to the API
server or one answer of a controller call, together with everything the loop
does up to its next request. The controller's answers are arbitrary here, so what
is proved of this module holds of every controller in it: creations are leased
(`ImplementsLease`, by `CreateLease`), only users decide about specs, deletions and
existence (`UsersDecide`), and nobody renames what another worker is creating
(`CreatorNames`). A condition that the controller sets on `Synced` is in its working
copy until `Report` overwrites it, as the loop of crossplane-runtime does.

`Conversation` EXTENDS it and replaces the arbitrary answers with the code of
`controller/conversation/conversation.go`: one action per Slack call, so that
anything can happen between two calls of one Observe, Create or Update. `step`
is the next call, `snap` the `conversations.info` snapshot on which Update
decides. Each call succeeds, is refused by Slack, fails without effect or takes
effect and loses its answer. `chan` is the Slack workspace: archived channels
keep their name, `conversations.list` shows no private channels (the client
asks for no types). Topic and purpose show a text in `UrlTexts` as an auto-link, and
`stripSlackAutoLinks` returns its target, `LinkTarget`, as the regular expression of
`conversation.go:325` does: the text itself for a full URL, another one for an e-mail address
(`conversation_test.go:267`) or a bare domain. `madeFor` and `acked` are history variables.

`UserGroupMembers` EXTENDS the loop in the same way with
`controller/usergroupmembers/usergroupmembers.go`. An e-mail of the spec is an
entry of `userEmails`; `dir` says which user it stands for, if any, and changes
under the provider; two entries may be one user. Each `users.lookupByEmail` is a
step (`LookupInObserve`, `LookupInUpdate`) and `got` collects the answers; `seen` is
the list that Observe was told, `members` the one in Slack. The history
variable `stale` marks a worker some of whose answers are no longer true. The
order in which entries are looked up is left open. Create is no action: the
initializer gives every resource an external name, so Observe never answers
that one is missing (`MembersTypeCorrect` proves it).

`UserGroup` EXTENDS the loop with `controller/usergroup/usergroup.go`. A group is
never deleted in Slack: it is disabled, and keeps its name, so that a name can
be taken by a group that Observe counts as missing. An empty description is
not sent (`slack/usergroups.go:57`), so `Change` leaves the old one.
`is_usergroup`, which the code reads as "enabled", is the constant `FlagDisabled` for a
disabled group, because the repository does not settle what Slack answers; the
theorems hold for both values, the runs have FALSE. `madeFor` and `acked` are history
variables and forget a group that is disabled.

`ChannelItem` has the workspace that bookmarks, pins and members share and the
reference to a Conversation, which every call reads anew: `conv[n]` is the
external name of the Conversation `n`, which is nothing, then its own name, then a
channel ID, then `Gone`. `Bookmark`, `Pin` and `ConversationMember` translate the three
controllers; `kind` says which of them a resource belongs to. An external name
is the ID of a bookmark or a pair (channel, message or user). Observe of a
bookmark resolves the reference, that of a pin or a member only looks at the
external name; hence only a bookmark is ever updated. The history variable
`doubt` holds the workers whose Observe was told that there is no channel, or
whose item was restored, or whose reference moved, after their Observe.

`ProviderConfig` is not in the loop of managed resources: `controller/providerconfig/setup.go`
wraps the standard reconciler of crossplane-runtime (modelled as external code)
in a second Get, a read of the Secret and a status update, all of which are
actions. Both read through the manager's cached client (`setup.go:60`), which has an informer
for each kind: `cache[w]` is the ProviderConfig and `seen[w]` the usages that worker `w` sees, and
they lag independently (`Informer`, `UsageInformer`, the latter usage by usage). It has work queues of its own (`queued`), because what matters is
which event queues the object: a change of the object or of a usage does, once the informer
shows it, a change of the Secret does not. A deleted object in use is not requeued: the standard
reconciler waits for the events of the usages (`Terminating`). `old` (for each worker, the users it saw
when the deletion was asked for and who have not ceased since) and `unread` (the Secret has changed, or could not be read, since it was last
read) are history variables.

`SlackClient` follows one call of `Client.Do` through `doWithRetry`: exchange,
answer, body, wait, retry. It keeps the code's own limits (3 retries, 60 s cap).
A request that the client gave up on may still run. The body of a retry is the
reader of the first attempt (`Drained`); the transport may rewind it or not.

Definitions under a comment `Slip:` are not part of any specification. Each is
a plausible mistake in the definition that follows it; replacing that
definition by its slip makes a run fail, which shows what the property of that
run notices (PROJECT.json, "mutants").

## 3. Runs

| Run | Instance | What it shows |
| --- | --- | --- |
| `replicas` | 1 resource, 2 replicas, 2 channels; 2 edits, 1 fault, 1 crash | types; `NoForgottenChannel`, `CreateExclusive`; refinement of `CreateLease`; `CreatorNames` |
| `live` | 1 resource, 1 replica, 2 specs that rename, one private, a topic that is a URL, a purpose that is a domain, fairness; 2 edits, 1 fault, 1 act of a Slack user | `OneChannelPerResource`, `OnlyMeantChanges`, `UsersDecide`; refinement of `ObjectBook`; `Converges`, `DeletionCompletes` |
| `client` | 3 retries, 60 s cap, Retry-After 1, 2, 9 or useless, fairness | types; `NoEarlyRetry`; refinement of `SlackCall`; `EveryCallReturns` |
| `members` | 1 resource, 1 group, 2 entries, 2 users, any directory, fairness; 2 edits, 1 fault, 1 crash, 1 act of a Slack user | types; `OnlyMeantMembers`, `NeverEmptied`, `UpToDateIsExact`, `Converges` |
| `items` | 1 resource of any kind, 1 channel, 1 Conversation, 3 bookmarks, fairness; 2 edits, 1 fault, 1 crash, 1 act of others | types; `NeverForgotten`, `Converges`, `DeletionCompletes` |
| `usergroup` | 1 resource, 3 groups, 2 names, fairness; 2 edits, 1 fault, 1 crash, 2 acts of Slack users | types; `NoForgottenGroup`, `OneGroupPerResource`; refinement of `ObjectBook`; `Converges`, `DeletionCompletes` |
| `providerconfig` | 1 replica, 1 Secret, 1 user, fairness; 4 edits, 1 fault, 1 crash | types; `InUseIsKept`, `RestsRight`; `Converges`, `DeletionCompletes` |
| `parameters`, `undeleted`, `description`, `conflict`, `duplicates` | a small instance of each | a promise of the documents that the code does not keep (section 6) |

The bounds are on what the environment does, never on the program: edits by
users, faults, crashes, acts of Slack users (for `items` also of those who change
Conversations and the directory; one is enough for what they can do to a reconcile between two of its calls). They suffice for the cases of the
hazards in PROJECT.json: a resource made, renamed or deleted and made again
(two edits), a lost answer or a failed write at any point (one fault), a crash
at any point (one crash), a stale cache at any point (caches lag without
bound). `providerconfig` needs four edits: a ProviderConfig made, used, its Secret
changed, and deleted. Two entries and two users let one lookup fail after another
succeeded, and let both entries be one user. Two channels let a resource own one and need or find another;
three bookmarks or groups let one be lost to a failure, one be recorded and a
third be made. Deadlock is not checked in the runs with such bounds: when they are used up and
every resource is deleted the system really is at rest. `providerconfig` can always be
resynced and checks it, as does `client`.

Symmetry is used only in the run `replicas`, which checks no liveness, over values
that no definition distinguishes: replicas and channel IDs. The action properties and
the refinement it checks are about single steps and treat these values alike.

## 4. Fairness

`FairSpec` of `Conversation`: a worker goes on with the reconcile it has begun
(weak fairness of its steps: every call has a timeout, see `EveryCallReturns`), its
informer catches up (weak fairness of `CacheSync`), and the work queue hands it
every existing resource again and again (strong fairness of starting a resource:
poll interval, watch events and requeues after errors; while idle the worker is
not always enabled for each resource, hence strong). Nothing is assumed about
users, faults, crashes or Slack, except that the bounds end their interference.

`FairSpec` of `UserGroupMembers`, `UserGroup` and `ChannelItems` is the same.

`FairSpec` of `ProviderConfig` is weaker: a worker works off its queue and its informer
catches up. The resync every ten hours is an action without fairness, so
`Converges` and `DeletionCompletes` rest on events and requeues alone.

`FairSpec` of `SlackClient`: the process runs, its timers fire and the HTTP
client has a timeout (`slack/client.go:91`). Slack need never answer.

`Converges` of `Conversation` asks that the channel has the texts of the spec up to the labels of
links (`SameText`): of an e-mail address or a domain the provider never sees that they are
there, and goes on writing them (section 6). It excuses a resource only when `Obstructed` holds, a state formula that
lists the obstacles: create-incomplete, a name taken by a channel that is not its
own or cannot be found, an archived channel, a private one. `Converges` of
`UserGroupMembers` is about resources that name a group ID and share it with no other.
`Obstructed` of `ChannelItems` lists: create-incomplete, no usable channel, no such
message or one that is pinned but not recorded, no user for the address.
`Obstructed` of `UserGroup` lists: create-incomplete, a name that another group has, be
it disabled, and a description that would have to be emptied.
`Converges` of `ProviderConfig` leaves the condition open while `unread`. Section 6
shows that these obstacles are real. `DeletionCompletes` names its exceptions in
the same way.

## 5. Proofs

All constants are arbitrary: any number of resources, replicas, channels, specs
and texts, and any bounds. The assumptions are the named ASSUMEs of the
modules: the sorts are distinct, metadata.name is never a channel ID, bounds are
naturals.

`ManagedReconcilerProofs`. `MRTypeCorrect`, `LoopInvariant`, `CreateIsExclusive`.
`CreateExclusive` is not inductive. `LoopInv` adds what makes it so: whoever is in
its Create section stands behind a *stored* create-pending annotation; a copy
that is the latest version and has passed the gate for unfinished creations
agrees with the stored object and so cannot have seen one; and a write needs a
latest copy. Hence a second replica's write of create-pending is refused as a
conflict.

Three more theorems about the loop rest on two further invariants. `RecordInvariant`
proves `RecordInv`: a create-pending annotation is stored only in an object with
a finalizer; a finalizer is only removed for a deletion. From it and `LoopInv` `LeaseIsKept` (every step is a step of `CreateLease` or
a stutter: a creation begins only when nobody creates and none was lost, even for
a resource that is deleted), and `OnlyUsersDecide`. `NamedInv` says that whoever is past
the initializer works on an object that has a name, and that a creation is under
way only for an object with a stored name: then the initializer of another replica, which
starts from an old cache without a name, is refused (`RecordStays`). `OnlyTheCreatorNames` follows. `ChannelCreationsAreLeased`, `GroupCreationsAreLeased`
and `ItemCreationsAreLeased` apply these to the controllers.

`ConversationProofs`. `ImplementsLoop` shows that every step of the Conversation
controller is a step of the loop with an arbitrary controller, so the theorems
above apply to it. `ConversationInvariant` proves `ConvInv`, which ties the
channel a resource holds to every copy that names it: if a resource holds an
acknowledged channel, then the annotation names it, or the annotation is behind
and the one replica in its Create section carries the ID (or the creation is
recorded as incomplete). From it follow `ChannelsAreNotForgotten`,
`ChannelsAreNotDuplicated` and `BookIsKept` (every step is a step of `ObjectBook`
or a stutter). `ChangesAreMeant` proves the action property `OnlyMeantChanges`: whatever the
provider does to a channel, a spec it works on says so. It rests on `EntitledInv`, since
a call comes several calls after the one that gave the right to it: late Create works on a channel
that no other resource's Create made, Delete for a resource that is to be deleted. That the first stays true
while others act is `AllAge`: a channel that was made is never unused again, and never becomes the one
of another resource.

`SlackClientProofs`. `ClientInv` says what is on the wire at each point of the call
and that a wait outlasts what Slack asked. From it `ClientTypeCorrect`,
`QuietIsKept` and `CallIsAtomic` (refinement of `SlackCall`).

`UserGroupMembersProofs`. `MembersInLoop` as for Conversation. `MembersInvariant`
proves `MembersInv`: what a worker was told is true or the worker is marked stale;
a list about to be written comes from a lookup of every entry and has somebody
on it; no resource is found missing, so no worker is ever in Create or removes a
finalizer. `OnlyMeantMembers` and `NeverEmptied` are action properties that need it,
because the write happens long after the lookups it rests on: `MembersAreMeant` (a list
is written to be exactly what the spec stands for, or empty by a deletion),
`NothingIsEmptied`, `MembersTypeCorrect`. `UpToDateListsAreExact` adds what it takes for no list to be
written: Slack listed exactly these users.

`UserGroupProofs`. `GroupsInLoop` as above. `GroupTypeCorrect` carries with the types that every
worker in Update or Delete addresses a group that was made. `GroupInvariant` proves
`GroupInv`: a held group (made by the resource's Create, its ID told to the
provider, not disabled since) is enabled, and whoever works on a copy that is
the latest version agrees with it about the ID, unless it is in its Create
section and carries the ID itself. It needs `LoopInv`, which says that nobody else
can be in that section. `GroupsAreNotForgotten`, `GroupsAreNotDuplicated` and `GroupBookIsKept` (every
step is a step of `ObjectBook` or a stutter), for any number of replicas.

`ChannelItemsProofs`. `ItemsInLoop` and with it `ItemCreateIsExclusive`; `ItemTypeCorrect`,
which includes that no pin or member is ever updated. `ItemsAreNotForgotten` is an
action property about the moment when the loop stores a new external name or
removes the finalizer, several calls after Observe answered "missing". `KnowledgeInv`
bridges the gap: as long as the copy is the latest version, its external name
is the stored one, and if the worker believes the item to be missing, it is
missing or the worker is in `doubt`. It also needs that a recorded bookmark was
made before, or else a later bookmark could have its ID. Another worker may bring the
item back between Observe and the write: a second replica with an old copy of the same
resource, or a worker of another resource for the same pin or membership.
`doubt` therefore records everyone whose resource records an item that somebody's Create has just
brought about (`Recording`), and `Absent` carries "missing" over all other steps
(`StillAbsent`, `OtherWorkerKnows`). That the name a worker observed is still the one that
is stored when another worker creates is `RecordStays`, from `NamedInv`. The theorem
assumes nothing about the number of replicas; TLC checks one, with two the state space
exceeds what it can enumerate in minutes.

`ProviderConfigProofs`. `ConfigInvariant` proves `ConfigInv`: a worker that is about to remove
the finalizer and whose copy is the latest version has listed the usages after
the deletion was asked for, and its informer showed none; so none is left that it saw
then (`old`), however far the informers lag. From it `ConfigTypeCorrect` and `ConfigInUseIsKept`,
for any number of replicas. `RestInvariant` proves `RestInv`, the safety half of `Converges`: a
worker whose cache is up to date and whom no event is going to wake (`Steady`)
works on the stored object and has counted the usages it sees, and once it is past the standard
reconciler either the stored count is theirs and a deletion waits for one of them, or it is
going to try again; and Ready is right, or excused, or somebody is going to judge the
Secret as it is now (`Judges`). The error paths of the wrapper, which decide who tries again,
are where this could go wrong. `RestIsRight`: when all workers
rest, the stored object is right. It assumes that there is a worker; without one
nobody works. (TLC checks one replica; faults and crashes with two exceed what it can
enumerate in minutes.)

`CopyForms`, `AnswerIsStep` and `FreshStays` in `ManagedReconcilerProofs` are lemmas about the loop
that all modules of controllers cite.

Only model-checked: the liveness properties (every `Converges`,
`DeletionCompletes`, `EveryCallReturns`), since fairness and ENABLED are beyond the prover. No module
needs a RECURSIVE operator or induction over data.

## 6. Where documents and code disagree

Each of these is a run that TLC refutes; PROJECT.json quotes the lines.

- `parameters`: a retry after HTTP 429 goes out with an exhausted body reader.
- `undeleted`: a deleted UserGroupMembers resource never goes, because its group
  still exists after Delete has emptied it.
- `description`: a description that is taken out of the spec of a UserGroup stays in the
  group, because an empty one is not sent; Observe sees the difference, so that
  the group is updated in vain for ever.
- `conflict`: a Conversation whose name is taken by a channel that the provider cannot find does not come
  to say NameConflict (`conversation.go:184`): Create sets the condition in its working copy, and the loop sets
  ReconcileError over it before the status is stored. NameConflict of a UserGroup (`usergroup.go:156`)
  and UserNotFound (`usergroupmembers.go:122`) are lost in the same way.
- `duplicates`: two entries of a UserGroupMembers resource that resolve to one user make a list that is
  never found equal to the one Slack gives, though it has the same IDs, because the lengths are compared
  first (`usergroupmembers.go:280`); it is written at every reconcile.

More were met while modelling. They have no run of their own; the modules
contain the behaviour, and `Obstructed` or a property's exceptions say where it bites:

- on `name_taken` Create adopts the channel, whoever owns it. Two Conversations
  then stand for one channel, and deleting one archives the other's
  (`conversation.go:178`);
- an archived channel is absent for Observe, its name is taken for Create, and
  adoption takes the archived channel: for ever (`conversation.go:141`);
- a topic or purpose with an e-mail address or a bare domain is never up to date, because
  `stripSlackAutoLinks` leaves `mailto:` or `http://` in front (`conversation.go:332`,
  `conversation_test.go:267`), against the comment at `conversation.go:327`: the channel has the text
  and is updated again at every reconcile;
- the finalizer of a ProviderConfig may go while a resource uses it, if that use was tracked so
  shortly before the deletion that the replica's informer of usages does not show it yet when
  the replica sees the deletion (`providerconfig/setup.go:60`). The documents promise nothing about it;
  `InUseIsKept` is about the uses the replica saw;
- an adopted channel is recorded only if the reconcile that found it also adds the finalizer:
  Observe names it in its working copy (`conversation.go:118`);
- a Secret that changes, or cannot be read for a moment, leaves Ready wrong until the resync
  (`providerconfig/setup.go:125`);
- a UserGroupMembers resource that is not imported never reaches its group,
  because Observe takes metadata.name for the group's ID and fails, so that
  Create, which would resolve the reference, is never called
  (`usergroupmembers.go:109`; the theorem `MembersTypeCorrect` shows that nothing is
  ever created);
- a create whose answer is lost leaves a channel that the deletion of the
  resource does not archive when spec.name differs from metadata.name
  (`conversation.go:113`, requirements.md 3.9); the same loss leaves a second bookmark
  (`bookmark.go:163`), a pin that is refused as `already_pinned` (`pin.go:162`) or a group
  whose name is taken (`usergroup.go:151`);
- Update joins first; Slack refuses that for private channels, so Update never
  does anything for them (`conversation.go:217`, against requirements.md 3.6-3.8);
- Delete trusts the copy of the resource that the reconcile began with. That a channel which was made for a
  resource is archived only once the deletion of that resource was asked for is no
  theorem, therefore: with two replicas (leader election is off by default, `main.go:51`) a resource is
  deleted and made again under the same name; the replica that still deletes from the
  old copy looks the new channel up by that name (`conversation.go:113`) and archives it. TLC
  finds this in the instance of `replicas` with three edits instead of two. `ImplementsBook` holds
  all the same, since an archived channel is nobody's;
- a bookmark whose Conversation was deleted first cannot be deleted
  (`bookmark.go:217`), nor can a membership of an archived channel
  (`conversationmember.go:188`);
- a timeout while the body is read is not a retriable error
  (`slack/client.go:149`, requirements.md 2.5).

## 7. Not modelled

- The runtime's grace period after a creation, deletionPolicy and
  managementPolicies: left at their defaults and not read by the provider.
- Whether the bot is a member of a channel: `conversations.join` is repeated by
  every Update and counts as a call that may fail.
- In `Conversation`, a request that timed out runs at once or never;
  `SlackClient` has the late execution.
- The scans of `FindConversationByName` and `GetConversationMembers` over their pages are
  one step each: a change between two pages is not modelled.
- Items: the resolution of a bookmark's or pin's channel and the Slack call that follows
  it are one step; a channel is archived, never deleted.
- ProviderConfig: the condition Terminating, the informer of Secrets (a Secret is read as it is), and usages whose controller
  reference is broken. The credentials as the other controllers read them are
  a call of Connect that may fail.
- `ResolveUserGroupID`: only a Create that is never reached calls it.
- Deep copies, scheme registration, flags, feature gates, packages and CI: no
  state that a property is about.

## 8. Plan

Written: the loop, Conversation, the Slack client, UserGroupMembers, UserGroup,
the channel items, ProviderConfig, and for each the theorems of section 5.

Left, in this order:

1. Pagination of channel and member lists against concurrent changes, as a
   module of its own whose result refines the one-step scans.
2. Two Conversations that share a channel by adoption (`conversation.go:178`): that only an adoption
   makes them share it, and that the one the channel was made for keeps it.
3. An abstract register of items, as `ObjectBook` is one of channels and groups.
4. Instances of `ProviderConfig` and `ChannelItems` with two replicas, faults and crashes.
