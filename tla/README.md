# Verification of the Karpenter IBM Cloud provider

TLA+ modules that model the provider in `src/`, TLC runs that check them on small
instances, and TLAPS proofs that hold for every instance. `PROJECT.json` maps each
definition to the lines it models and lists the runs, the hazards and the theorems.

    tlc -config VPCLaunch.cfg MCVPCLaunch     # one run
    tlapm VPCLaunchProofs.tla                 # one set of proofs

There is one run per component or composition. Its module is `MC<name>`, which gives the
constants their values and narrows the initial states where the text says so, and its
configuration is `<name>.cfg`. A run checks invariants, action properties, the refinement
and liveness together. A property that is a conjunction of several (`ClassIsConsistent`,
`BootIsSafe`, …) names its parts in its definition, each with its own comment.

## The system

The provider is one process of controllers around `CloudProvider`. Karpenter core
creates NodeClaims and calls `Create`, `Delete`, `Get` and `List`; the provider turns a
claim into a VPC instance (VPC mode) or into an isolated IKS worker pool (IKS mode), and
its own controllers repair what failed calls, deleted objects and the cloud leave behind.
One process is active at a time (leader election). It keeps its durable state on
Kubernetes objects: annotations, finalizers, ConfigMaps and status conditions, written
under optimistic locks. The IBM Cloud APIs are eventually consistent and their replies
get lost.

### Inventory

| Component | Module | State | Hard part | What makes it correct |
|---|---|---|---|---|
| VPC launch journal (`providers/vpc/instance`, `controllers/nodeclaim/allocation`) | `VPCLaunch`, `LaunchContract` | annotation and finalizer on the NodeClaim; instances | a lost reply, a crash or a deletion between two remote calls | no leaked instance, at most one, only its own is published or deleted, every launch resolves |
| IKS allocation (`providers/iks/workerpool`, `controllers/iks`) | `IKSAllocation`, `LaunchContract` | reservation ConfigMap, allocation annotation, pool, worker | uncertain creation; cleanup racing creation | one pool per claim, no leaked pool, reservation outlives the pool |
| Circuit breakers (`cloudprovider/*circuitbreaker.go`) | `CircuitBreaker`, `NodeClassBreakers` | one breaker per NodeClass and region | results that arrive late or for a replaced breaker | no leaked slot or probe, open means closed to callers, never blocked for good |
| Request batcher (`batcher`) | `Batcher` | buckets, trigger channel, workers | goroutines around a one-place channel | no lost wakeup, every request answered once with its own result |
| Garbage collection, orphan cleanup | `Orphans` | none of its own; several listings | listings taken at different times | only orphans are deleted, and they are |
| Interruption | `Interruption` | annotations, cordon, unavailable offerings | a Node that recovers or is replaced | only the interrupted Node is touched |
| Load balancer, NodeClass termination | `LoadBalancer`, `NodeClassTermination` | pool members, finalizers | partial failure over several pools; deletions that wait for each other | members are protected by a finalizer, deletions complete |
| NodeClass hash and drift | `HashMigration` | hash annotations, checkpoint | a crash or an edit in the middle of a migration | no drift lost or invented |
| NodeClass status, autoplacement, images, subnets | `NodeClassStatus`, `ImageResolution`, `SubnetSelection` | status and conditions | two writers of one status, edits during a validation | the status describes the generation it names |
| Registration, startup taints, tagging | `LegacyNodes` | finalizers, labels, taints, tags | core works on the same objects | the migration ends and adopts only the claim's own Node |
| Bootstrap tokens and user data | `NodeBootstrap` | secrets with expiry, bindings | expiry during a boot, shared tokens | a token outlives the boot |
| Instance types, unavailable offerings | `InstanceTypes` | marks with expiry, cached zones | prices, marks and zones that change during a call | answers right for what was read |

`Create` asks the breaker of its NodeClass, runs the instance provider (which works
through the launch journal) and reports the result to the breaker. The allocation
controller works on the journal of a deleted claim. Pricing for instance types goes
through the batcher. Garbage collection, interruption and preemption delete claims or
instances beside all this.


## The launch journal: `VPCLaunch`

One NodeClaim, the instances made for it, and everything that touches either. Instance
names are a function of the cluster UID and the claim UID, so launches of different
claims do not meet. `claim` is the object in the API server (finalizers, journal,
provider ID, resourceVersion); `creator` is the call of `Create` in progress with what it
has read; `cleaner` is the reconcile of the allocation controller; `requests` holds the
`CreateInstance` requests that the cloud has not decided, which outlive the process.

| Actions | Code |
|---|---|
| `CreateStart` … `CreateTag` | `VPCInstanceProvider.Create` with `checkpointLaunch`, `updateLaunch`, `findLaunch`, `recoverLaunch`, `markLaunchRejected`, `resetPreparedLaunch`; one action per remote call |
| `CreatePublish` | the lifecycle controller storing the provider ID |
| `CleanRead` … `CleanRelease` | the allocation controller and `CleanupPending` |
| `ProviderDelete` | `VPCInstanceProvider.Delete` |
| `CreateError`, `CreateTimeout`, `CleanError`, `Restart` | failed calls, lost replies, a crash or change of leader, perhaps with other credentials |
| `Cloud…`, `Node…`, `Core…`, `DeleteClaim`, `OtherWrite`, `Tick` | the cloud, the kubelet, core, other writers, time |

The journal's configuration (profile, zone, subnet, image) is one value of `Configs`:
the code only compares it. Reading and writing an object that another writer changed
fails by its resourceVersion, as in the API server.

Time is in ticks. `MaxLatency` bounds the time from `SubmittedAt` until the cloud has
decided and the instance is listed, `MaxLookup` the time from an empty lookup until
`abandoned` reads the clock. The code's window is safe under
`Timely == MaxLatency + MaxLookup <= Window`, which is an assumption on the cloud that
the code makes with its window and cannot check.

Run `VPCLaunch`: two accounts, two configurations, two instances, one fault and time for
a launch, its window and a second launch. No instance leaks (`NoLeak`), the claim has at
most one (`AtMostOne`), only the instance that the journal describes is published or
deleted (`PublishesOwn`, `DeletesOwn`), and the journal implements `LaunchContract`: a
launch only for a live claim that owns nothing, and the claim goes only when nothing is
left. A submitted launch resolves (`LaunchResolves`), and a deleted claim is released
(`DeletedIsReleased`), with two exceptions: the process holds credentials of another
account, or an instance joined as a Node before its provider ID was published, which
`CleanupPending` refuses to delete while the Node lacks core's termination finalizer
(`recovery.go:433`). Accounts are alike, so a behaviour begins with the first.

`CHECK_DEADLOCK FALSE`: the claim ends, and the bounds on time, writes and faults stop
the rest. `MaxTime` and `MaxWrites` are guards of the actions that start something new,
so that what has begun can end.

Fairness: the process keeps taking steps and controllers retry (a work queue), the cloud
decides requests and completes deletions, Nodes drain, time passes. Failures are not fair
and are bounded by `MaxFaults`. One reconcile per object at a time, which
controller-runtime guarantees, is part of the model.

### Proofs

`VPCLaunchProofs` proves, for any accounts, configurations, instances and bounds:

* `TypeCorrect`, and `PublishesOnlyOwn` and `DeletesOnlyOwn`, which need
  no assumption on the cloud. Their inductive invariant `OwnInv` says that `Create` works
  on the launch the claim's journal describes (or has not written it yet), that a version
  it read and that is still current is of a live claim (`OwnJournal`), that a request is
  told from those of earlier calls by the version it was submitted at, so that a late
  answer is not taken for the current one (`OwnRequest`), that what is about to be
  returned or was published is as journalled (`OwnInstance`), and that the cleanup runs
  only while the claim is deleted and keeps its finalizer (`OwnCleanup`). Requests may
  take for ever: instances then do leak, but a foreign one is neither published nor
  deleted.
* `NeverLeaks`, `NeverTwo` and `LaunchRefinesContract`, under `Timely`. `NoLeak` is not
  inductive: whether a step may reset the journal depends on what `Create` or the cleanup read before. The invariant
  adds `Journalled` (a request in flight, or about to be sent, is the journalled one and
  within its latency, and a live claim with a journal has the finalizer), `OneRequest`
  (at most one request, none while `Create` is about to send), and `CreatorView` and
  `CleanerView` (what each thread remembers is true of the claim, or its resourceVersion
  is old and its next write fails; after an empty lookup nothing exists, and what can
  still appear will have appeared before the window ends). The refinement also needs
  `LiveCore`, that a live claim has core's finalizer.

## The IKS allocation: `IKSAllocation`

One NodeClaim, its reservation (a ConfigMap), the worker pools made under its name and
their workers. The lifecycle controller (`core`) runs `createAllocation` or
`deleteAllocation`, the allocation controller (`alloc`) `Cleanup` or `ConfirmGone`; both may
run `cleanup`, so its actions take the controller as a parameter. `lockPool` is held in the
steps of `LockedPCs`; a restart drops it with the process.

| Actions | Code |
|---|---|
| `CreateStart` … `CreatePublish` | `createAllocation` with `checkpoint`, `reserve`, `restoreReservation`, `updateReservation`, `validatePool` |
| `CleanRead`, `CleanNodes`, `Release` | the allocation controller and `Cleanup` |
| `CoreDelete` | `CloudProvider.Delete` and `deleteAllocation` |
| `CleanReserve` … `CleanDelete` | `cleanup` |
| `GoneFind` … `GoneFree` | `ConfirmGone` |
| `CallFails`, `CreateTimeout`, `Restart` | failed calls, conflicts, lost replies, a crash |
| `Cloud…`, `Pool…`, `Worker…`, `Node…`, `Core…`, `DeleteClaim`, `Tick` | IKS, the kubelet, core, the user, time |

The immutable part of the `Allocation` is represented by its account; the comparisons of
flavor, zone, subnet, labels and resources only ever end a call, as `CallFails` does. A
patch under an optimistic lock succeeds if the object equals the copy that was read, so
resourceVersions need no counter: a deleted claim and a reservation under the lock never
return to an earlier value, and a conflict with an unrelated writer is a `CallFails`. Pool
names are not assumed to be unique in IKS. Time and `Timely` are as for the journal; the
window is `poolCreationWindow`, counted from `creationStarted`. Past `MaxTime` no creation
starts.

Run `IKSAllocation`: two accounts, two pools, two workers, one fault, and time for two
creations. No pool leaks (`NoLeak`: claim, finalizer and reservation outlast it), there is
at most one (`AtMostOne`), the two records never contradict each other or the pool and the
reservation a call holds under the lock is current (`RecordsHold`; the code would refuse to
go on for good), and the claim leaves neither the reservation nor the published worker
behind (`NothingLeft`, although a worker may outlive its pool and `cleanup` makes the
reservation again when `ConfirmGone` has deleted it). It implements `LaunchContract` with
`Launchable = {"live", "deleting"}`: `creating` is written to the ConfigMap, not to the
claim, so a pool may still be asked for while the claim is deleted. A provisioned worker of
a live claim is published, and a deleted claim is released (`ClaimsSettle`). Exceptions, by
design of the code: a Node that joined before publication, a worker that replaced the
recorded one, and credentials of another account. Fairness as for the journal.

### Proofs

`IKSAllocationProofs` proves, for any accounts, pools, workers and bounds and under
`Timely`, all of the safety: `NoPoolLeaks`, `NeverTwoPools`, `RecordsNeverContradict`,
`NothingIsLeft` and `AllocationRefinesContract`. None of the properties is inductive:
whether a call may ask for a pool, free the reservation or release the claim depends on
what it has read, perhaps before the other controller moved. The invariant `IInv` adds:

* `Mutex`: one call is in a step under `lockPool`. It carries `Copied`: the reservation
  such a call remembers is the reservation, so its patches do not conflict with those of
  the other controller.
* `Identities`: the claim, the reservation and the calls that know a pool know the same
  one, and so for workers; who knows a worker knows its pool.
* `Requested`: while a request is in flight or about to be sent, the reservation is
  pending, within `MaxLatency` of its start, and nobody knows a pool. From there and
  `Looked` (what an empty lookup saw, and when) follows that after the window nothing can
  appear any more; this is the only place that needs `Timely`.
* `ClaimState` and `Released`: what the claim's phase and finalizers say of the
  reservation. A finalizer is missing only when its controller is done; the other one
  then still has its own, or nothing is left.
* `View`: what each call knows at each step. A cleanup past its judgement knows that
  nothing exists and nothing will be asked for (`Over`), and its copy of the claim has
  all finalizers that the claim still has, since finalizers are only ever removed from a
  deleted claim; so a stale copy makes its release fail and never succeed too early.

`Timely` is sharp: with a window shorter by one tick TLC finds `NoLeak` violated, by a pool
that appears after the judgement that none will. The refinement needs no more than the
invariant; `Orderly` says which steps the contract allows.

## The circuit breakers: `CircuitBreaker`, `NodeClassBreakers`

`CircuitBreaker` is one breaker as a record and pure operators, named after the methods.
Times are ages, and failures are counted by age up to the window, which is all that
`countRecentFailures` looks at. `NodeClassBreakers` is the manager's map and the calls of
`CloudProvider.Create`. `CanProvision` and `RecordFailure` run under the manager's lock;
`RecordSuccess` and `RecordPending` release it between finding the breaker (`Lookup`) and
telling it (`Report`), so that the breaker may be gone from the map by then.
`ResetNodeClass` has no caller outside tests and is switched by `ManualResets`.

Run `NodeClassBreakers`: three calls, thresholds of one and two, resets. No slot and no
probe leaks: what a breaker counts is covered by calls that will give it back
(`NoLeakedSlot`, `NoLeakedProbe`); an open circuit admits nothing before its timeout
(`BlocksWhileOpen`), and whenever calls have returned and time has passed a circuit admits
calls again (`NeverBlockedForGood`). A launch may take longer than the recovery timeout,
since nothing bounds it: a call from before the circuit opened may then end pending while
it is half open, and `RecordPending` frees a probe's place for it. The history variable
`strays` counts these reports, and `ProbeLimit` says that they alone let probes in beyond
`HalfOpenMaxRequests`. `BlocksWhileOpen` relies on
`RecoveryTimeout <= UnusedAge`: with a longer timeout the cleanup drops open breakers.
Calls end, and time passes; that is all the fairness assumed. One key is enough: keys
share only the time of the last cleanup, and the proofs are for any set of them.

`NodeClassBreakersProofs` proves for any
keys, calls and thresholds:

* `BreakersTypeCorrect` (no counter below zero), `NeverLeaksSlot` and `NeverLeaksProbe`.
  The invariant adds that only a half-open circuit counts probes and that a call which
  holds a breaker was admitted by it or by a predecessor; a lemma on cardinalities then
  carries the counters through each step.
* `BlocksUntilRecovery`, if `RecoveryTimeout <= UnusedAge`. The further invariant `Shut`
  says that until the timeout has passed since the circuit opened, the breaker is in the
  map, open, and knows when it opened.
* `ProbesAreLimited`, without a hypothesis on durations. The further invariant `Probing`
  says that on a half-open circuit the probes in progress are at most those counted and
  the strays: an admission counts one more, and a report of a probe takes away both the
  probe and its place, whatever a cleanup, a reset or a reopening did in between.

## The batcher: `Batcher`

`add` is where each caller is in `Add`; `requests` the buckets; `trigger` the number of
elements in the channel; `pc` and `count` the `run` goroutine; `batches` the buckets it
has taken, `running` those with a worker. The two timers and the cancellation of
`waitForIdle` become one action that may end the collection at any time. A pricing is
named by its catalog entry, so that `execPricingBatch` and `runCalls` can be compared
with what the caller asked for.

Run `Batcher`: three callers, of whose entries two have the same hash and the third another,
so that two buckets compete for the one worker. `NoLostWakeup`, `ExactlyOnce`, `OwnAnswer`;
and every `Add` returns until the context ends, and requests that were taken are answered
even then (`RequestsEnd`). Fairness: goroutines run, catalog calls end, timers fire, and
senders blocked on a channel are served in order, as Go does (hence strong fairness of
`Trigger`). `CHECK_DEADLOCK FALSE`: after the context has ended, `run` stops and later
callers wait for ever; the process is shutting down.

`BatcherProofs` proves the safety properties for any callers, entries, hash function
and limits. The invariant adds that requests wait in the bucket of their hash
(`Bucketed`, so that two buckets never share a request) and that `run` starts what it
took before it takes more (`Settled`).

## The hash migration: `HashMigration`

The annotations of a NodeClass, the claims it stamped, and the hash controller with each
read and patch a step (`Reconcile`, `Checkpoint`, `List`, `migrateClaim`, `Migrated`,
`Finish`). A patch fails if the object is in `changed`. Meanwhile the specification is
edited, claims are launched and marked as drifted, core writes claims and the controller
restarts. A specification has a part that provisioning depends on and a part that it does
not; a hash is the parts it covers, so hashes do not collide.

Run `HashMigration`: two claims, two values of each part, an edit, two foreign writes, a
restart. A claim that was launched from a specification with another provisioning part is
reported as drifted throughout (`NoMissedDrift`), one of the current specification never is
(`BumpDoesNotDrift`), a claim that the checkpoint covers is exact from then on
(`PinnedStayExact`), and the migration ends (`MigrationCompletes`; a queued class is
reconciled and a reconcile goes on). `CHECK_DEADLOCK FALSE`: the migration is over at
some point. Not modelled: a migration annotation that does not parse, which ends every
reconcile with an error (`hash.go:117`); a class that is being deleted, which the controller
skips; and the lag of the caches from which drift detection reads class and claim
(`cloudprovider.go:755`), which are taken as they are stored.

`HashMigrationProofs` proves the three safety properties for any claims, values and
bounds. The inductive invariant adds that a claim carries the hash of the specification
it was launched from, in the version it names (`StampsAreOwn`), and what the annotations
and the copies in a reconcile say about the claims at each step.

## NodeClass status: `NodeClassStatus`, `SubnetSelection`, `ImageResolution`

One NodeClass between its user, the status controller, the autoplacement controller and
the launches that read it. `nc` is the stored class, `cached` the informer's copy, `ctl`
what each controller works on, `cloud` what exists, and `recent` the states of the cloud
that may still be in the subnet caches. `SubnetSelection` and `ImageResolution` are the
pure parts: scoring and choosing subnets, and parsing, filtering and ranking image names.

Run `NodeClassStatus`: a class with an explicit subnet, with each strategy (one of them
together with a zone and without a subnet, one in another VPC), with requirements and with a
malformed field; six subnets in three zones, an older Node where autoplacement would not put
one; one edit, of a class that began well formed and without a zone of its own, and one
change of the cloud at any time. `ClassIsConsistent`: a Ready class carries an
image and security groups of the very specification it names; a launch is of one generation;
the selection is what its strategy says; and a fresh launch is not drifted by
its image or groups, nor by its subnet if the class gave it: in the specification, or in a
selection made for this generation (history variable `selected`). Launches whose subnet
`Create` chose itself are in the run and excluded from the last part, because drift
detection does report them (observations). `ClassFollows`: once user and cloud are quiet,
status and selection follow, and the image is the best of those meant, against a reference
list per request (`Meant`). Fairness: the informer delivers, queues are worked off, the daily
refresh comes, caches expire. `CHECK_DEADLOCK FALSE`: everything is up to date at some point, and `MaxStamps`
bounds the validations that wake the controller by the second they stamp.

What one validation reads is one look at the cloud. The program has three subnet caches;
a reader in the model sees any state of `recent`, whichever cache it comes from. Formats of
identifiers are one fact of a specification (`formed`). Left out: the list of selected
instance types in the status, which nothing reads; a change of it alone is one more write of
the class.

## How an instance becomes a Node: `NodeBootstrap`

Launches that find or make a bootstrap token, gather what the user data needs and boot;
the token controller that deletes expired tokens and keeps the bindings; core's
registration. Time is in units that are short against the life of a token.

Run `NodeBootstrap`: two launches, three tokens, one failure; the bindings are absent at
first and one may be dropped. `BootIsSafe`: a token outlives the boot for which it was
handed out, tokens are shared, and a Node is tainted until core has registered it. `BootCompletes`: instances
join unless they take longer than the time of renewal, and expired tokens go. Fairness:
the controller and the launches go on. `CHECK_DEADLOCK FALSE`: time ends. Not modelled:
the text of the script, the DNS fallback, and `CreateBootstrapToken`, which nothing calls.
The network plugin is detected by looking for one workload after the other; the model keeps
whether there is one and whether its release has to be asked of the network (`calico` stands
for those), which is how a launch can fail here.

`NodeBootstrapProofs` proves `BootIsSafe` (theorem `BootingIsSafe`) for any finite number of
launches, any bounds, and any life of a token longer than the time of renewal. Its
invariant says what an old listing is still good for: the tokens it shows were made, with
this expiration, and are stored until they expire (`Copy`). It holds of the listings of the
launches and of that of the cleanup, so the cleanup deletes only what has expired, and a
launch finds the token it picks still stored; hence `Handed`, that a token handed out
outlasts the time of renewal. That tokens are shared is not inductive as a bound on their
number: two launches with empty listings may each make one. `Shared` accounts every token
that could be handed out to a launch of its own, which is not about to make another and
finds this one if it is choosing from a listing; the bound follows since the accounting is
an injection. Ids are never used twice (`Later`).

## The catalog: `InstanceTypes`

One call of `List`, `Get` or `Create` against marks of unavailable offerings that are set
and expire, prices that come and go, the cache of zones, and calls that fail. Prices,
memory and CPUs are integers in units given in the module; memory is exact below 339 GiB.

Run `InstanceTypes`: four profiles, one of which cannot be converted and one of which is
sold as spot too, two zones, four classes, claims for either capacity type and for both, one
event. `AnswersAreRight`: a price cap is kept by the list and by the profile and capacity
type that are launched; a list lacks a profile only if a zone lookup failed in this call; no
type that is nowhere smaller is cheaper for the claim than the one launched for a class with
requirements, provided the ranking knew what the claim pays for the launched one; and the
capacity type of a launch was on offer, for the launched type and in its zone if the claim
leaves no choice of them. The two provisos are needed (observations). `MarksStay`:
a call that found a mark expired does not drop a new one (the lock is released between
reading and deleting). Deadlock is checked: there is always a next call.

## Left-overs: `Orphans`

Garbage collection (`gc`) deletes the Node of an instance that is gone, orphan cleanup
(`oc`) the instance of a claim that is gone; each listing and lookup is a step. Claims are
launched, tagged, published and deleted meanwhile, kubelets register, Nodes take over a
name, and a restart may change the account.

Run `Orphans`: one claim, two instances that its Node name stands for in turn, two
accounts, and claims and instances of an earlier release or of another cluster. In one
behaviour one of the controllers runs; what the other does to an instance or a Node, the
cloud or a user does too. `OnlyOrphansGo`: a Node is deleted only if its instance is gone,
an instance only if it is this cluster's, old enough and its claim gone. `OrphansGo`: both
get deleted, under fairness of the controllers, of time, of the kubelet that stops
reporting and of core. `CHECK_DEADLOCK FALSE`: nothing is left to do at some point.

`OrphansProofs` proves `OnlyOrphansGo` (theorem `OnlyOrphansAreDeleted`), for any claims,
instances, accounts and bounds and also with both controllers running at once. Both act on
what they read several calls ago. What makes this safe is that the facts they rely on do
not go away (`Lasting`): an instance that is gone stays gone, a claim that is gone is not
made again, an instance keeps its tags and grows older. The invariant says which of these
facts a reconcile has seen at each of its steps (`Suspected`, `Orphaned`), that a Node that
was read is still the one of its UID (`Copied`), and that the account on record for a claim
is the account of its instances (`Recorded`). The last is why an instance that `Get` does
not find is gone, and not merely invisible to the credentials in use; with the UID in the
preconditions of the deletion, the Node that is deleted is the one whose instance was
looked up. Nodes without a NodePool label are not in the model: garbage collection skips
them (`isKarpenterManagedNode`). The assumption that every claim may have an instance says
what the claims of earlier releases in the initial states need.

## Interruption: `Interruption`

The reconcile step by step with a lagging cache (`cache`), signals that come and go, and
Nodes that are replaced under their name. Run `Interruption`: one name, two Nodes after
each other, three signals. `OnlyInterruptedGo`: only a Node that carried a signal is
cordoned or marked, and only while it carries one is it deleted. `InterruptedIsHandled`: a
signal that persists is acted upon, if the controller is rerun and the cache catches up.
One name is enough: the loop handles one Node at a time and keeps nothing between them.
Nodes without a NodePool label or an IBM provider ID, which the listing skips, are not in
the model.

`InterruptionProofs` proves `OnlyInterruptedGo` (`OnlyInterrupted`) for any names, signals
and replacements. A write is computed from a copy that may be stale, so the invariant
orders the copies: what the controller holds is before what the informer shows, and that
is before what the API server has (`Copies`); a later version of one object keeps its
marks, and equal versions are equal objects (`Before`). While a Node is handled, it and
what became of it carried a signal (`Handling`). A write that passes its precondition then
changes the very object it was computed from.

## Deletions: `LoadBalancer`, `NodeClassTermination`

`LoadBalancer` is the controller that registers one claim with the target groups, and
`NodeClassTermination` composes it with the termination controller and the Node. Run
`NodeClassTermination`: two target groups, one failure, one edit of the integration.
`NodesAreProtected`: a registered claim is in every group, a member is protected by the
finalizer, and a Node that the informer had shown is gone before the class.
`DeletionsComplete`: registration, the deletion of a claim and that of a class complete,
if both controllers go on, the informer catches up, and core drains and finalizes.
`CHECK_DEADLOCK FALSE`: all is deleted in the end.

## Left by earlier releases: `LegacyNodes`

The registration controllers of claims and of Nodes, the startup taint controller, core,
and the tagging controller, on one claim and the Nodes that have its name. Run
`LegacyNodes`: two Nodes, one foreign write; what earlier releases wrote together is there
together. Tagging and migration share only the objects: in one behaviour a claim is migrated
and may be written by others, or it has tags and is migrated already. A claim is either
written by others or deleted, and a Node that takes the name stays. `MigrationIsSafe`: only
the claim's own Node is adopted; of a Node that took its name nothing is changed but the
legacy finalizer; and no Node that is being deleted gets a new finalizer, although the
controllers decide by what they read before. `MigrationSettles`: nothing of the earlier
release is left, although core copies labels from older copies, neither adoption nor
deletion is blocked, and the user's tags reach the instance also when the NodeClass is
edited to describe IKS. Fairness: controllers and core go on, and tagging, which is tried
again in every loop, does not fail for ever (strong fairness of a successful `TagClaim`).
Tagging reads claim and Node and writes the tags in one step; which instance it tags is no
part of `MigrationIsSafe` (observations). `CHECK_DEADLOCK FALSE`: the migration ends.

## Observations

Met while modelling. The models follow the code; none of these breaks a property above.

* The cleanup of breakers judges a closed breaker by its last change of state
  (`nodeclasscircuitbreaker.go:266`) and drops one with calls in progress; its successor
  counts from zero, so that more than `MaxConcurrentInstances` may be created at once.
* `docs/circuit-breaker.md:143` says of the half-open state "Limited number of test requests
  allowed (`HalfOpenMaxRequests`)". `RecordPending` (`circuitbreaker.go:193`) frees a place
  whichever call reports, so each pending result of a launch from before the circuit opened
  lets one more probe in.
* Failures within the window open the circuit although successes lie between them; the
  comment says "3 consecutive failures".
* `Add` blocks on the trigger channel (comment at `batcher.go:90`) when another `Add` has
  triggered, for as long as `run` is blocked at the worker limit.
* Autoplacement ranks subnets without the cluster's Nodes and is not rerun when the cloud
  changes. A strategy that is removed while no subnet is given leaves the old selection.
* A fresh claim may be reported as drifted by its subnet (`cloudprovider.go:835` compares it
  with the selection in the status) where `Create` did not take it from there: for a zone
  with a strategy and no subnet it ranks the subnets of the zone itself
  (`instance/provider.go:376`); before there is a selection it ranks all with the cluster's
  Nodes (`instance/provider.go:347`). A class that was edited, to another VPC say, may launch
  once with the selection for the generation before. Core then replaces the Node.
* Subnets with equal scores are ordered by the listing, so the selection may change with it.
* An image given by name or ID is not checked for its status.
* Load balancer: registering again is not idempotent, deregistration is tried once, and the
  wait for a healthy member never takes effect, since its guard reads the NodeClass from a
  context that never carries one.
* A class can go before Nodes that join late; a claim whose class is gone keeps the load
  balancer finalizer.
* The tagging controller takes the instance from the provider ID of whichever Node has the
  name (`tagging/controller.go:71`) and does not compare it with the claim's, so a Node that
  took the name has its instance tagged with the tags of the claim.
* `Create` takes the first type, the capacity type by the offerings of all types
  (`capacitytype.go:31`) and the zone from the class or the subnet, not from the claim: the
  three together may be no offering (`instance/provider.go:290`, `:311`). Types are not
  ranked for a class without requirements, and the ranking counts offerings that the claim
  excludes or that are marked unavailable (`instancetype.go:329`).
* An instance without claim whose Node stays is not cleaned up by either controller.

## What is proved, checked and left out

Proved for all values of the constants: the safety of the launch journal and of the IKS
allocation and their refinement of `LaunchContract`, all safety properties of the circuit
breakers, of the batcher, of the hash migration, of the interruption controller, of the
bootstrap and of garbage collection and orphan cleanup. The hypotheses are `Timely` for
`NeverLeaks`, `NeverTwo`, the refinement and the IKS allocation, `RecoveryTimeout <= UnusedAge`
for `BlocksUntilRecovery`, and the named assumptions on the constants in the modules.

Only model-checked, on the instances above: all liveness, which with `ENABLED` is beyond
this prover; and the safety of `NodeClassTermination` and `LegacyNodes`, for which an
inductive invariant has not been worked out. `InstanceTypes`, `NodeClassStatus`,
`ImageResolution` and `SubnetSelection` rest on computations over sequences, whose proofs need
induction over data, which the prover cannot do either.

Not modelled: the IKS pool cleanup and the spot preemption controller (sequential passes),
the pricing map and the generic cache, the VPC client manager, the IBM Cloud clients
beyond what their calls do, credentials beyond their account, rendering of user data, API
types, and set-up. `PROJECT.json` gives the reason for each, and lists the hazards that no
property covers with a note.
