# TLA+ models of the MatrixOne operator

The MatrixOne operator (`src/cmd/operator`, `src/pkg`) runs MatrixOne database
clusters on Kubernetes.  It is one process with some fifteen controllers.  Each
controller watches objects, and for every object that changed one of its
workers calls *Observe* (or *Finalize* for an object being deleted) with a copy
from the informer cache, and makes a few API calls or RPCs.  What is hard about
it is what happens between those calls: the cache is behind, other controllers,
Kruise, the nodes and users change the same objects, a call fails half-way
through, the operator restarts, and HAKeeper (MatrixOne's own membership
service) takes time to tell the rest of the database what it was told.

This directory models those controllers: the pooling of compute nodes (CNs) call
by call, the log service and its failover, buckets, backups, the cluster, and
the way of a spec through admission, configuration and templates to the pods.
Sections 1 and 2 are the inventory and the plan, 3 to 5 what is there, 6 what
is known not to hold, 7 what is left out.

## 1. Inventory

| component | state it keeps | operations | talks to |
|---|---|---|---|
| CNClaim controller (`controllers/cnclaim`) | `spec.podName`, `spec.sourcePod`, `spec.poolName`, `status.phase` of a claim; the labels `pod-phase` and `claimed-by` of a pod | Observe, Bind, Sync, migrate, Finalize, reclaimCN, transferPodOwnership | HAKeeper (work state of a CN), pods, the pool (through the labels) |
| cnstore controller (`controllers/cnstore`) | on the pod: drain-start, score and lock-restart annotations, draining finalizer, readiness condition, phase label | observe, syncStats, OnCordon, OnPreparingUpdate, OnPreparingStop, OnNormal, poolingCNReconcile, OnDeleted | HAKeeper, the CN (queries), lock service, Kruise (life cycle) |
| CNPool controller (`controllers/cnpool`) | current CNSet and its replicas, `podsToDelete`, legacy CNSets | Sync (scale out, scale in), syncLegacySet, reclaimLegacyCNClaim, Finalize | CNSets, pods, claims |
| CNClaimSet controller (`controllers/cnclaimset`) | a set of claims and a status count | scale, scaleOut, scaleIn, surge roll-out, clean-up of lost claims | claims (through the cache and directly) |
| CNSet, DNSet, ProxySet, WebUI controllers | a CloneSet, StatefulSet or Deployment, services, config maps | Create, Update, Scale, Finalize | Kruise, Kubernetes, the LogSet (addresses of its stores) |
| LogSet controller and failover (`controllers/logset`, `common/failover.go`) | available and failed stores, reserved ordinals, bootstrap replicas, gossip list | Observe, Create, Repair, Scale, Update, Finalize | StatefulSet, bucket claim, discovery |
| BucketClaim controller | which LogSet holds a bucket, the job that deletes its data | Observe, Finalize | LogSet, DNSet, CNSet (finalizers), a Kubernetes job |
| Backup, Restore, job GC (`controllers/br`) | a job, its phase, its time to live, the Backup | Observe, Finalize | a Kubernetes job, MatrixOneCluster |
| MatrixOneCluster controller | the sets of a cluster, credentials, conditions, restore state | Observe, Finalize | all of the above |
| config maps of pods (`common/configmap.go`, `api/.../toml_config.go`) | the configurations pods may still use | buildConfigMap of each kind, SyncConfigMap, ensureConfigMap | pods, templates |
| pod templates, volumes, file service (`common/podset.go`, `volume.go`, `fileservice.go`) | none of their own | SyncMOPod, overlay, volume resize, version gates | the set controllers |
| web hooks (`pkg/webhook`, `pkg/hook`) | none | Default, ValidateCreate, ValidateUpdate | API server |
| MO RPC client manager (`pkg/mocli`) | one set of clients per LogSet, store cache | GetClient, gc, GetCN | every controller that calls HAKeeper |

How the components interact.  The cluster controller turns a MatrixOneCluster
into a LogSet, a DNSet, CNSets, a ProxySet and a WebUI, after it has restored a
backup if asked to; it only ever writes their specs and reads their status.
Each set controller turns its spec into a config map and a workload; DNSets and
CNSets have the addresses of the log stores in their configuration and so
depend on the failover of the LogSet.  The LogSet and its users share a bucket
through finalizers on a BucketClaim.  In CN pooling the pool keeps a number of
idle CN pods; a claim takes one by an optimistic update of its labels (`Bound`,
the claim's name), tells HAKeeper that the CN works, and then refers to the pod
in its own spec.  A deleted claim tells HAKeeper to drain the CN and sets the
pod to `Draining`; the cnstore controller counts the workload that is left and
sets the pod to `Idle` again, or to `Terminating` when it takes too long.  The
pool takes `Terminating` pods away.  Kruise asks the cnstore controller before
it stops or updates a pod, and waits for a finalizer to go.

What makes each component correct:

* claims: no pod is given to two claims; the pod a claim refers to is its own
  and works; a claim has one pod; a claim that is gone leaves no pod behind;
  reclaiming never touches a pod in use; deletion ends.
* cnstore: a CN that is released to be stopped has no workload, and that was
  observed rather than remembered; a pod that goes back to the pool has none of
  its last claim's; a drain ends, whatever the workload and HAKeeper do.
* pool and claim set: only unused pods are deleted, and Kruise never has to
  choose one; claims get pods; a roll-out replaces every claim and set and ends.
* LogSet: failover never takes a majority of the log stores and does its work;
  the stores find each other; nothing is left behind.
* bucket, backup, cluster: data in use is not deleted; a command runs once; no
  store starts before the restore; the cluster gets to what its spec says.
* configuration, templates, admission: every admitted change gets to every pod;
  a pod that restarts finds its configuration; admission never refuses what a
  controller has to write.

## 2. Plan

Done, in this order: `ObjectStore`, `CNClaim`, `CNStore`, `CNClaimSet`; then
`LogSet` with `Bucket`, `CNPool` with `CNSet` and `PodLifecycle`, `Cluster` with
`BackupJobs`, and `PodSets` with `ConfigMaps`, `Admission`, `PodTemplate`,
`TomlConfig` and `Versions`.  Proved so far (section 5): type correctness of every
module with a controller but `Cluster` and `PodSets`, the binding and finalization
of claims, that drained and recycled CNs are empty, that claim sets neither make nor
delete claims twice, that the claims and the pool both implement
`PodLifecycle`, that the pool names the pods to delete, that commands run once and
restores come first, of `LogSet` the minority limit, the members, what is left
behind and that data in use stay, and of `PodSets` that changes get to the pods, that
admission refuses no controller and that pods find their configuration again.  With
that every invariant and every action property that a passing run checks is proved.

Next, most important first:

1. the client manager (client sets that are collected while they are in use)
   and the hooks of claims (`src/pkg/hook`);
2. two LogSets with one bucket in a run (`LogSet` has the scenario `"second"`, which
   no run of five minutes finishes together with the others).

## 3. The modules

In all modules an operation of a controller is an action; helpers keep the names
of the Go functions.  What can go wrong or is configured in a behaviour is
chosen at the start: `Scenarios` (`Disruptions` in the claim models) is a set of
sets of events, each module says which.

### ObjectStore

All controllers share one cache: `Get` and `List` are answered by it, writes go
to the API server.  An object is the sequence of its versions from the cached
one to the current one; delivering a watch event drops the first.  An `Update`
carries the resource version of the copy that was read and succeeds only if
that is still the current one (`UpToDate` when it was read, and nobody wrote
since); a `Patch` is a merge patch without that check.  `MaxLag` bounds how far
the cache may be behind.

### CNClaim

`pods[p]` and `claims[c]` are such objects; `ha` is the work state HAKeeper
has for the CN of each pod; `plan` is what the cnstore controller, a process of
its own, has decided to patch and has not patched yet; `w` is the claim
controller's only worker: its program counter, and the local variables of the
Go functions that live across calls (`ctx.Obj`, the pods still to be tried and
which of their copies are current, the result of `buildPodClaimIndex`).

| action | code |
|---|---|
| `Bind`, `BindOrphan`, `Sync`, `SyncGone`, `SyncDead`, `Finalize` | what Observe or Finalize does until its first write: all of it reads the cache |
| `ensureOwnership`, `OwnershipConflict` | the optimistic update of one candidate in `selectCN` |
| `SetWorking`, `PatchClaim`, `UpdateStatus` | the three calls of `syncBindPod` |
| `Nominate`, `ClearLost`, `SyncStatus` | the other ends of Bind and Sync |
| `MigrateObserve`, `MigrateWait`, `completeMigration` | `migrate.go` |
| `FinalizeStuck`, `transferPodOwnership`, `FinalizeReclaim`, `SetDraining`, `reclaimCN`, `RemoveFinalizer` | Finalize's loop, one call per step |
| `StoreDecide`, `StorePatch`, `OnPreparingUpdate`, `PoolScaleIn`, `reclaimLegacyCNClaim`, `LabelOutdated` | the other controllers, as far as a claim notices |
| `PodDeleted`, `PodDies`, `PodLifecycle`, `CreateClaim`, `DeleteClaim`, `MigrateClaim` | nodes, Kruise, users |
| `Abort`, `Restart` | a failing call, a crash of the operator |

The cnstore controller decides on its copy of a pod (`StoreCopies`): the cached one
it starts with, or the current one when a patch on the way changed something, was
sent and refreshed it.  A copy that is older than the controller's own patch to Idle is
among them with the disruption `"requeue"` only: the controller comes back to a pod
after 30 seconds, unless an event requeues it at once.

Abstracted: which of several candidates the sort prefers (any of them, so the
properties hold for every order), the CN labels and store status that are
copied (no property reads them), waiting times (`waitCacheTimeout` and
`propagationDelay` may have passed or not at every step).

### CNStore

One CN pod (the controller has no state that spans pods).  `pod` is the pod in
the API server with the labels, annotations and conditions the controller uses;
`load` and `txns` what the CN really has to do; `ha` its work state in
HAKeeper, `known` the state the rest of the cluster acts on and `lag` how long
the two have differed: the operator's configuration takes for granted that
they do not for longer than `MinDelay`.  `claim` is the next call of the claim
controller about this pod.  `w` is the reconciliation: its step, its copy of
the pod, and the score of the round.

Time is discrete and timestamps are kept as ages.  `Tick` happens between
reconciliations only, unless `"slow"` is in the scenario.  A merge patch
is sent if it changes the controller's copy; that copy then becomes the API
server's object, with what others changed.  (Whether the client library sends a
patch that changes nothing is not visible in this repository; `"resend"`
allows both.)

A scenario names the workload the MO version can report (`Kinds`), the
configuration of the pod (`Features`: drain enabled, paused updates, pooling,
direct pods, lock migration, ...) and what may go wrong (`Disruptions`); all are
described where they are defined.

### CNClaimSet

One claim set.  `set` and `claims[i]` are objects with versions; of a claim the
controller reads the phase, whether its pod is there, and whether it migrates.
`w` holds what Sync and Finalize carry from call to call: the replicas of the
copy of the set, the listed claims (`oc`), the claims still to be deleted,
created and cleaned, and the count that goes into the status.

| action | code |
|---|---|
| `Sync`, `CheckCache` | the count in the cache against the status, then against the uncached list |
| `scale` | the decision: scale-in, surge, scale-out |
| `DeleteSurplus`, `CreateOwned`, `CleanClaim`, `UpdateStatus` | one call of scaleIn, scaleOut, cleanClaims, and the status |
| `Finalize`, `PurgeClaim`, `PurgeDone`, `RemoveFinalizer` | Finalize |
| `BindPod`, `ClaimLost`, `ClaimGone`, `Outdate` | the claim controller and the pool, as `CNClaim` has them in detail |
| `PodLost`, `Migrate`, `Rescale`, `DeleteSet`, `CollectClaim` | nodes, users, the garbage collector |
| `Abort`, `Restart` | a failing call, a crash of the operator |

The order of deletion is the code's down to the phase; between claims of equal
rank any may go first.  Random instance ids are taken to be new.  `counted` is a
history variable: it is false from a reconciliation that could not store its
count, or read an old set, or from the loss of a claim, until one begins with a cache
in sync.  The check of the cache is as good as that count, and the two safety
properties say so.

### CNSet, CNPool, PodLifecycle

`CNSet` has the CNSets, their CloneSets and pods: `Observe` creates, updates or
scales the CloneSet (one of them in a reconciliation, as the code's early
returns have it), `Finalize` waits for the drain in the way the code does, and
kruise creates, relabels and stops pods.

`CNPool` composes it with the pool, the claims and what the cnstore and cnclaim
controllers do to the labels of a pod.  Sync is two steps: `SyncRead` lists
sets, pods and claims, and writes legacy sets and claims; `SyncWrite` decides on
what was read and writes.  `worker.fresh` is the set of pods that nobody has
written since: the optimistic update of another one is refused.  `Register` is
the cnstore controller's patch of a new pod to Idle; in the scenario `"late"` it
is two steps, `ReadUnknown` and `PatchIdle`.  A cached copy that is behind is a copy
that was read while it was current, so `"late"` has it; what is not in this module is a
copy older than the controller's own last patch, which `CNClaim` has (`"requeue"`).

`PodLifecycle` is the abstract specification of a pod: its phases, its moves, and
who holds it.  `CNPool!Lifecycle` instantiates it (and `CNClaimProofs!Lifecycle`,
section 5).  The refinement mapping has
one phase the labels do not show: a pod set to Terminating while its
registration is under way is `Condemned`, because the late patch brings it
back; every other Terminating pod is on its way out.

### Bucket, LogSet

`Bucket` has the BucketClaims (with versions), the helpers by which sets claim,
use and release them, and the controller that runs the Job that deletes the
data.  `LogSet` has the LogSet, its StatefulSet (both with versions), its pods by
ordinal, its config maps and services, and a CNSet that uses the bucket.  `giving[l]` is
the claim that Finalize has marked and is going to delete: the mark
(`finalizeBucket`) and the deletion (`FinalizeMarked`) are two calls, and other
controllers step in between; the CNSet's finalizer does so in the scenario `"late"`.

| action | code |
|---|---|
| `Observe` | one reconciliation: the bucket, Create (bootstrap decision, config maps, StatefulSet, discovery), the stores' status, then one of Repair, Scale and Update; with `"rpc"` it ends after any of its calls |
| `Finalize` | orphans, StatefulSet and services, then the bucket: it is released or marked |
| `FinalizeMarked` | the deletion of the marked claim, then the finalizer of the LogSet |
| `CNObserves`, `CNFinalizes` | the finalizer of a CNSet or DNSet on the bucket |
| `StatefulSetPods`, `StatefulSetUpdated`, `PodsStart`, `PodFails`, `StoreTimeout` | Kubernetes, kruise, nodes, the clock |
| `UserUpdates`, `UserDeletes`, `UserDeletesClaim` | users; an update passes the webhook's check of the bucket |

### BackupJobs, Cluster

`BackupJobs` has the two kinds of jobs: each look creates the Kubernetes job,
asks the command for its outcome, or records it; `jobs[j].runs` is a history of
how often the command was started, and `unseen` the Kubernetes jobs the cache
does not show yet.  `Cluster` composes it with the cluster controller: the
RestoreJob, the credentials (`InitRootCredential`, `InitMetricCredential`), the
sets and their status, the CNSets of groups that are no longer wanted, Finalize
and the garbage collector.  The sets' own controllers are `SetReconcile`.

### PodSets and what it is made of

How a change of a spec gets to the pods, for each of the five kinds of sets:

* `Versions` - semantic versions and the version gates;
* `TomlConfig` - configurations as trees of tables and the operations on them
  (set, get, merge).  Paths are folded over; the recursion of `deepMergeMap` is
  written out for the three levels of tables that the controllers merge (the file
  services, one of them, its storage or cache);
* `PodTemplate` - what the controllers compute of a pod template, overlays
  included;
* `Admission` - defaults and validation by the webhooks of sets and cluster;
* `ConfigMaps` - the configuration of each kind, file services, and which
  configurations a config map keeps;
* `PodSets` - the composition: `EditSet` and `EditCluster` (through admission),
  `SyncCluster` (the cluster writes the spec of its set), `Observe` of each kind,
  `Rollout` (the workload replaces pods), `Crash`, `Failover` of a log store and
  `ScaleLogSet`, `Finalize`.  `queue` says whether the set is in the queue of its
  controller, out of it, or out of it and `"unaware"` of a change of the log stores:
  the watch passes a scaling by, and an event is lost when the sets cannot be listed.

A template is a record of functions from names to values.  A digest is modelled
by what it is a digest of.  What may be missing where the others are not plain values
(the config map a template names, the configuration a pod has read, the template of a
pod in the cache) is a set with at most one member.  `Paused` is what the comment on
`spec.pauseUpdate` promises a CNSet: `RolledOut` asks of it all but the template and, where
the template names its config map, the configuration.

## 4. The runs

| run | instance | what it shows |
|---|---|---|
| `cnclaim_binding` | 2 claims, 1 pod, cache 1 behind, failing calls, restarts, dead pods, roll-outs | `NoDoubleBind`, `HeldPodIsBound`, `HeldPodIsWorking`, `ReclaimSparesHolders` |
| `cnclaim_migrate` | 2 claims, 2 pods, cache in sync, migrations, failing calls, restarts, lost pods | `FinalizedOwnsNothing`, `AtMostOnePod`, `FinalizeSparesReferrers` |
| `cnclaim_requeue` | 1 claim, 1 pod, cache 1 behind, the cnstore controller comes back at once | `SucceedMeansClaimed` is violated, see `findings` in `PROJECT.json` |
| `cnclaim_finalize` | 2 claims, 1 pod, cache in sync, lost and dead pods, in-place updates, roll-outs, fairness | `DeletedClaimGoes` |
| `claimset_scale` | up to 1 replica and 3 claims, cache 1 behind, one change by a user, one failure, fairness; a roll-out, lost pods, migrations or an old set | `NoSecondSurge`, `ScaleInKeepsReady`, `Settles` |
| `cnstore_safety` | five scenarios of workload, features and disruptions: drains with lock migration and paused updates, drains called off, failing queries and patches, pooling, old pods, HAKeeper unreachable | `NoLoadAtRelease`, `CurrentEvidence`, `NoLoadAtRecycle` |
| `cnstore_ends` | three scenarios: HAKeeper unreachable, workload that never leaves, cordons, direct pods, container restarts, fairness | `DrainEnds`, `ReclaimEnds` |
| `logset` | 1 LogSet, ordinals 0 to 4, log shards of 3 replicas, up to 4 stores, 2 disturbances, cache 1 behind, fairness; seven scenarios: scaling, orphaned pods, manual failover, failing calls, a bucket with a CNSet, with Retain, with failing calls | `ReservedMinority`, `MembersAgree`, `FinalizedLeavesNothing`, `DataKeptInUse`, `FailedStoreReplaced`, `Scales`, `DeletedGoes` |
| `pool` | 2 CNSets, 2 pods, 1 claim, a limit of 2 pods, 0 or 1 idle pods, 3 changes, fairness; nine scenarios | `PoolDecides`, the refinement `KeepsToLifecycle`, `PendingServed`, `LeftoversGo` |
| `cluster` | 1 backup, 1 restore, 2 CN groups, 2 changes by users, commands counted up to 2, fairness; eight scenarios | `CommandRunsOnce`, `LaunchedRestored`, `ClusterSettles`, `DeletedClusterGoes`, `JobsEnd` |
| `podsets` | every kind of set with 2 pods, 3 edits, 1 fault, a failover and a scaling of the log service; ten scenarios | `ChangesRollOut`, `ControllersAdmitted`, `ConfigKept` |
| `cnset_pause` | a paused CNSet, edits of its image and its cache volume | `PausedStays` is violated, see `findings` in `PROJECT.json` |

Each module also has a type invariant where its variables are worth one.

Bounds.  Two claims and one or two pods are enough for every conflict in the
claim controller: a conflict is between the holder of a pod and one competitor,
or between the pod a claim has and a second one.  A cache one version behind
separates "has seen" from "has not seen" for each object on its own.
`MinDelay = 2` and `DrainTimeout = 3` make room for a propagation that takes a
while, a min-delay that has passed and a timeout that has not.  One replica and
its surge claim are enough for a claim made or deleted twice, and the third id
is for the claim that is still being deleted.  Three replicas of a log shard make
a minority of one, so that the second of two failing stores is the one the limit
is about, and ordinals up to 4 leave room for the store that replaces the first
and for one more replica.  In the pool two sets are the current one and a legacy
one, and two pods are one that is in use and one that is not.  Two runs of a
command are one too many.  Three edits allow a change, its reversal and another
change while pods of all of them are left.  Claims and pods of `CNClaim` are
interchangeable (one pool), so its safety runs use symmetry; no run that checks
liveness does.

Deadlock is not checked: when every pod is gone, no claim is left, or users have
made their changes and everything is as it should be, the system may stop.

Fairness.

* `CNClaim!FairSpec`: the worker goes on (`WF(Step)`), each claim is handed out
  again and again (`SF(Observe(c))`: every way out of a reconciliation requeues
  the claim, by an error or a resync, and the queue is first in, first out),
  watches deliver.  Nothing is assumed of users, other controllers, or pods.
* `CNStore!FairSpec`: the controller runs and time passes (`SF(Tick)`, because
  Tick waits for the end of a reconciliation), and the cluster learns a work
  state.  Nothing is assumed of the workload, of HAKeeper, of Kruise or of users:
  a drain ends because of its timeout.
* `CNClaimSet!FairSpec`: the worker runs, watches deliver, the claim controller
  finishes deletions and notices lost pods (`DeletedClaimGoes` of `CNClaim`);
  `ServedSpec` adds that the pool has a pod for every claim, without which a
  roll-out cannot end.  A user changes the set once and one call fails: a set
  that is changed for ever never settles.
* `LogSet!Fairness`: `WF(Progress)`: as long as a controller, Kubernetes, a watch
  or the clock has a step to take, one is taken; and `WF(Deliver(l))`: watch events
  arrive whatever the controllers do, so that Finalize does not repeat itself on an old
  copy for ever.  Users, failures and the deletion of the CNSet are not in it.
* `CNPool!Fairness`: the pool's own steps and those of the other controllers are
  taken; a pod that is to go goes or is recycled, each on its own; a released
  claim is let go.  Users need not do anything.
* `Cluster!Fairness`: the cluster's controllers run, each job is looked at, each
  set's controller reconciles, and the cluster is observed while its RestoreJob
  is there: `SF(Observe /\ UNCHANGED jobs)`.  The code requeues the cluster every
  few seconds, and a finished RestoreJob stays for its time to live, an hour.
* `PodSets` has none: `ChangesRollOut` is a statement about quiet states, in which
  no controller has anything left to do.

Properties with an escape (`May("rpc")`, a majority that is down, ...) say in
their comments which promise the code does not make there; section 6 has the
reasons.

Mutants.  Every property has a plausible mistake that breaks it (an update
without its resource version, reserved ordinals that are not counted, a config
map that forgets the running pods, a gossip map left as it was, ...); they stand
next to the definition they would replace, marked as mutants.

## 5. The proofs

All theorems are about any number of claims, pods, sets, stores and jobs and any
bounds on them.  Where a theorem has a hypothesis, on the lag of the cache or on
what may happen together, it is in the table; section 6 has the cases that it
excludes.  One hypothesis is the proof's and not the code's: `OnePodPerClaim`
excludes migrations because it builds on `BindingInv`; TLC finds no violation of
`AtMostOnePod` with them (run `cnclaim_migrate`).  In turn in-place updates, dead
pods and roll-outs are in `FinalizedClaimsOwnNothing` and `OnePodPerClaim` and not in
that run, which would not end in time.

| theorem | states |
|---|---|
| `CNClaimProofs!TypeCorrect` | `[]TypeOK` |
| `CNClaimProofs!FinalizedClaimsOwnNothing`, `FinalizeHandsOver` | `[]FinalizedOwnsNothing`, `FinalizeSparesReferrers`, with `MaxLag = 0` |
| `CNClaimProofs!BindingSafe`, `NeverBoundTwice`, `NeverTakenAway`, `ReclaimSparesTheHeld` | `[]BindingInv`, `[]NoDoubleBind`, `[]HeldPodIsBound`, `ReclaimSparesHolders`, without migrations and `"requeue"` |
| `CNClaimProofs!HeldPodsWork` | `[]HeldPodIsWorking`, without migrations, `"requeue"` and in-place updates |
| `CNClaimProofs!OnePodPerClaim` | `[]AtMostOnePod`, without migrations and with `MaxLag = 0` |
| `CNClaimProofs!ClaimsKeepToLifecycle` | `CNClaim` implements `PodLifecycle`, without migrations and with `MaxLag = 0` |
| `CNStoreProofs!StoreTypeCorrect` | `[]TypeOK` |
| `CNStoreProofs!DrainsOnCurrentEvidence` | `CurrentEvidence`, with `MinDelay > 0` and `"patch"` apart from `"cordon"`, `"slow"` and `"resend"` |
| `CNStoreProofs!RecycledPodsAreEmpty` | `NoLoadAtRecycle`, with `MinDelay > 0` and `"pooling"` apart from `"slow"` and `"patch"` |
| `CNStoreProofs!ReleasedPodsAreEmpty` | `NoLoadAtRelease`, with `MinDelay > 0`, `"patch"` as above, `"drain"` apart from `"slow"`, and `"drain"` with `"pooling"` apart from `"late"` and `"regret"` |
| `CNClaimSetProofs!ClaimSetTypeCorrect`, `CountsAreRight`, `SurgesOnce`, `ScaleInLeavesEnough` | `[]TypeOK`, `[]CountInv`, `NoSecondSurge`, `ScaleInKeepsReady` |
| `CNPoolProofs!PoolTypeCorrect`, `PoolAlwaysDecides`, `PoolKeepsToLifecycle` | `[]TypeOK`, `[]PoolDecides`, and that the pool implements `PodLifecycle` |
| `ClusterProofs!CommandsRunOnce`, `LaunchesRestored` | `[]CommandRunsOnce`, `LaunchedRestored` |
| `LogSetProofs!LogSetTypeCorrect`, `FailoverStaysMinority`, `StoresAgreeOnMembers`, `FinalizeLeavesNothing` | `[]TypeOK`, `[]ReservedMinority`, `[]MembersAgree`, `[]FinalizedLeavesNothing` |
| `LogSetProofs!DataOutlivesItsUsers` | `[]DataKeptInUse`, without `"second"` and `"late"`, and with `"rpc"` and `"kubectl"` apart |
| `PodSetsProofs!ConfigurationsKept`, `ChangesReachPods` | `ConfigKept`, `[]ChangesRollOut` |
| `PodSetsProofs!SpecsAdmitted` | `[]ControllersAdmitted`, with `"cluster"` apart from `"shrink"` and `"unversioned"` (`ClusterEdits`) |

`ObjectStoreProofs` has the lemmas about logs: what `Write` and a delivery do to
the versions of an object.

**CNClaim.**  `TypeOK` is inductive.  Beyond types it says that the worker knows
its claim in every step and its pod in every step that calls for one, which is
what makes the calls of the model well defined.

`NoDoubleBind` and `HeldPodIsBound` are proved as long as users migrate no claim and
the cnstore controller does not act on a copy older than its own patch
(`Disruptions \cap {"migrate", "requeue"} = {}`), with every other disruption and any
lag; the run `cnclaim_requeue` shows that the second condition is needed.  Neither is
inductive, because the controller acts on copies.  `BindingInv` says what the
copies may be:

* the versions of a pod that are on their way to the cache belong to one claim
  (`OneHolder`), and a version that shows a pod as bound is out of date only if
  the deletion of its claim has been seen (`LeftByDeleted`, with
  `DeletedForGood`);
* a version of a live claim that refers to a pod refers to one that is the
  claim's (`ReferredIsHeld`);
* what the cnstore controller is about to patch, without looking again, is in
  nobody's hands (`PlannedIsFree`, `OnlyHeldIsClaimed`).  It decides on a cached copy,
  so the versions under way matter: from Unknown or Draining a pod becomes Bound by way
  of Idle only (`BoundByWayOfIdle`), so if no Idle version is under way to the cache, a
  copy that says Unknown or Draining is of a pod that nobody has bound since;
* what the worker relies on in each of its steps: a candidate whose copy is
  current is idle or its own (`KnowsCandidates`), the pod it has taken is its
  own until the claim refers to it (`KnowsHolder`), a copy of the
  claim that is taken for current is (`KnowsClaim`), and the pods it
  drains are of no other claim (`KnowsReclaimed`).

`Shared` and `Private` name the parts about objects and about processes.  A
step writes at most one pod or one claim: `PodStep` and `ClaimStep` reduce what
has to be shown of all versions to the one that is added, and
`BindingInductive` then has one step per action.

Three more invariants build on it.  `WorkInv` has what `HeldPodIsWorking` needs:
without in-place updates every pod is in the lifecycle state Normal
(`AllNormal`), so the cnstore controller sets no CN to Draining, and when the
worker is about to store the reference the CN has been set to Working
(`PatchWorking`).  `OnePodInv` has what `AtMostOnePod` needs when the cache is never
behind: a claim has one pod (`OnePodEach`), and while the worker takes a pod its
claim has no other (`ChoosesFirst`), because the search looks for an owned pod
first.  `ReclaimSparesTheHeld` follows from `BindingInv` itself.

What a step does to one pod and to one claim is stated once, for all actions:
`PodChanges` and `ClaimChanges`, with `WorkerSteps` and its companions for the
worker.  `FinalizeInv` rests on them: what Finalize read is still so when it acts
on it.  The claims that are to inherit a pod are still there (`HeirsPresent`), a pod
that is to be reclaimed and is still bound is referred to by nobody else (`Spared`,
`DrainsOwn`), and when the finalizer is about to go no pod is bound to the claim
(`Freed`); `Busy`, `KnowsClaim` and `Settled` say that the claim does not go or
change hands meanwhile.  All this holds with migrations, failing calls and
restarts, and with `MaxLag = 0` only: a listing that is out of date misses the pod
that has just been bound.

`ClaimsKeepToLifecycle` shows that the labels keep to `PodLifecycle`, the abstract
specification that `CNPool` implements too; so the two models, which have each
other as environment, promise the same about a pod.  `lifePhase` and `lifeHolder`
are the refinement mapping: a pod is Condemned if it is Terminating while the cnstore
controller is about to patch it, and held if it is Bound.  `LifeInv` adds to
`BindingInv` that what Finalize has listed and not yet handled is still the claim's
(`ListedIsHeld`): so a reclaim drains only a pod that is Bound.  TLC shows that
both hypotheses are needed: over a cache that is behind, a repeated Finalize sets a pod
that is Idle again back to Draining, and Sync of a migrated claim binds its new pod
although the pool has set that pod to Terminating since.

**CNStore.**  Three invariants, one per property.

* `EvidenceInv`: the copy in memory agrees with the pod on what the controller
  decides by (`Copied`), a count that was not obtained is not taken for zero
  (`Counting`), and a copy that is judged safe holds the counts of this round, or
  its drain has only just begun and is too young to be judged (`Judged`, `Marked`).
* `RecycleInv`: when a pod has been in Draining for min-delay the cluster knows it
  (`Told`: HAKeeper was told first, and what the cluster knows is behind by less than
  min-delay), so a kind of workload counted as zero stays at zero; pipelines are
  started by sessions and counted after them (`InOrder`, `Stands`).  So the counts that
  recycling relies on are still true when it happens (`Empty`).  `View` says how far
  the copy may be behind the pod meanwhile.
* `ReleaseInv` is the same argument for a drain that Kruise asked for, with the time
  of `StoreDrainingStartAnno` in place of that of the reclaim (`Firm`, `Announced`,
  `Quiet`), on top of `EvidenceInv`.

**CNClaimSet.**  `TypeOK` bounds the numbers of claims in the API server, in the
cache and in the status, and what the controller computes from them: the
differences do not become negative and the sums not larger than there are claims.

The other two theorems are about a comparison of numbers.  `CountInv` says what
makes it as good as one of sets.  `Now`, `Shown` and `Ever` are the claims that are owned in the
API server, in the cache, and in some version of their log.  A claim that ceases to
be owned is not owned again, and one that is ready does not wait again (`ClaimLogs`,
stated of all versions under way), so `Now` and `Shown` are parts of `Ever` and a
delivery can only bring them nearer to each other.  Since the cache was last settled the
worker has only made claims (`Ever = Now`) or has only deleted some (`Ever = Shown`):
so of the two sets one is part of the other, and if they have the same number, by the
status (`AtRest`) or by the uncached list (`AtCheck`), they are the same
(`AtScale`).  From there `AtCalls` follows the calls to the count that is stored:
`Making` bounds what is still to be made by the replicas and one surge claim, and
`Thinning` has enough ready claims outside of what is still to be deleted, because
claims that wait go first (`WaitingGoFirst`).

**CNPool.**  `LifeInv` adds to `TypeOK`: a pod that exists has a set (`Placed`);
pods taken for unchanged since they were read are as they were read (`Fresh`); a
pod that a claim holds is in phase Bound (`HeldIsBound`); and a pod whose registration
was begun is still Unknown or has been set to Terminating since, and there is
such a pod in the scenario `"late"` only (`ReadIsUnknown`).  Under it every step
of the pool is a `Claim`, `Vanish` or `Move` of the abstract life cycle, or
leaves it alone.  `TypeOK` is not idle here: it contains that the differences of
counts by which the pool sets replicas do not fall below zero.

`PoolDecides` speaks of kruise: it finds in the CloneSet as many pods to delete
named as it has to delete.  `DecideInv` follows the decision through the three
objects.  The pods that the set or the CloneSet names have been given up by the
pool (`Condemned`); the worker has seen all that the set names and so names them
again (`Seen`); the CloneSet has room for its remaining pods, and will have once it
has been scaled to what the set says, whatever of this the set has already passed
on (`Room`); and the objects live within each other's lives (`Lifetimes`).

**Cluster.**  `JobInv` says of each job that has not recorded its start that its
command was started only if its Kubernetes job is still there, and of each
recorded outcome that the command has ended; so a look that finds neither may
create the Kubernetes job.  `RestoreInv` adds that a restore whose success is known,
to its Kubernetes job or to the RestoreJob, has filled the storage; the launch
reads the phase of the RestoreJob.

**LogSet.**  `LogInv` is `TypeOK` with `ReservedMinority`, stated of every version
of the StatefulSet, the cached one included: that is what makes it inductive.
`PutSts` reduces a write to the version it adds; `RepairTyped` adds one ordinal
to a copy below the limit, and any other write copies the ordinals of a version.

`MembersInv` is about what is decided once and what follows it.  Every later
version of a LogSet keeps the members that bootstrap, and keeps the deletion
(`LsKept`, stated of all versions under way, since the worker writes from an old
one); the bootstrap map has these members (`BootKept`); the gossip map has the pods that
the StatefulSet is to have unless calls fail (`GossipKept`); and a LogSet that is
gone has left neither StatefulSet nor orphans (`EndKept`).

`DataInv` is about the bucket claim: it is marked for the deletion of its data only
by a LogSet that ends (`Fine`), a marked and deleted claim has no user and stays so in
every later version (`Doomed`, `LogFine`), and the Job that deletes the data runs for
such a claim only.  The claim that a LogSet has marked and is still to delete
(`giving`) is marked and without users until it is deleted, or already gone (`Given`,
`Ended`, `BucketsFine`); that is where the case `"late"` has to be excluded.
`OneUser` is the hypothesis.

**PodSets.**  Users edit specs without end, so the proofs first bound what a spec can be.
`SpecOK` gives each field the values that the edits, the defaults and the cluster can
give it (an overlay is one of `Overlays`), and `EditOK`, `DefaultOK` and `SetOverlayOK`
show that nothing leads out of it.  `DefaultStable` is the fact that defaults of a
defaulted spec change nothing, for each kind.

* `KeptInv`, for `ConfigKept`: the map that is updated in place has configurations by
  digest only, but for the dashboard's (`MapsFit`), the cache has the pods there are
  (`CacheFresh`), and a pod that has started would find its configuration again
  (`Kept`).  A digest in use is kept by `ensureConfigMap`, because the pod that uses it is
  listed.
* `AdmitInv`, for `ControllersAdmitted`: the spec of a set is stable, has a version and,
  where Prometheus is on, a known scheme; and the spec of its cluster is not below it in
  anything that an update may not lower (`NotBelow`: volumes, the operator version).
  `NotBelow` is what makes it independent of the specs in between that the set has
  missed; `ClusterEdits` is its hypothesis, section 6 has the reason.
* `RollInv`, for `ChangesRollOut`: a set that is out of its queue is `Settled`, which is all
  of `RolledOut` that a controller can see when it ends a reconciliation, on its
  synchronised template rather than on the pods.  That the pods follow needs more:
  a template names the config map it was made with, or else its digest (`TemplateFits`;
  for a paused CNSet this uses that its operator version does not go back), and a pod that
  has started has what its template names (`PodFits`).  `ObserveFits` has one lemma per kind
  of set, with one step per call; a call that fails leaves the set in the queue.  Then
  `SettledRollsOut` counts: as many pods as the spec asks for have started and no others
  exist, so all have (`AllStarted`).

What a configuration contains is not looked into: the theorems hold for whatever
`Config` computes from the spec and the log stores, except that only DNSets and CNSets
look at the ordinals of the log stores (`ConfigWithout`), which is why a failover has to
wake only them.  `RollInv` says nothing of a set that is `"unaware"` (`SettledStores`).

Assumptions: `MaxLagAssumption`, `ClaimAssumption` (`None` is not a name, every
pod has a pool), `StoreAssumption` (the delays are natural numbers, every scenario
has sessions), `ClaimSetAssumption` (one claim more than there are replicas may be
made), `CNSetAssumption` and `CNPoolAssumption`, `BackupJobsAssumption`,
`ClusterAssumption` (a cluster has at most one RestoreJob, which bears its name),
`LogSetAssumption` (finitely many ordinals from 0 on, the limits are natural
numbers, `NONE` is no set of ordinals and no LogSet), `PodSetsAssumption` (finitely many pods, the
bounds are natural numbers) and `NoneAssumption` (`NONE` is no value that a field of a
spec may have); TLC evaluates them in the runs.

Only model-checked: liveness, which is out of the prover's reach (fairness and
`ENABLED`), and `PausedStays`, which fails.

## 6. What is known not to hold

`findings` has the two disagreements that a run shows.  More were met while modelling;
the properties exclude them, and say so.

Claims, pods and claim sets:

* the cnstore controller may take a pod from the claim that has just bound it
  (`cnstore/pooling.go:79`, 90; run `cnclaim_requeue`): it decides on a cached copy and
  patches Idle without a precondition.  The binding properties are checked and proved
  for every copy but one older than its own last patch to Idle;
* over a cache that is behind (`MaxLag = 1`, no disruptions) `FinalizedOwnsNothing`
  fails: Finalize takes an empty cached list for the proof that the claim owns
  nothing, and a pod bound a moment ago stays bound to a claim that is gone
  (`cnclaim/controller.go:369`, against the comment at 404-405).  In the same way
  `AtMostOnePod` fails when a call fails in addition, and `FinalizeSparesReferrers`
  when a claim is migrated: the claim that refers to the pod is not seen;
* Sync clears `spec.podName` with one call and `Lost` is stored with a later one;
  if that fails, the next Observe binds the claim to another pod
  (`cnclaim/controller.go:286`, against the comment at 66-68);
* a migration reclaims its source without looking whose it is now: it may be
  bound to another claim (`cnclaim/migrate.go:61`), and the target may have been
  lost since (64); `ReclaimSparesHolders` is checked without migrations;
* `NoLoadAtRelease` is not promised when HAKeeper is unreachable (`"hakeeper"`,
  with `"abort"` alike): `StoreDrainingStartAnno` is set before the draining state
  reaches it, so min-delay also counts time in which the cluster takes the CN
  for working (`cnstore/controller.go:166-199`); nor with `"slow"`: min-delay is
  compared with the clock of the decision, but the score is older (249); nor with
  `"late"` and pooling: a late `Working` call undoes the draining state and
  min-delay is not started again (`cnclaim/controller.go:229`);
* a patch of the score that fails, with a cordon in between, brings zeros of an
  earlier round back (`cnstore/controller.go:460`, against the comment at
  502-503): `CurrentEvidence` is checked without that combination;
* a pod that is cordoned while Kruise prepares it is not drained and has no
  timeout: `DrainEnds` excludes cordoned pods;
* the comparison of numbers by which a claim set recognises an old cache may succeed by
  accident when a claim was lost: one claim too many in the cache (its deletion not
  seen yet) makes up for one too few.  With 3 replicas, `MaxLag = 1` and a roll-out TLC
  confirms a behaviour of 35 steps in which a second surge claim is made although
  every count was stored (`cnclaimset/controller.go:85-91`); so `counted` ends with a loss;
* without `counted`, `NoSecondSurge` and `ScaleInKeepsReady` fail: when the status
  update is refused or a call fails and the cache has not yet seen what was
  done, it is done again (`cnclaimset/controller.go:85`);
* pending claims above `spec.replicas` stay while the pool has no pods
  (`cnclaimset/controller.go:159`), and while an outdated claim migrates a
  roll-out makes a surge claim and deletes it again (221-224).

Pool:

* in the scenario `"late"` a pod set to Terminating comes back Idle and is
  claimed, the CNSet is scaled with no pod to delete named, and kruise chooses
  the bound one (against `cnpool/controller.go:160`: "optimistic lock prevents
  race"); during a roll-out a legacy set whose status has no selector yet, or
  which gets a pod after the listing, is scaled below its active pods.
  `PoolDecides` excludes both;
* claims wait while pods in use, idle and legacy ones reach `MaxPods`, and over
  that limit nothing is scaled in;
* the termination policy Drain has no effect: `waitAllCNDrained` looks for a
  CloneSet of the CNSet's name, and it has another;
* `reclaimLegacyCNClaim` stops the whole sync when a bound pod's claim is gone
  (258), and its patch writes Outdated over Lost (262).

Log service and bucket:

* Create goes on after a call of it failed and is not repeated once StatefulSet
  and discovery exist: a bootstrap or gossip map that was not made is never made
  (`logset/controller.go:183-194`); a failure between the update of the
  StatefulSet and of the gossip map leaves the latter stale (262-266);
* with strategy Orphan, a conflict on the StatefulSet leaves an orphan that is
  never replaced, and orphans count neither for the limit nor as failed
  (against 228, "only minority failover can be safely automated");
* while a failed store may not be repaired, Observe never gets to Scale (108);
* a claim that its users keep blocks the deletion of the LogSet, though
  `logset/bucketclaim.go:87-88` says it "will not block deletion";
* `DataKeptInUse` fails in three cases.  A CNSet or DNSet puts its finalizer on the
  claim between the call that marks it and the one that deletes it
  (`logset/bucketclaim.go:132`, 135; scenario `"late"`): the controller of the claim
  looks at the mark and not at the finalizers, and the data go while they are in use,
  against `bucketclaim/controller.go:69`.  Finalize marks the claim and its deletion
  fails; a CNSet adds its finalizer, a user deletes the claim, and the Job for the
  data is made (`bucketclaim/controller.go:64`).  Or another LogSet binds the claim
  while it is being deleted (`logset/bucketclaim.go:49`, 90; scenario `"second"`);
* a LogSet made again under the same name finds the maps of the old one;
  Finalize trusts listings that may be old.  That `ctx.Patch` on a pod of which
  only the name is filled in (245) does what is meant is assumed.

Cluster and jobs:

* the creation of the two credentials does not accept that they exist: a status
  update that fails after it wedges the cluster;
* that the restore is complete is recorded in memory only
  (`mocluster/controller.go:101-104`): once the RestoreJob was collected it is made
  again, over live storage, or marks a running cluster as not ready when it fails
  (against `docs/getting_started.md:106`);
* a BackupJob may be reported as failed although its Backup exists, because that is
  looked up by other labels (`br/backup_controller.go:68`), or because the cache
  does not show a Kubernetes job made a moment ago (scenario `"lag"`);
* Finalize deletes a WebUI of the proxy's name in place of the ProxySet, which the
  garbage collector takes later; a WebUI or proxy removed from the spec stays;
  the end of the CNSets is not awaited; readiness is that of the sets' last
  status.

Configuration, templates, admission:

* the memory limit of a stand-alone ProxySet without overlay dereferences nil
  (`common/podset.go`, `GoMemLimitEnv`), and so does the validation of a cluster
  with neither `tn` nor `dn`;
* the headless service of a CNSet is never made if only its creation failed
  (`cnset/controller.go:335-362`); the config map is written before the
  workload, which may fail or be paused;
* over a pod cache that is behind, a pod loses its configuration
  (`common/configmap.go:94`; `ConfigKept` excludes `"lag"`);
* the config map of a WebUI is changed in place and so never rolls pods;
* a DNSet or CNSet that is out of its queue keeps the addresses of other log stores
  until it is reconciled for another reason, when the LogSet is scaled (the addresses
  depend on its replicas, `logset/configmap.go:297`, but the watch lets only changed
  ordinals pass, `common/statefulset_predicate.go:75`) and when a store is replaced while
  the sets cannot be listed (`dnset/controller.go:327-330`, `cnset/controller.go:387-390`).
  `ChangesRollOut` says nothing of a set in that state (`queue = "unaware"`);
* a cache volume may be removed and added again smaller: its sync then fails for
  ever.  The cluster's webhook admits what those of the sets refuse (smaller
  volumes, `tn` with `dn`, an image without version), and the cluster's sync is
  stuck.  `ControllersAdmitted` is checked without these edits where there is a cluster,
  and proved without `"shrink"` and `"unversioned"` (`ClusterEdits`);
* overlay fields taken out of a spec are not undone in the template, and an old
  semantic-version annotation stays.

The status of an object is taken to be stored at the end of a reconciliation, as
the framework outside this repository does.

## 7. What is not modelled

`components` in `PROJECT.json` lists every part with its status.

* `pkg/webhook/corevalidation` (a copy of Kubernetes' validation of pod specs) and
  `zz_generated.deepcopy.go`: code of others and generated code, 10,000 of the
  repository's lines.
* The CA bundle of the webhooks, process start-up, flags, metrics, the SQL client:
  no state that a property would be about.
* The client manager, the store cache and the query client are there as what a
  controller sees of them: an answer, an error, a CN that is not listed.
* The admission hooks of claims (`pkg/hook`), the check of a new LogSet against a
  bucket that is being deleted, and the functions that map watch events to
  requests, but for that of the DNSet: every object is looked at again.
* Two LogSets with one bucket (`"second"`) and a finalizer between the mark and the
  deletion of a claim (`"late"`): modelled, in no run.
* A command's output that cannot be parsed (it is asked for again for ever).
* The text of TOML files and start scripts, labels of CNs, store status, events
  and log lines; fields of templates that are constant.
