------------------------------- MODULE LogSet -------------------------------
(***************************************************************************)
(* The LogSet controller: it creates the StatefulSet of the log service    *)
(* with the decision who bootstraps it, scales and updates it, replaces    *)
(* stores that have failed for too long, and gives the bucket of the       *)
(* shared storage back (src/pkg/controllers/logset).                       *)
(*                                                                         *)
(* A reconciliation reads cached objects and makes a few calls.  Without   *)
(* faults all of them take effect; with faults the reconciliation may end  *)
(* after any of them, by an error of the call or a restart of the          *)
(* operator.                                                               *)
(***************************************************************************)
EXTENDS Bucket

CONSTANTS
  First,            \* the LogSet there is at the start
  Ordinals,         \* bound: ordinals of pods, an interval from 0
  LogShardReplicas, \* spec.initialConfig.logShardReplicas
  MaxReplicas,      \* bound: spec.replicas
  MaxDisturbances,  \* bound: stores that fail and changes users make
  Scenarios         \* what may happen in a behaviour, and what is configured, of
                    \*   "rpc"       calls fail and the operator restarts
                    \*   "Orphan"    spec.failedPodStrategy is Orphan
                    \*   "scale"     a user changes spec.replicas
                    \*   "s3"        the shared storage is a bucket
                    \*   "Retain"    with retention policy Retain
                    \*   "second"    there is another LogSet with the same bucket
                    \*   "cn"        a CNSet of the first LogSet uses the bucket
                    \*   "kubectl"   a user deletes BucketClaims
                    \*   "late"      the CNSet puts its finalizer on the claim
                    \*               between the two calls that give it up
                    \*   "manual"    the operator runs without failover

ASSUME LogSetAssumption ==
  /\ First \in LogSets /\ NONE \notin LogSets
  /\ IsFiniteSet(Ordinals) /\ Ordinals = 0 .. Cardinality(Ordinals) - 1
  /\ MaxReplicas \in Nat
  /\ LogShardReplicas \in 0 .. MaxReplicas
  /\ MaxDisturbances \in Nat
  /\ \A S \in SUBSET Ordinals : S # NONE

VARIABLES
  ls,      \* the LogSets
  sts,     \* the StatefulSet of each
  pods,    \* the pods of each, by ordinal; they are listed as they are
  own,     \* its config maps and services
  cn,      \* the CNSet of each
  giving,  \* the claim that its Finalize has marked and is about to delete
  env      \* the scenario and the number of disturbances so far

vars == <<ls, sts, pods, own, cn, giving, env, bucket, job>>

-----------------------------------------------------------------------------
(* Objects *)

\* "starting" and "down" are not available; nothing brings a store that is
\* down back.  An orphan has lost the labels of the set and carries the
\* finalizer of the failover.
PodStates == {"none", "starting", "up", "down", "orphan"}
Stores == {"none", "up", "down", "failed"}  \* failed: down for the timeout

LogSetObj == [ st       : {"none", "live", "deleting", "gone"},
               replicas : 0 .. MaxReplicas,
               rev      : 0 .. 1,                 \* all that makes the template
               boot     : Opt(SUBSET Ordinals),   \* the bootstrap annotation
               stores   : [Ordinals -> Stores],   \* status.failoverStatus
               ready    : BOOLEAN ]

StsObj == [ st       : {"none", "live"},
            replicas : 0 .. MaxReplicas,
            reserve  : SUBSET Ordinals,  \* spec.reserveOrdinals
            rev      : 0 .. 1,
            updated  : BOOLEAN ]         \* all replicas are updated and ready

\* The bootstrap and the gossip config map with the ordinals they name, and
\* the services that are there.
OwnObj == [ boot   : Opt(SUBSET Ordinals),
            gossip : Opt(SUBSET Ordinals),
            svcs   : SUBSET {"headless", "discovery", "metric"} ]

NoStores == [o \in Ordinals |-> "none"]
NoPods   == [o \in Ordinals |-> "none"]
NoSts    == [st |-> "none", replicas |-> 0, reserve |-> {}, rev |-> 0, updated |-> FALSE]
NoOwn    == [boot |-> NONE, gossip |-> NONE, svcs |-> {}]

TypeOK ==
  /\ ls \in [LogSets -> Logs(LogSetObj)]
  /\ sts \in [LogSets -> Logs(StsObj)]
  /\ pods \in [LogSets -> [Ordinals -> PodStates]]
  /\ own \in [LogSets -> OwnObj]
  /\ cn \in [LogSets -> {"none", "live", "deleting", "gone"}]
  /\ giving \in [LogSets -> Opt(LogSets)]
  /\ env \in [may : Scenarios, disturbances : 0 .. MaxDisturbances]
  /\ BucketTypeOK

May(x) == x \in env.may

\* The number of calls of a reconciliation that take effect, of n.
Calls(n) == IF May("rpc") THEN 0 .. n ELSE {n}

S3 == May("s3")

BucketBindToMark(l) == l

\* The first n ordinals that are not reserved.
Members(n, reserve) ==
  {o \in Ordinals \ reserve : Cardinality({p \in Ordinals \ reserve : p < o}) < n}

gossipSeeds(s) == Members(s.replicas, s.reserve)

updateGossipConfig(l, s) == [own EXCEPT ![l].gossip = gossipSeeds(s)]

Limit == LogShardReplicas \div 2

-----------------------------------------------------------------------------
(* Status *)

CollectStoreStatus(old, list) ==
  [o \in Ordinals |->
     IF list[o] \in {"none", "orphan"} THEN "none"
     ELSE IF list[o] = "up" THEN "up"
     ELSE IF old[o] \in {"down", "failed"} THEN old[o] ELSE "down"]

FailedStores(stores) == {o \in Ordinals : stores[o] \in {"down", "failed"}}
AvailableStores(stores) == {o \in Ordinals : stores[o] = "up"}
StoresFailedFor(stores) == {o \in Ordinals : stores[o] = "failed"}

ObservedStatus(c, list) ==
  LET stores == CollectStoreStatus(c.stores, list)
  IN [c EXCEPT !.stores = stores,
               !.ready = Cardinality(AvailableStores(stores)) >= c.replicas]

\* The status is stored unless the copy of the LogSet is out of date.
SaveStatus(l, c) ==
  \E saved \in (IF May("rpc") THEN BOOLEAN ELSE {TRUE}) :
    ls' = IF saved /\ UpToDate(ls[l]) THEN [ls EXCEPT ![l] = Write(@, c)] ELSE ls

Put(log, l, v) == [log EXCEPT ![l] = Write(@, v)]

-----------------------------------------------------------------------------
(* Create *)

\* The decision who bootstraps the log service is made once: the annotation
\* holds it.
bootstrap(c) ==
  IF c.boot # NONE THEN c ELSE [c EXCEPT !.boot = {o \in Ordinals : o < LogShardReplicas}]

\* Mutant: one replica too many.
buildLargerStatefulSet(c) ==
  [st |-> "live", replicas |-> c.replicas + 1, reserve |-> {}, rev |-> c.rev, updated |-> FALSE]

\* The StatefulSet without reserved ordinals.
buildStatefulSet(c) ==
  [st |-> "live", replicas |-> c.replicas, reserve |-> {}, rev |-> c.rev, updated |-> FALSE]

\* What is there already is left alone; every object is tried, whatever
\* becomes of the others.
Create(l) ==
  LET c == bootstrap(Cached(ls[l]))
      new == buildStatefulSet(c)
      all == {"boot", "gossip", "headless", "sts", "discovery"}
      stored == Cached(ls[l]).boot # NONE \/ UpToDate(ls[l])
  IN \E made \in (IF May("rpc") THEN SUBSET all ELSE {all}), decided \in Calls(1) :
       /\ ls' = IF decided = 1 /\ stored /\ UpToDate(ls[l]) THEN Put(ls, l, c) ELSE ls
       /\ IF decided = 0 \/ ~stored THEN UNCHANGED <<own, sts>>
          ELSE /\ own' = [own EXCEPT
                    ![l].boot = IF "boot" \in made THEN Default(@, c.boot) ELSE @,
                    ![l].gossip =
                      IF "gossip" \in made THEN Default(@, gossipSeeds(new)) ELSE @,
                    ![l].svcs = @ \cup (made \cap {"headless", "discovery"})]
               /\ sts' = IF "sts" \in made /\ Latest(sts[l]).st = "none"
                         THEN Put(sts, l, new) ELSE sts
       /\ UNCHANGED pods

-----------------------------------------------------------------------------
(* Scale, Repair, Update *)

\* Mutant: only the gossip map is written.
ScaleGossip(l, c) ==
  /\ own' = updateGossipConfig(l, Latest(sts[l]))
  /\ SaveStatus(l, c)
  /\ UNCHANGED <<sts, pods>>

\* A patch of the replicas; the gossip map follows what the API server
\* answers.
Scale(l, c) ==
  LET s == [Latest(sts[l]) EXCEPT !.replicas = c.replicas, !.updated = FALSE]
  IN \E n \in Calls(2) :
       /\ Latest(sts[l]).st = "live"
       /\ sts' = IF n >= 1 THEN Put(sts, l, s) ELSE sts
       /\ own' = IF n >= 2 THEN updateGossipConfig(l, s) ELSE own
       /\ SaveStatus(l, c)
       /\ UNCHANGED pods

\* Mutant: the reserved ordinals are not counted.
mayRepairUncounted(c, s) ==
  ~May("manual") /\ Cardinality(FailedStores(c.stores)) <= Limit

\* Mutant: the failed store itself exceeds the limit.
mayRepairBelow(c, s) ==
  /\ ~May("manual")
  /\ Cardinality(FailedStores(c.stores)) < Limit
  /\ Cardinality(s.reserve) < Limit

mayRepair(c, s) ==
  /\ ~May("manual")
  /\ Cardinality(FailedStores(c.stores)) <= Limit
  /\ Cardinality(s.reserve) < Limit

\* Mutant: the gossip map is left as it is.
RepairAlone(l, c) ==
  LET s == Cached(sts[l])
  IN \E o \in StoresFailedFor(c.stores) :
       /\ mayRepair(c, s)
       /\ sts' = IF UpToDate(sts[l])
                 THEN Put(sts, l, [s EXCEPT !.reserve = @ \cup {o}, !.updated = FALSE]) ELSE sts
       /\ SaveStatus(l, c)
       /\ UNCHANGED <<pods, own>>

\* One of the stores that have failed for too long is given up: its pod
\* loses its labels, its ordinal is reserved, the gossip map follows.
Repair(l, c) ==
  LET s == Cached(sts[l])
      orphaned == May("Orphan")
      current == UpToDate(sts[l])
  IN \/ /\ ~mayRepair(c, s)
        /\ SaveStatus(l, c)
        /\ UNCHANGED <<sts, pods, own>>
     \/ /\ mayRepair(c, s)
        /\ \E o \in StoresFailedFor(c.stores), n \in Calls(3) :
             LET next == [s EXCEPT !.reserve = @ \cup {o}, !.updated = FALSE]
                 gone == orphaned /\ pods[l][o] = "none"
             IN /\ pods' = IF orphaned /\ n >= 1 /\ ~gone
                           THEN [pods EXCEPT ![l][o] = "orphan"] ELSE pods
                /\ sts' = IF n >= 2 /\ current /\ ~gone THEN Put(sts, l, next) ELSE sts
                /\ own' = IF n >= 3 /\ current /\ ~gone
                          THEN updateGossipConfig(l, next) ELSE own
        /\ SaveStatus(l, c)

Update(l, c) ==
  \E n \in Calls(1) :
    /\ sts' = IF n = 1 /\ UpToDate(sts[l])
              THEN Put(sts, l, [Cached(sts[l]) EXCEPT !.rev = c.rev, !.updated = FALSE]) ELSE sts
    /\ SaveStatus(l, c)
    /\ UNCHANGED <<pods, own>>

-----------------------------------------------------------------------------
(* The bucket.  A step of it is whether it succeeds, the claims then, and  *)
(* the claim it goes on to delete.                                         *)

createNewBucket(l) ==
  [NoBucket EXCEPT !.st = "live", !.finalizers = {BucketDataFinalizer}, !.bindTo = BucketBindToMark(l)]

Bound(l, b) ==
  [b EXCEPT !.finalizers = @ \cup {BucketDataFinalizer}, !.bindTo = BucketBindToMark(l), !.state = "InUse"]

BoundToOther(l) == ClaimedBucket.bindTo \notin {NONE, BucketBindToMark(l)}

Step(ok, to) == [ok |-> ok, to |-> IF ok THEN to ELSE bucket, del |-> NONE]

syncBucketClaim(l) ==
  IF ~S3 THEN Step(TRUE, bucket)
  ELSE IF BucketError THEN Step(FALSE, bucket)
  ELSE IF NoBucketFound
  THEN Step(Latest(bucket[l]).st = "none", Put(bucket, l, createNewBucket(l)))
  ELSE LET target == Bound(l, ClaimedBucket)
       IN Step(/\ ~BoundToOther(l)
               /\ target = ClaimedBucket \/ Updatable(Claimed, target),
               IF target = ClaimedBucket THEN bucket ELSE UpdateBucket(bucket, Claimed, target))

\* With a store available.  The copy is out of date if the claim has just
\* been written.
syncBucketEverRunningAnn(b) ==
  IF ~S3 \/ BucketError \/ NoBucketFound \/ ClaimedBucket.everRan \/ b # bucket
     \/ ~UpToDate(bucket[Claimed])
  THEN b ELSE SetBucketEverRunningAnn(b, Claimed, ClaimedBucket)

\* Mutant: the CNSets that use the bucket are not waited for.
finalizeUsedBucket(l) ==
  IF ~S3 THEN Step(TRUE, bucket)
  ELSE IF BucketError THEN Step(FALSE, bucket)
  ELSE IF NoBucketFound THEN Step(TRUE, bucket)
  ELSE LET freed == [ClaimedBucket EXCEPT !.bindTo = NONE, !.state = "Deleting"]
       IN [Step(~BoundToOther(l) /\ Updatable(Claimed, freed),
                UpdateBucket(bucket, Claimed, freed)) EXCEPT !.del = Claimed]

\* The claim is released, or marked and then deleted, once no DNSet or CNSet
\* uses it.
finalizeBucket(l) ==
  IF ~S3 THEN Step(TRUE, bucket)
  ELSE IF BucketError THEN Step(FALSE, bucket)
  ELSE IF NoBucketFound THEN Step(TRUE, bucket)
  ELSE LET state == IF May("Retain") THEN "Released" ELSE "Deleting"
           freed == [ClaimedBucket EXCEPT !.bindTo = NONE, !.state = state]
       IN [Step(/\ ~BoundToOther(l)
                /\ ~ContainFinalizerPrefix(ClaimedBucket)
                /\ Updatable(Claimed, freed),
                UpdateBucket(bucket, Claimed, freed))
             EXCEPT !.del = IF May("Retain") THEN NONE ELSE Claimed]

-----------------------------------------------------------------------------
(* Observe and Finalize *)

\* All is as it should be but, perhaps, the bucket and the metric service.
ObserveRest(l, c) ==
  LET claim == syncBucketClaim(l)
      ran == IF AvailableStores(c.stores) # {} THEN syncBucketEverRunningAnn(claim.to)
             ELSE claim.to
  IN \E n \in Calls(3) :
       /\ bucket' = IF n = 0 \/ ~claim.ok THEN bucket ELSE IF n = 1 THEN claim.to ELSE ran
       /\ own' = IF n = 3 /\ claim.ok THEN [own EXCEPT ![l].svcs = @ \cup {"metric"}] ELSE own
       /\ SaveStatus(l, c)
       /\ UNCHANGED <<sts, pods>>

Found(l) == Cached(sts[l]).st = "live" /\ "discovery" \in own[l].svcs

Observe(l) ==
  LET s == Cached(sts[l])
      c == ObservedStatus(Cached(ls[l]), pods[l])
      failed == StoresFailedFor(c.stores) # {}
  IN /\ Cached(ls[l]).st = "live"
     /\ \/ ~Found(l) /\ Create(l) /\ UNCHANGED bucket
        \/ Found(l) /\ failed /\ Repair(l, c) /\ UNCHANGED bucket
        \/ Found(l) /\ ~failed /\ c.replicas # s.replicas /\ Scale(l, c) /\ UNCHANGED bucket
        \/ /\ Found(l) /\ ~failed /\ c.replicas = s.replicas /\ c.rev # s.rev
           /\ Update(l, c) /\ UNCHANGED bucket
        \/ /\ Found(l) /\ ~failed /\ c.replicas = s.replicas /\ c.rev = s.rev
           /\ ObserveRest(l, c)
     /\ UNCHANGED <<cn, giving, env, job>>

\* Nobody reads the status of a LogSet that is gone.
Gone(c) == [c EXCEPT !.st = "gone", !.stores = NoStores, !.ready = FALSE]

\* Mutant: the pods are listed by the labels of the set, which they have lost.
LabelledPods(list) == {}

OrphanPods(list) == {o \in Ordinals : list[o] = "orphan"}

\* Every pass deletes the services and the StatefulSet.  Once the cache shows
\* none of them, the pods left by the failover are deleted, and once it shows
\* none of these, the bucket is given back and the LogSet goes.
Finalize(l) ==
  LET clear == own[l].svcs \cap {"headless", "discovery"} = {} /\ Cached(sts[l]).st = "none"
      orphans == OrphanPods(pods[l])
      freed == finalizeBucket(l)
  IN /\ Cached(ls[l]).st = "deleting" /\ giving[l] = NONE
     /\ \E n \in Calls(5) :
          LET rest == clear /\ n > 3
              give == rest /\ orphans = {} /\ freed.ok
          IN /\ own' = [own EXCEPT ![l].svcs =
                  @ \ {svc \in {"headless", "discovery"} : n >= IF svc = "headless" THEN 1 ELSE 3}]
             /\ sts' = IF n >= 2 THEN Put(sts, l, NoSts) ELSE sts
             /\ pods' = [pods EXCEPT ![l] = [o \in Ordinals |->
                           IF rest /\ o \in orphans THEN "none" ELSE @[o]]]
             /\ bucket' = IF give THEN freed.to ELSE bucket
             /\ giving' = IF give /\ n = 5 THEN [giving EXCEPT ![l] = freed.del] ELSE giving
             /\ ls' = IF give /\ n = 5 /\ freed.del = NONE
                      THEN Put(ls, l, Gone(Latest(ls[l]))) ELSE ls
     /\ UNCHANGED <<cn, env, job>>

\* The pass goes on with the claim it has marked: a Delete without a
\* precondition, an error if the claim is gone, and then the LogSet goes.
FinalizeMarked(l) ==
  /\ giving[l] # NONE
  /\ \E n \in Calls(2) :
       /\ bucket' = IF n >= 1 THEN DeleteBucket(bucket, giving[l]) ELSE bucket
       /\ ls' = IF n = 2 /\ Latest(bucket[giving[l]]).st # "none"
                THEN Put(ls, l, Gone(Latest(ls[l]))) ELSE ls
  /\ giving' = [giving EXCEPT ![l] = NONE]
  /\ UNCHANGED <<sts, pods, own, cn, env, job>>

-----------------------------------------------------------------------------
(* Users, the sets that use the bucket, and Kubernetes *)

NewLogSet(n) == [st |-> "live", replicas |-> n, rev |-> 0, boot |-> NONE,
                 stores |-> NoStores, ready |-> FALSE]

\* The webhook refuses a LogSet whose bucket another one uses.
validateIfBucketInUse(l) ==
  (S3 /\ ~NoBucketFound) =>
    /\ ~BucketError
    /\ ClaimedBucket.state = "InUse" => ClaimedBucket.bindTo = BucketBindToMark(l)

\* A change of the replicas that the webhook admits, and a change of the
\* template.
UserUpdates(l) ==
  LET o == Latest(ls[l])
  IN /\ May("scale") /\ env.disturbances < MaxDisturbances
     /\ o.st = "live"
     /\ validateIfBucketInUse(l)
     /\ \/ \E n \in LogShardReplicas .. MaxReplicas :
             ls' = Put(ls, l, [o EXCEPT !.replicas = n])
        \/ ls' = Put(ls, l, [o EXCEPT !.rev = 1])
     /\ ls' # ls
     /\ env' = [env EXCEPT !.disturbances = @ + 1]
     /\ UNCHANGED <<sts, pods, own, cn, giving, bucket, job>>

UserDeletes(l) ==
  /\ Latest(ls[l]).st = "live"
  /\ ls' = Put(ls, l, [Latest(ls[l]) EXCEPT !.st = "deleting"])
  /\ UNCHANGED <<sts, pods, own, cn, giving, env, bucket, job>>

\* What a CNSet does with the bucket of its LogSet; a DNSet does the same.
CNObserves(l) ==
  /\ cn[l] = "live"
  /\ Cached(ls[l]).st \in {"live", "deleting"}
  /\ May("late") \/ \A k \in LogSets : giving[k] = NONE
  /\ AddBucketFinalizer(<<"CN", l>>)
  /\ UNCHANGED <<ls, sts, pods, own, cn, giving, env, job>>

CNDeleted(l) ==
  /\ cn[l] = "live"
  /\ cn' = [cn EXCEPT ![l] = "deleting"]
  /\ UNCHANGED <<ls, sts, pods, own, giving, env, bucket, job>>

CNFinalizes(l) ==
  /\ cn[l] = "deleting"
  /\ \/ /\ Cached(ls[l]).st \in {"live", "deleting"}
        /\ RemoveBucketFinalizer(<<"CN", l>>)
        /\ cn' = IF Removed(<<"CN", l>>) THEN [cn EXCEPT ![l] = "gone"] ELSE cn
     \/ /\ Cached(ls[l]).st = "gone"
        /\ cn' = [cn EXCEPT ![l] = "gone"]
        /\ UNCHANGED bucket
  /\ UNCHANGED <<ls, sts, pods, own, giving, env, job>>

BucketController ==
  /\ \E u \in LogSets : FinalizeBucketClaim(u) \/ JobEnds(u)
  /\ UNCHANGED <<ls, sts, pods, own, cn, giving, env>>

UserDeletesClaim ==
  /\ May("kubectl")
  /\ \E u \in LogSets : UserDeletesBucket(u)
  /\ UNCHANGED <<ls, sts, pods, own, cn, giving, env>>

Desired(l) == LET s == Latest(sts[l])
              IN IF s.st = "none" THEN {} ELSE Members(s.replicas, s.reserve)

SetPod(l, o, state) == pods' = [pods EXCEPT ![l][o] = state]

\* The StatefulSet controller creates the pods of its ordinals and deletes the
\* others, all at once (podManagementPolicy Parallel), and rolls a new template
\* out once all are available.
StatefulSetPods(l) ==
  /\ pods' = [pods EXCEPT ![l] = [o \in Ordinals |->
       IF o \in Desired(l) THEN IF @[o] = "none" THEN "starting" ELSE @[o]
       ELSE IF @[o] = "orphan" THEN @[o] ELSE "none"]]
  /\ pods' # pods
  /\ UNCHANGED <<ls, sts, own, cn, giving, env, bucket, job>>

StatefulSetUpdated(l) ==
  /\ Latest(sts[l]).st = "live" /\ ~Latest(sts[l]).updated
  /\ \A o \in Desired(l) : pods[l][o] = "up"
  /\ sts' = Put(sts, l, [Latest(sts[l]) EXCEPT !.updated = TRUE])
  /\ UNCHANGED <<ls, pods, own, cn, giving, env, bucket, job>>

PodsStart(l) ==
  /\ own[l].boot # NONE /\ own[l].gossip # NONE   \* both are mounted
  /\ pods' = [pods EXCEPT ![l] = [o \in Ordinals |-> IF @[o] = "starting" THEN "up" ELSE @[o]]]
  /\ pods' # pods
  /\ UNCHANGED <<ls, sts, own, cn, giving, env, bucket, job>>

PodFails(l) ==
  /\ env.disturbances < MaxDisturbances /\ ~S3
  /\ \E o \in Ordinals : pods[l][o] = "up" /\ SetPod(l, o, "down")
  /\ env' = [env EXCEPT !.disturbances = @ + 1]
  /\ UNCHANGED <<ls, sts, own, cn, giving, bucket, job>>

InSync(l) == UpToDate(ls[l]) /\ UpToDate(sts[l])

\* A store has been down for storeFailureTimeout, ten minutes by default:
\* far longer than a watch event or the start of a pod takes.
StoreTimeout(l) ==
  /\ InSync(l)
  /\ \E o \in Ordinals :
       /\ Latest(ls[l]).stores[o] = "down" /\ pods[l][o] # "starting"
       /\ ls' = Put(ls, l, [Latest(ls[l]) EXCEPT !.stores[o] = "failed"])
  /\ UNCHANGED <<sts, pods, own, cn, giving, env, bucket, job>>

\* Watch events reach the cache.
Deliver(l) ==
  /\ \/ ~UpToDate(ls[l]) /\ ls' = [ls EXCEPT ![l] = Tail(@)] /\ UNCHANGED <<sts, bucket>>
     \/ ~UpToDate(sts[l]) /\ sts' = [sts EXCEPT ![l] = Tail(@)] /\ UNCHANGED <<ls, bucket>>
     \/ DeliverBucket(l) /\ UNCHANGED <<ls, sts>>
  /\ UNCHANGED <<pods, own, cn, giving, env, job>>

-----------------------------------------------------------------------------

Init ==
  /\ env \in [may : Scenarios, disturbances : {0}]
  /\ ls = [l \in LogSets |-> <<[NewLogSet(LogShardReplicas) EXCEPT
                               !.st = IF l = First \/ May("second") THEN "live" ELSE "none"]>>]
  /\ sts = [l \in LogSets |-> <<NoSts>>]
  /\ pods = [l \in LogSets |-> NoPods]
  /\ own = [l \in LogSets |-> NoOwn]
  /\ cn = [l \in LogSets |-> IF l = First /\ May("cn") THEN "live" ELSE "none"]
  /\ giving = [l \in LogSets |-> NONE]
  /\ bucket = [u \in LogSets |-> <<NoBucket>>]
  /\ job = [u \in LogSets |-> "none"]

Next ==
  \/ \E l \in LogSets :
       \/ Observe(l) \/ Finalize(l) \/ FinalizeMarked(l)
       \/ UserUpdates(l) \/ UserDeletes(l)
       \/ CNObserves(l) \/ CNDeleted(l) \/ CNFinalizes(l)
       \/ StatefulSetPods(l) \/ StatefulSetUpdated(l) \/ PodsStart(l) \/ PodFails(l)
       \/ StoreTimeout(l) \/ Deliver(l)
  \/ BucketController \/ UserDeletesClaim

\* The work queue retries a LogSet, a CNSet and a claim until nothing is left
\* to do; Kubernetes goes on and time passes: as long as there is such a step to
\* take, one is taken.  Watch events arrive whatever the controllers do.
Progress ==
  \/ \E l \in LogSets :
       \/ Deliver(l) \/ StatefulSetPods(l) \/ PodsStart(l) \/ StatefulSetUpdated(l)
       \/ StoreTimeout(l) \/ CNFinalizes(l)
       \/ Finalize(l) \/ FinalizeMarked(l) \/ Observe(l)
  \/ BucketController

Fairness == WF_vars(Progress) /\ \A l \in LogSets : WF_vars(Deliver(l))

Spec == Init /\ [][Next]_vars /\ Fairness

-----------------------------------------------------------------------------
(* Properties *)

\* Repair: the ordinals that the failover has reserved, over any number of
\* failures, conflicts and restarts, are never more than a minority of the
\* replicas of a log shard, in no version of the StatefulSet.
ReservedMinority ==
  \A l \in LogSets : \A s \in Versions(sts[l]) : Cardinality(s.reserve) <= Limit

\* bootstrap and updateGossipConfig: the stores find each other.  The config map
\* that the pods bootstrap from names the replicas of the recorded decision,
\* whatever failed in between and however the set has been scaled since; and
\* without faults the gossip map names the pods the StatefulSet is to have, after
\* every failover and every scaling.
MembersAgree ==
  \A l \in LogSets :
    /\ own[l].boot # NONE => own[l].boot = Latest(ls[l]).boot
    /\ (~May("rpc") /\ Latest(sts[l]).st = "live") => own[l].gossip = Desired(l)

\* Finalize: a LogSet that is gone leaves no StatefulSet and no orphaned pod,
\* whose finalizer nobody else removes.
FinalizedLeavesNothing ==
  \A l \in LogSets :
    Latest(ls[l]).st = "gone" =>
      /\ Latest(sts[l]).st = "none"
      /\ \A o \in Ordinals : pods[l][o] # "orphan"

\* bucketclaim Finalize ("bucket is in inuse, cannot be deleted"): the Job that
\* deletes the data of a bucket does not run while a LogSet, a DNSet or a
\* CNSet uses it.  For a bucket of one LogSet, and as long as no user deletes the
\* claim after a Finalize that broke off between marking and deleting it, and no
\* CNSet puts its finalizer on the claim between these two calls: nothing checks
\* the finalizers again once the claim is marked ("second", "rpc" with "kubectl",
\* "late").
DataKeptInUse ==
  \A u \in LogSets :
    job[u] = "running" =>
      Latest(bucket[u]).state # "InUse" /\ ~ContainFinalizerPrefix(Latest(bucket[u]))

Live(l) == Latest(ls[l]).st = "live"
Automatic == ~May("rpc") /\ ~May("manual") /\ ~May("Orphan")

\* Repair: with strategy Delete and without faults no store stays down for ever:
\* its ordinal leaves the set and the store that takes its place is started,
\* unless the failures of others have used up the minority that the failover may
\* reserve, or a majority is down.
FailedStoreReplaced ==
  Automatic => \A l \in LogSets : []<>
    (Live(l) =>
       /\ \A d \in Desired(l) : pods[l][d] \in {"up", "down"}
       /\ \/ \A d \in Desired(l) : pods[l][d] = "up"
          \/ Cardinality(Latest(sts[l]).reserve) \in Limit .. env.disturbances - 1
          \/ Cardinality({o \in Ordinals : pods[l][o] = "down"}) > Limit)

\* Observe: a change of the replicas reaches the StatefulSet, unless a store
\* stays failed, which Observe turns to first.
Scales ==
  \A l \in LogSets :
    Live(l) /\ Latest(sts[l]).st = "live" /\ Latest(ls[l]).replicas # Latest(sts[l]).replicas ~>
      \/ ~Live(l) \/ May("rpc")
      \/ Latest(ls[l]).replicas = Latest(sts[l]).replicas
      \/ StoresFailedFor(Latest(ls[l]).stores) # {}

\* Finalize: a deleted LogSet goes, unless a DNSet or a CNSet keeps its
\* finalizer on the claim; and a claim that is given up goes with its data,
\* unless the Job has failed.
DeletedGoes ==
  \A l \in LogSets :
    /\ Latest(ls[l]).st = "deleting" ~>
         Latest(ls[l]).st = "gone" \/ May("rpc") \/ ContainFinalizerPrefix(Latest(bucket[l]))
    /\ Latest(bucket[l]).state = "Deleting" ~>
         Latest(bucket[l]).st = "none" \/ May("rpc") \/ job[l] = "failed"
=============================================================================
