---------------------------- MODULE LogSetProofs -----------------------------
(***************************************************************************)
(* The log service is well typed, its failover stays within a minority of  *)
(* the replicas of a log shard, its stores agree on the members, a LogSet  *)
(* that is gone leaves nothing, and the data of a bucket are not deleted   *)
(* while it is used: for any LogSets, ordinals, replicas and cache lag.    *)
(***************************************************************************)
EXTENDS LogSet, ObjectStoreProofs, FiniteSetTheorems

LsOK == ls \in [LogSets -> Logs(LogSetObj)]
StsOK == sts \in [LogSets -> Logs(StsObj)] /\ ReservedMinority
PodsOK == pods \in [LogSets -> [Ordinals -> PodStates]] /\ own \in [LogSets -> OwnObj]

-----------------------------------------------------------------------------
(* Writes *)

LEMMA PutTyped ==
  ASSUME NEW T, NEW f \in [LogSets -> Logs(T)], NEW l \in LogSets, NEW v \in T
  PROVE  Put(f, l, v) \in [LogSets -> Logs(T)]
  <1>1. f[l] \in Logs(T)
    OBVIOUS
  <1>2. Write(f[l], v) \in Logs(T)
    BY <1>1, WriteLog
  <1> QED BY <1>2 DEF Put

(* The limit of the failover is kept by a write that keeps it. *)
LEMMA PutSts ==
  ASSUME StsOK, NEW l \in LogSets, NEW v \in StsObj, Cardinality(v.reserve) <= Limit,
         sts' = Put(sts, l, v)
  PROVE  StsOK'
  <1>1. sts' \in [LogSets -> Logs(StsObj)]
    BY PutTyped DEF StsOK
  <1>2. sts[l] \in Logs(StsObj) /\ sts'[l] = Write(sts[l], v)
    BY DEF Put, StsOK
  <1>3. Versions(sts'[l]) \subseteq Versions(sts[l]) \cup {v}
    BY <1>2, WriteVersions
  <1>4. \A m \in LogSets \ {l} : sts'[m] = sts[m]
    BY DEF Put, StsOK
  <1> QED BY <1>1, <1>3, <1>4 DEF StsOK, ReservedMinority, Limit

LEMMA SameSts ==
  ASSUME StsOK, sts' = sts
  PROVE  StsOK'
  BY DEF StsOK, ReservedMinority, Limit

(* What is read of a StatefulSet is a version that keeps the limit. *)
LEMMA ReadSts ==
  ASSUME StsOK, NEW l \in LogSets
  PROVE  /\ Cached(sts[l]) \in StsObj /\ Cardinality(Cached(sts[l]).reserve) <= Limit
         /\ Latest(sts[l]) \in StsObj /\ Cardinality(Latest(sts[l]).reserve) <= Limit
  <1>1. sts[l] \in Logs(StsObj)
    BY DEF StsOK
  <1> QED BY <1>1, EndVersions DEF StsOK, ReservedMinority

LEMMA Behind ==
  ASSUME NEW T, NEW log \in Logs(T), ~UpToDate(log)
  PROVE  Len(log) > 1
  <1> DEFINE n == Len(log)
  <1>1. n \in Nat \ {0}
    BY LogEnds
  <1>2. n # 1
    BY DEF UpToDate
  <1> HIDE DEF n
  <1>3. n > 1
    BY <1>1, <1>2
  <1> QED BY <1>3 DEF n

LEMMA ReadLs ==
  ASSUME LsOK, NEW l \in LogSets
  PROVE  Cached(ls[l]) \in LogSetObj /\ Latest(ls[l]) \in LogSetObj
  <1>1. ls[l] \in Logs(LogSetObj)
    BY DEF LsOK
  <1> QED BY <1>1, LogEnds

LEMMA SavedTyped ==
  ASSUME LsOK, NEW l \in LogSets, NEW c \in LogSetObj, SaveStatus(l, c)
  PROVE  LsOK'
  <1>1. ls' = Put(ls, l, c) \/ ls' = ls
    BY DEF SaveStatus, Put
  <1> QED BY <1>1, PutTyped DEF LsOK

LEMMA ObservedTyped ==
  ASSUME NEW c \in LogSetObj, NEW list \in [Ordinals -> PodStates]
  PROVE  ObservedStatus(c, list) \in LogSetObj
  <1>1. CollectStoreStatus(c.stores, list) \in [Ordinals -> Stores]
    BY DEF CollectStoreStatus, LogSetObj, Stores
  <1> DEFINE n == Cardinality(AvailableStores(CollectStoreStatus(c.stores, list)))
  <1>2. n \in Nat
    <2>1. AvailableStores(CollectStoreStatus(c.stores, list)) \in SUBSET Ordinals
      BY DEF AvailableStores
    <2> QED BY <2>1, LogSetAssumption, FS_Subset, FS_CardinalityType
  <1>3. (n >= c.replicas) \in BOOLEAN
    BY <1>2, LogSetAssumption DEF LogSetObj
  <1>4. ObservedStatus(c, list) = [c EXCEPT !.stores = CollectStoreStatus(c.stores, list),
                                            !.ready = n >= c.replicas]
    BY DEF ObservedStatus
  <1> HIDE DEF n
  <1> QED BY <1>1, <1>3, <1>4 DEF LogSetObj

LEMMA SeedsTyped ==
  ASSUME NEW s
  PROVE  gossipSeeds(s) \in SUBSET Ordinals
  BY DEF gossipSeeds, Members

LEMMA GossipTyped ==
  ASSUME PodsOK, NEW l \in LogSets, NEW s
  PROVE  updateGossipConfig(l, s) \in [LogSets -> OwnObj]
  BY SeedsTyped DEF PodsOK, updateGossipConfig, OwnObj, Opt

-----------------------------------------------------------------------------
(* The branches of Observe *)

(* The StatefulSet of a new log service, and none, reserve no ordinal. *)
LEMMA FreshSts ==
  /\ Cardinality({}) <= Limit
  /\ NoSts \in StsObj /\ NoSts.reserve = {}
  /\ \A c \in LogSetObj : buildStatefulSet(c) \in StsObj /\ buildStatefulSet(c).reserve = {}
  <1>1. Limit \in Nat
    BY LogSetAssumption DEF Limit
  <1>2. Cardinality({}) = 0
    BY FS_EmptySet
  <1>3. NoSts \in StsObj /\ NoSts.reserve = {}
    BY LogSetAssumption DEF NoSts, StsObj
  <1>4. \A c \in LogSetObj : buildStatefulSet(c) \in StsObj /\ buildStatefulSet(c).reserve = {}
    BY DEF buildStatefulSet, LogSetObj, StsObj
  <1> QED BY <1>1, <1>2, <1>3, <1>4

LEMMA CreateTyped ==
  ASSUME LsOK, StsOK, PodsOK, NEW l \in LogSets, Create(l)
  PROVE  LsOK' /\ StsOK' /\ PodsOK'
  <1> DEFINE c == bootstrap(Cached(ls[l]))
  <1>1. Cached(ls[l]) \in LogSetObj
    BY ReadLs
  <1>2. c \in LogSetObj /\ c.boot \in Opt(SUBSET Ordinals)
    <2>1. {o \in Ordinals : o < LogShardReplicas} \in Opt(SUBSET Ordinals)
      BY DEF Opt
    <2>2. c \in LogSetObj
      BY <1>1, <2>1 DEF bootstrap, LogSetObj
    <2> HIDE DEF c
    <2> QED BY <2>2 DEF LogSetObj
  <1>3. LsOK'
    <2>1. ls' = Put(ls, l, c) \/ ls' = ls
      BY DEF Create
    <2> QED BY <1>2, <2>1, PutTyped DEF LsOK
  <1>4. StsOK'
    <2>1. sts' = Put(sts, l, buildStatefulSet(c)) \/ sts' = sts
      BY DEF Create
    <2> QED BY <1>2, <2>1, PutSts, SameSts, FreshSts
  <1>5. PodsOK'
    <2>1. PICK made \in SUBSET {"boot", "gossip", "headless", "sts", "discovery"} :
            \/ own' = own
            \/ own' = [own EXCEPT
                    ![l].boot = IF "boot" \in made THEN Default(@, c.boot) ELSE @,
                    ![l].gossip =
                      IF "gossip" \in made THEN Default(@, gossipSeeds(buildStatefulSet(c))) ELSE @,
                    ![l].svcs = @ \cup (made \cap {"headless", "discovery"})]
      <3>1. CASE own' = own
        BY <3>1
      <3>2. CASE own' # own
        BY <3>2 DEF Create
      <3> QED BY <3>1, <3>2
    <2>2. gossipSeeds(buildStatefulSet(c)) \in Opt(SUBSET Ordinals) /\ c.boot \in Opt(SUBSET Ordinals)
      BY <1>2, SeedsTyped DEF Opt
    <2>3. own' \in [LogSets -> OwnObj]
      <3> DEFINE seeds == gossipSeeds(buildStatefulSet(c))
                 r == [own[l] EXCEPT !.boot = IF "boot" \in made THEN Default(@, c.boot) ELSE @,
                                     !.gossip = IF "gossip" \in made THEN Default(@, seeds) ELSE @,
                                     !.svcs = @ \cup (made \cap {"headless", "discovery"})]
      <3>1. own[l] \in OwnObj
        BY DEF PodsOK
      <3>2. r \in OwnObj
        <4> HIDE DEF c
        <4> QED BY <2>2, <3>1 DEF OwnObj, Default, seeds
      <3>3. own' = own \/ own' = [own EXCEPT ![l] = r]
        BY <2>1, <3>1 DEF PodsOK
      <3> HIDE DEF r
      <3> QED BY <3>2, <3>3 DEF PodsOK
    <2>4. pods' = pods
      BY DEF Create
    <2> QED BY <2>3, <2>4 DEF PodsOK
  <1> QED BY <1>3, <1>4, <1>5

LEMMA ScaleTyped ==
  ASSUME LsOK, StsOK, PodsOK, NEW l \in LogSets, NEW c \in LogSetObj, Scale(l, c)
  PROVE  LsOK' /\ StsOK' /\ PodsOK'
  <1> DEFINE s == [Latest(sts[l]) EXCEPT !.replicas = c.replicas, !.updated = FALSE]
  <1>1. Latest(sts[l]) \in StsObj /\ Cardinality(Latest(sts[l]).reserve) <= Limit
    BY ReadSts
  <1>2. s \in StsObj /\ s.reserve = Latest(sts[l]).reserve
    BY <1>1 DEF StsObj, LogSetObj
  <1>3. SaveStatus(l, c) /\ pods' = pods /\ (sts' = Put(sts, l, s) \/ sts' = sts)
        /\ (own' = updateGossipConfig(l, s) \/ own' = own)
    BY DEF Scale
  <1> HIDE DEF s
  <1>4. StsOK'
    BY <1>1, <1>2, <1>3, PutSts, SameSts
  <1>5. PodsOK'
    BY <1>3, GossipTyped DEF PodsOK
  <1> QED BY <1>3, <1>4, <1>5, SavedTyped

(* A store is given up only below the limit: one more ordinal reaches it at most. *)
LEMMA RepairTyped ==
  ASSUME LsOK, StsOK, PodsOK, NEW l \in LogSets, NEW c \in LogSetObj, Repair(l, c)
  PROVE  LsOK' /\ StsOK' /\ PodsOK'
  <1> DEFINE s == Cached(sts[l])
             next(o) == [s EXCEPT !.reserve = @ \cup {o}, !.updated = FALSE]
  <1>1. s \in StsObj /\ Cardinality(s.reserve) <= Limit
    BY ReadSts
  <1>2. SaveStatus(l, c)
    BY DEF Repair
  <1>3. CASE UNCHANGED <<sts, pods, own>>
    BY <1>2, <1>3, SavedTyped, SameSts DEF PodsOK
  <1>4. CASE ~UNCHANGED <<sts, pods, own>>
    <2>1. mayRepair(c, s)
      BY <1>4 DEF Repair
    <2>2. PICK o \in StoresFailedFor(c.stores) :
            /\ pods' = [pods EXCEPT ![l][o] = "orphan"] \/ pods' = pods
            /\ sts' = Put(sts, l, next(o)) \/ sts' = sts
            /\ own' = updateGossipConfig(l, next(o)) \/ own' = own
      BY <1>4 DEF Repair
    <2>3. o \in Ordinals
      BY DEF StoresFailedFor
    <2>4. next(o) \in StsObj /\ next(o).reserve = s.reserve \cup {o}
      BY <1>1, <2>3 DEF StsObj
    <2>5. Cardinality(s.reserve \cup {o}) <= Limit
      <3>1. s.reserve \in SUBSET Ordinals
        BY <1>1 DEF StsObj
      <3>2. IsFiniteSet(s.reserve)
        BY <3>1, LogSetAssumption, FS_Subset
      <3>3. /\ Cardinality(s.reserve) \in Nat
            /\ Cardinality(s.reserve \cup {o}) = Cardinality(s.reserve)
               \/ Cardinality(s.reserve \cup {o}) = Cardinality(s.reserve) + 1
        BY <3>2, FS_CardinalityType, FS_AddElement
      <3>4. Cardinality(s.reserve) < Limit /\ Limit \in Nat
        BY <2>1, LogSetAssumption DEF mayRepair, Limit
      <3> QED BY <3>3, <3>4
    <2> HIDE DEF next, s
    <2>6. StsOK'
      BY <2>2, <2>4, <2>5, PutSts, SameSts
    <2>7. PodsOK'
      <3>1. pods' \in [LogSets -> [Ordinals -> PodStates]]
        BY <2>2, <2>3 DEF PodsOK, PodStates
      <3>2. own' \in [LogSets -> OwnObj]
        BY <2>2, GossipTyped DEF PodsOK
      <3> QED BY <3>1, <3>2 DEF PodsOK
    <2> QED BY <1>2, <2>6, <2>7, SavedTyped
  <1> QED BY <1>3, <1>4

LEMMA UpdateTyped ==
  ASSUME LsOK, StsOK, PodsOK, NEW l \in LogSets, NEW c \in LogSetObj, Update(l, c)
  PROVE  LsOK' /\ StsOK' /\ PodsOK'
  <1> DEFINE s == [Cached(sts[l]) EXCEPT !.rev = c.rev, !.updated = FALSE]
  <1>1. Cached(sts[l]) \in StsObj /\ Cardinality(Cached(sts[l]).reserve) <= Limit
    BY ReadSts
  <1>2. s \in StsObj /\ s.reserve = Cached(sts[l]).reserve
    BY <1>1 DEF StsObj, LogSetObj
  <1>3. SaveStatus(l, c) /\ UNCHANGED <<pods, own>> /\ (sts' = Put(sts, l, s) \/ sts' = sts)
    BY DEF Update
  <1> HIDE DEF s
  <1>4. StsOK'
    BY <1>1, <1>2, <1>3, PutSts, SameSts
  <1> QED BY <1>3, <1>4, SavedTyped DEF PodsOK

-----------------------------------------------------------------------------
(* The bucket *)

Buckets == [LogSets -> Logs(BucketClaim)]

LEMMA UpdateBucketTyped ==
  ASSUME NEW b \in Buckets, NEW u \in LogSets, NEW v \in BucketClaim
  PROVE  UpdateBucket(b, u, v) \in Buckets
  <1> DEFINE x == IF v.st = "deleting" /\ v.finalizers = {} THEN NoBucket ELSE v
  <1>1. NoBucket \in BucketClaim
    BY DEF NoBucket, BucketClaim, Opt
  <1>2. x \in BucketClaim
    BY <1>1
  <1>3. UpdateBucket(b, u, v) = Put(b, u, x)
    BY DEF UpdateBucket, Put
  <1> HIDE DEF x
  <1> QED BY <1>2, <1>3, PutTyped DEF Buckets

LEMMA ReadBucket ==
  ASSUME NEW b \in Buckets, NEW u \in LogSets
  PROVE  Cached(b[u]) \in BucketClaim /\ Latest(b[u]) \in BucketClaim
  <1>1. b[u] \in Logs(BucketClaim)
    BY DEF Buckets
  <1> QED BY <1>1, LogEnds

LEMMA DeleteBucketTyped ==
  ASSUME NEW b \in Buckets, NEW u \in LogSets
  PROVE  DeleteBucket(b, u) \in Buckets
  <1>1. Latest(b[u]) \in BucketClaim
    BY ReadBucket
  <1>2. [Latest(b[u]) EXCEPT !.st = "deleting"] \in BucketClaim
    BY <1>1 DEF BucketClaim
  <1> QED BY <1>2, UpdateBucketTyped DEF DeleteBucket

LEMMA ClaimedTyped ==
  ASSUME bucket \in Buckets, ~NoBucketFound
  PROVE  Claimed \in LogSets /\ ClaimedBucket \in BucketClaim
  <1>1. Claimed \in LogSets
    BY DEF NoBucketFound, Listed, Claimed
  <1> QED BY <1>1, ReadBucket DEF ClaimedBucket

LEMMA TryUpdateTyped ==
  ASSUME bucket \in Buckets, NEW u \in LogSets, NEW v \in BucketClaim, TryUpdate(u, v)
  PROVE  bucket' \in Buckets
  BY UpdateBucketTyped DEF TryUpdate

(* The finalizers of the sets that use the bucket. *)
LEMMA FinalizersTyped ==
  ASSUME bucket \in Buckets, NEW f \in BucketUsers,
         AddBucketFinalizer(f) \/ RemoveBucketFinalizer(f)
  PROVE  bucket' \in Buckets
  <1>1. CASE BucketError \/ NoBucketFound
    BY <1>1 DEF AddBucketFinalizer, RemoveBucketFinalizer
  <1>2. CASE ~(BucketError \/ NoBucketFound)
    <2>1. Claimed \in LogSets /\ ClaimedBucket \in BucketClaim
      BY <1>2, ClaimedTyped
    <2>2. /\ [ClaimedBucket EXCEPT !.finalizers = @ \cup {f}] \in BucketClaim
          /\ [ClaimedBucket EXCEPT !.finalizers = @ \ {f}] \in BucketClaim
      BY <2>1 DEF BucketClaim
    <2> QED BY <1>2, <2>1, <2>2, TryUpdateTyped DEF AddBucketFinalizer, RemoveBucketFinalizer
  <1> QED BY <1>1, <1>2

LEMMA StepTyped ==
  ASSUME bucket \in Buckets, NEW ok, NEW to, ok => to \in Buckets
  PROVE  Step(ok, to).to \in Buckets
  BY DEF Step

LEMMA SyncBucketTyped ==
  ASSUME bucket \in Buckets, NEW l \in LogSets
  PROVE  syncBucketClaim(l).to \in Buckets
  <1>1. CASE ~S3 \/ BucketError
    BY <1>1, StepTyped DEF syncBucketClaim
  <1>2. CASE S3 /\ ~BucketError /\ NoBucketFound
    <2>1. createNewBucket(l) \in BucketClaim
      BY DEF createNewBucket, NoBucket, BucketClaim, BucketBindToMark, Opt
    <2>2. Put(bucket, l, createNewBucket(l)) \in Buckets
      BY <2>1, PutTyped DEF Buckets
    <2> QED BY <1>2, <2>2, StepTyped DEF syncBucketClaim
  <1>3. CASE S3 /\ ~BucketError /\ ~NoBucketFound
    <2>1. Claimed \in LogSets /\ ClaimedBucket \in BucketClaim
      BY <1>3, ClaimedTyped
    <2>2. Bound(l, ClaimedBucket) \in BucketClaim
      BY <2>1 DEF Bound, BucketClaim, BucketBindToMark, Opt
    <2>3. UpdateBucket(bucket, Claimed, Bound(l, ClaimedBucket)) \in Buckets
      BY <2>1, <2>2, UpdateBucketTyped
    <2> QED BY <1>3, <2>3, StepTyped DEF syncBucketClaim
  <1> QED BY <1>1, <1>2, <1>3

LEMMA EverRanTyped ==
  ASSUME bucket \in Buckets, NEW b \in Buckets
  PROVE  syncBucketEverRunningAnn(b) \in Buckets
  <1>1. CASE NoBucketFound
    BY <1>1 DEF syncBucketEverRunningAnn
  <1>2. CASE ~NoBucketFound
    <2>1. Claimed \in LogSets /\ ClaimedBucket \in BucketClaim
      BY <1>2, ClaimedTyped
    <2>2. [ClaimedBucket EXCEPT !.everRan = TRUE] \in BucketClaim
      BY <2>1 DEF BucketClaim
    <2>3. SetBucketEverRunningAnn(b, Claimed, ClaimedBucket) \in Buckets
      BY <2>1, <2>2, UpdateBucketTyped DEF SetBucketEverRunningAnn
    <2> QED BY <2>3 DEF syncBucketEverRunningAnn
  <1> QED BY <1>1, <1>2

LEMMA FinalizeBucketTyped ==
  ASSUME bucket \in Buckets, NEW l \in LogSets
  PROVE  finalizeBucket(l).to \in Buckets /\ finalizeBucket(l).del \in Opt(LogSets)
  <1>1. CASE ~S3 \/ BucketError \/ NoBucketFound
    <2>1. finalizeBucket(l).to \in Buckets
      BY <1>1, StepTyped DEF finalizeBucket
    <2>2. finalizeBucket(l).del = NONE
      BY <1>1 DEF finalizeBucket, Step
    <2> QED BY <2>1, <2>2 DEF Opt
  <1>2. CASE S3 /\ ~BucketError /\ ~NoBucketFound
    <2> DEFINE state == IF May("Retain") THEN "Released" ELSE "Deleting"
               freed == [ClaimedBucket EXCEPT !.bindTo = NONE, !.state = state]
               done == UpdateBucket(bucket, Claimed, freed)
               ok == ~BoundToOther(l) /\ ~ContainFinalizerPrefix(ClaimedBucket) /\ Updatable(Claimed, freed)
    <2>1. Claimed \in LogSets /\ ClaimedBucket \in BucketClaim
      BY <1>2, ClaimedTyped
    <2>2. freed \in BucketClaim
      BY <2>1 DEF BucketClaim, Opt
    <2>3. done \in Buckets
      BY <2>1, <2>2, UpdateBucketTyped
    <2>4. finalizeBucket(l) = [Step(ok, done) EXCEPT !.del = IF May("Retain") THEN NONE ELSE Claimed]
      BY <1>2 DEF finalizeBucket
    <2> HIDE DEF ok, done
    <2>5. finalizeBucket(l).to \in {bucket, done} /\ finalizeBucket(l).del \in {NONE, Claimed}
      BY <2>4 DEF Step
    <2> QED BY <2>1, <2>3, <2>5 DEF Opt
  <1> QED BY <1>1, <1>2

LEMMA BucketControllerTyped ==
  ASSUME BucketTypeOK, NEW u \in LogSets, FinalizeBucketClaim(u) \/ JobEnds(u) \/ UserDeletesBucket(u)
  PROVE  BucketTypeOK'
  <1> USE DEF BucketTypeOK
  <1>1. bucket \in Buckets /\ job \in [LogSets -> Jobs]
    BY DEF Buckets
  <1>2. CASE JobEnds(u)
    BY <1>2 DEF JobEnds, Jobs
  <1>3. CASE UserDeletesBucket(u)
    BY <1>1, <1>3, DeleteBucketTyped DEF UserDeletesBucket, Buckets
  <1>4. CASE FinalizeBucketClaim(u)
    <2> DEFINE b == Cached(bucket[u])
    <2>1. b \in BucketClaim
      BY <1>1, ReadBucket
    <2>2. /\ \A x \in {"InUse", "JobFailure", "FailCreateJob"} : [b EXCEPT !.cond = x] \in BucketClaim
          /\ [b EXCEPT !.finalizers = @ \ {BucketDataFinalizer}] \in BucketClaim
      BY <2>1 DEF BucketClaim
    <2>3. /\ \/ \E v \in BucketClaim : TryUpdate(u, v)
             \/ UNCHANGED bucket
          /\ job' = job \/ job' = [job EXCEPT ![u] = "running"] \/ job' = [job EXCEPT ![u] = "cm"]
      BY <1>4, <2>2 DEF FinalizeBucketClaim, ReleaseBucket, createNewJob
    <2>4. bucket' \in Buckets
      BY <1>1, <2>3, TryUpdateTyped
    <2>5. job' \in [LogSets -> Jobs]
      BY <1>1, <2>3 DEF Jobs
    <2> QED BY <2>4, <2>5 DEF Buckets
  <1> QED BY <1>2, <1>3, <1>4

-----------------------------------------------------------------------------
(* The actions *)

LogInv == TypeOK /\ ReservedMinority

RestOK ==
  /\ cn \in [LogSets -> {"none", "live", "deleting", "gone"}]
  /\ giving \in [LogSets -> Opt(LogSets)]
  /\ env \in [may : Scenarios, disturbances : 0 .. MaxDisturbances]
  /\ job \in [LogSets -> Jobs]

(* The invariant, object by object. *)
LEMMA Parts == LogInv <=> LsOK /\ StsOK /\ PodsOK /\ RestOK /\ bucket \in Buckets
  BY DEF LogInv, TypeOK, LsOK, StsOK, PodsOK, RestOK, Buckets, BucketTypeOK

LEMMA PartsPrimed == LogInv' <=> LsOK' /\ StsOK' /\ PodsOK' /\ RestOK' /\ bucket' \in Buckets
  BY DEF LogInv, TypeOK, LsOK, StsOK, PodsOK, RestOK, Buckets, BucketTypeOK

LEMMA SameRest ==
  ASSUME RestOK, UNCHANGED <<cn, giving, env, job>>
  PROVE  RestOK'
  BY DEF RestOK

LEMMA ObserveTyped ==
  ASSUME LogInv, NEW l \in LogSets, Observe(l)
  PROVE  LogInv'
  <1> DEFINE s == Cached(sts[l])
             c == ObservedStatus(Cached(ls[l]), pods[l])
  <1>1. LsOK /\ StsOK /\ PodsOK /\ RestOK /\ bucket \in Buckets
    BY Parts
  <1>2. RestOK'
    BY <1>1, SameRest DEF Observe
  <1>3. c \in LogSetObj
    <2>1. Cached(ls[l]) \in LogSetObj /\ pods[l] \in [Ordinals -> PodStates]
      BY <1>1, ReadLs DEF PodsOK
    <2> QED BY <2>1, ObservedTyped
  <1>4. \/ (Create(l) \/ Repair(l, c) \/ Scale(l, c) \/ Update(l, c)) /\ UNCHANGED bucket
        \/ ObserveRest(l, c)
    BY DEF Observe
  <1> HIDE DEF c
  <1>5. CASE (Create(l) \/ Repair(l, c) \/ Scale(l, c) \/ Update(l, c)) /\ UNCHANGED bucket
    <2>1. LsOK' /\ StsOK' /\ PodsOK'
      BY <1>1, <1>3, <1>5, CreateTyped, RepairTyped, ScaleTyped, UpdateTyped
    <2> QED BY <1>1, <1>2, <1>5, <2>1, PartsPrimed
  <1>6. CASE ObserveRest(l, c)
    <2> DEFINE claim == syncBucketClaim(l)
               ran == IF AvailableStores(c.stores) # {} THEN syncBucketEverRunningAnn(claim.to)
                      ELSE claim.to
    <2>1. claim.to \in Buckets /\ ran \in Buckets
      BY <1>1, SyncBucketTyped, EverRanTyped
    <2>2. /\ bucket' \in {bucket, claim.to, ran}
          /\ own' = own \/ own' = [own EXCEPT ![l].svcs = @ \cup {"metric"}]
          /\ SaveStatus(l, c)
          /\ UNCHANGED <<sts, pods>>
      BY <1>6 DEF ObserveRest
    <2>3. bucket' \in Buckets
      BY <1>1, <2>1, <2>2
    <2>4. PodsOK'
      <3>1. own[l] \in OwnObj
        BY <1>1 DEF PodsOK
      <3>2. [own[l] EXCEPT !.svcs = @ \cup {"metric"}] \in OwnObj
        BY <3>1 DEF OwnObj
      <3>3. own' \in [LogSets -> OwnObj]
        BY <1>1, <2>2, <3>2 DEF PodsOK
      <3> QED BY <1>1, <2>2, <3>3 DEF PodsOK
    <2> QED BY <1>1, <1>2, <1>3, <2>2, <2>3, <2>4, SavedTyped, SameSts, PartsPrimed
  <1> QED BY <1>4, <1>5, <1>6

LEMMA FinalizeTyped ==
  ASSUME LogInv, NEW l \in LogSets, Finalize(l)
  PROVE  LogInv'
  <1> DEFINE freed == finalizeBucket(l)
  <1>1. LsOK /\ StsOK /\ PodsOK /\ RestOK /\ bucket \in Buckets
    BY Parts
  <1>3. /\ \E D : own' = [own EXCEPT ![l].svcs = @ \ D]
        /\ sts' = Put(sts, l, NoSts) \/ sts' = sts
        /\ \E D : pods' = [pods EXCEPT ![l] = [o \in Ordinals |-> IF o \in D THEN "none" ELSE @[o]]]
        /\ bucket' \in {bucket, freed.to}
        /\ giving' \in {giving, [giving EXCEPT ![l] = freed.del]}
        /\ ls' = Put(ls, l, Gone(Latest(ls[l]))) \/ ls' = ls
    <2> DEFINE clear == own[l].svcs \cap {"headless", "discovery"} = {} /\ Cached(sts[l]).st = "none"
               svcs(n) == {svc \in {"headless", "discovery"} : n >= IF svc = "headless" THEN 1 ELSE 3}
               swept(n) == {o \in OrphanPods(pods[l]) : clear /\ n > 3}
               give(n) == clear /\ n > 3 /\ OrphanPods(pods[l]) = {} /\ freed.ok
    <2>1. PICK n \in Calls(5) :
            /\ own' = [own EXCEPT ![l].svcs = @ \ svcs(n)]
            /\ sts' = IF n >= 2 THEN Put(sts, l, NoSts) ELSE sts
            /\ pods' = [pods EXCEPT ![l] = [o \in Ordinals |->
                          IF (clear /\ n > 3) /\ o \in OrphanPods(pods[l]) THEN "none" ELSE @[o]]]
            /\ bucket' = IF give(n) THEN freed.to ELSE bucket
            /\ giving' = IF give(n) /\ n = 5 THEN [giving EXCEPT ![l] = freed.del] ELSE giving
            /\ ls' = IF give(n) /\ n = 5 /\ freed.del = NONE
                     THEN Put(ls, l, Gone(Latest(ls[l]))) ELSE ls
      BY Zenon DEF Finalize
    <2>2. \A o : o \in swept(n) <=> (clear /\ n > 3) /\ o \in OrphanPods(pods[l])
      OBVIOUS
    <2> HIDE DEF freed, clear, svcs, give, swept
    <2>3. pods' = [pods EXCEPT ![l] = [o \in Ordinals |-> IF o \in swept(n) THEN "none" ELSE @[o]]]
      BY <2>1, <2>2
    <2> QED BY <2>1, <2>3, Zenon
  <1>4. StsOK'
    BY <1>1, <1>3, PutSts, SameSts, FreshSts
  <1>5. PodsOK'
    <2>1. own' \in [LogSets -> OwnObj]
      <3>1. PICK D : own' = [own EXCEPT ![l].svcs = @ \ D]
        BY <1>3
      <3>2. own[l] \in OwnObj
        BY <1>1 DEF PodsOK
      <3>3. [own[l] EXCEPT !.svcs = @ \ D] \in OwnObj
        BY <3>2 DEF OwnObj
      <3> QED BY <1>1, <3>1, <3>3 DEF PodsOK
    <2>2. pods' \in [LogSets -> [Ordinals -> PodStates]]
      BY <1>1, <1>3 DEF PodsOK, PodStates
    <2> QED BY <2>1, <2>2 DEF PodsOK
  <1>6. bucket' \in Buckets
    BY <1>1, <1>3, FinalizeBucketTyped
  <1>7. LsOK'
    <2>1. Latest(ls[l]) \in LogSetObj
      BY <1>1, ReadLs
    <2>2. Gone(Latest(ls[l])) \in LogSetObj
      BY <2>1 DEF Gone, LogSetObj, NoStores, Stores
    <2> QED BY <1>1, <1>3, <2>2, PutTyped DEF LsOK
  <1>8. RestOK'
    <2>1. freed.del \in Opt(LogSets) /\ UNCHANGED <<cn, env, job>>
      BY <1>1, FinalizeBucketTyped DEF Finalize
    <2> HIDE DEF freed
    <2> QED BY <1>1, <1>3, <2>1 DEF RestOK
  <1> QED BY <1>4, <1>5, <1>6, <1>7, <1>8, PartsPrimed

LEMMA FinalizeMarkedTyped ==
  ASSUME LogInv, NEW l \in LogSets, FinalizeMarked(l)
  PROVE  LogInv'
  <1>1. LsOK /\ StsOK /\ PodsOK /\ RestOK /\ bucket \in Buckets
    BY Parts
  <1>2. giving[l] \in LogSets /\ UNCHANGED <<sts, pods, own, cn, env, job>>
    BY <1>1 DEF FinalizeMarked, RestOK, Opt
  <1>3. bucket' \in Buckets
    <2>1. bucket' = bucket \/ bucket' = DeleteBucket(bucket, giving[l])
      BY DEF FinalizeMarked
    <2> QED BY <1>1, <1>2, <2>1, DeleteBucketTyped
  <1>4. LsOK'
    <2>1. Latest(ls[l]) \in LogSetObj
      BY <1>1, ReadLs
    <2>2. Gone(Latest(ls[l])) \in LogSetObj
      BY <2>1 DEF Gone, LogSetObj, NoStores, Stores
    <2>3. ls' = ls \/ ls' = Put(ls, l, Gone(Latest(ls[l])))
      BY DEF FinalizeMarked
    <2> QED BY <1>1, <2>2, <2>3, PutTyped DEF LsOK
  <1>5. RestOK'
    <2>1. giving' = [giving EXCEPT ![l] = NONE]
      BY DEF FinalizeMarked
    <2> QED BY <1>1, <1>2, <2>1 DEF RestOK, Opt
  <1> QED BY <1>1, <1>2, <1>3, <1>4, <1>5, SameSts, PartsPrimed DEF PodsOK

(* Users, and the sets that use the bucket. *)
LEMMA UsersTyped ==
  ASSUME LogInv, NEW l \in LogSets,
         UserUpdates(l) \/ UserDeletes(l) \/ CNObserves(l) \/ CNDeleted(l) \/ CNFinalizes(l)
  PROVE  LogInv'
  <1>1. LsOK /\ StsOK /\ PodsOK /\ RestOK /\ bucket \in Buckets
    BY Parts
  <1>2. Latest(ls[l]) \in LogSetObj
    BY <1>1, ReadLs
  <1>3. StsOK' /\ PodsOK'
    <2>1. UNCHANGED <<sts, pods, own>>
      BY DEF UserUpdates, UserDeletes, CNObserves, CNDeleted, CNFinalizes
    <2> QED BY <1>1, <2>1, SameSts DEF PodsOK
  <1>4. <<"CN", l>> \in BucketUsers
    BY DEF BucketUsers
  <1>5. CASE UserUpdates(l)
    <2>1. /\ \A n \in LogShardReplicas .. MaxReplicas : [Latest(ls[l]) EXCEPT !.replicas = n] \in LogSetObj
          /\ [Latest(ls[l]) EXCEPT !.rev = 1] \in LogSetObj
      BY <1>2, LogSetAssumption DEF LogSetObj
    <2>2. /\ \E v \in LogSetObj : ls' = Put(ls, l, v)
          /\ UNCHANGED <<cn, giving, bucket, job>>
          /\ env.disturbances < MaxDisturbances /\ env' = [env EXCEPT !.disturbances = @ + 1]
      BY <1>5, <2>1 DEF UserUpdates
    <2>3. LsOK'
      BY <1>1, <2>2, PutTyped DEF LsOK
    <2>4. RestOK'
      BY <1>1, <2>2, LogSetAssumption DEF RestOK
    <2> QED BY <1>1, <1>3, <2>2, <2>3, <2>4, PartsPrimed
  <1>6. CASE UserDeletes(l)
    <2>1. [Latest(ls[l]) EXCEPT !.st = "deleting"] \in LogSetObj
      BY <1>2 DEF LogSetObj
    <2>2. LsOK'
      BY <1>1, <1>6, <2>1, PutTyped DEF LsOK, UserDeletes
    <2> QED BY <1>1, <1>3, <1>6, <2>2, SameRest, PartsPrimed DEF UserDeletes
  <1>7. CASE CNObserves(l)
    <2>1. bucket' \in Buckets
      BY <1>1, <1>4, <1>7, FinalizersTyped DEF CNObserves
    <2> QED BY <1>1, <1>3, <1>7, <2>1, SameRest, PartsPrimed DEF CNObserves, LsOK
  <1>8. CASE CNDeleted(l)
    <2>1. RestOK'
      BY <1>1, <1>8 DEF CNDeleted, RestOK
    <2> QED BY <1>1, <1>3, <1>8, <2>1, PartsPrimed DEF CNDeleted, LsOK
  <1>9. CASE CNFinalizes(l)
    <2>1. bucket' \in Buckets
      BY <1>1, <1>4, <1>9, FinalizersTyped DEF CNFinalizes
    <2>2. (cn' = cn \/ cn' = [cn EXCEPT ![l] = "gone"]) /\ UNCHANGED <<ls, giving, env, job>>
      BY <1>9 DEF CNFinalizes
    <2>3. RestOK'
      BY <1>1, <2>2 DEF RestOK
    <2> QED BY <1>1, <1>3, <2>1, <2>2, <2>3, PartsPrimed DEF LsOK
  <1> QED BY <1>5, <1>6, <1>7, <1>8, <1>9

(* Kubernetes, nodes and the clock. *)
LEMMA KubernetesTyped ==
  ASSUME LogInv, NEW l \in LogSets,
         \/ StatefulSetPods(l) \/ StatefulSetUpdated(l) \/ PodsStart(l) \/ PodFails(l)
         \/ StoreTimeout(l) \/ Deliver(l)
  PROVE  LogInv'
  <1>1. LsOK /\ StsOK /\ PodsOK /\ RestOK /\ bucket \in Buckets
    BY Parts
  <1>2. CASE StatefulSetPods(l) \/ PodsStart(l)
    <2>1. UNCHANGED <<ls, sts, own, cn, giving, env, bucket, job>>
      BY <1>2 DEF StatefulSetPods, PodsStart
    <2>2. pods' \in [LogSets -> [Ordinals -> PodStates]]
      BY <1>1, <1>2 DEF StatefulSetPods, PodsStart, PodsOK, PodStates
    <2> QED BY <1>1, <2>1, <2>2, SameSts, SameRest, PartsPrimed DEF PodsOK, LsOK
  <1>3. CASE StatefulSetUpdated(l)
    <2>1. Latest(sts[l]) \in StsObj /\ Cardinality(Latest(sts[l]).reserve) <= Limit
      BY <1>1, ReadSts
    <2>2. /\ [Latest(sts[l]) EXCEPT !.updated = TRUE] \in StsObj
          /\ [Latest(sts[l]) EXCEPT !.updated = TRUE].reserve = Latest(sts[l]).reserve
      BY <2>1 DEF StsObj
    <2>3. StsOK'
      BY <1>1, <1>3, <2>1, <2>2, PutSts DEF StatefulSetUpdated
    <2> QED BY <1>1, <1>3, <2>3, SameRest, PartsPrimed DEF StatefulSetUpdated, PodsOK, LsOK
  <1>4. CASE PodFails(l)
    <2>1. UNCHANGED <<ls, sts, own, cn, bucket, job>>
      BY <1>4 DEF PodFails
    <2>2. pods' \in [LogSets -> [Ordinals -> PodStates]]
      BY <1>1, <1>4 DEF PodFails, SetPod, PodsOK, PodStates
    <2>3. RestOK'
      BY <1>1, <1>4, LogSetAssumption DEF PodFails, RestOK
    <2> QED BY <1>1, <2>1, <2>2, <2>3, SameSts, PartsPrimed DEF PodsOK, LsOK
  <1>5. CASE StoreTimeout(l)
    <2>1. PICK o \in Ordinals : ls' = Put(ls, l, [Latest(ls[l]) EXCEPT !.stores[o] = "failed"])
      BY <1>5 DEF StoreTimeout
    <2>2. Latest(ls[l]) \in LogSetObj
      BY <1>1, ReadLs
    <2>3. [Latest(ls[l]) EXCEPT !.stores[o] = "failed"] \in LogSetObj
      BY <2>2 DEF LogSetObj, Stores
    <2>4. LsOK'
      BY <1>1, <2>1, <2>3, PutTyped DEF LsOK
    <2> QED BY <1>1, <1>5, <2>4, SameSts, SameRest, PartsPrimed DEF StoreTimeout, PodsOK
  <1>6. CASE Deliver(l)
    <2>1. UNCHANGED <<pods, own, cn, giving, env, job>>
      BY <1>6 DEF Deliver
    <2>2. ASSUME ~UpToDate(ls[l]), ls' = [ls EXCEPT ![l] = Tail(@)], UNCHANGED <<sts, bucket>>
          PROVE  LogInv'
      <3>1. ls[l] \in Logs(LogSetObj)
        BY <1>1 DEF LsOK
      <3>2. Len(ls[l]) > 1
        BY <3>1, <2>2, Behind
      <3>3. Tail(ls[l]) \in Logs(LogSetObj)
        BY <3>1, <3>2, DeliverLog
      <3>4. LsOK'
        BY <1>1, <2>2, <3>3 DEF LsOK
      <3> QED BY <1>1, <2>1, <2>2, <3>4, SameSts, SameRest, PartsPrimed DEF PodsOK
    <2>3. ASSUME ~UpToDate(sts[l]), sts' = [sts EXCEPT ![l] = Tail(@)], UNCHANGED <<ls, bucket>>
          PROVE  LogInv'
      <3>1. sts[l] \in Logs(StsObj)
        BY <1>1 DEF StsOK
      <3>2. Len(sts[l]) > 1
        BY <3>1, <2>3, Behind
      <3>3. Tail(sts[l]) \in Logs(StsObj) /\ Versions(Tail(sts[l])) \subseteq Versions(sts[l])
        BY <3>1, <3>2, DeliverLog, DeliverVersions
      <3>4. StsOK'
        BY <1>1, <2>3, <3>3 DEF StsOK, ReservedMinority, Limit
      <3> QED BY <1>1, <2>1, <2>3, <3>4, SameRest, PartsPrimed DEF PodsOK, LsOK
    <2>4. ASSUME DeliverBucket(l), UNCHANGED <<ls, sts>>
          PROVE  LogInv'
      <3>1. bucket[l] \in Logs(BucketClaim)
        BY <1>1 DEF Buckets
      <3>2. Len(bucket[l]) > 1
        BY <3>1, <2>4, Behind DEF DeliverBucket
      <3>3. Tail(bucket[l]) \in Logs(BucketClaim)
        BY <3>1, <3>2, DeliverLog
      <3>4. bucket' \in Buckets
        BY <1>1, <2>4, <3>3 DEF DeliverBucket, Buckets
      <3> QED BY <1>1, <2>1, <2>4, <3>4, SameSts, SameRest, PartsPrimed DEF PodsOK, LsOK
    <2> QED BY <1>6, <2>2, <2>3, <2>4 DEF Deliver
  <1> QED BY <1>2, <1>3, <1>4, <1>5, <1>6

LEMMA BucketStepTyped ==
  ASSUME LogInv, BucketController \/ UserDeletesClaim
  PROVE  LogInv'
  <1>1. LsOK /\ StsOK /\ PodsOK /\ RestOK /\ bucket \in Buckets /\ BucketTypeOK
    BY Parts DEF LogInv, TypeOK
  <1>2. BucketTypeOK'
    BY <1>1, BucketControllerTyped DEF BucketController, UserDeletesClaim
  <1>3. UNCHANGED <<ls, sts, pods, own, cn, giving, env>>
    BY DEF BucketController, UserDeletesClaim
  <1> QED BY <1>1, <1>2, <1>3, SameSts, PartsPrimed DEF BucketTypeOK, Buckets, LsOK, PodsOK, RestOK

-----------------------------------------------------------------------------

LEMMA LogInductive == LogInv /\ [Next]_vars => LogInv'
  <1> SUFFICES ASSUME LogInv, [Next]_vars PROVE LogInv'
    OBVIOUS
  <1>1. CASE UNCHANGED vars
    <2>1. LsOK /\ StsOK /\ PodsOK /\ RestOK /\ bucket \in Buckets
      BY Parts
    <2> QED BY <1>1, <2>1, SameSts, SameRest, PartsPrimed DEF vars, LsOK, PodsOK
  <1>2. CASE BucketController \/ UserDeletesClaim
    BY <1>2, BucketStepTyped
  <1>3. ASSUME NEW l \in LogSets, Observe(l) \/ Finalize(l) \/ FinalizeMarked(l)
        PROVE  LogInv'
    BY <1>3, ObserveTyped, FinalizeTyped, FinalizeMarkedTyped
  <1>4. ASSUME NEW l \in LogSets,
               UserUpdates(l) \/ UserDeletes(l) \/ CNObserves(l) \/ CNDeleted(l) \/ CNFinalizes(l)
        PROVE  LogInv'
    BY <1>4, UsersTyped
  <1>5. ASSUME NEW l \in LogSets,
               \/ StatefulSetPods(l) \/ StatefulSetUpdated(l) \/ PodsStart(l) \/ PodFails(l)
               \/ StoreTimeout(l) \/ Deliver(l)
        PROVE  LogInv'
    BY <1>5, KubernetesTyped
  <1> QED BY <1>1, <1>2, <1>3, <1>4, <1>5 DEF Next

LEMMA InitLog == Init => LogInv
  <1> SUFFICES ASSUME Init PROVE LogInv
    OBVIOUS
  <1>1. LsOK
    <2>1. ASSUME NEW x \in {"live", "none"}
          PROVE  <<[NewLogSet(LogShardReplicas) EXCEPT !.st = x]>> \in Logs(LogSetObj)
      <3> DEFINE r == NewLogSet(LogShardReplicas)
      <3>0. NoStores \in [Ordinals -> Stores] /\ NONE \in Opt(SUBSET Ordinals)
        BY DEF NoStores, Stores, Opt
      <3>2. r \in LogSetObj
        BY <3>0, LogSetAssumption DEF NewLogSet, LogSetObj
      <3> HIDE DEF r
      <3>3. [r EXCEPT !.st = x] \in LogSetObj
        BY <3>2 DEF LogSetObj
      <3>1. [NewLogSet(LogShardReplicas) EXCEPT !.st = x] \in LogSetObj
        BY <3>3 DEF r
      <3> QED BY <3>1, FreshLog
    <2> QED BY <2>1 DEF Init, LsOK
  <1>2. StsOK
    <2>1. <<NoSts>> \in Logs(StsObj) /\ Versions(<<NoSts>>) = {NoSts}
      BY FreshLog, FreshVersions, FreshSts
    <2> QED BY <2>1, FreshSts DEF Init, StsOK, ReservedMinority
  <1>3. PodsOK
    BY DEF Init, PodsOK, NoPods, PodStates, NoOwn, OwnObj, Opt
  <1>4. RestOK
    BY LogSetAssumption DEF Init, RestOK, Jobs, Opt
  <1>5. bucket \in Buckets
    <2>1. NoBucket \in BucketClaim
      BY DEF NoBucket, BucketClaim, Opt
    <2>2. <<NoBucket>> \in Logs(BucketClaim)
      BY <2>1, FreshLog
    <2> QED BY <2>2 DEF Init, Buckets
  <1> QED BY <1>1, <1>2, <1>3, <1>4, <1>5, Parts

(* Every object of the log service is well typed in every version, the status, the
   config maps and the bucket claims included, whatever calls fail
   (src/pkg/controllers/logset/controller.go:71-310). *)
THEOREM LogSetTypeCorrect == Spec => []TypeOK
  <1>1. LogInv => TypeOK
    BY DEF LogInv
  <1> QED BY <1>1, InitLog, LogInductive, PTL DEF Spec

(* The failover never reserves more than a minority of the replicas of a log shard,
   in no version of the StatefulSet, although it counts on a cached copy and retries
   after conflicts (src/pkg/controllers/logset/controller.go:228: "only minority
   failover can be safely automated"). *)
THEOREM FailoverStaysMinority == Spec => []ReservedMinority
  <1>1. LogInv => ReservedMinority
    BY DEF LogInv
  <1> QED BY <1>1, InitLog, LogInductive, PTL DEF Spec

-----------------------------------------------------------------------------
(* What is decided once *)

Bootstrapped == {o \in Ordinals : o < LogShardReplicas}

Ending == {c \in LogSetObj : c.st \in {"deleting", "gone"}}
Decided == {c \in LogSetObj : c.boot # NONE}

(* No later version takes back what an earlier one has in D. *)
Lasting(log, D) == \A k, l \in 1 .. Len(log) : k <= l /\ log[k] \in D => log[l] \in D

(* A LogSet that is deleted stays deleted, and the members who bootstrap are decided
   once, in every version that is under way. *)
LsKept(log) ==
  /\ log \in Logs(LogSetObj)
  /\ Lasting(log, Ending)
  /\ Lasting(log, Decided)
  /\ \A v \in Versions(log) : v.boot \in {NONE, Bootstrapped}

(* What a step other than the end of the LogSet does to its versions. *)
After(log, new) ==
  /\ LsKept(new)
  /\ Latest(log).boot # NONE => Latest(new).boot # NONE
  /\ Versions(log) \subseteq Ending => Versions(new) \subseteq Ending
  /\ Latest(new).st = "gone" => Latest(log).st = "gone"

LEMMA BootstrappedIsSet == Bootstrapped \in SUBSET Ordinals /\ Bootstrapped # NONE
  BY LogSetAssumption DEF Bootstrapped

LEMMA AfterSame ==
  ASSUME NEW log, LsKept(log)
  PROVE  After(log, log)
  BY DEF After

LEMMA AfterWrite ==
  ASSUME NEW log, LsKept(log), NEW v \in LogSetObj,
         v.boot \in {Latest(log).boot, Bootstrapped},
         v.st = Latest(log).st \/ (Latest(log).st = "live" /\ v.st = "deleting")
  PROVE  After(log, Write(log, v))
  <1> DEFINE new == Write(log, v)
  <1>1. log \in Logs(LogSetObj) /\ new \in Logs(LogSetObj) /\ Latest(new) = v
    BY WriteLog DEF LsKept
  <1>2. Latest(log) \in LogSetObj /\ Latest(log) \in Versions(log)
    BY <1>1, LogEnds, EndVersions
  <1>3. Versions(new) \subseteq Versions(log) \cup {v}
    BY <1>1, WriteVersions
  <1>4. (Latest(log) \in Ending => v \in Ending) /\ (Latest(log) \in Decided => v \in Decided)
    BY <1>2, BootstrappedIsSet DEF Ending, Decided
  <1>5. Lasting(log, Ending) /\ Lasting(log, Decided)
    BY DEF LsKept
  <1>6. Lasting(new, Ending)
    BY <1>1, <1>4, <1>5, WriteOrdered DEF Lasting
  <1>7. Lasting(new, Decided)
    BY <1>1, <1>4, <1>5, WriteOrdered DEF Lasting
  <1>8. v.boot \in {NONE, Bootstrapped}
    BY <1>2 DEF LsKept
  <1>9. LsKept(new)
    BY <1>1, <1>3, <1>6, <1>7, <1>8 DEF LsKept
  <1>10. Latest(log).boot # NONE => v.boot # NONE
    BY BootstrappedIsSet
  <1>11. Versions(log) \subseteq Ending => Versions(new) \subseteq Ending
    BY <1>2, <1>3, <1>4
  <1> HIDE DEF new
  <1> QED BY <1>1, <1>9, <1>10, <1>11 DEF After, new

LEMMA AfterDeliver ==
  ASSUME NEW log, LsKept(log), Len(log) > 1
  PROVE  After(log, Tail(log))
  <1>1. log \in Logs(LogSetObj)
    BY DEF LsKept
  <1>2. Tail(log) \in Logs(LogSetObj) /\ Latest(Tail(log)) = Latest(log)
        /\ Versions(Tail(log)) \subseteq Versions(log)
    BY <1>1, DeliverLog, DeliverVersions
  <1>3. Lasting(Tail(log), Ending)
    BY <1>1, DeliverOrdered DEF Lasting, LsKept
  <1>4. Lasting(Tail(log), Decided)
    BY <1>1, DeliverOrdered DEF Lasting, LsKept
  <1> QED BY <1>2, <1>3, <1>4 DEF After, LsKept

(* What the cache shows lasts: of a LogSet that it shows deleted every version is. *)
LEMMA CachedLasts ==
  ASSUME NEW log, LsKept(log)
  PROVE  /\ Cached(log) \in Ending => Versions(log) \subseteq Ending
         /\ Cached(log).boot # NONE => Latest(log).boot # NONE
  <1>1. log \in Logs(LogSetObj) /\ Len(log) \in Nat \ {0} /\ Cached(log) \in LogSetObj
    BY LogEnds DEF LsKept
  <1>2. 1 \in 1 .. Len(log) /\ Len(log) \in 1 .. Len(log) /\ \A i \in 1 .. Len(log) : 1 <= i
    BY <1>1
  <1>3. Cached(log) \in Ending => Versions(log) \subseteq Ending
    BY <1>2 DEF Cached, Versions, LsKept, Lasting
  <1>4. Cached(log) \in Decided => Latest(log) \in Decided
    BY <1>2 DEF Cached, Latest, LsKept, Lasting
  <1> QED BY <1>1, <1>3, <1>4 DEF Decided

(* The status that Observe makes keeps the rest of the LogSet. *)
LEMMA ObservedKeeps ==
  ASSUME NEW c \in LogSetObj, NEW list
  PROVE  /\ ObservedStatus(c, list).st = c.st
         /\ ObservedStatus(c, list).boot = c.boot
  BY DEF ObservedStatus, LogSetObj

LEMMA AfterSaved ==
  ASSUME LsOK, NEW l \in LogSets, LsKept(ls[l]), NEW c \in LogSetObj,
         c.st = Cached(ls[l]).st, c.boot = Cached(ls[l]).boot, SaveStatus(l, c)
  PROVE  After(ls[l], ls'[l]) /\ \A m \in LogSets \ {l} : ls'[m] = ls[m]
  <1>1. CASE ls' = ls
    BY <1>1, AfterSame
  <1>2. CASE ls' # ls
    <2>1. UpToDate(ls[l]) /\ ls' = [ls EXCEPT ![l] = Write(@, c)]
      BY <1>2 DEF SaveStatus
    <2>2. Cached(ls[l]) = Latest(ls[l])
      BY <2>1, EndVersions DEF LsOK
    <2>3. ls'[l] = Write(ls[l], c) /\ \A m \in LogSets \ {l} : ls'[m] = ls[m]
      BY <2>1 DEF LsOK
    <2> QED BY <2>2, <2>3, AfterWrite
  <1> QED BY <1>1, <1>2

-----------------------------------------------------------------------------
(* The members of the log service, and its end *)

(* Without faults the gossip map names the pods that the StatefulSet is to have;
   where there is no StatefulSet there is no map yet, or the LogSet ends. *)
GossipKept(l) ==
  IF Latest(sts[l]).st = "live" THEN own[l].gossip = gossipSeeds(Latest(sts[l]))
  ELSE own[l].gossip = NONE \/ Versions(ls[l]) \subseteq Ending

BootKept(l) == own[l].boot # NONE => own[l].boot = Bootstrapped /\ Latest(ls[l]).boot # NONE

(* A LogSet that is gone, or has only the claim to delete before it goes. *)
EndKept(l) ==
  Latest(ls[l]).st = "gone" \/ giving[l] # NONE =>
    /\ Versions(ls[l]) \subseteq Ending
    /\ Latest(sts[l]).st = "none"
    /\ OrphanPods(pods[l]) = {}

Kept(l) ==
  /\ LsKept(ls[l])
  /\ BootKept(l)
  /\ EndKept(l)
  /\ ~May("rpc") => GossipKept(l)

MembersInv == LogInv /\ \A l \in LogSets : Kept(l)

(* A step about one LogSet leaves the others as they are. *)
LEMMA OneLogSet ==
  ASSUME MembersInv, NEW l \in LogSets, env'.may = env.may,
         \A m \in LogSets \ {l} : /\ ls'[m] = ls[m] /\ sts'[m] = sts[m]
                                  /\ pods'[m] = pods[m] /\ own'[m] = own[m],
         \A m \in LogSets \ {l} : giving'[m] = giving[m],
         Kept(l)'
  PROVE  \A m \in LogSets : Kept(m)'
  <1>1. ASSUME NEW m \in LogSets \ {l}
        PROVE  Kept(m)'
    BY <1>1 DEF MembersInv, Kept, BootKept, EndKept, GossipKept, May, OrphanPods
  <1> QED BY <1>1

(* A step that leaves the maps and the pods of the StatefulSet as they are. *)
LEMMA KeptAfter ==
  ASSUME NEW l \in LogSets, Kept(l), After(ls[l], ls'[l]), env'.may = env.may,
         giving' = giving, Latest(sts'[l]).st = Latest(sts[l]).st,
         gossipSeeds(Latest(sts'[l])) = gossipSeeds(Latest(sts[l])),
         own'[l].boot = own[l].boot, own'[l].gossip = own[l].gossip,
         OrphanPods(pods'[l]) \subseteq OrphanPods(pods[l])
  PROVE  Kept(l)'
  <1>1. LsKept(ls'[l]) /\ BootKept(l)'
    BY DEF After, Kept, BootKept
  <1>2. EndKept(l)'
    BY DEF After, Kept, EndKept
  <1>3. ~May("rpc") => GossipKept(l)'
    BY DEF After, Kept, GossipKept
  <1> QED BY <1>1, <1>2, <1>3 DEF Kept, May

(* A LogSet that the cache shows live is not gone. *)
LEMMA KeptLive ==
  ASSUME NEW l \in LogSets, Kept(l), Cached(ls[l]).st = "live", After(ls[l], ls'[l]), env'.may = env.may,
         giving' = giving, BootKept(l)', ~May("rpc") => GossipKept(l)'
  PROVE  Kept(l)'
  <1>1. Latest(ls[l]).st # "gone" /\ giving[l] = NONE
    <2>1. Cached(ls[l]) \in Versions(ls[l])
      BY EndVersions DEF Kept, LsKept
    <2>2. Cached(ls[l]) \notin Ending
      BY DEF Ending
    <2> QED BY <2>1, <2>2 DEF Kept, EndKept
  <1>2. EndKept(l)'
    BY <1>1 DEF After, EndKept
  <1> QED BY <1>2 DEF Kept, After, May

LEMMA WithoutFaults ==
  ASSUME ~May("rpc"), NEW n \in Nat
  PROVE  Calls(n) = {n}
  BY DEF Calls

(* What a write to one of the LogSets does. *)
LEMMA PutOne ==
  ASSUME NEW T, NEW f \in [LogSets -> Logs(T)], NEW l \in LogSets, NEW v \in T
  PROVE  /\ Put(f, l, v)[l] = Write(f[l], v)
         /\ Latest(Put(f, l, v)[l]) = v
         /\ \A m \in LogSets \ {l} : Put(f, l, v)[m] = f[m]
  <1>1. f[l] \in Logs(T)
    OBVIOUS
  <1>2. Latest(Write(f[l], v)) = v
    BY <1>1, WriteLog
  <1> QED BY <1>2 DEF Put

(* Create: the map of the members who bootstrap is made only after the decision is
   stored, and the gossip map only with the StatefulSet. *)
LEMMA CreateKeeps ==
  ASSUME MembersInv, NEW l \in LogSets, Create(l), Cached(ls[l]).st = "live", env' = env,
         giving' = giving
  PROVE  \A m \in LogSets : Kept(m)'
  <1> DEFINE c == bootstrap(Cached(ls[l]))
             new == buildStatefulSet(c)
             all == {"boot", "gossip", "headless", "sts", "discovery"}
             stored == Cached(ls[l]).boot # NONE \/ UpToDate(ls[l])
  <1>1. LsOK /\ StsOK /\ PodsOK /\ Kept(l)
    BY Parts DEF MembersInv
  <1>2. Cached(ls[l]) \in LogSetObj /\ ls[l] \in Logs(LogSetObj) /\ LsKept(ls[l])
    BY <1>1, ReadLs DEF LsOK, Kept
  <1>3. /\ c \in LogSetObj /\ c.st = "live" /\ c.boot = Bootstrapped
        /\ c.replicas = Cached(ls[l]).replicas
    <2>1. Cached(ls[l]).boot \in {NONE, Bootstrapped}
      BY <1>2, EndVersions DEF LsKept
    <2>2. CASE Cached(ls[l]).boot # NONE
      BY <1>2, <2>1, <2>2 DEF bootstrap
    <2>3. CASE Cached(ls[l]).boot = NONE
      <3>1. c = [Cached(ls[l]) EXCEPT !.boot = Bootstrapped]
        BY <2>3 DEF bootstrap, Bootstrapped
      <3>2. Bootstrapped \in Opt(SUBSET Ordinals)
        BY BootstrappedIsSet DEF Opt
      <3> HIDE DEF c
      <3> QED BY <1>2, <3>1, <3>2 DEF LogSetObj
    <2> QED BY <2>2, <2>3
  <1>4. PICK made \in (IF May("rpc") THEN SUBSET all ELSE {all}), decided \in Calls(1) :
          /\ ls' = IF decided = 1 /\ stored /\ UpToDate(ls[l]) THEN Put(ls, l, c) ELSE ls
          /\ IF decided = 0 \/ ~stored THEN UNCHANGED <<own, sts>>
             ELSE /\ own' = [own EXCEPT
                       ![l].boot = IF "boot" \in made THEN Default(@, c.boot) ELSE @,
                       ![l].gossip =
                         IF "gossip" \in made THEN Default(@, gossipSeeds(new)) ELSE @,
                       ![l].svcs = @ \cup (made \cap {"headless", "discovery"})]
                  /\ sts' = IF "sts" \in made /\ Latest(sts[l]).st = "none"
                            THEN Put(sts, l, new) ELSE sts
          /\ UNCHANGED pods
    BY DEF Create
  <1>5. decided \in {0, 1}
    BY DEF Calls
  <1>6. new \in StsObj /\ new.st = "live" /\ gossipSeeds(new) # NONE
    <2>1. new \in StsObj
      BY <1>3, FreshSts
    <2>2. new.st = "live"
      BY DEF buildStatefulSet
    <2>3. gossipSeeds(new) # NONE
      BY SeedsTyped, LogSetAssumption
    <2> QED BY <2>1, <2>2, <2>3
  <1> HIDE DEF c, new, stored, all
  <1>7. After(ls[l], ls'[l]) /\ \A m \in LogSets \ {l} : ls'[m] = ls[m]
    <2>1. CASE ls' = ls
      BY <1>2, <2>1, AfterSame
    <2>2. CASE ls' # ls
      <3>1. UpToDate(ls[l]) /\ ls' = Put(ls, l, c)
        BY <1>4, <2>2
      <3>2. Cached(ls[l]) = Latest(ls[l])
        BY <1>2, <3>1, EndVersions
      <3>3. ls'[l] = Write(ls[l], c) /\ \A m \in LogSets \ {l} : ls'[m] = ls[m]
        BY <1>1, <1>3, <3>1, PutOne DEF LsOK
      <3>4. After(ls[l], Write(ls[l], c))
        BY <1>2, <1>3, <3>2, AfterWrite
      <3> QED BY <3>3, <3>4
    <2> QED BY <2>1, <2>2
  <1>8. CASE decided = 0 \/ ~stored
    <2>1. UNCHANGED <<own, sts, pods>>
      BY <1>4, <1>8
    <2>2. Kept(l)'
      BY <1>1, <1>7, <2>1, KeptAfter
    <2> QED BY <1>7, <2>1, <2>2, OneLogSet
  <1>9. CASE decided = 1 /\ stored
    <2> DEFINE r == [own[l] EXCEPT
                       !.boot = IF "boot" \in made THEN Default(@, c.boot) ELSE @,
                       !.gossip = IF "gossip" \in made THEN Default(@, gossipSeeds(new)) ELSE @,
                       !.svcs = @ \cup (made \cap {"headless", "discovery"})]
    <2>1. own[l] \in OwnObj /\ own \in [LogSets -> OwnObj]
      BY <1>1 DEF PodsOK
    <2>2. own' = [own EXCEPT ![l] = r]
      <3>1. own' = [own EXCEPT
                      ![l].boot = IF "boot" \in made THEN Default(@, c.boot) ELSE @,
                      ![l].gossip = IF "gossip" \in made THEN Default(@, gossipSeeds(new)) ELSE @,
                      ![l].svcs = @ \cup (made \cap {"headless", "discovery"})]
        BY <1>4, <1>9
      <3> QED BY <2>1, <3>1
    <2>3. /\ r.boot = IF "boot" \in made THEN Default(own[l].boot, c.boot) ELSE own[l].boot
          /\ r.gossip = IF "gossip" \in made THEN Default(own[l].gossip, gossipSeeds(new)) ELSE own[l].gossip
      BY <2>1 DEF OwnObj
    <2> HIDE DEF r
    <2>4. own'[l] = r /\ \A m \in LogSets \ {l} : own'[m] = own[m]
      BY <2>1, <2>2
    <2>5. sts' = IF "sts" \in made /\ Latest(sts[l]).st = "none" THEN Put(sts, l, new) ELSE sts
      BY <1>4, <1>9
    <2>6. Latest(ls'[l]).boot # NONE
      <3>1. CASE Cached(ls[l]).boot # NONE
        BY <1>2, <1>7, <3>1, CachedLasts DEF After
      <3>2. CASE Cached(ls[l]).boot = NONE
        <4>1. ls' = Put(ls, l, c)
          BY <1>4, <1>9, <3>2 DEF stored
        <4>2. Latest(ls'[l]) = c
          BY <1>1, <1>3, <4>1, PutOne DEF LsOK
        <4> QED BY <1>3, <4>2, BootstrappedIsSet
      <3> QED BY <3>1, <3>2
    <2>7. BootKept(l)'
      <3>1. own'[l].boot \in {own[l].boot, Bootstrapped}
        BY <1>3, <2>3, <2>4 DEF Default
      <3> QED BY <1>1, <2>6, <3>1 DEF BootKept, Kept
    <2>8. ASSUME ~May("rpc")
          PROVE  GossipKept(l)'
      <3>1. "gossip" \in made /\ "sts" \in made
        BY <1>4, <2>8 DEF all
      <3>2. own'[l].gossip = Default(own[l].gossip, gossipSeeds(new))
        BY <2>3, <2>4, <3>1
      <3>3. GossipKept(l) /\ Latest(sts[l]) \in StsObj
        BY <1>1, <2>8, ReadSts DEF Kept
      <3>4. CASE Latest(sts[l]).st = "none"
        <4>1. sts' = Put(sts, l, new)
          BY <2>5, <3>1, <3>4
        <4>2. Latest(sts'[l]) = new
          BY <1>1, <1>6, <4>1, PutOne DEF StsOK
        <4>3. ~(Versions(ls[l]) \subseteq Ending)
          BY <1>2, EndVersions DEF Ending
        <4>4. own[l].gossip = NONE
          BY <3>3, <3>4, <4>3 DEF GossipKept
        <4> QED BY <1>6, <3>2, <4>2, <4>4 DEF GossipKept, Default
      <3>5. CASE Latest(sts[l]).st = "live"
        <4>1. sts' = sts
          BY <2>5, <3>5
        <4>2. own[l].gossip = gossipSeeds(Latest(sts[l])) /\ own[l].gossip # NONE
          BY <3>3, <3>5, SeedsTyped, LogSetAssumption DEF GossipKept
        <4>3. own'[l].gossip = own[l].gossip
          BY <3>2, <4>2 DEF Default
        <4> QED BY <3>5, <4>1, <4>2, <4>3 DEF GossipKept
      <3> QED BY <3>3, <3>4, <3>5 DEF StsObj
    <2>9. Kept(l)'
      BY <1>1, <1>7, <2>7, <2>8, KeptLive
    <2>10. \A m \in LogSets \ {l} : sts'[m] = sts[m]
      BY <1>1, <1>6, <2>5, PutOne DEF StsOK
    <2>11. pods' = pods
      BY <1>4
    <2> QED BY <1>7, <2>4, <2>9, <2>10, <2>11, OneLogSet
  <1> QED BY <1>5, <1>8, <1>9

(* The gossip map follows a StatefulSet that is written, in the same look. *)
LEMMA GossipFollowsWrite ==
  ASSUME MembersInv, NEW l \in LogSets, NEW s \in StsObj, s.st = "live", env' = env, giving' = giving,
         Cached(ls[l]).st = "live", After(ls[l], ls'[l]),
         \A m \in LogSets \ {l} : ls'[m] = ls[m] /\ pods'[m] = pods[m],
         sts' = Put(sts, l, s) \/ sts' = sts,
         own' = updateGossipConfig(l, s) \/ own' = own,
         ~May("rpc") => \/ sts' = Put(sts, l, s) /\ own' = updateGossipConfig(l, s)
                        \/ sts' = sts /\ own' = own
  PROVE  \A m \in LogSets : Kept(m)'
  <1>1. StsOK /\ PodsOK /\ Kept(l)
    BY Parts DEF MembersInv
  <1>2. \A m \in LogSets \ {l} : sts'[m] = sts[m]
    BY <1>1, PutOne DEF StsOK
  <1>3. own'[l].boot = own[l].boot /\ \A m \in LogSets \ {l} : own'[m] = own[m]
    BY <1>1 DEF updateGossipConfig, PodsOK, OwnObj
  <1>4. BootKept(l)'
    BY <1>1, <1>3 DEF Kept, BootKept, After
  <1>5. ASSUME ~May("rpc")
        PROVE  GossipKept(l)'
    <2>1. CASE sts' = sts /\ own' = own
      BY <1>1, <1>5, <2>1 DEF Kept, GossipKept, After
    <2>2. CASE sts' = Put(sts, l, s) /\ own' = updateGossipConfig(l, s)
      <3>1. Latest(sts'[l]) = s
        BY <1>1, <2>2, PutOne DEF StsOK
      <3>2. own'[l].gossip = gossipSeeds(s)
        BY <1>1, <2>2 DEF updateGossipConfig, PodsOK, OwnObj
      <3> QED BY <3>1, <3>2 DEF GossipKept
    <2> QED BY <1>5, <2>1, <2>2
  <1>6. Kept(l)'
    BY <1>1, <1>4, <1>5, KeptLive
  <1> QED BY <1>2, <1>3, <1>6, OneLogSet

LEMMA ScaleKeeps ==
  ASSUME MembersInv, NEW l \in LogSets, NEW c \in LogSetObj, Scale(l, c), env' = env, giving' = giving,
         c.st = Cached(ls[l]).st, c.boot = Cached(ls[l]).boot, Cached(ls[l]).st = "live"
  PROVE  \A m \in LogSets : Kept(m)'
  <1> DEFINE s == [Latest(sts[l]) EXCEPT !.replicas = c.replicas, !.updated = FALSE]
  <1>1. LsOK /\ StsOK /\ PodsOK /\ LsKept(ls[l])
    BY Parts DEF MembersInv, Kept
  <1>2. PICK n \in Calls(2) :
          /\ Latest(sts[l]).st = "live"
          /\ sts' = IF n >= 1 THEN Put(sts, l, s) ELSE sts
          /\ own' = IF n >= 2 THEN updateGossipConfig(l, s) ELSE own
          /\ SaveStatus(l, c)
          /\ UNCHANGED pods
    BY DEF Scale
  <1>3. s \in StsObj /\ s.st = "live"
    <2>1. Latest(sts[l]) \in StsObj
      BY <1>1, ReadSts
    <2> QED BY <1>2, <2>1 DEF StsObj, LogSetObj
  <1> HIDE DEF s
  <1>4. After(ls[l], ls'[l]) /\ \A m \in LogSets \ {l} : ls'[m] = ls[m]
    BY <1>1, <1>2, AfterSaved
  <1>5. ~May("rpc") => n = 2
    BY WithoutFaults
  <1> QED BY <1>2, <1>3, <1>4, <1>5, GossipFollowsWrite

LEMMA RepairKeeps ==
  ASSUME MembersInv, NEW l \in LogSets, NEW c \in LogSetObj, Repair(l, c), env' = env, giving' = giving,
         c.st = Cached(ls[l]).st, c.boot = Cached(ls[l]).boot, Cached(ls[l]).st = "live",
         Cached(sts[l]).st = "live"
  PROVE  \A m \in LogSets : Kept(m)'
  <1> DEFINE s == Cached(sts[l])
             next(o) == [s EXCEPT !.reserve = @ \cup {o}, !.updated = FALSE]
  <1>1. LsOK /\ StsOK /\ PodsOK /\ Kept(l)
    BY Parts DEF MembersInv
  <1>2. SaveStatus(l, c)
    BY DEF Repair
  <1>3. After(ls[l], ls'[l]) /\ \A m \in LogSets \ {l} : ls'[m] = ls[m]
    BY <1>1, <1>2, AfterSaved DEF Kept
  <1>4. CASE UNCHANGED <<sts, pods, own>>
    <2>1. Kept(l)'
      BY <1>1, <1>3, <1>4, KeptAfter
    <2> QED BY <1>3, <1>4, <2>1, OneLogSet
  <1>5. CASE ~UNCHANGED <<sts, pods, own>>
    <2>1. PICK o \in StoresFailedFor(c.stores), n \in Calls(3) :
            LET gone == May("Orphan") /\ pods[l][o] = "none"
                current == UpToDate(sts[l])
            IN /\ pods' = IF May("Orphan") /\ n >= 1 /\ ~gone
                          THEN [pods EXCEPT ![l][o] = "orphan"] ELSE pods
               /\ sts' = IF n >= 2 /\ current /\ ~gone THEN Put(sts, l, next(o)) ELSE sts
               /\ own' = IF n >= 3 /\ current /\ ~gone
                         THEN updateGossipConfig(l, next(o)) ELSE own
      BY <1>5 DEF Repair
    <2>2. next(o) \in StsObj /\ next(o).st = "live"
      <3>1. s \in StsObj /\ o \in Ordinals
        BY <1>1, ReadSts DEF StoresFailedFor
      <3> QED BY <3>1 DEF StsObj
    <2> HIDE DEF next, s
    <2>3. ~May("rpc") => n = 3
      BY WithoutFaults
    <2>4. \A m \in LogSets \ {l} : pods'[m] = pods[m]
      BY <1>1, <2>1 DEF PodsOK
    <2> QED BY <1>3, <2>1, <2>2, <2>3, <2>4, GossipFollowsWrite
  <1> QED BY <1>4, <1>5

LEMMA UpdateKeeps ==
  ASSUME MembersInv, NEW l \in LogSets, NEW c \in LogSetObj, Update(l, c), env' = env, giving' = giving,
         c.st = Cached(ls[l]).st, c.boot = Cached(ls[l]).boot
  PROVE  \A m \in LogSets : Kept(m)'
  <1> DEFINE s == [Cached(sts[l]) EXCEPT !.rev = c.rev, !.updated = FALSE]
  <1>1. LsOK /\ StsOK /\ PodsOK /\ Kept(l) /\ sts[l] \in Logs(StsObj)
    BY Parts DEF MembersInv, StsOK
  <1>2. /\ sts' = sts \/ (UpToDate(sts[l]) /\ sts' = Put(sts, l, s))
        /\ SaveStatus(l, c)
        /\ UNCHANGED <<pods, own>>
    BY DEF Update
  <1>3. After(ls[l], ls'[l]) /\ \A m \in LogSets \ {l} : ls'[m] = ls[m]
    BY <1>1, <1>2, AfterSaved DEF Kept
  <1>4. s \in StsObj /\ s.st = Cached(sts[l]).st /\ gossipSeeds(s) = gossipSeeds(Cached(sts[l]))
    <2>1. Cached(sts[l]) \in StsObj
      BY <1>1, ReadSts
    <2>2. s \in StsObj /\ s.st = Cached(sts[l]).st /\ s.replicas = Cached(sts[l]).replicas
          /\ s.reserve = Cached(sts[l]).reserve
      BY <2>1 DEF StsObj, LogSetObj
    <2> QED BY <2>2 DEF gossipSeeds
  <1> HIDE DEF s
  <1>5. UpToDate(sts[l]) => Cached(sts[l]) = Latest(sts[l])
    BY <1>1, EndVersions
  <1>6. sts' = Put(sts, l, s) => Latest(sts'[l]) = s /\ \A m \in LogSets \ {l} : sts'[m] = sts[m]
    BY <1>1, <1>4, PutOne DEF StsOK
  <1>7. /\ Latest(sts'[l]).st = Latest(sts[l]).st
        /\ gossipSeeds(Latest(sts'[l])) = gossipSeeds(Latest(sts[l]))
        /\ \A m \in LogSets \ {l} : sts'[m] = sts[m]
    BY <1>2, <1>4, <1>5, <1>6
  <1>8. Kept(l)'
    BY <1>1, <1>2, <1>3, <1>7, KeptAfter
  <1> QED BY <1>2, <1>3, <1>7, <1>8, OneLogSet

LEMMA ObserveKeeps ==
  ASSUME MembersInv, NEW l \in LogSets, Observe(l)
  PROVE  \A m \in LogSets : Kept(m)'
  <1> DEFINE c == ObservedStatus(Cached(ls[l]), pods[l])
  <1>1. LsOK /\ StsOK /\ PodsOK /\ Kept(l)
    BY Parts DEF MembersInv
  <1>2. /\ c \in LogSetObj
        /\ c.st = Cached(ls[l]).st
        /\ c.boot = Cached(ls[l]).boot
    <2>1. Cached(ls[l]) \in LogSetObj /\ pods[l] \in [Ordinals -> PodStates]
      BY <1>1, ReadLs DEF PodsOK
    <2> QED BY <2>1, ObservedTyped, ObservedKeeps
  <1>3. Cached(ls[l]).st = "live" /\ env' = env /\ giving' = giving
    BY DEF Observe
  <1>4. \/ Create(l)
        \/ Cached(sts[l]).st = "live" /\ Repair(l, c)
        \/ Scale(l, c) \/ Update(l, c) \/ ObserveRest(l, c)
    BY DEF Observe, Found
  <1> HIDE DEF c
  <1>5. CASE ObserveRest(l, c)
    <2>1. /\ own' = own \/ own' = [own EXCEPT ![l].svcs = @ \cup {"metric"}]
          /\ SaveStatus(l, c)
          /\ UNCHANGED <<sts, pods>>
      BY <1>5 DEF ObserveRest
    <2>2. /\ own'[l].boot = own[l].boot /\ own'[l].gossip = own[l].gossip
          /\ \A m \in LogSets \ {l} : own'[m] = own[m]
      BY <1>1, <2>1 DEF PodsOK, OwnObj
    <2>3. After(ls[l], ls'[l]) /\ \A m \in LogSets \ {l} : ls'[m] = ls[m]
      BY <1>1, <1>2, <2>1, AfterSaved DEF Kept
    <2>4. Kept(l)'
      BY <1>1, <1>3, <2>1, <2>2, <2>3, KeptAfter
    <2> QED BY <1>3, <2>1, <2>2, <2>3, <2>4, OneLogSet
  <1> QED BY <1>2, <1>3, <1>4, <1>5, CreateKeeps, RepairKeeps, ScaleKeeps, UpdateKeeps

(* A LogSet whose deletion every version shows goes. *)
LEMMA GoneKept ==
  ASSUME LsOK, NEW l \in LogSets, LsKept(ls[l]), Versions(ls[l]) \subseteq Ending,
         NEW gone \in LogSetObj, gone.st = "gone", gone.boot = Latest(ls[l]).boot,
         ls' \in {ls, Put(ls, l, gone)}
  PROVE  /\ LsKept(ls'[l])
         /\ Latest(ls'[l]).boot = Latest(ls[l]).boot
         /\ Versions(ls'[l]) \subseteq Ending
         /\ \A m \in LogSets \ {l} : ls'[m] = ls[m]
  <1>0. ls[l] \in Logs(LogSetObj)
    BY DEF LsKept
  <1>1. CASE ls' = ls
    BY <1>1
  <1>2. CASE ls' = Put(ls, l, gone)
    <2>1. ls'[l] = Write(ls[l], gone) /\ Latest(ls'[l]) = gone /\ \A m \in LogSets \ {l} : ls'[m] = ls[m]
      BY <1>2, PutOne DEF LsOK
    <2>2. ls'[l] \in Logs(LogSetObj) /\ Versions(ls'[l]) \subseteq Versions(ls[l]) \cup {gone}
      BY <1>0, <2>1, WriteLog, WriteVersions
    <2>3. gone \in Ending /\ (Latest(ls[l]) \in Decided => gone \in Decided)
      BY DEF Ending, Decided
    <2>4. Lasting(ls[l], Ending) /\ Lasting(ls[l], Decided)
      BY DEF LsKept
    <2>5. Lasting(Write(ls[l], gone), Ending)
      BY <1>0, <2>3, <2>4, WriteOrdered DEF Lasting
    <2>6. Lasting(Write(ls[l], gone), Decided)
      BY <1>0, <2>3, <2>4, WriteOrdered DEF Lasting
    <2>7. gone.boot \in {NONE, Bootstrapped}
      BY <1>0, EndVersions DEF LsKept
    <2>8. LsKept(ls'[l])
      BY <2>1, <2>2, <2>5, <2>6, <2>7 DEF LsKept
    <2> QED BY <2>1, <2>2, <2>3, <2>8
  <1> QED BY <1>1, <1>2

(* Finalize: the LogSet goes only when the cache shows no StatefulSet and no orphan is
   left, and it deletes the StatefulSet once more in the same look. *)
LEMMA FinalizeKeeps ==
  ASSUME MembersInv, NEW l \in LogSets, Finalize(l)
  PROVE  \A m \in LogSets : Kept(m)'
  <1> DEFINE gone == Gone(Latest(ls[l]))
  <1>1. LsOK /\ StsOK /\ PodsOK /\ Kept(l)
    BY Parts DEF MembersInv
  <1>2. /\ Cached(ls[l]).st = "deleting" /\ env' = env
        /\ \E D : own' = [own EXCEPT ![l].svcs = @ \ D]
        /\ sts' = Put(sts, l, NoSts) \/ sts' = sts
        /\ ~May("rpc") => sts' = Put(sts, l, NoSts)
        /\ \E D : pods' = [pods EXCEPT ![l] = [o \in Ordinals |-> IF o \in D THEN "none" ELSE @[o]]]
        /\ ls' \in {ls, Put(ls, l, gone)} /\ giving[l] = NONE
        /\ \E d : giving' \in {giving, [giving EXCEPT ![l] = d]}
        /\ \/ ls' = ls /\ giving' = giving
           \/ sts' = Put(sts, l, NoSts) /\ OrphanPods(pods[l]) = {}
    <2> DEFINE clear == own[l].svcs \cap {"headless", "discovery"} = {} /\ Cached(sts[l]).st = "none"
               freed == finalizeBucket(l)
               svcs(n) == {svc \in {"headless", "discovery"} : n >= IF svc = "headless" THEN 1 ELSE 3}
               give(n) == clear /\ n > 3 /\ OrphanPods(pods[l]) = {} /\ freed.ok
               swept(n) == {o \in OrphanPods(pods[l]) : clear /\ n > 3}
    <2>1. PICK n \in Calls(5) :
            /\ own' = [own EXCEPT ![l].svcs = @ \ svcs(n)]
            /\ sts' = IF n >= 2 THEN Put(sts, l, NoSts) ELSE sts
            /\ pods' = [pods EXCEPT ![l] = [o \in Ordinals |->
                          IF (clear /\ n > 3) /\ o \in OrphanPods(pods[l]) THEN "none" ELSE @[o]]]
            /\ giving' = IF give(n) /\ n = 5 THEN [giving EXCEPT ![l] = freed.del] ELSE giving
            /\ ls' = IF give(n) /\ n = 5 /\ freed.del = NONE THEN Put(ls, l, gone) ELSE ls
      BY Zenon DEF Finalize
    <2>2. \A o : o \in swept(n) <=> (clear /\ n > 3) /\ o \in OrphanPods(pods[l])
      OBVIOUS
    <2>3. Cached(ls[l]).st = "deleting" /\ env' = env /\ giving[l] = NONE
      BY DEF Finalize
    <2>4. ~May("rpc") => n = 5
      BY WithoutFaults
    <2>5. give(n) => OrphanPods(pods[l]) = {}
      OBVIOUS
    <2> HIDE DEF freed, clear, svcs, give, swept, gone
    <2>6. pods' = [pods EXCEPT ![l] = [o \in Ordinals |-> IF o \in swept(n) THEN "none" ELSE @[o]]]
      BY <2>1, <2>2
    <2>7. (n = 5 => sts' = Put(sts, l, NoSts)) /\ (sts' = Put(sts, l, NoSts) \/ sts' = sts)
      BY <2>1
    <2>8. /\ (ls' = ls /\ giving' = giving) \/ (give(n) /\ n = 5)
          /\ ls' \in {ls, Put(ls, l, gone)}
          /\ giving' \in {giving, [giving EXCEPT ![l] = freed.del]}
      BY <2>1
    <2>9. \E D : pods' = [pods EXCEPT ![l] = [o \in Ordinals |-> IF o \in D THEN "none" ELSE @[o]]]
      BY <2>6, Zenon
    <2>10. \E D : own' = [own EXCEPT ![l].svcs = @ \ D]
      BY <2>1, Zenon
    <2> QED BY <2>3, <2>4, <2>5, <2>7, <2>8, <2>9, <2>10
  <1>3. Latest(ls[l]) \in LogSetObj /\ Cached(ls[l]) \in Ending
    BY <1>1, <1>2, ReadLs DEF Ending
  <1>4. LsKept(ls[l]) /\ ls[l] \in Logs(LogSetObj) /\ Versions(ls[l]) \subseteq Ending
    BY <1>1, <1>3, CachedLasts DEF Kept, LsKept
  <1>5. gone \in LogSetObj /\ gone.st = "gone" /\ gone.boot = Latest(ls[l]).boot
    BY <1>3 DEF Gone, LogSetObj, NoStores, Stores
  <1> HIDE DEF gone
  <1>6. /\ LsKept(ls'[l])
        /\ Latest(ls'[l]).boot = Latest(ls[l]).boot
        /\ Versions(ls'[l]) \subseteq Ending
        /\ \A m \in LogSets \ {l} : ls'[m] = ls[m]
    BY <1>1, <1>2, <1>4, <1>5, GoneKept
  <1>7. /\ own'[l].boot = own[l].boot /\ own'[l].gossip = own[l].gossip
        /\ \A m \in LogSets \ {l} : own'[m] = own[m]
    <2>1. PICK D : own' = [own EXCEPT ![l].svcs = @ \ D]
      BY <1>2
    <2> QED BY <1>1, <2>1 DEF PodsOK, OwnObj
  <1>8. /\ OrphanPods(pods'[l]) \subseteq OrphanPods(pods[l])
        /\ \A m \in LogSets \ {l} : pods'[m] = pods[m]
    BY <1>1, <1>2 DEF PodsOK, OrphanPods
  <1>9. NoSts \in StsObj /\ NoSts.st = "none"
    BY FreshSts DEF NoSts
  <1>10. /\ sts' = Put(sts, l, NoSts) => Latest(sts'[l]).st = "none"
         /\ \A m \in LogSets \ {l} : sts'[m] = sts[m]
    BY <1>1, <1>2, <1>9, PutOne DEF StsOK
  <1>11. BootKept(l)'
    BY <1>1, <1>6, <1>7 DEF Kept, BootKept
  <1>12. EndKept(l)'
    <2>1. CASE ls' = ls /\ giving' = giving
      BY <1>1, <1>2, <1>8, <1>10, <2>1 DEF Kept, EndKept
    <2>2. CASE ~(ls' = ls /\ giving' = giving)
      BY <1>2, <1>6, <1>8, <1>10, <2>2 DEF EndKept
    <2> QED BY <2>1, <2>2
  <1>13. ~May("rpc") => GossipKept(l)'
    BY <1>2, <1>6, <1>10 DEF GossipKept
  <1>14. Kept(l)'
    BY <1>2, <1>6, <1>11, <1>12, <1>13 DEF Kept, May
  <1>15. \A m \in LogSets \ {l} : giving'[m] = giving[m]
    <2>1. giving \in [LogSets -> Opt(LogSets)]
      BY Parts DEF MembersInv, RestOK
    <2> QED BY <1>2, <2>1
  <1> QED BY <1>2, <1>6, <1>7, <1>8, <1>10, <1>14, <1>15, OneLogSet

(* The deletion of the marked claim: nothing of the LogSet has come back meanwhile. *)
LEMMA FinalizeMarkedKeeps ==
  ASSUME MembersInv, NEW l \in LogSets, FinalizeMarked(l)
  PROVE  \A m \in LogSets : Kept(m)'
  <1> DEFINE gone == Gone(Latest(ls[l]))
  <1>1. LsOK /\ StsOK /\ PodsOK /\ RestOK /\ Kept(l)
    BY Parts DEF MembersInv
  <1>2. /\ giving[l] # NONE /\ giving' = [giving EXCEPT ![l] = NONE]
        /\ UNCHANGED <<sts, pods, own, env>>
        /\ ls' \in {ls, Put(ls, l, gone)}
    BY DEF FinalizeMarked
  <1>3. Latest(ls[l]) \in LogSetObj
    BY <1>1, ReadLs
  <1>4. /\ LsKept(ls[l]) /\ ls[l] \in Logs(LogSetObj) /\ Versions(ls[l]) \subseteq Ending
        /\ Latest(sts[l]).st = "none" /\ OrphanPods(pods[l]) = {}
    BY <1>1, <1>2 DEF Kept, LsKept, EndKept
  <1>5. gone \in LogSetObj /\ gone.st = "gone" /\ gone.boot = Latest(ls[l]).boot
    BY <1>3 DEF Gone, LogSetObj, NoStores, Stores
  <1> HIDE DEF gone
  <1>6. /\ LsKept(ls'[l])
        /\ Latest(ls'[l]).boot = Latest(ls[l]).boot
        /\ Versions(ls'[l]) \subseteq Ending
        /\ \A m \in LogSets \ {l} : ls'[m] = ls[m]
    BY <1>1, <1>2, <1>4, <1>5, GoneKept
  <1>7. BootKept(l)' /\ EndKept(l)'
    BY <1>1, <1>2, <1>4, <1>6 DEF Kept, BootKept, EndKept
  <1>8. ~May("rpc") => GossipKept(l)'
    BY <1>2, <1>4, <1>6 DEF GossipKept
  <1>9. Kept(l)'
    BY <1>2, <1>6, <1>7, <1>8 DEF Kept, May
  <1> QED BY <1>1, <1>2, <1>6, <1>9, OneLogSet DEF RestOK

(* Steps of others do not touch the maps or the StatefulSet's members. *)
LEMMA OthersKeep ==
  ASSUME MembersInv, NEW l \in LogSets,
         \/ UserUpdates(l) \/ UserDeletes(l) \/ CNObserves(l) \/ CNDeleted(l) \/ CNFinalizes(l)
         \/ StatefulSetPods(l) \/ StatefulSetUpdated(l) \/ PodsStart(l) \/ PodFails(l)
         \/ StoreTimeout(l) \/ Deliver(l)
  PROVE  \A m \in LogSets : Kept(m)'
  <1>1. LsOK /\ StsOK /\ PodsOK /\ RestOK /\ Kept(l) /\ ls[l] \in Logs(LogSetObj) /\ sts[l] \in Logs(StsObj)
    BY Parts DEF MembersInv, LsOK, StsOK
  <1>2. LsKept(ls[l]) /\ Latest(ls[l]) \in LogSetObj /\ Latest(sts[l]) \in StsObj
    BY <1>1, ReadLs, ReadSts DEF Kept
  <1>3. own' = own /\ giving' = giving
    BY DEF UserUpdates, UserDeletes, CNObserves, CNDeleted, CNFinalizes, StatefulSetPods, StatefulSetUpdated,
           PodsStart, PodFails, StoreTimeout, Deliver
  <1>4. env'.may = env.may
    BY <1>1 DEF UserUpdates, UserDeletes, CNObserves, CNDeleted, CNFinalizes, StatefulSetPods, StatefulSetUpdated,
           PodsStart, PodFails, StoreTimeout, Deliver, RestOK
  <1>5. ASSUME After(ls[l], ls'[l]), Latest(sts'[l]).st = Latest(sts[l]).st,
               gossipSeeds(Latest(sts'[l])) = gossipSeeds(Latest(sts[l])),
               OrphanPods(pods'[l]) \subseteq OrphanPods(pods[l]),
               \A m \in LogSets \ {l} : ls'[m] = ls[m] /\ sts'[m] = sts[m] /\ pods'[m] = pods[m]
        PROVE  \A m \in LogSets : Kept(m)'
    <2>1. Kept(l)'
      BY <1>1, <1>3, <1>4, <1>5, KeptAfter
    <2> QED BY <1>3, <1>4, <1>5, <2>1, OneLogSet
  <1>6. ASSUME NEW v \in LogSetObj, ls' = Put(ls, l, v), UNCHANGED <<sts, pods>>,
               v.boot = Latest(ls[l]).boot,
               v.st = Latest(ls[l]).st \/ (Latest(ls[l]).st = "live" /\ v.st = "deleting")
        PROVE  \A m \in LogSets : Kept(m)'
    <2>1. ls'[l] = Write(ls[l], v) /\ \A m \in LogSets \ {l} : ls'[m] = ls[m]
      BY <1>1, <1>6, PutOne DEF LsOK
    <2>2. After(ls[l], Write(ls[l], v))
      BY <1>2, <1>6, AfterWrite
    <2> QED BY <1>5, <1>6, <2>1, <2>2
  <1>7. CASE UserUpdates(l)
    <2>1. PICK v \in LogSetObj : ls' = Put(ls, l, v) /\ v.boot = Latest(ls[l]).boot /\ v.st = Latest(ls[l]).st
      <3>1. \A n \in LogShardReplicas .. MaxReplicas :
              /\ [Latest(ls[l]) EXCEPT !.replicas = n] \in LogSetObj
              /\ [Latest(ls[l]) EXCEPT !.replicas = n].boot = Latest(ls[l]).boot
              /\ [Latest(ls[l]) EXCEPT !.replicas = n].st = Latest(ls[l]).st
        BY <1>2, LogSetAssumption DEF LogSetObj
      <3>2. /\ [Latest(ls[l]) EXCEPT !.rev = 1] \in LogSetObj
            /\ [Latest(ls[l]) EXCEPT !.rev = 1].boot = Latest(ls[l]).boot
            /\ [Latest(ls[l]) EXCEPT !.rev = 1].st = Latest(ls[l]).st
        BY <1>2 DEF LogSetObj
      <3> QED BY <1>7, <3>1, <3>2 DEF UserUpdates
    <2> QED BY <1>6, <1>7, <2>1 DEF UserUpdates
  <1>8. CASE UserDeletes(l)
    <2> DEFINE v == [Latest(ls[l]) EXCEPT !.st = "deleting"]
    <2>1. v \in LogSetObj /\ v.boot = Latest(ls[l]).boot /\ v.st = "deleting"
      BY <1>2 DEF LogSetObj
    <2>2. ls' = Put(ls, l, v) /\ UNCHANGED <<sts, pods>> /\ Latest(ls[l]).st = "live"
      BY <1>8 DEF UserDeletes
    <2> HIDE DEF v
    <2> QED BY <1>6, <2>1, <2>2
  <1>9. CASE StoreTimeout(l)
    <2>1. PICK o \in Ordinals : ls' = Put(ls, l, [Latest(ls[l]) EXCEPT !.stores[o] = "failed"])
      BY <1>9 DEF StoreTimeout
    <2> DEFINE v == [Latest(ls[l]) EXCEPT !.stores[o] = "failed"]
    <2>2. v \in LogSetObj /\ v.boot = Latest(ls[l]).boot /\ v.st = Latest(ls[l]).st
      BY <1>2 DEF LogSetObj, Stores
    <2>3. ls' = Put(ls, l, v) /\ UNCHANGED <<sts, pods>>
      BY <1>9, <2>1 DEF StoreTimeout
    <2> HIDE DEF v
    <2> QED BY <1>6, <2>2, <2>3
  <1>10. CASE CNObserves(l) \/ CNDeleted(l) \/ CNFinalizes(l)
    <2>1. UNCHANGED <<ls, sts, pods>>
      BY <1>10 DEF CNObserves, CNDeleted, CNFinalizes
    <2> QED BY <1>2, <1>5, <2>1, AfterSame
  <1>11. CASE StatefulSetPods(l) \/ PodsStart(l) \/ PodFails(l)
    <2>1. UNCHANGED <<ls, sts>>
      BY <1>11 DEF StatefulSetPods, PodsStart, PodFails
    <2>2. /\ OrphanPods(pods'[l]) \subseteq OrphanPods(pods[l])
          /\ \A m \in LogSets \ {l} : pods'[m] = pods[m]
      BY <1>1, <1>11 DEF StatefulSetPods, PodsStart, PodFails, SetPod, OrphanPods, PodsOK
    <2> QED BY <1>2, <1>5, <2>1, <2>2, AfterSame
  <1>12. CASE StatefulSetUpdated(l)
    <2> DEFINE v == [Latest(sts[l]) EXCEPT !.updated = TRUE]
    <2>1. v \in StsObj /\ v.st = Latest(sts[l]).st /\ v.replicas = Latest(sts[l]).replicas
          /\ v.reserve = Latest(sts[l]).reserve
      BY <1>2 DEF StsObj
    <2>2. sts' = Put(sts, l, v) /\ UNCHANGED <<ls, pods>>
      BY <1>12 DEF StatefulSetUpdated
    <2> HIDE DEF v
    <2>3. Latest(sts'[l]) = v /\ \A m \in LogSets \ {l} : sts'[m] = sts[m]
      BY <1>1, <2>1, <2>2, PutOne DEF StsOK
    <2>4. gossipSeeds(v) = gossipSeeds(Latest(sts[l]))
      BY <2>1 DEF gossipSeeds
    <2> QED BY <1>2, <1>5, <2>1, <2>2, <2>3, <2>4, AfterSame
  <1>13. CASE Deliver(l)
    <2>1. pods' = pods
      BY <1>13 DEF Deliver
    <2>2. ASSUME ~UpToDate(ls[l]), ls' = [ls EXCEPT ![l] = Tail(@)], sts' = sts
          PROVE  \A m \in LogSets : Kept(m)'
      <3>1. Len(ls[l]) > 1
        BY <1>1, <2>2, Behind
      <3>2. After(ls[l], Tail(ls[l]))
        BY <1>2, <3>1, AfterDeliver
      <3>3. ls'[l] = Tail(ls[l]) /\ \A m \in LogSets \ {l} : ls'[m] = ls[m]
        BY <1>1, <2>2 DEF LsOK
      <3> QED BY <1>5, <2>1, <2>2, <3>2, <3>3
    <2>3. ASSUME ~UpToDate(sts[l]), sts' = [sts EXCEPT ![l] = Tail(@)], ls' = ls
          PROVE  \A m \in LogSets : Kept(m)'
      <3>1. Len(sts[l]) > 1
        BY <1>1, <2>3, Behind
      <3>2. Latest(Tail(sts[l])) = Latest(sts[l])
        BY <1>1, <3>1, DeliverLog
      <3>3. sts'[l] = Tail(sts[l]) /\ \A m \in LogSets \ {l} : sts'[m] = sts[m]
        BY <1>1, <2>3 DEF StsOK
      <3> QED BY <1>2, <1>5, <2>1, <2>3, <3>2, <3>3, AfterSame
    <2>4. ASSUME UNCHANGED <<ls, sts>>
          PROVE  \A m \in LogSets : Kept(m)'
      BY <1>2, <1>5, <2>1, <2>4, AfterSame
    <2> QED BY <1>13, <2>2, <2>3, <2>4 DEF Deliver
  <1> QED BY <1>7, <1>8, <1>9, <1>10, <1>11, <1>12, <1>13

LEMMA MembersInductive == MembersInv /\ [Next]_vars => MembersInv'
  <1> SUFFICES ASSUME MembersInv, [Next]_vars PROVE MembersInv'
    OBVIOUS
  <1>1. LogInv'
    BY LogInductive DEF MembersInv
  <1>2. CASE UNCHANGED <<ls, sts, pods, own, giving, env>>
    BY <1>1, <1>2 DEF MembersInv, Kept, BootKept, EndKept, GossipKept, May, OrphanPods
  <1>3. CASE BucketController \/ UserDeletesClaim \/ UNCHANGED vars
    BY <1>2, <1>3 DEF BucketController, UserDeletesClaim, vars
  <1>4. ASSUME NEW l \in LogSets, Observe(l) \/ Finalize(l) \/ FinalizeMarked(l)
        PROVE  MembersInv'
    BY <1>1, <1>4, ObserveKeeps, FinalizeKeeps, FinalizeMarkedKeeps DEF MembersInv
  <1>5. ASSUME NEW l \in LogSets,
               \/ UserUpdates(l) \/ UserDeletes(l) \/ CNObserves(l) \/ CNDeleted(l) \/ CNFinalizes(l)
               \/ StatefulSetPods(l) \/ StatefulSetUpdated(l) \/ PodsStart(l) \/ PodFails(l)
               \/ StoreTimeout(l) \/ Deliver(l)
        PROVE  MembersInv'
    BY <1>1, <1>5, OthersKeep DEF MembersInv
  <1> QED BY <1>3, <1>4, <1>5 DEF Next

LEMMA InitMembers == Init => MembersInv
  <1> SUFFICES ASSUME Init PROVE MembersInv
    OBVIOUS
  <1>1. LogInv
    BY InitLog
  <1>2. ASSUME NEW l \in LogSets
        PROVE  Kept(l)
    <2> DEFINE r == [NewLogSet(LogShardReplicas) EXCEPT
                       !.st = IF l = First \/ May("second") THEN "live" ELSE "none"]
    <2>1. ls[l] = <<r>> /\ ls[l] \in Logs(LogSetObj)
      BY <1>1, Parts DEF Init, LsOK
    <2>2. r.boot = NONE /\ r.st # "gone"
      BY DEF NewLogSet
    <2> HIDE DEF r
    <2>3. Len(ls[l]) = 1 /\ Versions(ls[l]) = {r} /\ Latest(ls[l]) = r
      BY <2>1, FreshVersions DEF Latest
    <2>4. Lasting(ls[l], Ending) /\ Lasting(ls[l], Decided)
      BY <2>3 DEF Lasting
    <2>5. LsKept(ls[l])
      BY <2>1, <2>2, <2>3, <2>4 DEF LsKept
    <2>6. own[l].boot = NONE /\ own[l].gossip = NONE
      BY DEF Init, NoOwn
    <2>7. Latest(sts[l]).st = "none"
      BY DEF Init, Latest, NoSts
    <2>8. BootKept(l) /\ EndKept(l) /\ GossipKept(l)
      BY <2>2, <2>3, <2>6, <2>7 DEF Init, BootKept, EndKept, GossipKept
    <2> QED BY <2>5, <2>8 DEF Kept
  <1> QED BY <1>1, <1>2 DEF MembersInv

(* The stores find each other: the config map that the pods bootstrap from names the
   members of the decision that the LogSet records, whatever failed in between and
   however the set has been scaled, and without faults the gossip map names the pods
   that the StatefulSet is to have
   (src/pkg/controllers/logset/controller.go:150, 203, 217, 364). *)
THEOREM StoresAgreeOnMembers == Spec => []MembersAgree
  <1>1. MembersInv => MembersAgree
    <2> SUFFICES ASSUME MembersInv, NEW l \in LogSets
                 PROVE  /\ own[l].boot # NONE => own[l].boot = Latest(ls[l]).boot
                        /\ ~May("rpc") /\ Latest(sts[l]).st = "live" => own[l].gossip = Desired(l)
      BY DEF MembersAgree
    <2>1. Kept(l) /\ Latest(ls[l]) \in Versions(ls[l])
      BY EndVersions DEF MembersInv, Kept, LsKept
    <2>2. Latest(ls[l]).boot \in {NONE, Bootstrapped}
      BY <2>1 DEF Kept, LsKept
    <2>3. own[l].boot # NONE => own[l].boot = Latest(ls[l]).boot
      BY <2>1, <2>2 DEF Kept, BootKept
    <2>4. Latest(sts[l]).st = "live" => Desired(l) = gossipSeeds(Latest(sts[l]))
      BY DEF Desired, gossipSeeds
    <2> QED BY <2>1, <2>3, <2>4 DEF Kept, GossipKept
  <1> QED BY <1>1, InitMembers, MembersInductive, PTL DEF Spec

(* A LogSet that is gone leaves no StatefulSet and no orphaned pod, although both are
   looked for in a cache that may be behind and the deletion may stop after any call
   (src/pkg/controllers/logset/controller.go:304). *)
THEOREM FinalizeLeavesNothing == Spec => []FinalizedLeavesNothing
  <1>1. MembersInv => FinalizedLeavesNothing
    BY DEF MembersInv, Kept, EndKept, FinalizedLeavesNothing, OrphanPods
  <1> QED BY <1>1, InitMembers, MembersInductive, PTL DEF Spec

-----------------------------------------------------------------------------
(* The data of the bucket *)

Absent == {c \in LogSetObj : c.st = "none"}

(* A claim that is given up with its data, which the Job is for. *)
Doomed == {b \in BucketClaim : /\ b.st = "deleting" /\ b.state = "Deleting" /\ b.everRan
                               /\ BucketDataFinalizer \in b.finalizers}

(* A version of a claim: it keeps its finalizer unless its data are retained, it is
   given up with its data only by a LogSet that ends, and nobody uses it then. *)
Fine(b) ==
  /\ b.st # "none" => BucketDataFinalizer \in b.finalizers \/ May("Retain")
  /\ b.st = "deleting" /\ b.state = "Deleting" => ~ContainFinalizerPrefix(b)
  /\ b.state = "Deleting" => b.st # "none" /\ ~May("Retain") /\ Versions(ls[First]) \subseteq Ending
  /\ b.state = "Released" => May("Retain")

(* The versions of a claim whose Job is j. *)
LogFine(j, log) ==
  /\ log \in Logs(BucketClaim)
  /\ \A b \in Versions(log) : Fine(b)
  /\ j # "done" => Lasting(log, Doomed)
  /\ j = "running" => Latest(log) \in Doomed

(* A Finalize, of those that g shows between their two calls, deletes claim u. *)
Given(g, u) == \E l \in LogSets : g[l] = u

(* Where users delete claims, none is marked that is not deleted, or about to be; and
   nobody uses one that is about to be. *)
Ended(g, u, b) ==
  /\ May("kubectl") /\ b.state = "Deleting" => b.st = "deleting" \/ Given(g, u)
  /\ Given(g, u) => ~ContainFinalizerPrefix(b)

BucketsFine(b, g) == \A u \in LogSets : LogFine(job[u], b[u]) /\ Ended(g, u, Latest(b[u]))

Alone == \A l \in LogSets \ {First} : Versions(ls[l]) \subseteq Absent

OneUser == ~May("second") /\ ~May("late") /\ ~(May("rpc") /\ May("kubectl"))

DataInv == MembersInv /\ OneUser /\ Alone /\ BucketsFine(bucket, giving)

(* LogSets that end, and LogSets that there are not, stay so. *)
LEMMA LsSettled ==
  ASSUME MembersInv, [Next]_vars, NEW m \in LogSets
  PROVE  /\ Versions(ls[m]) \subseteq Ending => Versions(ls'[m]) \subseteq Ending
         /\ Versions(ls[m]) \subseteq Absent => Versions(ls'[m]) \subseteq Absent
  <1>1. LsOK /\ LsOK' /\ ls[m] \in Logs(LogSetObj)
    BY MembersInductive, Parts, PartsPrimed DEF MembersInv, LsOK
  <1>2. /\ Cached(ls[m]) \in Versions(ls[m]) /\ Latest(ls[m]) \in Versions(ls[m])
        /\ Latest(ls[m]) \in LogSetObj
    BY <1>1, EndVersions, LogEnds
  <1>3. CASE ls'[m] = ls[m]
    BY <1>3
  <1>4. ASSUME NEW v \in LogSetObj, ls'[m] = Write(ls[m], v), v.st = Latest(ls[m]).st
        PROVE  /\ Versions(ls[m]) \subseteq Ending => Versions(ls'[m]) \subseteq Ending
               /\ Versions(ls[m]) \subseteq Absent => Versions(ls'[m]) \subseteq Absent
    <2>1. Versions(ls'[m]) \subseteq Versions(ls[m]) \cup {v}
      BY <1>1, <1>4, WriteVersions
    <2> QED BY <1>2, <1>4, <2>1 DEF Ending, Absent
  <1>5. CASE Observe(m) \/ UserUpdates(m) \/ UserDeletes(m)
    <2>1. Cached(ls[m]).st = "live" \/ Latest(ls[m]).st = "live"
      BY <1>5 DEF Observe, UserUpdates, UserDeletes
    <2> QED BY <1>2, <2>1 DEF Ending, Absent
  <1>6. CASE Finalize(m) \/ FinalizeMarked(m)
    <2>1. /\ Cached(ls[m]) \in Ending
          /\ ls' = ls \/ ls' = Put(ls, m, Gone(Latest(ls[m])))
      <3>1. CASE Finalize(m)
        <4>1. Cached(ls[m]) \in LogSetObj
          BY <1>1, LogEnds
        <4> QED BY <3>1, <4>1 DEF Finalize, Ending
      <3>2. CASE FinalizeMarked(m)
        BY <1>2, <3>2 DEF FinalizeMarked, MembersInv, Kept, EndKept
      <3> QED BY <1>6, <3>1, <3>2
    <2>2. Gone(Latest(ls[m])) \in Ending
      BY <1>2 DEF Gone, Ending, LogSetObj, NoStores, Stores
    <2>3. Gone(Latest(ls[m])) \in LogSetObj
      BY <2>2 DEF Ending
    <2>4. ls' = Put(ls, m, Gone(Latest(ls[m]))) => ls'[m] = Write(ls[m], Gone(Latest(ls[m])))
      BY <1>1 DEF Put, LsOK
    <2>5. Versions(ls'[m]) \subseteq Versions(ls[m]) \cup {Gone(Latest(ls[m]))}
      BY <1>1, <2>1, <2>3, <2>4, WriteVersions
    <2> QED BY <1>2, <2>1, <2>2, <2>5 DEF Absent, Ending
  <1>7. CASE StoreTimeout(m)
    <2>1. PICK o \in Ordinals : ls' = Put(ls, m, [Latest(ls[m]) EXCEPT !.stores[o] = "failed"])
      BY <1>7 DEF StoreTimeout
    <2> DEFINE v == [Latest(ls[m]) EXCEPT !.stores[o] = "failed"]
    <2>2. v \in LogSetObj /\ v.st = Latest(ls[m]).st
      BY <1>2 DEF LogSetObj, Stores
    <2> HIDE DEF v
    <2>3. ls'[m] = Write(ls[m], v)
      BY <1>1, <2>1, <2>2, PutOne DEF LsOK, v
    <2> QED BY <1>4, <2>2, <2>3
  <1>8. CASE Deliver(m)
    <2>1. ls' = ls \/ (~UpToDate(ls[m]) /\ ls' = [ls EXCEPT ![m] = Tail(@)])
      BY <1>8 DEF Deliver
    <2>2. ~UpToDate(ls[m]) => Versions(Tail(ls[m])) \subseteq Versions(ls[m])
      BY <1>1, Behind, DeliverVersions
    <2> QED BY <1>1, <1>3, <2>1, <2>2 DEF LsOK
  <1>9. ASSUME NEW l \in LogSets \ {m},
               \/ Observe(l) \/ Finalize(l) \/ FinalizeMarked(l) \/ UserUpdates(l) \/ UserDeletes(l)
               \/ StoreTimeout(l) \/ Deliver(l)
        PROVE  ls'[m] = ls[m]
    <2>1. ASSUME NEW v, ls' = Put(ls, l, v)
          PROVE  ls'[m] = ls[m]
      BY <1>1, <2>1 DEF Put, LsOK
    <2>2. CASE Observe(l)
      <3>1. ls' = ls \/ \E v : ls' = Put(ls, l, v)
        BY <2>2 DEF Observe, Create, Repair, Scale, Update, ObserveRest, SaveStatus, Put
      <3> QED BY <2>1, <3>1
    <2>3. CASE Finalize(l) \/ FinalizeMarked(l) \/ UserUpdates(l) \/ UserDeletes(l) \/ StoreTimeout(l)
      <3>1. ls' = ls \/ \E v : ls' = Put(ls, l, v)
        BY <2>3 DEF Finalize, FinalizeMarked, UserUpdates, UserDeletes, StoreTimeout
      <3> QED BY <2>1, <3>1
    <2>4. CASE Deliver(l)
      BY <1>1, <2>4 DEF Deliver, LsOK
    <2> QED BY <1>9, <2>2, <2>3, <2>4
  <1>10. \/ ls' = ls
         \/ \E l \in LogSets : \/ Observe(l) \/ Finalize(l) \/ FinalizeMarked(l)
                               \/ UserUpdates(l) \/ UserDeletes(l)
                               \/ StoreTimeout(l) \/ Deliver(l)
    BY DEF Next, vars, CNObserves, CNDeleted, CNFinalizes, StatefulSetPods, StatefulSetUpdated,
           PodsStart, PodFails, BucketController, UserDeletesClaim
  <1> QED BY <1>3, <1>5, <1>6, <1>7, <1>8, <1>9, <1>10

LEMMA UsersDiffer == BucketDataFinalizer \notin BucketUsers
  <1>1. ASSUME NEW l \in LogSets
        PROVE  <<"data", NONE>> # <<"CN", l>>
    OBVIOUS
  <1> QED BY <1>1 DEF BucketDataFinalizer, BucketUsers

LEMMA NoBucketFine ==
  /\ NoBucket \in BucketClaim /\ Fine(NoBucket) /\ NoBucket \notin Doomed
  /\ \A g, u : Ended(g, u, NoBucket)
  <1>1. NoBucket \in BucketClaim
    BY DEF NoBucket, BucketClaim, Opt
  <1> QED BY <1>1 DEF NoBucket, Fine, Ended, Doomed, ContainFinalizerPrefix

(* A write of one version to the versions of a claim. *)
LEMMA FineWrite ==
  ASSUME NEW j, NEW log, LogFine(j, log), NEW v \in BucketClaim, Fine(v),
         Latest(log) \in Doomed => v \in Doomed \/ j = "done"
  PROVE  LogFine(j, Write(log, v)) /\ Latest(Write(log, v)) = v
  <1>1. log \in Logs(BucketClaim)
    BY DEF LogFine
  <1>2. Write(log, v) \in Logs(BucketClaim) /\ Latest(Write(log, v)) = v
    BY <1>1, WriteLog
  <1>3. Versions(Write(log, v)) \subseteq Versions(log) \cup {v}
    BY <1>1, WriteVersions
  <1>4. ASSUME j # "done"
        PROVE  Lasting(Write(log, v), Doomed)
    BY <1>1, <1>4, WriteOrdered DEF Lasting, LogFine
  <1> QED BY <1>2, <1>3, <1>4 DEF LogFine

LEMMA FineDeliver ==
  ASSUME NEW j, NEW log, LogFine(j, log), Len(log) > 1
  PROVE  LogFine(j, Tail(log)) /\ Latest(Tail(log)) = Latest(log)
  <1>1. log \in Logs(BucketClaim)
    BY DEF LogFine
  <1>2. /\ Tail(log) \in Logs(BucketClaim) /\ Latest(Tail(log)) = Latest(log)
        /\ Versions(Tail(log)) \subseteq Versions(log)
    BY <1>1, DeliverLog, DeliverVersions
  <1>3. ASSUME j # "done"
        PROVE  Lasting(Tail(log), Doomed)
    BY <1>1, <1>3, DeliverOrdered DEF Lasting, LogFine
  <1> QED BY <1>2, <1>3 DEF LogFine

(* What is read of the claims. *)
LEMMA ReadFine ==
  ASSUME DataInv, NEW u \in LogSets
  PROVE  /\ bucket[u] \in Logs(BucketClaim) /\ LogFine(job[u], bucket[u])
         /\ Cached(bucket[u]) \in BucketClaim /\ Fine(Cached(bucket[u]))
         /\ Latest(bucket[u]) \in BucketClaim /\ Fine(Latest(bucket[u])) /\ Ended(giving, u, Latest(bucket[u]))
         /\ UpToDate(bucket[u]) => Cached(bucket[u]) = Latest(bucket[u])
         /\ job[u] # "done" /\ Cached(bucket[u]) \in Doomed => Latest(bucket[u]) \in Doomed
  <1>1. LogFine(job[u], bucket[u]) /\ Ended(giving, u, Latest(bucket[u]))
    BY DEF DataInv, BucketsFine
  <1>2. bucket[u] \in Logs(BucketClaim)
    BY <1>1 DEF LogFine
  <1>3. /\ Cached(bucket[u]) \in Versions(bucket[u]) /\ Latest(bucket[u]) \in Versions(bucket[u])
        /\ Versions(bucket[u]) \subseteq BucketClaim
        /\ UpToDate(bucket[u]) => Cached(bucket[u]) = Latest(bucket[u])
    BY <1>2, EndVersions
  <1>4. Fine(Cached(bucket[u])) /\ Fine(Latest(bucket[u]))
    BY <1>1, <1>3 DEF LogFine
  <1>5. job[u] # "done" /\ Cached(bucket[u]) \in Doomed => Latest(bucket[u]) \in Doomed
    <2>1. Len(bucket[u]) \in Nat \ {0}
      BY <1>2, LogEnds
    <2>2. 1 \in 1 .. Len(bucket[u]) /\ Len(bucket[u]) \in 1 .. Len(bucket[u]) /\ 1 <= Len(bucket[u])
      BY <2>1
    <2> QED BY <1>1, <2>2 DEF LogFine, Lasting, Cached, Latest
  <1> QED BY <1>1, <1>2, <1>3, <1>4, <1>5

(* An Update of a claim. *)
LEMMA FineUpdate ==
  ASSUME DataInv, NEW u \in LogSets, NEW v \in BucketClaim,
         Fine(v) \/ (v.st = "deleting" /\ v.finalizers = {}),
         Latest(bucket[u]) \in Doomed => v \in Doomed \/ job[u] = "done"
  PROVE  /\ \A m \in LogSets \ {u} : UpdateBucket(bucket, u, v)[m] = bucket[m]
         /\ LogFine(job[u], UpdateBucket(bucket, u, v)[u])
         /\ Latest(UpdateBucket(bucket, u, v)[u]) \in {v, NoBucket}
         /\ v.finalizers # {} => UpdateBucket(bucket, u, v)[u] = Write(bucket[u], v)
         /\ Ended(giving, u, v) => BucketsFine(UpdateBucket(bucket, u, v), giving)
  <1> DEFINE x == IF v.st = "deleting" /\ v.finalizers = {} THEN NoBucket ELSE v
             b == UpdateBucket(bucket, u, v)
  <1>1. bucket \in Buckets
    BY Parts DEF DataInv, MembersInv
  <1>2. b[u] = Write(bucket[u], x) /\ \A m \in LogSets \ {u} : b[m] = bucket[m]
    BY <1>1 DEF UpdateBucket, Buckets
  <1>3. x \in BucketClaim /\ Fine(x) /\ (v.finalizers # {} => x = v) /\ x \in {v, NoBucket}
    BY NoBucketFine
  <1>4. Latest(bucket[u]) \in Doomed => x \in Doomed \/ job[u] = "done"
    BY DEF Doomed
  <1>5. Ended(giving, u, v) => Ended(giving, u, x)
    BY NoBucketFine
  <1> HIDE DEF x, b
  <1>6. LogFine(job[u], b[u]) /\ Latest(b[u]) = x
    BY <1>2, <1>3, <1>4, ReadFine, FineWrite
  <1>7. Ended(giving, u, v) => BucketsFine(b, giving)
    BY <1>2, <1>5, <1>6 DEF BucketsFine, DataInv
  <1> QED BY <1>2, <1>3, <1>6, <1>7 DEF b

LEMMA FineTry ==
  ASSUME DataInv, NEW u \in LogSets, NEW v \in BucketClaim, TryUpdate(u, v),
         Updatable(u, v) => /\ Fine(v) \/ (v.st = "deleting" /\ v.finalizers = {})
                            /\ Ended(giving, u, v)
                            /\ Latest(bucket[u]) \in Doomed => v \in Doomed \/ job[u] = "done"
  PROVE  BucketsFine(bucket', giving)
  <1>1. CASE Updatable(u, v)
    BY <1>1, FineUpdate DEF TryUpdate
  <1>2. CASE ~Updatable(u, v)
    BY <1>2 DEF TryUpdate, DataInv
  <1> QED BY <1>1, <1>2

(* The sets that use the bucket: one of them is added to a claim only as long as that
   is not deleted. *)
LEMMA UsersFine ==
  ASSUME DataInv, NEW f \in BucketUsers,
         \/ AddBucketFinalizer(f) /\ \A k \in LogSets : giving[k] = NONE
         \/ RemoveBucketFinalizer(f)
  PROVE  BucketsFine(bucket', giving)
  <1> DEFINE u == Claimed
             b == ClaimedBucket
             more == [b EXCEPT !.finalizers = @ \cup {f}]
             less == [b EXCEPT !.finalizers = @ \ {f}]
  <1>1. CASE BucketError \/ NoBucketFound
    BY <1>1 DEF AddBucketFinalizer, RemoveBucketFinalizer, DataInv
  <1>2. CASE ~(BucketError \/ NoBucketFound)
    <2>1. u \in LogSets /\ b \in BucketClaim /\ b = Cached(bucket[u])
      BY <1>2, ClaimedTyped, Parts DEF DataInv, MembersInv, ClaimedBucket
    <2>2. /\ b.finalizers \in SUBSET ({BucketDataFinalizer} \cup BucketUsers)
          /\ f # BucketDataFinalizer
      BY <2>1, UsersDiffer DEF BucketClaim
    <2>3. /\ more \in BucketClaim /\ more.finalizers = b.finalizers \cup {f}
          /\ more.st = b.st /\ more.state = b.state /\ more.everRan = b.everRan
          /\ less \in BucketClaim /\ less.finalizers = b.finalizers \ {f}
          /\ less.st = b.st /\ less.state = b.state /\ less.everRan = b.everRan
      BY <2>1 DEF BucketClaim
    <2>4. \/ TryUpdate(u, more) /\ \A k \in LogSets : giving[k] = NONE
          \/ TryUpdate(u, less)
      BY <1>2 DEF AddBucketFinalizer, RemoveBucketFinalizer
    <2> HIDE DEF u, b, more, less
    <2>5. ASSUME UpToDate(bucket[u]), NEW v \in {more, less},
                 v = less \/ \A k \in LogSets : giving[k] = NONE,
                 b.st = "deleting" => v.finalizers \subseteq b.finalizers
          PROVE  Fine(v) /\ Ended(giving, u, v) /\ (Latest(bucket[u]) \in Doomed => v \in Doomed)
      <3>1. b = Latest(bucket[u]) /\ Fine(b) /\ Ended(giving, u, b)
        BY <2>1, <2>5, ReadFine
      <3>2. Fine(v)
        BY <2>2, <2>3, <2>5, <3>1 DEF Fine, ContainFinalizerPrefix
      <3>3. Ended(giving, u, v)
        <4>1. Given(giving, u) => v = less
          BY <2>1, <2>5, LogSetAssumption DEF Given
        <4>2. less.finalizers \subseteq b.finalizers
          BY <2>3
        <4> QED BY <2>3, <2>5, <3>1, <4>1, <4>2 DEF Ended, ContainFinalizerPrefix
      <3>4. b \in Doomed => v \in Doomed
        BY <2>2, <2>3 DEF Doomed
      <3> QED BY <3>1, <3>2, <3>3, <3>4
    <2>6. ASSUME NEW v \in {more, less}, Updatable(u, v)
          PROVE  UpToDate(bucket[u]) /\ (b.st = "deleting" => v.finalizers \subseteq b.finalizers)
      <3>1. UpToDate(bucket[u])
        BY <2>6 DEF Updatable
      <3>2. Latest(bucket[u]) = b
        BY <2>1, <3>1, ReadFine
      <3> QED BY <2>6, <3>1, <3>2 DEF Updatable
    <2>7. more \in BucketClaim /\ less \in BucketClaim
      BY <2>3
    <2> QED BY <2>1, <2>4, <2>5, <2>6, <2>7, FineTry
  <1> QED BY <1>1, <1>2

(* A LogSet that the cache shows is the first one. *)
LEMMA OnlyFirst ==
  ASSUME DataInv, NEW l \in LogSets, Cached(ls[l]).st # "none"
  PROVE  /\ l = First
         /\ Cached(ls[l]).st = "deleting" => Versions(ls[First]) \subseteq Ending
         /\ Cached(ls[l]).st = "live" => ~(Versions(ls[First]) \subseteq Ending)
  <1>1. ls[l] \in Logs(LogSetObj) /\ LsKept(ls[l])
    BY DEF DataInv, MembersInv, Kept, LsKept
  <1>2. Cached(ls[l]) \in Versions(ls[l]) /\ Cached(ls[l]) \in LogSetObj
    BY <1>1, EndVersions, LogEnds
  <1>3. l = First
    BY <1>2 DEF DataInv, Alone, Absent
  <1>4. Cached(ls[l]) \in Ending => Versions(ls[l]) \subseteq Ending
    BY <1>1, CachedLasts
  <1> QED BY <1>2, <1>3, <1>4 DEF Ending

(* As long as the LogSet is not deleted no claim is being given up. *)
LEMMA NothingGiven ==
  ASSUME DataInv, NEW l \in LogSets, Cached(ls[l]).st = "live"
  PROVE  \A u \in LogSets : ~Given(giving, u)
  <1>1. l = First /\ ~(Versions(ls[First]) \subseteq Ending)
    BY OnlyFirst
  <1>2. ASSUME NEW m \in LogSets, giving[m] # NONE
        PROVE  FALSE
    <2>1. Versions(ls[m]) \subseteq Ending /\ ls[m] \in Logs(LogSetObj)
      BY <1>2 DEF DataInv, MembersInv, Kept, EndKept, LsKept
    <2>2. Latest(ls[m]) \in Versions(ls[m])
      BY <2>1, EndVersions
    <2> QED BY <1>1, <2>1, <2>2 DEF DataInv, Alone, Absent, Ending
  <1> QED BY <1>2, LogSetAssumption DEF Given

(* Observe: a LogSet that is not deleted finds no claim that is given up. *)
LEMMA SyncFine ==
  ASSUME DataInv, NEW l \in LogSets, Cached(ls[l]).st = "live"
  PROVE  BucketsFine(syncBucketClaim(l).to, giving)
  <1>1. ASSUME NEW u \in LogSets
        PROVE  Latest(bucket[u]) \notin Doomed
    <2>1. ~(Versions(ls[First]) \subseteq Ending)
      BY OnlyFirst
    <2>2. Fine(Latest(bucket[u]))
      BY ReadFine
    <2> QED BY <2>1, <2>2 DEF Fine, Doomed
  <1>2. BucketsFine(bucket, giving) /\ bucket \in Buckets
    BY Parts DEF DataInv, MembersInv
  <1>3. ASSUME NEW ok, NEW to, ok => BucketsFine(to, giving)
        PROVE  BucketsFine(Step(ok, to).to, giving)
    BY <1>2, <1>3 DEF Step
  <1>4. CASE ~S3 \/ BucketError
    BY <1>2, <1>3, <1>4 DEF syncBucketClaim
  <1>5. CASE S3 /\ ~BucketError /\ NoBucketFound
    <2> DEFINE v == createNewBucket(l)
    <2>1. /\ v \in BucketClaim /\ v.st = "live" /\ v.state = "InUse"
          /\ v.finalizers = {BucketDataFinalizer}
      BY DEF createNewBucket, NoBucket, BucketClaim, BucketBindToMark, Opt
    <2> HIDE DEF v
    <2>2. Fine(v) /\ Ended(giving, l, v)
      BY <2>1, NothingGiven DEF Fine, Ended
    <2>3. UpdateBucket(bucket, l, v) = Put(bucket, l, v)
      BY <2>1 DEF UpdateBucket, Put
    <2>4. BucketsFine(Put(bucket, l, v), giving)
      BY <1>1, <2>1, <2>2, <2>3, FineUpdate
    <2> QED BY <1>3, <1>5, <2>4 DEF syncBucketClaim, v
  <1>6. CASE S3 /\ ~BucketError /\ ~NoBucketFound
    <2> DEFINE v == Bound(l, ClaimedBucket)
               to == IF v = ClaimedBucket THEN bucket ELSE UpdateBucket(bucket, Claimed, v)
    <2>1. Claimed \in LogSets /\ ClaimedBucket \in BucketClaim
      BY <1>2, <1>6, ClaimedTyped
    <2>2. v \in BucketClaim /\ v.state = "InUse" /\ BucketDataFinalizer \in v.finalizers
      BY <2>1 DEF Bound, BucketClaim, BucketBindToMark, Opt
    <2>3. syncBucketClaim(l) = Step(/\ ~BoundToOther(l)
                                    /\ v = ClaimedBucket \/ Updatable(Claimed, v), to)
      BY <1>6 DEF syncBucketClaim
    <2> HIDE DEF v
    <2>4. Fine(v) /\ Ended(giving, Claimed, v)
      BY <2>1, <2>2, NothingGiven DEF Fine, Ended
    <2>5. BucketsFine(UpdateBucket(bucket, Claimed, v), giving)
      BY <1>1, <2>1, <2>2, <2>4, FineUpdate
    <2>6. BucketsFine(to, giving)
      BY <1>2, <2>5
    <2> HIDE DEF to
    <2> QED BY <1>3, <2>3, <2>6
  <1> QED BY <1>4, <1>5, <1>6

LEMMA EverRanFine ==
  ASSUME DataInv, NEW l \in LogSets, Cached(ls[l]).st = "live", NEW b, BucketsFine(b, giving)
  PROVE  BucketsFine(syncBucketEverRunningAnn(b), giving)
  <1> DEFINE v == [ClaimedBucket EXCEPT !.everRan = TRUE]
  <1>1. CASE syncBucketEverRunningAnn(b) = b
    BY <1>1
  <1>2. CASE syncBucketEverRunningAnn(b) # b
    <2>1. /\ b = bucket /\ ~NoBucketFound /\ UpToDate(bucket[Claimed])
          /\ syncBucketEverRunningAnn(b) = UpdateBucket(bucket, Claimed, v)
      BY <1>2 DEF syncBucketEverRunningAnn, SetBucketEverRunningAnn
    <2>2. Claimed \in LogSets /\ ClaimedBucket \in BucketClaim /\ ClaimedBucket = Cached(bucket[Claimed])
      BY <2>1, ClaimedTyped, Parts DEF DataInv, MembersInv, ClaimedBucket
    <2>3. /\ v \in BucketClaim /\ v.state = ClaimedBucket.state /\ v.st = ClaimedBucket.st
          /\ v.finalizers = ClaimedBucket.finalizers
      BY <2>2 DEF BucketClaim
    <2>4. Fine(ClaimedBucket) /\ Latest(bucket[Claimed]) = ClaimedBucket /\ Ended(giving, Claimed, ClaimedBucket)
      BY <2>1, <2>2, ReadFine
    <2> HIDE DEF v
    <2>5. Fine(v) /\ Ended(giving, Claimed, v)
      BY <2>3, <2>4 DEF Fine, Ended, ContainFinalizerPrefix
    <2>6. ClaimedBucket \notin Doomed
      BY <2>4, OnlyFirst DEF Fine, Doomed
    <2> QED BY <2>1, <2>2, <2>3, <2>4, <2>5, <2>6, FineUpdate
  <1> QED BY <1>1, <1>2

(* Finalize: the claim is marked while nobody uses it, and is about to be deleted; where
   the reconciliation breaks off before that, no user deletes it instead. *)
LEMMA FreedFine ==
  ASSUME DataInv, NEW l \in LogSets, Cached(ls[l]).st = "deleting", giving[l] = NONE,
         finalizeBucket(l).ok
  PROVE  /\ May("rpc") => BucketsFine(finalizeBucket(l).to, giving)
         /\ BucketsFine(finalizeBucket(l).to, [giving EXCEPT ![l] = finalizeBucket(l).del])
  <1> DEFINE u == Claimed
             b == ClaimedBucket
             state == IF May("Retain") THEN "Released" ELSE "Deleting"
             freed == [b EXCEPT !.bindTo = NONE, !.state = state]
             done == UpdateBucket(bucket, u, freed)
             del == IF May("Retain") THEN NONE ELSE u
             g == [giving EXCEPT ![l] = del]
  <1>1. BucketsFine(bucket, giving) /\ bucket \in Buckets /\ giving \in [LogSets -> Opt(LogSets)]
    BY Parts DEF DataInv, MembersInv, RestOK
  <1>2. \/ finalizeBucket(l).to = bucket /\ finalizeBucket(l).del = NONE
        \/ /\ ~NoBucketFound /\ ~ContainFinalizerPrefix(b) /\ UpToDate(bucket[u])
           /\ finalizeBucket(l).to = done /\ finalizeBucket(l).del = del
    BY DEF finalizeBucket, Step, Updatable
  <1>3. CASE finalizeBucket(l).to = bucket /\ finalizeBucket(l).del = NONE
    <2>1. [giving EXCEPT ![l] = NONE] = giving
      BY <1>1
    <2> QED BY <1>1, <1>3, <2>1
  <1>4. CASE /\ ~NoBucketFound /\ ~ContainFinalizerPrefix(b) /\ UpToDate(bucket[u])
             /\ finalizeBucket(l).to = done /\ finalizeBucket(l).del = del
    <2>1. u \in LogSets /\ b \in BucketClaim /\ b = Cached(bucket[u])
      BY <1>1, <1>4, ClaimedTyped DEF ClaimedBucket
    <2>2. b.st # "none"
      <3>1. u \in Listed
        BY <1>4 DEF NoBucketFound, Claimed
      <3> QED BY <2>1, <3>1 DEF Listed
    <2>3. Latest(bucket[u]) = b /\ Fine(b)
      BY <1>4, <2>1, ReadFine
    <2>4. /\ freed \in BucketClaim /\ freed.st = b.st /\ freed.state = state
          /\ freed.finalizers = b.finalizers /\ freed.everRan = b.everRan
      BY <2>1 DEF BucketClaim, Opt
    <2>5. Versions(ls[First]) \subseteq Ending
      BY OnlyFirst
    <2>6. ~ContainFinalizerPrefix(freed) /\ ~ContainFinalizerPrefix(NoBucket)
      BY <1>4, <2>4 DEF ContainFinalizerPrefix, NoBucket
    <2> HIDE DEF u, b, freed
    <2>7. Fine(freed)
      BY <1>4, <2>2, <2>3, <2>4, <2>5, <2>6 DEF Fine, ContainFinalizerPrefix
    <2>8. b \in Doomed => freed \in Doomed
      BY <2>3, <2>4 DEF Doomed, Fine
    <2>9. /\ \A m \in LogSets \ {u} : done[m] = bucket[m]
          /\ LogFine(job[u], done[u])
          /\ Latest(done[u]) \in {freed, NoBucket}
          /\ Ended(giving, u, freed) => BucketsFine(done, giving)
      BY <2>1, <2>3, <2>4, <2>7, <2>8, FineUpdate
    <2> HIDE DEF done
    <2>10. CASE May("Retain")
      <3>1. Ended(giving, u, freed)
        BY <2>4, <2>6, <2>10 DEF Ended
      <3>2. g = giving
        BY <1>1, <2>10
      <3> QED BY <1>4, <2>9, <3>1, <3>2
    <2>11. CASE ~May("Retain")
      <3>1. May("rpc") => Ended(giving, u, freed)
        BY <2>6 DEF Ended, DataInv, OneUser
      <3>2. g[l] = u /\ \A k \in LogSets \ {l} : g[k] = giving[k]
        BY <1>1, <2>11
      <3> HIDE DEF g
      <3>3. ASSUME NEW m \in LogSets \ {u}
            PROVE  LogFine(job[m], done[m]) /\ Ended(g, m, Latest(done[m]))
        <4>1. Given(g, m) <=> Given(giving, m)
          BY <3>2, LogSetAssumption DEF Given
        <4> QED BY <1>1, <2>9, <4>1 DEF BucketsFine, Ended
      <3>4. Ended(g, u, Latest(done[u]))
        BY <2>6, <2>9, <3>2 DEF Ended, Given
      <3>5. BucketsFine(done, g)
        BY <2>9, <3>3, <3>4 DEF BucketsFine
      <3> QED BY <1>4, <2>9, <3>1, <3>5 DEF g
    <2> QED BY <2>10, <2>11
  <1> QED BY <1>2, <1>3, <1>4

(* The deletion of the marked claim, which nobody uses. *)
LEMMA MarkedFine ==
  ASSUME DataInv, NEW l \in LogSets, FinalizeMarked(l)
  PROVE  BucketsFine(bucket', giving')
  <1> DEFINE u == giving[l]
             b == Latest(bucket[u])
             v == [b EXCEPT !.st = "deleting"]
  <1>1. /\ BucketsFine(bucket, giving) /\ bucket \in Buckets
        /\ giving \in [LogSets -> Opt(LogSets)] /\ u \in LogSets
    BY Parts DEF DataInv, MembersInv, RestOK, FinalizeMarked, Opt
  <1>2. /\ giving'[l] = NONE /\ \A k \in LogSets \ {l} : giving'[k] = giving[k]
        /\ \A m \in LogSets : Given(giving', m) => Given(giving, m)
        /\ \A m \in LogSets \ {u} : Given(giving, m) => Given(giving', m)
    <2>1. giving' = [giving EXCEPT ![l] = NONE]
      BY DEF FinalizeMarked
    <2>2. giving'[l] = NONE /\ \A k \in LogSets \ {l} : giving'[k] = giving[k]
      BY <1>1, <2>1
    <2>3. ASSUME NEW m \in LogSets
          PROVE  /\ Given(giving', m) => Given(giving, m)
                 /\ m # u => (Given(giving, m) => Given(giving', m))
      BY <2>2, LogSetAssumption DEF Given
    <2> QED BY <2>2, <2>3
  <1>3. /\ b \in BucketClaim /\ Fine(b) /\ LogFine(job[u], bucket[u]) /\ Ended(giving, u, b)
        /\ ~ContainFinalizerPrefix(b)
    <2>1. Given(giving, u)
      BY DEF Given
    <2>2. Ended(giving, u, b) /\ b \in BucketClaim /\ Fine(b) /\ LogFine(job[u], bucket[u])
      BY <1>1, ReadFine
    <2> HIDE DEF u, b
    <2> QED BY <2>1, <2>2 DEF Ended
  <1>4. /\ v \in BucketClaim /\ v.st = "deleting" /\ v.state = b.state
        /\ v.finalizers = b.finalizers
    BY <1>3 DEF BucketClaim
  <1>5. \/ bucket' = bucket /\ (May("rpc") \/ b.st # "live")
        \/ bucket' = UpdateBucket(bucket, u, v) /\ b.st = "live"
    <2>1. PICK n \in Calls(2) : bucket' = IF n >= 1 THEN DeleteBucket(bucket, u) ELSE bucket
      BY DEF FinalizeMarked
    <2>2. ~May("rpc") => n = 2
      BY WithoutFaults
    <2> QED BY <2>1, <2>2 DEF DeleteBucket
  <1> HIDE DEF u, b, v
  <1>6. ASSUME NEW m \in LogSets \ {u}, bucket'[m] = bucket[m]
        PROVE  LogFine(job[m], bucket'[m]) /\ Ended(giving', m, Latest(bucket'[m]))
    BY <1>1, <1>2, <1>6 DEF BucketsFine, Ended
  <1>7. CASE bucket' = bucket /\ (May("rpc") \/ b.st # "live")
    <2>1. b.state = "Deleting" => b.st = "deleting" \/ May("rpc")
      BY <1>3, <1>7 DEF BucketClaim, Fine
    <2>2. Ended(giving', u, b)
      BY <1>3, <2>1 DEF Ended, DataInv, OneUser
    <2> QED BY <1>3, <1>6, <1>7, <2>2 DEF BucketsFine, b
  <1>8. CASE bucket' = UpdateBucket(bucket, u, v) /\ b.st = "live"
    <2>1. Fine(v) /\ ~ContainFinalizerPrefix(v)
      BY <1>3, <1>4, <1>8 DEF Fine, ContainFinalizerPrefix
    <2>2. Latest(bucket[u]) \notin Doomed
      BY <1>8 DEF Doomed, b
    <2>3. /\ \A m \in LogSets \ {u} : bucket'[m] = bucket[m]
          /\ LogFine(job[u], bucket'[u])
          /\ Latest(bucket'[u]) \in {v, NoBucket}
      BY <1>1, <1>4, <1>8, <2>1, <2>2, FineUpdate
    <2>4. Ended(giving', u, v)
      BY <1>4, <2>1 DEF Ended
    <2>5. Ended(giving', u, Latest(bucket'[u]))
      BY <2>3, <2>4, NoBucketFine
    <2> QED BY <1>6, <2>3, <2>5 DEF BucketsFine
  <1> QED BY <1>5, <1>7, <1>8

(* The BucketClaim controller, and a user who deletes a claim. *)
LEMMA ControllerFine ==
  ASSUME DataInv, NEW u \in LogSets, FinalizeBucketClaim(u)
  PROVE  /\ BucketsFine(bucket', giving)
         /\ \/ job' = job
            \/ job' = [job EXCEPT ![u] = "cm"] /\ job[u] \in {"none", "cm"}
            \/ /\ job' = [job EXCEPT ![u] = "running"] /\ job[u] \in {"none", "cm"}
               /\ Latest(bucket[u]) \in Doomed /\ UNCHANGED bucket
  <1> DEFINE b == Cached(bucket[u])
             noted(x) == [b EXCEPT !.cond = x]
             released == [b EXCEPT !.finalizers = @ \ {BucketDataFinalizer}]
  <1>1. b \in BucketClaim /\ Fine(b) /\ b.st = "deleting"
    BY ReadFine DEF FinalizeBucketClaim
  <1>2. \A x \in {"InUse", "JobFailure", "FailCreateJob"} :
          /\ noted(x) \in BucketClaim /\ noted(x).st = b.st /\ noted(x).state = b.state
          /\ noted(x).finalizers = b.finalizers /\ noted(x).everRan = b.everRan
    BY <1>1 DEF BucketClaim
  <1>3. /\ released \in BucketClaim /\ released.st = b.st /\ released.state = b.state
        /\ released.finalizers = b.finalizers \ {BucketDataFinalizer}
    BY <1>1 DEF BucketClaim
  <1>4. b.finalizers \in SUBSET ({BucketDataFinalizer} \cup BucketUsers)
    BY <1>1 DEF BucketClaim
  <1>5. \/ (\E x \in {"InUse", "JobFailure", "FailCreateJob"} : TryUpdate(u, noted(x))) /\ job' = job
        \/ /\ \E x \in {"InUse", "JobFailure", "FailCreateJob"} : TryUpdate(u, noted(x))
           /\ job' = [job EXCEPT ![u] = "cm"] /\ job[u] \in {"none", "cm"}
        \/ /\ job' = [job EXCEPT ![u] = "running"] /\ job[u] \in {"none", "cm"}
           /\ b.state = "Deleting" /\ b.everRan /\ UNCHANGED bucket
        \/ /\ TryUpdate(u, released) /\ job' = job
           /\ b.state = "Released" \/ (b.state = "Deleting" /\ (~b.everRan \/ job[u] = "done"))
    <2> HIDE DEF noted, released
    <2>1. \/ TryUpdate(u, noted("InUse")) /\ job' = job
          \/ b.state = "Released" /\ ReleaseBucket(u, b)
          \/ b.state = "Deleting" /\ ~b.everRan /\ ReleaseBucket(u, b)
          \/ b.state = "Deleting" /\ b.everRan /\ job[u] \in {"none", "cm"} /\ createNewJob(u, b)
          \/ b.state = "Deleting" /\ job[u] = "done" /\ ReleaseBucket(u, b)
          \/ TryUpdate(u, noted("JobFailure")) /\ job' = job
      BY DEF FinalizeBucketClaim, isJobSuccess, isJobFailure, noted
    <2>2. ReleaseBucket(u, b) => TryUpdate(u, released) /\ job' = job
      BY DEF ReleaseBucket, released
    <2>3. createNewJob(u, b) =>
            \/ job' = [job EXCEPT ![u] = "running"] /\ UNCHANGED bucket
            \/ job' = [job EXCEPT ![u] = "cm"] /\ TryUpdate(u, noted("FailCreateJob"))
      BY DEF createNewJob, noted
    <2> HIDE DEF b
    <2> QED BY <2>1, <2>2, <2>3
  <1> HIDE DEF b, noted, released
  <1>6. UpToDate(bucket[u]) => Latest(bucket[u]) = b /\ Ended(giving, u, b)
    BY ReadFine DEF b
  <1>7. ASSUME NEW x \in {"InUse", "JobFailure", "FailCreateJob"}, TryUpdate(u, noted(x))
        PROVE  BucketsFine(bucket', giving)
    <2> DEFINE v == noted(x)
    <2>1. /\ v \in BucketClaim /\ v.st = b.st /\ v.state = b.state
          /\ v.finalizers = b.finalizers /\ v.everRan = b.everRan
      BY <1>2
    <2> HIDE DEF v
    <2>2. Fine(v)
      BY <1>1, <2>1 DEF Fine, ContainFinalizerPrefix
    <2>3. Updatable(u, v) => Ended(giving, u, v) /\ (Latest(bucket[u]) \in Doomed => v \in Doomed)
      BY <1>6, <2>1 DEF Updatable, Ended, Doomed, ContainFinalizerPrefix
    <2> QED BY <1>7, <2>1, <2>2, <2>3, FineTry DEF v
  <1>8. ASSUME TryUpdate(u, released),
               b.state = "Released" \/ (b.state = "Deleting" /\ (~b.everRan \/ job[u] = "done"))
        PROVE  BucketsFine(bucket', giving)
    <2>1. Fine(released) \/ released.finalizers = {}
      <3>1. CASE b.state = "Released"
        BY <1>1, <1>3, <3>1 DEF Fine
      <3>2. CASE b.state = "Deleting"
        <4>1. b.finalizers \cap BucketUsers = {}
          BY <1>1, <3>2 DEF Fine, ContainFinalizerPrefix
        <4> QED BY <1>3, <1>4, <4>1
      <3> QED BY <1>8, <3>1, <3>2
    <2>2. Updatable(u, released) => Ended(giving, u, released)
      BY <1>1, <1>3, <1>6 DEF Updatable, Ended, ContainFinalizerPrefix
    <2>3. Updatable(u, released) => (Latest(bucket[u]) \in Doomed => job[u] = "done")
      BY <1>6, <1>8 DEF Updatable, Doomed
    <2> QED BY <1>1, <1>3, <1>8, <2>1, <2>2, <2>3, FineTry
  <1>9. ASSUME job[u] \in {"none", "cm"}, b.state = "Deleting", b.everRan
        PROVE  Latest(bucket[u]) \in Doomed
    <2>1. b \in Doomed
      BY <1>1, <1>9 DEF Fine, Doomed
    <2> QED BY <1>9, <2>1, ReadFine DEF b
  <1>10. BucketsFine(bucket', giving) \/ bucket' = bucket
    BY <1>5, <1>7, <1>8
  <1> QED BY <1>5, <1>9, <1>10 DEF DataInv

(* The claims, whatever LogSets, users and the controller do to them. *)
LEMMA BucketStepFine ==
  ASSUME DataInv, [Next]_vars, ~BucketController
  PROVE  BucketsFine(bucket', giving') /\ job' = job
  <1>1. BucketsFine(bucket, giving) /\ bucket \in Buckets
    BY Parts DEF DataInv, MembersInv
  <1>2. ASSUME NEW l \in LogSets, Observe(l)
        PROVE  BucketsFine(bucket', giving)
    <2>1. Cached(ls[l]).st = "live" /\ (bucket' = bucket \/ \E c : ObserveRest(l, c))
      BY <1>2 DEF Observe
    <2>2. BucketsFine(syncBucketClaim(l).to, giving)
      BY <2>1, SyncFine
    <2>3. BucketsFine(syncBucketEverRunningAnn(syncBucketClaim(l).to), giving)
      BY <2>1, <2>2, EverRanFine
    <2>4. bucket' \in {bucket, syncBucketClaim(l).to, syncBucketEverRunningAnn(syncBucketClaim(l).to)}
      BY <2>1 DEF ObserveRest
    <2> QED BY <1>1, <2>2, <2>3, <2>4
  <1>3. ASSUME NEW l \in LogSets, Finalize(l)
        PROVE  BucketsFine(bucket', giving')
    <2> DEFINE freed == finalizeBucket(l)
               g == [giving EXCEPT ![l] = freed.del]
    <2>1. PICK n \in Calls(5) :
            /\ Cached(ls[l]).st = "deleting" /\ giving[l] = NONE
            /\ \/ bucket' = bucket /\ giving' = giving
               \/ freed.ok /\ n = 5 /\ bucket' = freed.to /\ giving' = g
               \/ freed.ok /\ n # 5 /\ bucket' = freed.to /\ giving' = giving
      BY <1>3 DEF Finalize
    <2>2. n # 5 => May("rpc")
      BY WithoutFaults
    <2>3. freed.ok => BucketsFine(freed.to, g) /\ (May("rpc") => BucketsFine(freed.to, giving))
      BY <2>1, FreedFine
    <2> HIDE DEF freed, g
    <2> QED BY <1>1, <2>1, <2>2, <2>3
  <1>4. ASSUME NEW l \in LogSets, CNObserves(l) \/ CNFinalizes(l)
        PROVE  BucketsFine(bucket', giving)
    <2>1. \/ AddBucketFinalizer(<<"CN", l>>) /\ \A k \in LogSets : giving[k] = NONE
          \/ RemoveBucketFinalizer(<<"CN", l>>)
          \/ bucket' = bucket
      BY <1>4 DEF CNObserves, CNFinalizes, DataInv, OneUser
    <2>2. <<"CN", l>> \in BucketUsers
      BY DEF BucketUsers
    <2> QED BY <1>1, <2>1, <2>2, UsersFine
  <1>5. ASSUME NEW l \in LogSets, Deliver(l)
        PROVE  BucketsFine(bucket', giving)
    <2>1. bucket' = bucket \/ (~UpToDate(bucket[l]) /\ bucket' = [bucket EXCEPT ![l] = Tail(@)])
      BY <1>5 DEF Deliver, DeliverBucket
    <2>2. CASE bucket' = bucket
      BY <1>1, <2>2
    <2>3. CASE ~UpToDate(bucket[l]) /\ bucket' = [bucket EXCEPT ![l] = Tail(@)]
      <3>1. bucket[l] \in Logs(BucketClaim) /\ LogFine(job[l], bucket[l])
        BY ReadFine
      <3>2. Len(bucket[l]) > 1
        BY <2>3, <3>1, Behind
      <3>3. LogFine(job[l], Tail(bucket[l])) /\ Latest(Tail(bucket[l])) = Latest(bucket[l])
        BY <3>1, <3>2, FineDeliver
      <3>4. bucket'[l] = Tail(bucket[l]) /\ \A m \in LogSets \ {l} : bucket'[m] = bucket[m]
        BY <1>1, <2>3 DEF Buckets
      <3> QED BY <1>1, <3>3, <3>4 DEF BucketsFine
    <2> QED BY <2>1, <2>2, <2>3
  <1>6. ASSUME NEW u \in LogSets, May("kubectl"), UserDeletesBucket(u)
        PROVE  BucketsFine(bucket', giving)
    <2> DEFINE b == Latest(bucket[u])
               v == [b EXCEPT !.st = "deleting"]
    <2>1. b \in BucketClaim /\ Fine(b) /\ Ended(giving, u, b) /\ b.st = "live"
      BY <1>6, ReadFine DEF UserDeletesBucket
    <2>2. /\ v \in BucketClaim /\ v.st = "deleting" /\ v.state = b.state
          /\ v.finalizers = b.finalizers
      BY <2>1 DEF BucketClaim
    <2>3. bucket' = UpdateBucket(bucket, u, v)
      BY <1>6, <2>1 DEF UserDeletesBucket, DeleteBucket
    <2>4. b \notin Doomed /\ (b.state = "Deleting" => ~ContainFinalizerPrefix(b))
      BY <1>6, <2>1 DEF Ended, Doomed
    <2> HIDE DEF v
    <2>5. Fine(v) /\ Ended(giving, u, v)
      BY <2>1, <2>2, <2>4 DEF Fine, Ended, ContainFinalizerPrefix
    <2> QED BY <2>2, <2>3, <2>4, <2>5, FineUpdate
  <1>7. CASE UserDeletesClaim
    <2>1. PICK u \in LogSets : May("kubectl") /\ UserDeletesBucket(u)
      BY <1>7 DEF UserDeletesClaim
    <2>2. job' = job /\ giving' = giving
      BY <1>7, <2>1 DEF UserDeletesClaim, UserDeletesBucket
    <2> QED BY <1>6, <2>1, <2>2
  <1>8. CASE ~UserDeletesClaim
    <2>1. job' = job
      BY <1>8 DEF Next, vars, Observe, Finalize, FinalizeMarked, UserUpdates, UserDeletes, CNObserves,
             CNDeleted, CNFinalizes, StatefulSetPods, StatefulSetUpdated, PodsStart, PodFails, StoreTimeout,
             Deliver, DeliverBucket, BucketController
    <2>2. CASE \E l \in LogSets : Finalize(l) \/ FinalizeMarked(l)
      BY <1>3, <2>1, <2>2, MarkedFine
    <2>3. CASE ~\E l \in LogSets : Finalize(l) \/ FinalizeMarked(l)
      <3>1. giving' = giving
        BY <1>8, <2>3 DEF Next, vars, Observe, UserUpdates, UserDeletes, CNObserves, CNDeleted, CNFinalizes,
               StatefulSetPods, StatefulSetUpdated, PodsStart, PodFails, StoreTimeout, Deliver,
               BucketController
      <3>2. \/ bucket' = bucket
            \/ \E l \in LogSets : Observe(l) \/ CNObserves(l) \/ CNFinalizes(l) \/ Deliver(l)
        BY <1>8, <2>3 DEF Next, vars, UserUpdates, UserDeletes, CNDeleted, StatefulSetPods,
               StatefulSetUpdated, PodsStart, PodFails, StoreTimeout, BucketController
      <3>3. BucketsFine(bucket', giving)
        BY <1>1, <1>2, <1>4, <1>5, <3>2
      <3> QED BY <2>1, <3>1, <3>3
    <2> QED BY <2>2, <2>3
  <1> QED BY <1>7, <1>8

LEMMA DataInductive == DataInv /\ [Next]_vars => DataInv'
  <1> SUFFICES ASSUME DataInv, [Next]_vars PROVE DataInv'
    OBVIOUS
  <1>1. MembersInv' /\ LogInv
    BY MembersInductive DEF DataInv, MembersInv
  <1>2. env'.may = env.may
    <2>1. env' = env \/ \E n : env' = [env EXCEPT !.disturbances = n]
      BY DEF Next, vars, Observe, Finalize, FinalizeMarked, UserUpdates, UserDeletes, CNObserves,
             CNDeleted, CNFinalizes, StatefulSetPods, StatefulSetUpdated, PodsStart, PodFails, StoreTimeout, Deliver,
             BucketController, UserDeletesClaim
    <2> QED BY <1>1, <2>1, Parts DEF RestOK
  <1>3. \A x : May(x)' <=> May(x)
    BY <1>2 DEF May
  <1>4. OneUser'
    BY <1>3 DEF DataInv, OneUser
  <1>5. Alone' /\ (Versions(ls[First]) \subseteq Ending => Versions(ls'[First]) \subseteq Ending)
    <2>1. MembersInv
      BY DEF DataInv
    <2>2. \A m \in LogSets :
            /\ Versions(ls[m]) \subseteq Ending => Versions(ls'[m]) \subseteq Ending
            /\ Versions(ls[m]) \subseteq Absent => Versions(ls'[m]) \subseteq Absent
      BY <2>1, LsSettled
    <2> QED BY <2>2, LogSetAssumption DEF DataInv, Alone
  <1>6. ASSUME NEW b, Fine(b)
        PROVE  Fine(b)'
    BY <1>3, <1>5, <1>6 DEF Fine, ContainFinalizerPrefix
  <1>7. BucketsFine(bucket', giving')
    <2>1. CASE (\E u \in LogSets : FinalizeBucketClaim(u)) /\ giving' = giving
      BY <2>1, ControllerFine
    <2>2. CASE (\E u \in LogSets : JobEnds(u)) /\ giving' = giving
      BY <2>2 DEF JobEnds, DataInv
    <2> QED BY <2>1, <2>2, BucketStepFine DEF BucketController
  <1>8. ASSUME NEW u \in LogSets
        PROVE  /\ job'[u] # "done" => job[u] # "done"
               /\ job'[u] = "running" => job[u] = "running" \/ Latest(bucket'[u]) \in Doomed
    <2>1. job \in [LogSets -> Jobs]
      BY <1>1, Parts DEF RestOK
    <2>2. CASE job' = job
      BY <2>2
    <2>3. ASSUME NEW w \in LogSets, FinalizeBucketClaim(w)
          PROVE  /\ job'[u] # "done" => job[u] # "done"
                 /\ job'[u] = "running" => job[u] = "running" \/ Latest(bucket'[u]) \in Doomed
      BY <2>1, <2>3, ControllerFine
    <2>4. ASSUME NEW w \in LogSets, JobEnds(w)
          PROVE  (job'[u] # "done" => job[u] # "done") /\ (job'[u] = "running" => job[u] = "running")
      BY <2>1, <2>4 DEF JobEnds
    <2> QED BY <2>2, <2>3, <2>4, BucketStepFine DEF BucketController
  <1>9. ASSUME NEW u \in LogSets
        PROVE  (LogFine(job[u], bucket[u]) /\ Ended(giving, u, Latest(bucket[u])))'
    <2>1. LogFine(job[u], bucket'[u]) /\ Ended(giving', u, Latest(bucket'[u]))
      BY <1>7 DEF BucketsFine
    <2>2. \A b \in Versions(bucket'[u]) : Fine(b)'
      BY <1>6, <2>1 DEF LogFine
    <2>3. LogFine(job[u], bucket[u])'
      BY <1>8, <2>1, <2>2 DEF LogFine
    <2>4. Ended(giving, u, Latest(bucket[u]))'
      BY <1>3, <2>1 DEF Ended
    <2> QED BY <2>3, <2>4
  <1> QED BY <1>1, <1>4, <1>5, <1>9 DEF DataInv, BucketsFine

(* There is one LogSet, and no claim, at the start. *)
LEMMA InitData ==
  ASSUME \A s \in Scenarios : s \cap {"second", "late"} = {} /\ ~({"rpc", "kubectl"} \subseteq s)
  PROVE  Init => DataInv
  <1> SUFFICES ASSUME Init PROVE DataInv
    OBVIOUS
  <1>1. MembersInv
    BY InitMembers
  <1>2. OneUser
    <2>1. env.may \in Scenarios
      BY DEF Init
    <2> QED BY <2>1 DEF OneUser, May
  <1>3. ASSUME NEW l \in LogSets \ {First}
        PROVE  Versions(ls[l]) \subseteq Absent
    <2> DEFINE r == [NewLogSet(LogShardReplicas) EXCEPT
                       !.st = IF l = First \/ May("second") THEN "live" ELSE "none"]
    <2>1. ls[l] = <<r>> /\ ls[l] \in Logs(LogSetObj)
      BY <1>1, Parts DEF Init, LsOK, MembersInv
    <2>2. r.st = "none"
      BY <1>2 DEF NewLogSet, OneUser
    <2> HIDE DEF r
    <2>3. Versions(ls[l]) = {r} /\ Versions(ls[l]) \subseteq LogSetObj
      BY <2>1, FreshVersions, EndVersions
    <2> QED BY <2>2, <2>3 DEF Absent
  <1>4. ASSUME NEW u \in LogSets
        PROVE  LogFine(job[u], bucket[u]) /\ Ended(giving, u, Latest(bucket[u]))
    <2>1. bucket[u] = <<NoBucket>> /\ job[u] = "none"
      BY DEF Init
    <2>2. bucket[u] \in Logs(BucketClaim) /\ Latest(bucket[u]) = NoBucket /\ Versions(bucket[u]) = {NoBucket}
      BY <2>1, NoBucketFine, FreshLog, FreshVersions
    <2>3. Lasting(bucket[u], Doomed)
      BY <2>1, NoBucketFine DEF Lasting
    <2> QED BY <2>1, <2>2, <2>3, NoBucketFine DEF LogFine
  <1> QED BY <1>1, <1>2, <1>3, <1>4 DEF DataInv, Alone, BucketsFine

(* The Job that deletes the data of a bucket does not run while a LogSet, a DNSet or a
   CNSet uses it: for any cache lag, whatever calls fail or whatever claims users delete,
   but not both, as long as no other LogSet has the same bucket and no set puts its
   finalizer on the claim between the two calls that mark and delete it.  A mark whose
   deletion is to come or has failed lets the sets in again, and another LogSet takes the
   claim while it is deleted (src/pkg/controllers/bucketclaim/controller.go:64,
   src/pkg/controllers/logset/bucketclaim.go:49, 90, 132, 135). *)
THEOREM DataOutlivesItsUsers ==
  ASSUME \A s \in Scenarios : s \cap {"second", "late"} = {} /\ ~({"rpc", "kubectl"} \subseteq s)
  PROVE  Spec => []DataKeptInUse
  <1>1. DataInv => DataKeptInUse
    <2> SUFFICES ASSUME DataInv, NEW u \in LogSets, job[u] = "running"
                 PROVE  Latest(bucket[u]).state # "InUse" /\ ~ContainFinalizerPrefix(Latest(bucket[u]))
      BY DEF DataKeptInUse
    <2>1. Latest(bucket[u]) \in Doomed /\ Fine(Latest(bucket[u]))
      BY ReadFine DEF LogFine
    <2> QED BY <2>1 DEF Doomed, Fine
  <1>2. Init => DataInv
    BY InitData
  <1> QED BY <1>1, <1>2, DataInductive, PTL DEF Spec
=============================================================================
