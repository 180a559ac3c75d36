------------------------------- MODULE Bucket -------------------------------
(***************************************************************************)
(* BucketClaims: the objects that stand for the S3 bucket of a LogSet, the *)
(* helpers through which LogSet, DNSet and CNSet use them, and the         *)
(* controller that deletes the data of a bucket                            *)
(* (src/api/core/v1alpha1/bucketclaim_helpers.go,                          *)
(* src/pkg/controllers/bucketclaim).                                       *)
(*                                                                         *)
(* All LogSets of this module name the same bucket, so that the label of   *)
(* every claim is the same.  A claim is named after the LogSet instance    *)
(* that created it.                                                        *)
(***************************************************************************)
EXTENDS ObjectStore, FiniteSets, Optional

CONSTANT LogSets  \* instances of LogSets

VARIABLES bucket,   \* the BucketClaims, by the instance that creates them
          job       \* the config map and the Job that delete the data

BucketDataFinalizer == <<"data", NONE>>
BucketUsers == {<<"CN", l>> : l \in LogSets}

BucketClaim == [ st         : {"none", "live", "deleting"},
                 finalizers : SUBSET ({BucketDataFinalizer} \cup BucketUsers),
                 bindTo     : Opt(LogSets),   \* by the name of the LogSet
                 state      : {"InUse", "Released", "Deleting"},
                 everRan    : BOOLEAN,   \* annotation any-instance-running
                 cond       : {"ok", "InUse", "JobFailure", "FailCreateJob"} ]

NoBucket == [st |-> "none", finalizers |-> {}, bindTo |-> NONE, state |-> "InUse",
             everRan |-> FALSE, cond |-> "ok"]

Jobs == {"none", "cm", "running", "done", "failed"}

BucketTypeOK ==
  /\ bucket \in [LogSets -> Logs(BucketClaim)]
  /\ job \in [LogSets -> Jobs]

-----------------------------------------------------------------------------
(* The label selects the claims in the cache; more than one is an error.   *)

Listed == {u \in LogSets : Cached(bucket[u]).st # "none"}
BucketError == Cardinality(Listed) > 1
NoBucketFound == Listed = {}
Claimed == CHOOSE u \in Listed : TRUE
ClaimedBucket == Cached(bucket[Claimed])

\* An Update of a claim with the copy v made from the cached one.  It fails
\* if that is out of date, or adds a finalizer to a claim that is being
\* deleted; a claim that is being deleted goes with its last finalizer.
Updatable(u, v) ==
  /\ UpToDate(bucket[u])
  /\ Latest(bucket[u]).st = "deleting" => v.finalizers \subseteq Latest(bucket[u]).finalizers

UpdateBucket(b, u, v) ==
  [b EXCEPT ![u] = Write(@, IF v.st = "deleting" /\ v.finalizers = {} THEN NoBucket ELSE v)]

\* Delete sets the deletion timestamp; the finalizers keep the claim.
DeleteBucket(b, u) ==
  IF Latest(b[u]).st = "live"
  THEN UpdateBucket(b, u, [Latest(b[u]) EXCEPT !.st = "deleting"])
  ELSE b

\* One Update that fails if it cannot be made.
TryUpdate(u, v) ==
  bucket' = IF Updatable(u, v) THEN UpdateBucket(bucket, u, v) ELSE bucket

-----------------------------------------------------------------------------
(* What the sets that use the bucket do with it, once they have found the  *)
(* LogSet and its S3 provider.                                             *)

AddBucketFinalizer(f) ==
  IF BucketError \/ NoBucketFound THEN UNCHANGED bucket
  ELSE TryUpdate(Claimed, [ClaimedBucket EXCEPT !.finalizers = @ \cup {f}])

RemoveBucketFinalizer(f) ==
  IF BucketError \/ NoBucketFound THEN UNCHANGED bucket
  ELSE TryUpdate(Claimed, [ClaimedBucket EXCEPT !.finalizers = @ \ {f}])

\* The removal has taken place, or there was nothing to remove.
Removed(f) ==
  /\ ~BucketError
  /\ NoBucketFound \/ f \notin ClaimedBucket.finalizers \/ UpToDate(bucket[Claimed])

SetBucketEverRunningAnn(b, u, v) ==
  UpdateBucket(b, u, [v EXCEPT !.everRan = TRUE])

ContainFinalizerPrefix(v) == v.finalizers \cap BucketUsers # {}

-----------------------------------------------------------------------------
(* The BucketClaim controller: there is nothing to observe, all is done    *)
(* when a claim is deleted.                                                *)

\* The Job is created after the config map with its script; where that is
\* there already, a failure came between them.
createNewJob(u, b) ==
  \/ job' = [job EXCEPT ![u] = "running"] /\ UNCHANGED bucket
  \/ /\ job' = [job EXCEPT ![u] = "cm"]
     /\ TryUpdate(u, [b EXCEPT !.cond = "FailCreateJob"])

isJobSuccess(u) == job[u] = "done"
isJobFailure(u) == job[u] = "failed"

\* Mutant: the finalizer is left.
KeepBucket(u, b) ==
  TryUpdate(u, b) /\ UNCHANGED job

ReleaseBucket(u, b) ==
  TryUpdate(u, [b EXCEPT !.finalizers = @ \ {BucketDataFinalizer}]) /\ UNCHANGED job

FinalizeBucketClaim(u) ==
  LET b == Cached(bucket[u])
  IN /\ b.st = "deleting"
     /\ \/ /\ b.state = "InUse"
           /\ TryUpdate(u, [b EXCEPT !.cond = "InUse"])
           /\ UNCHANGED job
        \/ /\ b.state = "Released"
           /\ ReleaseBucket(u, b)
        \/ /\ b.state = "Deleting" /\ ~b.everRan
           /\ ReleaseBucket(u, b)
        \/ /\ b.state = "Deleting" /\ b.everRan
           /\ \/ job[u] \in {"none", "cm"} /\ createNewJob(u, b)
              \/ isJobSuccess(u) /\ ReleaseBucket(u, b)
              \/ /\ isJobFailure(u)
                 /\ TryUpdate(u, [b EXCEPT !.cond = "JobFailure"])
                 /\ UNCHANGED job

\* The Job deletes the data of the bucket, or gives up.
JobEnds(u) ==
  /\ job[u] = "running"
  /\ job' \in {[job EXCEPT ![u] = "done"], [job EXCEPT ![u] = "failed"]}
  /\ UNCHANGED bucket

\* A user deletes a claim.
UserDeletesBucket(u) ==
  /\ Latest(bucket[u]).st = "live"
  /\ bucket' = DeleteBucket(bucket, u)
  /\ UNCHANGED job

\* A watch event of a claim reaches the cache.
DeliverBucket(u) ==
  /\ ~UpToDate(bucket[u])
  /\ bucket' = [bucket EXCEPT ![u] = Tail(@)]
  /\ UNCHANGED job
=============================================================================
