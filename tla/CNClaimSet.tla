----------------------------- MODULE CNClaimSet -----------------------------
(***************************************************************************)
(* The CNClaimSet controller: one claim set, its claims, and the worker    *)
(* that scales and rolls them out (src/pkg/controllers/cnclaimset).        *)
(*                                                                         *)
(* The worker decides on copies from the informer cache.  What keeps it    *)
(* from creating or deleting claims twice is a count: the owned claims in  *)
(* the cache against the count its last reconciliation stored in the       *)
(* status, and, if they differ, against an uncached list.                  *)
(***************************************************************************)
EXTENDS ObjectStore, FiniteSets

CONSTANTS
  MaxClaims,    \* bound: claims of the set that exist at one time
  MaxReplicas,  \* bound: replicas a user may ask for
  MaxChanges,   \* bound: changes a user makes to the set
  MaxFailures,  \* bound: failing calls and restarts of the operator
  Disruptions   \* the sets of things that may happen besides in a behaviour, of
                \*   "failure"  a call fails or the operator restarts
                \*   "stale"    the cached claim set may be out of date, too
                \*   "rollout"  the pool outdates the pods of the first claims
                \*   "loss"     the pods of the first claims disappear
                \*   "migrate"  the first claims are migrated

ASSUME ClaimSetAssumption ==
  /\ MaxReplicas \in Nat
  /\ MaxClaims \in Nat
  /\ MaxChanges \in Nat
  /\ MaxFailures \in Nat
  /\ MaxReplicas < MaxClaims

VARIABLES
  set,     \* the CNClaimSet
  claims,  \* its CNClaims, by instance id
  w,       \* the worker: its step and the variables of Sync or Finalize
  env,     \* what may happen in this behaviour, and the failures so far
  counted  \* history: the status counts what earlier reconciliations left, since
           \* all of them stored their count, none began with an old set, and no
           \* claim was lost; a cache in sync makes up for it

vars == <<set, claims, w, env, counted>>

-----------------------------------------------------------------------------
(* Objects *)

Ids == 1 .. MaxClaims

Phases == {"Pending", "Bound", "Outdated", "Lost"}

ClaimObj == [ st     : {"none", "live", "deleting"},
              phase  : Phases,    \* Pending, also before there is a status
              pod    : BOOLEAN,   \* spec.podName is set and the pod is there
              source : BOOLEAN,   \* spec.sourcePod is set: migrating
              first  : BOOLEAN ]  \* bound at the start: only these are
                                  \* outdated, lost or migrated

SetObj == [ st         : {"live", "deleting", "gone"},
            generation : 0 .. MaxChanges,
            replicas   : 0 .. MaxReplicas,
            status     : 0 .. MaxClaims ]

NoClaim == [st |-> "none", phase |-> "Pending", pod |-> FALSE, source |-> FALSE,
            first |-> FALSE]

\* A claim made from the template.
makeClaim == [NoClaim EXCEPT !.st = "live"]

FirstClaim == [makeClaim EXCEPT !.phase = "Bound", !.pod = TRUE, !.first = TRUE]

\* Nobody reads more of a claim that is being deleted.
Deleting == [NoClaim EXCEPT !.st = "deleting"]

Blank == [i \in Ids |-> NoClaim]

Resting == [pc |-> "rest", replicas |-> 0, fresh |-> FALSE,
            oc |-> Blank, del |-> {}, new |-> 0, lost |-> {}, n |-> 0]

Worker == [ pc       : {"rest", "check", "scale", "calls", "purge", "unfinalize"},
            replicas : 0 .. MaxReplicas,    \* ctx.Obj.Spec.Replicas
            fresh    : BOOLEAN,             \* ctx.Obj is still current
            oc       : [Ids -> ClaimObj],   \* the cached claims
            del      : SUBSET Ids,          \* claims still to be deleted
            new      : 0 .. MaxClaims,      \* claims still to be created
            lost     : SUBSET Ids,          \* claims still to be cleaned
            n        : 0 .. MaxClaims ]     \* owned claims after scaling

TypeOK ==
  /\ set \in Logs(SetObj)
  /\ claims \in [Ids -> Logs(ClaimObj)]
  /\ w \in Worker
  /\ env \in [may : Disruptions, failures : 0 .. MaxFailures]
  /\ counted \in BOOLEAN

-----------------------------------------------------------------------------
(* Reading and writing *)

Set      == Latest(set)
Claim(i) == Latest(claims[i])

CachedClaims == [i \in Ids |-> Cached(claims[i])]
ActualClaims == [i \in Ids |-> Claim(i)]

WriteClaim(i, v) == claims' = [claims EXCEPT ![i] = Write(@, v)]

WriteSet(v) == set' = IF "stale" \in env.may THEN Write(set, v) ELSE <<v>>

InSync == UpToDate(set) /\ \A i \in Ids : UpToDate(claims[i])

Return == w' = Resting

IsReady(c)   == c.phase \in {"Bound", "Outdated"}
IsUpdated(c) == c.phase = "Bound"

\* listOwnedClaims divides the listed claims into owned and lost ones (lost:
\* being deleted, too).
owned(list) == {i \in Ids : list[i].st = "live" /\ list[i].phase # "Lost"}
lost(list)  == {i \in Ids : list[i].st # "none"} \ owned(list)

\* Deletes a claim; NotFound is no error.
Delete(i) ==
  IF Claim(i).st = "live" THEN WriteClaim(i, Deleting) ELSE UNCHANGED claims

-----------------------------------------------------------------------------
(* Sync *)

\* Mutant: the cache is taken for current.
TrustCache ==
  /\ w.pc = "rest"
  /\ Cached(set).st = "live"
  /\ w' = [Resting EXCEPT !.pc = "scale", !.oc = CachedClaims,
                          !.replicas = Cached(set).replicas, !.fresh = UpToDate(set)]
  /\ counted' = (InSync \/ (counted /\ UpToDate(set)))
  /\ UNCHANGED <<set, claims, env>>

\* Sync lists the claims in the cache and compares their number with the
\* status.
Sync ==
  /\ w.pc = "rest"
  /\ Cached(set).st = "live"
  /\ w' = [Resting EXCEPT !.pc = IF Cardinality(owned(CachedClaims)) # Cached(set).status
                                 THEN "check" ELSE "scale",
                          !.oc = CachedClaims,
                          !.replicas = Cached(set).replicas,
                          !.fresh = UpToDate(set)]
  /\ counted' = (InSync \/ (counted /\ UpToDate(set)))
  /\ UNCHANGED <<set, claims, env>>

\* ... and, if they differ, with a list from the API server.
CheckCache ==
  LET SameSize(S, T) == Cardinality(S) = Cardinality(T)
  IN  /\ w.pc = "check"
      /\ IF /\ SameSize(owned(w.oc), owned(ActualClaims))
            /\ SameSize(lost(w.oc), lost(ActualClaims))
         THEN w' = [w EXCEPT !.pc = "scale"]
         ELSE Return
      /\ UNCHANGED <<set, claims, env, counted>>

claimPhaseToOrdinal == [Pending |-> 0, Lost |-> 1, Outdated |-> 2, Bound |-> 3]

\* Mutant: updated claims go before outdated ones.
UpdatedFirst(a, b) ==
  \/ ~a.pod /\ b.pod
  \/ a.pod = b.pod /\ claimPhaseToOrdinal[a.phase] > claimPhaseToOrdinal[b.phase]

\* Mutant: the claims are not sorted.
Unsorted(a, b) == FALSE

\* a is deleted before b.  Ties are broken by the pods (podDeletionOrder) and
\* by age: either may go first.
claimDeletionOrder(a, b) ==
  \/ ~a.pod /\ b.pod
  \/ a.pod = b.pod /\ claimPhaseToOrdinal[a.phase] < claimPhaseToOrdinal[b.phase]

\* The claims scaleIn may select: the first ones, and none that migrates.
scaleIn(count) ==
  LET cps == {i \in owned(w.oc) : ~w.oc[i].source}
  IN  {S \in SUBSET cps :
         /\ Cardinality(S) = IF count < Cardinality(cps) THEN count ELSE Cardinality(cps)
         /\ \A i \in S, j \in cps \ S : ~claimDeletionOrder(w.oc[j], w.oc[i])}

\* Mutant: scaleOut takes a negative count at its word.
ScaleUnclamped ==
  LET current == Cardinality(owned(w.oc))
  IN  /\ w.pc = "scale"
      /\ w' = [w EXCEPT !.pc = "calls", !.new = w.replicas - current, !.n = w.replicas]
      /\ UNCHANGED <<set, claims, env, counted>>

\* The decision.  With more ready claims than replicas the surplus goes; with
\* enough of them, some outdated, one more claim is made; otherwise the
\* missing ones are.  A surplus of claims that are not ready makes scaleOut's
\* count negative, and nothing happens.
scale ==
  LET current == Cardinality(owned(w.oc))
      ready   == {i \in owned(w.oc) : IsReady(w.oc[i])}
      updated == {i \in ready : IsUpdated(w.oc[i])}
      want    == IF Cardinality(ready) >= w.replicas /\ Cardinality(updated) < w.replicas
                 THEN w.replicas + 1 ELSE w.replicas
      clean   == {i \in lost(w.oc) : w.oc[i].st = "live"}
  IN  /\ w.pc = "scale"
      /\ IF Cardinality(ready) > w.replicas
         THEN \E S \in scaleIn(current - w.replicas) :
                w' = [w EXCEPT !.pc = "calls", !.del = S, !.lost = clean,
                               !.n = current - Cardinality(S),
                               !.oc = [i \in Ids |-> IF i \in S THEN @[i] ELSE NoClaim]]
         ELSE LET new == IF want > current THEN want - current ELSE 0
              IN  w' = [w EXCEPT !.pc = "calls", !.new = new, !.lost = clean,
                                 !.n = current + new, !.oc = Blank]
      /\ UNCHANGED <<set, claims, env, counted>>

\* One deletion of scaleIn, in its order.
DeleteSurplus(i) ==
  /\ w.pc = "calls" /\ i \in w.del
  /\ \A j \in w.del : ~claimDeletionOrder(w.oc[j], w.oc[i])
  /\ Delete(i)
  /\ w' = [w EXCEPT !.del = @ \ {i}]
  /\ UNCHANGED <<set, env, counted>>

\* A random id that scaleOut does not know is taken to be new, and it does
\* not matter which one it is.
genAvailableID(i) ==
  LET free == {j \in Ids : claims[j] = <<NoClaim>> /\ j \notin w.lost}
  IN  i \in free /\ \A j \in free : i <= j

\* One creation of scaleOut.
CreateOwned(i) ==
  /\ w.pc = "calls" /\ w.new > 0
  /\ genAvailableID(i)
  /\ WriteClaim(i, makeClaim)
  /\ w' = [w EXCEPT !.new = @ - 1]
  /\ UNCHANGED <<set, env, counted>>

\* The ids of the model, unlike the code's, may run out.
NoIdLeft ==
  /\ w.pc = "calls" /\ w.new > 0
  /\ \A i \in Ids : ~genAvailableID(i)
  /\ counted' = FALSE
  /\ Return
  /\ UNCHANGED <<set, claims, env>>

\* One deletion of cleanClaims.
CleanClaim(i) ==
  /\ w.pc = "calls" /\ w.del = {} /\ w.new = 0
  /\ i \in w.lost
  /\ Delete(i)
  /\ w' = [w EXCEPT !.lost = @ \ {i}]
  /\ UNCHANGED <<set, env, counted>>

\* The status is stored unless the set has changed since it was read.
UpdateStatus ==
  /\ w.pc = "calls" /\ w.del = {} /\ w.new = 0 /\ w.lost = {}
  /\ IF w.fresh THEN WriteSet([Set EXCEPT !.status = w.n]) ELSE UNCHANGED set
  /\ Return
  /\ counted' = (counted /\ w.fresh)
  /\ UNCHANGED <<claims, env>>

-----------------------------------------------------------------------------
(* Finalize *)

\* Finalize is done when the cache shows no claim, otherwise all are deleted
\* and it is called again.
Finalize ==
  /\ w.pc = "rest"
  /\ Cached(set).st = "deleting"
  /\ LET all == owned(CachedClaims) \cup lost(CachedClaims)
     IN  w' = [Resting EXCEPT !.pc = IF all = {} THEN "unfinalize" ELSE "purge", !.del = all]
  /\ UNCHANGED <<set, claims, env, counted>>

PurgeClaim(i) ==
  /\ w.pc = "purge" /\ i \in w.del
  /\ Delete(i)
  /\ w' = [w EXCEPT !.del = @ \ {i}]
  /\ UNCHANGED <<set, env, counted>>

PurgeDone ==
  /\ w.pc = "purge" /\ w.del = {}
  /\ Return
  /\ UNCHANGED <<set, claims, env, counted>>

RemoveFinalizer ==
  /\ w.pc = "unfinalize"
  /\ WriteSet([Set EXCEPT !.st = "gone"])
  /\ Return
  /\ UNCHANGED <<claims, env, counted>>

-----------------------------------------------------------------------------
(* The claim controller, the pool, the garbage collector and users *)

ChangeClaim(i, v) ==
  /\ WriteClaim(i, v)
  /\ UNCHANGED <<set, w, env, counted>>

\* The claim controller has found a pod for a claim: its update of the pod, of
\* which this set sees nothing, and its patch of the claim (two calls in CNClaim).
BindPod(i) ==
  /\ Claim(i).st = "live" /\ Claim(i).phase = "Pending"
  /\ ChangeClaim(i, [Claim(i) EXCEPT !.pod = TRUE, !.phase = "Bound"])

Outdate(i) ==
  /\ "rollout" \in env.may
  /\ Claim(i).st = "live" /\ Claim(i).first /\ Claim(i).phase = "Bound"
  /\ ChangeClaim(i, [Claim(i) EXCEPT !.phase = "Outdated"])

PodLost(i) ==
  /\ "loss" \in env.may
  /\ Claim(i).st = "live" /\ Claim(i).first /\ Claim(i).pod
  /\ ChangeClaim(i, [Claim(i) EXCEPT !.pod = FALSE])

ClaimLost(i) ==
  /\ Claim(i).st = "live" /\ IsReady(Claim(i)) /\ ~Claim(i).pod
  /\ WriteClaim(i, [Claim(i) EXCEPT !.phase = "Lost"])
  /\ counted' = FALSE
  /\ UNCHANGED <<set, w, env>>

Migrate(i) ==
  /\ "migrate" \in env.may
  /\ Claim(i).st = "live" /\ Claim(i).first /\ IsReady(Claim(i))
  /\ ChangeClaim(i, [Claim(i) EXCEPT !.source = ~@])

\* The claim controller has finalized a claim.
ClaimGone(i) ==
  /\ Claim(i).st = "deleting"
  /\ ChangeClaim(i, NoClaim)

\* The garbage collector deletes claims whose set is gone.
CollectClaim(i) ==
  /\ Set.st = "gone" /\ Claim(i).st = "live"
  /\ ChangeClaim(i, Deleting)

ChangeSet(v) ==
  /\ Set.st = "live" /\ Set.generation < MaxChanges
  /\ WriteSet([v EXCEPT !.generation = @ + 1])
  /\ w' = [w EXCEPT !.fresh = FALSE]
  /\ UNCHANGED <<claims, env, counted>>

Rescale(n) ==
  /\ Set.replicas # n
  /\ ChangeSet([Set EXCEPT !.replicas = n])

DeleteSet == ChangeSet([Set EXCEPT !.st = "deleting"])

DeliverSet ==
  /\ ~UpToDate(set)
  /\ set' = Tail(set)
  /\ UNCHANGED <<claims, w, env, counted>>

DeliverClaim(i) ==
  /\ ~UpToDate(claims[i])
  /\ claims' = [claims EXCEPT ![i] = Tail(@)]
  /\ UNCHANGED <<set, w, env, counted>>

\* The reconciliation ends early.
Fail ==
  /\ "failure" \in env.may
  /\ w.pc # "rest" /\ env.failures < MaxFailures
  /\ env' = [env EXCEPT !.failures = @ + 1]
  /\ Return

\* A call fails: the reconciliation returns an error and is requeued.
Abort ==
  /\ Fail
  /\ counted' = FALSE
  /\ UNCHANGED <<set, claims>>

\* A new process lists everything before it reconciles.
Restart ==
  /\ Fail
  /\ set' = <<Set>>
  /\ claims' = [i \in Ids |-> <<Claim(i)>>]
  /\ UNCHANGED counted

-----------------------------------------------------------------------------

\* A set at rest: new, or with the claims it asks for.
Init ==
  \E n \in 0 .. MaxReplicas :
    /\ \E m \in {0, n} :
         /\ set = <<[st |-> "live", generation |-> 0, replicas |-> n, status |-> m]>>
         /\ claims = [i \in Ids |-> <<IF i <= m THEN FirstClaim ELSE NoClaim>>]
    /\ w = Resting
    /\ env \in [may : Disruptions, failures : {0}]
    /\ counted = TRUE

Reconcile ==
  \/ Sync \/ CheckCache \/ scale \/ NoIdLeft \/ UpdateStatus
  \/ Finalize \/ PurgeDone \/ RemoveFinalizer
  \/ \E i \in Ids : DeleteSurplus(i) \/ CreateOwned(i) \/ CleanClaim(i) \/ PurgeClaim(i)

Environment ==
  \/ DeleteSet \/ DeliverSet \/ Abort \/ Restart
  \/ \E n \in 0 .. MaxReplicas : Rescale(n)
  \/ \E i \in Ids :
       \/ BindPod(i) \/ Outdate(i) \/ PodLost(i) \/ ClaimLost(i)
       \/ Migrate(i) \/ ClaimGone(i) \/ CollectClaim(i) \/ DeliverClaim(i)

Next == Reconcile \/ Environment

Spec == Init /\ [][Next]_vars

-----------------------------------------------------------------------------
(* Properties *)

\* While the status counts what there is, a claim is made only if there are no
\* more than the set asked for, although scaleOut counts claims in a cache that
\* is behind: the surge claim of a roll-out is made once, and a missing claim
\* is not replaced twice.
NoSecondSurge ==
  [][counted /\ w.pc = "calls" /\ w'.pc = "calls" /\ w'.new < w.new
     => Cardinality(owned(ActualClaims)) <= w.replicas]_vars

\* While the status counts what there is, scale-in leaves as many ready claims
\* as the set asked for: it never deletes a claim in use in place of one that
\* waits, nor twice because the cache has not seen the first time.
ScaleInKeepsReady ==
  [][counted /\ w.pc = "calls" /\ w'.pc = "calls" /\ w'.del # w.del
     => Cardinality({j \in owned(ActualClaims)' : IsReady(Claim(j)')}) >= w.replicas]_vars

-----------------------------------------------------------------------------
(* Liveness *)

\* Every change wakes the worker, watches deliver, and the claim controller
\* ends deletions and notices lost pods.
FairSpec ==
  /\ Spec
  /\ WF_vars(Reconcile)
  /\ WF_vars(DeliverSet)
  /\ \A i \in Ids : WF_vars(DeliverClaim(i))
  /\ WF_vars(\E i \in Ids : ClaimGone(i) \/ ClaimLost(i))

\* ... and the pool has a pod for every claim.
ServedSpec == FairSpec /\ WF_vars(\E i \in Ids : BindPod(i))

AsksFor(n) == Set.st = "live" /\ Set.replicas = n

\* A set that asks for n claims, and whose claims are not being migrated,
\* ends up with n claims that are bound and up to date: a roll-out ends, lost
\* claims are replaced, a surplus goes.  The deletion of a set ends as well,
\* whatever state its claims are in.
Settles ==
  /\ \A n \in 0 .. MaxReplicas :
       <>[](AsksFor(n) /\ \A i \in Ids : ~Claim(i).source)
       => <>[](/\ Cardinality(owned(ActualClaims)) = n
               /\ \A i \in owned(ActualClaims) : IsUpdated(Claim(i)))
  /\ (Set.st = "deleting") ~> (Set.st = "gone")
=============================================================================
