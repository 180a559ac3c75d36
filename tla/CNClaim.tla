------------------------------ MODULE CNClaim ------------------------------
(***************************************************************************)
(* The CNClaim controller (pkg/controllers/cnclaim): CNClaims compete for  *)
(* the CN pods of a pool.  One worker reconciles one claim at a time       *)
(* (MaxConcurrentReconciles is left at its default), each API call or RPC  *)
(* of a reconciliation is a step of its own, and every read is answered by *)
(* an informer cache that may be behind the API server.                    *)
(*                                                                         *)
(* Around the worker run, in any order: the users, the cnstore controller  *)
(* (which drains and registers pods), the pool controller (which scales    *)
(* in), Kruise and the nodes, and restarts of the operator.                *)
(***************************************************************************)
EXTENDS ObjectStore, FiniteSets

CONSTANTS
  Claims,       \* names of CNClaims
  Pods,         \* names of CN pods
  Pools,        \* CNPools whose labels match the claims' selector
  PoolOf,       \* the pool label of a pod
  None,         \* an empty name, a missing label
  Disruptions   \* what else may happen, see AllDisruptions

AllDisruptions ==
  { "rpc",      \* a call of HAKeeper or of the API server fails
    "restart",  \* the operator crashes and starts again
    "loss",     \* a pod is deleted by somebody else
    "dead",     \* a pod ends up Succeeded or Unknown
    "inplace",  \* Kruise updates a pod in place
    "rollout",  \* the pool rolls out a new CNSet
    "migrate",  \* a user moves a claim to another pod
    "requeue" } \* the cnstore controller handles a pod again before the
                \* cache has the phase it patched last

ASSUME ClaimAssumption ==
  /\ None \notin Claims \cup Pods \cup Pools
  /\ PoolOf \in [Pods -> Pools]
  /\ Disruptions \subseteq AllDisruptions

VARIABLES
  pods,     \* pods[p]: the pod, as an ObjectStore log
  claims,   \* claims[c]: the claim, as an ObjectStore log
  ha,       \* ha[p]: the work state HAKeeper records for the CN of p
  plan,     \* plan[p]: the phase the cnstore controller is about to patch
  w         \* the worker: the reconciliation under way

vars == <<pods, claims, ha, plan, w>>

-----------------------------------------------------------------------------
(* Types *)

PodPhases == {"Unknown", "Idle", "Bound", "Draining", "Terminating", "Gone"}

\* phase and by are labels; a deleted pod is "Gone" and nobody reads the
\* claimed-by label it keeps here.
PodObj == [ phase  : PodPhases,            \* pod-phase label
            by     : Claims \cup {None},   \* claimed-by label
            normal : BOOLEAN,              \* Kruise lifecycle state is Normal
            dead   : BOOLEAN,              \* status.phase Succeeded or Unknown
            old    : BOOLEAN ]             \* outdated label

ClaimPhases == {"New", "Pending", "Bound", "Lost", "Outdated"}

ClaimObj == [ st      : {"unborn", "live", "deleting", "gone"},
              podName : Pods \cup {None},
              source  : Pods \cup {None},  \* spec.sourcePod
              pool    : Pools \cup {None}, \* spec.poolName
              phase   : ClaimPhases ]      \* status.phase

Unborn == [ st |-> "unborn", podName |-> None, source |-> None,
            pool |-> None, phase |-> "New" ]

NewClaim == [Unborn EXCEPT !.st = "live"]

Steps == {"rest", "own", "working", "patch", "bound", "nominate", "clear",
          "status", "migrate", "complete", "owned", "drain", "release",
          "unfinalize"}

Worker == [ pc    : Steps,
            c     : Claims \cup {None},     \* the claim reconciled
            bind  : BOOLEAN,                \* in Bind rather than in Sync
            obj   : ClaimObj,               \* ctx.Obj
            fresh : BOOLEAN,                \* obj has the current version
            todo  : SUBSET Pods,            \* pods still to be tried
            cur   : SUBSET Pods,            \* ... whose copies are current
            pod   : Pods \cup {None},       \* the pod being worked on
            heir  : [Pods -> Claims \cup {None}],
            stuck : SUBSET Pods ]           \* pods nobody can inherit

Resting == [ pc |-> "rest", c |-> None, bind |-> FALSE, obj |-> Unborn,
             fresh |-> FALSE, todo |-> {}, cur |-> {}, pod |-> None,
             heir |-> [p \in Pods |-> None], stuck |-> {} ]

\* Every call of a reconciliation knows the claim and the pod it is about.
TypeOK ==
  /\ pods \in [Pods -> Logs(PodObj)]
  /\ claims \in [Claims -> Logs(ClaimObj)]
  /\ ha \in [Pods -> {"Working", "Draining"}]
  /\ plan \in [Pods -> {"none", "Idle", "Terminating"}]
  /\ w \in Worker
  /\ w.pc # "rest" => w.c \in Claims
  /\ w.pc \in {"working", "patch", "drain", "release"} => w.pod \in Pods
  /\ w.pc = "migrate" => w.obj.source \in Pods

-----------------------------------------------------------------------------
(* Reading and writing *)

Pod(p)   == Latest(pods[p])
Claim(c) == Latest(claims[c])

SeenPod(p)   == Cached(pods[p])
SeenClaim(c) == Cached(claims[c])

Present(cl) == cl.st \in {"live", "deleting"}
Live(c)     == Claim(c).st = "live"
Exists(p)   == Pod(p).phase # "Gone"
IsReady(cl) == cl.phase \in {"Bound", "Outdated"}

BoundTo(pod, c) == pod.phase = "Bound" /\ pod.by = c

\* The pod is bound to c, or was when it disappeared.
HeldBy(pod, c) == pod.by = c /\ pod.phase \in {"Bound", "Gone"}

WritePod(p, v)   == pods' = [pods EXCEPT ![p] = Write(@, v)]
WriteClaim(c, v) == claims' = [claims EXCEPT ![c] = Write(@, v)]

\* A write of somebody else makes the worker's copy of the object stale.
PodTouched(p)   == w' = [w EXCEPT !.cur = @ \ {p}]
ClaimTouched(c) == w' = [w EXCEPT !.fresh = @ /\ w.c # c]

\* The reconciliation returns, with or without an error, and is requeued.
Return == w' = Resting

Goto(step) == w' = [w EXCEPT !.pc = step]

\* Mutant: other claims are not looked at.
NoPodClaimIndex(p, c) == {}

\* The other CNClaims that refer to p in the cache.
buildPodClaimIndex(p, c) ==
  {d \in Claims \ {c} : SeenClaim(d).st = "live" /\ SeenClaim(d).podName = p}

\* Mutant: only the pod the claim refers to is taken for its own.
ListReferred(c) == {p \in Pods : BoundTo(SeenPod(p), c) /\ SeenClaim(c).podName = p}

\* Bound pods the cache shows as claimed by c.
listOwned(c) == {p \in Pods : BoundTo(SeenPod(p), c)}

-----------------------------------------------------------------------------
(* The worker: Observe, Bind and Sync *)

\* Observe reads the claim from the cache; rec is where it goes from there.
Begin(c, rec, phase) ==
  /\ w.pc = "rest"
  /\ w' = [rec EXCEPT !.c = c, !.obj = [SeenClaim(c) EXCEPT !.phase = phase],
                      !.fresh = UpToDate(claims[c])]
  /\ UNCHANGED <<pods, claims, ha, plan>>

\* A claim without a pod that may be reconciled: Lost is terminal.
MayBind(cl) == cl.st = "live" /\ cl.phase # "Lost" /\ cl.podName = None

MaySync(cl) == cl.st = "live" /\ cl.phase # "Lost" /\ cl.podName # None

\* Pods selectCN may take, in an order its sort decides: idle, of the
\* nominated pool, not outdated, and not referred to by another claim.
Candidate(c, p) ==
  /\ SeenPod(p).phase = "Idle"
  /\ SeenClaim(c).pool \in {None, PoolOf[p]}
  /\ ~SeenPod(p).old
  /\ buildPodClaimIndex(p, c) = {}

\* The next step with pod p once syncBindPod has looked at its lifecycle.
syncBindPod(rec, p, normal) ==
  IF normal THEN [rec EXCEPT !.pc = "working", !.pod = p, !.todo = {}, !.cur = {}]
            ELSE Resting

Binding == [Resting EXCEPT !.bind = TRUE]

\* Bind when an earlier, broken reconciliation left a pod behind.
BindOrphan(c, p) ==
  /\ MayBind(SeenClaim(c))
  /\ p \in listOwned(c)
  /\ SeenPod(p).normal
  /\ Begin(c, syncBindPod(Binding, p, TRUE), "Pending")

\* Bind without an orphan: list the idle pods.
Bind(c) ==
  LET idle == {p \in Pods : Candidate(c, p)}
  IN  /\ MayBind(SeenClaim(c))
      /\ listOwned(c) = {}
      /\ Begin(c, [Binding EXCEPT !.pc   = IF idle = {} THEN "nominate" ELSE "own",
                                  !.todo = idle,
                                  !.cur  = {p \in idle : UpToDate(pods[p])}],
               "Pending")

\* Sync of a claim whose pod is missing from the cache: it is given up once
\* the claim has been bound for waitCacheTimeout.
SyncGone(c) ==
  /\ MaySync(SeenClaim(c))
  /\ SeenPod(SeenClaim(c).podName).phase = "Gone"
  /\ Begin(c, [Resting EXCEPT !.pc = "clear"], SeenClaim(c).phase)

\* Sync of a claim whose pod is Succeeded or Unknown.
SyncDead(c) ==
  LET pod == SeenPod(SeenClaim(c).podName)
  IN  /\ MaySync(SeenClaim(c))
      /\ pod.phase # "Gone" /\ pod.dead
      /\ Begin(c, [Resting EXCEPT !.pc = "status"], "Lost")

\* Sync of a claim whose pod is there: own it again and keep it working.
Sync(c) ==
  LET p == SeenClaim(c).podName
  IN  /\ MaySync(SeenClaim(c))
      /\ SeenPod(p).phase # "Gone" /\ ~SeenPod(p).dead
      /\ Begin(c, [Resting EXCEPT !.pc = "own", !.todo = {p},
                                  !.cur = {q \in {p} : UpToDate(pods[q])}],
               SeenClaim(c).phase)

\* Mutant: the pod is patched without its resource version.
BlindUpdate(p) == TRUE

\* ctx.Update of a pod copy succeeds if the copy has the current version.
UpdateSucceeds(p) == p \in w.cur

OwnedBy(pod, c) == [pod EXCEPT !.phase = "Bound", !.by = c]

\* ensureOwnership succeeds: "succeed means claimed".
ensureOwnership(p) ==
  /\ w.pc = "own" /\ p \in w.todo
  /\ UpdateSucceeds(p)
  /\ WritePod(p, OwnedBy(Pod(p), w.c))
  /\ w' = syncBindPod(w, p, Pod(p).normal)
  /\ UNCHANGED <<claims, ha, plan>>

\* ensureOwnership meets a conflict: Bind tries the next pod, Sync gives up.
OwnershipConflict(p) ==
  /\ w.pc = "own" /\ p \in w.todo
  /\ ~UpdateSucceeds(p)
  /\ w' = IF ~w.bind THEN Resting
          ELSE [w EXCEPT !.pc = IF w.todo = {p} THEN "nominate" ELSE "own",
                         !.todo = @ \ {p}]
  /\ UNCHANGED <<pods, claims, ha, plan>>

\* Mutant: a bound pod is assumed to be working.
AssumeWorking ==
  /\ w.pc = "working"
  /\ Goto("patch")
  /\ UNCHANGED <<pods, claims, ha, plan>>

\* patchStore(Working) for the pod.
SetWorking ==
  /\ w.pc = "working"
  /\ ha' = [ha EXCEPT ![w.pod] = "Working"]
  /\ Goto("patch")
  /\ UNCHANGED <<pods, claims, plan>>

\* The merge patch sets the fields that differ from the in-memory copy, and
\* refreshes the copy.
Bound(cl) ==
  [cl EXCEPT !.podName = IF w.obj.podName = w.pod THEN @ ELSE w.pod,
             !.pool = IF w.obj.pool = PoolOf[w.pod] THEN @ ELSE PoolOf[w.pod]]

PatchClaim ==
  /\ w.pc = "patch"
  /\ IF ~Present(Claim(w.c))
     THEN Return /\ UNCHANGED claims
     ELSE /\ WriteClaim(w.c, Bound(Claim(w.c)))
          /\ w' = [w EXCEPT !.pc = "bound", !.fresh = TRUE,
                            !.obj = Bound(Claim(w.c))]
  /\ UNCHANGED <<pods, ha, plan>>

\* UpdateStatus at the end of syncBindPod; Sync goes on with a migration.
UpdateStatus ==
  LET bound == [w.obj EXCEPT !.phase = IF @ \in {"New", "Pending"} THEN "Bound" ELSE @]
  IN  /\ w.pc = "bound"
      /\ IF w.fresh
         THEN /\ WriteClaim(w.c, bound)
              /\ w' = IF ~w.bind /\ bound.source # None
                      THEN [w EXCEPT !.pc = "migrate", !.obj = bound, !.pod = None]
                      ELSE Resting
         ELSE Return /\ UNCHANGED claims
      /\ UNCHANGED <<pods, ha, plan>>

\* No pod is to be had: nominate a pool if the claim has none, else report
\* Pending.
Nominate(pool) ==
  /\ w.pc = "nominate"
  /\ IF w.obj.pool # None
     THEN Goto("status") /\ UNCHANGED claims
     ELSE /\ IF w.fresh THEN WriteClaim(w.c, [Claim(w.c) EXCEPT !.pool = pool])
                        ELSE UNCHANGED claims
          /\ Return
  /\ UNCHANGED <<pods, ha, plan>>

\* Sync clears the reference to a pod that is gone; Lost is set in memory.
ClearLost ==
  /\ w.pc = "clear"
  /\ IF ~Present(Claim(w.c))
     THEN Return /\ UNCHANGED claims
     ELSE LET cleared == [Claim(w.c) EXCEPT !.podName = None]
          IN  /\ WriteClaim(w.c, cleared)
              /\ w' = [w EXCEPT !.pc = "status", !.fresh = TRUE,
                                !.obj = [cleared EXCEPT !.phase = "Lost"]]
  /\ UNCHANGED <<pods, ha, plan>>

\* The status in memory is written when the reconciliation is over.
SyncStatus ==
  /\ w.pc = "status"
  /\ IF w.fresh THEN WriteClaim(w.c, [Claim(w.c) EXCEPT !.phase = w.obj.phase])
                ELSE UNCHANGED claims
  /\ Return
  /\ UNCHANGED <<pods, ha, plan>>

-----------------------------------------------------------------------------
(* The worker: migration *)

\* migrate looks at the source pod once propagationDelay has passed.
MigrateObserve ==
  LET source == SeenPod(w.obj.source)
  IN  /\ w.pc = "migrate"
      /\ w' = CASE source.phase \in {"Gone", "Terminating", "Idle"} ->
                     [w EXCEPT !.pc = "complete"]
                [] source.phase = "Bound" ->
                     [w EXCEPT !.pc = "drain", !.pod = w.obj.source]
                [] source.phase \in {"Draining", "Unknown"} -> Resting
      /\ UNCHANGED <<pods, claims, ha, plan>>

\* Before propagationDelay has passed nothing is done.
MigrateWait ==
  /\ w.pc = "migrate"
  /\ Return
  /\ UNCHANGED <<pods, claims, ha, plan>>

completeMigration ==
  /\ w.pc = "complete"
  /\ IF w.fresh THEN WriteClaim(w.c, [Claim(w.c) EXCEPT !.source = None])
                ELSE UNCHANGED claims
  /\ Return
  /\ UNCHANGED <<pods, ha, plan>>

-----------------------------------------------------------------------------
(* The worker: Finalize *)

\* Mutant: the list is not restricted to the claim's own pods.
FinalizeAll(c) ==
  LET bound == {p \in Pods : SeenPod(p).phase = "Bound"}
  IN  /\ SeenClaim(c).st = "deleting"
      /\ Begin(c, [Resting EXCEPT !.pc   = IF bound = {} THEN "unfinalize" ELSE "owned",
                                  !.todo = bound],
               SeenClaim(c).phase)

\* List the owned pods and who else refers to them.
Finalize(c) ==
  LET owned == listOwned(c)
      holders(p) == buildPodClaimIndex(p, c)
  IN  /\ SeenClaim(c).st = "deleting"
      /\ Begin(c, [Resting EXCEPT
                     !.pc    = IF owned = {} THEN "unfinalize" ELSE "owned",
                     !.todo  = owned,
                     !.stuck = {p \in owned : \/ Cardinality(holders(p)) > 1
                                              \/ \E d \in holders(p) : ~IsReady(SeenClaim(d))},
                     !.heir  = [p \in Pods |-> IF p \in owned /\ holders(p) # {}
                                               THEN CHOOSE d \in holders(p) : TRUE
                                               ELSE None]],
               SeenClaim(c).phase)

\* The loop has handled pod p; Finalize reports FALSE when all are done.
NextOwned(p) ==
  w' = IF w.todo = {p} THEN Resting
       ELSE [w EXCEPT !.pc = "owned", !.todo = @ \ {p}, !.pod = None]

\* Several claims, or one that is not ready, refer to the pod: give up.
FinalizeStuck(p) ==
  /\ w.pc = "owned" /\ p \in w.todo \cap w.stuck
  /\ Return
  /\ UNCHANGED <<pods, claims, ha, plan>>

\* One other claim refers to the pod: it becomes the owner.  The phase does
\* not differ from the listed copy, so the merge patch leaves it out.
transferPodOwnership(p) ==
  /\ w.pc = "owned" /\ p \in w.todo \ w.stuck
  /\ w.heir[p] # None
  /\ IF Exists(p) THEN WritePod(p, [Pod(p) EXCEPT !.by = w.heir[p]]) /\ NextOwned(p)
                  ELSE Return /\ UNCHANGED pods
  /\ UNCHANGED <<claims, ha, plan>>

\* Nobody else refers to the pod: reclaim it.
FinalizeReclaim(p) ==
  /\ w.pc = "owned" /\ p \in w.todo \ w.stuck
  /\ w.heir[p] = None
  /\ w' = [w EXCEPT !.pc = "drain", !.pod = p]
  /\ UNCHANGED <<pods, claims, ha, plan>>

\* reclaimCN, first half: patchStore(Draining).  A CN that HAKeeper does not
\* know is drained already.
SetDraining ==
  /\ w.pc = "drain"
  /\ ha' = [ha EXCEPT ![w.pod] = "Draining"]
  /\ Goto("release")
  /\ UNCHANGED <<pods, claims, plan>>

\* Mutants: the phase label is removed, or left as it is.
ReclaimUnlabelled ==
  /\ w.pc = "release"
  /\ IF Exists(w.pod)
     THEN WritePod(w.pod, [Pod(w.pod) EXCEPT !.phase = "", !.by = None]) /\ Return
     ELSE Return /\ UNCHANGED pods
  /\ UNCHANGED <<claims, ha, plan>>

ReclaimKeepsLabels ==
  /\ w.pc = "release"
  /\ Return
  /\ UNCHANGED <<pods, claims, ha, plan>>

\* reclaimCN, second half: the pod leaves the claim and starts to drain.
reclaimCN ==
  /\ w.pc = "release"
  /\ IF Exists(w.pod)
     THEN /\ WritePod(w.pod, [Pod(w.pod) EXCEPT !.phase = "Draining", !.by = None])
          /\ IF w.pod \in w.todo THEN NextOwned(w.pod) ELSE Return
     ELSE Return /\ UNCHANGED pods
  /\ UNCHANGED <<claims, ha, plan>>

\* No owned pod is left in the cache: the finalizer goes, and the claim.
RemoveFinalizer ==
  /\ w.pc = "unfinalize"
  /\ IF Claim(w.c).st = "deleting" THEN WriteClaim(w.c, [Unborn EXCEPT !.st = "gone"])
                                   ELSE UNCHANGED claims
  /\ Return
  /\ UNCHANGED <<pods, ha, plan>>

-----------------------------------------------------------------------------
(* The rest of the operator and its environment *)

\* The copies the cnstore controller may have of a pod: the cached one it
\* starts with, or the current one when a patch on the way (finalizer, start
\* of the drain, scores) differed from that copy, was sent and refreshed it.
\* The Idle versions of a pod are the controller's own patches.  It comes
\* back to the pod after resyncInterval, when the cache has caught up with
\* them, unless an event that arrives during the pass requeues the pod at
\* once.
StoreCopies(p) ==
  {Pod(p)} \cup {pod \in {SeenPod(p)} :
                  \/ "requeue" \in Disruptions
                  \/ \A v \in Versions(pods[p]) : v.phase # "Idle"}

\* The cnstore controller decides on its copy of the pod: an Unknown pod that
\* has registered or a Draining one that has drained becomes Idle, one that
\* cannot be drained or reused Terminating.
StoreDecide(p, phase) ==
  /\ plan[p] = "none"
  /\ \E pod \in StoreCopies(p) :
       \/ pod.phase = "Unknown" /\ phase = "Idle"
       \/ pod.phase = "Draining" /\ phase \in {"Idle", "Terminating"}
  /\ plan' = [plan EXCEPT ![p] = phase]
  /\ UNCHANGED <<pods, claims, ha, w>>

\* ... and patches the label later, without a precondition.
StorePatch(p) ==
  /\ plan[p] # "none"
  /\ plan' = [plan EXCEPT ![p] = "none"]
  /\ IF Exists(p)
     THEN WritePod(p, [Pod(p) EXCEPT !.phase = plan[p]]) /\ PodTouched(p)
     ELSE UNCHANGED <<pods, w>>
  /\ UNCHANGED <<claims, ha>>

\* Mutant: the pod is patched without its resource version.
ScaleInBlind(p) ==
  /\ SeenPod(p).phase \in {"Unknown", "Idle"}
  /\ WritePod(p, [Pod(p) EXCEPT !.phase = "Terminating"])
  /\ PodTouched(p)
  /\ UNCHANGED <<claims, ha, plan>>

\* The pool controller scales in with an optimistic Update, so the phase it
\* decided on is still the current one.
PoolScaleIn(p) ==
  /\ Pod(p).phase \in {"Unknown", "Idle"}
  /\ WritePod(p, [Pod(p) EXCEPT !.phase = "Terminating"])
  /\ PodTouched(p)
  /\ UNCHANGED <<claims, ha, plan>>

\* The pool controller marks the claim of a pod of a legacy CNSet.
reclaimLegacyCNClaim(p) ==
  LET c == SeenPod(p).by
  IN  /\ "rollout" \in Disruptions
      /\ SeenPod(p).phase = "Bound" /\ c # None
      /\ Present(SeenClaim(c)) /\ SeenClaim(c).phase # "Outdated"
      /\ Present(Claim(c))
      /\ WriteClaim(c, [Claim(c) EXCEPT !.phase = "Outdated"])
      /\ ClaimTouched(c)
      /\ UNCHANGED <<pods, ha, plan>>

\* Kruise copies the outdated label of a legacy CNSet to its pods.
LabelOutdated(p) ==
  /\ "rollout" \in Disruptions
  /\ Exists(p) /\ ~Pod(p).old
  /\ WritePod(p, [Pod(p) EXCEPT !.old = TRUE])
  /\ PodTouched(p)
  /\ UNCHANGED <<claims, ha, plan>>

\* A pod is deleted: a Terminating one by its CNSet, any by somebody else.
PodDeleted(p) ==
  /\ Exists(p)
  /\ Pod(p).phase = "Terminating" \/ "loss" \in Disruptions
  /\ WritePod(p, [Pod(p) EXCEPT !.phase = "Gone"])
  /\ PodTouched(p)
  /\ UNCHANGED <<claims, ha, plan>>

PodDies(p) ==
  /\ "dead" \in Disruptions
  /\ Exists(p) /\ ~Pod(p).dead
  /\ WritePod(p, [Pod(p) EXCEPT !.dead = TRUE])
  /\ PodTouched(p)
  /\ UNCHANGED <<claims, ha, plan>>

\* Kruise prepares a pod for an in-place update (the cnstore controller then
\* drains it), or has finished one.
PodLifecycle(p) ==
  /\ "inplace" \in Disruptions
  /\ Exists(p)
  /\ WritePod(p, [Pod(p) EXCEPT !.normal = ~@])
  /\ PodTouched(p)
  /\ UNCHANGED <<claims, ha, plan>>

OnPreparingUpdate(p) ==
  /\ Exists(p) /\ ~Pod(p).normal
  /\ ha' = [ha EXCEPT ![p] = "Draining"]
  /\ UNCHANGED <<pods, claims, plan, w>>

\* A claim is created under a name that has not been used before.
CreateClaim(c) ==
  /\ Claim(c).st = "unborn"
  /\ WriteClaim(c, NewClaim)
  /\ ClaimTouched(c)
  /\ UNCHANGED <<pods, ha, plan>>

DeleteClaim(c) ==
  /\ Live(c)
  /\ WriteClaim(c, [Claim(c) EXCEPT !.st = "deleting"])
  /\ ClaimTouched(c)
  /\ UNCHANGED <<pods, ha, plan>>

\* A user moves a claim to a pod that is idle.
MigrateClaim(c, p) ==
  /\ "migrate" \in Disruptions
  /\ Live(c) /\ Claim(c).podName # None /\ Claim(c).source = None
  /\ Pod(p).phase = "Idle"
  /\ WriteClaim(c, [Claim(c) EXCEPT !.source = Claim(c).podName, !.podName = p])
  /\ ClaimTouched(c)
  /\ UNCHANGED <<pods, ha, plan>>

\* The cache receives the next version of an object.
DeliverPod(p) ==
  /\ Len(pods[p]) > 1
  /\ pods' = [pods EXCEPT ![p] = Tail(@)]
  /\ UNCHANGED <<claims, ha, plan, w>>

DeliverClaim(c) ==
  /\ Len(claims[c]) > 1
  /\ claims' = [claims EXCEPT ![c] = Tail(@)]
  /\ UNCHANGED <<pods, ha, plan, w>>

\* A call fails, before or after it had its effect: the reconciliation
\* returns the error.
Abort ==
  /\ "rpc" \in Disruptions
  /\ w.pc # "rest"
  /\ Return
  /\ UNCHANGED <<pods, claims, ha, plan>>

\* The operator starts again, with caches listed anew.
Restart ==
  /\ "restart" \in Disruptions
  /\ pods' = [p \in Pods |-> <<Pod(p)>>]
  /\ claims' = [c \in Claims |-> <<Claim(c)>>]
  /\ plan' = [p \in Pods |-> "none"]
  /\ w' = Resting
  /\ UNCHANGED ha

-----------------------------------------------------------------------------
(* Specification *)

Init ==
  /\ pods = [p \in Pods |-> <<[phase |-> "Unknown", by |-> None, normal |-> TRUE,
                               dead |-> FALSE, old |-> FALSE]>>]
  /\ claims = [c \in Claims |-> <<Unborn>>]
  /\ ha = [p \in Pods |-> "Working"]
  /\ plan = [p \in Pods |-> "none"]
  /\ w = Resting

\* Observe: one reconciliation of c starts.
Observe(c) ==
  \/ Bind(c) \/ (\E p \in Pods : BindOrphan(c, p))
  \/ Sync(c) \/ SyncGone(c) \/ SyncDead(c)
  \/ Finalize(c)

\* The reconciliation under way takes its next step.
Step ==
  \/ \E p \in Pods : \/ ensureOwnership(p) \/ OwnershipConflict(p)
                     \/ FinalizeStuck(p) \/ transferPodOwnership(p)
                     \/ FinalizeReclaim(p)
  \/ \E pool \in Pools : Nominate(pool)
  \/ SetWorking \/ PatchClaim \/ UpdateStatus
  \/ ClearLost \/ SyncStatus
  \/ MigrateObserve \/ MigrateWait \/ completeMigration
  \/ SetDraining \/ reclaimCN \/ RemoveFinalizer

Environment ==
  \/ \E p \in Pods : \/ StorePatch(p)
                     \/ \E phase \in {"Idle", "Terminating"} : StoreDecide(p, phase)
                     \/ PoolScaleIn(p) \/ reclaimLegacyCNClaim(p) \/ LabelOutdated(p)
                     \/ PodDeleted(p) \/ PodDies(p) \/ PodLifecycle(p)
                     \/ OnPreparingUpdate(p) \/ DeliverPod(p)
  \/ \E c \in Claims : \/ CreateClaim(c) \/ DeleteClaim(c) \/ DeliverClaim(c)
                       \/ \E p \in Pods : MigrateClaim(c, p)
  \/ Abort \/ Restart

Next == (\E c \in Claims : Observe(c)) \/ Step \/ Environment

Spec == Init /\ [][Next]_vars

-----------------------------------------------------------------------------
(* Properties *)

\* Two claims that are not being deleted never refer to the same pod.  This
\* and the next three are for claims that are not migrated and a cnstore
\* controller that does not come back to a pod too early: SucceedMeansClaimed
\* shows what happens when it does.
NoDoubleBind ==
  \A c, d \in Claims :
    /\ c # d /\ Live(c) /\ Live(d)
    /\ Claim(c).podName # None
    => Claim(c).podName # Claim(d).podName

\* The pod a live claim refers to, while it exists, is labelled as bound to
\* that claim: neither the pool's scale-in, nor the cnstore controller's
\* unconditional patch of a phase it read before (unless it has not seen its
\* own last patch), nor the reclaim of another claim takes it away.
HeldPodIsBound ==
  \A c \in Claims :
    Live(c) /\ Claim(c).podName # None /\ Exists(Claim(c).podName)
    => BoundTo(Pod(Claim(c).podName), c)

\* The CN of the pod a live claim refers to is working in HAKeeper: the
\* draining state left by the previous claim is undone before the claim
\* refers to the pod, and not set again before the claim is deleted.
HeldPodIsWorking ==
  \A c \in Claims :
    Live(c) /\ Claim(c).podName # None /\ Exists(Claim(c).podName)
    => ha[Claim(c).podName] = "Working"

\* "Succeed means claimed", says ensureOwnership of its Update: the pod is
\* bound to the claim until the claim is deleted or the pod disappears.  It is
\* not so when the cnstore controller handles the pod again before the cache
\* has its own patch to Idle: unchanged scores send no patch that would
\* refresh its copy, and it patches Idle over Bound.
SucceedMeansClaimed ==
  [][\A p \in Pods, c \in Claims :
       BoundTo(Pod(p), c) /\ Live(c) => HeldBy(Pod(p)', c)]_vars

\* When the finalizer of a claim is removed, no pod is left labelled as
\* bound to it.
FinalizedOwnsNothing ==
  \A c \in Claims, p \in Pods : BoundTo(Pod(p), c) => Claim(c).st # "gone"

\* A claim that is not migrating has at most one pod: the pod of a broken
\* reconciliation is bound first.
AtMostOnePod ==
  \A c \in Claims :
    Claim(c).source = None => Cardinality({p \in Pods : BoundTo(Pod(p), c)}) <= 1

\* A reclaim never starts to drain a pod that a live claim holds and refers
\* to, whatever version of the claim and of the pod Finalize has listed.
ReclaimSparesHolders ==
  [][\A p \in Pods, c \in Claims :
       /\ BoundTo(Pod(p), c) /\ Live(c) /\ Claim(c).podName = p
       => Pod(p)'.phase # "Draining"]_vars

\* Finalize never reclaims a pod that another live claim refers to: it
\* hands the pod over.
FinalizeSparesReferrers ==
  [][\A p \in Pods, d \in Claims :
       /\ w.pc = "release" /\ p \in w.todo /\ w.c # d
       /\ Live(d) /\ Claim(d).podName = p
       => ~(Pod(p).phase = "Bound" /\ Pod(p)'.phase = "Draining")]_vars

-----------------------------------------------------------------------------
(* Why NoDoubleBind and HeldPodIsBound hold when no claim is migrated: an   *)
(* inductive invariant about all the versions still on their way to the     *)
(* cache.                                                                   *)

Deleted(cl) == cl.st \in {"deleting", "gone"}

AllDeleted(c) == \A cl \in Versions(claims[c]) : Deleted(cl)

\* A version of a claim that refers to a pod is believed only while the pod
\* is the claim's.
ReferredIsHeld ==
  \A c \in Claims : \A cl \in Versions(claims[c]) :
    cl.st = "live" /\ cl.podName # None => HeldBy(Pod(cl.podName), c)

\* Two versions of a pod on their way to the cache are not of two claims: a
\* pod changes hands only through an Idle version the cache has seen.
OneHolder ==
  \A p \in Pods : \A u, v \in Versions(pods[p]) : \A c, d \in Claims :
    BoundTo(u, c) /\ HeldBy(v, d) => c = d

\* A version that shows a pod as bound to a claim is out of date only if the
\* claim's deletion has been seen.
LeftByDeleted ==
  \A p \in Pods, c \in Claims :
    /\ \E v \in Versions(pods[p]) : BoundTo(v, c)
    /\ ~HeldBy(Pod(p), c)
    => AllDeleted(c)

DeletedForGood ==
  \A c \in Claims : \A k, l \in 1 .. Len(claims[c]) :
    k <= l /\ Deleted(claims[c][k]) => Deleted(claims[c][l])

OnlyHeldIsClaimed ==
  \A p \in Pods : \A v \in Versions(pods[p]) :
    v.phase \notin {"Bound", "Gone"} => v.by = None

\* On its way to the cache a pod becomes Bound by way of Idle only, the
\* cnstore controller's own patch.
BoundByWayOfIdle ==
  \A p \in Pods : \A k, l \in 1 .. Len(pods[p]) :
    /\ k <= l /\ pods[p][l].phase = "Bound"
    /\ pods[p][k].phase \notin {"Idle", "Bound"}
    => \E m \in k .. l : pods[p][m].phase = "Idle"

\* What the cnstore controller is about to overwrite is nobody's.
PlannedIsFree ==
  \A p \in Pods : plan[p] # "none" => Pod(p).phase \notin {"Idle", "Bound"}

NoMigration ==
  /\ \A c \in Claims : \A cl \in Versions(claims[c]) : cl.source = None
  /\ w.obj.source = None
  /\ w.pc \notin {"migrate", "complete"}

\* What the worker may rely on, step by step: a candidate whose copy is
\* current is still free, or still the claim's ...
KnowsCandidates ==
  w.pc = "own" =>
    \A p \in w.todo :
      /\ p \in w.cur => /\ UpToDate(pods[p])
                        /\ Pod(p).phase = IF w.bind THEN "Idle" ELSE "Bound"
      /\ ~w.bind => HeldBy(Pod(p), w.c)

\* ... the pod the claim is about to refer to is the claim's ...
KnowsHolder == w.pc \in {"working", "patch"} => HeldBy(Pod(w.pod), w.c)

\* ... a copy of the claim that is taken for current is ...
KnowsClaim == w.pc = "bound" /\ w.fresh => w.obj = Claim(w.c)

\* ... and the pods of a deleted claim are nobody else's.
KnowsReclaimed ==
  /\ w.pc \in {"owned", "drain", "release"} =>
       /\ AllDeleted(w.c)
       /\ \A p \in w.todo :
            /\ w.heir[p] = None
            /\ \A v \in Versions(pods[p]) : \A d \in Claims : HeldBy(v, d) => d = w.c
  /\ w.pc \in {"drain", "release"} => w.pod \in w.todo

\* The binding protocol of Bind, Sync and Finalize, inductively: versions of
\* a pod under way to the cache are of one claim, references to a pod are of
\* its holder, and the worker acts on what is still so.
BindingInv ==
  /\ TypeOK
  /\ ReferredIsHeld /\ OneHolder /\ LeftByDeleted /\ DeletedForGood
  /\ OnlyHeldIsClaimed /\ BoundByWayOfIdle /\ PlannedIsFree /\ NoMigration
  /\ KnowsCandidates /\ KnowsHolder /\ KnowsClaim /\ KnowsReclaimed

-----------------------------------------------------------------------------
(* Liveness *)

\* The work queue hands every claim to the worker again and again, and the
\* watches deliver.
Fairness ==
  /\ WF_vars(Step)
  /\ \A c \in Claims : SF_vars(Observe(c)) /\ WF_vars(DeliverClaim(c))
  /\ \A p \in Pods : WF_vars(DeliverPod(p))

FairSpec == Spec /\ Fairness

\* A deleted claim eventually gives up its pods and disappears.
DeletedClaimGoes ==
  \A c \in Claims : Claim(c).st = "deleting" ~> Claim(c).st = "gone"
=============================================================================
