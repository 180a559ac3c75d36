------------------------------ MODULE CNStore ------------------------------
(***************************************************************************)
(* The cnstore controller (pkg/controllers/cnstore) and one CN pod it      *)
(* looks after: counting the pod's workload, draining it before Kruise     *)
(* stops or updates it, recycling it when it belongs to a pool, and        *)
(* cleaning up after its deletion.                                         *)
(*                                                                         *)
(* A reconciliation is a sequence of API calls and RPCs, each a step.  The *)
(* workload of the CN, HAKeeper, the rest of the cluster (which learns the *)
(* CN's work state from HAKeeper only after a while), Kruise, the CNClaim  *)
(* controller and users move between any two of them.  Time is discrete;   *)
(* timestamps are kept as ages, which stop growing past DrainTimeout.      *)
(***************************************************************************)
EXTENDS Integers

CONSTANTS
  MinDelay,      \* ScalingConfig.MinDelaySeconds
  DrainTimeout,  \* ScalingConfig.StoreDrainTimeout
  Scenarios      \* what may happen in a behaviour: the workload the MO version
                 \* can report, see Kinds; the configuration of the pod and its
                 \* CNSet, see Features; and other events, see Disruptions

Kinds == {"session", "pipeline", "replica"}

Features ==
  { "drain",         \* ScalingConfig.StoreDrainEnabled
    "pauseUpdate",   \* CNSetSpec.PauseUpdate
    "pooling",       \* the pod-management policy is Pooling
    "direct",        \* the pod was created without a CloneSet
    "legacy",        \* the pod was reclaimed by an operator that kept no time
    "lockMigration", \* MOFeatureLockMigration
    "resend" }       \* a patch that changes nothing may be sent all the same

Disruptions ==
  { "hakeeper",  \* HAKeeper cannot be reached for a while
    "query",     \* a query of the CN's workload fails
    "patch",     \* the patch that stores the score fails
    "down",      \* the container stops and starts again
    "regret",    \* Kruise takes a pod back from Preparing to Normal
    "cordon",    \* a user cordons and uncordons the store
    "force",     \* a user deletes the pod at once
    "mark",      \* a user marks the pod for deletion on its next reclaim
    "orphan",    \* the CNSet is gone
    "late",      \* an RPC of the CNClaim controller is delayed
    "slow",      \* time passes while a reconciliation is under way
    "abort" }    \* another API call fails, or the operator stops

ASSUME StoreAssumption ==
  /\ MinDelay \in Nat /\ DrainTimeout \in Nat \ {0}
  /\ \A sc \in Scenarios : "session" \in sc /\ sc \subseteq Kinds \cup Features \cup Disruptions

VARIABLES
  pod,    \* the pod in the API server
  up,     \* the main container is running
  load,   \* the workload the CN really has
  txns,   \* the lock service holds locks for the CN's transactions
  ha,     \* the CN's work state in HAKeeper
  known,  \* ... and the one the rest of the cluster acts on
  lag,    \* how long known has been behind ha
  claim,  \* the next call of the CNClaim controller about this pod
  w,      \* the reconciliation under way
  may     \* the scenario of the behaviour

vars == <<pod, up, load, txns, ha, known, lag, claim, w>>
hakeeper == <<ha, known, lag>>
cn == <<up, load, txns>>
outside == <<hakeeper, cn, claim>>

May(x) == x \in may
Counted == Kinds \cap may

-----------------------------------------------------------------------------
(* Types *)

NoStamp == -1
Ages == 0 .. DrainTimeout + 1
Stamps == {NoStamp} \cup Ages

WorkStates == {"Working", "Draining", "absent"}

\* A count of StoreScoreAnno; the number kept with a count that has not been
\* observed is for diagnosis only.
Score == [Kinds -> {"unobserved", "zero", "some"}]

Unobserved == [k \in Kinds |-> "unobserved"]

PodObj ==
  [ st     : {"live", "deleted", "gone"},  \* "deleted": deletionTimestamp set
    life   : {"Normal", "PreparingUpdate", "PreparingDelete"},
    fin    : BOOLEAN,                      \* CNDrainingFinalizer
    ready  : {"Ready", "Cordon", "PrepareStop", "NotRegistered"},
                                           \* CNStoreReadiness, with its reason
    cordon : BOOLEAN,                      \* StoreCordonAnno
    start  : Stamps,                       \* StoreDrainingStartAnno
    lock   : BOOLEAN,                      \* LockRestartSet
    score  : Score,                        \* StoreScoreAnno
    phase  : {"Unknown", "Idle", "Bound", "Draining", "Terminating"},
    at     : Stamps,                       \* ReclaimedAt
    once   : BOOLEAN,                      \* DeleteOnReclaimAnno
    unwanted : BOOLEAN ]                   \* SpecifiedDeleteKey, on a direct pod

NewPod == [ st |-> "live", life |-> "Normal", fin |-> FALSE,
            ready |-> "NotRegistered", cordon |-> FALSE, start |-> NoStamp,
            lock |-> FALSE, score |-> Unobserved, phase |-> "Unknown",
            at |-> NoStamp, once |-> FALSE, unwanted |-> FALSE ]

Worker ==
  [ pc   : {"rest", "stats", "query", "putstats", "dispatch", "start", "drain",
            "lock", "complete", "deldirect", "normal", "work", "ready", "unready", "pool",
            "delstore", "unfinalize"},
    mem  : PodObj,                         \* ctx.Obj
    left : SUBSET Kinds,                   \* counts still to be queried
    score : Score,                         \* the round's counts
    why  : {"none", "drained", "timeout", "disabled", "paused", "unknown"},
    seen : BOOLEAN ]                       \* history: no query of the round failed

Resting == [ pc |-> "rest", mem |-> NewPod, left |-> {}, score |-> Unobserved,
             why |-> "none", seen |-> FALSE ]

\* The labels and annotations the controller writes are ones it can read.
TypeOK ==
  /\ pod \in PodObj
  /\ up \in BOOLEAN
  /\ load \in SUBSET Counted
  /\ txns \in BOOLEAN
  /\ ha \in WorkStates
  /\ known \in WorkStates
  /\ lag \in Ages
  /\ claim \in {"none", "Working", "Draining", "release"}
  /\ w \in Worker

-----------------------------------------------------------------------------
(* Helpers *)

Preparing(p) == p.life \in {"PreparingUpdate", "PreparingDelete"}

Direct == May("direct")

IsSafeToReclaim(p) == \A k \in Kinds : p.score[k] = "zero"

\* The reconciliation returns; the pod is looked at again later.
Return == w' = Resting

At(step) == [w EXCEPT !.pc = step]

Goto(step) == w' = At(step)

\* ctx.Patch and ctx.PatchStatus.  A merge patch changes the fields it names
\* in the API server's object, and the in-memory copy becomes that object.
Sent(Change(_), next) ==
  /\ pod' = Change(pod)
  /\ w' = [next EXCEPT !.mem = IF next.pc = "rest" THEN NewPod ELSE Change(pod)]

Patch(Change(_), next) ==
  \/ Change(w.mem) # w.mem /\ Sent(Change, next)
  \/ Change(w.mem) = w.mem /\ May("resend") /\ Sent(Change, next)
  \/ Change(w.mem) = w.mem /\ UNCHANGED pod /\ w' = next

\* HAKeeper records a new work state.
SetState(state) ==
  /\ ha' = state
  /\ lag' = IF ha = state THEN lag ELSE 0
  /\ UNCHANGED known

Complete(why) == w' = [w EXCEPT !.pc = "complete", !.why = why]

-----------------------------------------------------------------------------
(* observe and syncStats *)

observe ==
  /\ w.pc = "rest" /\ pod.st # "gone"
  /\ w' = [w EXCEPT !.pc = IF pod.st = "deleted" THEN "delstore" ELSE "stats",
                    !.mem = pod]
  /\ UNCHANGED <<pod, outside>>

\* syncStats returns early for a container that is not running: the old
\* score stays.
NotStarted ==
  /\ w.pc = "stats" /\ ~up
  /\ w' = [w EXCEPT !.pc = "dispatch", !.seen = TRUE]
  /\ UNCHANGED <<pod, outside>>

\* Mutant: the counts of the previous round are kept.
BeginWithOldScore ==
  /\ w.pc = "stats" /\ up
  /\ w' = [w EXCEPT !.pc = "query", !.left = Kinds, !.score = w.mem.score, !.seen = TRUE]
  /\ UNCHANGED <<pod, outside>>

\* The previous round is invalidated before any query.
BeginObservation ==
  /\ w.pc = "stats" /\ up
  /\ w' = [w EXCEPT !.pc = "query", !.left = Kinds, !.score = Unobserved, !.seen = TRUE]
  /\ UNCHANGED <<pod, outside>>

\* The store cache does not list the CN, or HAKeeper cannot be asked: the
\* invalidated score is stored.
StoreCacheMiss ==
  /\ w.pc = "query" /\ w.left = Kinds
  /\ ha = "absent" \/ May("hakeeper")
  /\ w' = [w EXCEPT !.pc = "putstats", !.left = {}, !.seen = FALSE]
  /\ UNCHANGED <<pod, outside>>

\* Mutant: pipelines are counted before the sessions that start them.
PipelinesFirst(k) ==
  /\ k \in w.left
  /\ k = "session" => "pipeline" \notin w.left
  /\ k = "replica" => w.left = {"replica"}

\* collectQueryStats asks for sessions, then pipelines, then replicas.
NextQuery(k) ==
  /\ k \in w.left
  /\ k = "pipeline" => "session" \notin w.left
  /\ k = "replica" => w.left = {"replica"}

Count(k) == IF k \in load THEN "some" ELSE "zero"

\* A count the version cannot report is taken to be an observed zero.
Query(k) ==
  /\ w.pc = "query" /\ NextQuery(k)
  /\ w.left = Kinds => ha # "absent"
  /\ w' = [w EXCEPT !.left = @ \ {k}, !.score[k] = Count(k)]
  /\ UNCHANGED <<pod, outside>>

\* A failed query leaves its count unobserved.
QueryFails(k) ==
  /\ May("query") \/ ~up
  /\ w.pc = "query" /\ NextQuery(k) /\ k \in Counted
  /\ w.left = Kinds => ha # "absent"
  /\ w' = [w EXCEPT !.left = @ \ {k}, !.seen = FALSE]
  /\ UNCHANGED <<pod, outside>>

patchStoreStats ==
  /\ w.pc \in {"query", "putstats"} /\ w.left = {}
  /\ LET Change(p) == [p EXCEPT !.score = w.score]
     IN  Patch(Change, At("dispatch"))
  /\ UNCHANGED outside

\* "sync stats should not block state sync, continue".
PatchStatsFails ==
  /\ May("patch")
  /\ w.pc \in {"query", "putstats"} /\ w.left = {}
  /\ w' = [w EXCEPT !.pc = "dispatch", !.mem.score = w.score]
  /\ UNCHANGED <<pod, outside>>

-----------------------------------------------------------------------------
(* Cordoned and deleted stores *)

OnCordon ==
  /\ w.pc = "dispatch" /\ w.mem.cordon
  /\ ha # "absent"
  /\ SetState("Draining")
  /\ Goto("unready")
  /\ UNCHANGED <<pod, cn, claim>>

\* patchCNReadiness(False) at the end of OnCordon and of an unregistered
\* pool pod.
PatchUnready ==
  /\ w.pc = "unready"
  /\ LET reason == IF w.mem.cordon THEN "Cordon" ELSE "NotRegistered"
         Change(p) == [p EXCEPT !.ready = reason]
     IN  Patch(Change, Resting)
  /\ UNCHANGED outside

\* OnDeleted removes the store from HAKeeper (unless the CNSet that leads to
\* it is gone) ...
DeleteCNStore ==
  /\ w.pc = "delstore"
  /\ \/ SetState("absent")
     \/ May("orphan") /\ UNCHANGED hakeeper
  /\ Goto("unfinalize")
  /\ UNCHANGED <<pod, cn, claim>>

\* ... and lets the pod go.
RemoveFinalizer ==
  /\ w.pc = "unfinalize"
  /\ LET Change(p) == [p EXCEPT !.fin = FALSE] IN Patch(Change, Resting)
  /\ UNCHANGED outside

-----------------------------------------------------------------------------
(* Preparing to stop: OnPreparingUpdate, OnPreparingStop *)

Paused(p) == p.life = "PreparingUpdate" /\ May("pauseUpdate")

\* A paused update restarts nothing.
OnPreparingUpdate ==
  /\ w.pc = "dispatch" /\ ~w.mem.cordon
  /\ Paused(w.mem)
  /\ Complete("paused")
  /\ UNCHANGED <<pod, outside>>

OnPreparingStop ==
  /\ w.pc = "dispatch" /\ ~w.mem.cordon
  /\ Preparing(w.mem) /\ ~Paused(w.mem)
  /\ LET Change(p) == [p EXCEPT !.ready = "PrepareStop"]
     IN  Patch(Change, IF May("drain") THEN At("start")
                       ELSE [At("complete") EXCEPT !.why = "disabled"])
  /\ UNCHANGED outside

StartDraining ==
  /\ w.pc = "start" /\ w.mem.start = NoStamp
  /\ LET Change(p) == [p EXCEPT !.start = 0] IN Patch(Change, At("drain"))
  /\ UNCHANGED outside

\* Mutant: a drain never times out.
NeverTimesOut(p) == FALSE

TimedOut(p) == p.start > DrainTimeout

\* The timeout is looked at before HAKeeper is called.
DrainTimesOut ==
  /\ w.pc = "start" /\ TimedOut(w.mem)
  /\ Complete("timeout")
  /\ UNCHANGED <<pod, outside>>

ContinueDraining ==
  /\ w.pc = "start" /\ w.mem.start # NoStamp /\ ~TimedOut(w.mem)
  /\ Goto("drain")
  /\ UNCHANGED <<pod, outside>>

Settled(p) == p.start >= MinDelay

\* handleConnectionDraining asks HAKeeper to drain and reads the score; the
\* locks are migrated after the connections.
handleConnectionDraining ==
  /\ w.pc = "drain" /\ ha # "absent"
  /\ SetState("Draining")
  /\ IF Settled(w.mem) /\ IsSafeToReclaim(w.mem)
     THEN IF May("lockMigration") THEN Goto("lock") ELSE Complete("drained")
     ELSE Return
  /\ UNCHANGED <<pod, cn, claim>>

\* HAKeeper answers that the CN does not exist.
UnknownToHAKeeper ==
  /\ w.pc = "drain" /\ ha = "absent"
  /\ Complete("unknown")
  /\ UNCHANGED <<pod, outside>>

\* handleLockMigration: CanRestartCN says yes.
LocksMigrated ==
  /\ w.pc = "lock" /\ ~txns
  /\ Complete("drained")
  /\ UNCHANGED <<pod, outside>>

\* handleLockMigration: CanRestartCN says no; SetRestartCN once, and wait.
SetRestartCN ==
  /\ w.pc = "lock" /\ txns
  /\ LET Change(p) == [p EXCEPT !.lock = TRUE] IN Patch(Change, Resting)
  /\ UNCHANGED outside

\* The finalizer goes, and the annotations of the drain.
completeDraining ==
  /\ w.pc = "complete"
  /\ LET Change(p) == [p EXCEPT !.fin = FALSE, !.start = NoStamp, !.lock = FALSE]
     IN  Patch(Change, IF Direct THEN At("deldirect") ELSE Resting)
  /\ UNCHANGED outside

\* A direct pod has no Kruise to delete it.
DeleteDirectPod ==
  /\ w.pc = "deldirect"
  /\ pod' = [pod EXCEPT !.st = IF @ = "live" THEN "deleted" ELSE @]
  /\ Return
  /\ UNCHANGED outside

-----------------------------------------------------------------------------
(* Normal operation: OnNormal *)

\* OnNormal sets the finalizer and forgets a drain that was called off (two
\* patches in a row).
OnNormal ==
  /\ w.pc = "dispatch" /\ ~w.mem.cordon /\ ~Preparing(w.mem)
  /\ LET Change(p) == [p EXCEPT !.fin = TRUE, !.start = NoStamp]
     IN  Patch(Change, At("normal"))
  /\ UNCHANGED outside

\* An idle direct pod is not kept.
DirectPodIdle == Direct /\ (w.mem.phase = "Idle" \/ w.mem.unwanted)

CollectDirectPod ==
  /\ w.pc = "normal" /\ DirectPodIdle
  /\ LET Change(p) == [p EXCEPT !.life = "PreparingDelete"] IN Patch(Change, Resting)
  /\ UNCHANGED outside

ByPolicy ==
  /\ w.pc = "normal" /\ ~DirectPodIdle
  /\ Goto(IF May("pooling") THEN "pool" ELSE "work")
  /\ UNCHANGED <<pod, outside>>

\* defaultCNNormalReconcile: the store works (its labels are data).
defaultCNNormalReconcile ==
  /\ w.pc = "work" /\ ha # "absent"
  /\ IF May("drain") THEN SetState("Working") ELSE UNCHANGED hakeeper
  /\ Goto("ready")
  /\ UNCHANGED <<pod, cn, claim>>

PatchReady ==
  /\ w.pc = "ready"
  /\ LET Change(p) == [p EXCEPT !.ready = "Ready"] IN Patch(Change, Resting)
  /\ UNCHANGED outside

\* poolingCNReconcile, phase by phase.
PoolRegister ==
  /\ w.pc = "pool" /\ w.mem.phase = "Unknown"
  /\ LET Change(p) == [p EXCEPT !.phase = "Idle"]
     IN  IF ha # "absent" THEN Patch(Change, At("ready"))
                          ELSE Goto("unready") /\ UNCHANGED pod
  /\ UNCHANGED outside

PoolInUse ==
  /\ w.pc = "pool" /\ w.mem.phase \in {"Bound", "Idle"}
  /\ Goto("ready")
  /\ UNCHANGED <<pod, outside>>

PoolTerminating ==
  /\ w.pc = "pool" /\ w.mem.phase = "Terminating"
  /\ Return
  /\ UNCHANGED <<pod, outside>>

\* Mutant: the phase label is removed.
EvictWithoutPhase ==
  LET Change(p) == [p EXCEPT !.phase = ""] IN Patch(Change, Resting)

\* evictPoolPodGracefully leaves the deletion to the pool, unless the pod is
\* a direct one.
evictPoolPodGracefully ==
  LET Change(p) == [p EXCEPT !.phase = "Terminating",
                             !.life  = IF Direct THEN "PreparingDelete" ELSE @]
  IN  Patch(Change, Resting)

\* Mutant: only a pod without workload is evicted.
EvictOnlySafe ==
  /\ w.pc = "pool" /\ w.mem.phase = "Draining" /\ w.mem.at > DrainTimeout
  /\ IsSafeToReclaim(w.mem)
  /\ evictPoolPodGracefully
  /\ UNCHANGED outside

PoolDrainTimesOut ==
  /\ w.pc = "pool" /\ w.mem.phase = "Draining" /\ w.mem.at > DrainTimeout
  /\ evictPoolPodGracefully
  /\ UNCHANGED outside

\* Mutant: min-delay is not waited for.
ReclaimableAtOnce(p) == IsSafeToReclaim(p)

Reclaimable(p) == p.at >= MinDelay /\ IsSafeToReclaim(p)

\* A pod whose reclaim left no time goes back to the pool.
PoolLegacy ==
  /\ w.pc = "pool" /\ w.mem.phase = "Draining" /\ w.mem.at = NoStamp
  /\ LET Change(p) == [p EXCEPT !.phase = "Idle"] IN Patch(Change, Resting)
  /\ UNCHANGED outside

DrainUnderWay ==
  w.pc = "pool" /\ w.mem.phase = "Draining" /\ w.mem.at \in 0 .. DrainTimeout

\* A drain that takes long (how long is left open) is marked for diagnosis;
\* the patch brings the pod as it is now.
diagnosisDraining ==
  /\ DrainUnderWay /\ w.mem # pod
  /\ w' = [w EXCEPT !.mem = pod]
  /\ UNCHANGED <<pod, outside>>

PoolStillDraining ==
  /\ DrainUnderWay
  /\ ~Reclaimable(w.mem)
  /\ Return
  /\ UNCHANGED <<pod, outside>>

\* The drained pod goes back to the pool, unless it is not to be used again.
PoolRecycle ==
  /\ DrainUnderWay
  /\ Reclaimable(w.mem)
  /\ LET Change(p) == [p EXCEPT !.phase = "Idle", !.at = NoStamp]
     IN  IF Direct \/ w.mem.once THEN evictPoolPodGracefully ELSE Patch(Change, Resting)
  /\ UNCHANGED outside

-----------------------------------------------------------------------------
(* Failures *)

\* The steps that set a work state nobody waits for.
SetsState == w.pc = "work" \/ (w.pc = "dispatch" /\ w.mem.cordon)

\* withMOClientSet returns an error, or HAKeeper does not know the CN.
HAKeeperFails ==
  /\ \/ May("hakeeper") /\ w.pc \in {"drain", "lock", "pool", "delstore"}
     \/ SetsState /\ (May("hakeeper") \/ ha = "absent")
  /\ Return
  /\ UNCHANGED <<pod, outside>>

\* An API call fails or the operator stops in the middle.
Abort ==
  /\ May("abort")
  /\ w.pc # "rest"
  /\ Return
  /\ UNCHANGED <<pod, outside>>

-----------------------------------------------------------------------------
(* The CN and the rest of the cluster *)

\* The CN registers itself.
Register ==
  /\ up /\ ha = "absent" /\ pod.st # "gone"
  /\ SetState("Working")
  /\ UNCHANGED <<pod, cn, claim, w>>

\* The cluster learns the work state, within MinDelay of its change.
Propagate ==
  /\ known # ha
  /\ known' = ha /\ lag' = 0
  /\ UNCHANGED <<pod, cn, ha, claim, w>>

Older(t) == IF t = NoStamp \/ t > DrainTimeout THEN t ELSE t + 1

Aged(p) == [p EXCEPT !.start = Older(@), !.at = Older(@)]

Tick ==
  /\ w.pc = "rest" \/ May("slow")
  /\ known = ha \/ lag + 1 < MinDelay
  /\ pod' = Aged(pod)
  /\ lag' = IF known = ha THEN 0 ELSE Older(lag)
  /\ w' = [w EXCEPT !.mem = Aged(@)]
  /\ UNCHANGED <<cn, ha, known, claim>>

\* Work arrives from a cluster that believes the CN is working; a session
\* starts pipelines on the CN whatever the others believe.
Arrive(k) ==
  /\ up /\ k \notin load
  /\ known = "Working" \/ (k = "pipeline" /\ "session" \in load)
  /\ load' = load \cup {k}
  /\ txns' \in {txns, TRUE}
  /\ UNCHANGED <<pod, up, hakeeper, claim, w>>

Leave(k) ==
  /\ k \in load
  /\ load' = load \ {k}
  /\ UNCHANGED <<pod, up, txns, hakeeper, claim, w>>

\* The locks are released or moved to another CN.
LocksLeave ==
  /\ txns /\ load = {}
  /\ txns' = FALSE
  /\ UNCHANGED <<pod, up, load, hakeeper, claim, w>>

ContainerDown ==
  /\ May("down")
  /\ up /\ up' = FALSE /\ load' = {} /\ txns' = FALSE
  /\ UNCHANGED <<pod, hakeeper, claim, w>>

ContainerUp ==
  /\ ~up /\ pod.st # "gone" /\ up' = TRUE
  /\ UNCHANGED <<pod, load, txns, hakeeper, claim, w>>

-----------------------------------------------------------------------------
(* Kruise, the pool, claims and users *)

Outsider(new) ==
  /\ pod.st = "live"
  /\ pod' = new
  /\ UNCHANGED <<outside, w>>

Prepare(life) ==
  /\ ~Direct /\ pod.life = "Normal"
  /\ Outsider([pod EXCEPT !.life = life])

Regret ==
  /\ May("regret")
  /\ Preparing(pod) /\ pod.fin
  /\ Outsider([pod EXCEPT !.life = "Normal"])

KruiseDelete ==
  /\ ~Direct /\ pod.life = "PreparingDelete" /\ ~pod.fin
  /\ Outsider([pod EXCEPT !.st = "deleted"])

\* An in-place update restarts the container.
KruiseUpdate ==
  /\ pod.st = "live" /\ pod.life = "PreparingUpdate" /\ ~pod.fin
  /\ pod' = [pod EXCEPT !.life = "Normal"]
  /\ up' = FALSE /\ load' = {} /\ txns' = FALSE
  /\ UNCHANGED <<hakeeper, claim, w>>

\* The pod disappears when its last finalizer is gone.
Disappear ==
  /\ pod.st = "deleted" /\ ~pod.fin
  /\ pod' = [pod EXCEPT !.st = "gone"]
  /\ up' = FALSE /\ load' = {} /\ txns' = FALSE
  /\ UNCHANGED <<hakeeper, claim, w>>

PoolScaleIn ==
  /\ May("pooling") /\ pod.phase \in {"Idle", "Unknown"}
  /\ Outsider([pod EXCEPT !.phase = "Terminating"])

Cordon ==
  /\ May("cordon")
  /\ Outsider([pod EXCEPT !.cordon = ~@])

ForceDelete ==
  /\ May("force")
  /\ Outsider([pod EXCEPT !.st = "deleted"])

\* Somebody sets the DeleteOnReclaim annotation, which is not looked at
\* before the pod is reclaimed.
DeleteOnReclaim ==
  /\ May("mark") /\ ~pod.once /\ pod.phase = "Draining"
  /\ Outsider([pod EXCEPT !.once = TRUE])

\* Somebody sets Kruise's specified-delete label on a direct pod.
SpecifiedDelete ==
  /\ Direct /\ ~pod.unwanted
  /\ Outsider([pod EXCEPT !.unwanted = TRUE])

\* A claim takes an idle pod, or looks after the one it has; a pod that is
\* being prepared is left alone.
ClaimPod ==
  /\ May("pooling") /\ pod.st = "live"
  /\ claim = "none" /\ pod.phase \in {"Idle", "Bound"}
  /\ pod' = [pod EXCEPT !.phase = "Bound"]
  /\ claim' = IF pod.life = "Normal" THEN "Working" ELSE "none"
  /\ UNCHANGED <<hakeeper, cn, w>>

\* The deleted claim gives its pod back: the RPC first, the label after it.
ClaimReclaim ==
  /\ claim = "none" /\ pod.st = "live" /\ pod.phase = "Bound"
  /\ claim' = "Draining"
  /\ UNCHANGED <<pod, hakeeper, cn, w>>

ClaimSetState ==
  /\ claim \in {"Working", "Draining"}
  /\ pod.life = "Normal" \/ May("late") \/ claim = "Draining"
  /\ IF ha = "absent" THEN UNCHANGED hakeeper ELSE SetState(claim)
  /\ claim' = IF claim = "Draining" THEN "release" ELSE "none"
  /\ UNCHANGED <<pod, cn, w>>

\* The RPC fails, or never reaches HAKeeper.
ClaimGivesUp ==
  /\ claim = "Working" /\ claim' = "none"
  /\ UNCHANGED <<pod, hakeeper, cn, w>>

ClaimRelease ==
  /\ claim = "release" /\ claim' = "none"
  /\ pod' = IF pod.st = "gone" THEN pod ELSE [pod EXCEPT !.phase = "Draining", !.at = 0]
  /\ UNCHANGED <<hakeeper, cn, w>>

-----------------------------------------------------------------------------
(* Specification *)

Started(p, state) ==
  /\ pod = p
  /\ up = FALSE /\ load = {} /\ txns = FALSE
  /\ ha = state /\ known = state /\ lag = 0
  /\ claim = "none"
  /\ w = Resting

\* A new pod, or one that an earlier version of the operator was draining.
Init ==
  /\ may \in Scenarios
  /\ \/ Started(NewPod, "absent")
     \/ May("legacy") /\ Started([NewPod EXCEPT !.phase = "Draining"], "Draining")

Stats ==
  \/ NotStarted \/ BeginObservation \/ StoreCacheMiss
  \/ (\E k \in Kinds : Query(k) \/ QueryFails(k))
  \/ patchStoreStats \/ PatchStatsFails

Drain ==
  \/ OnPreparingUpdate \/ OnPreparingStop
  \/ StartDraining \/ DrainTimesOut \/ ContinueDraining
  \/ handleConnectionDraining \/ UnknownToHAKeeper
  \/ LocksMigrated \/ SetRestartCN
  \/ completeDraining \/ DeleteDirectPod

Normal ==
  \/ OnNormal \/ CollectDirectPod \/ ByPolicy \/ defaultCNNormalReconcile \/ PatchReady
  \/ PoolRegister \/ PoolInUse \/ PoolTerminating
  \/ PoolDrainTimesOut \/ PoolLegacy \/ diagnosisDraining
  \/ PoolStillDraining \/ PoolRecycle

Step ==
  \/ Stats \/ Drain \/ Normal
  \/ OnCordon \/ PatchUnready \/ DeleteCNStore \/ RemoveFinalizer
  \/ HAKeeperFails

Cluster ==
  \/ Register \/ Propagate \/ Tick
  \/ (\E k \in Counted : Arrive(k) \/ Leave(k))
  \/ LocksLeave \/ ContainerDown \/ ContainerUp

Others ==
  \/ (\E life \in {"PreparingUpdate", "PreparingDelete"} : Prepare(life))
  \/ Regret \/ KruiseDelete \/ KruiseUpdate \/ Disappear
  \/ PoolScaleIn \/ Cordon \/ ForceDelete \/ DeleteOnReclaim \/ SpecifiedDelete
  \/ ClaimPod \/ ClaimReclaim \/ ClaimSetState \/ ClaimGivesUp
  \/ ClaimRelease

Next == observe \/ Step \/ Abort \/ Cluster \/ Others

Spec == Init /\ [][Next /\ UNCHANGED may]_<<vars, may>>

-----------------------------------------------------------------------------
(* Properties *)

Drained == w.pc = "complete" /\ w.why = "drained" /\ pod.fin /\ ~pod'.fin

\* completeDraining after a successful drain: the CN that is given up for
\* being stopped has no workload left.  (If HAKeeper cannot be reached, or
\* the reconciliation ends before it is told, the minimum delay is counted from a
\* time at which the cluster does not know of the drain yet.)
NoLoadAtRelease ==
  [][Drained /\ ~May("hakeeper") /\ ~May("abort") => load = {}]_vars

\* completeDraining after a successful drain of a running CN relies on counts
\* that were all observed in that round, never on zeros of an earlier one.
CurrentEvidence ==
  [][Drained => w.seen /\ \A k \in Kinds : w.score[k] # "some"]_vars

\* poolingCNReconcile: the pod that goes back to the pool has no workload
\* left, so the next claim does not meet that of the previous one.  (A pod
\* whose reclaim left no time is not waited for.)
NoLoadAtRecycle ==
  [][pod.phase = "Draining" /\ pod.at # NoStamp /\ pod'.phase = "Idle" => load = {}]_vars

-----------------------------------------------------------------------------
(* Liveness *)

\* The controller is running, its queue hands out the pod again and again,
\* time passes and the cluster learns.
Fairness ==
  /\ WF_vars(observe) /\ WF_vars(Step)
  /\ SF_vars(Tick) /\ WF_vars(Propagate)

FairSpec == Spec /\ Fairness

\* Kruise does not wait forever for a pod that is not cordoned, whatever
\* becomes of HAKeeper and of the workload: the drain ends, or is called off.
DrainEnds ==
  pod.fin /\ Preparing(pod) /\ pod.st = "live" /\ ~pod.cordon
  ~> ~pod.fin \/ ~Preparing(pod) \/ pod.st # "live" \/ pod.cordon

\* A pod that was reclaimed leaves the phase Draining, unless Kruise has begun
\* to stop it.
ReclaimEnds ==
  pod.phase = "Draining" /\ pod.st = "live" /\ ~Preparing(pod)
  ~> pod.phase # "Draining" \/ pod.st # "live" \/ Preparing(pod)
=============================================================================
