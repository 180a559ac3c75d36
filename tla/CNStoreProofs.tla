---------------------------- MODULE CNStoreProofs ----------------------------
(***************************************************************************)
(* The cnstore controller writes objects that it can read, relies on       *)
(* counts of the round it is in, and neither recycles nor releases a CN    *)
(* that has workload, for any delays and under what each theorem says of   *)
(* the scenarios.                                                          *)
(***************************************************************************)
EXTENDS CNStore, TLAPS

-----------------------------------------------------------------------------
(* Patches *)

(* What a patch comes to: old is the object in memory with the change, and new the
   object in the API server with it. *)
Patched(old, new, next) ==
  \/ /\ old # w.mem \/ May("resend")
     /\ pod' = new
     /\ w' = [next EXCEPT !.mem = IF next.pc = "rest" THEN NewPod ELSE new]
  \/ old = w.mem /\ UNCHANGED pod /\ w' = next

StatsIn(p) == [p EXCEPT !.score = w.score]
ReadyIs(p, x) == [p EXCEPT !.ready = x]
Unfinalized(p) == [p EXCEPT !.fin = FALSE]
Begun(p) == [p EXCEPT !.start = 0]
Locked(p) == [p EXCEPT !.lock = TRUE]
Released(p) == [p EXCEPT !.fin = FALSE, !.start = NoStamp, !.lock = FALSE]
Kept(p) == [p EXCEPT !.fin = TRUE, !.start = NoStamp]
Dying(p) == [p EXCEPT !.life = "PreparingDelete"]
PhaseIs(p, x) == [p EXCEPT !.phase = x]
Recycled(p) == [p EXCEPT !.phase = "Idle", !.at = NoStamp]
Evicted(p) == [p EXCEPT !.phase = "Terminating", !.life = IF Direct THEN "PreparingDelete" ELSE @]

Reason == IF w.mem.cordon THEN "Cordon" ELSE "NotRegistered"

(* The patches of the controller. *)
LEMMA Patches ==
  /\ patchStoreStats => Patched(StatsIn(w.mem), StatsIn(pod), At("dispatch"))
  /\ PatchUnready => Patched(ReadyIs(w.mem, Reason), ReadyIs(pod, Reason), Resting)
  /\ RemoveFinalizer => Patched(Unfinalized(w.mem), Unfinalized(pod), Resting)
  /\ OnPreparingStop =>
       Patched(ReadyIs(w.mem, "PrepareStop"), ReadyIs(pod, "PrepareStop"),
               IF May("drain") THEN At("start") ELSE [At("complete") EXCEPT !.why = "disabled"])
  /\ StartDraining => Patched(Begun(w.mem), Begun(pod), At("drain"))
  /\ SetRestartCN => Patched(Locked(w.mem), Locked(pod), Resting)
  /\ completeDraining =>
       Patched(Released(w.mem), Released(pod), IF Direct THEN At("deldirect") ELSE Resting)
  /\ OnNormal => Patched(Kept(w.mem), Kept(pod), At("normal"))
  /\ CollectDirectPod => Patched(Dying(w.mem), Dying(pod), Resting)
  /\ PatchReady => Patched(ReadyIs(w.mem, "Ready"), ReadyIs(pod, "Ready"), Resting)
  /\ PoolRegister =>
       \/ ha # "absent" /\ Patched(PhaseIs(w.mem, "Idle"), PhaseIs(pod, "Idle"), At("ready"))
       \/ ha = "absent" /\ w' = At("unready") /\ UNCHANGED pod
  /\ PoolDrainTimesOut => Patched(Evicted(w.mem), Evicted(pod), Resting)
  /\ PoolLegacy => Patched(PhaseIs(w.mem, "Idle"), PhaseIs(pod, "Idle"), Resting)
  /\ PoolRecycle =>
       \/ Patched(Evicted(w.mem), Evicted(pod), Resting)
       \/ Patched(Recycled(w.mem), Recycled(pod), Resting)
  <1> USE DEF Patch, Sent, Patched, Goto
  <1>1. patchStoreStats => Patched(StatsIn(w.mem), StatsIn(pod), At("dispatch"))
    BY DEF patchStoreStats, StatsIn
  <1>2. PatchUnready => Patched(ReadyIs(w.mem, Reason), ReadyIs(pod, Reason), Resting)
    BY DEF PatchUnready, ReadyIs, Reason
  <1>3. RemoveFinalizer => Patched(Unfinalized(w.mem), Unfinalized(pod), Resting)
    BY DEF RemoveFinalizer, Unfinalized
  <1>4. OnPreparingStop =>
          Patched(ReadyIs(w.mem, "PrepareStop"), ReadyIs(pod, "PrepareStop"),
                  IF May("drain") THEN At("start") ELSE [At("complete") EXCEPT !.why = "disabled"])
    BY DEF OnPreparingStop, ReadyIs
  <1>5. StartDraining => Patched(Begun(w.mem), Begun(pod), At("drain"))
    BY DEF StartDraining, Begun
  <1>6. SetRestartCN => Patched(Locked(w.mem), Locked(pod), Resting)
    BY DEF SetRestartCN, Locked
  <1>7. completeDraining =>
          Patched(Released(w.mem), Released(pod), IF Direct THEN At("deldirect") ELSE Resting)
    BY DEF completeDraining, Released
  <1>8. OnNormal => Patched(Kept(w.mem), Kept(pod), At("normal"))
    BY DEF OnNormal, Kept
  <1>9. CollectDirectPod => Patched(Dying(w.mem), Dying(pod), Resting)
    BY DEF CollectDirectPod, Dying
  <1>10. PatchReady => Patched(ReadyIs(w.mem, "Ready"), ReadyIs(pod, "Ready"), Resting)
    BY DEF PatchReady, ReadyIs
  <1>11. PoolRegister =>
           \/ ha # "absent" /\ Patched(PhaseIs(w.mem, "Idle"), PhaseIs(pod, "Idle"), At("ready"))
           \/ ha = "absent" /\ w' = At("unready") /\ UNCHANGED pod
    BY DEF PoolRegister, PhaseIs
  <1>12. evictPoolPodGracefully => Patched(Evicted(w.mem), Evicted(pod), Resting)
    BY DEF evictPoolPodGracefully, Evicted
  <1>13. PoolLegacy => Patched(PhaseIs(w.mem, "Idle"), PhaseIs(pod, "Idle"), Resting)
    BY DEF PoolLegacy, PhaseIs
  <1>14. PoolRecycle =>
           evictPoolPodGracefully \/ Patched(Recycled(w.mem), Recycled(pod), Resting)
    BY DEF PoolRecycle, Recycled
  <1>15. PoolDrainTimesOut => evictPoolPodGracefully
    BY DEF PoolDrainTimesOut
  <1> HIDE DEF Patch, Sent, Patched, Goto
  <1> QED BY <1>1, <1>2, <1>3, <1>4, <1>5, <1>6, <1>7, <1>8, <1>9, <1>10, <1>11, <1>12, <1>13,
             <1>14, <1>15

-----------------------------------------------------------------------------
(* Type correctness *)

LEMMA NewPodTyped == NewPod \in PodObj /\ Unobserved \in Score /\ Resting \in Worker
  <1>1. Unobserved \in Score
    BY DEF Unobserved, Score
  <1>2. NewPod \in PodObj
    BY <1>1 DEF NewPod, PodObj, Stamps, NoStamp
  <1> QED BY <1>1, <1>2 DEF Resting, Worker

(* The changes make a pod out of a pod. *)
LEMMA ChangesTyped ==
  ASSUME TypeOK, NEW p \in PodObj
  PROVE  /\ StatsIn(p) \in PodObj
         /\ \A x \in {"Ready", "Cordon", "PrepareStop", "NotRegistered"} : ReadyIs(p, x) \in PodObj
         /\ Unfinalized(p) \in PodObj /\ Begun(p) \in PodObj /\ Locked(p) \in PodObj
         /\ Released(p) \in PodObj /\ Kept(p) \in PodObj /\ Dying(p) \in PodObj
         /\ \A x \in {"Unknown", "Idle", "Bound", "Draining", "Terminating"} : PhaseIs(p, x) \in PodObj
         /\ Recycled(p) \in PodObj /\ Evicted(p) \in PodObj
  <1>1. 0 \in Stamps /\ NoStamp \in Stamps
    BY StoreAssumption DEF Stamps, Ages
  <1>2. w.score \in Score
    BY DEF TypeOK, Worker
  <1> QED BY <1>1, <1>2 DEF PodObj, StatsIn, ReadyIs, Unfinalized, Begun, Locked, Released, Kept, Dying,
                            PhaseIs, Recycled, Evicted

LEMMA PatchedTyped ==
  ASSUME TypeOK, NEW old, NEW new \in PodObj, NEW next \in Worker, Patched(old, new, next)
  PROVE  pod' \in PodObj /\ w' \in Worker
  <1>1. (IF next.pc = "rest" THEN NewPod ELSE new) \in PodObj
    BY NewPodTyped
  <1> QED BY <1>1 DEF Patched, TypeOK, Worker

LEMMA AtTyped ==
  ASSUME TypeOK, NEW x \in {"stats", "query", "putstats", "dispatch", "start", "drain", "lock", "complete",
                            "deldirect", "normal", "work", "ready", "unready", "pool", "delstore",
                            "unfinalize"}
  PROVE  At(x) \in Worker /\ At(x).pc = x /\ At(x).mem = w.mem /\ At(x).score = w.score
         /\ At(x).seen = w.seen /\ At(x).left = w.left /\ At(x).why = w.why
  BY DEF TypeOK, Worker, At

(* The steps of the controller leave the pod and the worker well typed. *)
LEMMA StepTyped ==
  ASSUME TypeOK, observe \/ Step \/ Abort
  PROVE  pod' \in PodObj /\ w' \in Worker
  <1> USE NewPodTyped
  <1>0. pod \in PodObj /\ w \in Worker /\ w.mem \in PodObj
    BY DEF TypeOK, Worker
  <1>1. CASE observe \/ Abort \/ HAKeeperFails
    <2>1. [w EXCEPT !.pc = IF pod.st = "deleted" THEN "delstore" ELSE "stats", !.mem = pod] \in Worker
      BY <1>0 DEF Worker
    <2> QED BY <1>0, <1>1, <2>1 DEF observe, Abort, HAKeeperFails, Return
  <1>2. CASE Stats
    <2>1. CASE NotStarted \/ BeginObservation \/ StoreCacheMiss
      BY <1>0, <2>1 DEF NotStarted, BeginObservation, StoreCacheMiss, Worker
    <2>2. ASSUME NEW k \in Kinds, Query(k) \/ QueryFails(k)
          PROVE  pod' \in PodObj /\ w' \in Worker
      <3>1. Count(k) \in {"unobserved", "zero", "some"}
        BY DEF Count
      <3>2. [w.score EXCEPT ![k] = Count(k)] \in Score
        BY <1>0, <3>1 DEF Worker, Score
      <3> QED BY <1>0, <2>2, <3>2 DEF Query, QueryFails, Worker
    <2>3. CASE patchStoreStats
      BY <1>0, <2>3, Patches, PatchedTyped, ChangesTyped, AtTyped
    <2>4. CASE PatchStatsFails
      <3>1. [w.mem EXCEPT !.score = w.score] \in PodObj
        BY <1>0, ChangesTyped DEF StatsIn
      <3> QED BY <1>0, <2>4, <3>1 DEF PatchStatsFails, Worker
    <2> QED BY <1>2, <2>1, <2>2, <2>3, <2>4 DEF Stats
  <1>3. CASE Drain
    <2>1. CASE OnPreparingUpdate \/ DrainTimesOut \/ UnknownToHAKeeper \/ LocksMigrated
      BY <1>0, <2>1 DEF OnPreparingUpdate, DrainTimesOut, UnknownToHAKeeper, LocksMigrated, Complete, Worker
    <2>2. CASE OnPreparingStop
      <3>1. [At("complete") EXCEPT !.why = "disabled"] \in Worker
        BY AtTyped DEF Worker
      <3> QED BY <1>0, <2>2, <3>1, Patches, PatchedTyped, ChangesTyped, AtTyped
    <2>3. CASE StartDraining
      BY <1>0, <2>3, Patches, PatchedTyped, ChangesTyped, AtTyped
    <2>4. CASE ContinueDraining
      BY <1>0, <2>4, AtTyped DEF ContinueDraining, Goto
    <2>5. CASE handleConnectionDraining
      <3>1. [w EXCEPT !.pc = "complete", !.why = "drained"] \in Worker
        BY <1>0 DEF Worker
      <3> QED BY <1>0, <2>5, <3>1, AtTyped DEF handleConnectionDraining, Goto, Complete, Return
    <2>6. CASE SetRestartCN
      BY <1>0, <2>6, Patches, PatchedTyped, ChangesTyped
    <2>7. CASE completeDraining
      <3>1. (IF Direct THEN At("deldirect") ELSE Resting) \in Worker
        BY AtTyped
      <3> QED BY <1>0, <2>7, <3>1, Patches, PatchedTyped, ChangesTyped
    <2>8. CASE DeleteDirectPod
      BY <1>0, <2>8 DEF DeleteDirectPod, Return, PodObj
    <2> QED BY <1>3, <2>1, <2>2, <2>3, <2>4, <2>5, <2>6, <2>7, <2>8 DEF Drain
  <1>4. CASE Normal
    <2>1. CASE OnNormal
      BY <1>0, <2>1, Patches, PatchedTyped, ChangesTyped, AtTyped
    <2>2. CASE CollectDirectPod \/ PatchReady \/ PoolLegacy
      BY <1>0, <2>2, Patches, PatchedTyped, ChangesTyped
    <2>3. CASE PoolDrainTimesOut \/ PoolRecycle
      BY <1>0, <2>3, Patches, PatchedTyped, ChangesTyped
    <2>4. CASE PoolRegister
      BY <1>0, <2>4, Patches, PatchedTyped, ChangesTyped, AtTyped
    <2>5. CASE ByPolicy \/ defaultCNNormalReconcile \/ PoolInUse
      BY <1>0, <2>5, AtTyped DEF ByPolicy, defaultCNNormalReconcile, PoolInUse, Goto
    <2>6. CASE PoolTerminating \/ PoolStillDraining
      BY <1>0, <2>6 DEF PoolTerminating, PoolStillDraining, Return
    <2>7. CASE diagnosisDraining
      BY <1>0, <2>7 DEF diagnosisDraining, Worker
    <2> QED BY <1>4, <2>1, <2>2, <2>3, <2>4, <2>5, <2>6, <2>7 DEF Normal
  <1>5. CASE OnCordon \/ DeleteCNStore
    BY <1>0, <1>5, AtTyped DEF OnCordon, DeleteCNStore, Goto
  <1>6. CASE PatchUnready
    <2>1. Reason \in {"Ready", "Cordon", "PrepareStop", "NotRegistered"}
      BY DEF Reason
    <2> QED BY <1>0, <1>6, <2>1, Patches, PatchedTyped, ChangesTyped
  <1>7. CASE RemoveFinalizer
    BY <1>0, <1>7, Patches, PatchedTyped, ChangesTyped
  <1> QED BY <1>1, <1>2, <1>3, <1>4, <1>5, <1>6, <1>7 DEF Step

(* The controller changes nothing outside but a work state in HAKeeper. *)
LEMMA StepOutside ==
  ASSUME observe \/ Step \/ Abort
  PROVE  /\ UNCHANGED <<up, load, txns, claim, known>>
         /\ \/ UNCHANGED <<ha, lag>>
            \/ /\ \/ ha' = "Draining" /\ ha # "absent"
                  \/ ha' = "Working" /\ w.pc = "work"
                  \/ ha' = "absent" /\ w.pc = "delstore"
               /\ lag' = IF ha = ha' THEN lag ELSE 0
  <1> USE DEF outside, hakeeper, cn, SetState
  <1>1. CASE observe \/ Abort \/ HAKeeperFails
    BY <1>1 DEF observe, Abort, HAKeeperFails
  <1>2. CASE Stats
    BY <1>2 DEF Stats, NotStarted, BeginObservation, StoreCacheMiss, Query, QueryFails, patchStoreStats,
                PatchStatsFails
  <1>3. CASE Drain
    BY <1>3 DEF Drain, OnPreparingUpdate, OnPreparingStop, StartDraining, DrainTimesOut, ContinueDraining,
                handleConnectionDraining, UnknownToHAKeeper, LocksMigrated, SetRestartCN,
                completeDraining, DeleteDirectPod
  <1>4. CASE Normal
    BY <1>4 DEF Normal, OnNormal, CollectDirectPod, ByPolicy, defaultCNNormalReconcile, PatchReady,
                PoolRegister, PoolInUse, PoolTerminating, PoolDrainTimesOut, PoolLegacy,
                diagnosisDraining, PoolStillDraining, PoolRecycle
  <1>5. CASE OnCordon \/ PatchUnready \/ DeleteCNStore \/ RemoveFinalizer
    BY <1>5 DEF OnCordon, PatchUnready, DeleteCNStore, RemoveFinalizer
  <1> QED BY <1>1, <1>2, <1>3, <1>4, <1>5 DEF Step

LEMMA StampsAge ==
  ASSUME NEW t \in Stamps
  PROVE  /\ Older(t) \in Stamps
         /\ t \in Ages => Older(t) \in Ages /\ Older(t) >= t
         /\ t = NoStamp <=> Older(t) = NoStamp
         /\ Older(NoStamp) = NoStamp
  BY StoreAssumption DEF Older, Stamps, Ages, NoStamp

LEMMA AgedTyped ==
  ASSUME NEW p \in PodObj
  PROVE  /\ Aged(p) \in PodObj
         /\ Aged(p) = [p EXCEPT !.start = Older(p.start), !.at = Older(p.at)]
  <1>1. Older(p.start) \in Stamps /\ Older(p.at) \in Stamps
    BY StampsAge DEF PodObj
  <1> QED BY <1>1 DEF Aged, PodObj

LEMMA AgedFields ==
  ASSUME NEW p \in PodObj
  PROVE  /\ Aged(p).start = Older(p.start) /\ Aged(p).at = Older(p.at)
         /\ Aged(p).st = p.st /\ Aged(p).ready = p.ready /\ Aged(p).score = p.score
         /\ Aged(p).cordon = p.cordon /\ Aged(p).phase = p.phase
  BY DEF Aged, PodObj

LEMMA ClusterTyped ==
  ASSUME TypeOK, Cluster, UNCHANGED may
  PROVE  TypeOK'
  <1> USE DEF TypeOK, cn, hakeeper, Counted
  <1>0. 0 \in Ages
    BY StoreAssumption DEF Ages
  <1>1. CASE Register \/ Propagate
    BY <1>0, <1>1 DEF Register, Propagate, SetState, WorkStates
  <1>2. CASE Tick
    <2>1. Older(lag) \in Ages
      BY StampsAge DEF Stamps
    <2>2. Aged(pod) \in PodObj /\ Aged(w.mem) \in PodObj
      BY AgedTyped DEF Worker
    <2>3. w' \in Worker
      BY <1>2, <2>2 DEF Tick, Worker
    <2> QED BY <1>0, <1>2, <2>1, <2>2, <2>3 DEF Tick
  <1>3. ASSUME NEW k \in Counted, Arrive(k) \/ Leave(k)
        PROVE  TypeOK'
    BY <1>3 DEF Arrive, Leave
  <1>4. CASE LocksLeave \/ ContainerDown \/ ContainerUp
    BY <1>4 DEF LocksLeave, ContainerDown, ContainerUp
  <1> QED BY <1>1, <1>2, <1>3, <1>4 DEF Cluster

(* What kruise, the pool, claims and users write into the pod. *)
LEMMA OthersStep ==
  ASSUME TypeOK, Others
  PROVE  /\ pod' \in PodObj
         /\ w' = w
         /\ pod'.start = pod.start /\ pod'.ready = pod.ready /\ pod'.score = pod.score
         /\ pod'.cordon = pod.cordon \/ May("cordon")
         /\ pod.st # "live" => pod'.st # "live"
         /\ UNCHANGED <<known>>
         /\ UNCHANGED <<up, load, txns>> \/ (up' = FALSE /\ load' = {} /\ txns' = FALSE)
         /\ \/ UNCHANGED <<ha, lag>>
            \/ ClaimSetState
  <1> USE DEF TypeOK, outside, hakeeper, cn, PodObj
  <1>1. ASSUME NEW life \in {"PreparingUpdate", "PreparingDelete"}, Prepare(life)
        PROVE  pod' = [pod EXCEPT !.life = life] /\ pod.st = "live" /\ UNCHANGED <<outside, w>>
    BY <1>1 DEF Prepare, Outsider
  <1>2. CASE Regret
    BY <1>2 DEF Regret, Outsider
  <1>3. CASE KruiseDelete
    BY <1>3 DEF KruiseDelete, Outsider
  <1>4. CASE KruiseUpdate
    BY <1>4 DEF KruiseUpdate
  <1>5. CASE Disappear
    BY <1>5 DEF Disappear
  <1>6. CASE PoolScaleIn
    BY <1>6 DEF PoolScaleIn, Outsider
  <1>7. CASE Cordon
    BY <1>7 DEF Cordon, Outsider
  <1>8. CASE ForceDelete \/ DeleteOnReclaim \/ SpecifiedDelete
    BY <1>8 DEF ForceDelete, DeleteOnReclaim, SpecifiedDelete, Outsider
  <1>9. CASE ClaimPod
    BY <1>9 DEF ClaimPod
  <1>10. CASE ClaimReclaim \/ ClaimSetState \/ ClaimGivesUp
    BY <1>10 DEF ClaimReclaim, ClaimSetState, ClaimGivesUp, SetState
  <1>11. CASE ClaimRelease
    <2>1. 0 \in Stamps
      BY StoreAssumption DEF Stamps, Ages
    <2> QED BY <1>11, <2>1 DEF ClaimRelease
  <1> QED BY <1>1, <1>2, <1>3, <1>4, <1>5, <1>6, <1>7, <1>8, <1>9, <1>10, <1>11 DEF Others

LEMMA TypeInductive == TypeOK /\ Next /\ UNCHANGED may => TypeOK'
  <1> SUFFICES ASSUME TypeOK, Next, UNCHANGED may PROVE TypeOK'
    OBVIOUS
  <1>1. CASE observe \/ Step \/ Abort
    <2>1. pod' \in PodObj /\ w' \in Worker
      BY <1>1, StepTyped
    <2>2. 0 \in Ages
      BY StoreAssumption DEF Ages
    <2>3. /\ UNCHANGED <<up, load, txns, claim, known>>
          /\ ha' \in WorkStates /\ lag' \in Ages
      BY <1>1, <2>2, StepOutside DEF TypeOK, WorkStates
    <2> QED BY <2>1, <2>3 DEF TypeOK, Counted
  <1>2. CASE Cluster
    BY <1>2, ClusterTyped
  <1>3. CASE Others
    <2>1. claim' \in {"none", "Working", "Draining", "release"}
      BY <1>3 DEF Others, Prepare, Regret, KruiseDelete, KruiseUpdate, Disappear, PoolScaleIn, Cordon,
                  ForceDelete, DeleteOnReclaim, SpecifiedDelete, ClaimPod, ClaimReclaim, ClaimSetState,
                  ClaimGivesUp, ClaimRelease, Outsider, outside, TypeOK
    <2>2. 0 \in Ages
      BY StoreAssumption DEF Ages
    <2>3. ha' \in WorkStates /\ lag' \in Ages
      BY <1>3, <2>2, OthersStep DEF ClaimSetState, SetState, hakeeper, TypeOK, WorkStates
    <2> QED BY <1>3, <2>1, <2>3, OthersStep DEF TypeOK, Counted
  <1> QED BY <1>1, <1>2, <1>3 DEF Next

LEMMA InitTyped == Init => TypeOK
  <1> SUFFICES ASSUME Init PROVE TypeOK
    OBVIOUS
  <1>1. NewPod \in PodObj /\ Resting \in Worker /\ [NewPod EXCEPT !.phase = "Draining"] \in PodObj
    BY NewPodTyped DEF PodObj
  <1>2. 0 \in Ages
    BY StoreAssumption DEF Ages
  <1> QED BY <1>1, <1>2 DEF Init, Started, TypeOK, WorkStates

(* The labels and annotations that the controller, kruise, the pool, claims and users
   write into a pod between them are ones the controller can read, whatever calls
   fail and in whatever order they come
   (src/pkg/controllers/cnstore/controller.go:99-211). *)
THEOREM StoreTypeCorrect == Spec => []TypeOK
  <1>1. TypeOK /\ [Next /\ UNCHANGED may]_<<vars, may>> => TypeOK'
    <2>1. TypeOK /\ UNCHANGED <<vars, may>> => TypeOK'
      BY DEF vars, TypeOK, Counted
    <2> QED BY <2>1, TypeInductive
  <1> QED BY <1>1, InitTyped, PTL DEF Spec

-----------------------------------------------------------------------------
(* The counts a drain relies on *)

(* A failing patch of the counts leaves those of an earlier round in the API
   server.  The next patch of the reconciliation would bring them back; where one
   is sent although the drain is old enough, the store has been cordoned, time
   has passed in between, or nothing had to be patched. *)
Separate == May("patch") => ~May("cordon") /\ ~May("slow") /\ ~May("resend")

(* Nobody else writes what the controller decides on. *)
Copied ==
  w.pc # "rest" =>
    /\ w.mem.start = pod.start
    /\ w.mem.ready = pod.ready
    /\ ~May("patch") \/ w.pc \in {"stats", "query", "putstats"} => w.mem.score = pod.score

(* A count that was not asked for or could not be got is not observed. *)
Counting ==
  /\ w.pc \in {"rest", "stats"} => w.score = Unobserved
  /\ w.pc \in {"query", "putstats"} =>
       /\ \A k \in w.left : w.score[k] = "unobserved"
       /\ ~w.seen => \E k \in Kinds \ w.left : w.score[k] = "unobserved"

Evidence == w.seen /\ \A k \in Kinds : w.score[k] # "some"

SafeOnEvidence == IsSafeToReclaim(w.mem) => Evidence

(* The copy that is judged holds the counts of the round, or the drain is too
   young to be judged. *)
Judged ==
  /\ w.pc = "dispatch" => SafeOnEvidence
  /\ w.pc = "start" => SafeOnEvidence \/ (May("patch") /\ w.mem.start = NoStamp)
  /\ w.pc = "drain" => SafeOnEvidence \/ (May("patch") /\ w.mem.start = 0)
  /\ w.pc = "lock" \/ (w.pc = "complete" /\ w.why = "drained") => Evidence

(* A drain that has begun shows in the readiness. *)
Marked ==
  May("patch") =>
    /\ ~pod.cordon /\ (w.pc # "rest" => ~w.mem.cordon)
    /\ pod.start # NoStamp => pod.ready = "PrepareStop"
    /\ w.pc \in {"start", "drain", "lock"} => pod.ready = "PrepareStop"
    /\ w.pc \in {"normal", "work", "ready", "unready", "pool"} => pod.start = NoStamp

EvidenceInv == TypeOK /\ Separate /\ Copied /\ Counting /\ Judged /\ Marked

EvidenceKept == Copied' /\ Counting' /\ Judged' /\ Marked'

(* The reconciliation ends. *)
LEMMA Ended ==
  ASSUME UNCHANGED may, w'.pc = "rest", w'.score = Unobserved,
         May("patch") => ~pod'.cordon /\ (pod'.start # NoStamp => pod'.ready = "PrepareStop")
  PROVE  EvidenceKept
  BY DEF EvidenceKept, Copied, Counting, Judged, Marked, May

LEMMA PatchEnds ==
  ASSUME TypeOK, UNCHANGED may, NEW old, NEW new, Patched(old, new, Resting),
         May("patch") =>
           /\ ~pod.cordon /\ (pod.start # NoStamp => pod.ready = "PrepareStop")
           /\ ~new.cordon /\ (new.start # NoStamp => new.ready = "PrepareStop")
  PROVE  EvidenceKept
  <1>1. w'.pc = "rest" /\ w'.score = Unobserved /\ (pod' = pod \/ pod' = new)
    BY DEF Patched, Resting
  <1> QED BY <1>1, Ended

(* The reconciliation goes on, and keeps what it has counted. *)
LEMMA GoesOn ==
  ASSUME EvidenceInv, UNCHANGED <<may, pod>>, NEW x, w' = At(x),
         w.pc # "rest", x \notin {"rest", "stats", "query", "putstats", "dispatch"},
         w.pc \notin {"stats", "query", "putstats"},
         x = "start" => w.pc = "start",
         x = "drain" => w.pc = "start" /\ w.mem.start # NoStamp,
         x = "lock" => Evidence /\ w.pc = "drain",
         x # "complete",
         May("patch") /\ x \in {"normal", "work", "ready", "unready", "pool"} =>
           w.pc \in {"normal", "work", "ready", "unready", "pool"}
  PROVE  EvidenceKept
  <1>1. /\ w'.pc = x /\ w'.mem = w.mem /\ w'.score = w.score /\ w'.seen = w.seen /\ w'.left = w.left
    BY DEF EvidenceInv, TypeOK, Worker, At
  <1>2. Copied' /\ Counting'
    BY <1>1 DEF EvidenceInv, Copied, Counting, May
  <1>3. Judged'
    BY <1>1 DEF EvidenceInv, Judged, SafeOnEvidence, Evidence, IsSafeToReclaim, May
  <1>4. Marked'
    BY <1>1 DEF EvidenceInv, Marked, May
  <1> QED BY <1>2, <1>3, <1>4 DEF EvidenceKept

LEMMA StatsEvidence ==
  ASSUME EvidenceInv, UNCHANGED may, observe \/ Stats
  PROVE  EvidenceKept
  <1> USE DEF EvidenceInv
  <1>0. pod \in PodObj /\ w \in Worker /\ w.mem \in PodObj
    BY DEF TypeOK, Worker
  <1>1. CASE observe
    <2>1. /\ w'.pc \in {"stats", "delstore"} /\ w'.mem = pod /\ w'.score = w.score
          /\ w.pc = "rest" /\ pod' = pod
      BY <1>0, <1>1 DEF observe, Worker
    <2> QED BY <2>1 DEF EvidenceKept, Copied, Counting, Judged, Marked, May
  <1>2. CASE NotStarted
    <2>1. /\ w'.pc = "dispatch" /\ w'.mem = w.mem /\ w'.score = w.score /\ w'.seen
          /\ w.pc = "stats" /\ pod' = pod
      BY <1>0, <1>2 DEF NotStarted, Worker
    <2>2. Copied' /\ Counting' /\ Marked'
      BY <2>1 DEF Copied, Counting, Marked, May
    <2>3. \A k \in Kinds : w.score[k] # "some"
      BY <2>1 DEF Counting, Unobserved
    <2>4. Judged'
      BY <2>1, <2>3 DEF Judged, SafeOnEvidence, Evidence
    <2> QED BY <2>2, <2>4 DEF EvidenceKept
  <1>3. CASE BeginObservation
    <2>1. /\ w'.pc = "query" /\ w'.mem = w.mem /\ w'.score = Unobserved /\ w'.seen /\ w'.left = Kinds
          /\ w.pc = "stats" /\ pod' = pod
      BY <1>0, <1>3 DEF BeginObservation, Worker
    <2> QED BY <2>1 DEF EvidenceKept, Copied, Counting, Judged, Marked, May, Unobserved
  <1>4. CASE StoreCacheMiss
    <2>1. /\ w'.pc = "putstats" /\ w'.mem = w.mem /\ w'.score = w.score /\ w'.left = {}
          /\ w.pc = "query" /\ w.left = Kinds /\ pod' = pod
      BY <1>0, <1>4 DEF StoreCacheMiss, Worker
    <2>2. "session" \in Kinds
      BY DEF Kinds
    <2> QED BY <2>1, <2>2 DEF EvidenceKept, Copied, Counting, Judged, Marked, May
  <1>5. ASSUME NEW k \in Kinds, Query(k)
        PROVE  EvidenceKept
    <2>1. /\ w'.pc = "query" /\ w'.mem = w.mem /\ w'.score = [w.score EXCEPT ![k] = Count(k)]
          /\ w'.left = w.left \ {k} /\ w'.seen = w.seen
          /\ w.pc = "query" /\ pod' = pod /\ k \in w.left
      BY <1>0, <1>5 DEF Query, NextQuery, Worker
    <2>2. Counting'
      BY <1>0, <2>1 DEF Counting, Worker, Score
    <2> QED BY <2>1, <2>2 DEF EvidenceKept, Copied, Judged, Marked, May
  <1>6. ASSUME NEW k \in Kinds, QueryFails(k)
        PROVE  EvidenceKept
    <2>1. /\ w'.pc = "query" /\ w'.mem = w.mem /\ w'.score = w.score
          /\ w'.left = w.left \ {k}
          /\ w.pc = "query" /\ pod' = pod /\ k \in w.left
      BY <1>0, <1>6 DEF QueryFails, NextQuery, Worker
    <2>2. Counting'
      BY <2>1 DEF Counting
    <2> QED BY <2>1, <2>2 DEF EvidenceKept, Copied, Judged, Marked, May
  <1>7. CASE patchStoreStats \/ PatchStatsFails
    <2>1. w.pc \in {"query", "putstats"} /\ w.left = {}
      BY <1>7 DEF patchStoreStats, PatchStatsFails
    <2>2. /\ w'.pc = "dispatch" /\ w'.score = w.score /\ w'.seen = w.seen /\ w'.mem.score = w.score
          /\ w'.mem.start = pod'.start /\ w'.mem.ready = pod'.ready
          /\ pod'.start = pod.start /\ pod'.ready = pod.ready /\ pod'.cordon = pod.cordon
          /\ w'.mem.cordon = w.mem.cordon \/ w'.mem.cordon = pod.cordon
          /\ May("patch") \/ pod'.score = w.score
      <3>1. CASE PatchStatsFails
        BY <1>0, <2>1, <3>1 DEF PatchStatsFails, Copied, Worker, PodObj
      <3>2. CASE patchStoreStats
        <4>1. Patched(StatsIn(w.mem), StatsIn(pod), At("dispatch"))
          BY <3>2, Patches
        <4>2. /\ At("dispatch").pc = "dispatch" /\ At("dispatch").mem = w.mem
              /\ At("dispatch").score = w.score /\ At("dispatch").seen = w.seen
              /\ At("dispatch") \in Worker
          BY AtTyped
        <4>3. CASE pod' = StatsIn(pod) /\ w' = [At("dispatch") EXCEPT !.mem = StatsIn(pod)]
          BY <1>0, <4>2, <4>3 DEF StatsIn, Worker, PodObj
        <4>4. CASE StatsIn(w.mem) = w.mem /\ pod' = pod /\ w' = At("dispatch")
          <5>1. w.mem.score = w.score
            BY <1>0, <4>4 DEF StatsIn, PodObj
          <5> QED BY <1>0, <2>1, <4>2, <4>4, <5>1 DEF Copied
        <4> QED BY <4>1, <4>2, <4>3, <4>4 DEF Patched
      <3> QED BY <1>7, <3>1, <3>2
    <2>3. Copied' /\ Counting' /\ Marked'
      BY <2>1, <2>2 DEF Copied, Counting, Marked, May
    <2>4. Judged'
      <3>1. ASSUME \A k \in Kinds : w.score[k] = "zero"
            PROVE  w.seen
        BY <2>1, <3>1 DEF Counting
      <3> QED BY <2>2, <3>1 DEF Judged, SafeOnEvidence, Evidence, IsSafeToReclaim
    <2> QED BY <2>3, <2>4 DEF EvidenceKept
  <1> QED BY <1>1, <1>2, <1>3, <1>4, <1>5, <1>6, <1>7 DEF Stats

LEMMA DrainEvidence ==
  ASSUME EvidenceInv, UNCHANGED may, Drain, MinDelay > 0
  PROVE  EvidenceKept
  <1> USE DEF EvidenceInv
  <1>0. pod \in PodObj /\ w \in Worker /\ w.mem \in PodObj
    BY DEF TypeOK, Worker
  <1>1. CASE OnPreparingUpdate \/ DrainTimesOut \/ UnknownToHAKeeper
    <2>1. /\ w'.pc = "complete" /\ w'.why # "drained" /\ w'.mem = w.mem
          /\ w.pc \in {"dispatch", "start", "drain"} /\ pod' = pod
      BY <1>0, <1>1 DEF OnPreparingUpdate, DrainTimesOut, UnknownToHAKeeper, Complete, Worker
    <2> QED BY <2>1 DEF EvidenceKept, Copied, Counting, Judged, Marked, May
  <1>2. CASE LocksMigrated
    <2>1. /\ w'.pc = "complete" /\ w'.mem = w.mem /\ w'.score = w.score /\ w'.seen = w.seen
          /\ w.pc = "lock" /\ pod' = pod
      BY <1>0, <1>2 DEF LocksMigrated, Complete, Worker
    <2> QED BY <2>1 DEF EvidenceKept, Copied, Counting, Judged, Evidence, Marked, May
  <1>3. CASE OnPreparingStop
    <2> DEFINE next == IF May("drain") THEN At("start") ELSE [At("complete") EXCEPT !.why = "disabled"]
    <2>1. Patched(ReadyIs(w.mem, "PrepareStop"), ReadyIs(pod, "PrepareStop"), next) /\ w.pc = "dispatch"
      BY <1>3, Patches DEF OnPreparingStop
    <2>2. /\ next.pc \in {"start", "complete"} /\ next.mem = w.mem /\ next.score = w.score
          /\ next.seen = w.seen /\ (next.pc = "complete" => next.why = "disabled") /\ next \in Worker
      BY AtTyped DEF Worker
    <2> HIDE DEF next
    <2>3. CASE pod' = ReadyIs(pod, "PrepareStop") /\ w' = [next EXCEPT !.mem = ReadyIs(pod, "PrepareStop")]
               /\ (ReadyIs(w.mem, "PrepareStop") # w.mem \/ May("resend"))
      <3>1. /\ w'.pc = next.pc /\ w'.mem = pod' /\ w'.score = w.score /\ w'.seen = w.seen /\ w'.why = next.why
            /\ pod'.ready = "PrepareStop" /\ pod'.start = pod.start /\ pod'.score = pod.score
            /\ pod'.cordon = pod.cordon
        BY <1>0, <2>2, <2>3 DEF ReadyIs, Worker, PodObj
      <3>2. May("patch") => pod.start = NoStamp
        <4>1. w.mem.ready = "PrepareStop" => ReadyIs(w.mem, "PrepareStop") = w.mem
          BY <1>0 DEF ReadyIs, PodObj
        <4> QED BY <2>1, <2>3, <4>1 DEF Separate, Copied, Marked
      <3>3. Copied' /\ Counting' /\ Marked'
        BY <2>2, <3>1 DEF Copied, Counting, Marked, May
      <3>4. Judged'
        <4>1. CASE May("patch")
          BY <2>2, <3>1, <3>2, <4>1 DEF Judged, May
        <4>2. CASE ~May("patch")
          <5>1. SafeOnEvidence'
            BY <2>1, <3>1, <4>2 DEF Copied, Judged, SafeOnEvidence, Evidence, IsSafeToReclaim
          <5> QED BY <2>2, <3>1, <5>1 DEF Judged
        <4> QED BY <4>1, <4>2
      <3> QED BY <3>3, <3>4 DEF EvidenceKept
    <2>4. CASE ReadyIs(w.mem, "PrepareStop") = w.mem /\ pod' = pod /\ w' = next
      <3>1. w.mem.ready = "PrepareStop" /\ pod.ready = "PrepareStop"
        BY <1>0, <2>1, <2>4 DEF ReadyIs, PodObj, Copied
      <3>2. SafeOnEvidence'
        BY <2>1, <2>2, <2>4 DEF Judged, SafeOnEvidence, Evidence, IsSafeToReclaim
      <3> QED BY <2>1, <2>2, <2>4, <3>1, <3>2 DEF EvidenceKept, Copied, Counting, Judged, Marked, May
    <2> QED BY <2>1, <2>2, <2>3, <2>4 DEF Patched
  <1>4. CASE StartDraining
    <2>1. /\ Patched(Begun(w.mem), Begun(pod), At("drain")) /\ w.pc = "start" /\ w.mem.start = NoStamp
      BY <1>4, Patches DEF StartDraining
    <2>2. /\ At("drain").pc = "drain" /\ At("drain").mem = w.mem /\ At("drain").score = w.score
          /\ At("drain").seen = w.seen /\ At("drain") \in Worker
      BY AtTyped
    <2>3. Begun(w.mem) # w.mem
      BY <1>0, <2>1 DEF Begun, PodObj, NoStamp
    <2>4. pod' = Begun(pod) /\ w' = [At("drain") EXCEPT !.mem = Begun(pod)]
      BY <2>1, <2>2, <2>3 DEF Patched
    <2>5. /\ w'.pc = "drain" /\ w'.mem = pod' /\ w'.score = w.score /\ w'.seen = w.seen
          /\ pod'.ready = pod.ready /\ pod'.start = 0 /\ pod'.score = pod.score /\ pod'.cordon = pod.cordon
      BY <1>0, <2>2, <2>4 DEF Begun, Worker, PodObj
    <2>6. Copied' /\ Counting' /\ Marked'
      BY <2>1, <2>5 DEF Copied, Counting, Marked, May
    <2>7. Judged'
      BY <2>1, <2>5 DEF Copied, Judged, SafeOnEvidence, Evidence, IsSafeToReclaim, May
    <2> QED BY <2>6, <2>7 DEF EvidenceKept
  <1>5. CASE ContinueDraining
    BY <1>5, GoesOn DEF ContinueDraining, Goto
  <1>6. CASE handleConnectionDraining
    <2>1. w.pc = "drain" /\ pod' = pod
      BY <1>6 DEF handleConnectionDraining
    <2>2. CASE ~(Settled(w.mem) /\ IsSafeToReclaim(w.mem))
      BY <1>6, <2>1, <2>2, Ended DEF handleConnectionDraining, Return, Resting, Marked
    <2>3. CASE Settled(w.mem) /\ IsSafeToReclaim(w.mem)
      <3>1. Evidence
        <4>1. w.mem.start # 0
          BY <2>3, StoreAssumption DEF Settled
        <4> QED BY <2>1, <2>3, <4>1 DEF Judged, SafeOnEvidence
      <3>2. CASE w' = At("lock")
        BY <2>1, <3>1, <3>2, GoesOn
      <3>3. CASE w' = [w EXCEPT !.pc = "complete", !.why = "drained"]
        <4>1. /\ w'.pc = "complete" /\ w'.mem = w.mem /\ w'.score = w.score /\ w'.seen = w.seen
          BY <1>0, <3>3 DEF Worker
        <4> QED BY <2>1, <3>1, <4>1 DEF EvidenceKept, Copied, Counting, Judged, Evidence, Marked, May
      <3> QED BY <1>6, <2>3, <3>2, <3>3 DEF handleConnectionDraining, Goto, Complete
    <2> QED BY <2>2, <2>3
  <1>7. CASE SetRestartCN
    <2>1. Locked(pod).start = pod.start /\ Locked(pod).ready = pod.ready /\ Locked(pod).cordon = pod.cordon
      BY <1>0 DEF Locked, PodObj
    <2> QED BY <1>7, <2>1, Patches, PatchEnds DEF Marked
  <1>8. CASE completeDraining
    <2>1. /\ Patched(Released(w.mem), Released(pod), IF Direct THEN At("deldirect") ELSE Resting)
          /\ w.pc = "complete"
      BY <1>8, Patches DEF completeDraining
    <2>2. /\ Released(pod).start = NoStamp /\ Released(pod).ready = pod.ready
          /\ Released(pod).cordon = pod.cordon /\ Released(pod).score = pod.score
      BY <1>0 DEF Released, PodObj
    <2>3. CASE ~Direct
      BY <2>1, <2>2, <2>3, PatchEnds DEF Marked
    <2>4. CASE Direct
      <3>1. At("deldirect").pc = "deldirect" /\ At("deldirect").mem = w.mem /\ At("deldirect") \in Worker
        BY AtTyped
      <3>2. CASE pod' = Released(pod) /\ w' = [At("deldirect") EXCEPT !.mem = Released(pod)]
        <4>1. w'.pc = "deldirect" /\ w'.mem = pod'
          BY <3>1, <3>2 DEF Worker
        <4> QED BY <2>1, <2>2, <3>2, <4>1 DEF EvidenceKept, Copied, Counting, Judged, Marked, May
      <3>3. CASE pod' = pod /\ w' = At("deldirect")
        BY <2>1, <3>1, <3>3 DEF EvidenceKept, Copied, Counting, Judged, Marked, May
      <3> QED BY <2>1, <2>4, <3>1, <3>2, <3>3 DEF Patched
    <2> QED BY <2>3, <2>4
  <1>9. CASE DeleteDirectPod
    <2>1. /\ w' = Resting /\ pod'.start = pod.start /\ pod'.ready = pod.ready /\ pod'.cordon = pod.cordon
      BY <1>0, <1>9 DEF DeleteDirectPod, Return, PodObj
    <2> QED BY <2>1, Ended DEF Resting, Marked
  <1> QED BY <1>1, <1>2, <1>3, <1>4, <1>5, <1>6, <1>7, <1>8, <1>9 DEF Drain

LEMMA NormalEvidence ==
  ASSUME EvidenceInv, UNCHANGED may, Normal
  PROVE  EvidenceKept
  <1> USE DEF EvidenceInv
  <1>0. pod \in PodObj /\ w \in Worker /\ w.mem \in PodObj
    BY DEF TypeOK, Worker
  <1>1. CASE OnNormal
    <2>1. Patched(Kept(w.mem), Kept(pod), At("normal")) /\ w.pc = "dispatch"
      BY <1>1, Patches DEF OnNormal
    <2>2. At("normal").pc = "normal" /\ At("normal").mem = w.mem /\ At("normal") \in Worker
      BY AtTyped
    <2>3. CASE pod' = Kept(pod) /\ w' = [At("normal") EXCEPT !.mem = Kept(pod)]
      <3>1. /\ w'.pc = "normal" /\ w'.mem = pod'
            /\ pod'.ready = pod.ready /\ pod'.start = NoStamp /\ pod'.cordon = pod.cordon
        BY <1>0, <2>2, <2>3 DEF Worker, Kept, PodObj
      <3> QED BY <3>1 DEF EvidenceKept, Copied, Counting, Judged, Marked, May
    <2>4. CASE Kept(w.mem) = w.mem /\ pod' = pod /\ w' = At("normal")
      <3>1. w.mem.start = NoStamp
        BY <1>0, <2>4 DEF Kept, PodObj
      <3> QED BY <2>1, <2>2, <2>4, <3>1 DEF EvidenceKept, Copied, Counting, Judged, Marked, May
    <2> QED BY <2>1, <2>2, <2>3, <2>4 DEF Patched
  <1>2. CASE ByPolicy \/ defaultCNNormalReconcile \/ PoolInUse
    <2>1. PICK x \in {"work", "ready", "pool"} :
            w' = At(x) /\ pod' = pod /\ w.pc \in {"normal", "work", "pool"}
      BY <1>2 DEF ByPolicy, defaultCNNormalReconcile, PoolInUse, Goto
    <2> QED BY <2>1, GoesOn
  <1>3. CASE PoolTerminating \/ PoolStillDraining
    BY <1>3, Ended DEF PoolTerminating, PoolStillDraining, Return, Resting, Marked
  <1>4. CASE diagnosisDraining
    <2>1. w'.pc = "pool" /\ w'.mem = pod /\ pod' = pod /\ w.pc = "pool"
      BY <1>0, <1>4 DEF diagnosisDraining, DrainUnderWay, Worker
    <2> QED BY <2>1 DEF EvidenceKept, Copied, Counting, Judged, Marked, May
  <1>5. CASE CollectDirectPod \/ PoolLegacy \/ PoolDrainTimesOut \/ PoolRecycle
    <2>1. PICK old, new : /\ Patched(old, new, Resting)
                          /\ new \in {Dying(pod), PhaseIs(pod, "Idle"), Evicted(pod), Recycled(pod)}
      BY <1>5, Patches
    <2>2. new.start = pod.start /\ new.ready = pod.ready /\ new.cordon = pod.cordon
      BY <1>0, <2>1 DEF Dying, PhaseIs, Evicted, Recycled, PodObj
    <2> QED BY <2>1, <2>2, PatchEnds DEF Marked
  <1>6. CASE PatchReady
    <2>1. Patched(ReadyIs(w.mem, "Ready"), ReadyIs(pod, "Ready"), Resting) /\ w.pc = "ready"
      BY <1>6, Patches DEF PatchReady
    <2>2. ReadyIs(pod, "Ready").start = pod.start /\ ReadyIs(pod, "Ready").cordon = pod.cordon
      BY <1>0 DEF ReadyIs, PodObj
    <2> QED BY <2>1, <2>2, PatchEnds DEF Marked
  <1>7. CASE PoolRegister
    <2>1. w.pc = "pool"
      BY <1>7 DEF PoolRegister
    <2>2. CASE Patched(PhaseIs(w.mem, "Idle"), PhaseIs(pod, "Idle"), At("ready"))
      <3>1. At("ready").pc = "ready" /\ At("ready").mem = w.mem /\ At("ready") \in Worker
        BY AtTyped
      <3>2. CASE pod' = PhaseIs(pod, "Idle") /\ w' = [At("ready") EXCEPT !.mem = PhaseIs(pod, "Idle")]
        <4>1. /\ w'.pc = "ready" /\ w'.mem = pod'
              /\ pod'.ready = pod.ready /\ pod'.start = pod.start /\ pod'.cordon = pod.cordon
          BY <1>0, <3>1, <3>2 DEF Worker, PhaseIs, PodObj
        <4> QED BY <2>1, <4>1 DEF EvidenceKept, Copied, Counting, Judged, Marked, May
      <3>3. CASE pod' = pod /\ w' = At("ready")
        BY <2>1, <3>1, <3>3 DEF EvidenceKept, Copied, Counting, Judged, Marked, May
      <3> QED BY <2>2, <3>1, <3>2, <3>3 DEF Patched
    <2>3. CASE w' = At("unready") /\ pod' = pod
      BY <2>1, <2>3, GoesOn
    <2> QED BY <1>7, <2>2, <2>3, Patches
  <1> QED BY <1>1, <1>2, <1>3, <1>4, <1>5, <1>6, <1>7 DEF Normal

LEMMA RestEvidence ==
  ASSUME EvidenceInv, UNCHANGED may,
         OnCordon \/ PatchUnready \/ DeleteCNStore \/ RemoveFinalizer \/ HAKeeperFails \/ Abort
  PROVE  EvidenceKept
  <1> USE DEF EvidenceInv
  <1>0. pod \in PodObj /\ w \in Worker /\ w.mem \in PodObj
    BY DEF TypeOK, Worker
  <1>1. CASE OnCordon
    <2>1. w' = At("unready") /\ pod' = pod /\ w.pc = "dispatch" /\ w.mem.cordon
      BY <1>1 DEF OnCordon, Goto
    <2> QED BY <2>1, GoesOn DEF Marked
  <1>2. CASE DeleteCNStore
    <2>1. w' = At("unfinalize") /\ pod' = pod /\ w.pc = "delstore"
      BY <1>2 DEF DeleteCNStore, Goto
    <2> QED BY <2>1, GoesOn
  <1>3. CASE PatchUnready
    <2>1. Patched(ReadyIs(w.mem, Reason), ReadyIs(pod, Reason), Resting) /\ w.pc = "unready"
      BY <1>3, Patches DEF PatchUnready
    <2>2. ReadyIs(pod, Reason).start = pod.start /\ ReadyIs(pod, Reason).cordon = pod.cordon
      BY <1>0 DEF ReadyIs, PodObj
    <2> QED BY <2>1, <2>2, PatchEnds DEF Marked
  <1>4. CASE RemoveFinalizer
    <2>1. /\ Unfinalized(pod).start = pod.start /\ Unfinalized(pod).ready = pod.ready
          /\ Unfinalized(pod).cordon = pod.cordon
      BY <1>0 DEF Unfinalized, PodObj
    <2> QED BY <1>4, <2>1, Patches, PatchEnds DEF Marked
  <1>5. CASE HAKeeperFails \/ Abort
    BY <1>5, Ended DEF HAKeeperFails, Abort, Return, Resting, Marked
  <1> QED BY <1>1, <1>2, <1>3, <1>4, <1>5

LEMMA OutsideEvidence ==
  ASSUME EvidenceInv, UNCHANGED may, Cluster \/ Others
  PROVE  EvidenceKept
  <1> USE DEF EvidenceInv
  <1>0. pod \in PodObj /\ w \in Worker /\ w.mem \in PodObj
    BY DEF TypeOK, Worker
  <1>1. CASE Others
    <2>1. /\ w' = w /\ pod'.start = pod.start /\ pod'.ready = pod.ready /\ pod'.score = pod.score
          /\ pod'.cordon = pod.cordon \/ May("cordon")
      BY <1>1, OthersStep
    <2> QED BY <2>1 DEF EvidenceKept, Copied, Counting, Judged, SafeOnEvidence, Evidence, IsSafeToReclaim,
                        Marked, Separate, May
  <1>2. CASE Tick
    <2>1. /\ w.pc = "rest" \/ May("slow")
          /\ pod' = Aged(pod) /\ w' = [w EXCEPT !.mem = Aged(w.mem)]
      BY <1>2 DEF Tick
    <2>2. /\ w'.pc = w.pc /\ w'.mem = Aged(w.mem) /\ w'.score = w.score /\ w'.left = w.left
          /\ w'.seen = w.seen /\ w'.why = w.why
      BY <1>0, <2>1 DEF Worker
    <2>3. /\ pod'.ready = pod.ready /\ pod'.score = pod.score /\ pod'.cordon = pod.cordon
          /\ pod'.start = Older(pod.start)
          /\ w'.mem.ready = w.mem.ready /\ w'.mem.score = w.mem.score /\ w'.mem.cordon = w.mem.cordon
          /\ w'.mem.start = Older(w.mem.start)
      BY <1>0, <2>1, <2>2, AgedFields
    <2>4. pod.start = NoStamp <=> pod'.start = NoStamp
      BY <1>0, <2>3, StampsAge DEF PodObj
    <2>5. Copied' /\ Counting'
      BY <2>2, <2>3 DEF Copied, Counting, May
    <2>6. Marked'
      BY <2>2, <2>3, <2>4 DEF Marked, May
    <2>7. SafeOnEvidence' <=> SafeOnEvidence
      BY <2>2, <2>3 DEF SafeOnEvidence, Evidence, IsSafeToReclaim
    <2>8. w.pc # "rest" => ~May("patch")
      BY <2>1 DEF Separate
    <2>9. Judged'
      BY <2>2, <2>7, <2>8 DEF Judged, Evidence, May
    <2> QED BY <2>5, <2>6, <2>9 DEF EvidenceKept
  <1>3. CASE Cluster /\ ~Tick
    <2>1. pod' = pod /\ w' = w
      BY <1>3 DEF Cluster, Register, Propagate, Arrive, Leave, LocksLeave, ContainerDown, ContainerUp
    <2> QED BY <2>1 DEF EvidenceKept, Copied, Counting, Judged, SafeOnEvidence, Evidence, IsSafeToReclaim,
                        Marked, May
  <1> QED BY <1>1, <1>2, <1>3 DEF Cluster

LEMMA EvidenceInit ==
  ASSUME Init, \A sc \in Scenarios : "patch" \in sc => sc \cap {"cordon", "slow", "resend"} = {}
  PROVE  EvidenceInv
  <1>1. Separate
    BY DEF Init, Separate, May
  <1>2. w = Resting /\ ~pod.cordon /\ pod.start = NoStamp
    BY DEF Init, Started, NewPod
  <1>3. Copied /\ Counting /\ Judged /\ Marked
    BY <1>2 DEF Resting, Copied, Counting, Judged, Marked
  <1> QED BY <1>1, <1>3, InitTyped DEF EvidenceInv

LEMMA EvidenceInductive ==
  ASSUME MinDelay > 0, EvidenceInv, Next, UNCHANGED may
  PROVE  EvidenceInv'
  <1>1. TypeOK' /\ Separate'
    BY TypeInductive DEF EvidenceInv, Separate, May
  <1>2. CASE observe \/ Stats
    BY <1>1, <1>2, StatsEvidence DEF EvidenceInv, EvidenceKept
  <1>3. CASE Drain
    BY <1>1, <1>3, DrainEvidence DEF EvidenceInv, EvidenceKept
  <1>4. CASE Normal
    BY <1>1, <1>4, NormalEvidence DEF EvidenceInv, EvidenceKept
  <1>5. CASE OnCordon \/ PatchUnready \/ DeleteCNStore \/ RemoveFinalizer \/ HAKeeperFails \/ Abort
    BY <1>1, <1>5, RestEvidence DEF EvidenceInv, EvidenceKept
  <1>6. CASE Cluster \/ Others
    BY <1>1, <1>6, OutsideEvidence DEF EvidenceInv, EvidenceKept
  <1> QED BY <1>2, <1>3, <1>4, <1>5, <1>6 DEF Next, Step

LEMMA EvidenceStutters ==
  ASSUME EvidenceInv, UNCHANGED <<vars, may>>
  PROVE  EvidenceInv'
  BY DEF vars, EvidenceInv, TypeOK, Counted, Separate, Copied, Counting, Judged, SafeOnEvidence,
         Evidence, IsSafeToReclaim, Marked, May

(* Where no scenario lets the patch of the counts fail and, besides, lets the store
   be cordoned, time pass within a reconciliation or patches be sent for nothing, a
   drain that ends well relies on counts that were all observed in its round
   (src/pkg/controllers/cnstore/controller.go:150-258). *)
THEOREM DrainsOnCurrentEvidence ==
  ASSUME MinDelay > 0,
         \A sc \in Scenarios : "patch" \in sc => sc \cap {"cordon", "slow", "resend"} = {}
  PROVE  Spec => CurrentEvidence
  <1>1. Init => EvidenceInv
    BY EvidenceInit
  <1>2. EvidenceInv /\ [Next /\ UNCHANGED may]_<<vars, may>> => EvidenceInv'
    BY EvidenceInductive, EvidenceStutters
  <1>3. EvidenceInv => (Drained => w.seen /\ \A k \in Kinds : w.score[k] # "some")
    BY DEF EvidenceInv, Judged, Evidence, Drained
  <1>4. EvidenceInv => [Drained => w.seen /\ \A k \in Kinds : w.score[k] # "some"]_vars
    BY <1>3
  <1> QED BY <1>1, <1>2, <1>4, PTL DEF Spec, CurrentEvidence

-----------------------------------------------------------------------------
(* The workload of a pod that goes back to the pool *)

(* In a pool, time does not pass within a reconciliation and the counts are stored. *)
Sequential == May("pooling") => ~May("slow") /\ ~May("patch")

(* The pod is there, or a reconciliation that has seen it is under way. *)
Tended == pod.st = "live" \/ w.pc \notin {"rest", "delstore", "unfinalize"}

(* The pod has been reclaimed long enough for the cluster to know. *)
Calm == pod.phase = "Draining" /\ pod.at >= MinDelay

(* Without a pool nobody claims the pod. *)
Unpooled ==
  ~May("pooling") => pod.at = NoStamp /\ claim = "none" /\ pod.phase # "Bound" /\ w.pc # "pool"

(* How far the copy in memory is behind the pod. *)
View ==
  w.pc # "rest" =>
    /\ w.mem.score = pod.score
    /\ \/ w.mem.phase = pod.phase /\ w.mem.at = pod.at
       \/ w.mem.phase = "Unknown" /\ pod.phase = "Terminating"
       \/ w.mem.phase = "Idle" /\ pod.phase \in {"Terminating", "Bound"}
       \/ w.mem.phase \in {"Idle", "Bound"} /\ pod.phase = "Draining" /\ pod.at = 0

(* A claim has told HAKeeper before it lets go of the pod, and the cluster has
   learnt it when the pod is calm. *)
Told ==
  /\ w.pc \in {"delstore", "unfinalize"} => pod.st # "live"
  /\ w.pc # "work"
  /\ claim # "none" => pod.phase = "Bound"
  /\ known # ha => lag < MinDelay
  /\ Tended =>
       /\ pod.phase \in {"Idle", "Bound", "Draining"} => ha # "absent"
       /\ claim = "release" => ha = "Draining"
       /\ pod.phase = "Draining" /\ pod.at # NoStamp =>
            ha = "Draining" /\ (known = ha \/ lag >= pod.at)

(* Pipelines are counted after the sessions that start them. *)
InOrder ==
  w.pc = "query" =>
    /\ \A k \in w.left : w.score[k] = "unobserved"
    /\ "session" \in w.left => "pipeline" \in w.left

(* What has been counted as zero is still so. *)
Stands ==
  \A k \in Kinds : w.score[k] = "zero" /\ (k = "pipeline" => w.score["session"] = "zero") => k \notin load

(* On a calm pod the counts stand. *)
Empty ==
  /\ ~up => load = {}
  /\ w.pc \in {"query", "putstats"} /\ Calm => Stands
  /\ w.pc \in {"dispatch", "normal", "pool"} /\ Calm /\ IsSafeToReclaim(pod) => load = {}

RecycleInv ==
  TypeOK /\ Sequential /\ Unpooled /\ (May("pooling") => View /\ Told /\ InOrder /\ Empty)

(* What a step of the controller does to the phase of the pod, *)
MovesPhase ==
  \/ pod'.phase = pod.phase /\ pod'.at = pod.at
  \/ w.pc = "pool" /\ w.mem.phase = "Draining" /\ w'.pc = "rest" /\ pod'.phase = "Terminating"
  \/ /\ w.pc = "pool" /\ w.mem.phase = "Unknown" /\ w'.pc = "ready"
     /\ ha # "absent" /\ pod'.phase = "Idle" /\ pod'.at = pod.at
  \/ /\ w.pc = "pool" /\ w.mem.phase = "Draining" /\ w'.pc = "rest" /\ pod'.phase = "Idle"
     /\ w.mem.at = NoStamp \/ (w.mem.at >= MinDelay /\ IsSafeToReclaim(w.mem))

(* where it goes on, *)
Flows ==
  /\ w.pc # "rest"
  /\ pod'.st = pod.st \/ pod'.st # "live"
  /\ \/ w'.pc = "rest"
     \/ w.pc = "delstore" /\ w'.pc = "unfinalize"
     \/ w.pc \notin {"delstore", "unfinalize"} /\ w'.pc \notin {"stats", "delstore", "unfinalize"}
  /\ w'.pc = "pool" => May("pooling") \/ w.pc = "pool"
  /\ w'.pc = "work" => ~May("pooling")

(* what its copy of the pod then is, *)
Copies ==
  w'.pc # "rest" =>
    \/ w'.mem.phase = pod'.phase /\ w'.mem.at = pod'.at /\ w'.mem.score = pod'.score
    \/ /\ w'.mem.phase = w.mem.phase /\ w'.mem.at = w.mem.at /\ w'.mem.score = w.mem.score
       /\ pod'.phase = pod.phase /\ pod'.at = pod.at /\ pod'.score = pod.score
    \/ May("patch")

(* and what it has counted. *)
Counts ==
  \/ w'.pc = "rest" /\ pod'.score = pod.score
  \/ /\ w.pc \in {"query", "putstats"} /\ w'.pc = "dispatch"
     /\ pod'.score = w.score \/ (pod'.score = pod.score /\ w.mem.score = w.score) \/ May("patch")
  \/ w.pc = "stats" /\ w'.pc = "dispatch" /\ ~up /\ pod' = pod
  \/ w.pc = "stats" /\ w'.pc = "query" /\ w'.score = Unobserved /\ w'.left = Kinds /\ pod' = pod
  \/ w.pc = "query" /\ w'.pc = "putstats" /\ w'.score = w.score /\ pod' = pod
  \/ /\ w.pc = "query" /\ w'.pc = "query" /\ pod' = pod
     /\ \E k \in Kinds : /\ NextQuery(k) /\ w'.left = w.left \ {k}
                         /\ w'.score = w.score \/ w'.score = [w.score EXCEPT ![k] = Count(k)]
  \/ /\ w'.pc \notin {"rest", "stats", "query", "putstats"} /\ pod'.score = pod.score
     /\ w'.pc \in {"dispatch", "normal", "pool"} => w.pc \in {"dispatch", "normal", "pool"}

Effect == MovesPhase /\ Flows /\ Copies /\ Counts

(* A patch of what the pool does not look at. *)
LEMMA PatchElsewhere ==
  ASSUME TypeOK, NEW old, NEW new \in PodObj, NEW next \in Worker, Patched(old, new, next),
         new.phase = pod.phase, new.at = pod.at, new.score = pod.score, new.st = pod.st,
         next.mem = w.mem \/ next.pc = "rest",
         w.pc \notin {"rest", "delstore", "unfinalize", "stats", "query", "putstats"} \/ next.pc = "rest",
         w.pc # "rest",
         next.pc \in {"rest", "start", "complete", "drain", "deldirect", "normal", "ready"},
         next.pc = "normal" => w.pc = "dispatch"
  PROVE  Effect
  <1>1. /\ w'.pc = next.pc
        /\ pod' = new \/ pod' = pod
        /\ next.pc # "rest" => w'.mem = pod' \/ (w'.mem = w.mem /\ pod' = pod)
    BY DEF Patched, Worker
  <1>2. pod'.phase = pod.phase /\ pod'.at = pod.at /\ pod'.score = pod.score /\ pod'.st = pod.st
    BY <1>1
  <1> QED BY <1>1, <1>2 DEF Effect, MovesPhase, Flows, Copies, Counts

(* A step that does not touch the pod. *)
LEMMA NoPatch ==
  ASSUME TypeOK, pod' = pod, w.pc # "rest", w' = Resting
  PROVE  Effect
  BY DEF Effect, MovesPhase, Flows, Copies, Counts, Resting

LEMMA StatsEffect ==
  ASSUME TypeOK, Stats
  PROVE  Effect
  <1>0. pod \in PodObj /\ w \in Worker /\ w.mem \in PodObj
    BY DEF TypeOK, Worker
  <1> USE DEF Effect, MovesPhase, Flows, Copies, Counts
  <1>1. CASE NotStarted
    BY <1>0, <1>1 DEF NotStarted, Worker
  <1>2. CASE BeginObservation
    BY <1>0, <1>2 DEF BeginObservation, Worker
  <1>3. CASE StoreCacheMiss
    BY <1>0, <1>3 DEF StoreCacheMiss, Worker
  <1>4. ASSUME NEW k \in Kinds, Query(k) \/ QueryFails(k)
        PROVE  Effect
    <2>1. /\ w'.pc = "query" /\ w.pc = "query" /\ w'.mem = w.mem /\ pod' = pod
          /\ NextQuery(k) /\ w'.left = w.left \ {k}
          /\ w'.score = w.score \/ w'.score = [w.score EXCEPT ![k] = Count(k)]
      BY <1>0, <1>4 DEF Query, QueryFails, Worker
    <2> QED BY <2>1
  <1>5. CASE patchStoreStats
    <2>1. Patched(StatsIn(w.mem), StatsIn(pod), At("dispatch")) /\ w.pc \in {"query", "putstats"}
      BY <1>5, Patches DEF patchStoreStats
    <2>2. At("dispatch") \in Worker /\ At("dispatch").pc = "dispatch" /\ At("dispatch").mem = w.mem
      BY AtTyped
    <2>3. CASE pod' = StatsIn(pod) /\ w' = [At("dispatch") EXCEPT !.mem = StatsIn(pod)]
      <3>1. /\ w'.pc = "dispatch" /\ w'.mem = pod'
            /\ pod'.phase = pod.phase /\ pod'.at = pod.at /\ pod'.st = pod.st /\ pod'.score = w.score
        BY <1>0, <2>2, <2>3 DEF StatsIn, PodObj, Worker
      <3> QED BY <2>1, <3>1
    <2>4. CASE StatsIn(w.mem) = w.mem /\ pod' = pod /\ w' = At("dispatch")
      <3>1. w.mem.score = w.score
        BY <1>0, <2>4 DEF StatsIn, PodObj
      <3> QED BY <2>1, <2>2, <2>4, <3>1
    <2> QED BY <2>1, <2>2, <2>3, <2>4 DEF Patched
  <1>6. CASE PatchStatsFails
    <2>1. w'.pc = "dispatch" /\ w.pc \in {"query", "putstats"} /\ pod' = pod /\ May("patch")
      BY <1>0, <1>6 DEF PatchStatsFails, Worker
    <2> QED BY <2>1
  <1> QED BY <1>1, <1>2, <1>3, <1>4, <1>5, <1>6 DEF Stats

LEMMA DrainEffect ==
  ASSUME TypeOK, Drain
  PROVE  Effect
  <1>0. pod \in PodObj /\ w \in Worker /\ w.mem \in PodObj
    BY DEF TypeOK, Worker
  <1>1. CASE OnPreparingUpdate \/ DrainTimesOut \/ UnknownToHAKeeper \/ LocksMigrated \/ ContinueDraining
    <2>1. /\ w'.pc \in {"complete", "drain"} /\ w'.mem = w.mem /\ pod' = pod
          /\ w.pc \in {"dispatch", "start", "drain", "lock"}
      BY <1>0, <1>1 DEF OnPreparingUpdate, DrainTimesOut, UnknownToHAKeeper, LocksMigrated, ContinueDraining,
                        Complete, Goto, At, Worker
    <2> QED BY <2>1 DEF Effect, MovesPhase, Flows, Copies, Counts
  <1>2. CASE OnPreparingStop
    <2> DEFINE next == IF May("drain") THEN At("start") ELSE [At("complete") EXCEPT !.why = "disabled"]
               new == ReadyIs(pod, "PrepareStop")
    <2>1. Patched(ReadyIs(w.mem, "PrepareStop"), new, next) /\ w.pc = "dispatch"
      BY <1>2, Patches DEF OnPreparingStop
    <2>2. next.pc \in {"start", "complete"} /\ next.mem = w.mem /\ next \in Worker
      BY AtTyped DEF Worker
    <2>3. /\ new.phase = pod.phase /\ new.at = pod.at /\ new.score = pod.score /\ new.st = pod.st
          /\ new \in PodObj
      BY <1>0 DEF ReadyIs, PodObj
    <2> HIDE DEF next, new
    <2> QED BY <2>1, <2>2, <2>3, PatchElsewhere
  <1>3. CASE StartDraining
    <2>1. Patched(Begun(w.mem), Begun(pod), At("drain")) /\ w.pc = "start"
      BY <1>3, Patches DEF StartDraining
    <2>2. At("drain").pc = "drain" /\ At("drain").mem = w.mem /\ At("drain") \in Worker
      BY AtTyped
    <2>3. /\ Begun(pod).phase = pod.phase /\ Begun(pod).at = pod.at /\ Begun(pod).score = pod.score
          /\ Begun(pod).st = pod.st /\ Begun(pod) \in PodObj
      BY <1>0, ChangesTyped DEF Begun, PodObj
    <2> QED BY <2>1, <2>2, <2>3, PatchElsewhere
  <1>4. CASE handleConnectionDraining
    <2>1. w.pc = "drain" /\ pod' = pod
      BY <1>4 DEF handleConnectionDraining
    <2>2. w' = Resting \/ (w'.pc \in {"lock", "complete"} /\ w'.mem = w.mem)
      BY <1>0, <1>4 DEF handleConnectionDraining, Goto, At, Complete, Return, Worker
    <2> QED BY <2>1, <2>2, NoPatch DEF Effect, MovesPhase, Flows, Copies, Counts
  <1>5. CASE SetRestartCN
    <2>1. Patched(Locked(w.mem), Locked(pod), Resting) /\ w.pc = "lock"
      BY <1>5, Patches DEF SetRestartCN
    <2>2. /\ Locked(pod).phase = pod.phase /\ Locked(pod).at = pod.at /\ Locked(pod).score = pod.score
          /\ Locked(pod).st = pod.st /\ Locked(pod) \in PodObj
      BY <1>0, ChangesTyped DEF Locked, PodObj
    <2>3. Resting.pc = "rest" /\ Resting \in Worker
      BY NewPodTyped DEF Resting
    <2> QED BY <2>1, <2>2, <2>3, PatchElsewhere
  <1>6. CASE completeDraining
    <2> DEFINE next == IF Direct THEN At("deldirect") ELSE Resting
    <2>1. Patched(Released(w.mem), Released(pod), next) /\ w.pc = "complete"
      BY <1>6, Patches DEF completeDraining
    <2>2. /\ Released(pod).phase = pod.phase /\ Released(pod).at = pod.at /\ Released(pod).score = pod.score
          /\ Released(pod).st = pod.st /\ Released(pod) \in PodObj
      <3>1. Released(pod) \in PodObj
        BY <1>0, ChangesTyped
      <3> QED BY <1>0, <3>1 DEF Released, PodObj
    <2>3. /\ next \in Worker /\ next.pc \in {"rest", "deldirect"}
          /\ next.mem = w.mem \/ next.pc = "rest"
      BY AtTyped, NewPodTyped DEF Resting
    <2> HIDE DEF next
    <2> QED BY <2>1, <2>2, <2>3, PatchElsewhere
  <1>7. CASE DeleteDirectPod
    <2>1. /\ w' = Resting /\ w.pc = "deldirect"
          /\ pod'.phase = pod.phase /\ pod'.at = pod.at /\ pod'.score = pod.score
          /\ pod'.st = pod.st \/ pod'.st # "live"
      BY <1>0, <1>7 DEF DeleteDirectPod, Return, PodObj
    <2> QED BY <2>1 DEF Effect, MovesPhase, Flows, Copies, Counts, Resting
  <1> QED BY <1>1, <1>2, <1>3, <1>4, <1>5, <1>6, <1>7 DEF Drain

LEMMA NormalEffect ==
  ASSUME TypeOK, Normal
  PROVE  Effect
  <1>0. pod \in PodObj /\ w \in Worker /\ w.mem \in PodObj
    BY DEF TypeOK, Worker
  <1>00. Resting.pc = "rest" /\ Resting \in Worker
    BY NewPodTyped DEF Resting
  <1>1. CASE OnNormal
    <2>1. Patched(Kept(w.mem), Kept(pod), At("normal")) /\ w.pc = "dispatch"
      BY <1>1, Patches DEF OnNormal
    <2>2. At("normal").pc = "normal" /\ At("normal").mem = w.mem /\ At("normal") \in Worker
      BY AtTyped
    <2>3. Kept(pod) \in PodObj
      BY <1>0, ChangesTyped
    <2>4. /\ Kept(pod).phase = pod.phase /\ Kept(pod).at = pod.at /\ Kept(pod).score = pod.score
          /\ Kept(pod).st = pod.st
      BY <1>0 DEF Kept, PodObj
    <2> QED BY <2>1, <2>2, <2>3, <2>4, PatchElsewhere
  <1>2. CASE CollectDirectPod
    <2>1. Patched(Dying(w.mem), Dying(pod), Resting) /\ w.pc = "normal"
      BY <1>2, Patches DEF CollectDirectPod
    <2>2. Dying(pod) \in PodObj
      BY <1>0, ChangesTyped
    <2>3. /\ Dying(pod).phase = pod.phase /\ Dying(pod).at = pod.at /\ Dying(pod).score = pod.score
          /\ Dying(pod).st = pod.st
      BY <1>0 DEF Dying, PodObj
    <2> QED BY <1>00, <2>1, <2>2, <2>3, PatchElsewhere
  <1>3. CASE PatchReady
    <2> DEFINE new == ReadyIs(pod, "Ready")
    <2>1. Patched(ReadyIs(w.mem, "Ready"), new, Resting) /\ w.pc = "ready"
      BY <1>3, Patches DEF PatchReady
    <2>2. new \in PodObj
      BY <1>0, ChangesTyped
    <2>3. new.phase = pod.phase /\ new.at = pod.at /\ new.score = pod.score /\ new.st = pod.st
      BY <1>0 DEF ReadyIs, PodObj
    <2> HIDE DEF new
    <2> QED BY <1>00, <2>1, <2>2, <2>3, PatchElsewhere
  <1>4. CASE ByPolicy \/ defaultCNNormalReconcile \/ PoolInUse
    <2>1. /\ w'.mem = w.mem /\ pod' = pod /\ w.pc \in {"normal", "work", "pool"}
          /\ \/ w'.pc = "ready"
             \/ w'.pc = "pool" /\ May("pooling") /\ w.pc = "normal"
             \/ w'.pc = "work" /\ ~May("pooling")
      BY <1>0, <1>4 DEF ByPolicy, defaultCNNormalReconcile, PoolInUse, Goto, At, Worker
    <2> QED BY <2>1 DEF Effect, MovesPhase, Flows, Copies, Counts
  <1>5. CASE PoolTerminating \/ PoolStillDraining
    BY <1>5, NoPatch DEF PoolTerminating, PoolStillDraining, DrainUnderWay, Return
  <1>6. CASE diagnosisDraining
    <2>1. w.pc = "pool" /\ w'.pc = "pool" /\ w'.mem = pod /\ pod' = pod
      BY <1>0, <1>6 DEF diagnosisDraining, DrainUnderWay, Worker
    <2> QED BY <2>1 DEF Effect, MovesPhase, Flows, Copies, Counts
  <1>7. CASE PoolRegister
    <2>1. w.pc = "pool" /\ w.mem.phase = "Unknown"
      BY <1>7 DEF PoolRegister
    <2>2. CASE ha = "absent" /\ w' = At("unready") /\ pod' = pod
      <3>1. w'.pc = "unready" /\ w'.mem = w.mem
        BY <2>2, AtTyped
      <3> QED BY <2>1, <2>2, <3>1 DEF Effect, MovesPhase, Flows, Copies, Counts
    <2>3. CASE ha # "absent" /\ Patched(PhaseIs(w.mem, "Idle"), PhaseIs(pod, "Idle"), At("ready"))
      <3>1. At("ready").pc = "ready" /\ At("ready") \in Worker
        BY AtTyped
      <3>2. PhaseIs(w.mem, "Idle") # w.mem
        BY <1>0, <2>1 DEF PhaseIs, PodObj
      <3>3. pod' = PhaseIs(pod, "Idle") /\ w' = [At("ready") EXCEPT !.mem = PhaseIs(pod, "Idle")]
        BY <2>3, <3>1, <3>2 DEF Patched
      <3>4. /\ w'.pc = "ready" /\ w'.mem = pod'
            /\ pod'.phase = "Idle" /\ pod'.at = pod.at /\ pod'.score = pod.score /\ pod'.st = pod.st
        BY <1>0, <3>1, <3>3 DEF PhaseIs, PodObj, Worker
      <3> QED BY <2>1, <2>3, <3>4 DEF Effect, MovesPhase, Flows, Copies, Counts
    <2> QED BY <1>7, <2>2, <2>3, Patches
  <1>8. CASE PoolDrainTimesOut \/ PoolLegacy \/ PoolRecycle
    <2>1. w.pc = "pool" /\ w.mem.phase = "Draining"
      BY <1>8 DEF PoolDrainTimesOut, PoolLegacy, PoolRecycle, DrainUnderWay
    <2>2. CASE Patched(Evicted(w.mem), Evicted(pod), Resting)
      <3>1. Evicted(w.mem).phase # w.mem.phase
        BY <1>0, <2>1 DEF Evicted, PodObj
      <3>2. pod' = Evicted(pod) /\ w'.pc = "rest"
        BY <2>2, <3>1 DEF Patched, Resting
      <3>3. pod'.phase = "Terminating" /\ pod'.score = pod.score /\ pod'.st = pod.st
        BY <1>0, <3>2 DEF Evicted, PodObj
      <3> QED BY <2>1, <3>2, <3>3 DEF Effect, MovesPhase, Flows, Copies, Counts
    <2>3. CASE PoolLegacy
      <3>1. Patched(PhaseIs(w.mem, "Idle"), PhaseIs(pod, "Idle"), Resting) /\ w.mem.at = NoStamp
        BY <2>3, Patches DEF PoolLegacy
      <3>2. PhaseIs(w.mem, "Idle") # w.mem
        BY <1>0, <2>1 DEF PhaseIs, PodObj
      <3>3. pod' = PhaseIs(pod, "Idle") /\ w'.pc = "rest"
        BY <3>1, <3>2 DEF Patched, Resting
      <3>4. pod'.phase = "Idle" /\ pod'.score = pod.score /\ pod'.st = pod.st
        BY <1>0, <3>3 DEF PhaseIs, PodObj
      <3> QED BY <2>1, <3>1, <3>3, <3>4 DEF Effect, MovesPhase, Flows, Copies, Counts
    <2>4. CASE PoolRecycle /\ Patched(Recycled(w.mem), Recycled(pod), Resting)
      <3>1. w.mem.at >= MinDelay /\ IsSafeToReclaim(w.mem)
        BY <2>4 DEF PoolRecycle, Reclaimable
      <3>2. Recycled(w.mem).phase # w.mem.phase
        BY <1>0, <2>1 DEF Recycled, PodObj
      <3>3. pod' = Recycled(pod) /\ w'.pc = "rest"
        BY <2>4, <3>2 DEF Patched, Resting
      <3>4. pod'.phase = "Idle" /\ pod'.score = pod.score /\ pod'.st = pod.st
        BY <1>0, <3>3 DEF Recycled, PodObj
      <3> QED BY <2>1, <3>1, <3>3, <3>4 DEF Effect, MovesPhase, Flows, Copies, Counts
    <2> QED BY <1>8, <2>2, <2>3, <2>4, Patches
  <1> QED BY <1>1, <1>2, <1>3, <1>4, <1>5, <1>6, <1>7, <1>8 DEF Normal

LEMMA StepEffect ==
  ASSUME TypeOK, Step \/ Abort
  PROVE  Effect
  <1>0. pod \in PodObj /\ w \in Worker /\ w.mem \in PodObj
    BY DEF TypeOK, Worker
  <1>00. Resting.pc = "rest" /\ Resting \in Worker
    BY NewPodTyped DEF Resting
  <1>1. CASE OnCordon \/ DeleteCNStore
    <2>1. /\ w'.mem = w.mem /\ pod' = pod
          /\ \/ w.pc = "dispatch" /\ w'.pc = "unready"
             \/ w.pc = "delstore" /\ w'.pc = "unfinalize"
      BY <1>0, <1>1 DEF OnCordon, DeleteCNStore, Goto, At, Worker
    <2> QED BY <2>1 DEF Effect, MovesPhase, Flows, Copies, Counts
  <1>2. CASE PatchUnready
    <2> DEFINE new == ReadyIs(pod, Reason)
    <2>1. Patched(ReadyIs(w.mem, Reason), new, Resting) /\ w.pc = "unready"
      BY <1>2, Patches DEF PatchUnready
    <2>2. Reason \in {"Ready", "Cordon", "PrepareStop", "NotRegistered"}
      BY DEF Reason
    <2>3. new \in PodObj
      BY <1>0, <2>2, ChangesTyped
    <2>4. new.phase = pod.phase /\ new.at = pod.at /\ new.score = pod.score /\ new.st = pod.st
      BY <1>0 DEF ReadyIs, PodObj
    <2> HIDE DEF new
    <2> QED BY <1>00, <2>1, <2>3, <2>4, PatchElsewhere
  <1>3. CASE RemoveFinalizer
    <2> DEFINE new == Unfinalized(pod)
    <2>1. Patched(Unfinalized(w.mem), new, Resting) /\ w.pc = "unfinalize"
      BY <1>3, Patches DEF RemoveFinalizer
    <2>2. new \in PodObj
      BY <1>0, ChangesTyped
    <2>3. new.phase = pod.phase /\ new.at = pod.at /\ new.score = pod.score /\ new.st = pod.st
      BY <1>0 DEF Unfinalized, PodObj
    <2> HIDE DEF new
    <2> QED BY <1>00, <2>1, <2>2, <2>3, PatchElsewhere
  <1>4. CASE HAKeeperFails \/ Abort
    BY <1>4, NoPatch DEF HAKeeperFails, SetsState, Abort, Return
  <1> QED BY <1>1, <1>2, <1>3, <1>4, StatsEffect, DrainEffect, NormalEffect DEF Step

(* A step of the controller counts in order, *)
LEMMA OrderKept ==
  ASSUME TypeOK, InOrder, Counts
  PROVE  InOrder'
  <1>1. SUFFICES ASSUME w'.pc = "query"
                 PROVE  /\ \A k \in w'.left : w'.score[k] = "unobserved"
                        /\ "session" \in w'.left => "pipeline" \in w'.left
    BY DEF InOrder
  <1>2. CASE w'.score = Unobserved /\ w'.left = Kinds
    BY <1>2 DEF Unobserved, Kinds
  <1>3. ASSUME NEW k \in Kinds, w.pc = "query", NextQuery(k), w'.left = w.left \ {k},
               w'.score = w.score \/ w'.score = [w.score EXCEPT ![k] = Count(k)]
        PROVE  /\ \A j \in w'.left : w'.score[j] = "unobserved"
               /\ "session" \in w'.left => "pipeline" \in w'.left
    <2>1. w.score \in [Kinds -> {"unobserved", "zero", "some"}] /\ w.left \in SUBSET Kinds
      BY DEF TypeOK, Worker, Score
    <2>2. \A j \in w.left : w.score[j] = "unobserved"
      BY <1>3 DEF InOrder
    <2>3. \A j \in w'.left : w'.score[j] = "unobserved"
      BY <1>3, <2>1, <2>2
    <2>4. "session" \in w'.left => "pipeline" \in w'.left
      BY <1>3 DEF InOrder, NextQuery
    <2> QED BY <2>3, <2>4
  <1> QED BY <1>1, <1>2, <1>3 DEF Counts

(* and what it has counted stands as long as nothing arrives. *)
LEMMA StandsKept ==
  ASSUME TypeOK, InOrder, Counts, w'.pc \in {"query", "putstats"}, load' = load, w.pc = "query" => Stands
  PROVE  Stands'
  <1> SUFFICES ASSUME NEW j \in Kinds, w'.score[j] = "zero", j = "pipeline" => w'.score["session"] = "zero"
               PROVE  j \notin load
    BY DEF Stands
  <1>1. CASE w'.score = Unobserved
    BY <1>1 DEF Unobserved
  <1>2. CASE w.pc = "query" /\ w'.score = w.score
    BY <1>2 DEF Stands
  <1>3. ASSUME NEW k \in Kinds, w.pc = "query", NextQuery(k), w'.score = [w.score EXCEPT ![k] = Count(k)]
        PROVE  j \notin load
    <2>1. w.score \in [Kinds -> {"unobserved", "zero", "some"}] /\ "session" \in Kinds
      BY DEF TypeOK, Worker, Score, Kinds
    <2>2. CASE j = k
      BY <1>3, <2>1, <2>2 DEF Count
    <2>3. CASE j # k
      <3>1. w.score[j] = "zero"
        BY <1>3, <2>1, <2>3
      <3>2. j = "pipeline" => k # "session"
        BY <1>3, <3>1 DEF InOrder, NextQuery
      <3>3. j = "pipeline" => w.score["session"] = "zero"
        BY <1>3, <2>1, <3>2
      <3> QED BY <1>3, <3>1, <3>3 DEF Stands
    <2> QED BY <2>2, <2>3
  <1> QED BY <1>1, <1>2, <1>3 DEF Counts

(* What the controller's steps leave of the invariant. *)
LEMMA StepRecycle ==
  ASSUME MinDelay > 0, RecycleInv, Step \/ Abort, May("pooling"), UNCHANGED may
  PROVE  (View /\ Told /\ InOrder /\ Empty)'
  <1>0. TypeOK /\ View /\ Told /\ InOrder /\ Empty /\ ~May("patch")
    BY DEF RecycleInv, Sequential
  <1>1. MovesPhase /\ Flows /\ Copies /\ Counts
    BY <1>0, StepEffect DEF Effect
  <1>2. /\ UNCHANGED <<up, load, txns, claim, known>>
        /\ \/ UNCHANGED <<ha, lag>>
           \/ /\ \/ ha' = "Draining" /\ ha # "absent"
                 \/ ha' = "absent" /\ w.pc = "delstore"
              /\ lag' = IF ha = ha' THEN lag ELSE 0
    BY <1>0, StepOutside DEF Told
  <1>3. MinDelay \in Nat /\ pod \in PodObj /\ w \in Worker /\ pod.at \in Int
    BY <1>0, StoreAssumption DEF TypeOK, PodObj, Stamps, NoStamp, Ages
  <1>4. \/ pod'.phase = pod.phase /\ pod'.at = pod.at
        \/ pod'.phase = "Terminating" /\ pod.phase = "Draining"
        \/ pod'.phase = "Idle" /\ ha # "absent" /\ pod.phase \in {"Unknown", "Terminating"}
        \/ pod'.phase = "Idle" /\ pod.phase = "Draining"
    BY <1>0, <1>1 DEF MovesPhase, View
  <1>5. Tended' => Tended
    BY <1>1 DEF Tended, Flows
  <1>6. Calm' => Calm
    BY <1>4 DEF Calm
  <1>7. View'
    <2>1. CASE w'.pc = "rest"
      BY <2>1 DEF View
    <2>2. CASE w'.pc # "rest" /\ w'.mem.phase = pod'.phase /\ w'.mem.at = pod'.at /\ w'.mem.score = pod'.score
      BY <2>2 DEF View
    <2>3. CASE /\ w'.mem.phase = w.mem.phase /\ w'.mem.at = w.mem.at /\ w'.mem.score = w.mem.score
               /\ pod'.phase = pod.phase /\ pod'.at = pod.at /\ pod'.score = pod.score
      BY <1>0, <1>1, <2>3 DEF View, Flows
    <2> QED BY <1>0, <1>1, <2>1, <2>2, <2>3 DEF Copies
  <1>8. Told'
    <2>1. w'.pc \in {"delstore", "unfinalize"} => pod'.st # "live"
      BY <1>0, <1>1 DEF Told, Flows
    <2>2. w'.pc # "work"
      BY <1>1 DEF Flows
    <2>3. claim' # "none" => pod'.phase = "Bound"
      BY <1>0, <1>2, <1>4 DEF Told
    <2>4. known' # ha' => lag' < MinDelay
      BY <1>0, <1>2, <1>3 DEF Told
    <2>5. ASSUME Tended'
          PROVE  /\ pod'.phase \in {"Idle", "Bound", "Draining"} => ha' # "absent"
                 /\ claim' = "release" => ha' = "Draining"
                 /\ pod'.phase = "Draining" /\ pod'.at # NoStamp =>
                      ha' = "Draining" /\ (known' = ha' \/ lag' >= pod'.at)
      <3>1. w.pc # "delstore"
        BY <1>0, <1>1, <2>5 DEF Told, Flows, Tended
      <3>2. UNCHANGED <<ha, lag>> \/ (ha' = "Draining" /\ ha # "absent" /\ lag' = IF ha = ha' THEN lag ELSE 0)
        BY <1>2, <3>1
      <3>3. /\ pod.phase \in {"Idle", "Bound", "Draining"} => ha # "absent"
            /\ claim = "release" => ha = "Draining"
            /\ pod.phase = "Draining" /\ pod.at # NoStamp =>
                 ha = "Draining" /\ (known = ha \/ lag >= pod.at)
        BY <1>0, <1>5, <2>5 DEF Told
      <3>4. pod'.phase \in {"Idle", "Bound", "Draining"} => ha' # "absent"
        BY <1>4, <3>2, <3>3
      <3>5. claim' = "release" => ha' = "Draining"
        BY <1>2, <3>2, <3>3
      <3>6. pod'.phase = "Draining" => pod'.at = pod.at /\ pod.phase = "Draining"
        BY <1>4
      <3>7. pod'.phase = "Draining" /\ pod'.at # NoStamp =>
              ha' = "Draining" /\ (known' = ha' \/ lag' >= pod'.at)
        BY <1>2, <3>2, <3>3, <3>6
      <3> QED BY <3>4, <3>5, <3>7
    <2> QED BY <2>1, <2>2, <2>3, <2>4, <2>5 DEF Told
  <1>9. InOrder'
    BY <1>0, <1>1, OrderKept
  <1>10. Empty'
    <2>1. ~up' => load' = {}
      BY <1>0, <1>2 DEF Empty
    <2>2. w'.pc \in {"query", "putstats"} /\ Calm' => Stands'
      BY <1>0, <1>1, <1>2, <1>6, StandsKept DEF Empty
    <2>3. ASSUME w'.pc \in {"dispatch", "normal", "pool"}, Calm', IsSafeToReclaim(pod')
          PROVE  load' = {}
      <3>1. Calm /\ load' = load /\ load \subseteq Kinds
        BY <1>0, <1>2, <1>6, <2>3 DEF TypeOK, Counted
      <3>2. \A k \in Kinds : pod'.score[k] = "zero"
        BY <2>3 DEF IsSafeToReclaim
      <3>3. CASE w.pc \in {"query", "putstats"} /\ pod'.score = w.score
        <4>1. \A k \in Kinds : w.score[k] = "zero" /\ w.score["session"] = "zero"
          BY <3>2, <3>3 DEF Kinds
        <4> QED BY <1>0, <3>1, <3>3, <4>1 DEF Empty, Stands
      <3>4. CASE ~up
        BY <1>0, <3>1, <3>4 DEF Empty
      <3>5. CASE w.pc \in {"dispatch", "normal", "pool"} /\ pod'.score = pod.score
        BY <1>0, <3>1, <3>2, <3>5 DEF Empty, IsSafeToReclaim
      <3>6. w.pc \in {"query", "putstats"} => w.mem.score = pod.score
        BY <1>0 DEF View
      <3> QED BY <1>0, <1>1, <2>3, <3>3, <3>4, <3>5, <3>6 DEF Counts
    <2> QED BY <2>1, <2>2, <2>3 DEF Empty
  <1> QED BY <1>7, <1>8, <1>9, <1>10

(* A look at the pod, and what happens beside the controller. *)
LEMMA ObserveRecycle ==
  ASSUME RecycleInv, observe, May("pooling")
  PROVE  (View /\ Told /\ InOrder /\ Empty)'
  <1>0. TypeOK /\ View /\ Told /\ InOrder /\ Empty
    BY DEF RecycleInv
  <1>1. /\ w.pc = "rest" /\ w'.mem = pod /\ pod' = pod
        /\ \/ w'.pc = "delstore" /\ pod.st = "deleted"
           \/ w'.pc = "stats" /\ pod.st = "live"
        /\ UNCHANGED <<up, load, ha, known, lag, claim>>
    BY <1>0 DEF observe, outside, hakeeper, cn, TypeOK, Worker, PodObj
  <1>2. Tended' => Tended
    BY <1>1 DEF Tended
  <1>3. View' /\ InOrder'
    BY <1>1 DEF View, InOrder
  <1>4. Told'
    BY <1>0, <1>1, <1>2 DEF Told
  <1>5. Empty'
    BY <1>0, <1>1 DEF Empty
  <1> QED BY <1>3, <1>4, <1>5

(* A calm pod that is looked after is known to be draining. *)
LEMMA CalmKnown ==
  ASSUME TypeOK, Told, Tended, Calm
  PROVE  known = "Draining"
  <1>1. pod.at \in Int /\ lag \in Int /\ MinDelay \in Nat /\ pod.at # NoStamp
    BY StoreAssumption DEF TypeOK, PodObj, Stamps, Ages, NoStamp, Calm
  <1>2. ha = "Draining" /\ (known = ha \/ lag >= pod.at) /\ pod.at >= MinDelay
    BY <1>1 DEF Told, Calm
  <1>3. known # ha => lag < MinDelay
    BY DEF Told
  <1> QED BY <1>1, <1>2, <1>3

LEMMA ClusterRecycle ==
  ASSUME MinDelay > 0, RecycleInv, Cluster, May("pooling"), UNCHANGED may
  PROVE  (View /\ Told /\ InOrder /\ Empty)'
  <1>0. TypeOK /\ View /\ Told /\ InOrder /\ Empty /\ ~May("slow") /\ MinDelay \in Nat
    BY StoreAssumption DEF RecycleInv, Sequential
  <1> USE DEF hakeeper, cn
  <1>1. CASE Register \/ Propagate
    <2>1. /\ UNCHANGED <<pod, up, load, claim, w>>
          /\ \/ ha = "absent" /\ ha' = "Working" /\ known' = known /\ lag' = 0
             \/ known' = ha /\ ha' = ha /\ lag' = 0
      BY <1>1 DEF Register, Propagate, SetState
    <2>2. View' /\ InOrder' /\ Empty'
      BY <1>0, <2>1 DEF View, InOrder, Empty, Stands, Calm, IsSafeToReclaim
    <2>3. Told'
      BY <1>0, <2>1 DEF Told, Tended
    <2> QED BY <2>2, <2>3
  <1>2. CASE Tick
    <2>1. /\ w.pc = "rest" /\ w'.pc = "rest"
          /\ pod' = Aged(pod)
          /\ known = ha \/ lag + 1 < MinDelay
          /\ lag' = IF known = ha THEN 0 ELSE Older(lag)
          /\ UNCHANGED <<up, load, claim, ha, known>>
      BY <1>0, <1>2 DEF Tick, TypeOK, Worker
    <2>2. pod'.phase = pod.phase /\ pod'.st = pod.st /\ pod'.at = Older(pod.at)
      BY <1>0, <2>1, AgedFields DEF TypeOK
    <2>3. View' /\ InOrder'
      BY <2>1 DEF View, InOrder
    <2>4. Empty'
      BY <1>0, <2>1 DEF Empty
    <2>5. lag \in Ages /\ pod.at \in Stamps
      BY <1>0 DEF TypeOK, PodObj
    <2>6. known' # ha' => lag' < MinDelay
      BY <1>0, <2>1, <2>5 DEF Older, Ages, NoStamp
    <2>7. pod'.at # NoStamp => pod.at # NoStamp
      BY <2>2 DEF Older
    <2>8. pod'.at # NoStamp /\ known # ha /\ lag >= pod.at => lag' >= pod'.at
      BY StoreAssumption, <2>1, <2>2, <2>5 DEF Older, Ages, NoStamp, Stamps
    <2>9. Told'
      BY <1>0, <2>1, <2>2, <2>6, <2>7, <2>8 DEF Told, Tended
    <2> QED BY <2>3, <2>4, <2>9
  <1>3. ASSUME NEW k \in Counted, Arrive(k)
        PROVE  (View /\ Told /\ InOrder /\ Empty)'
    <2>1. /\ UNCHANGED <<pod, up, ha, known, lag, claim, w>> /\ load' = load \cup {k} /\ up
          /\ known = "Working" \/ (k = "pipeline" /\ "session" \in load)
      BY <1>3 DEF Arrive
    <2>2. View' /\ InOrder' /\ Told'
      BY <1>0, <2>1 DEF View, InOrder, Told, Tended
    <2>3. w.pc \notin {"rest", "delstore", "unfinalize"} /\ Calm => k = "pipeline" /\ "session" \in load
      BY <1>0, <2>1, CalmKnown DEF Tended
    <2>4. ASSUME w.pc \in {"query", "putstats"}, Calm, NEW j \in Kinds, w.score[j] = "zero",
                 j = "pipeline" => w.score["session"] = "zero"
          PROVE  j \notin load'
      <3>1. j \notin load /\ k = "pipeline" /\ "session" \in load
        BY <1>0, <2>3, <2>4 DEF Empty, Stands
      <3>2. j # k
        BY <1>0, <2>4, <3>1 DEF Empty, Stands, Kinds
      <3> QED BY <2>1, <3>1, <3>2
    <2>5. w.pc \in {"dispatch", "normal", "pool"} /\ Calm /\ IsSafeToReclaim(pod) => FALSE
      BY <1>0, <2>3 DEF Empty
    <2>6. Calm' = Calm /\ IsSafeToReclaim(pod)' = IsSafeToReclaim(pod)
      BY <2>1 DEF Calm, IsSafeToReclaim
    <2>7. Empty'
      BY <2>1, <2>4, <2>5, <2>6 DEF Empty, Stands
    <2> QED BY <2>2, <2>7
  <1>4. CASE LocksLeave \/ ContainerDown \/ ContainerUp \/ \E k \in Counted : Leave(k)
    <2>1. /\ UNCHANGED <<pod, ha, known, lag, claim, w>> /\ load' \subseteq load
          /\ up' = up \/ load' = {} \/ ~up
      BY <1>4 DEF LocksLeave, ContainerDown, ContainerUp, Leave
    <2>2. View' /\ InOrder' /\ Told'
      BY <1>0, <2>1 DEF View, InOrder, Told, Tended
    <2>3. Calm' = Calm /\ IsSafeToReclaim(pod)' = IsSafeToReclaim(pod)
      BY <2>1 DEF Calm, IsSafeToReclaim
    <2>4. ~up' => load' = {}
      BY <1>0, <2>1 DEF Empty
    <2>5. Empty'
      BY <1>0, <2>1, <2>3, <2>4 DEF Empty, Stands
    <2> QED BY <2>2, <2>5
  <1> QED BY <1>1, <1>2, <1>3, <1>4 DEF Cluster

(* What the others do to the phase of the pod and to HAKeeper. *)
Claims ==
  \/ UNCHANGED <<claim, ha, lag>> /\ pod'.phase = pod.phase /\ pod'.at = pod.at
  \/ /\ UNCHANGED <<claim, ha, lag>> /\ pod.phase \in {"Idle", "Unknown"} /\ pod'.phase = "Terminating"
     /\ pod'.at = pod.at /\ May("pooling")
  \/ /\ UNCHANGED <<ha, lag>> /\ pod.phase \in {"Idle", "Bound"} /\ pod'.phase = "Bound" /\ pod'.at = pod.at
     /\ claim = "none" /\ claim' \in {"none", "Working", "Draining"} /\ pod.st = "live"
     /\ May("pooling") \/ pod.phase = "Bound"
  \/ /\ pod' = pod /\ claim = "Working" /\ claim' = "none"
     /\ \/ UNCHANGED <<ha, lag>>
        \/ ha # "absent" /\ ha' = "Working" /\ lag' = IF ha = "Working" THEN lag ELSE 0
  \/ /\ pod' = pod /\ claim = "Draining" /\ claim' = "release"
     /\ \/ ha = "absent" /\ UNCHANGED <<ha, lag>>
        \/ ha # "absent" /\ ha' = "Draining" /\ lag' = IF ha = "Draining" THEN lag ELSE 0
  \/ /\ UNCHANGED <<ha, lag>> /\ claim = "release" /\ claim' = "none"
     /\ \/ pod' = pod
        \/ pod'.phase = "Draining" /\ pod'.at = 0

LEMMA OthersClaims ==
  ASSUME TypeOK, Others
  PROVE  Claims
  <1>0. pod \in PodObj
    BY DEF TypeOK
  <1> USE DEF Claims
  <1>1. ASSUME NEW life \in {"PreparingUpdate", "PreparingDelete"}, Prepare(life)
        PROVE  Claims
    <2>1. pod' = [pod EXCEPT !.life = life] /\ UNCHANGED <<claim, ha, lag>>
      BY <1>1 DEF Prepare, Outsider, outside, hakeeper
    <2> QED BY <1>0, <2>1 DEF PodObj
  <1>2. CASE \/ Regret \/ KruiseDelete \/ KruiseUpdate \/ Disappear \/ Cordon \/ ForceDelete
             \/ DeleteOnReclaim \/ SpecifiedDelete
    <2>1. UNCHANGED <<claim, ha, lag>> /\ pod'.phase = pod.phase /\ pod'.at = pod.at
      BY <1>0, <1>2 DEF Regret, KruiseDelete, KruiseUpdate, Disappear, Cordon, ForceDelete, DeleteOnReclaim,
                        SpecifiedDelete, Outsider, outside, hakeeper, PodObj
    <2> QED BY <2>1
  <1>3. CASE PoolScaleIn
    <2>1. /\ UNCHANGED <<claim, ha, lag>> /\ pod'.phase = "Terminating" /\ pod'.at = pod.at /\ May("pooling")
          /\ pod.phase \in {"Idle", "Unknown"}
      BY <1>0, <1>3 DEF PoolScaleIn, Outsider, outside, hakeeper, PodObj
    <2> QED BY <2>1
  <1>4. CASE ClaimPod
    <2>1. /\ UNCHANGED <<ha, lag>> /\ pod.phase \in {"Idle", "Bound"} /\ pod'.phase = "Bound"
          /\ pod'.at = pod.at /\ claim = "none" /\ claim' \in {"none", "Working"} /\ pod.st = "live"
          /\ May("pooling")
      BY <1>0, <1>4 DEF ClaimPod, hakeeper, PodObj
    <2> QED BY <2>1
  <1>5. CASE ClaimReclaim \/ ClaimGivesUp
    BY <1>5 DEF ClaimReclaim, ClaimGivesUp, hakeeper
  <1>6. CASE ClaimSetState
    BY <1>6 DEF ClaimSetState, SetState, hakeeper
  <1>7. CASE ClaimRelease
    <2>1. pod' = pod \/ (pod'.phase = "Draining" /\ pod'.at = 0)
      BY <1>0, <1>7 DEF ClaimRelease, PodObj
    <2> QED BY <1>7, <2>1 DEF ClaimRelease, hakeeper
  <1> QED BY <1>1, <1>2, <1>3, <1>4, <1>5, <1>6, <1>7 DEF Others

LEMMA OthersRecycle ==
  ASSUME MinDelay > 0, RecycleInv, Others, May("pooling"), UNCHANGED may
  PROVE  (View /\ Told /\ InOrder /\ Empty)'
  <1>0. TypeOK /\ View /\ Told /\ InOrder /\ Empty /\ MinDelay \in Nat /\ lag \in Nat
    BY StoreAssumption DEF RecycleInv, TypeOK, Ages
  <1>1. Claims
    BY <1>0, OthersClaims
  <1>2. /\ w' = w /\ pod'.score = pod.score /\ known' = known
        /\ pod.st # "live" => pod'.st # "live"
        /\ UNCHANGED <<up, load>> \/ (up' = FALSE /\ load' = {})
    BY <1>0, OthersStep
  <1>3. Tended' => Tended
    BY <1>2 DEF Tended
  <1>4. Calm' => Calm
    BY <1>0, <1>1 DEF Calm, Claims
  <1>5. View'
    BY <1>0, <1>1, <1>2 DEF View, Claims, Told
  <1>6. InOrder'
    BY <1>0, <1>2 DEF InOrder
  <1>7. Empty'
    BY <1>0, <1>2, <1>4 DEF Empty, Stands, IsSafeToReclaim
  <1>8. Told'
    <2>1. /\ w'.pc \in {"delstore", "unfinalize"} => pod'.st # "live"
          /\ w'.pc # "work"
      BY <1>0, <1>2 DEF Told
    <2>2. claim' # "none" => pod'.phase = "Bound"
      BY <1>0, <1>1 DEF Told, Claims
    <2>3. known' # ha' => lag' < MinDelay
      BY <1>0, <1>1, <1>2 DEF Told, Claims
    <2>4. ASSUME Tended'
          PROVE  /\ pod'.phase \in {"Idle", "Bound", "Draining"} => ha' # "absent"
                 /\ claim' = "release" => ha' = "Draining"
                 /\ pod'.phase = "Draining" /\ pod'.at # NoStamp =>
                      ha' = "Draining" /\ (known' = ha' \/ lag' >= pod'.at)
      <3>1. Tended
        BY <1>3, <2>4
      <3> QED BY <1>0, <1>1, <1>2, <3>1 DEF Told, Claims
    <2> QED BY <2>1, <2>2, <2>3, <2>4 DEF Told
  <1> QED BY <1>5, <1>6, <1>7, <1>8

LEMMA UnpooledKept ==
  ASSUME TypeOK, Unpooled, Next, UNCHANGED may
  PROVE  Unpooled'
  <1>0. TypeOK /\ Unpooled
    OBVIOUS
  <1> SUFFICES ASSUME ~May("pooling")
               PROVE  pod'.at = NoStamp /\ claim' = "none" /\ pod'.phase # "Bound" /\ w'.pc # "pool"
    BY DEF Unpooled, May
  <1>1. pod.at = NoStamp /\ claim = "none" /\ pod.phase # "Bound" /\ w.pc # "pool"
    BY <1>0 DEF Unpooled
  <1>2. CASE observe
    BY <1>0, <1>1, <1>2 DEF observe, outside, TypeOK, Worker
  <1>3. CASE Step \/ Abort
    <2>1. Effect /\ claim' = claim
      BY <1>0, <1>3, StepEffect, StepOutside
    <2> QED BY <1>1, <2>1 DEF Effect, MovesPhase, Flows
  <1>4. CASE Tick
    <2>1. pod' = Aged(pod) /\ claim' = claim /\ w'.pc = w.pc
      BY <1>0, <1>4 DEF Tick, TypeOK, Worker
    <2>2. pod'.phase = pod.phase /\ pod'.at = Older(pod.at)
      BY <1>0, <2>1, AgedFields DEF TypeOK
    <2> QED BY <1>1, <2>1, <2>2 DEF Older
  <1>5. CASE Cluster /\ ~Tick
    <2>1. UNCHANGED <<pod, claim, w>>
      BY <1>5 DEF Cluster, Register, Propagate, Arrive, Leave, LocksLeave, ContainerDown, ContainerUp
    <2> QED BY <1>1, <2>1
  <1>6. CASE Others
    <2>1. Claims /\ w' = w
      BY <1>0, <1>6, OthersClaims, OthersStep
    <2> QED BY <1>1, <2>1 DEF Claims
  <1> QED BY <1>2, <1>3, <1>4, <1>5, <1>6 DEF Next

LEMMA RecycleInductive ==
  ASSUME MinDelay > 0, RecycleInv, Next, UNCHANGED may
  PROVE  RecycleInv'
  <1>1. TypeOK'
    BY TypeInductive DEF RecycleInv
  <1>2. Sequential'
    BY DEF RecycleInv, Sequential, May
  <1>3. Unpooled'
    BY UnpooledKept DEF RecycleInv
  <1>4. May("pooling") => (View /\ Told /\ InOrder /\ Empty)'
    BY StepRecycle, ObserveRecycle, ClusterRecycle, OthersRecycle DEF Next
  <1>5. May("pooling")' = May("pooling")
    BY DEF May
  <1> QED BY <1>1, <1>2, <1>3, <1>4, <1>5 DEF RecycleInv

(* A pod goes back to the pool when poolingCNReconcile has seen it calm and
   without workload. *)
LEMMA RecycleIsSafe ==
  ASSUME RecycleInv, Next, pod.phase = "Draining", pod.at # NoStamp, pod'.phase = "Idle"
  PROVE  load = {}
  <1>0. TypeOK /\ Unpooled
    BY DEF RecycleInv
  <1>1. CASE Step \/ Abort
    <2>1. MovesPhase
      BY <1>0, <1>1, StepEffect DEF Effect
    <2>2. w.pc = "pool"
      BY <2>1 DEF MovesPhase
    <2>3. View /\ Empty
      BY <1>0, <2>2 DEF RecycleInv, Unpooled
    <2>4. w.mem.score = pod.score /\ w.mem.phase # "Unknown" /\ (w.mem.phase = "Draining" => w.mem.at = pod.at)
      BY <2>2, <2>3 DEF View
    <2>5. pod.at >= MinDelay /\ IsSafeToReclaim(w.mem)
      BY <2>1, <2>4 DEF MovesPhase
    <2>6. Calm /\ IsSafeToReclaim(pod)
      BY <2>4, <2>5 DEF Calm, IsSafeToReclaim
    <2> QED BY <2>2, <2>3, <2>6 DEF Empty
  <1>2. CASE observe \/ (Cluster /\ ~Tick)
    <2>1. pod' = pod
      BY <1>2 DEF observe, Cluster, Register, Propagate, Arrive, Leave, LocksLeave, ContainerDown, ContainerUp
    <2> QED BY <2>1
  <1>3. CASE Tick
    <2>1. pod'.phase = pod.phase
      BY <1>0, <1>3, AgedFields DEF Tick, TypeOK
    <2> QED BY <2>1
  <1>4. CASE Others
    <2>1. Claims
      BY <1>0, <1>4, OthersClaims
    <2> QED BY <2>1 DEF Claims
  <1> QED BY <1>1, <1>2, <1>3, <1>4 DEF Next

(* NoLoadAtRecycle: poolingCNReconcile recycles a pod only once it has no
   workload left, so the next claim does not meet that of the previous one.
   The minimum delay must be positive, and in a pool no time may pass within a
   reconciliation and the score must reach the API server: in a slow
   reconciliation the pod is judged by an age it did not have when it was
   counted, and after a failed patch of the score the next patch brings back
   the counts of an earlier round. *)
THEOREM RecycledPodsAreEmpty ==
  ASSUME MinDelay > 0, \A sc \in Scenarios : "pooling" \in sc => sc \cap {"slow", "patch"} = {}
  PROVE  Spec => NoLoadAtRecycle
  <1>1. Init => RecycleInv
    <2> SUFFICES ASSUME Init PROVE RecycleInv
      OBVIOUS
    <2>1. TypeOK
      BY InitTyped
    <2>2. Sequential
      BY DEF Init, Sequential, May
    <2>3. /\ w = Resting /\ claim = "none" /\ load = {} /\ known = ha
          /\ pod = NewPod \/ (pod = [NewPod EXCEPT !.phase = "Draining"] /\ ha = "Draining")
      BY DEF Init, Started
    <2>4. /\ w.pc = "rest" /\ pod.at = NoStamp
          /\ pod.phase = "Unknown" \/ (pod.phase = "Draining" /\ ha = "Draining")
      BY <2>3 DEF Resting, NewPod
    <2>5. Unpooled /\ View /\ InOrder
      BY <2>3, <2>4 DEF Unpooled, View, InOrder
    <2>6. Empty
      BY <2>3, <2>4 DEF Empty
    <2>7. Told
      BY <2>3, <2>4 DEF Told
    <2> QED BY <2>1, <2>2, <2>5, <2>6, <2>7 DEF RecycleInv
  <1>2. RecycleInv /\ [Next /\ UNCHANGED may]_<<vars, may>> => RecycleInv'
    <2>1. RecycleInv /\ Next /\ UNCHANGED may => RecycleInv'
      BY RecycleInductive
    <2>2. RecycleInv /\ UNCHANGED <<vars, may>> => RecycleInv'
      BY DEF RecycleInv, TypeOK, Sequential, Unpooled, View, Told, Tended, InOrder, Empty, Stands, Calm,
             IsSafeToReclaim, vars, May, Counted
    <2> QED BY <2>1, <2>2
  <1>3. RecycleInv /\ [Next /\ UNCHANGED may]_<<vars, may>> =>
          [pod.phase = "Draining" /\ pod.at # NoStamp /\ pod'.phase = "Idle" => load = {}]_vars
    BY RecycleIsSafe
  <1> QED BY <1>1, <1>2, <1>3, PTL DEF Spec, NoLoadAtRecycle

-----------------------------------------------------------------------------
(* The workload of a pod that is given up for being stopped *)

(* Without these a drain is judged by the time it began, although the cluster
   may send work again: time passes within a reconciliation, or a claim sets
   the state of the CN to Working (after Kruise took the pod back, or late). *)
Undisturbed ==
  /\ May("drain") => ~May("slow")
  /\ May("drain") /\ May("pooling") => ~May("late") /\ ~May("regret")

(* The property is about scenarios in which every drain reaches HAKeeper. *)
Watched == May("drain") /\ ~May("hakeeper") /\ ~May("abort")

(* The drain is old enough to be judged. *)
Due == pod.fin /\ pod.start >= MinDelay

(* A drain is under way on a pod that Kruise prepares. *)
Firm ==
  /\ w.pc \in {"delstore", "unfinalize"} => pod.st # "live"
  /\ w.pc \in {"normal", "work", "pool", "ready"} => pod.start = NoStamp
  /\ w.pc = "work" => ~May("pooling")
  /\ May("pooling") /\ pod.fin =>
       /\ w.pc # "rest" /\ Preparing(w.mem) => Preparing(pod)
       /\ w.pc \in {"start", "drain", "lock"} \/ pod.start # NoStamp => Preparing(pod)

(* HAKeeper has been told, except by a drain that is just beginning and by one
   of a store it does not know. *)
Announced ==
  /\ known # ha => lag < MinDelay
  /\ pod.fin /\ pod.start # NoStamp /\ Tended =>
       \/ ha = "Draining" /\ (known = ha \/ lag >= pod.start)
       \/ w.pc = "drain" /\ pod.start = 0
       \/ w.pc = "complete" /\ w.why = "unknown"

(* A drain that has been judged safe is. *)
JudgedSafe == w.pc = "lock" \/ (w.pc = "complete" /\ w.why = "drained")

Quiet ==
  /\ ~up => load = {}
  /\ w.pc \in {"query", "putstats"} /\ Due => Stands
  /\ w.pc \in {"dispatch", "start", "drain"} /\ Due /\ IsSafeToReclaim(w.mem) => load = {}
  /\ JudgedSafe /\ pod.fin => Due /\ load = {}

ReleaseInv ==
  /\ EvidenceInv /\ Undisturbed /\ Unpooled
  /\ w.pc \in {"start", "drain", "lock"} \/ w.why = "drained" => May("drain")
  /\ Watched => Firm /\ Announced /\ InOrder /\ Quiet

(* What a step of the controller does to the marks of a drain on the pod, *)
Marks ==
  /\ pod'.fin => pod.fin \/ (w'.pc = "normal" /\ ~Preparing(w.mem))
  /\ \/ pod'.start = pod.start
     \/ w.pc = "start" /\ w'.pc = "drain" /\ pod'.start = 0
     \/ pod'.start = NoStamp
  /\ pod'.life = pod.life \/ pod'.life = "PreparingDelete"
  /\ w'.pc # "rest" => \/ w'.mem.life = pod'.life
                       \/ w'.mem.life = w.mem.life /\ pod'.life = pod.life

(* where the drain goes on, *)
Drains ==
  /\ w'.pc = "dispatch" => \/ w.pc \in {"query", "putstats"} /\ w'.mem.score = w.score
                           \/ w.pc = "stats" /\ ~up
  /\ w'.pc = "start" => w.pc = "dispatch" /\ Preparing(w.mem) /\ May("drain")
  /\ w'.pc = "drain" => w.pc = "start"
  /\ w'.pc \in {"start", "drain"} => w'.mem.score = w.mem.score \/ pod'.start \in {NoStamp, 0}
  /\ w'.pc = "lock" \/ (w'.pc = "complete" /\ w'.why = "drained") =>
       /\ pod' = pod
       /\ w.pc = "lock" \/ (w.pc = "drain" /\ pod.start >= MinDelay /\ IsSafeToReclaim(w.mem))
  /\ w'.pc = "normal" => pod'.start = NoStamp
  /\ w'.pc \in {"work", "pool", "ready"} => w.pc \in {"normal", "work", "pool"} /\ pod'.start = pod.start
  /\ w'.why = "drained" => w.why = "drained" \/ w.pc \in {"drain", "lock"}

(* and where it ends. *)
Ends ==
  /\ w.pc = "drain" =>
       \/ ha' = "Draining" /\ ha # "absent" /\ pod' = pod
       \/ w'.pc = "complete" /\ w'.why = "unknown" /\ pod' = pod
       \/ May("hakeeper") \/ May("abort")
  /\ w.pc = "complete" => ~pod'.fin \/ pod'.start = NoStamp \/ May("abort")

Progress == Marks /\ Drains /\ Ends

(* A reconciliation that ends with a patch of other things. *)
LEMMA PatchStops ==
  ASSUME TypeOK, NEW old, NEW new \in PodObj, Patched(old, new, Resting),
         new.fin => pod.fin, new.start = pod.start, new.life \in {pod.life, "PreparingDelete"},
         w.pc \notin {"drain", "complete"}
  PROVE  Progress
  <1>1. w'.pc = "rest" /\ w'.why = "none" /\ (pod' = new \/ pod' = pod)
    BY DEF Patched, Resting
  <1> QED BY <1>1 DEF Progress, Marks, Drains, Ends

(* A step that does not touch the pod. *)
LEMMA Stops ==
  ASSUME TypeOK, pod' = pod, w' = Resting, w.pc \notin {"drain", "complete"} \/ May("hakeeper") \/ May("abort"),
         w.pc # "complete" \/ May("abort")
  PROVE  Progress
  BY DEF Resting, Progress, Marks, Drains, Ends

LEMMA StatsProgress ==
  ASSUME TypeOK, Stats
  PROVE  Progress
  <1>0. pod \in PodObj /\ w \in Worker /\ w.mem \in PodObj
    BY DEF TypeOK, Worker
  <1> USE DEF Progress, Marks, Drains, Ends
  <1>1. CASE NotStarted
    BY <1>0, <1>1 DEF NotStarted, Worker
  <1>2. CASE BeginObservation \/ StoreCacheMiss
    <2>1. /\ w'.pc \in {"query", "putstats"} /\ w'.mem = w.mem /\ w'.why = w.why /\ pod' = pod
          /\ w.pc \in {"stats", "query"}
      BY <1>0, <1>2 DEF BeginObservation, StoreCacheMiss, Worker
    <2> QED BY <2>1
  <1>3. ASSUME NEW k \in Kinds, Query(k) \/ QueryFails(k)
        PROVE  Progress
    <2>1. w'.pc = "query" /\ w.pc = "query" /\ w'.mem = w.mem /\ w'.why = w.why /\ pod' = pod
      BY <1>0, <1>3 DEF Query, QueryFails, Worker
    <2> QED BY <2>1
  <1>4. CASE patchStoreStats
    <2>1. Patched(StatsIn(w.mem), StatsIn(pod), At("dispatch")) /\ w.pc \in {"query", "putstats"}
      BY <1>4, Patches DEF patchStoreStats
    <2>2. /\ At("dispatch") \in Worker /\ At("dispatch").pc = "dispatch" /\ At("dispatch").mem = w.mem
          /\ At("dispatch").why = w.why
      BY AtTyped
    <2>3. CASE pod' = StatsIn(pod) /\ w' = [At("dispatch") EXCEPT !.mem = StatsIn(pod)]
      <3>1. /\ w'.pc = "dispatch" /\ w'.mem = pod' /\ w'.why = w.why
            /\ pod'.fin = pod.fin /\ pod'.start = pod.start /\ pod'.life = pod.life /\ pod'.score = w.score
        BY <1>0, <2>2, <2>3 DEF StatsIn, PodObj, Worker
      <3> QED BY <2>1, <3>1
    <2>4. CASE StatsIn(w.mem) = w.mem /\ pod' = pod /\ w' = At("dispatch")
      <3>1. w.mem.score = w.score
        BY <1>0, <2>4 DEF StatsIn, PodObj
      <3> QED BY <2>1, <2>2, <2>4, <3>1
    <2> QED BY <2>1, <2>2, <2>3, <2>4 DEF Patched
  <1>5. CASE PatchStatsFails
    <2>1. /\ w'.pc = "dispatch" /\ w.pc \in {"query", "putstats"} /\ pod' = pod /\ w'.why = w.why
          /\ w'.mem = [w.mem EXCEPT !.score = w.score]
      BY <1>0, <1>5 DEF PatchStatsFails, Worker
    <2>2. w'.mem.score = w.score /\ w'.mem.life = w.mem.life
      BY <1>0, <2>1 DEF PodObj
    <2> QED BY <2>1, <2>2
  <1> QED BY <1>1, <1>2, <1>3, <1>4, <1>5 DEF Stats

LEMMA DrainProgress ==
  ASSUME MinDelay > 0, EvidenceInv, Drain
  PROVE  Progress
  <1>0. TypeOK /\ pod \in PodObj /\ w \in Worker /\ w.mem \in PodObj
    BY DEF EvidenceInv, TypeOK, Worker
  <1>00. Resting \in Worker /\ Resting.pc = "rest" /\ Resting.why = "none"
    BY NewPodTyped DEF Resting
  <1>1. CASE OnPreparingUpdate \/ DrainTimesOut \/ UnknownToHAKeeper
    <2>1. /\ w'.pc = "complete" /\ w'.mem = w.mem /\ pod' = pod
          /\ w'.why \in {"paused", "timeout", "unknown"}
          /\ w.pc \in {"dispatch", "start"} \/ (w.pc = "drain" /\ w'.why = "unknown")
      BY <1>0, <1>1 DEF OnPreparingUpdate, DrainTimesOut, UnknownToHAKeeper, Complete, Worker
    <2> QED BY <2>1 DEF Progress, Marks, Drains, Ends
  <1>2. CASE ContinueDraining \/ LocksMigrated
    <2>1. /\ w'.mem = w.mem /\ pod' = pod
          /\ \/ w.pc = "start" /\ w'.pc = "drain" /\ w'.why = w.why
             \/ w.pc = "lock" /\ w'.pc = "complete"
      BY <1>0, <1>2 DEF ContinueDraining, LocksMigrated, Complete, Goto, At, Worker
    <2> QED BY <2>1 DEF Progress, Marks, Drains, Ends
  <1>3. CASE OnPreparingStop
    <2> DEFINE next == IF May("drain") THEN At("start") ELSE [At("complete") EXCEPT !.why = "disabled"]
               new == ReadyIs(pod, "PrepareStop")
    <2>1. Patched(ReadyIs(w.mem, "PrepareStop"), new, next) /\ w.pc = "dispatch" /\ Preparing(w.mem)
      BY <1>3, Patches DEF OnPreparingStop
    <2>2. /\ next.mem = w.mem /\ next \in Worker
          /\ (next.pc = "start" /\ next.why = w.why /\ May("drain")) \/ (next.pc = "complete" /\ next.why = "disabled")
      BY <1>0, AtTyped DEF Worker
    <2>3. /\ new.fin = pod.fin /\ new.start = pod.start /\ new.life = pod.life /\ new.score = pod.score
          /\ new \in PodObj
      BY <1>0 DEF ReadyIs, PodObj
    <2>4. ReadyIs(w.mem, "PrepareStop") # w.mem => w.mem.ready # "PrepareStop"
      BY <1>0 DEF ReadyIs, PodObj
    <2>5. ReadyIs(w.mem, "PrepareStop") # w.mem \/ May("resend") =>
            w.mem.score = pod.score \/ pod.start = NoStamp
      BY <2>1, <2>4 DEF EvidenceInv, Separate, Copied, Marked
    <2> HIDE DEF next, new
    <2>6. /\ w'.pc = next.pc /\ w'.why = next.why
          /\ pod'.fin = pod.fin /\ pod'.start = pod.start /\ pod'.life = pod.life
          /\ w'.mem.life = pod'.life \/ w'.mem.life = w.mem.life
          /\ w'.mem.score = w.mem.score \/ pod'.start = NoStamp
      BY <2>1, <2>2, <2>3, <2>5 DEF Patched, Worker
    <2> QED BY <2>1, <2>2, <2>6 DEF Progress, Marks, Drains, Ends
  <1>4. CASE StartDraining
    <2>1. Patched(Begun(w.mem), Begun(pod), At("drain")) /\ w.pc = "start" /\ w.mem.start = NoStamp
      BY <1>4, Patches DEF StartDraining
    <2>2. At("drain").pc = "drain" /\ At("drain") \in Worker /\ At("drain").why = w.why
      BY AtTyped, <1>0
    <2>3. Begun(w.mem) # w.mem
      BY <1>0, <2>1, StoreAssumption DEF Begun, PodObj, NoStamp
    <2>4. pod' = Begun(pod) /\ w' = [At("drain") EXCEPT !.mem = Begun(pod)]
      BY <2>1, <2>2, <2>3 DEF Patched
    <2>5. pod'.fin = pod.fin /\ pod'.start = 0 /\ pod'.life = pod.life
      BY <1>0, <2>4 DEF Begun, PodObj
    <2>6. w'.pc = "drain" /\ w'.mem = pod' /\ w'.why = w.why
      BY <2>2, <2>4 DEF Worker
    <2> QED BY <2>1, <2>5, <2>6 DEF Progress, Marks, Drains, Ends
  <1>5. CASE handleConnectionDraining
    <2>1. w.pc = "drain" /\ pod' = pod /\ ha # "absent" /\ ha' = "Draining"
      BY <1>5 DEF handleConnectionDraining, SetState
    <2>2. \/ w' = Resting
          \/ /\ w'.pc \in {"lock", "complete"} /\ w'.mem = w.mem
             /\ Settled(w.mem) /\ IsSafeToReclaim(w.mem)
      BY <1>0, <1>5 DEF handleConnectionDraining, Goto, At, Complete, Return, Worker
    <2>3. Settled(w.mem) => pod.start >= MinDelay
      BY <2>1 DEF Settled, EvidenceInv, Copied
    <2> QED BY <1>00, <2>1, <2>2, <2>3 DEF Progress, Marks, Drains, Ends
  <1>6. CASE SetRestartCN
    <2>1. Patched(Locked(w.mem), Locked(pod), Resting) /\ w.pc = "lock"
      BY <1>6, Patches DEF SetRestartCN
    <2>2. /\ Locked(pod).fin = pod.fin /\ Locked(pod).start = pod.start /\ Locked(pod).life = pod.life
          /\ Locked(pod) \in PodObj
      BY <1>0, ChangesTyped DEF Locked, PodObj
    <2> QED BY <1>0, <2>1, <2>2, PatchStops
  <1>7. CASE completeDraining
    <2> DEFINE next == IF Direct THEN At("deldirect") ELSE Resting
               new == Released(pod)
    <2>1. Patched(Released(w.mem), new, next) /\ w.pc = "complete"
      BY <1>7, Patches DEF completeDraining
    <2>2. new \in PodObj
      BY <1>0, ChangesTyped
    <2>3. ~new.fin /\ new.start = NoStamp /\ new.life = pod.life
      BY <1>0, <2>2 DEF Released, PodObj
    <2>4. /\ next \in Worker
          /\ \/ next.pc = "deldirect" /\ next.mem = w.mem /\ next.why = w.why
             \/ next.pc = "rest" /\ next.why = "none"
      BY <1>0, <1>00, AtTyped
    <2>5. Released(w.mem) = w.mem => pod.start = NoStamp
      <3>1. Released(w.mem) \in PodObj
        BY <1>0, ChangesTyped
      <3>2. Released(w.mem).start = NoStamp
        BY <1>0, <3>1 DEF Released, PodObj
      <3> QED BY <2>1, <3>2 DEF EvidenceInv, Copied
    <2> HIDE DEF next, new
    <2>6. /\ w'.pc = next.pc /\ w'.why = next.why
          /\ pod'.fin => pod.fin
          /\ pod'.start = NoStamp /\ pod'.life = pod.life
          /\ w'.pc # "rest" => w'.mem.life = pod'.life \/ w'.mem.life = w.mem.life
      BY <2>1, <2>2, <2>3, <2>4, <2>5 DEF Patched, Worker
    <2> QED BY <2>1, <2>4, <2>6 DEF Progress, Marks, Drains, Ends
  <1>8. CASE DeleteDirectPod
    <2>1. /\ w' = Resting /\ w.pc = "deldirect"
          /\ pod'.fin = pod.fin /\ pod'.start = pod.start /\ pod'.life = pod.life
      BY <1>0, <1>8 DEF DeleteDirectPod, Return, PodObj
    <2> QED BY <1>00, <2>1 DEF Progress, Marks, Drains, Ends
  <1> QED BY <1>1, <1>2, <1>3, <1>4, <1>5, <1>6, <1>7, <1>8 DEF Drain

LEMMA NormalProgress ==
  ASSUME EvidenceInv, Normal
  PROVE  Progress
  <1>0. TypeOK /\ pod \in PodObj /\ w \in Worker /\ w.mem \in PodObj
    BY DEF EvidenceInv, TypeOK, Worker
  <1>00. Resting \in Worker /\ Resting.pc = "rest" /\ Resting.why = "none"
    BY NewPodTyped DEF Resting
  <1>1. CASE OnNormal
    <2>1. Patched(Kept(w.mem), Kept(pod), At("normal")) /\ w.pc = "dispatch" /\ ~Preparing(w.mem)
      BY <1>1, Patches DEF OnNormal
    <2>2. /\ At("normal").pc = "normal" /\ At("normal").mem = w.mem /\ At("normal") \in Worker
          /\ At("normal").why = w.why
      BY <1>0, AtTyped
    <2>3. Kept(pod) \in PodObj /\ Kept(w.mem) \in PodObj
      BY <1>0, ChangesTyped
    <2>4. Kept(pod).start = NoStamp /\ Kept(pod).life = pod.life /\ Kept(w.mem).start = NoStamp
      BY <1>0, <2>3 DEF Kept, PodObj
    <2>5. Kept(w.mem) = w.mem => pod.start = NoStamp
      BY <2>1, <2>4 DEF EvidenceInv, Copied
    <2>6. /\ w'.pc = "normal" /\ w'.why = w.why
          /\ pod'.start = NoStamp /\ pod'.life = pod.life
          /\ w'.mem.life = pod'.life \/ w'.mem.life = w.mem.life
      BY <2>1, <2>2, <2>3, <2>4, <2>5 DEF Patched, Worker
    <2> QED BY <2>1, <2>6 DEF Progress, Marks, Drains, Ends
  <1>2. CASE CollectDirectPod
    <2>1. Patched(Dying(w.mem), Dying(pod), Resting) /\ w.pc = "normal"
      BY <1>2, Patches DEF CollectDirectPod
    <2>2. Dying(pod) \in PodObj
      BY <1>0, ChangesTyped
    <2>3. Dying(pod).fin = pod.fin /\ Dying(pod).start = pod.start /\ Dying(pod).life = "PreparingDelete"
      BY <1>0 DEF Dying, PodObj
    <2> QED BY <1>0, <2>1, <2>2, <2>3, PatchStops
  <1>3. CASE PatchReady
    <2> DEFINE new == ReadyIs(pod, "Ready")
    <2>1. Patched(ReadyIs(w.mem, "Ready"), new, Resting) /\ w.pc = "ready"
      BY <1>3, Patches DEF PatchReady
    <2>2. new \in PodObj
      BY <1>0, ChangesTyped
    <2>3. new.fin = pod.fin /\ new.start = pod.start /\ new.life = pod.life
      BY <1>0 DEF ReadyIs, PodObj
    <2> HIDE DEF new
    <2> QED BY <1>0, <2>1, <2>2, <2>3, PatchStops
  <1>4. CASE ByPolicy \/ defaultCNNormalReconcile \/ PoolInUse
    <2>1. /\ w'.mem = w.mem /\ pod' = pod /\ w'.why = w.why /\ w.pc \in {"normal", "work", "pool"}
          /\ w'.pc \in {"ready", "pool", "work"}
      BY <1>0, <1>4 DEF ByPolicy, defaultCNNormalReconcile, PoolInUse, Goto, At, Worker
    <2> QED BY <2>1 DEF Progress, Marks, Drains, Ends
  <1>5. CASE PoolTerminating \/ PoolStillDraining
    BY <1>0, <1>5, Stops DEF PoolTerminating, PoolStillDraining, DrainUnderWay, Return
  <1>6. CASE diagnosisDraining
    <2>1. w.pc = "pool" /\ w'.pc = "pool" /\ w'.mem = pod /\ pod' = pod /\ w'.why = w.why
      BY <1>0, <1>6 DEF diagnosisDraining, DrainUnderWay, Worker
    <2> QED BY <2>1 DEF Progress, Marks, Drains, Ends
  <1>7. CASE PoolRegister
    <2>1. w.pc = "pool"
      BY <1>7 DEF PoolRegister
    <2>2. CASE w' = At("unready") /\ pod' = pod
      <3>1. w'.pc = "unready" /\ w'.mem = w.mem /\ w'.why = w.why
        BY <1>0, <2>2, AtTyped
      <3> QED BY <2>1, <2>2, <3>1 DEF Progress, Marks, Drains, Ends
    <2>3. CASE Patched(PhaseIs(w.mem, "Idle"), PhaseIs(pod, "Idle"), At("ready"))
      <3>1. /\ At("ready").pc = "ready" /\ At("ready") \in Worker /\ At("ready").why = w.why
            /\ At("ready").mem = w.mem
        BY <1>0, AtTyped
      <3> DEFINE new == PhaseIs(pod, "Idle")
      <3>2. new.fin = pod.fin /\ new.start = pod.start /\ new.life = pod.life
        BY <1>0 DEF PhaseIs, PodObj
      <3> HIDE DEF new
      <3>3. Patched(PhaseIs(w.mem, "Idle"), new, At("ready"))
        BY <2>3 DEF new
      <3>4. /\ w'.pc = "ready" /\ w'.why = w.why
            /\ pod'.fin = pod.fin /\ pod'.start = pod.start /\ pod'.life = pod.life
            /\ w'.mem.life = pod'.life \/ w'.mem.life = w.mem.life
        BY <3>1, <3>2, <3>3 DEF Patched, Worker
      <3> QED BY <2>1, <3>4 DEF Progress, Marks, Drains, Ends
    <2> QED BY <1>7, <2>2, <2>3, Patches
  <1>8. CASE PoolDrainTimesOut \/ PoolLegacy \/ PoolRecycle
    <2>1. w.pc = "pool"
      BY <1>8 DEF PoolDrainTimesOut, PoolLegacy, PoolRecycle, DrainUnderWay
    <2>2. CASE Patched(Evicted(w.mem), Evicted(pod), Resting)
      <3>1. Evicted(pod) \in PodObj
        BY <1>0, ChangesTyped
      <3>2. /\ Evicted(pod).fin = pod.fin /\ Evicted(pod).start = pod.start
            /\ Evicted(pod).life \in {pod.life, "PreparingDelete"}
        BY <1>0 DEF Evicted, PodObj
      <3> QED BY <1>0, <2>1, <2>2, <3>1, <3>2, PatchStops
    <2>3. CASE Patched(PhaseIs(w.mem, "Idle"), PhaseIs(pod, "Idle"), Resting)
      <3> DEFINE new == PhaseIs(pod, "Idle")
      <3>1. new \in PodObj
        BY <1>0, ChangesTyped
      <3>2. new.fin = pod.fin /\ new.start = pod.start /\ new.life = pod.life
        BY <1>0 DEF PhaseIs, PodObj
      <3>3. Patched(PhaseIs(w.mem, "Idle"), new, Resting)
        BY <2>3
      <3> HIDE DEF new
      <3> QED BY <1>0, <2>1, <3>1, <3>2, <3>3, PatchStops
    <2>4. CASE Patched(Recycled(w.mem), Recycled(pod), Resting)
      <3>1. Recycled(pod) \in PodObj
        BY <1>0, ChangesTyped
      <3>2. /\ Recycled(pod).fin = pod.fin /\ Recycled(pod).start = pod.start
            /\ Recycled(pod).life = pod.life
        BY <1>0 DEF Recycled, PodObj
      <3> QED BY <1>0, <2>1, <2>4, <3>1, <3>2, PatchStops
    <2> QED BY <1>8, <2>2, <2>3, <2>4, Patches
  <1> QED BY <1>1, <1>2, <1>3, <1>4, <1>5, <1>6, <1>7, <1>8 DEF Normal

LEMMA StepProgress ==
  ASSUME MinDelay > 0, EvidenceInv, Step \/ Abort
  PROVE  Progress
  <1>0. TypeOK /\ pod \in PodObj /\ w \in Worker /\ w.mem \in PodObj
    BY DEF EvidenceInv, TypeOK, Worker
  <1>1. CASE OnCordon \/ DeleteCNStore
    <2>1. /\ w'.mem = w.mem /\ pod' = pod /\ w'.why = w.why
          /\ w.pc \in {"dispatch", "delstore"} /\ w'.pc \in {"unready", "unfinalize"}
      BY <1>0, <1>1 DEF OnCordon, DeleteCNStore, Goto, At, Worker
    <2> QED BY <2>1 DEF Progress, Marks, Drains, Ends
  <1>2. CASE PatchUnready
    <2> DEFINE new == ReadyIs(pod, Reason)
    <2>1. Patched(ReadyIs(w.mem, Reason), new, Resting) /\ w.pc = "unready"
      BY <1>2, Patches DEF PatchUnready
    <2>2. Reason \in {"Ready", "Cordon", "PrepareStop", "NotRegistered"}
      BY DEF Reason
    <2>3. new \in PodObj
      BY <1>0, <2>2, ChangesTyped
    <2>4. new.fin = pod.fin /\ new.start = pod.start /\ new.life = pod.life
      BY <1>0 DEF ReadyIs, PodObj
    <2> HIDE DEF new
    <2> QED BY <1>0, <2>1, <2>3, <2>4, PatchStops
  <1>3. CASE RemoveFinalizer
    <2> DEFINE new == Unfinalized(pod)
    <2>1. Patched(Unfinalized(w.mem), new, Resting) /\ w.pc = "unfinalize"
      BY <1>3, Patches DEF RemoveFinalizer
    <2>2. new \in PodObj
      BY <1>0, ChangesTyped
    <2>3. ~new.fin /\ new.start = pod.start /\ new.life = pod.life
      BY <1>0 DEF Unfinalized, PodObj
    <2> HIDE DEF new
    <2> QED BY <1>0, <2>1, <2>2, <2>3, PatchStops
  <1>4. CASE HAKeeperFails \/ Abort
    BY <1>0, <1>4, Stops DEF HAKeeperFails, SetsState, Abort, Return
  <1> QED BY <1>0, <1>1, <1>2, <1>3, <1>4, StatsProgress, DrainProgress, NormalProgress DEF Step

(* What the controller's steps leave of the invariant. *)
LEMMA StepRelease ==
  ASSUME MinDelay > 0, ReleaseInv, Step \/ Abort, Watched, UNCHANGED may
  PROVE  (Firm /\ Announced /\ InOrder /\ Quiet)'
  <1>0. /\ EvidenceInv /\ TypeOK /\ Copied /\ Firm /\ Announced /\ InOrder /\ Quiet
        /\ ~May("hakeeper") /\ ~May("abort")
    BY DEF ReleaseInv, EvidenceInv, Watched
  <1>1. Flows /\ Counts
    BY <1>0, StepEffect DEF Effect
  <1>2. /\ UNCHANGED <<up, load, txns, claim, known>>
        /\ \/ UNCHANGED <<ha, lag>>
           \/ /\ \/ ha' = "Draining" /\ ha # "absent"
                 \/ ha' = "Working" /\ w.pc = "work"
                 \/ ha' = "absent" /\ w.pc = "delstore"
              /\ lag' = IF ha = ha' THEN lag ELSE 0
    BY StepOutside
  <1>3. MinDelay \in Nat /\ pod \in PodObj /\ w \in Worker /\ pod.start \in Int /\ lag \in Nat
    BY <1>0, StoreAssumption DEF TypeOK, PodObj, Stamps, NoStamp, Ages
  <1>4. Marks /\ Drains /\ Ends
    BY <1>0, StepProgress DEF Progress
  <1>5. Tended' => Tended
    BY <1>1 DEF Tended, Flows
  <1>6. Due' => Due
    BY <1>3, <1>4 DEF Due, Marks, Drains, NoStamp
  <1>7. Firm'
    <2>1. w'.pc \in {"delstore", "unfinalize"} => pod'.st # "live"
      BY <1>0, <1>1 DEF Firm, Flows
    <2>2. w'.pc \in {"normal", "work", "pool", "ready"} => pod'.start = NoStamp
      BY <1>0, <1>4 DEF Firm, Drains
    <2>3. w'.pc = "work" => ~May("pooling")'
      BY <1>1 DEF Flows, May
    <2>4. Preparing(pod) => Preparing(pod')
      BY <1>4 DEF Marks, Preparing
    <2>5. ASSUME May("pooling"), pod'.fin, w'.pc # "rest", Preparing(w'.mem)
          PROVE  Preparing(pod')
      BY <1>0, <1>1, <1>4, <2>4, <2>5 DEF Firm, Flows, Marks, Preparing
    <2>6. ASSUME May("pooling"), pod'.fin, w'.pc \in {"start", "drain", "lock"} \/ pod'.start # NoStamp
          PROVE  Preparing(pod')
      <3>1. pod.fin
        BY <1>4, <2>6 DEF Marks, Drains
      <3>2. \/ pod.start # NoStamp
            \/ w.pc \in {"start", "drain", "lock"}
            \/ w.pc = "dispatch" /\ Preparing(w.mem)
        BY <1>4, <2>6 DEF Marks, Drains
      <3> QED BY <1>0, <2>4, <2>6, <3>1, <3>2 DEF Firm
    <2> QED BY <2>1, <2>2, <2>3, <2>5, <2>6 DEF Firm, May
  <1>8. Announced'
    <2>1. known' # ha' => lag' < MinDelay
      BY <1>0, <1>2, <1>3 DEF Announced
    <2>2. ASSUME pod'.fin, pod'.start # NoStamp, Tended'
          PROVE  \/ ha' = "Draining" /\ (known' = ha' \/ lag' >= pod'.start)
                 \/ w'.pc = "drain" /\ pod'.start = 0
                 \/ w'.pc = "complete" /\ w'.why = "unknown"
      <3>1. pod.fin /\ Tended
        BY <1>4, <1>5, <2>2 DEF Marks, Drains
      <3>2. CASE w'.pc = "drain" /\ pod'.start = 0
        BY <3>2
      <3>3. CASE pod'.start = pod.start
        <4>1. w.pc # "delstore"
          BY <1>0, <1>1, <2>2 DEF Firm, Flows, Tended
        <4>2. w.pc # "work"
          BY <1>0, <2>2, <3>3 DEF Firm
        <4>3. UNCHANGED <<ha, lag>> \/ (ha' = "Draining" /\ lag' = IF ha = ha' THEN lag ELSE 0)
          BY <1>2, <4>1, <4>2
        <4>4. CASE ha = "Draining" /\ (known = ha \/ lag >= pod.start)
          BY <1>2, <3>3, <4>3, <4>4
        <4>5. CASE w.pc = "drain" /\ pod.start = 0
          BY <1>0, <1>3, <1>4, <3>3, <4>3, <4>5 DEF Ends
        <4>6. w.pc # "complete"
          BY <1>0, <1>4, <2>2 DEF Ends
        <4> QED BY <1>0, <2>2, <3>1, <3>3, <4>4, <4>5, <4>6 DEF Announced
      <3> QED BY <1>4, <2>2, <3>2, <3>3 DEF Marks
    <2> QED BY <2>1, <2>2 DEF Announced
  <1>9. InOrder'
    BY <1>0, <1>1, OrderKept
  <1>10. Quiet'
    <2>1. ~up' => load' = {}
      BY <1>0, <1>2 DEF Quiet
    <2>2. w'.pc \in {"query", "putstats"} /\ Due' => Stands'
      BY <1>0, <1>1, <1>2, <1>6, StandsKept DEF Quiet
    <2>3. ASSUME w'.pc \in {"dispatch", "start", "drain"}, Due', IsSafeToReclaim(w'.mem)
          PROVE  load' = {}
      <3>1. Due /\ load' = load /\ load \subseteq Kinds
        BY <1>0, <1>2, <1>6, <2>3 DEF TypeOK, Counted
      <3>2. \A k \in Kinds : w'.mem.score[k] = "zero"
        BY <2>3 DEF IsSafeToReclaim
      <3>3. CASE w'.pc = "dispatch"
        <4>1. CASE w.pc \in {"query", "putstats"} /\ w'.mem.score = w.score
          <5>1. \A k \in Kinds : w.score[k] = "zero" /\ w.score["session"] = "zero"
            BY <3>2, <4>1 DEF Kinds
          <5> QED BY <1>0, <3>1, <4>1, <5>1 DEF Quiet, Stands
        <4>2. CASE ~up
          BY <1>0, <3>1, <4>2 DEF Quiet
        <4> QED BY <1>4, <3>3, <4>1, <4>2 DEF Drains
      <3>4. CASE w'.pc \in {"start", "drain"}
        <4>1. pod'.start >= MinDelay
          BY <2>3 DEF Due
        <4>2. w'.mem.score = w.mem.score /\ w.pc \in {"dispatch", "start"}
          BY <1>3, <1>4, <3>4, <4>1 DEF Drains, NoStamp
        <4>3. IsSafeToReclaim(w.mem)
          BY <3>2, <4>2 DEF IsSafeToReclaim
        <4> QED BY <1>0, <3>1, <4>2, <4>3 DEF Quiet
      <3> QED BY <2>3, <3>3, <3>4
    <2>4. ASSUME JudgedSafe', pod'.fin
          PROVE  Due' /\ load' = {}
      <3>1. pod' = pod /\ (w.pc = "lock" \/ (w.pc = "drain" /\ pod.start >= MinDelay /\ IsSafeToReclaim(w.mem)))
        BY <1>4, <2>4 DEF Drains, JudgedSafe
      <3> QED BY <1>0, <1>2, <2>4, <3>1 DEF Quiet, JudgedSafe, Due
    <2> QED BY <2>1, <2>2, <2>3, <2>4 DEF Quiet
  <1> QED BY <1>7, <1>8, <1>9, <1>10

(* A look at the pod, and what happens beside the controller. *)
LEMMA ObserveRelease ==
  ASSUME ReleaseInv, observe, Watched, UNCHANGED may
  PROVE  (Firm /\ Announced /\ InOrder /\ Quiet)'
  <1>0. TypeOK /\ Firm /\ Announced /\ InOrder /\ Quiet
    BY DEF ReleaseInv, EvidenceInv
  <1>1. /\ w.pc = "rest" /\ w'.mem = pod /\ pod' = pod
        /\ \/ w'.pc = "delstore" /\ pod.st = "deleted"
           \/ w'.pc = "stats" /\ pod.st = "live"
        /\ UNCHANGED <<up, load, ha, known, lag, claim>>
    BY <1>0 DEF observe, outside, hakeeper, cn, TypeOK, Worker, PodObj
  <1>2. Tended' => Tended
    BY <1>1 DEF Tended
  <1>3. Firm'
    BY <1>0, <1>1 DEF Firm, May
  <1>4. Announced'
    BY <1>0, <1>1, <1>2 DEF Announced
  <1>5. InOrder' /\ Quiet'
    BY <1>0, <1>1 DEF InOrder, Quiet, JudgedSafe
  <1> QED BY <1>3, <1>4, <1>5

(* A drain that is due is known to the cluster. *)
LEMMA DueKnown ==
  ASSUME MinDelay > 0, TypeOK, Announced, Due,
         w.pc \in {"query", "putstats", "dispatch", "start", "drain"} \/ JudgedSafe
  PROVE  known = "Draining"
  <1>1. pod.start \in Int /\ lag \in Int /\ MinDelay \in Nat /\ pod.start # NoStamp /\ Tended
    BY StoreAssumption DEF TypeOK, PodObj, Stamps, Ages, NoStamp, Due, Tended, JudgedSafe
  <1>2. ha = "Draining" /\ (known = ha \/ lag >= pod.start) /\ pod.start >= MinDelay
    BY <1>1 DEF Announced, Due, JudgedSafe
  <1>3. known # ha => lag < MinDelay
    BY DEF Announced
  <1> QED BY <1>1, <1>2, <1>3

LEMMA ClusterRelease ==
  ASSUME MinDelay > 0, ReleaseInv, Cluster, Watched, UNCHANGED may
  PROVE  (Firm /\ Announced /\ InOrder /\ Quiet)'
  <1>0. TypeOK /\ Firm /\ Announced /\ InOrder /\ Quiet /\ ~May("slow") /\ MinDelay \in Nat
    BY StoreAssumption DEF ReleaseInv, EvidenceInv, Undisturbed, Watched
  <1> USE DEF hakeeper, cn
  <1>1. CASE Register \/ Propagate
    <2>1. /\ UNCHANGED <<pod, up, load, claim, w>>
          /\ \/ ha = "absent" /\ ha' = "Working" /\ known' = known /\ lag' = 0
             \/ known' = ha /\ ha' = ha /\ lag' = 0
      BY <1>1 DEF Register, Propagate, SetState
    <2>2. Firm' /\ InOrder' /\ Quiet'
      BY <1>0, <2>1 DEF Firm, InOrder, Quiet, Stands, Due, JudgedSafe, IsSafeToReclaim, Preparing, May
    <2>3. Announced'
      BY <1>0, <2>1 DEF Announced, Tended
    <2> QED BY <2>2, <2>3
  <1>2. CASE Tick
    <2>1. /\ w.pc = "rest" /\ w'.pc = "rest"
          /\ pod' = Aged(pod)
          /\ known = ha \/ lag + 1 < MinDelay
          /\ lag' = IF known = ha THEN 0 ELSE Older(lag)
          /\ UNCHANGED <<up, load, claim, ha, known>>
      BY <1>0, <1>2 DEF Tick, TypeOK, Worker
    <2>2. pod'.st = pod.st /\ pod'.start = Older(pod.start) /\ pod'.fin = pod.fin /\ pod'.life = pod.life
      BY <1>0, <2>1 DEF TypeOK, Aged, PodObj
    <2>3. lag \in Ages /\ pod.start \in Stamps
      BY <1>0 DEF TypeOK, PodObj
    <2>4. known' # ha' => lag' < MinDelay
      BY <1>0, <2>1, <2>3 DEF Older, Ages, NoStamp
    <2>5. pod'.start # NoStamp => pod.start # NoStamp
      BY <2>2 DEF Older
    <2>6. pod'.start # NoStamp /\ known # ha /\ lag >= pod.start => lag' >= pod'.start
      BY StoreAssumption, <2>1, <2>2, <2>3 DEF Older, Ages, NoStamp, Stamps
    <2>7. Announced'
      BY <1>0, <2>1, <2>2, <2>4, <2>5, <2>6 DEF Announced, Tended
    <2>8. Firm'
      BY <1>0, <2>1, <2>2, <2>5 DEF Firm, Preparing, May
    <2>9. InOrder' /\ Quiet'
      BY <1>0, <2>1 DEF InOrder, Quiet, JudgedSafe
    <2> QED BY <2>7, <2>8, <2>9
  <1>3. ASSUME NEW k \in Counted, Arrive(k)
        PROVE  (Firm /\ Announced /\ InOrder /\ Quiet)'
    <2>1. /\ UNCHANGED <<pod, up, ha, known, lag, claim, w>> /\ load' = load \cup {k} /\ up
          /\ known = "Working" \/ (k = "pipeline" /\ "session" \in load)
      BY <1>3 DEF Arrive
    <2>2. Firm' /\ InOrder' /\ Announced'
      BY <1>0, <2>1 DEF Firm, InOrder, Announced, Tended, Preparing, May
    <2>3. (w.pc \in {"query", "putstats", "dispatch", "start", "drain"} \/ JudgedSafe) /\ Due
            => k = "pipeline" /\ "session" \in load
      BY <1>0, <2>1, DueKnown
    <2>4. ASSUME w.pc \in {"query", "putstats"}, Due, NEW j \in Kinds, w.score[j] = "zero",
                 j = "pipeline" => w.score["session"] = "zero"
          PROVE  j \notin load'
      <3>1. j \notin load /\ k = "pipeline" /\ "session" \in load
        BY <1>0, <2>3, <2>4 DEF Quiet, Stands
      <3>2. j # k
        BY <1>0, <2>4, <3>1 DEF Quiet, Stands, Kinds
      <3> QED BY <2>1, <3>1, <3>2
    <2>5. ~(w.pc \in {"dispatch", "start", "drain"} /\ Due /\ IsSafeToReclaim(w.mem))
      BY <1>0, <2>3 DEF Quiet
    <2>6. ~(JudgedSafe /\ pod.fin)
      BY <1>0, <2>3 DEF Quiet
    <2>7. Due' = Due /\ IsSafeToReclaim(w.mem)' = IsSafeToReclaim(w.mem) /\ JudgedSafe' = JudgedSafe
      BY <2>1 DEF Due, IsSafeToReclaim, JudgedSafe
    <2>8. Quiet'
      BY <2>1, <2>4, <2>5, <2>6, <2>7 DEF Quiet, Stands
    <2> QED BY <2>2, <2>8
  <1>4. CASE LocksLeave \/ ContainerDown \/ ContainerUp \/ \E k \in Counted : Leave(k)
    <2>1. /\ UNCHANGED <<pod, ha, known, lag, claim, w>> /\ load' \subseteq load
          /\ up' = up \/ load' = {} \/ ~up
      BY <1>4 DEF LocksLeave, ContainerDown, ContainerUp, Leave
    <2>2. Firm' /\ InOrder' /\ Announced'
      BY <1>0, <2>1 DEF Firm, InOrder, Announced, Tended, Preparing, May
    <2>3. Due' = Due /\ IsSafeToReclaim(w.mem)' = IsSafeToReclaim(w.mem) /\ JudgedSafe' = JudgedSafe
      BY <2>1 DEF Due, IsSafeToReclaim, JudgedSafe
    <2>4. ~up' => load' = {}
      BY <1>0, <2>1 DEF Quiet
    <2>5. Quiet'
      BY <1>0, <2>1, <2>3, <2>4 DEF Quiet, Stands
    <2> QED BY <2>2, <2>5
  <1> QED BY <1>1, <1>2, <1>3, <1>4 DEF Cluster

(* The others take no finalizer, and a pod that has one stays prepared. *)
LEMMA OthersPrepare ==
  ASSUME TypeOK, Others
  PROVE  /\ pod'.fin = pod.fin
         /\ Preparing(pod) => Preparing(pod') \/ ~pod.fin \/ May("regret")
         /\ ClaimSetState /\ ha' # ha /\ claim = "Working" => pod.life = "Normal" \/ May("late")
  <1>0. pod \in PodObj
    BY DEF TypeOK
  <1>00. ClaimSetState /\ claim = "Working" => pod.life = "Normal" \/ May("late")
    BY DEF ClaimSetState
  <1> SUFFICES /\ pod'.fin = pod.fin
               /\ Preparing(pod) => Preparing(pod') \/ ~pod.fin \/ May("regret")
    BY <1>00
  <1> USE DEF Preparing
  <1>1. ASSUME NEW life \in {"PreparingUpdate", "PreparingDelete"}, Prepare(life)
        PROVE  pod'.fin = pod.fin /\ pod'.life = life
    BY <1>0, <1>1 DEF Prepare, Outsider, PodObj
  <1>2. CASE Regret \/ KruiseUpdate
    BY <1>0, <1>2 DEF Regret, KruiseUpdate, Outsider, PodObj
  <1>3. CASE KruiseDelete \/ Disappear \/ PoolScaleIn \/ Cordon \/ ForceDelete
    BY <1>0, <1>3 DEF KruiseDelete, Disappear, PoolScaleIn, Cordon, ForceDelete, Outsider, PodObj
  <1>4. CASE DeleteOnReclaim \/ SpecifiedDelete \/ ClaimPod \/ ClaimReclaim \/ ClaimGivesUp \/ ClaimRelease
    BY <1>0, <1>4 DEF DeleteOnReclaim, SpecifiedDelete, ClaimPod, ClaimReclaim, ClaimGivesUp, ClaimRelease,
                      Outsider, PodObj
  <1>5. CASE ClaimSetState
    BY <1>0, <1>5 DEF ClaimSetState
  <1> QED BY <1>1, <1>2, <1>3, <1>4, <1>5 DEF Others

LEMMA OthersRelease ==
  ASSUME MinDelay > 0, ReleaseInv, Others, Watched, UNCHANGED may
  PROVE  (Firm /\ Announced /\ InOrder /\ Quiet)'
  <1>0. /\ TypeOK /\ Unpooled /\ Firm /\ Announced /\ InOrder /\ Quiet /\ MinDelay \in Nat /\ lag \in Nat
        /\ May("pooling") => ~May("late") /\ ~May("regret")
    BY StoreAssumption DEF ReleaseInv, EvidenceInv, TypeOK, Ages, Undisturbed, Watched
  <1>1. Claims
    BY <1>0, OthersClaims
  <1>2. /\ w' = w /\ pod'.start = pod.start /\ known' = known
        /\ pod.st # "live" => pod'.st # "live"
        /\ UNCHANGED <<up, load>> \/ (up' = FALSE /\ load' = {})
        /\ UNCHANGED <<ha, lag>> \/ ClaimSetState
    BY <1>0, OthersStep
  <1>3. /\ pod'.fin = pod.fin
        /\ Preparing(pod) => Preparing(pod') \/ ~pod.fin \/ May("regret")
        /\ ClaimSetState /\ ha' # ha /\ claim = "Working" => pod.life = "Normal" \/ May("late")
    BY <1>0, OthersPrepare
  <1>4. Tended' => Tended
    BY <1>2 DEF Tended
  <1>5. Due' = Due /\ JudgedSafe' = JudgedSafe
    BY <1>2, <1>3 DEF Due, JudgedSafe
  <1>6. Firm'
    BY <1>0, <1>2, <1>3 DEF Firm, May
  <1>7. InOrder' /\ Quiet'
    BY <1>0, <1>2, <1>3, <1>5 DEF InOrder, Quiet, Stands
  <1>8. Announced'
    <2>1. known' # ha' => lag' < MinDelay
      BY <1>0, <1>1, <1>2 DEF Announced, Claims
    <2>2. ASSUME pod.fin, pod.start # NoStamp, ha = "Draining"
          PROVE  ha' = "Draining" /\ lag' = lag
      <3>1. claim # "none" => May("pooling") /\ Preparing(pod) /\ ~May("late")
        BY <1>0, <2>2 DEF Unpooled, Firm
      <3>2. claim = "Working" => ha' = ha
        BY <1>2, <1>3, <3>1 DEF Preparing
      <3> QED BY <1>1, <2>2, <3>2 DEF Claims
    <2> QED BY <1>0, <1>2, <1>3, <1>4, <2>1, <2>2 DEF Announced
  <1> QED BY <1>6, <1>7, <1>8

LEMMA ReleaseInductive ==
  ASSUME MinDelay > 0, ReleaseInv, Next, UNCHANGED may
  PROVE  ReleaseInv'
  <1>0. EvidenceInv /\ TypeOK /\ Unpooled /\ w \in Worker
    BY DEF ReleaseInv, EvidenceInv, TypeOK
  <1>1. EvidenceInv'
    BY <1>0, EvidenceInductive
  <1>2. Undisturbed'
    BY DEF ReleaseInv, Undisturbed, May
  <1>3. Unpooled'
    BY <1>0, UnpooledKept
  <1>4. w'.pc \in {"start", "drain", "lock"} \/ w'.why = "drained" => May("drain")
    <2>1. CASE observe \/ Cluster \/ Others
      <3>1. w'.why = w.why /\ (w'.pc = w.pc \/ w'.pc \in {"stats", "delstore"})
        BY <1>0, <2>1, OthersStep
           DEF observe, Cluster, Register, Propagate, Tick, Arrive, Leave, LocksLeave, ContainerDown,
               ContainerUp, Worker
      <3> QED BY <3>1 DEF ReleaseInv
    <2>2. CASE Step \/ Abort
      <3>1. Drains
        BY <1>0, <2>2, StepProgress DEF Progress
      <3> QED BY <3>1 DEF Drains, ReleaseInv
    <2> QED BY <2>1, <2>2 DEF Next
  <1>5. Watched => (Firm /\ Announced /\ InOrder /\ Quiet)'
    BY StepRelease, ObserveRelease, ClusterRelease, OthersRelease DEF Next
  <1>6. Watched' = Watched /\ May("drain")' = May("drain")
    BY DEF Watched, May
  <1> QED BY <1>1, <1>2, <1>3, <1>4, <1>5, <1>6 DEF ReleaseInv

(* NoLoadAtRelease: completeDraining after a successful drain gives the CN up
   for being stopped only once it has no workload left.  Each hypothesis is
   needed: TLC finds a CN that is stopped under load where time passes within a
   reconciliation, where a claim may set the CN to Working in a drain (late, or
   after Kruise took the pod back), and where a failed patch of the counts
   meets one that brings those of an earlier round back. *)
THEOREM ReleasedPodsAreEmpty ==
  ASSUME MinDelay > 0,
         \A sc \in Scenarios : "patch" \in sc => sc \cap {"cordon", "slow", "resend"} = {},
         \A sc \in Scenarios : "drain" \in sc => "slow" \notin sc,
         \A sc \in Scenarios : {"drain", "pooling"} \subseteq sc => sc \cap {"late", "regret"} = {}
  PROVE  Spec => NoLoadAtRelease
  <1>1. Init => ReleaseInv
    <2> SUFFICES ASSUME Init PROVE ReleaseInv
      OBVIOUS
    <2>1. EvidenceInv
      BY EvidenceInit
    <2>2. Undisturbed
      BY DEF Init, Undisturbed, May
    <2>3. /\ w = Resting /\ claim = "none" /\ load = {} /\ known = ha
          /\ pod = NewPod \/ pod = [NewPod EXCEPT !.phase = "Draining"]
      BY DEF Init, Started
    <2>4. /\ w.pc = "rest" /\ w.why = "none" /\ pod.at = NoStamp /\ pod.start = NoStamp /\ pod.phase # "Bound"
      BY <2>3 DEF Resting, NewPod
    <2>5. Unpooled
      BY <2>3, <2>4 DEF Unpooled
    <2>6. Firm /\ Announced /\ InOrder /\ Quiet
      BY <2>3, <2>4 DEF Firm, Announced, InOrder, Quiet, JudgedSafe
    <2> QED BY <2>1, <2>2, <2>4, <2>5, <2>6 DEF ReleaseInv
  <1>2. ReleaseInv /\ [Next /\ UNCHANGED may]_<<vars, may>> => ReleaseInv'
    <2>1. ReleaseInv /\ Next /\ UNCHANGED may => ReleaseInv'
      BY ReleaseInductive
    <2>2. ReleaseInv /\ UNCHANGED <<vars, may>> => ReleaseInv'
      <3> SUFFICES ASSUME ReleaseInv, UNCHANGED <<vars, may>> PROVE ReleaseInv'
        OBVIOUS
      <3>1. EvidenceInv'
        BY EvidenceStutters DEF ReleaseInv
      <3>2. UNCHANGED <<pod, up, load, ha, known, lag, claim, w, may>>
        BY DEF vars
      <3> QED BY <3>1, <3>2 DEF ReleaseInv, Undisturbed, Unpooled, Watched, Firm, Announced, Tended, InOrder,
                                Quiet, Stands, Due, JudgedSafe, IsSafeToReclaim, Preparing, May
    <2> QED BY <2>1, <2>2
  <1>3. ReleaseInv => (Drained /\ ~May("hakeeper") /\ ~May("abort") => load = {})
    BY DEF ReleaseInv, Drained, Watched, Quiet, JudgedSafe
  <1>4. ReleaseInv => [Drained /\ ~May("hakeeper") /\ ~May("abort") => load = {}]_vars
    BY <1>3
  <1> QED BY <1>1, <1>2, <1>4, PTL DEF Spec, NoLoadAtRelease
=============================================================================
