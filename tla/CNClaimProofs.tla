--------------------------- MODULE CNClaimProofs ---------------------------
(***************************************************************************)
(* Proofs about CNClaim, for every set of claims, pods and pools and every *)
(* choice of disruptions.  First types, what a step may change, and, when  *)
(* the cache is never behind, that Finalize leaves nothing and takes       *)
(* nothing from others.  Then the binding protocol, for every lag of the   *)
(* cache, as long as users migrate no claim and the cnstore controller has *)
(* seen its own last patch when it comes back to a pod: BindingInv is      *)
(* inductive, a pod is never given to two claims nor taken from one that   *)
(* uses it, and its CN works; with a cache that is never behind, a claim   *)
(* has one pod at most.                                                    *)
(***************************************************************************)
EXTENDS CNClaim, ObjectStoreProofs, FiniteSetTheorems

-----------------------------------------------------------------------------
(* Reading and writing *)

\* What the worker and the others read is an object.
LEMMA Reads ==
  ASSUME TypeOK
  PROVE  /\ \A p \in Pods : /\ pods[p] \in Logs(PodObj)
                            /\ Pod(p) \in PodObj /\ SeenPod(p) \in PodObj
         /\ \A c \in Claims : /\ claims[c] \in Logs(ClaimObj)
                              /\ Claim(c) \in ClaimObj /\ SeenClaim(c) \in ClaimObj
  <1>1. \A p \in Pods : pods[p] \in Logs(PodObj)
    BY DEF TypeOK
  <1>2. \A c \in Claims : claims[c] \in Logs(ClaimObj)
    BY DEF TypeOK
  <1>3. \A p \in Pods : Latest(pods[p]) \in PodObj /\ Cached(pods[p]) \in PodObj
    BY <1>1, LogEnds
  <1>4. \A c \in Claims : Latest(claims[c]) \in ClaimObj /\ Cached(claims[c]) \in ClaimObj
    BY <1>2, LogEnds
  <1> QED BY <1>1, <1>2, <1>3, <1>4 DEF Pod, SeenPod, Claim, SeenClaim

\* A write changes the latest version of one pod and of no other.
LEMMA PodWritten ==
  ASSUME TypeOK, NEW p \in Pods, NEW v \in PodObj, WritePod(p, v)
  PROVE  /\ pods' \in [Pods -> Logs(PodObj)]
         /\ Pod(p)' = v
         /\ \A q \in Pods \ {p} : pods'[q] = pods[q] /\ Pod(q)' = Pod(q)
  <1>1. pods \in [Pods -> Logs(PodObj)]
    BY DEF TypeOK
  <1>2. Write(pods[p], v) \in Logs(PodObj) /\ Latest(Write(pods[p], v)) = v
    BY <1>1, WriteLog
  <1>3. pods' = [pods EXCEPT ![p] = Write(pods[p], v)]
    BY DEF WritePod
  <1> QED BY <1>1, <1>2, <1>3 DEF Pod

LEMMA ClaimWritten ==
  ASSUME TypeOK, NEW c \in Claims, NEW v \in ClaimObj, WriteClaim(c, v)
  PROVE  /\ claims' \in [Claims -> Logs(ClaimObj)]
         /\ Claim(c)' = v
         /\ \A d \in Claims \ {c} : claims'[d] = claims[d] /\ Claim(d)' = Claim(d)
  <1>1. claims \in [Claims -> Logs(ClaimObj)]
    BY DEF TypeOK
  <1>2. Write(claims[c], v) \in Logs(ClaimObj) /\ Latest(Write(claims[c], v)) = v
    BY <1>1, WriteLog
  <1>3. claims' = [claims EXCEPT ![c] = Write(claims[c], v)]
    BY DEF WriteClaim
  <1> QED BY <1>1, <1>2, <1>3 DEF Claim

\* The objects the code writes are objects.
LEMMA Objects ==
  /\ Unborn \in ClaimObj /\ NewClaim \in ClaimObj
  /\ Resting \in Worker /\ Resting.pc = "rest"
  /\ Binding \in Worker
  BY DEF Unborn, NewClaim, ClaimObj, ClaimPhases, Resting, Binding, Worker, Steps

-----------------------------------------------------------------------------
(* Type correctness *)

\* Observe starts a reconciliation in a state of the right type.
LEMMA BeginType ==
  ASSUME TypeOK, NEW c \in Claims, NEW rec \in Worker, NEW phase \in ClaimPhases,
         Begin(c, rec, phase),
         rec.pc \in {"working", "patch", "drain", "release"} => rec.pod \in Pods,
         rec.pc # "migrate"
  PROVE  TypeOK'
  <1>1. [SeenClaim(c) EXCEPT !.phase = phase] \in ClaimObj
    BY Reads DEF ClaimObj
  <1>2. UpToDate(claims[c]) \in BOOLEAN
    BY DEF UpToDate
  <1>3. /\ w' \in Worker /\ w'.c = c /\ w'.pc = rec.pc /\ w'.pod = rec.pod
    BY <1>1, <1>2 DEF Begin, Worker
  <1> QED BY <1>3 DEF Begin, TypeOK

\* Observe, all its cases.
LEMMA ObserveType ==
  ASSUME TypeOK, NEW c \in Claims, Observe(c)
  PROVE  TypeOK'
  <1> USE Objects
  <1>0. SeenClaim(c) \in ClaimObj /\ SeenClaim(c).phase \in ClaimPhases
    BY Reads DEF ClaimObj
  <1>1. CASE Bind(c)
    <2> DEFINE idle == {p \in Pods : Candidate(c, p)}
               rec == [Binding EXCEPT !.pc   = IF idle = {} THEN "nominate" ELSE "own",
                                      !.todo = idle,
                                      !.cur  = {p \in idle : UpToDate(pods[p])}]
    <2>1. idle \in SUBSET Pods /\ {p \in idle : UpToDate(pods[p])} \in SUBSET Pods
      OBVIOUS
    <2>2. rec \in Worker /\ rec.pc \in {"nominate", "own"}
      BY <2>1 DEF Worker, Steps
    <2>3. Begin(c, rec, "Pending")
      BY <1>1 DEF Bind
    <2> QED BY <2>2, <2>3, BeginType DEF ClaimPhases
  <1>2. CASE \E p \in Pods : BindOrphan(c, p)
    <2>1. PICK p \in Pods : BindOrphan(c, p)
      BY <1>2
    <2>2. syncBindPod(Binding, p, TRUE) \in Worker
      BY DEF syncBindPod, Worker, Steps
    <2>3. syncBindPod(Binding, p, TRUE).pc = "working"
          /\ syncBindPod(Binding, p, TRUE).pod = p
      BY DEF syncBindPod, Worker
    <2> QED BY <2>1, <2>2, <2>3, BeginType DEF BindOrphan, ClaimPhases
  <1>3. CASE Sync(c)
    <2> DEFINE q == SeenClaim(c).podName
               rec == [Resting EXCEPT !.pc = "own", !.todo = {q},
                                      !.cur = {r \in {q} : UpToDate(pods[r])}]
    <2>1. q \in Pods
      BY <1>0, <1>3 DEF Sync, MaySync, ClaimObj
    <2>2. rec \in Worker /\ rec.pc = "own"
      BY <2>1 DEF Worker, Steps
    <2> QED BY <1>0, <1>3, <2>2, BeginType DEF Sync
  <1>4. CASE SyncGone(c)
    <2>1. [Resting EXCEPT !.pc = "clear"] \in Worker
          /\ [Resting EXCEPT !.pc = "clear"].pc = "clear"
      BY DEF Worker, Steps
    <2> QED BY <1>0, <1>4, <2>1, BeginType DEF SyncGone
  <1>5. CASE SyncDead(c)
    <2>1. [Resting EXCEPT !.pc = "status"] \in Worker
          /\ [Resting EXCEPT !.pc = "status"].pc = "status"
      BY DEF Worker, Steps
    <2> QED BY <1>5, <2>1, BeginType DEF SyncDead, ClaimPhases
  <1>6. CASE Finalize(c)
    <2> DEFINE owned == listOwned(c)
               holders(p) == buildPodClaimIndex(p, c)
               heir == [p \in Pods |-> IF p \in owned /\ holders(p) # {}
                                       THEN CHOOSE d \in holders(p) : TRUE
                                       ELSE None]
               stuck == {p \in owned : \/ Cardinality(holders(p)) > 1
                                       \/ \E d \in holders(p) : ~IsReady(SeenClaim(d))}
               rec == [Resting EXCEPT !.pc = IF owned = {} THEN "unfinalize" ELSE "owned",
                                      !.todo = owned, !.stuck = stuck, !.heir = heir]
    <2>1. owned \in SUBSET Pods /\ stuck \in SUBSET Pods
      BY DEF listOwned
    <2>2. heir \in [Pods -> Claims \cup {None}]
      BY DEF buildPodClaimIndex
    <2> HIDE DEF owned, stuck, heir
    <2>3. rec \in Worker /\ rec.pc \in {"unfinalize", "owned"}
      BY <2>1, <2>2 DEF Worker, Steps
    <2>4. Begin(c, rec, SeenClaim(c).phase)
      BY <1>6 DEF Finalize, owned, stuck, heir
    <2> QED BY <1>0, <2>3, <2>4, BeginType
  <1> QED BY <1>1, <1>2, <1>3, <1>4, <1>5, <1>6 DEF Observe

\* Giving up a reconciliation leaves a worker of the right type.
LEMMA ReturnType ==
  ASSUME TypeOK, Return,
         pods' \in [Pods -> Logs(PodObj)], claims' \in [Claims -> Logs(ClaimObj)],
         ha' \in [Pods -> {"Working", "Draining"}],
         plan' \in [Pods -> {"none", "Idle", "Terminating"}]
  PROVE  TypeOK'
  BY Objects DEF Return, TypeOK

\* NextOwned, the end of one round of Finalize's loop.
LEMMA NextOwnedType ==
  ASSUME TypeOK, NEW p \in Pods, NextOwned(p), w.pc # "rest"
  PROVE  /\ w' \in Worker
         /\ w'.pc \in {"rest", "owned"}
         /\ w'.pc # "rest" => w'.c \in Claims
  BY Objects DEF NextOwned, TypeOK, Worker, Steps

\* One step of the reconciliation under way: Bind and Sync.
LEMMA BindStepType ==
  ASSUME TypeOK,
         \/ \E p \in Pods : ensureOwnership(p) \/ OwnershipConflict(p)
         \/ \E pool \in Pools : Nominate(pool)
         \/ SetWorking \/ PatchClaim \/ UpdateStatus \/ ClearLost \/ SyncStatus
  PROVE  TypeOK'
  <1> USE Objects
  <1>1. w \in Worker /\ w.obj \in ClaimObj
    BY DEF TypeOK, Worker
  <1>2. ASSUME NEW p \in Pods, ensureOwnership(p) PROVE TypeOK'
    <2>1. Pod(p) \in PodObj /\ w.c \in Claims
      BY <1>2, Reads DEF ensureOwnership, TypeOK
    <2>2. OwnedBy(Pod(p), w.c) \in PodObj
      BY <2>1 DEF OwnedBy, PodObj, PodPhases
    <2>3. pods' \in [Pods -> Logs(PodObj)]
      BY <1>2, <2>2, PodWritten DEF ensureOwnership
    <2>4. /\ w' \in Worker /\ w'.pc \in {"working", "rest"}
          /\ w'.pc = "working" => w'.c = w.c /\ w'.pod = p
      BY <1>1, <1>2 DEF ensureOwnership, syncBindPod, Worker, Steps
    <2> QED BY <1>2, <2>1, <2>3, <2>4 DEF ensureOwnership, TypeOK
  <1>3. ASSUME NEW p \in Pods, OwnershipConflict(p) PROVE TypeOK'
    <2>1. /\ w' \in Worker /\ w'.pc \in {"nominate", "own", "rest"}
          /\ w'.pc # "rest" => w'.c = w.c
      BY <1>1, <1>3 DEF OwnershipConflict, Worker, Steps
    <2> QED BY <1>3, <2>1 DEF OwnershipConflict, TypeOK
  <1>4. ASSUME NEW pool \in Pools, Nominate(pool) PROVE TypeOK'
    <2>1. w.c \in Claims /\ Claim(w.c) \in ClaimObj
      BY <1>4, Reads DEF Nominate, TypeOK
    <2>2. [Claim(w.c) EXCEPT !.pool = pool] \in ClaimObj
      BY <2>1 DEF ClaimObj
    <2>3. CASE w.obj.pool # None
      <3>1. w' \in Worker /\ w'.pc = "status" /\ w'.c = w.c
        BY <1>1, <1>4, <2>3 DEF Nominate, Goto, Worker, Steps
      <3> QED BY <1>4, <2>1, <2>3, <3>1 DEF Nominate, TypeOK
    <2>4. CASE w.obj.pool = None
      <3>1. claims' \in [Claims -> Logs(ClaimObj)]
        BY <1>4, <2>1, <2>2, <2>4, ClaimWritten DEF Nominate, TypeOK
      <3> QED BY <1>4, <2>4, <3>1, ReturnType DEF Nominate, TypeOK
    <2> QED BY <2>3, <2>4
  <1>5. ASSUME SetWorking PROVE TypeOK'
    <2>1. /\ w' \in Worker /\ w'.pc = "patch" /\ w'.c = w.c /\ w'.pod = w.pod
      BY <1>1, <1>5 DEF SetWorking, Goto, Worker, Steps
    <2>2. ha' \in [Pods -> {"Working", "Draining"}]
      BY <1>5 DEF SetWorking, TypeOK
    <2> QED BY <1>5, <2>1, <2>2 DEF SetWorking, TypeOK
  <1>6. ASSUME PatchClaim PROVE TypeOK'
    <2>1. w.c \in Claims /\ Claim(w.c) \in ClaimObj /\ w.pod \in Pods /\ PoolOf[w.pod] \in Pools
      BY <1>6, Reads, ClaimAssumption DEF PatchClaim, TypeOK
    <2>2. Bound(Claim(w.c)) \in ClaimObj
      BY <2>1 DEF Bound, ClaimObj
    <2>3. CASE ~Present(Claim(w.c))
      BY <1>6, <2>3, ReturnType DEF PatchClaim, TypeOK
    <2>4. CASE Present(Claim(w.c))
      <3>1. claims' \in [Claims -> Logs(ClaimObj)]
        BY <1>6, <2>1, <2>2, <2>4, ClaimWritten DEF PatchClaim
      <3>2. PICK new \in ClaimObj :
              w' = [w EXCEPT !.pc = "bound", !.fresh = TRUE, !.obj = new]
        BY <1>6, <2>2, <2>4 DEF PatchClaim
      <3>3. w' \in Worker /\ w'.pc = "bound" /\ w'.c = w.c
        BY <1>1, <3>2 DEF Worker, Steps
      <3> QED BY <1>6, <2>1, <3>1, <3>3 DEF PatchClaim, TypeOK
    <2> QED BY <2>3, <2>4
  <1>7. ASSUME UpdateStatus PROVE TypeOK'
    <2> DEFINE bound == [w.obj EXCEPT !.phase = IF @ \in {"New", "Pending"}
                                                THEN "Bound" ELSE @]
    <2>1. w.c \in Claims /\ bound \in ClaimObj
      BY <1>1, <1>7 DEF UpdateStatus, TypeOK, ClaimObj, ClaimPhases
    <2> HIDE DEF bound
    <2>2. CASE ~w.fresh
      BY <1>7, <2>2, ReturnType DEF UpdateStatus, TypeOK
    <2>3. CASE w.fresh
      <3>1. WriteClaim(w.c, bound)
        BY <1>7, <2>3 DEF UpdateStatus, bound
      <3>2. claims' \in [Claims -> Logs(ClaimObj)]
        BY <2>1, <3>1, ClaimWritten
      <3>3. w' = IF ~w.bind /\ bound.source # None
                 THEN [w EXCEPT !.pc = "migrate", !.obj = bound, !.pod = None]
                 ELSE Resting
        BY <1>7, <2>3 DEF UpdateStatus, bound
      <3>4. /\ w' \in Worker /\ w'.pc \in {"migrate", "rest"}
            /\ w'.pc = "migrate" => w'.c = w.c /\ w'.obj.source \in Pods
        BY <1>1, <2>1, <3>3 DEF Worker, Steps, ClaimObj
      <3> QED BY <1>7, <2>1, <3>2, <3>4 DEF UpdateStatus, TypeOK
    <2> QED BY <2>2, <2>3
  <1>8. ASSUME ClearLost PROVE TypeOK'
    <2> DEFINE cleared == [Claim(w.c) EXCEPT !.podName = None]
               lost == [cleared EXCEPT !.phase = "Lost"]
    <2>1. w.c \in Claims /\ cleared \in ClaimObj /\ lost \in ClaimObj
      BY <1>8, Reads DEF ClearLost, TypeOK, ClaimObj, ClaimPhases
    <2> HIDE DEF cleared, lost
    <2>2. CASE ~Present(Claim(w.c))
      BY <1>8, <2>2, ReturnType DEF ClearLost, TypeOK
    <2>3. CASE Present(Claim(w.c))
      <3>1. WriteClaim(w.c, cleared)
            /\ w' = [w EXCEPT !.pc = "status", !.fresh = TRUE, !.obj = lost]
        BY <1>8, <2>3 DEF ClearLost, cleared, lost
      <3>2. w' \in Worker /\ w'.pc = "status" /\ w'.c = w.c
        BY <1>1, <2>1, <3>1 DEF Worker, Steps
      <3> QED BY <1>8, <2>1, <3>1, <3>2, ClaimWritten DEF ClearLost, TypeOK
    <2> QED BY <2>2, <2>3
  <1>9. ASSUME SyncStatus PROVE TypeOK'
    <2>1. w.c \in Claims /\ [Claim(w.c) EXCEPT !.phase = w.obj.phase] \in ClaimObj
      BY <1>1, <1>9, Reads DEF SyncStatus, TypeOK, ClaimObj
    <2>2. claims' \in [Claims -> Logs(ClaimObj)]
      BY <1>9, <2>1, ClaimWritten DEF SyncStatus, TypeOK
    <2> QED BY <1>9, <2>2, ReturnType DEF SyncStatus, TypeOK
  <1> QED BY <1>2, <1>3, <1>4, <1>5, <1>6, <1>7, <1>8, <1>9

\* One step of the reconciliation under way: migration and Finalize.
LEMMA ReclaimStepType ==
  ASSUME TypeOK,
         \/ \E p \in Pods : FinalizeStuck(p) \/ transferPodOwnership(p) \/ FinalizeReclaim(p)
         \/ MigrateObserve \/ MigrateWait \/ completeMigration
         \/ SetDraining \/ reclaimCN \/ RemoveFinalizer
  PROVE  TypeOK'
  <1> USE Objects
  <1>1. w \in Worker /\ w.obj \in ClaimObj
    BY DEF TypeOK, Worker
  <1>2. ASSUME NEW p \in Pods, FinalizeStuck(p) PROVE TypeOK'
    BY <1>2, ReturnType DEF FinalizeStuck, TypeOK
  <1>3. ASSUME NEW p \in Pods, transferPodOwnership(p) PROVE TypeOK'
    <2>1. w.heir[p] \in Claims
      BY <1>1, <1>3 DEF transferPodOwnership, Worker
    <2>2. [Pod(p) EXCEPT !.by = w.heir[p]] \in PodObj
      BY <2>1, Reads DEF PodObj
    <2>3. CASE Exists(p)
      BY <1>3, <2>2, <2>3, PodWritten, NextOwnedType DEF transferPodOwnership, TypeOK
    <2>4. CASE ~Exists(p)
      BY <1>3, <2>4, ReturnType DEF transferPodOwnership, TypeOK
    <2> QED BY <2>3, <2>4
  <1>4. ASSUME NEW p \in Pods, FinalizeReclaim(p) PROVE TypeOK'
    <2>1. w' \in Worker /\ w'.pc = "drain" /\ w'.c = w.c /\ w'.pod = p
      BY <1>1, <1>4 DEF FinalizeReclaim, Worker, Steps
    <2> QED BY <1>4, <2>1 DEF FinalizeReclaim, TypeOK
  <1>5. ASSUME MigrateObserve PROVE TypeOK'
    <2>1. w.obj.source \in Pods /\ SeenPod(w.obj.source).phase \in PodPhases
      BY <1>5, Reads DEF MigrateObserve, TypeOK, PodObj
    <2>2. \/ w' = [w EXCEPT !.pc = "complete"]
          \/ w' = [w EXCEPT !.pc = "drain", !.pod = w.obj.source]
          \/ w' = Resting
      BY <1>5, <2>1 DEF MigrateObserve, PodPhases
    <2>3. /\ w' \in Worker /\ w'.pc \in {"complete", "drain", "rest"}
          /\ w'.pc # "rest" => w'.c = w.c
          /\ w'.pc = "drain" => w'.pod \in Pods
      BY <1>1, <2>1, <2>2 DEF Worker, Steps
    <2> QED BY <1>5, <2>3 DEF MigrateObserve, TypeOK
  <1>6. ASSUME MigrateWait PROVE TypeOK'
    BY <1>6, ReturnType DEF MigrateWait, TypeOK
  <1>7. ASSUME completeMigration PROVE TypeOK'
    <2>1. w.c \in Claims /\ [Claim(w.c) EXCEPT !.source = None] \in ClaimObj
      BY <1>7, Reads DEF completeMigration, TypeOK, ClaimObj
    <2>2. claims' \in [Claims -> Logs(ClaimObj)]
      BY <1>7, <2>1, ClaimWritten DEF completeMigration, TypeOK
    <2> QED BY <1>7, <2>2, ReturnType DEF completeMigration, TypeOK
  <1>8. ASSUME SetDraining PROVE TypeOK'
    <2>1. w' \in Worker /\ w'.pc = "release" /\ w'.c = w.c /\ w'.pod = w.pod
      BY <1>1, <1>8 DEF SetDraining, Goto, Worker, Steps
    <2>2. ha' \in [Pods -> {"Working", "Draining"}]
      BY <1>8 DEF SetDraining, TypeOK
    <2> QED BY <1>8, <2>1, <2>2 DEF SetDraining, TypeOK
  <1>9. ASSUME reclaimCN PROVE TypeOK'
    <2>1. w.pod \in Pods /\ [Pod(w.pod) EXCEPT !.phase = "Draining", !.by = None] \in PodObj
      BY <1>9, Reads DEF reclaimCN, TypeOK, PodObj, PodPhases
    <2>2. pods' \in [Pods -> Logs(PodObj)]
      BY <1>9, <2>1, PodWritten DEF reclaimCN, TypeOK
    <2>3. CASE Return
      BY <1>9, <2>2, <2>3, ReturnType DEF reclaimCN, TypeOK
    <2>4. CASE NextOwned(w.pod)
      BY <1>9, <2>1, <2>2, <2>4, NextOwnedType DEF reclaimCN, TypeOK
    <2> QED BY <1>9, <2>3, <2>4 DEF reclaimCN
  <1>10. ASSUME RemoveFinalizer PROVE TypeOK'
    <2>1. w.c \in Claims /\ [Unborn EXCEPT !.st = "gone"] \in ClaimObj
      BY <1>10 DEF RemoveFinalizer, TypeOK, ClaimObj
    <2>2. claims' \in [Claims -> Logs(ClaimObj)]
      BY <1>10, <2>1, ClaimWritten DEF RemoveFinalizer, TypeOK
    <2> QED BY <1>10, <2>2, ReturnType DEF RemoveFinalizer, TypeOK
  <1> QED BY <1>2, <1>3, <1>4, <1>5, <1>6, <1>7, <1>8, <1>9, <1>10

\* A write of somebody else to a pod, or to a claim, which makes a copy of the
\* worker's stale.
LEMMA OthersWriteType ==
  ASSUME TypeOK
  PROVE  /\ \A p \in Pods : \A v \in PodObj :
              /\ WritePod(p, v) /\ PodTouched(p)
              /\ UNCHANGED <<claims, ha>>
              /\ plan' \in [Pods -> {"none", "Idle", "Terminating"}]
              => TypeOK'
         /\ \A c \in Claims : \A v \in ClaimObj :
              /\ WriteClaim(c, v) /\ ClaimTouched(c)
              /\ UNCHANGED <<pods, ha, plan>>
              => TypeOK'
  <1>1. ASSUME NEW p \in Pods, NEW v \in PodObj, WritePod(p, v), PodTouched(p),
               UNCHANGED <<claims, ha>>,
               plan' \in [Pods -> {"none", "Idle", "Terminating"}]
        PROVE  TypeOK'
    <2>1. /\ w' \in Worker /\ w'.pc = w.pc /\ w'.c = w.c /\ w'.pod = w.pod
          /\ w'.obj = w.obj
      BY <1>1 DEF PodTouched, TypeOK, Worker
    <2> QED BY <1>1, <2>1, PodWritten DEF TypeOK
  <1>2. ASSUME NEW c \in Claims, NEW v \in ClaimObj, WriteClaim(c, v), ClaimTouched(c),
               UNCHANGED <<pods, ha, plan>>
        PROVE  TypeOK'
    <2>1. /\ w' \in Worker /\ w'.pc = w.pc /\ w'.c = w.c /\ w'.pod = w.pod
          /\ w'.obj = w.obj
      BY <1>2 DEF ClaimTouched, TypeOK, Worker
    <2> QED BY <1>2, <2>1, ClaimWritten DEF TypeOK
  <1> QED BY <1>1, <1>2

\* The other controllers, Kruise, the users, the watches and failures.
LEMMA EnvironmentType ==
  ASSUME TypeOK, Environment
  PROVE  TypeOK'
  <1> USE Objects
  <1>1. ASSUME NEW p \in Pods, StorePatch(p) PROVE TypeOK'
    <2>1. plan' \in [Pods -> {"none", "Idle", "Terminating"}]
      BY <1>1 DEF StorePatch, TypeOK
    <2>2. [Pod(p) EXCEPT !.phase = plan[p]] \in PodObj
      BY <1>1, Reads DEF StorePatch, TypeOK, PodObj, PodPhases
    <2>3. CASE Exists(p)
      BY <1>1, <2>1, <2>2, <2>3, OthersWriteType DEF StorePatch
    <2>4. CASE ~Exists(p)
      BY <1>1, <2>1, <2>4 DEF StorePatch, TypeOK
    <2> QED BY <2>3, <2>4
  <1>2. ASSUME NEW p \in Pods, NEW phase \in {"Idle", "Terminating"}, StoreDecide(p, phase)
        PROVE  TypeOK'
    BY <1>2 DEF StoreDecide, TypeOK
  <1>3. ASSUME NEW p \in Pods,
               PoolScaleIn(p) \/ LabelOutdated(p) \/ PodDeleted(p) \/ PodDies(p)
               \/ PodLifecycle(p)
        PROVE  TypeOK'
    <2>1. PICK v \in PodObj : WritePod(p, v)
      <3>1. Pod(p) \in PodObj
        BY Reads
      <3> QED BY <1>3, <3>1 DEF PoolScaleIn, LabelOutdated, PodDeleted, PodDies,
                                PodLifecycle, PodObj, PodPhases
    <2>2. PodTouched(p) /\ UNCHANGED <<claims, ha, plan>>
      BY <1>3 DEF PoolScaleIn, LabelOutdated, PodDeleted, PodDies, PodLifecycle
    <2> QED BY <2>1, <2>2, OthersWriteType DEF TypeOK
  <1>4. ASSUME NEW p \in Pods, reclaimLegacyCNClaim(p) PROVE TypeOK'
    <2> DEFINE c == SeenPod(p).by
               v == [Claim(c) EXCEPT !.phase = "Outdated"]
    <2>1. c \in Claims
      BY <1>4, Reads DEF reclaimLegacyCNClaim, PodObj
    <2>2. WriteClaim(c, v) /\ ClaimTouched(c) /\ UNCHANGED <<pods, ha, plan>>
      BY <1>4 DEF reclaimLegacyCNClaim
    <2>3. v \in ClaimObj
      BY <2>1, Reads DEF ClaimObj, ClaimPhases
    <2> HIDE DEF c, v
    <2> QED BY <2>1, <2>2, <2>3, OthersWriteType
  <1>5. ASSUME NEW p \in Pods, OnPreparingUpdate(p) PROVE TypeOK'
    BY <1>5 DEF OnPreparingUpdate, TypeOK
  <1>6. ASSUME NEW p \in Pods, DeliverPod(p) PROVE TypeOK'
    <2>1. Tail(pods[p]) \in Logs(PodObj)
      BY <1>6, Reads, DeliverLog DEF DeliverPod
    <2> QED BY <1>6, <2>1 DEF DeliverPod, TypeOK
  <1>7. ASSUME NEW c \in Claims, DeliverClaim(c) PROVE TypeOK'
    <2>1. Tail(claims[c]) \in Logs(ClaimObj)
      BY <1>7, Reads, DeliverLog DEF DeliverClaim
    <2> QED BY <1>7, <2>1 DEF DeliverClaim, TypeOK
  <1>8. ASSUME NEW c \in Claims,
               CreateClaim(c) \/ DeleteClaim(c) \/ \E p \in Pods : MigrateClaim(c, p)
        PROVE  TypeOK'
    <2>1. PICK v \in ClaimObj : WriteClaim(c, v)
      <3>1. Claim(c) \in ClaimObj
        BY Reads
      <3> QED BY <1>8, <3>1 DEF CreateClaim, DeleteClaim, MigrateClaim, ClaimObj
    <2>2. ClaimTouched(c) /\ UNCHANGED <<pods, ha, plan>>
      BY <1>8 DEF CreateClaim, DeleteClaim, MigrateClaim
    <2> QED BY <2>1, <2>2, OthersWriteType
  <1>9. ASSUME Abort PROVE TypeOK'
    BY <1>9, ReturnType DEF Abort, TypeOK
  <1>10. ASSUME Restart PROVE TypeOK'
    <2>1. \A p \in Pods : <<Pod(p)>> \in Logs(PodObj)
      BY Reads, FreshLog
    <2>2. \A c \in Claims : <<Claim(c)>> \in Logs(ClaimObj)
      BY Reads, FreshLog
    <2> QED BY <1>10, <2>1, <2>2 DEF Restart, TypeOK
  <1> QED BY <1>1, <1>2, <1>3, <1>4, <1>5, <1>6, <1>7, <1>8, <1>9, <1>10 DEF Environment

\* The initial state is of the right type.
LEMMA InitType ==
  ASSUME Init
  PROVE  TypeOK
  <1>1. [phase |-> "Unknown", by |-> None, normal |-> TRUE,
         dead |-> FALSE, old |-> FALSE] \in PodObj
    BY DEF PodObj, PodPhases
  <1> QED BY <1>1, Objects, FreshLog DEF Init, TypeOK

\* Every step keeps the types.
LEMMA NextType ==
  ASSUME TypeOK, [Next]_vars
  PROVE  TypeOK'
  <1>1. CASE \E c \in Claims : Observe(c)
    BY <1>1, ObserveType
  <1>2. CASE Step
    BY <1>2, BindStepType, ReclaimStepType DEF Step
  <1>3. CASE Environment
    BY <1>3, EnvironmentType
  <1>4. CASE UNCHANGED vars
    BY <1>4 DEF vars, TypeOK
  <1> QED BY <1>1, <1>2, <1>3, <1>4 DEF Next

\* Every state the CNClaim controller and its environment reach is of the
\* right type, and a step that works on a claim or a pod has one.
THEOREM TypeCorrect == Spec => []TypeOK
  <1>1. Init => TypeOK
    BY InitType
  <1>2. TypeOK /\ [Next]_vars => TypeOK'
    BY NextType
  <1> QED BY <1>1, <1>2, PTL DEF Spec

-----------------------------------------------------------------------------
(* What a step changes *)

\* What may happen to pod p in one step: a claim takes it, a claim inherits
\* it, it is reclaimed, or somebody else writes it and leaves it with its
\* claim.
PodEffect(p) ==
  \/ Pod(p)' = Pod(p)
  \/ ensureOwnership(p) /\ Pod(p)'.phase = "Bound" /\ Pod(p)'.by = w.c
  \/ /\ transferPodOwnership(p) /\ Exists(p)
     /\ Pod(p)'.phase = Pod(p).phase /\ Pod(p)'.by = w.heir[p]
  \/ /\ reclaimCN /\ w.pod = p /\ Exists(p)
     /\ Pod(p)'.phase = "Draining" /\ Pod(p)'.by = None
  \/ /\ Environment /\ Exists(p)
     /\ Pod(p)'.phase \in {Pod(p).phase, "Idle", "Terminating", "Gone"}
     /\ Pod(p)'.by = Pod(p).by

\* Only an in-place update takes a pod out of the lifecycle state Normal.
Steady(p) == "inplace" \in Disruptions \/ Pod(p)'.normal = Pod(p).normal

LEMMA PodChanges ==
  ASSUME TypeOK, [Next]_vars, NEW p \in Pods
  PROVE  PodEffect(p) /\ Steady(p)
  <1> USE DEF PodEffect, Steady
  <1>0. Pod(p) \in PodObj
    BY Reads
  <1>1. CASE UNCHANGED pods
    BY <1>1 DEF Pod
  <1>2. ASSUME NEW q \in Pods, ensureOwnership(q)
        PROVE  PodEffect(p) /\ Steady(p)
    <2>1. Pod(q) \in PodObj /\ w.c \in Claims
      BY <1>2, Reads DEF ensureOwnership, TypeOK
    <2> DEFINE v == OwnedBy(Pod(q), w.c)
    <2>2. v \in PodObj /\ v.phase = "Bound" /\ v.by = w.c /\ v.normal = Pod(q).normal
      BY <2>1 DEF OwnedBy, PodObj, PodPhases
    <2>3. WritePod(q, v)
      BY <1>2 DEF ensureOwnership
    <2> HIDE DEF v
    <2>4. Pod(q)' = v /\ \A r \in Pods \ {q} : Pod(r)' = Pod(r)
      BY <2>2, <2>3, PodWritten
    <2> QED BY <1>2, <2>2, <2>4
  <1>3. ASSUME NEW q \in Pods, transferPodOwnership(q)
        PROVE  PodEffect(p) /\ Steady(p)
    <2>1. CASE ~Exists(q)
      BY <1>1, <1>3, <2>1 DEF transferPodOwnership
    <2>2. CASE Exists(q)
      <3> DEFINE v == [Pod(q) EXCEPT !.by = w.heir[q]]
      <3>1. w.heir[q] \in Claims \cup {None} /\ Pod(q) \in PodObj
        BY Reads DEF TypeOK, Worker
      <3>2. v \in PodObj /\ v.phase = Pod(q).phase /\ v.by = w.heir[q]
            /\ v.normal = Pod(q).normal
        BY <3>1 DEF PodObj
      <3>3. WritePod(q, v)
        BY <1>3, <2>2 DEF transferPodOwnership
      <3> HIDE DEF v
      <3>4. Pod(q)' = v /\ \A r \in Pods \ {q} : Pod(r)' = Pod(r)
        BY <3>2, <3>3, PodWritten
      <3> QED BY <1>3, <2>2, <3>2, <3>4
    <2> QED BY <2>1, <2>2
  <1>4. ASSUME reclaimCN
        PROVE  PodEffect(p) /\ Steady(p)
    <2>1. CASE ~Exists(w.pod)
      BY <1>1, <1>4, <2>1 DEF reclaimCN
    <2>2. CASE Exists(w.pod)
      <3>1. PICK q \in Pods : q = w.pod
        BY <1>4 DEF reclaimCN, TypeOK
      <3> DEFINE v == [Pod(q) EXCEPT !.phase = "Draining", !.by = None]
      <3>2. v \in PodObj /\ v.phase = "Draining" /\ v.by = None /\ v.normal = Pod(q).normal
        BY Reads DEF PodObj, PodPhases
      <3>3. WritePod(q, v)
        BY <1>4, <2>2, <3>1 DEF reclaimCN
      <3> HIDE DEF v
      <3>4. Pod(q)' = v /\ \A r \in Pods \ {q} : Pod(r)' = Pod(r)
        BY <3>2, <3>3, PodWritten
      <3> QED BY <1>4, <2>2, <3>1, <3>2, <3>4
    <2> QED BY <2>1, <2>2
  <1>5. ASSUME NEW q \in Pods,
               StorePatch(q) \/ PoolScaleIn(q) \/ LabelOutdated(q) \/ PodDeleted(q)
               \/ PodDies(q) \/ PodLifecycle(q)
        PROVE  PodEffect(p) /\ Steady(p)
    <2>1. CASE ~Exists(q)
      BY <1>1, <1>5, <2>1 DEF StorePatch, PoolScaleIn, LabelOutdated, PodDeleted, PodDies,
                             PodLifecycle, Exists
    <2>2. CASE Exists(q)
      <3>1. Pod(q) \in PodObj
        BY Reads
      <3>2. plan[q] \in {"none", "Idle", "Terminating"}
        BY DEF TypeOK
      <3>3. PICK v \in PodObj : /\ WritePod(q, v)
                                /\ v.phase \in {Pod(q).phase, "Idle", "Terminating", "Gone"}
                                /\ v.by = Pod(q).by
                                /\ "inplace" \notin Disruptions => v.normal = Pod(q).normal
        <4>1. CASE StorePatch(q)
          <5>1. [Pod(q) EXCEPT !.phase = plan[q]] \in PodObj
            BY <3>1, <3>2, <4>1 DEF StorePatch, PodObj, PodPhases
          <5> QED BY <2>2, <3>1, <3>2, <4>1, <5>1 DEF StorePatch, PodObj
        <4>2. CASE PoolScaleIn(q)
          <5> DEFINE v == [Pod(q) EXCEPT !.phase = "Terminating"]
          <5>1. v \in PodObj /\ v.phase \in {"Terminating", "Gone"} /\ v.by = Pod(q).by
                /\ v.normal = Pod(q).normal
            BY <3>1 DEF PodObj, PodPhases
          <5>2. WritePod(q, v)
            BY <4>2 DEF PoolScaleIn
          <5> HIDE DEF v
          <5> QED BY <5>1, <5>2
        <4>3. CASE LabelOutdated(q)
          <5> DEFINE v == [Pod(q) EXCEPT !.old = TRUE]
          <5>1. v \in PodObj /\ v.phase = Pod(q).phase /\ v.by = Pod(q).by
                /\ v.normal = Pod(q).normal
            BY <3>1 DEF PodObj
          <5>2. WritePod(q, v)
            BY <4>3 DEF LabelOutdated
          <5> HIDE DEF v
          <5> QED BY <5>1, <5>2
        <4>4. CASE PodDeleted(q)
          <5> DEFINE v == [Pod(q) EXCEPT !.phase = "Gone"]
          <5>1. v \in PodObj /\ v.phase \in {"Terminating", "Gone"} /\ v.by = Pod(q).by
                /\ v.normal = Pod(q).normal
            BY <3>1 DEF PodObj, PodPhases
          <5>2. WritePod(q, v)
            BY <4>4 DEF PodDeleted
          <5> HIDE DEF v
          <5> QED BY <5>1, <5>2
        <4>5. CASE PodDies(q)
          <5> DEFINE v == [Pod(q) EXCEPT !.dead = TRUE]
          <5>1. v \in PodObj /\ v.phase = Pod(q).phase /\ v.by = Pod(q).by
                /\ v.normal = Pod(q).normal
            BY <3>1 DEF PodObj
          <5>2. WritePod(q, v)
            BY <4>5 DEF PodDies
          <5> HIDE DEF v
          <5> QED BY <5>1, <5>2
        <4>6. CASE PodLifecycle(q)
          BY <3>1, <4>6 DEF PodLifecycle, PodObj
        <4> QED BY <1>5, <4>1, <4>2, <4>3, <4>4, <4>5, <4>6
      <3>4. Pod(q)' = v /\ \A r \in Pods \ {q} : Pod(r)' = Pod(r)
        BY <3>3, PodWritten
      <3>5. Environment
        BY <1>5 DEF Environment
      <3> QED BY <2>2, <3>3, <3>4, <3>5
    <2> QED BY <2>1, <2>2
  <1>6. ASSUME NEW q \in Pods, DeliverPod(q)
        PROVE  PodEffect(p) /\ Steady(p)
    <2>1. Latest(Tail(pods[q])) = Latest(pods[q])
      BY <1>6, Reads, DeliverLog DEF DeliverPod
    <2> QED BY <1>6, <2>1 DEF DeliverPod, Pod, TypeOK
  <1>7. ASSUME Restart
        PROVE  PodEffect(p) /\ Steady(p)
    BY <1>0, <1>7, FreshLog DEF Restart, Pod
  <1>8. CASE \E c \in Claims : Observe(c)
    BY <1>1, <1>8 DEF Observe, Bind, BindOrphan, Sync, SyncGone, SyncDead, Finalize, Begin
  <1>9. CASE Step
    BY <1>1, <1>2, <1>3, <1>4, <1>9
       DEF Step, OwnershipConflict, FinalizeStuck, FinalizeReclaim, Nominate, SetWorking,
           PatchClaim, UpdateStatus, ClearLost, SyncStatus, MigrateObserve, MigrateWait,
           completeMigration, SetDraining, RemoveFinalizer
  <1>10. CASE Environment
    BY <1>1, <1>5, <1>6, <1>7, <1>10
       DEF Environment, StoreDecide, reclaimLegacyCNClaim, OnPreparingUpdate, CreateClaim,
           DeleteClaim, DeliverClaim, MigrateClaim, Abort
  <1>11. CASE UNCHANGED vars
    BY <1>1, <1>11 DEF vars
  <1> QED BY <1>8, <1>9, <1>10, <1>11 DEF Next

\* What may happen to claim c in one step: it is created or deleted, its
\* finalizer is removed, a user moves it, the worker makes it refer to a pod,
\* stores its copy of it or clears the reference; all else leaves the
\* reference alone.
ClaimEffect(c) ==
  \/ /\ Claim(c)'.st = Claim(c).st
     /\ Claim(c)'.podName = Claim(c).podName \/ Claim(c)'.podName = None
  \/ Claim(c).st = "unborn" /\ Claim(c)'.st = "live" /\ Claim(c)'.podName = None
  \/ /\ Claim(c).st = "live" /\ Claim(c)'.st = "deleting"
     /\ Claim(c)'.podName = Claim(c).podName
  \/ RemoveFinalizer /\ w.c = c /\ Claim(c)'.st = "gone"
  \/ /\ PatchClaim /\ w.c = c
     /\ Claim(c)'.st = Claim(c).st /\ Claim(c)'.podName \in {Claim(c).podName, w.pod}
  \/ /\ UpdateStatus /\ w.c = c /\ w.fresh
     /\ Claim(c)'.st = w.obj.st /\ Claim(c)'.podName = w.obj.podName
  \/ /\ "migrate" \in Disruptions /\ Environment
     /\ Claim(c)'.st = Claim(c).st
     /\ \E p \in Pods : Claim(c)'.podName = p /\ Pod(p).phase = "Idle"

LEMMA ClaimChanges ==
  ASSUME TypeOK, [Next]_vars, NEW c \in Claims
  PROVE  ClaimEffect(c)
  <1> USE DEF ClaimEffect
  <1>0. Claim(c) \in ClaimObj
    BY Reads
  <1>1. CASE UNCHANGED claims
    BY <1>1 DEF Claim
  <1>2. ASSUME NEW d \in Claims, NEW v \in ClaimObj, WriteClaim(d, v),
               v.st = Claim(d).st, v.podName = Claim(d).podName \/ v.podName = None
        PROVE  ClaimEffect(c)
    <2>1. Claim(d)' = v /\ \A e \in Claims \ {d} : Claim(e)' = Claim(e)
      BY <1>2, ClaimWritten
    <2> QED BY <1>2, <2>1
  <1>3. ASSUME NEW pool \in Pools, Nominate(pool)
        PROVE  ClaimEffect(c)
    <2>1. CASE w.obj.pool # None \/ ~w.fresh
      BY <1>1, <1>3, <2>1 DEF Nominate
    <2>2. CASE w.obj.pool = None /\ w.fresh
      <3>1. PICK d \in Claims : d = w.c
        BY <1>3 DEF Nominate, TypeOK
      <3> DEFINE v == [Claim(d) EXCEPT !.pool = pool]
      <3>2. v \in ClaimObj /\ v.st = Claim(d).st /\ v.podName = Claim(d).podName
        BY Reads DEF ClaimObj
      <3>3. WriteClaim(d, v)
        BY <1>3, <2>2, <3>1 DEF Nominate
      <3> HIDE DEF v
      <3> QED BY <1>2, <3>2, <3>3
    <2> QED BY <2>1, <2>2 DEF TypeOK, Worker
  <1>4. ASSUME PatchClaim
        PROVE  ClaimEffect(c)
    <2>1. CASE ~Present(Claim(w.c))
      BY <1>1, <1>4, <2>1 DEF PatchClaim
    <2>2. CASE Present(Claim(w.c))
      <3>1. PICK d \in Claims : d = w.c
        BY <1>4 DEF PatchClaim, TypeOK
      <3>2. w.pod \in Pods /\ PoolOf[w.pod] \in Pools
        BY <1>4, ClaimAssumption DEF PatchClaim, TypeOK
      <3> DEFINE v == Bound(Claim(d))
      <3>3. v \in ClaimObj /\ v.st = Claim(d).st /\ v.podName \in {Claim(d).podName, w.pod}
        BY <3>2, Reads DEF Bound, ClaimObj
      <3>4. WriteClaim(d, v)
        BY <1>4, <2>2, <3>1 DEF PatchClaim
      <3> HIDE DEF v
      <3>5. Claim(d)' = v /\ \A e \in Claims \ {d} : Claim(e)' = Claim(e)
        BY <3>3, <3>4, ClaimWritten
      <3> QED BY <1>4, <3>1, <3>3, <3>5
    <2> QED BY <2>1, <2>2
  <1>5. ASSUME UpdateStatus
        PROVE  ClaimEffect(c)
    <2>1. CASE ~w.fresh
      BY <1>1, <1>5, <2>1 DEF UpdateStatus
    <2>2. CASE w.fresh
      <3>1. PICK d \in Claims : d = w.c
        BY <1>5 DEF UpdateStatus, TypeOK
      <3> DEFINE v == [w.obj EXCEPT !.phase = IF @ \in {"New", "Pending"} THEN "Bound" ELSE @]
      <3>2. w.obj \in ClaimObj
        BY DEF TypeOK, Worker
      <3>3. v \in ClaimObj /\ v.st = w.obj.st /\ v.podName = w.obj.podName
        BY <3>2 DEF ClaimObj, ClaimPhases
      <3>4. WriteClaim(d, v)
        BY <1>5, <2>2, <3>1 DEF UpdateStatus
      <3> HIDE DEF v
      <3>5. Claim(d)' = v /\ \A e \in Claims \ {d} : Claim(e)' = Claim(e)
        BY <3>3, <3>4, ClaimWritten
      <3> QED BY <1>5, <2>2, <3>1, <3>3, <3>5
    <2> QED BY <2>1, <2>2
  <1>6. ASSUME ClearLost
        PROVE  ClaimEffect(c)
    <2>1. CASE ~Present(Claim(w.c))
      BY <1>1, <1>6, <2>1 DEF ClearLost
    <2>2. CASE Present(Claim(w.c))
      <3>1. PICK d \in Claims : d = w.c
        BY <1>6 DEF ClearLost, TypeOK
      <3> DEFINE v == [Claim(d) EXCEPT !.podName = None]
      <3>2. v \in ClaimObj /\ v.st = Claim(d).st /\ v.podName = None
        BY Reads DEF ClaimObj
      <3>3. WriteClaim(d, v)
        BY <1>6, <2>2, <3>1 DEF ClearLost
      <3> HIDE DEF v
      <3> QED BY <1>2, <3>2, <3>3
    <2> QED BY <2>1, <2>2
  <1>7. ASSUME SyncStatus
        PROVE  ClaimEffect(c)
    <2>1. CASE ~w.fresh
      BY <1>1, <1>7, <2>1 DEF SyncStatus
    <2>2. CASE w.fresh
      <3>1. PICK d \in Claims : d = w.c
        BY <1>7 DEF SyncStatus, TypeOK
      <3> DEFINE v == [Claim(d) EXCEPT !.phase = w.obj.phase]
      <3>2. w.obj \in ClaimObj
        BY DEF TypeOK, Worker
      <3>3. v \in ClaimObj /\ v.st = Claim(d).st /\ v.podName = Claim(d).podName
        BY <3>2, Reads DEF ClaimObj
      <3>4. WriteClaim(d, v)
        BY <1>7, <2>2, <3>1 DEF SyncStatus
      <3> HIDE DEF v
      <3> QED BY <1>2, <3>3, <3>4
    <2> QED BY <2>1, <2>2
  <1>8. ASSUME completeMigration
        PROVE  ClaimEffect(c)
    <2>1. CASE ~w.fresh
      BY <1>1, <1>8, <2>1 DEF completeMigration
    <2>2. CASE w.fresh
      <3>1. PICK d \in Claims : d = w.c
        BY <1>8 DEF completeMigration, TypeOK
      <3> DEFINE v == [Claim(d) EXCEPT !.source = None]
      <3>2. v \in ClaimObj /\ v.st = Claim(d).st /\ v.podName = Claim(d).podName
        BY Reads DEF ClaimObj
      <3>3. WriteClaim(d, v)
        BY <1>8, <2>2, <3>1 DEF completeMigration
      <3> HIDE DEF v
      <3> QED BY <1>2, <3>2, <3>3
    <2> QED BY <2>1, <2>2
  <1>9. ASSUME RemoveFinalizer
        PROVE  ClaimEffect(c)
    <2>1. CASE Claim(w.c).st # "deleting"
      BY <1>1, <1>9, <2>1 DEF RemoveFinalizer
    <2>2. CASE Claim(w.c).st = "deleting"
      <3>1. PICK d \in Claims : d = w.c
        BY <1>9 DEF RemoveFinalizer, TypeOK
      <3> DEFINE v == [Unborn EXCEPT !.st = "gone"]
      <3>2. v \in ClaimObj /\ v.st = "gone"
        BY Objects DEF ClaimObj
      <3>3. WriteClaim(d, v)
        BY <1>9, <2>2, <3>1 DEF RemoveFinalizer
      <3> HIDE DEF v
      <3>4. Claim(d)' = v /\ \A e \in Claims \ {d} : Claim(e)' = Claim(e)
        BY <3>2, <3>3, ClaimWritten
      <3> QED BY <1>9, <3>1, <3>2, <3>4
    <2> QED BY <2>1, <2>2
  <1>10. ASSUME NEW p \in Pods, reclaimLegacyCNClaim(p)
         PROVE  ClaimEffect(c)
    <2>1. PICK d \in Claims : d = SeenPod(p).by
      BY <1>10, Reads DEF reclaimLegacyCNClaim, PodObj
    <2> DEFINE v == [Claim(d) EXCEPT !.phase = "Outdated"]
    <2>2. v \in ClaimObj /\ v.st = Claim(d).st /\ v.podName = Claim(d).podName
      BY Reads DEF ClaimObj, ClaimPhases
    <2>3. WriteClaim(d, v)
      BY <1>10, <2>1 DEF reclaimLegacyCNClaim
    <2> HIDE DEF v
    <2> QED BY <1>2, <2>2, <2>3
  <1>11. ASSUME NEW d \in Claims, CreateClaim(d)
         PROVE  ClaimEffect(c)
    <2>1. NewClaim.st = "live" /\ NewClaim.podName = None
      BY DEF NewClaim, Unborn
    <2>2. Claim(d)' = NewClaim /\ \A e \in Claims \ {d} : Claim(e)' = Claim(e)
      BY <1>11, Objects, ClaimWritten DEF CreateClaim
    <2> QED BY <1>11, <2>1, <2>2 DEF CreateClaim
  <1>12. ASSUME NEW d \in Claims, DeleteClaim(d)
         PROVE  ClaimEffect(c)
    <2> DEFINE v == [Claim(d) EXCEPT !.st = "deleting"]
    <2>1. v \in ClaimObj /\ v.st = "deleting" /\ v.podName = Claim(d).podName
      BY Reads DEF ClaimObj
    <2>2. WriteClaim(d, v) /\ Claim(d).st = "live"
      BY <1>12 DEF DeleteClaim, Live
    <2> HIDE DEF v
    <2>3. Claim(d)' = v /\ \A e \in Claims \ {d} : Claim(e)' = Claim(e)
      BY <2>1, <2>2, ClaimWritten
    <2> QED BY <2>1, <2>2, <2>3
  <1>13. ASSUME NEW d \in Claims, NEW p \in Pods, MigrateClaim(d, p)
         PROVE  ClaimEffect(c)
    <2> DEFINE v == [Claim(d) EXCEPT !.source = Claim(d).podName, !.podName = p]
    <2>1. v \in ClaimObj /\ v.st = Claim(d).st /\ v.podName = p
      BY Reads DEF ClaimObj
    <2>2. WriteClaim(d, v) /\ "migrate" \in Disruptions /\ Pod(p).phase = "Idle"
      BY <1>13 DEF MigrateClaim
    <2> HIDE DEF v
    <2>3. Claim(d)' = v /\ \A e \in Claims \ {d} : Claim(e)' = Claim(e)
      BY <2>1, <2>2, ClaimWritten
    <2>4. Environment
      BY <1>13 DEF Environment
    <2> QED BY <2>1, <2>2, <2>3, <2>4
  <1>14. ASSUME NEW d \in Claims, DeliverClaim(d)
         PROVE  ClaimEffect(c)
    <2>1. Latest(Tail(claims[d])) = Latest(claims[d])
      BY <1>14, Reads, DeliverLog DEF DeliverClaim
    <2> QED BY <1>14, <2>1 DEF DeliverClaim, Claim, TypeOK
  <1>15. ASSUME Restart
         PROVE  ClaimEffect(c)
    BY <1>0, <1>15, FreshLog DEF Restart, Claim
  <1>16. CASE \E d \in Claims : Observe(d)
    BY <1>1, <1>16 DEF Observe, Bind, BindOrphan, Sync, SyncGone, SyncDead, Finalize, Begin
  <1>17. CASE Step
    BY <1>1, <1>3, <1>4, <1>5, <1>6, <1>7, <1>8, <1>9, <1>17
       DEF Step, ensureOwnership, OwnershipConflict, FinalizeStuck, transferPodOwnership,
           FinalizeReclaim, SetWorking, MigrateObserve, MigrateWait, SetDraining, reclaimCN
  <1>18. CASE Environment
    BY <1>1, <1>10, <1>11, <1>12, <1>13, <1>14, <1>15, <1>18
       DEF Environment, StoreDecide, StorePatch, PoolScaleIn, LabelOutdated, PodDeleted,
           PodDies, PodLifecycle, OnPreparingUpdate, DeliverPod, Abort
  <1>19. CASE UNCHANGED vars
    BY <1>1, <1>19 DEF vars
  <1> QED BY <1>16, <1>17, <1>18, <1>19 DEF Next

\* A cache that is never behind shows what the API server holds.
LEMMA NoLag ==
  ASSUME TypeOK, MaxLag = 0
  PROVE  /\ \A p \in Pods : SeenPod(p) = Pod(p)
         /\ \A c \in Claims : SeenClaim(c) = Claim(c)
  <1>1. \A p \in Pods : Len(pods[p]) = 1
    BY Reads DEF Logs
  <1>2. \A c \in Claims : Len(claims[c]) = 1
    BY Reads DEF Logs
  <1> QED BY <1>1, <1>2 DEF SeenPod, Pod, SeenClaim, Claim, Cached, Latest

\* What the environment does to the worker: it is stopped, or some of its
\* copies are stale now.
LEMMA WorkerDisturbed ==
  ASSUME TypeOK, Environment \/ UNCHANGED vars
  PROVE  \/ w'.pc = "rest"
         \/ /\ w'.pc = w.pc /\ w'.c = w.c /\ w'.bind = w.bind /\ w'.obj = w.obj
            /\ w'.todo = w.todo /\ w'.pod = w.pod /\ w'.heir = w.heir
            /\ w'.fresh => w.fresh /\ (w.c \in Claims => Claim(w.c)' = Claim(w.c))
  <1> DEFINE Kept == /\ w'.pc = w.pc /\ w'.c = w.c /\ w'.bind = w.bind /\ w'.obj = w.obj
                     /\ w'.todo = w.todo /\ w'.pod = w.pod /\ w'.heir = w.heir
  <1>0. w \in Worker
    BY DEF TypeOK
  <1>1. CASE UNCHANGED w /\ \A c \in Claims : Claim(c)' = Claim(c)
    BY <1>1
  <1>2. CASE UNCHANGED claims /\ \E p \in Pods : PodTouched(p)
    <2>1. Kept /\ w'.fresh = w.fresh
      BY <1>0, <1>2 DEF PodTouched, Worker
    <2> QED BY <1>2, <2>1 DEF Claim
  <1>3. ASSUME NEW c \in Claims, ClaimTouched(c), \A d \in Claims \ {c} : Claim(d)' = Claim(d)
        PROVE  Kept /\ (w'.fresh => w.fresh /\ (w.c \in Claims => Claim(w.c)' = Claim(w.c)))
    <2>1. Kept
      BY <1>0, <1>3 DEF ClaimTouched, Worker
    <2>2. w'.fresh => w.fresh /\ w.c # c
      BY <1>0, <1>3 DEF ClaimTouched, Worker
    <2> QED BY <1>3, <2>1, <2>2
  <1>4. CASE w' = Resting
    BY <1>4, Objects
  <1>5. CASE UNCHANGED vars
    BY <1>1, <1>5 DEF vars, Claim
  <1>6. ASSUME NEW p \in Pods,
               \/ PoolScaleIn(p) \/ LabelOutdated(p) \/ PodDeleted(p) \/ PodDies(p)
               \/ PodLifecycle(p) \/ StorePatch(p) \/ OnPreparingUpdate(p) \/ DeliverPod(p)
               \/ \E phase \in {"Idle", "Terminating"} : StoreDecide(p, phase)
        PROVE  \/ UNCHANGED claims /\ PodTouched(p)
               \/ UNCHANGED <<claims, w>>
    BY <1>6 DEF PoolScaleIn, LabelOutdated, PodDeleted, PodDies, PodLifecycle, StorePatch,
                OnPreparingUpdate, DeliverPod, StoreDecide
  <1>7. ASSUME NEW p \in Pods, reclaimLegacyCNClaim(p)
        PROVE  \E c \in Claims : ClaimTouched(c) /\ \A d \in Claims \ {c} : Claim(d)' = Claim(d)
    <2>1. PICK c \in Claims : c = SeenPod(p).by
      BY <1>7, Reads DEF reclaimLegacyCNClaim, PodObj
    <2> DEFINE v == [Claim(c) EXCEPT !.phase = "Outdated"]
    <2>2. v \in ClaimObj
      BY Reads DEF ClaimObj, ClaimPhases
    <2>3. WriteClaim(c, v) /\ ClaimTouched(c)
      BY <1>7, <2>1 DEF reclaimLegacyCNClaim
    <2> HIDE DEF v
    <2> QED BY <2>2, <2>3, ClaimWritten
  <1>8. ASSUME NEW c \in Claims,
               CreateClaim(c) \/ DeleteClaim(c) \/ \E p \in Pods : MigrateClaim(c, p)
        PROVE  ClaimTouched(c) /\ \A d \in Claims \ {c} : Claim(d)' = Claim(d)
    <2>1. PICK v \in ClaimObj : WriteClaim(c, v)
      <3>1. Claim(c) \in ClaimObj
        BY Reads
      <3> QED BY <1>8, <3>1, Objects DEF CreateClaim, DeleteClaim, MigrateClaim, ClaimObj
    <2>2. ClaimTouched(c)
      BY <1>8 DEF CreateClaim, DeleteClaim, MigrateClaim
    <2> QED BY <2>1, <2>2, ClaimWritten
  <1>9. ASSUME NEW c \in Claims, DeliverClaim(c)
        PROVE  UNCHANGED w /\ \A d \in Claims : Claim(d)' = Claim(d)
    <2>1. Latest(Tail(claims[c])) = Latest(claims[c])
      BY <1>9, Reads, DeliverLog DEF DeliverClaim
    <2> QED BY <1>9, <2>1 DEF DeliverClaim, Claim, TypeOK
  <1>10. CASE Abort \/ Restart
    BY <1>4, <1>10 DEF Abort, Return, Restart
  <1>11. CASE \E p \in Pods :
               \/ PoolScaleIn(p) \/ LabelOutdated(p) \/ PodDeleted(p) \/ PodDies(p)
               \/ PodLifecycle(p) \/ StorePatch(p) \/ OnPreparingUpdate(p) \/ DeliverPod(p)
               \/ \E phase \in {"Idle", "Terminating"} : StoreDecide(p, phase)
    <2>1. UNCHANGED claims => \A c \in Claims : Claim(c)' = Claim(c)
      BY DEF Claim
    <2> QED BY <1>1, <1>2, <1>6, <1>11, <2>1
  <1>12. CASE \E p \in Pods : reclaimLegacyCNClaim(p)
    BY <1>3, <1>7, <1>12
  <1>13. CASE \E c \in Claims : \/ CreateClaim(c) \/ DeleteClaim(c) \/ DeliverClaim(c)
                                \/ \E p \in Pods : MigrateClaim(c, p)
    BY <1>1, <1>3, <1>8, <1>9, <1>13
  <1> QED BY <1>5, <1>10, <1>11, <1>12, <1>13 DEF Environment

\* How a reconciliation begins.
LEMMA WorkerBegins ==
  ASSUME TypeOK, NEW c \in Claims, Observe(c)
  PROVE  /\ UNCHANGED <<pods, claims, ha, plan>>
         /\ w'.c = c /\ Present(SeenClaim(c))
         /\ w'.pc \in {"own", "nominate", "working", "clear", "status", "unfinalize", "owned"}
         /\ w'.pc = "own" /\ w'.bind => listOwned(c) = {}
         /\ w'.pc = "working" => w'.todo = {}
         /\ w'.pc = "unfinalize" => listOwned(c) = {}
         /\ w'.pc = "owned" =>
              /\ w'.todo = listOwned(c)
              /\ \A p \in Pods : \/ w'.heir[p] = None
                                 \/ w'.heir[p] \in buildPodClaimIndex(p, c)
              /\ \A p \in listOwned(c) : w'.heir[p] = None => buildPodClaimIndex(p, c) = {}
  <1> USE Objects
  <1>1. ASSUME NEW rec \in Worker, NEW phase, Begin(c, rec, phase)
        PROVE  /\ UNCHANGED <<pods, claims, ha, plan>>
               /\ w'.c = c /\ w'.pc = rec.pc /\ w'.bind = rec.bind /\ w'.todo = rec.todo
               /\ w'.heir = rec.heir
    BY <1>1 DEF Begin, Worker
  <1>2. CASE Bind(c)
    <2> DEFINE idle == {p \in Pods : Candidate(c, p)}
               rec == [Binding EXCEPT !.pc   = IF idle = {} THEN "nominate" ELSE "own",
                                      !.todo = idle,
                                      !.cur  = {p \in idle : UpToDate(pods[p])}]
    <2>1. idle \in SUBSET Pods /\ {p \in idle : UpToDate(pods[p])} \in SUBSET Pods
      OBVIOUS
    <2>2. rec \in Worker /\ rec.pc \in {"nominate", "own"}
      BY <2>1 DEF Worker, Steps
    <2>3. Begin(c, rec, "Pending") /\ Present(SeenClaim(c)) /\ listOwned(c) = {}
      BY <1>2 DEF Bind, MayBind, Present
    <2> HIDE DEF rec
    <2> QED BY <1>1, <2>2, <2>3
  <1>3. CASE \E p \in Pods : BindOrphan(c, p)
    <2>1. PICK p \in Pods : BindOrphan(c, p)
      BY <1>3
    <2> DEFINE rec == syncBindPod(Binding, p, TRUE)
    <2>2. rec \in Worker /\ rec.pc = "working" /\ rec.todo = {}
      BY DEF syncBindPod, Worker, Steps
    <2>3. Begin(c, rec, "Pending") /\ Present(SeenClaim(c))
      BY <2>1 DEF BindOrphan, MayBind, Present
    <2> HIDE DEF rec
    <2> QED BY <1>1, <2>2, <2>3
  <1>4. CASE Sync(c)
    <2> DEFINE q == SeenClaim(c).podName
               rec == [Resting EXCEPT !.pc = "own", !.todo = {q},
                                      !.cur = {r \in {q} : UpToDate(pods[r])}]
    <2>1. q \in Pods
      BY <1>4, Reads DEF Sync, MaySync, ClaimObj
    <2>2. rec \in Worker /\ rec.pc = "own" /\ rec.bind = FALSE
      BY <2>1 DEF Worker, Steps, Resting
    <2>3. Begin(c, rec, SeenClaim(c).phase) /\ Present(SeenClaim(c))
      BY <1>4 DEF Sync, MaySync, Present
    <2> HIDE DEF rec
    <2> QED BY <1>1, <2>2, <2>3
  <1>5. CASE SyncGone(c)
    <2> DEFINE rec == [Resting EXCEPT !.pc = "clear"]
    <2>1. rec \in Worker /\ rec.pc = "clear"
      BY DEF Worker, Steps
    <2>2. Begin(c, rec, SeenClaim(c).phase) /\ Present(SeenClaim(c))
      BY <1>5 DEF SyncGone, MaySync, Present
    <2> HIDE DEF rec
    <2> QED BY <1>1, <2>1, <2>2
  <1>6. CASE SyncDead(c)
    <2> DEFINE rec == [Resting EXCEPT !.pc = "status"]
    <2>1. rec \in Worker /\ rec.pc = "status"
      BY DEF Worker, Steps
    <2>2. Begin(c, rec, "Lost") /\ Present(SeenClaim(c))
      BY <1>6 DEF SyncDead, MaySync, Present
    <2> HIDE DEF rec
    <2> QED BY <1>1, <2>1, <2>2
  <1>7. CASE Finalize(c)
    <2> DEFINE owned == listOwned(c)
               holders(p) == buildPodClaimIndex(p, c)
               heir == [p \in Pods |-> IF p \in owned /\ holders(p) # {}
                                       THEN CHOOSE d \in holders(p) : TRUE
                                       ELSE None]
               stuck == {p \in owned : \/ Cardinality(holders(p)) > 1
                                       \/ \E d \in holders(p) : ~IsReady(SeenClaim(d))}
               rec == [Resting EXCEPT !.pc = IF owned = {} THEN "unfinalize" ELSE "owned",
                                      !.todo = owned, !.stuck = stuck, !.heir = heir]
    <2>1. owned \in SUBSET Pods /\ stuck \in SUBSET Pods
      BY DEF listOwned
    <2>2. heir \in [Pods -> Claims \cup {None}]
      BY DEF buildPodClaimIndex
    <2>3. \A p \in Pods : heir[p] = None \/ heir[p] \in holders(p)
      OBVIOUS
    <2>4. \A p \in owned : heir[p] = None => holders(p) = {}
      <3> SUFFICES ASSUME NEW p \in owned, holders(p) # {}
                   PROVE  heir[p] # None
        OBVIOUS
      <3>1. heir[p] \in holders(p)
        BY <2>1
      <3> QED BY <3>1, ClaimAssumption DEF buildPodClaimIndex
    <2>5. Begin(c, rec, SeenClaim(c).phase) /\ Present(SeenClaim(c))
      BY <1>7 DEF Finalize, Present
    <2> HIDE DEF owned, stuck, heir
    <2>6. rec \in Worker /\ rec.pc = (IF owned = {} THEN "unfinalize" ELSE "owned")
          /\ rec.todo = owned /\ rec.heir = heir
      BY <2>1, <2>2 DEF Worker, Steps
    <2> HIDE DEF rec
    <2>7. /\ UNCHANGED <<pods, claims, ha, plan>>
          /\ w'.c = c /\ w'.pc = rec.pc /\ w'.todo = owned /\ w'.heir = heir
      BY <1>1, <2>5, <2>6
    <2> USE DEF owned
    <2> QED BY <2>3, <2>4, <2>5, <2>6, <2>7
  <1> QED BY <1>2, <1>3, <1>4, <1>5, <1>6, <1>7 DEF Observe

\* How a reconciliation goes on.
LEMMA WorkerSteps ==
  ASSUME TypeOK, Step
  PROVE  \/ w'.pc = "rest"
         \/ /\ w'.c = w.c /\ w'.bind = w.bind /\ w'.heir = w.heir
            /\ \/ w'.pc = "own" /\ w.pc = "own" /\ UNCHANGED pods
               \/ w'.pc \in {"nominate", "status"}
               \/ w'.pc = "working" /\ w'.todo = {}
               \/ /\ w'.pc = "patch" /\ w.pc = "working" /\ w'.todo = w.todo
                  /\ w'.pod = w.pod /\ ha'[w.pod] = "Working"
               \/ /\ w'.pc = "bound" /\ w.pc = "patch" /\ w'.todo = w.todo
                  /\ w'.obj = Claim(w.c)'
               \/ w'.pc = "migrate" /\ w.pc = "bound" /\ w'.todo = w.todo
               \/ w'.pc \in {"complete", "drain"} /\ w.pc = "migrate" /\ w'.todo = w.todo
               \/ /\ w'.pc = "drain" /\ w.pc = "owned" /\ w'.todo = w.todo
                  /\ w'.pod \in w.todo /\ w.heir[w'.pod] = None
               \/ /\ w'.pc = "release" /\ w.pc = "drain" /\ w'.todo = w.todo
                  /\ w'.pod = w.pod
               \/ w'.pc = "owned" /\ w.pc \in {"owned", "release"} /\ w'.todo \subseteq w.todo
  <1> USE Objects
  <1>0. w \in Worker
    BY DEF TypeOK
  <1>1. CASE w' = Resting
    BY <1>1
  <1>2. ASSUME NEW p \in Pods, ensureOwnership(p)
        PROVE  \/ w' = Resting
               \/ /\ w'.c = w.c /\ w'.bind = w.bind /\ w'.heir = w.heir
                  /\ w'.pc = "working" /\ w'.todo = {}
    BY <1>0, <1>2 DEF ensureOwnership, syncBindPod, Worker
  <1>3. ASSUME NEW p \in Pods, OwnershipConflict(p)
        PROVE  \/ w' = Resting
               \/ /\ w'.c = w.c /\ w'.bind = w.bind /\ w'.heir = w.heir
                  /\ \/ w'.pc = "own" /\ w.pc = "own" /\ UNCHANGED pods
                     \/ w'.pc = "nominate"
    BY <1>0, <1>3 DEF OwnershipConflict, Worker
  <1>4. ASSUME NEW pool \in Pools, Nominate(pool)
        PROVE  \/ w' = Resting
               \/ /\ w'.c = w.c /\ w'.bind = w.bind /\ w'.heir = w.heir
                  /\ w'.pc = "status"
    BY <1>0, <1>4 DEF Nominate, Goto, Return, Worker
  <1>5. ASSUME SetWorking
        PROVE  /\ w'.c = w.c /\ w'.bind = w.bind /\ w'.heir = w.heir
               /\ w'.pc = "patch" /\ w.pc = "working" /\ w'.todo = w.todo
               /\ w'.pod = w.pod /\ ha'[w.pod] = "Working"
    <2>1. /\ w'.c = w.c /\ w'.bind = w.bind /\ w'.heir = w.heir
          /\ w'.pc = "patch" /\ w.pc = "working" /\ w'.todo = w.todo
          /\ w'.pod = w.pod
      BY <1>0, <1>5 DEF SetWorking, Goto, Worker
    <2>2. ha'[w.pod] = "Working"
      BY <1>5 DEF SetWorking, TypeOK
    <2> QED BY <2>1, <2>2
  <1>6. ASSUME PatchClaim
        PROVE  \/ w' = Resting
               \/ /\ w'.c = w.c /\ w'.bind = w.bind /\ w'.heir = w.heir
                  /\ w'.pc = "bound" /\ w.pc = "patch" /\ w'.todo = w.todo
                  /\ w'.obj = Claim(w.c)'
    <2>1. CASE ~Present(Claim(w.c))
      BY <1>6, <2>1 DEF PatchClaim, Return
    <2>2. CASE Present(Claim(w.c))
      <3>1. PICK d \in Claims : d = w.c
        BY <1>6 DEF PatchClaim, TypeOK
      <3>2. w.pod \in Pods /\ PoolOf[w.pod] \in Pools
        BY <1>6, ClaimAssumption DEF PatchClaim, TypeOK
      <3> DEFINE v == Bound(Claim(d))
      <3>3. v \in ClaimObj
        BY <3>2, Reads DEF Bound, ClaimObj
      <3>4. /\ WriteClaim(d, v)
            /\ w' = [w EXCEPT !.pc = "bound", !.fresh = TRUE, !.obj = v]
            /\ w.pc = "patch"
        BY <1>6, <2>2, <3>1 DEF PatchClaim
      <3> HIDE DEF v
      <3>5. Claim(d)' = v
        BY <3>3, <3>4, ClaimWritten
      <3>6. /\ w'.c = w.c /\ w'.bind = w.bind /\ w'.heir = w.heir
            /\ w'.pc = "bound" /\ w'.todo = w.todo /\ w'.obj = v
        BY <1>0, <3>4 DEF Worker
      <3> QED BY <3>1, <3>4, <3>5, <3>6
    <2> QED BY <2>1, <2>2
  <1>7. ASSUME UpdateStatus
        PROVE  \/ w' = Resting
               \/ /\ w'.c = w.c /\ w'.bind = w.bind /\ w'.heir = w.heir
                  /\ w'.pc = "migrate" /\ w.pc = "bound" /\ w'.todo = w.todo
    <2>1. PICK v : w' = Resting \/ w' = [w EXCEPT !.pc = "migrate", !.obj = v, !.pod = None]
      BY <1>7 DEF UpdateStatus, Return
    <2> QED BY <1>0, <1>7, <2>1 DEF UpdateStatus, Worker
  <1>8. ASSUME ClearLost
        PROVE  \/ w' = Resting
               \/ /\ w'.c = w.c /\ w'.bind = w.bind /\ w'.heir = w.heir
                  /\ w'.pc = "status"
    <2>1. PICK v : w' = Resting \/ w' = [w EXCEPT !.pc = "status", !.fresh = TRUE, !.obj = v]
      BY <1>8 DEF ClearLost, Return
    <2> QED BY <1>0, <2>1 DEF Worker
  <1>9. ASSUME MigrateObserve
        PROVE  \/ w' = Resting
               \/ /\ w'.c = w.c /\ w'.bind = w.bind /\ w'.heir = w.heir
                  /\ w'.pc \in {"complete", "drain"} /\ w.pc = "migrate" /\ w'.todo = w.todo
    <2>1. SeenPod(w.obj.source).phase \in PodPhases
      BY <1>9, Reads DEF MigrateObserve, TypeOK, PodObj
    <2>2. \/ w' = [w EXCEPT !.pc = "complete"]
          \/ w' = [w EXCEPT !.pc = "drain", !.pod = w.obj.source]
          \/ w' = Resting
      BY <1>9, <2>1 DEF MigrateObserve, PodPhases
    <2>3. w.pc = "migrate"
      BY <1>9 DEF MigrateObserve
    <2> QED BY <1>0, <2>2, <2>3 DEF Worker
  <1>10. ASSUME NEW p \in Pods, FinalizeReclaim(p)
         PROVE  /\ w'.c = w.c /\ w'.bind = w.bind /\ w'.heir = w.heir
                /\ w'.pc = "drain" /\ w.pc = "owned" /\ w'.todo = w.todo
                /\ w'.pod \in w.todo /\ w.heir[w'.pod] = None
    BY <1>0, <1>10 DEF FinalizeReclaim, Worker
  <1>11. ASSUME NEW p \in Pods, NextOwned(p)
         PROVE  \/ w' = Resting
                \/ /\ w'.c = w.c /\ w'.bind = w.bind /\ w'.heir = w.heir
                   /\ w'.pc = "owned" /\ w'.todo \subseteq w.todo
    BY <1>0, <1>11 DEF NextOwned, Worker
  <1>12. ASSUME NEW p \in Pods, transferPodOwnership(p)
         PROVE  w.pc = "owned" /\ (w' = Resting \/ NextOwned(p))
    BY <1>12 DEF transferPodOwnership, Return
  <1>13. ASSUME SetDraining
         PROVE  /\ w'.c = w.c /\ w'.bind = w.bind /\ w'.heir = w.heir
                /\ w'.pc = "release" /\ w.pc = "drain" /\ w'.todo = w.todo
                /\ w'.pod = w.pod
    BY <1>0, <1>13 DEF SetDraining, Goto, Worker
  <1>14. ASSUME reclaimCN
         PROVE  w.pc = "release" /\ (w' = Resting \/ \E p \in Pods : NextOwned(p))
    BY <1>14 DEF reclaimCN, Return, TypeOK
  <1>15. ASSUME SyncStatus \/ MigrateWait \/ completeMigration \/ RemoveFinalizer
                \/ \E p \in Pods : FinalizeStuck(p)
         PROVE  w' = Resting
    BY <1>15 DEF SyncStatus, MigrateWait, completeMigration, RemoveFinalizer, FinalizeStuck,
                 Return
  <1>16. CASE \E p \in Pods : transferPodOwnership(p)
    BY <1>1, <1>11, <1>12, <1>16
  <1>17. CASE reclaimCN
    BY <1>1, <1>11, <1>14, <1>17
  <1>18. CASE \E p \in Pods : ensureOwnership(p) \/ OwnershipConflict(p) \/ FinalizeReclaim(p)
    <2>1. PICK p \in Pods : ensureOwnership(p) \/ OwnershipConflict(p) \/ FinalizeReclaim(p)
      BY <1>18
    <2>2. CASE ensureOwnership(p)
      BY <1>1, <1>2, <2>2
    <2>3. CASE OwnershipConflict(p)
      BY <1>1, <1>3, <2>3
    <2>4. CASE FinalizeReclaim(p)
      BY <1>10, <2>4
    <2> QED BY <2>1, <2>2, <2>3, <2>4
  <1>19. CASE SetWorking \/ SetDraining
    BY <1>5, <1>13, <1>19
  <1>20. CASE PatchClaim
    BY <1>1, <1>6, <1>20
  <1>21. CASE UpdateStatus \/ MigrateObserve
    BY <1>1, <1>7, <1>9, <1>21
  <1>22. CASE ClearLost \/ \E pool \in Pools : Nominate(pool)
    BY <1>1, <1>4, <1>8, <1>22
  <1> QED BY <1>1, <1>15, <1>16, <1>17, <1>18, <1>19, <1>20, <1>21, <1>22 DEF Step

-----------------------------------------------------------------------------
(* Finalize, when the cache is never behind *)

\* The claim being reconciled is there until the reconciliation ends.
Busy == w.pc # "rest" => Present(Claim(w.c))

\* The claims that are about to inherit a pod are there.
HeirsPresent ==
  w.pc \in {"owned", "drain", "release"} =>
    \A p \in w.todo : w.heir[p] # None => Present(Claim(w.heir[p]))

\* A claim whose finalizer is about to go has no pod.
Freed == w.pc = "unfinalize" => \A p \in Pods : ~BoundTo(Pod(p), w.c)

\* A pod that is about to be reclaimed, if it is still bound, is referred to
\* by no other claim.
Spared ==
  w.pc \in {"owned", "drain", "release"} =>
    \A p \in w.todo : \A d \in Claims \ {w.c} :
      w.heir[p] = None /\ Live(d) /\ Claim(d).podName = p => Pod(p).phase # "Bound"

\* Finalize reclaims what nobody inherits.
DrainsOwn == w.pc \in {"drain", "release"} /\ w.pod \in w.todo => w.heir[w.pod] = None

\* Bind and Sync have settled for a pod.
Settled == w.pc \in {"working", "patch", "bound", "migrate", "complete"} => w.todo = {}

\* The invariant of Finalize: what it read is still so when it acts on it.
FinalizeInv ==
  /\ TypeOK /\ KnowsClaim
  /\ Busy /\ HeirsPresent /\ Freed /\ Spared /\ DrainsOwn /\ Settled
  /\ FinalizedOwnsNothing

\* Only the removal of its finalizer makes a claim disappear.
LEMMA StaysPresent ==
  ASSUME FinalizeInv, [Next]_vars, NEW c \in Claims, Present(Claim(c)), ~RemoveFinalizer
  PROVE  Present(Claim(c)')
  <1>1. TypeOK
    BY DEF FinalizeInv
  <1>2. ClaimEffect(c)
    BY <1>1, ClaimChanges
  <1>3. CASE UpdateStatus /\ w.c = c /\ w.fresh /\ Claim(c)'.st = w.obj.st
    <2>1. w.obj = Claim(c)
      BY <1>3 DEF FinalizeInv, KnowsClaim, UpdateStatus
    <2> QED BY <1>3, <2>1 DEF Present
  <1> QED BY <1>2, <1>3 DEF ClaimEffect, Present

\* A pod is newly bound to the claim being reconciled, or to the heir of the
\* claim being finalized.
LEMMA NewlyBound ==
  ASSUME TypeOK, [Next]_vars, NEW p \in Pods, NEW c \in Claims, BoundTo(Pod(p)', c)
  PROVE  \/ BoundTo(Pod(p), c)
         \/ ensureOwnership(p) /\ c = w.c
         \/ transferPodOwnership(p) /\ c = w.heir[p] /\ Pod(p).phase = "Bound"
  <1>1. PodEffect(p)
    BY PodChanges
  <1>2. None \notin Claims
    BY ClaimAssumption
  <1> QED BY <1>1, <1>2 DEF PodEffect, BoundTo

LEMMA FinalizeInductive ==
  ASSUME FinalizeInv, [Next]_vars, MaxLag = 0
  PROVE  FinalizeInv'
  <1>0. TypeOK /\ w \in Worker
    BY DEF FinalizeInv, TypeOK
  <1>1. TypeOK'
    BY <1>0, NextType
  <1>2. /\ \A p \in Pods : SeenPod(p) = Pod(p)
        /\ \A c \in Claims : SeenClaim(c) = Claim(c)
    BY <1>0, NoLag
  <1>3. RemoveFinalizer => w'.pc = "rest"
    BY Objects DEF RemoveFinalizer, Return
  <1>4. \A c \in Claims : Present(Claim(c)) /\ ~RemoveFinalizer => Present(Claim(c)')
    BY StaysPresent
  <1>5. KnowsClaim'
    <2>1. CASE \E c \in Claims : Observe(c)
      BY <1>0, <2>1, WorkerBegins DEF KnowsClaim
    <2>2. CASE Step
      BY <1>0, <2>2, WorkerSteps DEF KnowsClaim
    <2>3. CASE Environment \/ UNCHANGED vars
      BY <1>0, <2>3, WorkerDisturbed DEF KnowsClaim, FinalizeInv, TypeOK
    <2> QED BY <2>1, <2>2, <2>3 DEF Next
  <1>6. Busy'
    <2>1. ASSUME NEW c \in Claims, Observe(c) PROVE Busy'
      <3>1. w'.c = c /\ UNCHANGED claims /\ Present(Claim(c))
        BY <1>0, <1>2, <2>1, WorkerBegins
      <3> QED BY <3>1 DEF Busy, Claim
    <2>2. CASE w'.pc # "rest" /\ w.pc # "rest" /\ w'.c = w.c
      <3>1. w.c \in Claims /\ Present(Claim(w.c))
        BY <1>0, <2>2 DEF FinalizeInv, Busy, TypeOK
      <3> QED BY <1>3, <1>4, <2>2, <3>1 DEF Busy
    <2>3. CASE Step
      <3>1. w.pc # "rest"
        BY <2>3 DEF Step, ensureOwnership, OwnershipConflict, FinalizeStuck,
             transferPodOwnership, FinalizeReclaim, Nominate, SetWorking, PatchClaim,
             UpdateStatus, ClearLost, SyncStatus, MigrateObserve, MigrateWait,
             completeMigration, SetDraining, reclaimCN, RemoveFinalizer
      <3> QED BY <1>0, <2>2, <2>3, <3>1, WorkerSteps DEF Busy
    <2>4. CASE Environment \/ UNCHANGED vars
      BY <1>0, <2>2, <2>4, WorkerDisturbed DEF Busy
    <2> QED BY <2>1, <2>3, <2>4 DEF Next
  <1>7. HeirsPresent'
    <2> SUFFICES ASSUME w'.pc \in {"owned", "drain", "release"}, NEW p \in w'.todo,
                        NEW d \in Claims, d = w'.heir[p]
                 PROVE  Present(Claim(d)')
      <3>1. \A p \in w'.todo : w'.heir[p] # None => w'.heir[p] \in Claims
        BY <1>1 DEF TypeOK, Worker
      <3> QED BY <3>1 DEF HeirsPresent, Claim
    <2>0. p \in Pods /\ d # None
      BY <1>1, ClaimAssumption DEF TypeOK, Worker
    <2>1. ASSUME NEW c \in Claims, Observe(c) PROVE Present(Claim(d)')
      <3>1. d \in buildPodClaimIndex(p, c) /\ UNCHANGED claims
        BY <1>0, <2>0, <2>1, WorkerBegins
      <3>2. Present(Claim(d)) /\ Claim(d)' = Claim(d)
        BY <1>2, <3>1 DEF buildPodClaimIndex, Present, Claim
      <3> QED BY <3>2
    <2>2. CASE w.pc \in {"owned", "drain", "release"} /\ w'.heir = w.heir /\ p \in w.todo
      <3>1. Present(Claim(d))
        BY <2>0, <2>2 DEF FinalizeInv, HeirsPresent
      <3> QED BY <1>3, <1>4, <2>2, <3>1
    <2>3. CASE Step
      <3>1. w.pc = "migrate" => w.todo = {}
        BY DEF FinalizeInv, Settled
      <3> QED BY <1>0, <2>2, <2>3, <3>1, WorkerSteps
    <2>4. CASE Environment \/ UNCHANGED vars
      BY <1>0, <2>2, <2>4, WorkerDisturbed
    <2> QED BY <2>1, <2>3, <2>4 DEF Next
  <1>8. Freed'
    <2> SUFFICES ASSUME w'.pc = "unfinalize", NEW p \in Pods, BoundTo(Pod(p)', w'.c)
                 PROVE  FALSE
      BY DEF Freed
    <2>1. ASSUME NEW c \in Claims, Observe(c) PROVE FALSE
      <3>1. listOwned(c) = {} /\ w'.c = c /\ UNCHANGED pods
        BY <1>0, <2>1, WorkerBegins
      <3>2. Pod(p)' = Pod(p)
        BY <3>1 DEF Pod
      <3> QED BY <1>2, <3>1, <3>2 DEF listOwned
    <2>2. CASE Step
      BY <1>0, <2>2, WorkerSteps
    <2>3. CASE Environment \/ UNCHANGED vars
      <3>1. w.pc = "unfinalize" /\ w'.c = w.c /\ w.c \in Claims
        BY <1>0, <2>3, WorkerDisturbed DEF TypeOK
      <3>2. BoundTo(Pod(p), w.c)
        BY <1>0, <3>1, NewlyBound DEF ensureOwnership, transferPodOwnership
      <3> QED BY <3>1, <3>2 DEF FinalizeInv, Freed
    <2> QED BY <2>1, <2>2, <2>3 DEF Next
  <1>9. DrainsOwn'
    <2> SUFFICES ASSUME w'.pc \in {"drain", "release"}, w'.pod \in w'.todo
                 PROVE  w'.heir[w'.pod] = None
      BY DEF DrainsOwn
    <2>1. CASE \E c \in Claims : Observe(c)
      BY <1>0, <2>1, WorkerBegins
    <2>2. CASE Step
      <3>1. w.pc = "migrate" => w.todo = {}
        BY DEF FinalizeInv, Settled
      <3> QED BY <1>0, <2>2, <3>1, WorkerSteps DEF FinalizeInv, DrainsOwn
    <2>3. CASE Environment \/ UNCHANGED vars
      BY <1>0, <2>3, WorkerDisturbed DEF FinalizeInv, DrainsOwn
    <2> QED BY <2>1, <2>2, <2>3 DEF Next
  <1>10. Settled'
    <2>1. CASE \E c \in Claims : Observe(c)
      BY <1>0, <2>1, WorkerBegins DEF Settled
    <2>2. CASE Step
      BY <1>0, <2>2, WorkerSteps DEF FinalizeInv, Settled
    <2>3. CASE Environment \/ UNCHANGED vars
      BY <1>0, <2>3, WorkerDisturbed DEF FinalizeInv, Settled
    <2> QED BY <2>1, <2>2, <2>3 DEF Next
  <1>11. Spared'
    <2> SUFFICES ASSUME w'.pc \in {"owned", "drain", "release"}, NEW p \in w'.todo,
                        NEW d \in Claims \ {w'.c}, w'.heir[p] = None,
                        Claim(d)'.st = "live", Claim(d)'.podName = p
                 PROVE  Pod(p)'.phase # "Bound"
      BY DEF Spared, Live
    <2>0. p \in Pods /\ p # None /\ d \in Claims
      BY <1>1, ClaimAssumption DEF TypeOK, Worker
    <2>1. ASSUME NEW c \in Claims, Observe(c) PROVE FALSE
      <3>1. /\ UNCHANGED claims /\ w'.c = c
            /\ buildPodClaimIndex(p, c) = {}
        BY <1>0, <2>1, WorkerBegins
      <3>2. Claim(d) = Claim(d)'
        BY <3>1 DEF Claim
      <3> QED BY <1>2, <2>0, <3>1, <3>2 DEF buildPodClaimIndex
    <2>2. CASE /\ w.pc \in {"owned", "drain", "release"}
               /\ w'.heir = w.heir /\ w'.c = w.c /\ p \in w.todo
      <3>1. Claim(d).st = "live" /\ Claim(d).podName = p => Pod(p).phase # "Bound"
        BY <2>0, <2>2 DEF FinalizeInv, Spared, Live
      <3>2. ~PatchClaim /\ ~UpdateStatus /\ ~RemoveFinalizer /\ ~ensureOwnership(p)
        BY <2>2 DEF PatchClaim, UpdateStatus, RemoveFinalizer, ensureOwnership
      <3>3. \/ Claim(d).st = "live" /\ Claim(d).podName = p
            \/ Environment /\ Pod(p).phase = "Idle"
        BY <1>0, <2>0, <3>2, ClaimChanges DEF ClaimEffect
      <3>4. Pod(p).phase # "Bound"
        BY <3>1, <3>3
      <3> QED BY <1>0, <2>0, <3>2, <3>4, PodChanges DEF PodEffect
    <2>3. CASE Step
      <3>1. w.pc = "migrate" => w.todo = {}
        BY DEF FinalizeInv, Settled
      <3> QED BY <1>0, <2>2, <2>3, <3>1, WorkerSteps
    <2>4. CASE Environment \/ UNCHANGED vars
      BY <1>0, <2>2, <2>4, WorkerDisturbed
    <2> QED BY <2>1, <2>3, <2>4 DEF Next
  <1>12. FinalizedOwnsNothing'
    <2> SUFFICES ASSUME NEW c \in Claims, NEW p \in Pods, BoundTo(Pod(p)', c),
                        Claim(c)'.st = "gone"
                 PROVE  FALSE
      BY DEF FinalizedOwnsNothing
    <2>1. CASE ensureOwnership(p) /\ c = w.c
      <3>1. Present(Claim(c)) /\ ~RemoveFinalizer
        BY <2>1 DEF ensureOwnership, RemoveFinalizer, FinalizeInv, Busy
      <3> QED BY <1>4, <3>1 DEF Present
    <2>2. CASE transferPodOwnership(p) /\ c = w.heir[p]
      <3>1. Present(Claim(c)) /\ ~RemoveFinalizer
        BY <2>2 DEF transferPodOwnership, RemoveFinalizer, FinalizeInv, HeirsPresent
      <3> QED BY <1>4, <3>1 DEF Present
    <2>3. CASE BoundTo(Pod(p), c)
      <3>1. Claim(c).st # "gone"
        BY <2>3 DEF FinalizeInv, FinalizedOwnsNothing
      <3>2. CASE RemoveFinalizer /\ w.c = c
        BY <2>3, <3>2 DEF RemoveFinalizer, FinalizeInv, Freed
      <3>3. CASE UpdateStatus /\ w.c = c /\ w.fresh /\ Claim(c)'.st = w.obj.st
        <4>1. w.obj = Claim(c)
          BY <3>3 DEF FinalizeInv, KnowsClaim, UpdateStatus
        <4> QED BY <3>1, <3>3, <4>1
      <3> QED BY <1>0, <3>1, <3>2, <3>3, ClaimChanges DEF ClaimEffect
    <2> QED BY <1>0, <2>1, <2>2, <2>3, NewlyBound
  <1> QED BY <1>1, <1>5, <1>6, <1>7, <1>8, <1>9, <1>10, <1>11, <1>12 DEF FinalizeInv

\* With a cache that is never behind, every state satisfies the invariant of
\* Finalize.
LEMMA FinalizeSafe ==
  ASSUME MaxLag = 0
  PROVE  Spec => []FinalizeInv
  <1>1. Init => FinalizeInv
    <2> SUFFICES ASSUME Init PROVE FinalizeInv
      OBVIOUS
    <2>1. TypeOK
      BY InitType
    <2>2. w.pc = "rest"
      BY Objects DEF Init
    <2>3. KnowsClaim /\ Busy /\ HeirsPresent /\ Freed /\ Spared /\ DrainsOwn /\ Settled
      BY <2>2 DEF KnowsClaim, Busy, HeirsPresent, Freed, Spared, DrainsOwn, Settled
    <2>4. \A p \in Pods : Pod(p).phase = "Unknown"
      BY DEF Init, Pod, Latest
    <2>5. FinalizedOwnsNothing
      BY <2>4 DEF FinalizedOwnsNothing, BoundTo
    <2> QED BY <2>1, <2>3, <2>5 DEF FinalizeInv
  <1>2. FinalizeInv /\ [Next]_vars => FinalizeInv'
    BY FinalizeInductive
  <1> QED BY <1>1, <1>2, PTL DEF Spec

\* With a cache that is never behind, a claim whose finalizer is removed
\* leaves no pod labelled as bound to it, whatever fails, restarts, is lost,
\* rolled out or migrated meanwhile.
THEOREM FinalizedClaimsOwnNothing ==
  ASSUME MaxLag = 0
  PROVE  Spec => []FinalizedOwnsNothing
  <1>1. FinalizeInv => FinalizedOwnsNothing
    BY DEF FinalizeInv
  <1> QED BY <1>1, FinalizeSafe, PTL

\* With a cache that is never behind, Finalize never drains a pod that another
\* live claim refers to, not even one that was migrated to it after Finalize
\* looked.
THEOREM FinalizeHandsOver ==
  ASSUME MaxLag = 0
  PROVE  Spec => FinalizeSparesReferrers
  <1> DEFINE A == \A p \in Pods, d \in Claims :
                   /\ w.pc = "release" /\ p \in w.todo /\ w.c # d
                   /\ Live(d) /\ Claim(d).podName = p
                   => ~(Pod(p).phase = "Bound" /\ Pod(p)'.phase = "Draining")
  <1>1. FinalizeInv /\ [Next]_vars => A
    <2> SUFFICES ASSUME FinalizeInv, [Next]_vars, NEW p \in Pods, NEW d \in Claims,
                        w.pc = "release", p \in w.todo, w.c # d,
                        Live(d), Claim(d).podName = p,
                        Pod(p).phase = "Bound", Pod(p)'.phase = "Draining"
                 PROVE  FALSE
      OBVIOUS
    <2>1. TypeOK
      BY DEF FinalizeInv
    <2>2. w.pod = p
      BY <2>1, PodChanges DEF PodEffect
    <2>3. w.heir[p] = None
      BY <2>2 DEF FinalizeInv, DrainsOwn
    <2> QED BY <2>3 DEF FinalizeInv, Spared
  <1>2. FinalizeInv /\ [Next]_vars => [A]_vars
    BY <1>1
  <1>3. (FinalizeSparesReferrers) <=> [][A]_vars
    BY DEF FinalizeSparesReferrers
  <1> QED BY <1>2, <1>3, FinalizeSafe, PTL DEF Spec

-----------------------------------------------------------------------------
(* Binding *)

\* The part of BindingInv that is about the objects alone.
Shared ==
  ReferredIsHeld /\ OneHolder /\ LeftByDeleted /\ DeletedForGood /\ OnlyHeldIsClaimed

\* The part that is about the processes.
Private ==
  /\ PlannedIsFree /\ NoMigration
  /\ KnowsCandidates /\ KnowsHolder /\ KnowsClaim /\ KnowsReclaimed

LEMMA Parts == BindingInv <=> TypeOK /\ Shared /\ BoundByWayOfIdle /\ Private
  BY DEF BindingInv, Shared, Private

-----------------------------------------------------------------------------
(* Versions *)

\* The versions of pods and claims are objects, among them the ones that the
\* cache and the API server hold.
LEMMA VersionsOf ==
  ASSUME TypeOK
  PROVE  /\ \A p \in Pods : /\ Versions(pods[p]) \subseteq PodObj
                            /\ Pod(p) \in Versions(pods[p])
                            /\ SeenPod(p) \in Versions(pods[p])
                            /\ UpToDate(pods[p]) => /\ Versions(pods[p]) = {Pod(p)}
                                                    /\ SeenPod(p) = Pod(p)
         /\ \A c \in Claims : /\ Versions(claims[c]) \subseteq ClaimObj
                              /\ Claim(c) \in Versions(claims[c])
                              /\ SeenClaim(c) \in Versions(claims[c])
  <1>1. \A p \in Pods : pods[p] \in Logs(PodObj)
    BY Reads
  <1>2. \A c \in Claims : claims[c] \in Logs(ClaimObj)
    BY Reads
  <1> QED BY <1>1, <1>2, EndVersions DEF Pod, SeenPod, Claim, SeenClaim

\* A write to a pod adds the version written.
LEMMA PodVersions ==
  ASSUME TypeOK, NEW p \in Pods, NEW v \in PodObj, WritePod(p, v)
  PROVE  /\ Versions(pods'[p]) \subseteq Versions(pods[p]) \cup {v}
         /\ Pod(p)' = v
         /\ \A q \in Pods \ {p} : pods'[q] = pods[q] /\ Pod(q)' = Pod(q)
  <1>1. pods \in [Pods -> Logs(PodObj)] /\ pods[p] \in Logs(PodObj)
    BY DEF TypeOK
  <1>2. pods'[p] = Write(pods[p], v)
    BY <1>1 DEF WritePod
  <1>3. Versions(Write(pods[p], v)) \subseteq Versions(pods[p]) \cup {v}
    BY <1>1, WriteVersions
  <1> QED BY <1>2, <1>3, PodWritten

\* A write to a claim adds the version written.
LEMMA ClaimVersions ==
  ASSUME TypeOK, NEW c \in Claims, NEW v \in ClaimObj, WriteClaim(c, v)
  PROVE  /\ Versions(claims'[c]) \subseteq Versions(claims[c]) \cup {v}
         /\ Claim(c)' = v
         /\ \A d \in Claims \ {c} : claims'[d] = claims[d] /\ Claim(d)' = Claim(d)
  <1>1. claims \in [Claims -> Logs(ClaimObj)] /\ claims[c] \in Logs(ClaimObj)
    BY DEF TypeOK
  <1>2. claims'[c] = Write(claims[c], v)
    BY <1>1 DEF WriteClaim
  <1>3. Versions(Write(claims[c], v)) \subseteq Versions(claims[c]) \cup {v}
    BY <1>1, WriteVersions
  <1> QED BY <1>2, <1>3, ClaimWritten

-----------------------------------------------------------------------------
(* What a write to a pod or to a claim must respect *)

\* A pod is written: it is taken from nobody but a deleted claim, and given
\* to a claim only if the writer knows the latest version and no other claim
\* holds the pod.
LEMMA PodStep ==
  ASSUME TypeOK, Shared, UNCHANGED claims,
         NEW p \in Pods, NEW v \in PodObj, WritePod(p, v), Exists(p),
         v.phase \notin {"Bound", "Gone"} => v.by = None,
         \A c \in Claims : HeldBy(Pod(p), c) => HeldBy(v, c) \/ AllDeleted(c),
         \A c \in Claims : HeldBy(v, c) =>
           \/ HeldBy(Pod(p), c)
           \/ UpToDate(pods[p]) /\ \A d \in Claims : HeldBy(Pod(p), d) => d = c
  PROVE  Shared'
  <1>1. /\ Versions(pods'[p]) \subseteq Versions(pods[p]) \cup {v}
        /\ Pod(p)' = v
        /\ \A q \in Pods \ {p} : pods'[q] = pods[q] /\ Pod(q)' = Pod(q)
    BY PodVersions
  <1>2. Pod(p) \in Versions(pods[p]) /\ (UpToDate(pods[p]) => Versions(pods[p]) = {Pod(p)})
    BY VersionsOf
  <1>3. \A c \in Claims : AllDeleted(c)' <=> AllDeleted(c)
    BY DEF AllDeleted
  <1>4. \A c \in Claims : HeldBy(Pod(p), c) => BoundTo(Pod(p), c)
    BY DEF HeldBy, BoundTo, Exists
  <1>5. ReferredIsHeld'
    <2> SUFFICES ASSUME NEW c \in Claims, NEW cl \in Versions(claims[c]),
                        cl.st = "live", cl.podName # None
                 PROVE  HeldBy(Pod(cl.podName)', c)
      BY DEF ReferredIsHeld
    <2>1. HeldBy(Pod(cl.podName), c) /\ cl.podName \in Pods
      BY VersionsOf DEF Shared, ReferredIsHeld, ClaimObj
    <2>2. ~AllDeleted(c)
      BY DEF AllDeleted, Deleted
    <2> QED BY <1>1, <2>1, <2>2
  <1>6. OneHolder'
    <2> SUFFICES ASSUME NEW q \in Pods, NEW u \in Versions(pods'[q]), NEW x \in Versions(pods'[q]),
                        NEW c \in Claims, NEW d \in Claims, BoundTo(u, c), HeldBy(x, d)
                 PROVE  c = d
      BY DEF OneHolder
    <2>1. CASE u \in Versions(pods[q]) /\ x \in Versions(pods[q])
      BY <2>1 DEF Shared, OneHolder
    <2>2. CASE q = p /\ u = v /\ x = v
      BY <2>2 DEF BoundTo, HeldBy
    <2>3. CASE q = p /\ u \in Versions(pods[p]) /\ x = v
      <3>1. BoundTo(u, c) => HeldBy(u, c)
        BY DEF BoundTo, HeldBy
      <3> QED BY <1>2, <2>3, <3>1 DEF Shared, OneHolder
    <2>4. CASE q = p /\ u = v /\ x \in Versions(pods[p])
      <3>1. HeldBy(v, c)
        BY <2>4 DEF BoundTo, HeldBy
      <3> QED BY <1>2, <1>4, <2>4, <3>1 DEF Shared, OneHolder
    <2> QED BY <1>1, <2>1, <2>2, <2>3, <2>4
  <1>7. LeftByDeleted'
    <2> SUFFICES ASSUME NEW q \in Pods, NEW c \in Claims, NEW u \in Versions(pods'[q]),
                        BoundTo(u, c), ~HeldBy(Pod(q)', c)
                 PROVE  AllDeleted(c)
      BY <1>3 DEF LeftByDeleted
    <2>1. CASE q # p
      BY <1>1, <2>1 DEF Shared, LeftByDeleted
    <2>2. CASE q = p
      <3>1. u # v
        BY <1>1, <2>2 DEF BoundTo, HeldBy
      <3> QED BY <1>1, <2>2, <3>1 DEF Shared, LeftByDeleted
    <2> QED BY <2>1, <2>2
  <1>8. DeletedForGood'
    BY DEF Shared, DeletedForGood
  <1>9. OnlyHeldIsClaimed'
    BY <1>1 DEF Shared, OnlyHeldIsClaimed
  <1> QED BY <1>5, <1>6, <1>7, <1>8, <1>9 DEF Shared

\* A claim is written: a live version refers to a pod the claim holds, and a
\* deleted claim stays deleted.
LEMMA ClaimStep ==
  ASSUME TypeOK, Shared, UNCHANGED pods,
         NEW c \in Claims, NEW v \in ClaimObj, WriteClaim(c, v),
         v.st = "live" /\ v.podName # None => HeldBy(Pod(v.podName), c),
         Deleted(Claim(c)) => Deleted(v)
  PROVE  /\ Shared'
         /\ \A d \in Claims : AllDeleted(d) => AllDeleted(d)'
  <1>1. /\ Versions(claims'[c]) \subseteq Versions(claims[c]) \cup {v}
        /\ Claim(c)' = v
        /\ \A d \in Claims \ {c} : claims'[d] = claims[d] /\ Claim(d)' = Claim(d)
    BY ClaimVersions
  <1>2. \A d \in Claims : AllDeleted(d) => AllDeleted(d)'
    <2>1. Claim(c) \in Versions(claims[c])
      BY VersionsOf
    <2> QED BY <1>1, <2>1 DEF AllDeleted
  <1>3. \A p \in Pods : Pod(p)' = Pod(p)
    BY DEF Pod
  <1>4. ReferredIsHeld'
    <2> SUFFICES ASSUME NEW d \in Claims, NEW cl \in Versions(claims'[d]),
                        cl.st = "live", cl.podName # None
                 PROVE  HeldBy(Pod(cl.podName)', d)
      BY DEF ReferredIsHeld
    <2>1. CASE d = c /\ cl = v
      BY <1>3, <2>1 DEF ClaimObj
    <2>2. CASE cl \in Versions(claims[d])
      <3>1. HeldBy(Pod(cl.podName), d) /\ cl.podName \in Pods
        BY <2>2, VersionsOf DEF Shared, ReferredIsHeld, ClaimObj
      <3> QED BY <1>3, <3>1
    <2> QED BY <1>1, <2>1, <2>2
  <1>5. OneHolder' /\ OnlyHeldIsClaimed'
    BY DEF Shared, OneHolder, OnlyHeldIsClaimed
  <1>6. LeftByDeleted'
    BY <1>2, <1>3 DEF Shared, LeftByDeleted
  <1>7. DeletedForGood'
    <2> DEFINE D == {cl \in ClaimObj : Deleted(cl)}
    <2>1. claims[c] \in Logs(ClaimObj) /\ claims'[c] = Write(claims[c], v)
      BY DEF TypeOK, WriteClaim
    <2>2. \A i \in 1 .. Len(claims[c]) : claims[c][i] \in ClaimObj
      BY <2>1, LogEnds
    <2>3. \A k, l \in 1 .. Len(claims[c]) : k <= l /\ claims[c][k] \in D => claims[c][l] \in D
      BY <2>2 DEF Shared, DeletedForGood
    <2>4. Latest(claims[c]) \in D => v \in D
      BY DEF Claim
    <2> HIDE DEF D
    <2>5. \A k, l \in 1 .. Len(claims'[c]) : k <= l /\ claims'[c][k] \in D => claims'[c][l] \in D
      BY <2>1, <2>3, <2>4, WriteOrdered
    <2>6. claims'[c] \in Logs(ClaimObj)
      BY <2>1, WriteLog
    <2>7. \A i \in 1 .. Len(claims'[c]) : claims'[c][i] \in ClaimObj
      BY <2>6, LogEnds
    <2>8. \A k, l \in 1 .. Len(claims'[c]) :
            k <= l /\ Deleted(claims'[c][k]) => Deleted(claims'[c][l])
      BY <2>5, <2>7 DEF D
    <2> QED BY <1>1, <2>8 DEF Shared, DeletedForGood
  <1> QED BY <1>2, <1>4, <1>5, <1>6, <1>7 DEF Shared

\* A write of somebody else to a pod: nobody's pod changes hands, and the
\* worker's copy of it is stale from then on.
LEMMA OthersPodStep ==
  ASSUME BindingInv, UNCHANGED claims,
         NEW p \in Pods, NEW v \in PodObj, WritePod(p, v), PodTouched(p), Exists(p),
         v.phase \notin {"Bound", "Gone"} => v.by = None,
         \A c \in Claims : HeldBy(Pod(p), c) <=> HeldBy(v, c),
         v.phase \in {"Idle", "Bound"} =>
           plan'[p] = "none" \/ Pod(p).phase \in {"Idle", "Bound"},
         \A q \in Pods : plan'[q] \in {plan[q], "none"}
  PROVE  Shared' /\ Private'
  <1> USE DEF BindingInv
  <1>1. Shared'
    BY Parts, PodStep
  <1>2. /\ Versions(pods'[p]) \subseteq Versions(pods[p]) \cup {v}
        /\ Pod(p)' = v
        /\ \A q \in Pods \ {p} : pods'[q] = pods[q] /\ Pod(q)' = Pod(q)
    BY PodVersions
  <1>3. Pod(p) \in Versions(pods[p])
    BY VersionsOf
  <1>4. /\ w'.pc = w.pc /\ w'.c = w.c /\ w'.pod = w.pod /\ w'.obj = w.obj
        /\ w'.bind = w.bind /\ w'.fresh = w.fresh /\ w'.todo = w.todo
        /\ w'.heir = w.heir /\ w'.cur = w.cur \ {p}
        /\ w.todo \subseteq Pods
        /\ w.pc # "rest" => w.c \in Claims
        /\ w.pc \in {"working", "patch", "drain", "release"} => w.pod \in Pods
    BY DEF PodTouched, TypeOK, Worker
  <1>5. PlannedIsFree'
    BY <1>2 DEF PlannedIsFree
  <1>6. NoMigration'
    BY <1>4 DEF NoMigration
  <1>7. KnowsCandidates'
    BY <1>2, <1>4 DEF KnowsCandidates
  <1>8. KnowsHolder'
    BY <1>2, <1>4 DEF KnowsHolder
  <1>9. KnowsClaim'
    BY <1>4 DEF KnowsClaim, Claim
  <1>10. KnowsReclaimed'
    <2>1. CASE w.pc \notin {"owned", "drain", "release"}
      BY <1>4, <2>1 DEF KnowsReclaimed
    <2>2. CASE w.pc \in {"owned", "drain", "release"}
      <3>1. AllDeleted(w.c)'
        BY <1>4, <2>2 DEF KnowsReclaimed, AllDeleted
      <3>2. \A q \in w.todo : w.heir[q] = None
        BY <2>2 DEF KnowsReclaimed
      <3>3. \A q \in w.todo : \A u \in Versions(pods'[q]) : \A d \in Claims :
              HeldBy(u, d) => d = w.c
        <4> SUFFICES ASSUME NEW q \in w.todo, NEW u \in Versions(pods'[q]), NEW d \in Claims,
                            HeldBy(u, d)
                     PROVE  d = w.c
          OBVIOUS
        <4>1. \A x \in Versions(pods[q]) : HeldBy(x, d) => d = w.c
          BY <2>2 DEF KnowsReclaimed
        <4>2. CASE q = p /\ u = v
          BY <1>3, <4>1, <4>2
        <4>3. CASE u \in Versions(pods[q])
          BY <4>1, <4>3
        <4> QED BY <1>2, <1>4, <4>2, <4>3
      <3>4. w.pc \in {"drain", "release"} => w.pod \in w.todo
        BY DEF KnowsReclaimed
      <3> QED BY <1>4, <3>1, <3>2, <3>3, <3>4 DEF KnowsReclaimed
    <2> QED BY <2>1, <2>2
  <1> QED BY <1>1, <1>5, <1>6, <1>7, <1>8, <1>9, <1>10 DEF Private

\* A write of somebody else to a claim.
LEMMA OthersClaimStep ==
  ASSUME BindingInv, UNCHANGED <<pods, plan>>,
         NEW c \in Claims, NEW v \in ClaimObj, WriteClaim(c, v), ClaimTouched(c),
         v.st = "live" /\ v.podName # None => HeldBy(Pod(v.podName), c),
         Deleted(Claim(c)) => Deleted(v),
         v.source = None
  PROVE  Shared' /\ Private'
  <1> USE DEF BindingInv
  <1>1. Shared' /\ \A d \in Claims : AllDeleted(d) => AllDeleted(d)'
    BY Parts, ClaimStep
  <1>2. /\ Versions(claims'[c]) \subseteq Versions(claims[c]) \cup {v}
        /\ Claim(c)' = v
        /\ \A d \in Claims \ {c} : claims'[d] = claims[d] /\ Claim(d)' = Claim(d)
    BY ClaimVersions
  <1>3. /\ w'.pc = w.pc /\ w'.c = w.c /\ w'.pod = w.pod /\ w'.obj = w.obj
        /\ w'.bind = w.bind /\ w'.todo = w.todo /\ w'.heir = w.heir /\ w'.cur = w.cur
        /\ w'.fresh => w.fresh /\ w.c # c
        /\ w.pc # "rest" => w.c \in Claims
    BY DEF ClaimTouched, TypeOK, Worker
  <1>4. \A p \in Pods : Pod(p)' = Pod(p)
    BY DEF Pod
  <1>5. PlannedIsFree'
    BY DEF PlannedIsFree, Pod
  <1>6. NoMigration'
    BY <1>2, <1>3 DEF NoMigration
  <1>7. KnowsCandidates'
    BY <1>3 DEF KnowsCandidates, Pod
  <1>8. KnowsHolder'
    BY <1>3 DEF KnowsHolder, Pod
  <1>9. KnowsClaim'
    BY <1>2, <1>3 DEF KnowsClaim
  <1>10. KnowsReclaimed'
    BY <1>1, <1>3 DEF KnowsReclaimed
  <1> QED BY <1>1, <1>5, <1>6, <1>7, <1>8, <1>9, <1>10 DEF Private

\* A worker at rest knows nothing, and need not.
LEMMA RestingStep ==
  ASSUME NoMigration, PlannedIsFree', w' = Resting,
         \A c \in Claims : \A cl \in Versions(claims'[c]) : cl.source = None
  PROVE  Private'
  <1>1. w'.pc = "rest" /\ w'.obj.source = None
    BY DEF Resting, Unborn
  <1>2. NoMigration'
    BY <1>1 DEF NoMigration
  <1>3. KnowsCandidates' /\ KnowsHolder' /\ KnowsClaim'
    BY <1>1 DEF KnowsCandidates, KnowsHolder, KnowsClaim
  <1>4. KnowsReclaimed'
    BY <1>1 DEF KnowsReclaimed
  <1> QED BY <1>2, <1>3, <1>4 DEF Private

\* A step of the worker that touches no object.
LEMMA QuietStep ==
  ASSUME BindingInv, UNCHANGED <<pods, claims, plan>>
  PROVE  /\ Shared' /\ PlannedIsFree'
         /\ w' = Resting => Private'
  <1>1. Shared'
    BY DEF BindingInv, Shared, ReferredIsHeld, OneHolder, LeftByDeleted, DeletedForGood,
           OnlyHeldIsClaimed, AllDeleted, Pod
  <1>2. PlannedIsFree'
    BY DEF BindingInv, PlannedIsFree, Pod
  <1>3. w' = Resting => Private'
    BY <1>2, RestingStep DEF BindingInv, NoMigration
  <1> QED BY <1>1, <1>2, <1>3

-----------------------------------------------------------------------------
(* Observe *)

\* What Begin makes of the worker's record.
LEMMA BeginFields ==
  ASSUME BindingInv, NEW c \in Claims, NEW rec \in Worker, NEW phase, Begin(c, rec, phase)
  PROVE  /\ w'.pc = rec.pc /\ w'.c = c /\ w'.bind = rec.bind /\ w'.todo = rec.todo
         /\ w'.cur = rec.cur /\ w'.pod = rec.pod /\ w'.heir = rec.heir
         /\ w'.obj.source = None
         /\ UNCHANGED <<pods, claims, ha, plan>>
  <1>1. SeenClaim(c) \in ClaimObj /\ SeenClaim(c).source = None
    BY Reads, VersionsOf DEF BindingInv, NoMigration
  <1>2. [SeenClaim(c) EXCEPT !.phase = phase].source = None
    BY <1>1 DEF ClaimObj
  <1> QED BY <1>2 DEF Begin, Worker

\* A reconciliation begins in a state that the cache, however far behind,
\* describes well enough.
LEMMA ObserveStep ==
  ASSUME BindingInv, NEW c \in Claims, Observe(c)
  PROVE  Shared' /\ Private'
  <1> USE Objects DEF BindingInv
  <1>0. SeenClaim(c) \in ClaimObj
    BY Reads
  <1>1. UNCHANGED <<pods, claims, ha, plan>>
    BY DEF Observe, Bind, BindOrphan, Sync, SyncGone, SyncDead, Finalize, Begin
  <1>2. Shared' /\ PlannedIsFree'
    BY <1>1, QuietStep
  <1>3. \A p \in Pods : Pod(p)' = Pod(p)
    BY <1>1 DEF Pod
  <1>4. SUFFICES Private'
    BY <1>2
  <1>5. \A d \in Claims : \A cl \in Versions(claims'[d]) : cl.source = None
    BY <1>1 DEF NoMigration
  <1>6. CASE Bind(c)
    <2> DEFINE idle == {p \in Pods : Candidate(c, p)}
               rec == [Binding EXCEPT !.pc   = IF idle = {} THEN "nominate" ELSE "own",
                                      !.todo = idle,
                                      !.cur  = {p \in idle : UpToDate(pods[p])}]
    <2>1. idle \in SUBSET Pods /\ {p \in idle : UpToDate(pods[p])} \in SUBSET Pods
      OBVIOUS
    <2>a. Binding.bind = TRUE
      BY DEF Binding, Resting
    <2>2. rec \in Worker /\ rec.pc \in {"nominate", "own"} /\ rec.bind = TRUE
          /\ rec.todo = idle /\ rec.cur = {p \in idle : UpToDate(pods[p])}
      BY <2>1, <2>a DEF Worker, Steps
    <2>3. Begin(c, rec, "Pending")
      BY <1>6 DEF Bind
    <2>4. \A p \in idle : UpToDate(pods[p]) => Pod(p).phase = "Idle"
      BY VersionsOf DEF Candidate
    <2> HIDE DEF idle, rec
    <2>5. /\ w'.pc \in {"nominate", "own"} /\ w'.bind /\ w'.todo = idle
          /\ w'.cur = {p \in idle : UpToDate(pods[p])} /\ w'.obj.source = None
      BY <2>2, <2>3, BeginFields
    <2>6. NoMigration'
      BY <1>5, <2>5 DEF NoMigration
    <2>7. KnowsCandidates'
      BY <1>1, <1>3, <2>1, <2>4, <2>5 DEF KnowsCandidates
    <2>8. KnowsHolder' /\ KnowsClaim'
      BY <2>5 DEF KnowsHolder, KnowsClaim
    <2>9. KnowsReclaimed'
      BY <2>5 DEF KnowsReclaimed
    <2> QED BY <1>2, <2>6, <2>7, <2>8, <2>9 DEF Private
  <1>7. CASE \E p \in Pods : BindOrphan(c, p)
    <2>1. PICK p \in Pods : BindOrphan(c, p)
      BY <1>7
    <2> DEFINE rec == syncBindPod(Binding, p, TRUE)
    <2>2. rec \in Worker /\ rec.pc = "working" /\ rec.pod = p
      BY DEF syncBindPod, Worker, Steps
    <2>3. Begin(c, rec, "Pending")
      BY <2>1 DEF BindOrphan
    <2> HIDE DEF rec
    <2>4. w'.pc = "working" /\ w'.pod = p /\ w'.c = c /\ w'.obj.source = None
      BY <2>2, <2>3, BeginFields
    <2>5. HeldBy(Pod(p), c)
      <3>1. SeenPod(p) \in Versions(pods[p]) /\ BoundTo(SeenPod(p), c)
        BY <2>1, VersionsOf DEF BindOrphan, listOwned
      <3>2. SeenClaim(c) \in Versions(claims[c]) /\ ~Deleted(SeenClaim(c))
        BY <2>1, VersionsOf DEF BindOrphan, MayBind, Deleted
      <3>3. ~AllDeleted(c)
        BY <3>2 DEF AllDeleted
      <3> QED BY <3>1, <3>3 DEF LeftByDeleted
    <2>6. NoMigration'
      BY <1>5, <2>4 DEF NoMigration
    <2>7. KnowsCandidates' /\ KnowsClaim'
      BY <2>4 DEF KnowsCandidates, KnowsClaim
    <2>8. KnowsHolder'
      BY <1>3, <2>4, <2>5 DEF KnowsHolder
    <2>9. KnowsReclaimed'
      BY <2>4 DEF KnowsReclaimed
    <2> QED BY <1>2, <2>6, <2>7, <2>8, <2>9 DEF Private
  <1>8. CASE Sync(c)
    <2> DEFINE q == SeenClaim(c).podName
               rec == [Resting EXCEPT !.pc = "own", !.todo = {q},
                                      !.cur = {r \in {q} : UpToDate(pods[r])}]
    <2>1. q \in Pods /\ SeenClaim(c).st = "live" /\ q # None
      BY <1>0, <1>8 DEF Sync, MaySync, ClaimObj
    <2>2. rec \in Worker /\ rec.pc = "own" /\ rec.bind = FALSE /\ rec.todo = {q}
          /\ rec.cur = {r \in {q} : UpToDate(pods[r])}
      BY <2>1 DEF Worker, Steps, Resting
    <2>3. Begin(c, rec, SeenClaim(c).phase)
      BY <1>8 DEF Sync
    <2>4. HeldBy(Pod(q), c)
      BY <2>1, VersionsOf DEF ReferredIsHeld
    <2>5. UpToDate(pods[q]) => Pod(q).phase = "Bound"
      <3>1. SeenPod(q).phase # "Gone"
        BY <1>8 DEF Sync
      <3> QED BY <2>1, <2>4, <3>1, VersionsOf DEF HeldBy
    <2> HIDE DEF q, rec
    <2>6. /\ w'.pc = "own" /\ w'.c = c /\ w'.bind = FALSE /\ w'.todo = {q}
          /\ w'.cur = {r \in {q} : UpToDate(pods[r])} /\ w'.obj.source = None
      BY <2>2, <2>3, BeginFields
    <2>7. NoMigration'
      BY <1>5, <2>6 DEF NoMigration
    <2>8. KnowsCandidates'
      BY <1>1, <1>3, <2>1, <2>4, <2>5, <2>6 DEF KnowsCandidates
    <2>9. KnowsHolder' /\ KnowsClaim'
      BY <2>6 DEF KnowsHolder, KnowsClaim
    <2>10. KnowsReclaimed'
      BY <2>6 DEF KnowsReclaimed
    <2> QED BY <1>2, <2>7, <2>8, <2>9, <2>10 DEF Private
  <1>9. CASE SyncGone(c) \/ SyncDead(c)
    <2>1. PICK pc \in {"clear", "status"}, phase \in {SeenClaim(c).phase, "Lost"} :
            Begin(c, [Resting EXCEPT !.pc = pc], phase)
      BY <1>9 DEF SyncGone, SyncDead
    <2>2. [Resting EXCEPT !.pc = pc] \in Worker /\ [Resting EXCEPT !.pc = pc].pc = pc
      BY DEF Worker, Steps
    <2>3. w'.pc \in {"clear", "status"} /\ w'.obj.source = None
      BY <2>1, <2>2, BeginFields
    <2>4. NoMigration'
      BY <1>5, <2>3 DEF NoMigration
    <2>5. KnowsCandidates' /\ KnowsHolder' /\ KnowsClaim'
      BY <2>3 DEF KnowsCandidates, KnowsHolder, KnowsClaim
    <2>6. KnowsReclaimed'
      BY <2>3 DEF KnowsReclaimed
    <2> QED BY <1>2, <2>4, <2>5, <2>6 DEF Private
  <1>10. CASE Finalize(c)
    <2> DEFINE owned == listOwned(c)
               holders(p) == buildPodClaimIndex(p, c)
               heir == [p \in Pods |-> IF p \in owned /\ holders(p) # {}
                                       THEN CHOOSE d \in holders(p) : TRUE
                                       ELSE None]
               stuck == {p \in owned : \/ Cardinality(holders(p)) > 1
                                       \/ \E d \in holders(p) : ~IsReady(SeenClaim(d))}
               rec == [Resting EXCEPT !.pc = IF owned = {} THEN "unfinalize" ELSE "owned",
                                      !.todo = owned, !.stuck = stuck, !.heir = heir]
    <2>1. owned \in SUBSET Pods /\ stuck \in SUBSET Pods
      BY DEF listOwned
    <2>2. heir \in [Pods -> Claims \cup {None}]
      BY DEF buildPodClaimIndex
    <2>3. ASSUME NEW p \in owned, NEW v \in Versions(pods[p]), NEW d \in Claims, HeldBy(v, d)
          PROVE  d = c
      <3>1. p \in Pods /\ SeenPod(p) \in Versions(pods[p]) /\ BoundTo(SeenPod(p), c)
        BY VersionsOf DEF listOwned
      <3> QED BY <2>3, <3>1 DEF OneHolder
    <2>4. ASSUME NEW p \in owned PROVE holders(p) = {}
      <3> SUFFICES ASSUME NEW d \in holders(p) PROVE FALSE
        OBVIOUS
      <3>1. d \in Claims \ {c} /\ SeenClaim(d).st = "live" /\ SeenClaim(d).podName = p
        BY DEF buildPodClaimIndex
      <3>2. p \in Pods /\ p # None
        BY <2>1, ClaimAssumption
      <3>3. HeldBy(Pod(p), d)
        BY <3>1, <3>2, VersionsOf DEF ReferredIsHeld
      <3> QED BY <2>3, <3>1, <3>2, <3>3, VersionsOf
    <2>5. \A p \in owned : heir[p] = None
      BY <2>1, <2>4
    <2>6. AllDeleted(c)
      <3>1. claims[c][1] = SeenClaim(c) /\ Deleted(SeenClaim(c))
        BY <1>10 DEF Finalize, SeenClaim, Cached, Deleted
      <3>2. Len(claims[c]) \in Nat \ {0}
        BY Reads, LogEnds
      <3> QED BY <3>1, <3>2 DEF DeletedForGood, AllDeleted, Versions
    <2> HIDE DEF owned, stuck, heir
    <2>7. rec \in Worker /\ rec.pc \in {"unfinalize", "owned"} /\ rec.todo = owned
          /\ rec.heir = heir
      BY <2>1, <2>2 DEF Worker, Steps
    <2>8. Begin(c, rec, SeenClaim(c).phase)
      BY <1>10 DEF Finalize, owned, stuck, heir
    <2> HIDE DEF rec
    <2>9. w'.pc \in {"unfinalize", "owned"} /\ w'.c = c /\ w'.todo = owned /\ w'.heir = heir
          /\ w'.obj.source = None
      BY <2>7, <2>8, BeginFields
    <2>10. NoMigration'
      BY <1>5, <2>9 DEF NoMigration
    <2>11. KnowsCandidates' /\ KnowsHolder' /\ KnowsClaim'
      BY <2>9 DEF KnowsCandidates, KnowsHolder, KnowsClaim
    <2>12. KnowsReclaimed'
      <3>1. AllDeleted(c)'
        BY <1>1, <2>6 DEF AllDeleted
      <3>2. AllDeleted(w.c)'
        BY <2>9, <3>1 DEF AllDeleted
      <3> QED BY <1>1, <2>3, <2>5, <2>9, <3>2 DEF KnowsReclaimed
    <2> QED BY <1>2, <2>10, <2>11, <2>12 DEF Private
  <1> QED BY <1>6, <1>7, <1>8, <1>9, <1>10 DEF Observe

-----------------------------------------------------------------------------
(* The steps of a reconciliation *)

\* A write of the worker to its claim.
LEMMA WorkerClaimStep ==
  ASSUME BindingInv, UNCHANGED <<pods, plan>>,
         NEW c \in Claims, NEW v \in ClaimObj, WriteClaim(c, v),
         v.st = "live" /\ v.podName # None => HeldBy(Pod(v.podName), c),
         Deleted(Claim(c)) => Deleted(v),
         v.source = None
  PROVE  /\ Shared' /\ PlannedIsFree'
         /\ Claim(c)' = v
         /\ \A d \in Claims : \A cl \in Versions(claims'[d]) : cl.source = None
         /\ w' = Resting => Private'
  <1>1. Shared'
    BY Parts, ClaimStep
  <1>2. PlannedIsFree'
    BY DEF BindingInv, PlannedIsFree, Pod
  <1>3. /\ Claim(c)' = v
        /\ \A d \in Claims : \A cl \in Versions(claims'[d]) : cl.source = None
    BY ClaimVersions DEF BindingInv, NoMigration
  <1>4. w' = Resting => Private'
    BY <1>2, <1>3, RestingStep DEF BindingInv
  <1> QED BY <1>1, <1>2, <1>3, <1>4

\* Writing the claim as it is, but for its pool or its status.
LEMMA ClaimStaysStep ==
  ASSUME BindingInv, UNCHANGED <<pods, plan>>, w' = Resting,
         NEW c \in Claims, NEW v \in ClaimObj, UNCHANGED claims \/ WriteClaim(c, v),
         v.st = Claim(c).st, v.podName = Claim(c).podName, v.source = Claim(c).source
  PROVE  Shared' /\ Private'
  <1>1. CASE UNCHANGED claims
    BY <1>1, QuietStep
  <1>2. CASE WriteClaim(c, v)
    <2>1. Claim(c) \in Versions(claims[c])
      BY VersionsOf DEF BindingInv
    <2>2. v.st = "live" /\ v.podName # None => HeldBy(Pod(v.podName), c)
      BY <2>1 DEF BindingInv, ReferredIsHeld
    <2>3. v.source = None
      BY <2>1 DEF BindingInv, NoMigration
    <2>4. Deleted(Claim(c)) => Deleted(v)
      BY DEF Deleted
    <2> QED BY <1>2, <2>2, <2>3, <2>4, WorkerClaimStep
  <1> QED BY <1>1, <1>2

\* Bind and Sync.
LEMMA BindStep ==
  ASSUME BindingInv,
         \/ \E p \in Pods : ensureOwnership(p) \/ OwnershipConflict(p)
         \/ \E pool \in Pools : Nominate(pool)
         \/ SetWorking \/ PatchClaim \/ UpdateStatus \/ ClearLost \/ SyncStatus
  PROVE  Shared' /\ Private'
  <1> USE Objects DEF BindingInv
  <1>1. w \in Worker /\ w.obj \in ClaimObj /\ w.obj.source = None
    BY DEF TypeOK, Worker, NoMigration
  <1>2. ASSUME NEW p \in Pods, ensureOwnership(p) PROVE Shared' /\ Private'
    <2>1. Pod(p) \in PodObj /\ w.c \in Claims /\ w.c # None
      BY <1>2, Reads, ClaimAssumption DEF ensureOwnership, TypeOK
    <2> DEFINE v == OwnedBy(Pod(p), w.c)
    <2>2. v \in PodObj /\ v.phase = "Bound" /\ v.by = w.c
      BY <2>1 DEF OwnedBy, PodObj, PodPhases
    <2>3. UpToDate(pods[p]) /\ Pod(p).phase \in {"Idle", "Bound"}
          /\ (Pod(p).phase = "Idle" \/ HeldBy(Pod(p), w.c))
      BY <1>2 DEF ensureOwnership, UpdateSucceeds, KnowsCandidates
    <2>4. WritePod(p, v) /\ UNCHANGED <<claims, ha, plan>>
      BY <1>2 DEF ensureOwnership
    <2> HIDE DEF v
    <2>5. \A d \in Claims : HeldBy(Pod(p), d) => d = w.c
      BY <2>3 DEF HeldBy
    <2>6. \A d \in Claims : HeldBy(v, d) <=> d = w.c
      BY <2>2 DEF HeldBy
    <2>7. Shared'
      <3>1. Exists(p)
        BY <2>3 DEF Exists
      <3> QED BY <2>1, <2>2, <2>3, <2>4, <2>5, <2>6, <3>1, Parts, PodStep
    <2>8. Pod(p)' = v /\ \A q \in Pods \ {p} : Pod(q)' = Pod(q)
      BY <2>2, <2>4, PodVersions
    <2>9. PlannedIsFree'
      BY <2>3, <2>4, <2>8 DEF PlannedIsFree
    <2>10. \A d \in Claims : \A cl \in Versions(claims'[d]) : cl.source = None
      BY <2>4 DEF NoMigration
    <2>11. CASE w' = Resting
      BY <2>7, <2>9, <2>10, <2>11, RestingStep
    <2>12. CASE w' # Resting
      <3>1. w'.pc = "working" /\ w'.pod = p /\ w'.c = w.c /\ w'.obj = w.obj
        BY <1>1, <1>2, <2>12 DEF ensureOwnership, syncBindPod, Worker
      <3>2. NoMigration'
        BY <1>1, <2>10, <3>1 DEF NoMigration
      <3>3. KnowsHolder'
        BY <2>1, <2>6, <2>8, <3>1 DEF KnowsHolder
      <3>4. KnowsCandidates' /\ KnowsClaim'
        BY <3>1 DEF KnowsCandidates, KnowsClaim
      <3>5. KnowsReclaimed'
        BY <3>1 DEF KnowsReclaimed
      <3> QED BY <2>7, <2>9, <3>2, <3>3, <3>4, <3>5 DEF Private
    <2> QED BY <2>11, <2>12
  <1>3. ASSUME NEW p \in Pods, OwnershipConflict(p) PROVE Shared' /\ Private'
    <2>1. UNCHANGED <<pods, claims, plan>>
      BY <1>3 DEF OwnershipConflict
    <2>2. Shared' /\ PlannedIsFree' /\ (w' = Resting => Private')
      BY <2>1, QuietStep
    <2>3. CASE w' # Resting
      <3>1. /\ w'.pc \in {"own", "nominate"} /\ w'.c = w.c /\ w'.obj = w.obj
            /\ w'.todo = w.todo \ {p} /\ w'.cur = w.cur /\ w'.bind = w.bind
            /\ w.pc = "own"
        BY <1>1, <1>3, <2>3 DEF OwnershipConflict, Worker
      <3>2. NoMigration'
        BY <1>1, <2>1, <3>1 DEF NoMigration
      <3>3. KnowsCandidates'
        BY <2>1, <3>1 DEF KnowsCandidates, Pod
      <3>4. KnowsHolder' /\ KnowsClaim'
        BY <3>1 DEF KnowsHolder, KnowsClaim
      <3>5. KnowsReclaimed'
        BY <3>1 DEF KnowsReclaimed
      <3> QED BY <2>2, <3>2, <3>3, <3>4, <3>5 DEF Private
    <2> QED BY <2>2, <2>3
  <1>4. ASSUME NEW pool \in Pools, Nominate(pool) PROVE Shared' /\ Private'
    <2>1. w.c \in Claims /\ Claim(w.c) \in ClaimObj
      BY <1>4, Reads DEF Nominate, TypeOK
    <2>2. UNCHANGED <<pods, plan>>
      BY <1>4 DEF Nominate
    <2>3. CASE w.obj.pool # None
      <3>1. UNCHANGED claims /\ w'.pc = "status" /\ w'.obj = w.obj
        BY <1>1, <1>4, <2>3 DEF Nominate, Goto, Worker
      <3>2. Shared' /\ PlannedIsFree'
        BY <2>2, <3>1, QuietStep
      <3>3. NoMigration'
        BY <1>1, <3>1 DEF NoMigration
      <3>4. KnowsCandidates' /\ KnowsHolder' /\ KnowsClaim'
        BY <3>1 DEF KnowsCandidates, KnowsHolder, KnowsClaim
      <3>5. KnowsReclaimed'
        BY <3>1 DEF KnowsReclaimed
      <3> QED BY <3>2, <3>3, <3>4, <3>5 DEF Private
    <2>4. CASE w.obj.pool = None
      <3> DEFINE v == [Claim(w.c) EXCEPT !.pool = pool]
      <3>1. v \in ClaimObj /\ v.st = Claim(w.c).st /\ v.podName = Claim(w.c).podName
            /\ v.source = Claim(w.c).source
        BY <2>1 DEF ClaimObj
      <3>2. w' = Resting /\ (UNCHANGED claims \/ WriteClaim(w.c, v))
        BY <1>4, <2>4 DEF Nominate, Return
      <3> HIDE DEF v
      <3> QED BY <2>1, <2>2, <3>1, <3>2, ClaimStaysStep
    <2> QED BY <2>3, <2>4
  <1>5. ASSUME SetWorking PROVE Shared' /\ Private'
    <2>1. UNCHANGED <<pods, claims, plan>> /\ w.pc = "working"
      BY <1>5 DEF SetWorking
    <2>2. w'.pc = "patch" /\ w'.pod = w.pod /\ w'.c = w.c /\ w'.obj = w.obj
      BY <1>1, <1>5 DEF SetWorking, Goto, Worker
    <2>3. Shared' /\ PlannedIsFree'
      BY <2>1, QuietStep
    <2>4. NoMigration'
      BY <1>1, <2>1, <2>2 DEF NoMigration
    <2>5. KnowsHolder'
      BY <2>1, <2>2 DEF KnowsHolder, Pod
    <2>6. KnowsCandidates' /\ KnowsClaim'
      BY <2>2 DEF KnowsCandidates, KnowsClaim
    <2>7. KnowsReclaimed'
      BY <2>2 DEF KnowsReclaimed
    <2> QED BY <2>3, <2>4, <2>5, <2>6, <2>7 DEF Private
  <1>6. ASSUME PatchClaim PROVE Shared' /\ Private'
    <2>1. w.c \in Claims /\ Claim(w.c) \in ClaimObj /\ w.pod \in Pods /\ PoolOf[w.pod] \in Pools
      BY <1>6, Reads, ClaimAssumption DEF PatchClaim, TypeOK
    <2>2. UNCHANGED <<pods, plan>> /\ w.pc = "patch"
      BY <1>6 DEF PatchClaim
    <2>3. CASE ~Present(Claim(w.c))
      BY <1>6, <2>2, <2>3, QuietStep DEF PatchClaim, Return
    <2>4. CASE Present(Claim(w.c))
      <3> DEFINE v == Bound(Claim(w.c))
      <3>1. v \in ClaimObj /\ v.st = Claim(w.c).st /\ v.source = Claim(w.c).source
            /\ v.podName \in {Claim(w.c).podName, w.pod}
        BY <2>1 DEF Bound, ClaimObj
      <3>2. WriteClaim(w.c, v) /\ w' = [w EXCEPT !.pc = "bound", !.fresh = TRUE, !.obj = v]
        BY <1>6, <2>4 DEF PatchClaim
      <3> HIDE DEF v
      <3>3. Claim(w.c) \in Versions(claims[w.c])
        BY <2>1, VersionsOf
      <3>4. v.st = "live" /\ v.podName # None => HeldBy(Pod(v.podName), w.c)
        BY <2>1, <2>2, <3>1, <3>3 DEF ReferredIsHeld, KnowsHolder
      <3>5. v.source = None /\ (Deleted(Claim(w.c)) => Deleted(v))
        BY <2>1, <3>1, <3>3 DEF NoMigration, Deleted
      <3>6. /\ Shared' /\ PlannedIsFree' /\ Claim(w.c)' = v
            /\ \A d \in Claims : \A cl \in Versions(claims'[d]) : cl.source = None
        <4>1. ASSUME NEW c \in Claims, c = w.c
              PROVE  /\ Shared' /\ PlannedIsFree' /\ claims'[c][Len(claims'[c])] = v
                     /\ \A d \in Claims : \A cl \in Versions(claims'[d]) : cl.source = None
          BY <2>2, <3>1, <3>2, <3>4, <3>5, <4>1, WorkerClaimStep DEF Claim, Latest
        <4>2. w'.c = w.c
          BY <1>1, <3>2 DEF Worker
        <4> QED BY <2>1, <4>1, <4>2 DEF Claim, Latest
      <3>7. w'.pc = "bound" /\ w'.c = w.c /\ w'.obj = v
        BY <1>1, <3>2 DEF Worker
      <3>8. NoMigration'
        BY <3>5, <3>6, <3>7 DEF NoMigration
      <3>9. KnowsClaim'
        BY <3>6, <3>7 DEF KnowsClaim
      <3>10. KnowsCandidates' /\ KnowsHolder'
        BY <3>7 DEF KnowsCandidates, KnowsHolder
      <3>11. KnowsReclaimed'
        BY <3>7 DEF KnowsReclaimed
      <3> QED BY <3>6, <3>8, <3>9, <3>10, <3>11 DEF Private
    <2> QED BY <2>3, <2>4
  <1>7. ASSUME UpdateStatus PROVE Shared' /\ Private'
    <2> DEFINE bound == [w.obj EXCEPT !.phase = IF @ \in {"New", "Pending"}
                                                THEN "Bound" ELSE @]
    <2>1. w.c \in Claims /\ UNCHANGED <<pods, plan>> /\ w.pc = "bound"
      BY <1>7 DEF UpdateStatus, TypeOK
    <2>2. bound \in ClaimObj /\ bound.st = w.obj.st /\ bound.podName = w.obj.podName
          /\ bound.source = w.obj.source
      BY <1>1 DEF ClaimObj, ClaimPhases
    <2>3. CASE w.fresh
      <3>1. w.obj = Claim(w.c)
        BY <2>1, <2>3 DEF KnowsClaim
      <3>2. WriteClaim(w.c, bound)
            /\ w' = IF ~w.bind /\ bound.source # None
                    THEN [w EXCEPT !.pc = "migrate", !.obj = bound, !.pod = None]
                    ELSE Resting
        BY <1>7, <2>3 DEF UpdateStatus
      <3> HIDE DEF bound
      <3>3. w' = Resting
        BY <1>1, <2>2, <3>2
      <3> QED BY <2>1, <2>2, <3>1, <3>2, <3>3, ClaimStaysStep
    <2>4. CASE ~w.fresh
      BY <1>7, <2>1, <2>4, QuietStep DEF UpdateStatus, Return
    <2> QED BY <2>3, <2>4
  <1>8. ASSUME ClearLost PROVE Shared' /\ Private'
    <2>1. w.c \in Claims /\ Claim(w.c) \in ClaimObj /\ UNCHANGED <<pods, plan>>
      BY <1>8, Reads DEF ClearLost, TypeOK
    <2>2. CASE ~Present(Claim(w.c))
      BY <1>8, <2>1, <2>2, QuietStep DEF ClearLost, Return
    <2>3. CASE Present(Claim(w.c))
      <3> DEFINE v == [Claim(w.c) EXCEPT !.podName = None]
                 lost == [v EXCEPT !.phase = "Lost"]
      <3>1. v \in ClaimObj /\ v.st = Claim(w.c).st /\ v.source = Claim(w.c).source
            /\ v.podName = None /\ lost.source = v.source
        BY <2>1 DEF ClaimObj
      <3>2. WriteClaim(w.c, v)
            /\ w' = [w EXCEPT !.pc = "status", !.fresh = TRUE, !.obj = lost]
        BY <1>8, <2>3 DEF ClearLost
      <3> HIDE DEF v, lost
      <3>3. v.source = None /\ (Deleted(Claim(w.c)) => Deleted(v))
        BY <2>1, <3>1, VersionsOf DEF NoMigration, Deleted
      <3>4. /\ Shared' /\ PlannedIsFree'
            /\ \A d \in Claims : \A cl \in Versions(claims'[d]) : cl.source = None
        BY <2>1, <3>1, <3>2, <3>3, WorkerClaimStep
      <3>5. w'.pc = "status" /\ w'.obj = lost
        BY <1>1, <3>2 DEF Worker
      <3>6. NoMigration'
        BY <3>1, <3>3, <3>4, <3>5 DEF NoMigration
      <3>7. KnowsCandidates' /\ KnowsHolder' /\ KnowsClaim'
        BY <3>5 DEF KnowsCandidates, KnowsHolder, KnowsClaim
      <3>8. KnowsReclaimed'
        BY <3>5 DEF KnowsReclaimed
      <3> QED BY <3>4, <3>6, <3>7, <3>8 DEF Private
    <2> QED BY <2>2, <2>3
  <1>9. ASSUME SyncStatus PROVE Shared' /\ Private'
    <2>1. w.c \in Claims /\ Claim(w.c) \in ClaimObj /\ UNCHANGED <<pods, plan>>
      BY <1>9, Reads DEF SyncStatus, TypeOK
    <2> DEFINE v == [Claim(w.c) EXCEPT !.phase = w.obj.phase]
    <2>2. v \in ClaimObj /\ v.st = Claim(w.c).st /\ v.podName = Claim(w.c).podName
          /\ v.source = Claim(w.c).source
      BY <1>1, <2>1 DEF ClaimObj
    <2>3. w' = Resting /\ (UNCHANGED claims \/ WriteClaim(w.c, v))
      BY <1>9 DEF SyncStatus, Return
    <2> HIDE DEF v
    <2> QED BY <2>1, <2>2, <2>3, ClaimStaysStep
  <1> QED BY <1>2, <1>3, <1>4, <1>5, <1>6, <1>7, <1>8, <1>9

\* Migration, which does not happen, and Finalize.
LEMMA ReclaimStep ==
  ASSUME BindingInv,
         \/ \E p \in Pods : FinalizeStuck(p) \/ transferPodOwnership(p) \/ FinalizeReclaim(p)
         \/ MigrateObserve \/ MigrateWait \/ completeMigration
         \/ SetDraining \/ reclaimCN \/ RemoveFinalizer
  PROVE  Shared' /\ Private'
  <1> USE Objects DEF BindingInv
  <1>1. w \in Worker /\ w.obj.source = None
    BY DEF TypeOK, NoMigration
  <1>2. ~(MigrateObserve \/ MigrateWait \/ completeMigration)
    BY DEF MigrateObserve, MigrateWait, completeMigration, NoMigration
  <1>3. ASSUME NEW p \in Pods, FinalizeStuck(p) PROVE Shared' /\ Private'
    BY <1>3, QuietStep DEF FinalizeStuck, Return
  <1>4. ASSUME NEW p \in Pods, transferPodOwnership(p) PROVE FALSE
    BY <1>4 DEF transferPodOwnership, KnowsReclaimed
  <1>5. ASSUME UNCHANGED <<pods, claims, plan>>,
               w.pc \in {"owned", "drain"}, w'.pc \in {"drain", "release"},
               w'.c = w.c, w'.todo = w.todo, w'.heir = w.heir, w'.obj = w.obj,
               w'.pod \in w.todo
        PROVE  Shared' /\ Private'
    <2>1. Shared' /\ PlannedIsFree'
      BY <1>5, QuietStep
    <2>2. NoMigration'
      BY <1>1, <1>5 DEF NoMigration
    <2>3. KnowsCandidates' /\ KnowsHolder' /\ KnowsClaim'
      BY <1>5 DEF KnowsCandidates, KnowsHolder, KnowsClaim
    <2>4. KnowsReclaimed'
      <3>1. AllDeleted(w.c)'
        BY <1>5 DEF KnowsReclaimed, AllDeleted
      <3> QED BY <1>5, <3>1 DEF KnowsReclaimed
    <2> QED BY <2>1, <2>2, <2>3, <2>4 DEF Private
  <1>6. ASSUME NEW p \in Pods, FinalizeReclaim(p) PROVE Shared' /\ Private'
    <2>1. /\ w'.pc = "drain" /\ w'.c = w.c /\ w'.todo = w.todo /\ w'.heir = w.heir
          /\ w'.obj = w.obj /\ w'.pod \in w.todo /\ w.pc = "owned"
      BY <1>1, <1>6 DEF FinalizeReclaim, Worker
    <2> QED BY <1>5, <1>6, <2>1 DEF FinalizeReclaim
  <1>7. ASSUME SetDraining PROVE Shared' /\ Private'
    <2>1. /\ w'.pc = "release" /\ w'.c = w.c /\ w'.todo = w.todo /\ w'.heir = w.heir
          /\ w'.obj = w.obj /\ w'.pod = w.pod /\ w.pc = "drain"
      BY <1>1, <1>7 DEF SetDraining, Goto, Worker
    <2>2. w.pod \in w.todo
      BY <2>1 DEF KnowsReclaimed
    <2> QED BY <1>5, <1>7, <2>1, <2>2 DEF SetDraining
  <1>8. ASSUME reclaimCN PROVE Shared' /\ Private'
    <2>1. /\ w.pc = "release" /\ w.pod \in Pods /\ w.c \in Claims /\ w.pod \in w.todo
          /\ Pod(w.pod) \in PodObj /\ UNCHANGED <<claims, plan>>
      BY <1>8, Reads DEF reclaimCN, TypeOK, KnowsReclaimed
    <2>2. CASE ~Exists(w.pod)
      BY <1>8, <2>1, <2>2, QuietStep DEF reclaimCN, Return
    <2>3. ASSUME NEW p \in w.todo, p = w.pod, Exists(p)
          PROVE  Shared' /\ Private'
      <3> DEFINE v == [Pod(p) EXCEPT !.phase = "Draining", !.by = None]
      <3>1. v \in PodObj /\ v.phase = "Draining" /\ v.by = None /\ p \in Pods
        BY <2>1, <2>3 DEF PodObj, PodPhases
      <3>2. WritePod(p, v) /\ NextOwned(p)
        BY <1>8, <2>1, <2>3 DEF reclaimCN
      <3> HIDE DEF v
      <3>3. AllDeleted(w.c) /\ \A c \in Claims : HeldBy(Pod(p), c) => c = w.c
        BY <2>1, <3>1, VersionsOf DEF KnowsReclaimed
      <3>4. \A c \in Claims : ~HeldBy(v, c)
        BY <3>1, ClaimAssumption DEF HeldBy
      <3>5. Shared'
        BY <2>1, <2>3, <3>1, <3>2, <3>3, <3>4, Parts, PodStep
      <3>6. /\ Versions(pods'[p]) \subseteq Versions(pods[p]) \cup {v} /\ Pod(p)' = v
            /\ \A q \in Pods \ {p} : pods'[q] = pods[q] /\ Pod(q)' = Pod(q)
        BY <3>1, <3>2, PodVersions
      <3>7. PlannedIsFree'
        BY <2>1, <3>1, <3>6 DEF PlannedIsFree
      <3>8. \A d \in Claims : \A cl \in Versions(claims'[d]) : cl.source = None
        BY <2>1 DEF NoMigration
      <3>9. CASE w' = Resting
        BY <3>5, <3>7, <3>8, <3>9, RestingStep
      <3>10. CASE w' # Resting
        <4>1. /\ w'.pc = "owned" /\ w'.todo = w.todo \ {p} /\ w'.c = w.c
              /\ w'.heir = w.heir /\ w'.obj = w.obj
          BY <1>1, <3>2, <3>10 DEF NextOwned, Worker
        <4>2. NoMigration'
          BY <1>1, <3>8, <4>1 DEF NoMigration
        <4>3. KnowsCandidates' /\ KnowsHolder' /\ KnowsClaim'
          BY <4>1 DEF KnowsCandidates, KnowsHolder, KnowsClaim
        <4>4. AllDeleted(w.c)'
          BY <2>1, <3>3, <4>1 DEF AllDeleted
        <4>5. w.todo \subseteq Pods
          BY <1>1 DEF Worker
        <4>6. KnowsReclaimed'
          BY <2>1, <3>6, <4>1, <4>4, <4>5 DEF KnowsReclaimed
        <4> QED BY <3>5, <3>7, <4>2, <4>3, <4>6 DEF Private
      <3> QED BY <3>9, <3>10
    <2> QED BY <2>1, <2>2, <2>3
  <1>9. ASSUME RemoveFinalizer PROVE Shared' /\ Private'
    <2>1. w.c \in Claims /\ UNCHANGED <<pods, plan>> /\ w' = Resting
      BY <1>9 DEF RemoveFinalizer, TypeOK, Return
    <2> DEFINE v == [Unborn EXCEPT !.st = "gone"]
    <2>2. v \in ClaimObj /\ v.st = "gone" /\ v.source = None
      BY DEF ClaimObj, Unborn
    <2>3. UNCHANGED claims \/ WriteClaim(w.c, v)
      BY <1>9 DEF RemoveFinalizer
    <2> HIDE DEF v
    <2>4. CASE UNCHANGED claims
      BY <2>1, <2>4, QuietStep
    <2>5. CASE WriteClaim(w.c, v)
      BY <2>1, <2>2, <2>5, WorkerClaimStep DEF Deleted
    <2> QED BY <2>3, <2>4, <2>5
  <1> QED BY <1>2, <1>3, <1>4, <1>6, <1>7, <1>8, <1>9

-----------------------------------------------------------------------------
(* The environment *)

\* The other controllers, Kruise and the nodes write pods.
LEMMA OthersWritePods ==
  ASSUME BindingInv, NEW p \in Pods,
         \/ StorePatch(p) \/ PoolScaleIn(p) \/ LabelOutdated(p)
         \/ PodDeleted(p) \/ PodDies(p) \/ PodLifecycle(p)
  PROVE  Shared' /\ Private'
  <1> USE DEF BindingInv
  <1>1. Pod(p) \in PodObj /\ (Pod(p).phase \notin {"Bound", "Gone"} => Pod(p).by = None)
    BY Reads, VersionsOf DEF OnlyHeldIsClaimed
  <1>2. \A c \in Claims : c # None
    BY ClaimAssumption
  <1>3. ASSUME NEW v \in PodObj, WritePod(p, v), PodTouched(p), UNCHANGED <<claims, plan>>,
               Exists(p), v.by = Pod(p).by,
               \/ v.phase = Pod(p).phase
               \/ v.phase = "Gone"
               \/ v.phase = "Terminating" /\ Pod(p).phase # "Bound"
        PROVE  Shared' /\ Private'
    <2>1. v.phase \notin {"Bound", "Gone"} => v.by = None
      BY <1>1, <1>3 DEF Exists
    <2>2. \A c \in Claims : HeldBy(Pod(p), c) <=> HeldBy(v, c)
      BY <1>1, <1>2, <1>3 DEF HeldBy, Exists
    <2>3. v.phase \in {"Idle", "Bound"} => Pod(p).phase \in {"Idle", "Bound"}
      BY <1>3
    <2> QED BY <1>3, <2>1, <2>2, <2>3, OthersPodStep
  <1>4. CASE PoolScaleIn(p)
    <2> DEFINE v == [Pod(p) EXCEPT !.phase = "Terminating"]
    <2>1. v \in PodObj /\ v.by = Pod(p).by /\ v.phase = "Terminating"
      BY <1>1 DEF PodObj, PodPhases
    <2>2. Pod(p).phase # "Bound" /\ Exists(p)
      BY <1>4 DEF PoolScaleIn, Exists
    <2> QED BY <1>3, <1>4, <2>1, <2>2 DEF PoolScaleIn
  <1>5. CASE LabelOutdated(p)
    <2> DEFINE v == [Pod(p) EXCEPT !.old = TRUE]
    <2>1. v \in PodObj /\ v.by = Pod(p).by /\ v.phase = Pod(p).phase
      BY <1>1 DEF PodObj
    <2> QED BY <1>3, <1>5, <2>1 DEF LabelOutdated
  <1>6. CASE PodDies(p)
    <2> DEFINE v == [Pod(p) EXCEPT !.dead = TRUE]
    <2>1. v \in PodObj /\ v.by = Pod(p).by /\ v.phase = Pod(p).phase
      BY <1>1 DEF PodObj
    <2> QED BY <1>3, <1>6, <2>1 DEF PodDies
  <1>7. CASE PodLifecycle(p)
    <2> DEFINE v == [Pod(p) EXCEPT !.normal = ~@]
    <2>1. v \in PodObj /\ v.by = Pod(p).by /\ v.phase = Pod(p).phase
      BY <1>1 DEF PodObj
    <2> QED BY <1>3, <1>7, <2>1 DEF PodLifecycle
  <1>8. CASE PodDeleted(p)
    <2> DEFINE v == [Pod(p) EXCEPT !.phase = "Gone"]
    <2>1. v \in PodObj /\ v.by = Pod(p).by /\ v.phase = "Gone"
      BY <1>1 DEF PodObj, PodPhases
    <2> QED BY <1>3, <1>8, <2>1 DEF PodDeleted
  <1>9. CASE StorePatch(p)
    <2>1. plan[p] \in {"Idle", "Terminating"} /\ plan' = [plan EXCEPT ![p] = "none"]
          /\ Pod(p).phase \notin {"Idle", "Bound"} /\ UNCHANGED claims
      BY <1>9 DEF StorePatch, TypeOK, PlannedIsFree
    <2>2. \A q \in Pods : plan'[q] \in {plan[q], "none"}
      BY <2>1 DEF TypeOK
    <2>3. plan'[p] = "none"
      BY <2>1 DEF TypeOK
    <2>4. CASE Exists(p)
      <3> DEFINE v == [Pod(p) EXCEPT !.phase = plan[p]]
      <3>1. v \in PodObj /\ v.by = Pod(p).by /\ v.phase = plan[p]
        BY <1>1, <2>1 DEF PodObj, PodPhases
      <3>2. WritePod(p, v) /\ PodTouched(p)
        BY <1>9, <2>4 DEF StorePatch
      <3> HIDE DEF v
      <3>3. v.by = None
        BY <1>1, <2>1, <2>4, <3>1 DEF Exists
      <3>4. \A c \in Claims : HeldBy(Pod(p), c) <=> HeldBy(v, c)
        BY <1>2, <3>1, <3>3 DEF HeldBy
      <3> QED BY <2>1, <2>2, <2>3, <2>4, <3>1, <3>2, <3>3, <3>4, OthersPodStep
    <2>5. CASE ~Exists(p)
      <3>1. UNCHANGED <<pods, claims, w>>
        BY <1>9, <2>5 DEF StorePatch
      <3>2. Shared'
        BY <3>1 DEF Shared, ReferredIsHeld, OneHolder, LeftByDeleted, DeletedForGood,
                    OnlyHeldIsClaimed, AllDeleted, Pod
      <3>3. PlannedIsFree'
        BY <2>2, <3>1 DEF PlannedIsFree, Pod
      <3>4. NoMigration' /\ KnowsCandidates' /\ KnowsHolder' /\ KnowsClaim'
        BY <3>1 DEF NoMigration, KnowsCandidates, KnowsHolder, KnowsClaim, Pod, Claim
      <3>5. KnowsReclaimed'
        BY <3>1 DEF KnowsReclaimed, AllDeleted
      <3> QED BY <3>2, <3>3, <3>4, <3>5 DEF Private
    <2> QED BY <2>4, <2>5
  <1> QED BY <1>4, <1>5, <1>6, <1>7, <1>8, <1>9

\* Users and the pool controller write claims.
LEMMA OthersWriteClaims ==
  ASSUME BindingInv, NEW c \in Claims,
         \/ CreateClaim(c) \/ DeleteClaim(c)
         \/ \E p \in Pods : reclaimLegacyCNClaim(p) /\ c = SeenPod(p).by
  PROVE  Shared' /\ Private'
  <1> USE DEF BindingInv
  <1>1. Claim(c) \in ClaimObj /\ Claim(c) \in Versions(claims[c]) /\ Claim(c).source = None
    BY Reads, VersionsOf DEF NoMigration
  <1>2. CASE CreateClaim(c)
    <2>1. NewClaim \in ClaimObj /\ NewClaim.podName = None /\ NewClaim.source = None
      BY Objects DEF NewClaim, Unborn
    <2>2. ~Deleted(Claim(c))
      BY <1>2 DEF CreateClaim, Deleted
    <2> QED BY <1>2, <2>1, <2>2, OthersClaimStep DEF CreateClaim
  <1>3. CASE DeleteClaim(c)
    <2> DEFINE v == [Claim(c) EXCEPT !.st = "deleting"]
    <2>1. v \in ClaimObj /\ v.st = "deleting" /\ v.source = None
      BY <1>1 DEF ClaimObj
    <2>2. WriteClaim(c, v) /\ ClaimTouched(c) /\ UNCHANGED <<pods, plan>>
      BY <1>3 DEF DeleteClaim
    <2> HIDE DEF v
    <2> QED BY <2>1, <2>2, OthersClaimStep DEF Deleted
  <1>4. CASE \E p \in Pods : reclaimLegacyCNClaim(p) /\ c = SeenPod(p).by
    <2> DEFINE v == [Claim(c) EXCEPT !.phase = "Outdated"]
    <2>1. v \in ClaimObj /\ v.st = Claim(c).st /\ v.source = None
          /\ v.podName = Claim(c).podName
      BY <1>1 DEF ClaimObj, ClaimPhases
    <2>2. WriteClaim(c, v) /\ ClaimTouched(c) /\ UNCHANGED <<pods, plan>>
      BY <1>4 DEF reclaimLegacyCNClaim
    <2> HIDE DEF v
    <2>3. v.st = "live" /\ v.podName # None => HeldBy(Pod(v.podName), c)
      BY <1>1, <2>1 DEF ReferredIsHeld
    <2>4. Deleted(Claim(c)) => Deleted(v)
      BY <2>1 DEF Deleted
    <2> QED BY <2>1, <2>2, <2>3, <2>4, OthersClaimStep
  <1> QED BY <1>2, <1>3, <1>4

\* The cache receives a version of a pod.
LEMMA DeliverPodStep ==
  ASSUME BindingInv, NEW p \in Pods, DeliverPod(p)
  PROVE  Shared' /\ Private'
  <1> USE DEF BindingInv
  <1>1. pods[p] \in Logs(PodObj) /\ Len(pods[p]) > 1 /\ UNCHANGED <<claims, plan, w>>
    BY Reads DEF DeliverPod
  <1>2. /\ pods'[p] = Tail(pods[p])
        /\ \A q \in Pods \ {p} : pods'[q] = pods[q]
    BY DEF DeliverPod, TypeOK
  <1>3. \A q \in Pods : Versions(pods'[q]) \subseteq Versions(pods[q])
    BY <1>1, <1>2, DeliverVersions
  <1>4. \A q \in Pods : Pod(q)' = Pod(q)
    BY <1>1, <1>2, DeliverLog DEF Pod
  <1>5. Shared'
    <2>1. ReferredIsHeld'
      <3> SUFFICES ASSUME NEW c \in Claims, NEW cl \in Versions(claims[c]),
                          cl.st = "live", cl.podName # None
                   PROVE  HeldBy(Pod(cl.podName)', c)
        BY <1>1 DEF ReferredIsHeld
      <3>1. HeldBy(Pod(cl.podName), c) /\ cl.podName \in Pods
        BY VersionsOf DEF ReferredIsHeld, ClaimObj
      <3> QED BY <1>4, <3>1
    <2>2. OneHolder' /\ OnlyHeldIsClaimed'
      BY <1>3 DEF OneHolder, OnlyHeldIsClaimed
    <2>3. LeftByDeleted'
      BY <1>1, <1>3, <1>4 DEF LeftByDeleted, AllDeleted
    <2>4. DeletedForGood'
      BY <1>1 DEF DeletedForGood
    <2> QED BY <2>1, <2>2, <2>3, <2>4 DEF Shared
  <1>6. /\ w.todo \subseteq Pods
        /\ w.pc \in {"working", "patch", "drain", "release"} => w.pod \in Pods
    BY DEF TypeOK, Worker
  <1>7. PlannedIsFree' /\ NoMigration' /\ KnowsHolder' /\ KnowsClaim'
    BY <1>1, <1>4, <1>6 DEF PlannedIsFree, NoMigration, KnowsHolder, KnowsClaim, Claim
  <1>8. KnowsCandidates'
    <2>1. ~UpToDate(pods[p])
      BY <1>1, LogEnds, SMT DEF UpToDate
    <2>2. \A q \in w.todo : UpToDate(pods[q]) => pods'[q] = pods[q]
      BY <1>2, <1>6, <2>1
    <2> QED BY <1>1, <1>4, <1>6, <2>2 DEF KnowsCandidates
  <1>9. KnowsReclaimed'
    <2>1. AllDeleted(w.c) => AllDeleted(w.c)'
      BY <1>1 DEF AllDeleted
    <2> QED BY <1>1, <1>3, <1>6, <2>1 DEF KnowsReclaimed
  <1> QED BY <1>5, <1>7, <1>8, <1>9 DEF Private

\* The cache receives a version of a claim.
LEMMA DeliverClaimStep ==
  ASSUME BindingInv, NEW c \in Claims, DeliverClaim(c)
  PROVE  Shared' /\ Private'
  <1> USE DEF BindingInv
  <1>1. claims[c] \in Logs(ClaimObj) /\ Len(claims[c]) > 1 /\ UNCHANGED <<pods, plan, w>>
    BY Reads DEF DeliverClaim
  <1>2. /\ claims'[c] = Tail(claims[c])
        /\ \A d \in Claims \ {c} : claims'[d] = claims[d]
    BY DEF DeliverClaim, TypeOK
  <1>3. \A d \in Claims : Versions(claims'[d]) \subseteq Versions(claims[d])
    BY <1>1, <1>2, DeliverVersions
  <1>4. \A d \in Claims : Claim(d)' = Claim(d) /\ (AllDeleted(d) => AllDeleted(d)')
    <2>1. \A d \in Claims : Claim(d)' = Claim(d)
      BY <1>1, <1>2, DeliverLog DEF Claim
    <2>2. \A d \in Claims : AllDeleted(d) => AllDeleted(d)'
      BY <1>3 DEF AllDeleted
    <2> QED BY <2>1, <2>2
  <1>5. Shared'
    <2>1. ReferredIsHeld'
      BY <1>1, <1>3 DEF ReferredIsHeld, Pod
    <2>2. OneHolder' /\ OnlyHeldIsClaimed'
      BY <1>1 DEF OneHolder, OnlyHeldIsClaimed
    <2>3. LeftByDeleted'
      BY <1>1, <1>4 DEF LeftByDeleted, Pod
    <2>4. DeletedForGood'
      <3> DEFINE D == {cl \in ClaimObj : Deleted(cl)}
      <3>1. \A i \in 1 .. Len(claims[c]) : claims[c][i] \in ClaimObj
        BY <1>1, LogEnds
      <3>2. \A k, l \in 1 .. Len(claims[c]) : k <= l /\ claims[c][k] \in D => claims[c][l] \in D
        BY <3>1 DEF DeletedForGood
      <3> HIDE DEF D
      <3>3. \A k, l \in 1 .. Len(claims'[c]) :
              k <= l /\ claims'[c][k] \in D => claims'[c][l] \in D
        BY <1>1, <1>2, <3>2, DeliverOrdered
      <3>4. claims'[c] \in Logs(ClaimObj)
        BY <1>1, <1>2, DeliverLog
      <3>5. \A i \in 1 .. Len(claims'[c]) : claims'[c][i] \in ClaimObj
        BY <3>4, LogEnds
      <3>6. \A k, l \in 1 .. Len(claims'[c]) :
              k <= l /\ Deleted(claims'[c][k]) => Deleted(claims'[c][l])
        BY <3>3, <3>5 DEF D
      <3> QED BY <1>2, <3>6 DEF DeletedForGood
    <2> QED BY <2>1, <2>2, <2>3, <2>4 DEF Shared
  <1>6. w.pc # "rest" => w.c \in Claims
    BY DEF TypeOK
  <1>7. NoMigration'
    BY <1>1, <1>3 DEF NoMigration
  <1>8. PlannedIsFree' /\ KnowsCandidates' /\ KnowsHolder'
    BY <1>1 DEF PlannedIsFree, KnowsCandidates, KnowsHolder, Pod
  <1>9. KnowsClaim'
    BY <1>1, <1>4, <1>6 DEF KnowsClaim
  <1>10. KnowsReclaimed'
    BY <1>1, <1>4, <1>6 DEF KnowsReclaimed
  <1> QED BY <1>5, <1>7, <1>8, <1>9, <1>10 DEF Private

\* The operator starts again: the cache is as good as new.
LEMMA RestartStep ==
  ASSUME BindingInv, Restart
  PROVE  Shared' /\ Private'
  <1> USE DEF BindingInv
  <1>1. \A p \in Pods : Versions(pods'[p]) = {Pod(p)} /\ Pod(p)' = Pod(p)
    BY Reads, FreshVersions, FreshLog DEF Restart, Pod
  <1>2. \A c \in Claims : Versions(claims'[c]) = {Claim(c)} /\ Len(claims'[c]) = 1
    BY FreshVersions DEF Restart
  <1>3. ReferredIsHeld'
    <2> SUFFICES ASSUME NEW c \in Claims, NEW cl \in Versions(claims'[c]),
                        cl.st = "live", cl.podName # None
                 PROVE  HeldBy(Pod(cl.podName)', c)
      BY DEF ReferredIsHeld
    <2>1. cl \in Versions(claims[c])
      BY <1>2, VersionsOf
    <2>2. HeldBy(Pod(cl.podName), c) /\ cl.podName \in Pods
      BY <2>1, VersionsOf DEF ReferredIsHeld, ClaimObj
    <2> QED BY <1>1, <2>2
  <1>4. OneHolder'
    BY <1>1 DEF OneHolder, BoundTo, HeldBy
  <1>5. LeftByDeleted'
    BY <1>1 DEF LeftByDeleted, BoundTo, HeldBy
  <1>6. DeletedForGood'
    BY <1>2 DEF DeletedForGood
  <1>7. OnlyHeldIsClaimed'
    BY <1>1, VersionsOf DEF OnlyHeldIsClaimed
  <1>8. \A c \in Claims : \A cl \in Versions(claims'[c]) : cl.source = None
    BY <1>2, VersionsOf DEF NoMigration
  <1>9. PlannedIsFree'
    BY DEF Restart, PlannedIsFree
  <1>10. Private'
    BY <1>8, <1>9, RestingStep DEF Restart
  <1> QED BY <1>3, <1>4, <1>5, <1>6, <1>7, <1>10 DEF Shared

\* A step writes a version of a pod, delivers the next one to the cache, or
\* restarts the operator.
LEMMA PodLogChanges ==
  ASSUME TypeOK, [Next]_vars, NEW p \in Pods
  PROVE  \/ \E v : pods'[p] = Write(pods[p], v)
         \/ Len(pods[p]) > 1 /\ pods'[p] = Tail(pods[p])
         \/ pods'[p] = <<Pod(p)>>
  <1> DEFINE Goal == \/ \E v : pods'[p] = Write(pods[p], v)
                     \/ Len(pods[p]) > 1 /\ pods'[p] = Tail(pods[p])
                     \/ pods'[p] = <<Pod(p)>>
  <1>1. CASE UNCHANGED pods
    <2>1. Write(pods[p], Latest(pods[p])) = pods[p]
      BY DEF Write
    <2> QED BY <1>1, <2>1
  <1>2. ASSUME NEW q \in Pods, NEW v, WritePod(q, v) PROVE Goal
    <2>1. pods \in [Pods -> Logs(PodObj)]
      BY DEF TypeOK
    <2>2. CASE q = p
      <3>1. pods'[p] = Write(pods[p], v)
        BY <1>2, <2>1, <2>2 DEF WritePod
      <3> QED BY <3>1
    <2>3. CASE q # p
      <3>1. pods'[p] = pods[p]
        BY <1>2, <2>1, <2>3 DEF WritePod
      <3>2. Write(pods[p], Latest(pods[p])) = pods[p]
        BY DEF Write
      <3> QED BY <3>1, <3>2
    <2> QED BY <2>2, <2>3
  <1>3. ASSUME NEW q \in Pods, DeliverPod(q) PROVE Goal
    <2>1. pods \in [Pods -> Logs(PodObj)]
      BY DEF TypeOK
    <2>2. CASE q = p
      BY <1>3, <2>1, <2>2 DEF DeliverPod
    <2>3. CASE q # p
      <3>1. pods'[p] = pods[p]
        BY <1>3, <2>1, <2>3 DEF DeliverPod
      <3>2. Write(pods[p], Latest(pods[p])) = pods[p]
        BY DEF Write
      <3> QED BY <3>1, <3>2
    <2> QED BY <2>2, <2>3
  <1>4. CASE Restart
    BY <1>4 DEF Restart
  <1> HIDE DEF Goal
  <1>5. CASE \E c \in Claims : Observe(c)
    BY <1>1, <1>5 DEF Goal, Observe, Bind, BindOrphan, Sync, SyncGone, SyncDead, Finalize, Begin
  <1>6. CASE Step
    <2>1. \A q \in Pods : ensureOwnership(q) => Goal
      BY <1>2 DEF ensureOwnership
    <2>2. \A q \in Pods : transferPodOwnership(q) => UNCHANGED pods \/ Goal
      BY <1>2 DEF transferPodOwnership
    <2>3. reclaimCN => UNCHANGED pods \/ Goal
      <3>1. reclaimCN => w.pod \in Pods
        BY DEF reclaimCN, TypeOK
      <3> QED BY <1>2, <3>1 DEF reclaimCN
    <2>4. Step => UNCHANGED pods \/ (\E q \in Pods : ensureOwnership(q) \/ transferPodOwnership(q))
                 \/ reclaimCN
      BY DEF Step, OwnershipConflict, FinalizeStuck, FinalizeReclaim, Nominate, SetWorking,
             PatchClaim, UpdateStatus, ClearLost, SyncStatus, MigrateObserve, MigrateWait,
             completeMigration, SetDraining, RemoveFinalizer
    <2> QED BY <1>1, <1>6, <2>1, <2>2, <2>3, <2>4 DEF Goal
  <1>7. CASE Environment
    <2>1. ASSUME NEW q \in Pods PROVE StorePatch(q) => UNCHANGED pods \/ Goal
      BY <1>2 DEF StorePatch
    <2>2. ASSUME NEW q \in Pods
          PROVE  \/ PoolScaleIn(q) \/ LabelOutdated(q) \/ PodDeleted(q) \/ PodDies(q)
                 \/ PodLifecycle(q)
                 => Goal
      BY <1>2 DEF PoolScaleIn, LabelOutdated, PodDeleted, PodDies, PodLifecycle
    <2>3. Environment =>
            \/ UNCHANGED pods
            \/ \E q \in Pods : \/ StorePatch(q) \/ PoolScaleIn(q) \/ LabelOutdated(q)
                               \/ PodDeleted(q) \/ PodDies(q) \/ PodLifecycle(q)
                               \/ DeliverPod(q)
            \/ Restart
      BY DEF Environment, StoreDecide, reclaimLegacyCNClaim, OnPreparingUpdate, CreateClaim,
             DeleteClaim, DeliverClaim, MigrateClaim, Abort
    <2> QED BY <1>1, <1>3, <1>4, <1>7, <2>1, <2>2, <2>3 DEF Goal
  <1>8. CASE UNCHANGED vars
    BY <1>1, <1>8 DEF vars, Goal
  <1> QED BY <1>5, <1>6, <1>7, <1>8 DEF Goal, Next

\* Only ensureOwnership makes a pod Bound, and it takes Idle pods, or the
\* claim's own.
LEMMA WayOfIdleStep ==
  ASSUME BindingInv, TypeOK', [Next]_vars
  PROVE  BoundByWayOfIdle'
  <1>0. TypeOK /\ BoundByWayOfIdle
    BY DEF BindingInv
  <1> SUFFICES ASSUME NEW p \in Pods
               PROVE  \A k, l \in 1 .. Len(pods'[p]) :
                        /\ k <= l /\ pods'[p][l].phase = "Bound"
                        /\ pods'[p][k].phase \notin {"Idle", "Bound"}
                        => \E m \in k .. l : pods'[p][m].phase = "Idle"
    BY DEF BoundByWayOfIdle
  <1> DEFINE B == {o \in PodObj : o.phase = "Bound"}
             I == {o \in PodObj : o.phase = "Idle"}
  <1>1. pods[p] \in Logs(PodObj) /\ pods'[p] \in Logs(PodObj) /\ Pod(p) \in PodObj
    BY <1>0, Reads DEF TypeOK
  <1>2. \A i \in 1 .. Len(pods[p]) : pods[p][i] \in PodObj
    BY <1>1, LogEnds
  <1>3. Len(pods[p]) \in Nat /\ Len(pods'[p]) \in Nat
    BY <1>1, LogEnds
  <1>4. Through(pods[p], B, I)
    <2> SUFFICES ASSUME NEW k \in 1 .. Len(pods[p]), NEW l \in 1 .. Len(pods[p]), k <= l,
                        pods[p][l] \in B, pods[p][k] \notin I \cup B
                 PROVE  \E m \in k .. l : pods[p][m] \in I
      BY DEF Through
    <2>1. pods[p][l].phase = "Bound" /\ pods[p][k].phase \notin {"Idle", "Bound"}
      BY <1>2
    <2>2. PICK m \in k .. l : pods[p][m].phase = "Idle"
      BY <1>0, <2>1 DEF BoundByWayOfIdle
    <2>3. m \in 1 .. Len(pods[p])
      BY <1>3
    <2> QED BY <1>2, <2>2, <2>3
  <1>5. Through(pods'[p], B, I)
    <2>1. CASE \E v : pods'[p] = Write(pods[p], v)
      <3>1. PICK v : pods'[p] = Write(pods[p], v)
        BY <2>1
      <3>2. pods[p] \in Logs(PodObj \cup {v}) /\ v \in PodObj \cup {v}
        BY <1>1 DEF Logs
      <3>3. Latest(Write(pods[p], v)) = v
        BY <3>2, WriteLog
      <3>4. Pod(p)' = v /\ Pod(p)' \in PodObj
        BY <3>1, <3>3, <1>1, LogEnds DEF Pod
      <3>5. v.phase = "Bound" => Pod(p).phase \in {"Idle", "Bound"}
        <4>1. PodEffect(p)
          BY <1>0, PodChanges
        <4>2. ensureOwnership(p) => Pod(p).phase \in {"Idle", "Bound"}
          BY DEF ensureOwnership, UpdateSucceeds, BindingInv, KnowsCandidates
        <4> QED BY <3>4, <4>1, <4>2 DEF PodEffect
      <3>6. v \in B => Latest(pods[p]) \in I \cup B
        BY <1>1, <3>5 DEF Pod
      <3>7. v \in PodObj
        BY <3>4
      <3> HIDE DEF B, I
      <3>8. Through(Write(pods[p], v), B, I)
        BY <1>1, <1>4, <3>6, <3>7, WriteThrough
      <3> QED BY <3>1, <3>8
    <2>2. CASE Len(pods[p]) > 1 /\ pods'[p] = Tail(pods[p])
      <3> HIDE DEF B, I
      <3>1. Through(Tail(pods[p]), B, I)
        BY <1>1, <1>4, <2>2, DeliverThrough
      <3> QED BY <2>2, <3>1
    <2>3. CASE pods'[p] = <<Pod(p)>>
      <3>1. Len(pods'[p]) = 1
        BY <2>3
      <3> QED BY <3>1 DEF Through
    <2> QED BY <1>0, <2>1, <2>2, <2>3, PodLogChanges
  <1>6. \A i \in 1 .. Len(pods'[p]) : pods'[p][i] \in PodObj
    BY <1>1, LogEnds
  <1> SUFFICES ASSUME NEW k \in 1 .. Len(pods'[p]), NEW l \in 1 .. Len(pods'[p]), k <= l,
                      pods'[p][l].phase = "Bound",
                      pods'[p][k].phase \notin {"Idle", "Bound"}
               PROVE  \E m \in k .. l : pods'[p][m].phase = "Idle"
    OBVIOUS
  <1>7. pods'[p][l] \in B /\ pods'[p][k] \notin I \cup B
    BY <1>6
  <1>8. PICK m \in k .. l : pods'[p][m] \in I
    BY <1>5, <1>7 DEF Through
  <1> QED BY <1>8

\* Unless it comes back to a pod too early, the cnstore controller decides on
\* a copy that is out of date only if the pod is deleted or Terminating.
LEMMA DecidesOnFree ==
  ASSUME BindingInv, MaxLag = 0 \/ "requeue" \notin Disruptions, NEW p \in Pods,
         NEW pod \in StoreCopies(p), pod.phase \in {"Unknown", "Draining"}
  PROVE  Pod(p).phase \notin {"Idle", "Bound"}
  <1>1. TypeOK /\ BoundByWayOfIdle
    BY DEF BindingInv
  <1>2. pods[p] \in Logs(PodObj) /\ Pod(p) \in Versions(pods[p])
    BY <1>1, Reads, VersionsOf
  <1>3. Len(pods[p]) \in Nat \ {0}
    BY <1>2, LogEnds
  <1>4. CASE pod = Pod(p)
    BY <1>4
  <1>5. CASE pod = SeenPod(p) /\ \A v \in Versions(pods[p]) : v.phase # "Idle"
    <2>1. pods[p][1].phase \notin {"Idle", "Bound"}
      BY <1>5 DEF SeenPod, Cached
    <2>2. \A m \in 1 .. Len(pods[p]) : pods[p][m].phase # "Idle"
      BY <1>5 DEF Versions
    <2>3. pods[p][Len(pods[p])].phase # "Bound"
      BY <1>1, <1>3, <2>1, <2>2 DEF BoundByWayOfIdle
    <2> QED BY <1>2, <1>5, <2>3 DEF Pod, Latest
  <1>6. MaxLag = 0 => SeenPod(p) = Pod(p)
    BY <1>1, NoLag
  <1> QED BY <1>4, <1>5, <1>6 DEF StoreCopies

\* The environment, all its cases.
LEMMA EnvironmentStep ==
  ASSUME BindingInv, Environment,
         "migrate" \notin Disruptions, MaxLag = 0 \/ "requeue" \notin Disruptions
  PROVE  Shared' /\ Private'
  <1> USE DEF BindingInv
  <1>1. ASSUME NEW p \in Pods, NEW phase \in {"Idle", "Terminating"}, StoreDecide(p, phase)
        PROVE  Shared' /\ Private'
    <2>1. /\ UNCHANGED <<pods, claims, w>>
          /\ Pod(p).phase \notin {"Idle", "Bound"}
          /\ plan' = [plan EXCEPT ![p] = phase]
      BY <1>1, DecidesOnFree DEF StoreDecide
    <2>2. Shared'
      BY <2>1 DEF Shared, ReferredIsHeld, OneHolder, LeftByDeleted, DeletedForGood,
                  OnlyHeldIsClaimed, AllDeleted, Pod
    <2>3. \A q \in Pods \ {p} : plan'[q] = plan[q]
      BY <2>1 DEF TypeOK
    <2>4. PlannedIsFree'
      BY <2>1, <2>3 DEF PlannedIsFree, Pod
    <2>5. NoMigration' /\ KnowsCandidates' /\ KnowsHolder' /\ KnowsClaim'
      BY <2>1 DEF NoMigration, KnowsCandidates, KnowsHolder, KnowsClaim, Pod, Claim
    <2>6. KnowsReclaimed'
      BY <2>1 DEF KnowsReclaimed, AllDeleted
    <2> QED BY <2>2, <2>4, <2>5, <2>6 DEF Private
  <1>2. ASSUME NEW p \in Pods, OnPreparingUpdate(p) PROVE Shared' /\ Private'
    <2>1. UNCHANGED <<pods, claims, plan, w>>
      BY <1>2 DEF OnPreparingUpdate
    <2>2. Shared' /\ PlannedIsFree'
      BY <2>1, QuietStep
    <2>3. NoMigration' /\ KnowsCandidates' /\ KnowsHolder' /\ KnowsClaim'
      BY <2>1 DEF NoMigration, KnowsCandidates, KnowsHolder, KnowsClaim, Pod, Claim
    <2>4. KnowsReclaimed'
      BY <2>1 DEF KnowsReclaimed, AllDeleted
    <2> QED BY <2>2, <2>3, <2>4 DEF Private
  <1>3. ASSUME NEW p \in Pods, reclaimLegacyCNClaim(p) PROVE Shared' /\ Private'
    <2>1. SeenPod(p).by \in Claims
      BY <1>3, Reads DEF reclaimLegacyCNClaim, PodObj
    <2> QED BY <1>3, <2>1, OthersWriteClaims
  <1>4. ~ \E c \in Claims, p \in Pods : MigrateClaim(c, p)
    BY DEF MigrateClaim
  <1>5. ASSUME Abort PROVE Shared' /\ Private'
    BY <1>5, QuietStep DEF Abort, Return
  <1> QED BY <1>1, <1>2, <1>3, <1>4, <1>5, OthersWritePods, OthersWriteClaims,
             DeliverPodStep, DeliverClaimStep, RestartStep DEF Environment

-----------------------------------------------------------------------------
(* The theorems *)

\* BindingInv is inductive.
LEMMA BindingInductive ==
  ASSUME "migrate" \notin Disruptions, MaxLag = 0 \/ "requeue" \notin Disruptions
  PROVE  /\ Init => BindingInv
         /\ BindingInv /\ [Next]_vars => BindingInv'
  <1>1. Init => BindingInv
    <2> SUFFICES ASSUME Init PROVE BindingInv
      OBVIOUS
    <2> DEFINE new == [phase |-> "Unknown", by |-> None, normal |-> TRUE,
                       dead |-> FALSE, old |-> FALSE]
    <2>1. TypeOK
      <3>1. new \in PodObj
        BY DEF PodObj, PodPhases
      <3> QED BY <3>1, Objects, FreshLog DEF Init, TypeOK
    <2>2. \A p \in Pods : Versions(pods[p]) = {new}
      BY FreshVersions DEF Init
    <2>3. \A c \in Claims : Versions(claims[c]) = {Unborn} /\ Len(claims[c]) = 1
      BY FreshVersions DEF Init
    <2>4. Shared
      <3>1. ReferredIsHeld
        BY <2>3 DEF ReferredIsHeld, Unborn
      <3>2. OneHolder /\ LeftByDeleted /\ OnlyHeldIsClaimed
        BY <2>2 DEF OneHolder, LeftByDeleted, OnlyHeldIsClaimed, BoundTo
      <3>3. DeletedForGood
        BY <2>3 DEF DeletedForGood
      <3> QED BY <3>1, <3>2, <3>3 DEF Shared
    <2>5. PlannedIsFree /\ w = Resting
      BY DEF Init, PlannedIsFree
    <2>10. BoundByWayOfIdle
      <3>1. \A p \in Pods : Len(pods[p]) = 1
        BY DEF Init
      <3> QED BY <3>1 DEF BoundByWayOfIdle
    <2>6. w.pc = "rest" /\ w.obj.source = None
      BY <2>5 DEF Resting, Unborn
    <2>7. NoMigration
      BY <2>3, <2>6 DEF NoMigration, Unborn
    <2>8. KnowsCandidates /\ KnowsHolder /\ KnowsClaim
      BY <2>6 DEF KnowsCandidates, KnowsHolder, KnowsClaim
    <2>9. KnowsReclaimed
      BY <2>6 DEF KnowsReclaimed
    <2> QED BY <2>1, <2>4, <2>5, <2>7, <2>8, <2>9, <2>10, Parts DEF Private
  <1>2. BindingInv /\ [Next]_vars => BindingInv'
    <2> SUFFICES ASSUME BindingInv, [Next]_vars PROVE BindingInv'
      OBVIOUS
    <2>1. TypeOK
      BY DEF BindingInv
    <2>2. TypeOK' /\ Shared' /\ Private'
      <3>1. CASE \E c \in Claims : Observe(c)
        BY <2>1, <3>1, ObserveType, ObserveStep
      <3>2. CASE Step
        BY <2>1, <3>2, BindStepType, ReclaimStepType, BindStep, ReclaimStep DEF Step
      <3>3. CASE Environment
        BY <2>1, <3>3, EnvironmentType, EnvironmentStep
      <3>4. CASE UNCHANGED vars
        <4>1. TypeOK'
          BY <2>1, <3>4 DEF TypeOK, vars
        <4>2. Shared' /\ PlannedIsFree'
          BY <3>4, QuietStep DEF vars
        <4>3. NoMigration' /\ KnowsCandidates' /\ KnowsHolder' /\ KnowsClaim'
          BY <3>4 DEF BindingInv, vars, NoMigration, KnowsCandidates, KnowsHolder, KnowsClaim,
                      Pod, Claim
        <4>4. KnowsReclaimed'
          BY <3>4 DEF BindingInv, vars, KnowsReclaimed, AllDeleted
        <4> QED BY <4>1, <4>2, <4>3, <4>4 DEF Private
      <3> QED BY <3>1, <3>2, <3>3, <3>4 DEF Next
    <2>3. BoundByWayOfIdle'
      BY <2>2, WayOfIdleStep
    <2> QED BY <2>2, <2>3 DEF BindingInv, Shared, Private
  <1> QED BY <1>1, <1>2

\* Without migrations, and when the cnstore controller does not come back to a
\* pod before the cache has its own last patch, every state the CNClaim
\* controller reaches satisfies the invariant of the binding protocol, whatever
\* else the cache has missed and whatever fails.
THEOREM BindingSafe ==
  ASSUME Disruptions \cap {"migrate", "requeue"} = {}
  PROVE  Spec => []BindingInv
  <1>1. Init => BindingInv
    BY BindingInductive
  <1>2. BindingInv /\ [Next]_vars => BindingInv'
    BY BindingInductive
  <1> QED BY <1>1, <1>2, PTL DEF Spec

\* Without migrations, and when the cnstore controller does not come back to a
\* pod before the cache has its own last patch, selectCN and ensureOwnership
\* never give a pod to two claims.
THEOREM NeverBoundTwice ==
  ASSUME Disruptions \cap {"migrate", "requeue"} = {}
  PROVE  Spec => []NoDoubleBind
  <1>1. BindingInv => NoDoubleBind
    <2> SUFFICES ASSUME BindingInv, NEW c \in Claims, NEW d \in Claims, c # d, Live(c), Live(d),
                        Claim(c).podName # None, Claim(c).podName = Claim(d).podName
                 PROVE  FALSE
      BY DEF NoDoubleBind
    <2>1. TypeOK
      BY DEF BindingInv
    <2>2. Claim(c) \in Versions(claims[c]) /\ Claim(d) \in Versions(claims[d])
      BY <2>1, VersionsOf
    <2>3. HeldBy(Pod(Claim(c).podName), c) /\ HeldBy(Pod(Claim(c).podName), d)
      BY <2>2 DEF BindingInv, ReferredIsHeld, Live
    <2> QED BY <2>3 DEF HeldBy
  <1> QED BY <1>1, BindingSafe, PTL

\* Without migrations, and when the cnstore controller does not come back to a
\* pod before the cache has its own last patch, the pod a live claim refers to
\* is labelled as bound to it for as long as the pod exists.  The run
\* cnclaim_requeue shows that the second condition is needed.
THEOREM NeverTakenAway ==
  ASSUME Disruptions \cap {"migrate", "requeue"} = {}
  PROVE  Spec => []HeldPodIsBound
  <1>1. BindingInv => HeldPodIsBound
    <2> SUFFICES ASSUME BindingInv, NEW c \in Claims, Live(c), Claim(c).podName # None,
                        Exists(Claim(c).podName)
                 PROVE  BoundTo(Pod(Claim(c).podName), c)
      BY DEF HeldPodIsBound
    <2>1. TypeOK
      BY DEF BindingInv
    <2>2. Claim(c) \in Versions(claims[c])
      BY <2>1, VersionsOf
    <2>3. HeldBy(Pod(Claim(c).podName), c)
      BY <2>2 DEF BindingInv, ReferredIsHeld, Live
    <2> QED BY <2>3 DEF HeldBy, BoundTo, Exists
  <1> QED BY <1>1, BindingSafe, PTL

-----------------------------------------------------------------------------
(* What follows from the binding protocol *)

\* A pod that is being reclaimed is of no live claim.
LEMMA ReclaimedIsLeft ==
  ASSUME BindingInv, w.pc \in {"drain", "release"}, NEW c \in Claims, Live(c)
  PROVE  Claim(c).podName # w.pod
  <1> SUFFICES ASSUME Claim(c).podName = w.pod
               PROVE  FALSE
    OBVIOUS
  <1>1. w.pod \in Pods /\ w.pod \in w.todo /\ w.pod # None
    BY ClaimAssumption DEF BindingInv, KnowsReclaimed, TypeOK
  <1>2. Claim(c) \in Versions(claims[c]) /\ Pod(w.pod) \in Versions(pods[w.pod])
    BY <1>1, VersionsOf DEF BindingInv
  <1>3. HeldBy(Pod(w.pod), c)
    BY <1>1, <1>2 DEF BindingInv, ReferredIsHeld, Live
  <1>4. c = w.c /\ AllDeleted(c)
    BY <1>1, <1>2, <1>3 DEF BindingInv, KnowsReclaimed
  <1> QED BY <1>2, <1>4 DEF AllDeleted, Deleted, Live

\* Without migrations, and when the cnstore controller does not come back to a
\* pod before the cache has its own last patch, no reclaim starts to drain a pod
\* that a live claim holds and refers to, whatever else the cache has missed.
THEOREM ReclaimSparesTheHeld ==
  ASSUME Disruptions \cap {"migrate", "requeue"} = {}
  PROVE  Spec => ReclaimSparesHolders
  <1> DEFINE A == \A p \in Pods, c \in Claims :
                   /\ BoundTo(Pod(p), c) /\ Live(c) /\ Claim(c).podName = p
                   => Pod(p)'.phase # "Draining"
  <1>1. BindingInv /\ [Next]_vars => A
    <2> SUFFICES ASSUME BindingInv, [Next]_vars, NEW p \in Pods, NEW c \in Claims,
                        BoundTo(Pod(p), c), Live(c), Claim(c).podName = p,
                        Pod(p)'.phase = "Draining"
                 PROVE  FALSE
      OBVIOUS
    <2>1. TypeOK
      BY DEF BindingInv
    <2>2. reclaimCN /\ w.pod = p
      BY <2>1, PodChanges DEF PodEffect, BoundTo
    <2> QED BY <2>2, ReclaimedIsLeft DEF reclaimCN
  <1>2. BindingInv /\ [Next]_vars => [A]_vars
    BY <1>1
  <1>3. ReclaimSparesHolders <=> [][A]_vars
    BY DEF ReclaimSparesHolders
  <1> QED BY <1>2, <1>3, BindingSafe, PTL DEF Spec

\* No pod is out of the lifecycle state Normal.
AllNormal == \A p \in Pods : Pod(p).normal

\* The CN of the pod the claim is about to refer to has been told to work.
PatchWorking == w.pc = "patch" => ha[w.pod] = "Working"

WorkInv == BindingInv /\ AllNormal /\ PatchWorking /\ HeldPodIsWorking

\* Who changes the work state of a CN.
LEMMA WorkStateChanges ==
  ASSUME TypeOK, [Next]_vars
  PROVE  \/ ha' = ha
         \/ SetWorking /\ ha' = [ha EXCEPT ![w.pod] = "Working"]
         \/ SetDraining /\ ha' = [ha EXCEPT ![w.pod] = "Draining"]
         \/ \E p \in Pods : OnPreparingUpdate(p)
  <1>1. CASE \E c \in Claims : Observe(c)
    BY <1>1, WorkerBegins
  <1>2. CASE Step
    BY <1>2
       DEF Step, ensureOwnership, OwnershipConflict, FinalizeStuck, transferPodOwnership,
           FinalizeReclaim, Nominate, SetWorking, PatchClaim, UpdateStatus, ClearLost,
           SyncStatus, MigrateObserve, MigrateWait, completeMigration, SetDraining,
           reclaimCN, RemoveFinalizer
  <1>3. CASE Environment
    BY <1>3
       DEF Environment, StorePatch, StoreDecide, PoolScaleIn, reclaimLegacyCNClaim,
           LabelOutdated, PodDeleted, PodDies, PodLifecycle, DeliverPod, CreateClaim,
           DeleteClaim, DeliverClaim, MigrateClaim, Abort, Restart
  <1>4. CASE UNCHANGED vars
    BY <1>4 DEF vars
  <1> QED BY <1>1, <1>2, <1>3, <1>4 DEF Next

\* A pod that is gone does not come back.
LEMMA GoneForGood ==
  ASSUME BindingInv, [Next]_vars, NEW p \in Pods, Pod(p).phase = "Gone"
  PROVE  Pod(p)'.phase = "Gone"
  <1>1. PodEffect(p)
    BY PodChanges DEF BindingInv
  <1>2. ~ensureOwnership(p)
    BY DEF BindingInv, KnowsCandidates, ensureOwnership, UpdateSucceeds
  <1> QED BY <1>1, <1>2 DEF PodEffect, Exists

LEMMA WorkInductive ==
  ASSUME WorkInv, [Next]_vars, Disruptions \cap {"migrate", "requeue", "inplace"} = {}
  PROVE  WorkInv'
  <1>0. TypeOK /\ BindingInv
    BY DEF WorkInv, BindingInv
  <1>1. BindingInv'
    BY <1>0, BindingInductive
  <1>2. AllNormal'
    <2> SUFFICES ASSUME NEW p \in Pods
                 PROVE  Pod(p)'.normal
      BY DEF AllNormal
    <2>1. Pod(p)'.normal = Pod(p).normal
      BY <1>0, PodChanges DEF Steady
    <2> QED BY <2>1 DEF WorkInv, AllNormal
  <1>3. ~ \E p \in Pods : OnPreparingUpdate(p)
    BY DEF OnPreparingUpdate, WorkInv, AllNormal
  <1>4. ha \in [Pods -> {"Working", "Draining"}]
    BY <1>0 DEF TypeOK
  <1>5. PatchWorking'
    <2>1. CASE \E c \in Claims : Observe(c)
      BY <1>0, <2>1, WorkerBegins DEF PatchWorking
    <2>2. CASE Step
      BY <1>0, <2>2, WorkerSteps DEF PatchWorking
    <2>3. CASE Environment \/ UNCHANGED vars
      <3>1. ha' = ha \/ w.pc \in {"working", "drain"}
        BY <1>0, <1>3, WorkStateChanges DEF SetWorking, SetDraining
      <3> QED BY <1>0, <2>3, <3>1, WorkerDisturbed DEF WorkInv, PatchWorking
    <2> QED BY <2>1, <2>2, <2>3 DEF Next
  <1>6. HeldPodIsWorking'
    <2> SUFFICES ASSUME NEW c \in Claims, NEW p \in Pods, Claim(c)'.st = "live",
                        Claim(c)'.podName = p, Pod(p)'.phase # "Gone"
                 PROVE  ha'[p] = "Working"
      <3>1. \A c \in Claims : Claim(c)' \in ClaimObj
        <4>1. claims' \in [Claims -> Logs(ClaimObj)]
          BY <1>1 DEF BindingInv, TypeOK
        <4> QED BY <4>1, LogEnds DEF Claim
      <3>2. \A c \in Claims : Claim(c)'.podName # None => Claim(c)'.podName \in Pods
        BY <3>1 DEF ClaimObj
      <3> QED BY <3>2 DEF HeldPodIsWorking, Live, Exists, Pod
    <2>0. p # None /\ Exists(p)
      BY <1>0, ClaimAssumption, GoneForGood DEF Exists
    <2>1. CASE Claim(c).st = "live" /\ Claim(c).podName = p
      <3>1. ha[p] = "Working"
        BY <2>0, <2>1 DEF WorkInv, HeldPodIsWorking, Live
      <3>2. SetDraining => w.pod # p
        BY <1>0, <2>1, ReclaimedIsLeft DEF SetDraining, Live
      <3> QED BY <1>0, <1>3, <1>4, <3>1, <3>2, WorkStateChanges
    <2>2. CASE PatchClaim /\ w.pod = p
      <3>1. ha' = ha /\ ha[p] = "Working"
        BY <2>2 DEF PatchClaim, WorkInv, PatchWorking
      <3> QED BY <3>1
    <2>3. CASE UpdateStatus /\ w.c = c /\ w.fresh /\ Claim(c)'.st = w.obj.st
               /\ Claim(c)'.podName = w.obj.podName
      <3>1. w.obj = Claim(c)
        BY <1>0, <2>3 DEF BindingInv, KnowsClaim, UpdateStatus
      <3> QED BY <2>1, <2>3, <3>1
    <2> QED BY <1>0, <2>0, <2>1, <2>2, <2>3, ClaimChanges DEF ClaimEffect
  <1> QED BY <1>1, <1>2, <1>5, <1>6 DEF WorkInv

\* Without migrations and in-place updates, and when the cnstore controller
\* does not come back to a pod before the cache has its own last patch, the CN of
\* the pod that a live claim refers to is working in HAKeeper, whatever else the
\* cache has missed and whatever fails.
THEOREM HeldPodsWork ==
  ASSUME Disruptions \cap {"migrate", "requeue", "inplace"} = {}
  PROVE  Spec => []HeldPodIsWorking
  <1>1. Init => WorkInv
    <2> SUFFICES ASSUME Init PROVE WorkInv
      OBVIOUS
    <2>1. BindingInv
      BY BindingInductive
    <2>2. AllNormal
      BY DEF Init, AllNormal, Pod, Latest
    <2>3. PatchWorking
      BY Objects DEF Init, PatchWorking
    <2>4. \A c \in Claims : Claim(c).st = "unborn"
      BY DEF Init, Claim, Latest, Unborn
    <2>5. HeldPodIsWorking
      BY <2>4 DEF HeldPodIsWorking, Live
    <2> QED BY <2>1, <2>2, <2>3, <2>5 DEF WorkInv
  <1>2. WorkInv /\ [Next]_vars => WorkInv'
    BY WorkInductive
  <1>3. WorkInv => HeldPodIsWorking
    BY DEF WorkInv
  <1> QED BY <1>1, <1>2, <1>3, PTL DEF Spec

-----------------------------------------------------------------------------
(* One pod for a claim, when the cache is never behind *)

\* A claim holds one pod.
OnePodEach ==
  \A p, q \in Pods, c \in Claims : BoundTo(Pod(p), c) /\ BoundTo(Pod(q), c) => p = q

\* A claim that is choosing a pod has none.
ChoosesFirst == w.pc = "own" /\ w.bind => \A p \in Pods : ~BoundTo(Pod(p), w.c)

OnePodInv == BindingInv /\ OnePodEach /\ ChoosesFirst

LEMMA OnePodInductive ==
  ASSUME OnePodInv, [Next]_vars, MaxLag = 0, "migrate" \notin Disruptions
  PROVE  OnePodInv'
  <1>0. TypeOK /\ BindingInv
    BY DEF OnePodInv, BindingInv
  <1>1. BindingInv'
    BY <1>0, BindingInductive
  <1>2. ASSUME NEW p \in Pods, NEW c \in Claims, BoundTo(Pod(p)', c)
        PROVE  \/ BoundTo(Pod(p), c)
               \/ /\ ensureOwnership(p) /\ c = w.c
                  /\ \A q \in Pods : ~BoundTo(Pod(q), c)
    <2>1. CASE ensureOwnership(p) /\ c = w.c
      <3>1. w.pc = "own" /\ p \in w.todo /\ p \in w.cur
        BY <2>1 DEF ensureOwnership, UpdateSucceeds
      <3>2. CASE w.bind
        BY <2>1, <3>1, <3>2 DEF OnePodInv, ChoosesFirst
      <3>3. CASE ~w.bind
        BY <1>0, <2>1, <3>1, <3>3 DEF BindingInv, KnowsCandidates, HeldBy, BoundTo
      <3> QED BY <3>2, <3>3
    <2>2. CASE transferPodOwnership(p)
      BY <1>0, <2>2 DEF transferPodOwnership, BindingInv, KnowsReclaimed
    <2> QED BY <1>0, <1>2, <2>1, <2>2, NewlyBound
  <1>3. OnePodEach'
    <2> SUFFICES ASSUME NEW p \in Pods, NEW q \in Pods, NEW c \in Claims,
                        BoundTo(Pod(p)', c), BoundTo(Pod(q)', c)
                 PROVE  p = q
      BY DEF OnePodEach
    <2>1. CASE BoundTo(Pod(p), c) /\ BoundTo(Pod(q), c)
      BY <2>1 DEF OnePodInv, OnePodEach
    <2>2. CASE ensureOwnership(p) /\ ensureOwnership(q)
      <3>1. Pod(p) \in PodObj /\ Pod(q) \in PodObj /\ w.c \in Claims
        BY <1>0, <2>2, Reads DEF ensureOwnership, TypeOK
      <3>2. \A r \in Pods \ {q} : Pod(r)' = Pod(r)
        <4>1. OwnedBy(Pod(q), w.c) \in PodObj
          BY <3>1 DEF OwnedBy, PodObj, PodPhases
        <4> QED BY <1>0, <2>2, <4>1, PodWritten DEF ensureOwnership
      <3>3. CASE p # q
        <4>1. BoundTo(Pod(p), c)
          BY <3>2, <3>3
        <4>2. BoundTo(Pod(q), c)
          BY <1>2, <4>1
        <4> QED BY <2>1, <4>1, <4>2
      <3> QED BY <3>3
    <2> QED BY <1>2, <2>1, <2>2
  <1>4. ChoosesFirst'
    <2> SUFFICES ASSUME w'.pc = "own", w'.bind, NEW p \in Pods, BoundTo(Pod(p)', w'.c)
                 PROVE  FALSE
      BY DEF ChoosesFirst
    <2>0. w'.c \in Claims
      BY <1>1 DEF BindingInv, TypeOK
    <2>1. ASSUME NEW c \in Claims, Observe(c) PROVE FALSE
      <3>1. listOwned(c) = {} /\ w'.c = c /\ UNCHANGED pods
        BY <1>0, <2>1, WorkerBegins
      <3>2. Pod(p)' = Pod(p) /\ SeenPod(p) = Pod(p)
        BY <1>0, <3>1, NoLag DEF Pod
      <3> QED BY <3>1, <3>2 DEF listOwned
    <2>2. CASE w.pc = "own" /\ w.bind /\ w'.c = w.c
      <3>1. ~BoundTo(Pod(p), w'.c)
        BY <2>2 DEF OnePodInv, ChoosesFirst
      <3>2. ensureOwnership(p)
        BY <1>2, <2>0, <3>1
      <3> QED BY <3>2, <1>0, Objects DEF ensureOwnership, syncBindPod, TypeOK, Worker
    <2>3. CASE Step
      BY <1>0, <2>2, <2>3, WorkerSteps
    <2>4. CASE Environment \/ UNCHANGED vars
      BY <1>0, <2>2, <2>4, WorkerDisturbed
    <2> QED BY <2>1, <2>3, <2>4 DEF Next
  <1> QED BY <1>1, <1>3, <1>4 DEF OnePodInv

\* Without migrations and with a cache that is never behind, a claim never
\* has two pods, whichever reconciliations break off.
THEOREM OnePodPerClaim ==
  ASSUME MaxLag = 0, "migrate" \notin Disruptions
  PROVE  Spec => []AtMostOnePod
  <1>1. Init => OnePodInv
    <2> SUFFICES ASSUME Init PROVE OnePodInv
      OBVIOUS
    <2>1. BindingInv
      BY BindingInductive
    <2>2. \A p \in Pods : Pod(p).phase = "Unknown"
      BY DEF Init, Pod, Latest
    <2>3. OnePodEach
      BY <2>2 DEF OnePodEach, BoundTo
    <2>4. ChoosesFirst
      BY Objects DEF Init, ChoosesFirst
    <2> QED BY <2>1, <2>3, <2>4 DEF OnePodInv
  <1>2. OnePodInv /\ [Next]_vars => OnePodInv'
    BY OnePodInductive
  <1>3. OnePodInv => AtMostOnePod
    <2> SUFFICES ASSUME OnePodInv, NEW c \in Claims
                 PROVE  Cardinality({p \in Pods : BoundTo(Pod(p), c)}) <= 1
      BY DEF AtMostOnePod
    <2> DEFINE S == {p \in Pods : BoundTo(Pod(p), c)}
    <2>1. CASE S = {}
      BY <2>1, FS_EmptySet
    <2>2. CASE S # {}
      <3>1. PICK q : q \in S
        BY <2>2
      <3>2. S = {q}
        BY <3>1 DEF OnePodInv, OnePodEach
      <3>3. Cardinality({q}) = 1
        BY FS_Singleton
      <3> QED BY <3>2, <3>3
    <2> QED BY <2>1, <2>2
  <1> QED BY <1>1, <1>2, <1>3, PTL DEF Spec

-----------------------------------------------------------------------------
(* The labels of the pods keep to the life cycle that the pool promises, when *)
(* the cache is never behind                                                  *)

\* The phase of a pod as PodLifecycle has it: a pod is Condemned if it was set to
\* Terminating while the cnstore controller is about to set it to something else.
PhaseOf(pod, planned) ==
  IF pod.phase = "Gone" THEN "none"
  ELSE IF pod.phase = "Terminating" /\ planned # "none" THEN "Condemned"
  ELSE pod.phase

HolderOf(pod) == IF pod.phase = "Bound" THEN pod.by ELSE None

lifePhase == [p \in Pods |-> PhaseOf(Pod(p), plan[p])]
lifeHolder == [p \in Pods |-> HolderOf(Pod(p))]

Lifecycle == INSTANCE PodLifecycle WITH phase <- lifePhase, holder <- lifeHolder, NONE <- None

\* What Finalize has listed and not yet handled is still the claim's.
ListedIsHeld ==
  w.pc \in {"owned", "drain", "release"} => \A p \in w.todo : HeldBy(Pod(p), w.c)

LifeInv == BindingInv /\ ListedIsHeld

\* What the other controllers write to a pod.
LEMMA OthersWrite ==
  ASSUME TypeOK, NEW q \in Pods, Exists(q),
         \/ StorePatch(q) \/ PoolScaleIn(q) \/ LabelOutdated(q) \/ PodDeleted(q)
         \/ PodDies(q) \/ PodLifecycle(q)
  PROVE  \E v \in PodObj :
           /\ WritePod(q, v) /\ v.by = Pod(q).by
           /\ \/ StorePatch(q) /\ v.phase = plan[q]
              \/ PoolScaleIn(q) /\ v.phase = "Terminating" /\ UNCHANGED plan
              \/ v.phase \in {Pod(q).phase, "Gone"} /\ UNCHANGED plan
  <1>1. Pod(q) \in PodObj
    BY Reads
  <1>2. plan[q] \in {"none", "Idle", "Terminating"}
    BY DEF TypeOK
  <1>3. CASE StorePatch(q)
    <2> DEFINE v == [Pod(q) EXCEPT !.phase = plan[q]]
    <2>1. v \in PodObj /\ v.phase = plan[q] /\ v.by = Pod(q).by
      BY <1>1, <1>2, <1>3 DEF StorePatch, PodObj, PodPhases
    <2>2. WritePod(q, v)
      BY <1>3 DEF StorePatch
    <2> HIDE DEF v
    <2> QED BY <1>3, <2>1, <2>2
  <1>4. CASE PoolScaleIn(q)
    <2> DEFINE v == [Pod(q) EXCEPT !.phase = "Terminating"]
    <2>1. v \in PodObj /\ v.phase = "Terminating" /\ v.by = Pod(q).by
      BY <1>1 DEF PodObj, PodPhases
    <2>2. WritePod(q, v) /\ UNCHANGED plan
      BY <1>4 DEF PoolScaleIn
    <2> HIDE DEF v
    <2> QED BY <1>4, <2>1, <2>2
  <1>5. CASE LabelOutdated(q)
    <2> DEFINE v == [Pod(q) EXCEPT !.old = TRUE]
    <2>1. v \in PodObj /\ v.phase = Pod(q).phase /\ v.by = Pod(q).by
      BY <1>1 DEF PodObj
    <2>2. WritePod(q, v) /\ UNCHANGED plan
      BY <1>5 DEF LabelOutdated
    <2> HIDE DEF v
    <2> QED BY <2>1, <2>2
  <1>6. CASE PodDeleted(q)
    <2> DEFINE v == [Pod(q) EXCEPT !.phase = "Gone"]
    <2>1. v \in PodObj /\ v.phase = "Gone" /\ v.by = Pod(q).by
      BY <1>1 DEF PodObj, PodPhases
    <2>2. WritePod(q, v) /\ UNCHANGED plan
      BY <1>6 DEF PodDeleted
    <2> HIDE DEF v
    <2> QED BY <2>1, <2>2
  <1>7. CASE PodDies(q)
    <2> DEFINE v == [Pod(q) EXCEPT !.dead = TRUE]
    <2>1. v \in PodObj /\ v.phase = Pod(q).phase /\ v.by = Pod(q).by
      BY <1>1 DEF PodObj
    <2>2. WritePod(q, v) /\ UNCHANGED plan
      BY <1>7 DEF PodDies
    <2> HIDE DEF v
    <2> QED BY <2>1, <2>2
  <1>8. CASE PodLifecycle(q)
    <2> DEFINE v == [Pod(q) EXCEPT !.normal = ~@]
    <2>1. v \in PodObj /\ v.phase = Pod(q).phase /\ v.by = Pod(q).by
      BY <1>1 DEF PodObj
    <2>2. WritePod(q, v) /\ UNCHANGED plan
      BY <1>8 DEF PodLifecycle
    <2> HIDE DEF v
    <2> QED BY <2>1, <2>2
  <1> QED BY <1>3, <1>4, <1>5, <1>6, <1>7, <1>8

\* A write maps to a change of one pod of the life cycle.
LEMMA LifeWrite ==
  ASSUME TypeOK, NEW q \in Pods, NEW v \in PodObj, WritePod(q, v),
         \A r \in Pods \ {q} : plan'[r] = plan[r]
  PROVE  /\ lifePhase' = [lifePhase EXCEPT ![q] = PhaseOf(v, plan'[q])]
         /\ lifeHolder' = [lifeHolder EXCEPT ![q] = HolderOf(v)]
  <1>1. Pod(q)' = v /\ \A r \in Pods \ {q} : Pod(r)' = Pod(r)
    BY PodWritten
  <1>2. \A r \in Pods : /\ lifePhase'[r] = IF r = q THEN PhaseOf(v, plan'[q]) ELSE lifePhase[r]
                        /\ lifeHolder'[r] = IF r = q THEN HolderOf(v) ELSE lifeHolder[r]
    BY <1>1 DEF lifePhase, lifeHolder
  <1> QED BY <1>2 DEF lifePhase, lifeHolder

LifeStep == [Lifecycle!Next]_(Lifecycle!vars)

LEMMA LifeTypes ==
  ASSUME NEW v \in PodObj, NEW d
  PROVE  PhaseOf(v, d) \in Lifecycle!Phases /\ HolderOf(v) \in Claims \cup {None}
  BY DEF PhaseOf, HolderOf, PodObj, PodPhases, Lifecycle!Phases

\* Pods that stay or make one of the moves.
LEMMA LifeMoves ==
  ASSUME TypeOK', \A p \in Pods : \/ lifePhase'[p] = lifePhase[p] /\ lifeHolder'[p] = lifeHolder[p]
                                  \/ /\ <<lifePhase[p], lifePhase'[p]>> \in Lifecycle!Moves
                                     /\ lifeHolder'[p] = None
  PROVE  LifeStep
  <1>1. /\ lifePhase' \in [Pods -> Lifecycle!Phases]
        /\ lifeHolder' \in [Pods -> Claims \cup {None}]
    <2>1. \A p \in Pods : Pod(p)' \in PodObj
      BY LogEnds DEF TypeOK, Pod
    <2>2. \A p \in Pods : /\ PhaseOf(Pod(p)', plan'[p]) \in Lifecycle!Phases
                          /\ HolderOf(Pod(p)') \in Claims \cup {None}
      BY <2>1, LifeTypes
    <2> QED BY <2>2 DEF lifePhase, lifeHolder
  <1>2. Lifecycle!Move
    BY <1>1 DEF Lifecycle!Move
  <1> QED BY <1>2 DEF LifeStep, Lifecycle!Next

\* The environment takes no pod from its claim but by deleting it.
LEMMA HeldStays ==
  ASSUME BindingInv, Environment, NEW p \in Pods, NEW c, HeldBy(Pod(p), c)
  PROVE  HeldBy(Pod(p)', c)
  <1>1. TypeOK /\ plan[p] \in {"none", "Idle", "Terminating"}
    BY DEF BindingInv, TypeOK
  <1>2. Environment /\ PodEffect(p)
    BY <1>1, PodChanges DEF Next
  <1>3. CASE Pod(p)' = Pod(p)
    BY <1>3
  <1>4. ASSUME NEW q \in Pods, Exists(q),
               \/ StorePatch(q) \/ PoolScaleIn(q) \/ LabelOutdated(q) \/ PodDeleted(q)
               \/ PodDies(q) \/ PodLifecycle(q)
        PROVE  HeldBy(Pod(p)', c)
    <2>1. PICK v \in PodObj :
            /\ WritePod(q, v) /\ v.by = Pod(q).by
            /\ \/ StorePatch(q) /\ v.phase = plan[q]
               \/ PoolScaleIn(q) /\ v.phase = "Terminating" /\ UNCHANGED plan
               \/ v.phase \in {Pod(q).phase, "Gone"} /\ UNCHANGED plan
      BY <1>1, <1>4, OthersWrite
    <2>2. Pod(q)' = v /\ \A r \in Pods \ {q} : Pod(r)' = Pod(r)
      BY <1>1, <2>1, PodWritten
    <2>3. CASE p # q
      BY <1>3, <2>2, <2>3
    <2>4. CASE p = q
      <3>1. Pod(p).phase = "Bound"
        BY <1>4, <2>4 DEF HeldBy, Exists
      <3>2. ~StorePatch(q) /\ ~PoolScaleIn(q)
        BY <2>4, <3>1 DEF StorePatch, PoolScaleIn, BindingInv, PlannedIsFree
      <3> QED BY <2>1, <2>2, <2>4, <3>2 DEF HeldBy
    <2> QED BY <2>3, <2>4
  <1>5. ASSUME NEW q \in Pods, ~Exists(q),
               \/ StorePatch(q) \/ PoolScaleIn(q) \/ LabelOutdated(q) \/ PodDeleted(q)
               \/ PodDies(q) \/ PodLifecycle(q)
        PROVE  Pod(p)' = Pod(p)
    BY <1>5 DEF StorePatch, PoolScaleIn, LabelOutdated, PodDeleted, PodDies, PodLifecycle, Exists, Pod
  <1>6. ASSUME NEW q \in Pods, DeliverPod(q)
        PROVE  Pod(p)' = Pod(p)
    <2>1. Latest(Tail(pods[q])) = Latest(pods[q])
      BY <1>1, <1>6, Reads, DeliverLog DEF DeliverPod
    <2> QED BY <1>1, <1>6, <2>1 DEF DeliverPod, Pod, TypeOK
  <1>7. CASE Restart
    BY <1>1, <1>3, <1>7, FreshLog, Reads DEF Restart, Pod
  <1>8. CASE UNCHANGED pods
    BY <1>3, <1>8 DEF Pod
  <1> QED BY <1>3, <1>4, <1>5, <1>6, <1>7, <1>8
          DEF Environment, StoreDecide, reclaimLegacyCNClaim, OnPreparingUpdate, CreateClaim,
              DeleteClaim, DeliverClaim, MigrateClaim, Abort

LEMMA ListedInductive ==
  ASSUME LifeInv, [Next]_vars, MaxLag = 0, "migrate" \notin Disruptions
  PROVE  LifeInv'
  <1>0. TypeOK /\ BindingInv /\ ListedIsHeld
    BY DEF LifeInv, BindingInv
  <1>1. BindingInv'
    BY <1>0, BindingInductive
  <1>2. ListedIsHeld'
    <2> SUFFICES ASSUME w'.pc \in {"owned", "drain", "release"}, NEW p, p \in w'.todo
                 PROVE  HeldBy(Pod(p)', w'.c)
      BY DEF ListedIsHeld
    <2>1. p \in Pods
      BY <1>1 DEF BindingInv, TypeOK, Worker
    <2>2. ASSUME NEW c \in Claims, Observe(c) PROVE HeldBy(Pod(p)', w'.c)
      <3>1. UNCHANGED pods /\ w'.c = c /\ p \in listOwned(c)
        BY <1>0, <2>2, WorkerBegins
      <3>2. Pod(p)' = Pod(p) /\ SeenPod(p) = Pod(p)
        BY <1>0, <2>1, <3>1, NoLag DEF Pod
      <3> QED BY <3>1, <3>2 DEF listOwned, BoundTo, HeldBy
    <2>3. CASE Environment
      <3>1. w'.pc = w.pc /\ w'.c = w.c /\ w'.todo = w.todo
        BY <1>0, <2>3, WorkerDisturbed
      <3>2. HeldBy(Pod(p), w.c)
        BY <1>0, <3>1 DEF ListedIsHeld
      <3> QED BY <1>0, <2>1, <2>3, <3>1, <3>2, HeldStays
    <2>4. CASE UNCHANGED vars
      BY <1>0, <2>4 DEF vars, ListedIsHeld, Pod
    <2>5. CASE Step /\ ~Environment
      <3>1. w'.c = w.c /\ p \in w.todo /\ w.pc \in {"owned", "drain", "release"}
        BY <1>0, <2>5, WorkerSteps DEF BindingInv, NoMigration
      <3>2. HeldBy(Pod(p), w.c)
        BY <1>0, <3>1 DEF ListedIsHeld
      <3>3. PodEffect(p)
        BY <1>0, <2>1, PodChanges
      <3>4. ~ensureOwnership(p) /\ ~transferPodOwnership(p)
        BY <1>0, <3>1 DEF ensureOwnership, transferPodOwnership, BindingInv, KnowsReclaimed
      <3>5. ~(reclaimCN /\ w.pod = p /\ Exists(p))
        <4> SUFFICES ASSUME reclaimCN, w.pod = p, Exists(p) PROVE FALSE
          OBVIOUS
        <4>1. NextOwned(p)
          BY <3>1 DEF reclaimCN
        <4>2. w \in Worker
          BY <1>0 DEF TypeOK
        <4>3. w' = Resting \/ w'.todo = w.todo \ {p}
          BY <4>1, <4>2 DEF NextOwned, Worker
        <4> QED BY <4>3, Objects
      <3> QED BY <2>5, <3>1, <3>2, <3>3, <3>4, <3>5 DEF PodEffect
    <2> QED BY <2>2, <2>3, <2>4, <2>5 DEF Next
  <1> QED BY <1>1, <1>2 DEF LifeInv

\* A step that leaves all labels and plans.
LEMMA LifeStays ==
  ASSUME \A p \in Pods : Pod(p)' = Pod(p), UNCHANGED plan
  PROVE  LifeStep
  <1>1. lifePhase' = lifePhase /\ lifeHolder' = lifeHolder
    BY DEF lifePhase, lifeHolder
  <1> QED BY <1>1 DEF LifeStep, Lifecycle!vars

\* A write to pod q that lets the pod stay or makes one of the moves.
LEMMA LifeMove ==
  ASSUME TypeOK, TypeOK', NEW q \in Pods, NEW v \in PodObj, WritePod(q, v),
         \A r \in Pods \ {q} : plan'[r] = plan[r],
         \/ PhaseOf(v, plan'[q]) = lifePhase[q] /\ HolderOf(v) = lifeHolder[q]
         \/ <<lifePhase[q], PhaseOf(v, plan'[q])>> \in Lifecycle!Moves /\ HolderOf(v) = None
  PROVE  LifeStep
  <1>1. /\ lifePhase' = [lifePhase EXCEPT ![q] = PhaseOf(v, plan'[q])]
        /\ lifeHolder' = [lifeHolder EXCEPT ![q] = HolderOf(v)]
    BY LifeWrite
  <1>2. \A p \in Pods : /\ lifePhase'[p] = IF p = q THEN PhaseOf(v, plan'[q]) ELSE lifePhase[p]
                        /\ lifeHolder'[p] = IF p = q THEN HolderOf(v) ELSE lifeHolder[p]
    BY <1>1 DEF lifePhase, lifeHolder
  <1> QED BY <1>2, LifeMoves

\* The worker takes a pod or starts to drain one.
LEMMA WorkerLife ==
  ASSUME LifeInv, TypeOK', Step
  PROVE  LifeStep
  <1>0. TypeOK /\ BindingInv /\ ListedIsHeld
    BY DEF LifeInv, BindingInv
  <1>1. ASSUME NEW q \in Pods, ensureOwnership(q)
        PROVE  LifeStep
    <2>1. Pod(q) \in PodObj /\ w.c \in Claims /\ UNCHANGED plan
      BY <1>0, <1>1, Reads DEF ensureOwnership, TypeOK
    <2> DEFINE v == OwnedBy(Pod(q), w.c)
    <2>2. v \in PodObj /\ v.phase = "Bound" /\ v.by = w.c
      BY <2>1 DEF OwnedBy, PodObj, PodPhases
    <2>3. WritePod(q, v)
      BY <1>1 DEF ensureOwnership
    <2> HIDE DEF v
    <2>4. PhaseOf(v, plan'[q]) = "Bound" /\ HolderOf(v) = w.c
      BY <2>2 DEF PhaseOf, HolderOf
    <2>5. CASE w.bind
      <3>1. Pod(q).phase = "Idle"
        BY <1>0, <1>1, <2>5 DEF ensureOwnership, UpdateSucceeds, BindingInv, KnowsCandidates
      <3>2. lifePhase[q] = "Idle"
        BY <3>1 DEF lifePhase, PhaseOf
      <3>3. /\ lifePhase' = [lifePhase EXCEPT ![q] = "Bound"]
            /\ lifeHolder' = [lifeHolder EXCEPT ![q] = w.c]
        BY <1>0, <2>1, <2>2, <2>3, <2>4, LifeWrite
      <3>4. Lifecycle!Claim(q, w.c)
        BY <3>2, <3>3 DEF Lifecycle!Claim
      <3> QED BY <2>1, <3>4 DEF LifeStep, Lifecycle!Next
    <2>6. CASE ~w.bind
      <3>1. Pod(q).phase = "Bound" /\ Pod(q).by = w.c
        BY <1>0, <1>1, <2>6 DEF ensureOwnership, UpdateSucceeds, BindingInv, KnowsCandidates, HeldBy
      <3>2. lifePhase[q] = "Bound" /\ lifeHolder[q] = w.c
        BY <3>1 DEF lifePhase, lifeHolder, PhaseOf, HolderOf
      <3> QED BY <1>0, <2>1, <2>2, <2>3, <2>4, <3>2, LifeMove
    <2> QED BY <2>5, <2>6
  <1>2. ASSUME NEW q \in Pods, transferPodOwnership(q)
        PROVE  FALSE
    BY <1>0, <1>2 DEF transferPodOwnership, BindingInv, KnowsReclaimed
  <1>3. CASE UNCHANGED <<pods, plan>>
    BY <1>3, LifeStays DEF Pod
  <1>4. CASE reclaimCN
    <2> DEFINE q == w.pod
    <2>1. q \in Pods /\ q \in w.todo /\ UNCHANGED plan
      BY <1>0, <1>4 DEF reclaimCN, TypeOK, BindingInv, KnowsReclaimed
    <2>2. Pod(q).phase \in {"Bound", "Gone"}
      BY <1>0, <1>4, <2>1 DEF reclaimCN, ListedIsHeld, HeldBy
    <2>3. CASE ~Exists(q)
      BY <1>3, <1>4, <2>1, <2>3 DEF reclaimCN
    <2>4. CASE Exists(q)
      <3> DEFINE v == [Pod(q) EXCEPT !.phase = "Draining", !.by = None]
      <3>1. Pod(q) \in PodObj
        BY <1>0, <2>1, Reads
      <3>2. v \in PodObj /\ v.phase = "Draining" /\ v.by = None
        BY <3>1 DEF PodObj, PodPhases
      <3>3. WritePod(q, v)
        BY <1>4, <2>4 DEF reclaimCN
      <3> HIDE DEF v
      <3>4. PhaseOf(v, plan'[q]) = "Draining" /\ HolderOf(v) = None
        BY <3>2 DEF PhaseOf, HolderOf
      <3>5. lifePhase[q] = "Bound"
        BY <2>1, <2>2, <2>4 DEF lifePhase, PhaseOf, Exists
      <3>6. <<"Bound", "Draining">> \in Lifecycle!Moves
        BY DEF Lifecycle!Moves
      <3> HIDE DEF q
      <3> QED BY <1>0, <2>1, <3>2, <3>3, <3>4, <3>5, <3>6, LifeMove
    <2> QED BY <2>3, <2>4
  <1> QED BY <1>1, <1>2, <1>3, <1>4
       DEF Step, OwnershipConflict, FinalizeStuck, FinalizeReclaim, Nominate, SetWorking,
           PatchClaim, UpdateStatus, ClearLost, SyncStatus, MigrateObserve, MigrateWait,
           completeMigration, SetDraining, RemoveFinalizer

\* What the labels of a pod that nobody holds map to.
LEMMA FreePod ==
  ASSUME TypeOK, PlannedIsFree, NEW q \in Pods, plan[q] # "none", Exists(q)
  PROVE  lifePhase[q] \in {"Unknown", "Draining", "Condemned"}
  <1>1. Pod(q) \in PodObj
    BY Reads
  <1>2. Pod(q).phase \in {"Unknown", "Draining", "Terminating"}
    BY <1>1 DEF PodObj, PodPhases, PlannedIsFree, Exists
  <1> QED BY <1>2 DEF lifePhase, PhaseOf

\* The cnstore controller, the pool controller, Kruise and the nodes.
LEMMA OthersLife ==
  ASSUME LifeInv, TypeOK', NEW q \in Pods, Exists(q),
         \/ StorePatch(q) \/ PoolScaleIn(q) \/ LabelOutdated(q) \/ PodDeleted(q)
         \/ PodDies(q) \/ PodLifecycle(q)
  PROVE  LifeStep
  <1>0. TypeOK /\ PlannedIsFree
    BY DEF LifeInv, BindingInv
  <1>1. PICK v \in PodObj :
          /\ WritePod(q, v) /\ v.by = Pod(q).by
          /\ \/ StorePatch(q) /\ v.phase = plan[q]
             \/ PoolScaleIn(q) /\ v.phase = "Terminating" /\ UNCHANGED plan
             \/ v.phase \in {Pod(q).phase, "Gone"} /\ UNCHANGED plan
    BY <1>0, OthersWrite
  <1>2. CASE StorePatch(q) /\ v.phase = plan[q]
    <2>1. /\ plan[q] \in {"Idle", "Terminating"}
          /\ plan'[q] = "none" /\ \A r \in Pods \ {q} : plan'[r] = plan[r]
      BY <1>0, <1>2 DEF StorePatch, TypeOK
    <2>2. PhaseOf(v, plan'[q]) = plan[q] /\ HolderOf(v) = None
      BY <1>2, <2>1 DEF PhaseOf, HolderOf
    <2>3. lifePhase[q] \in {"Unknown", "Draining", "Condemned"}
      BY <1>0, <2>1, FreePod
    <2>4. <<lifePhase[q], plan[q]>> \in Lifecycle!Moves
      BY <2>1, <2>3 DEF Lifecycle!Moves
    <2> QED BY <1>0, <1>1, <2>1, <2>2, <2>4, LifeMove
  <1>3. CASE PoolScaleIn(q) /\ v.phase = "Terminating" /\ UNCHANGED plan
    <2>1. HolderOf(v) = None
      BY <1>3 DEF HolderOf
    <2>2. Pod(q).phase \in {"Unknown", "Idle"}
      BY <1>3 DEF PoolScaleIn
    <2>3. lifePhase[q] = Pod(q).phase
      BY <2>2 DEF lifePhase, PhaseOf
    <2>4. \/ PhaseOf(v, plan'[q]) = "Terminating"
          \/ PhaseOf(v, plan'[q]) = "Condemned" /\ Pod(q).phase = "Unknown"
      BY <1>0, <1>3, <2>2 DEF PhaseOf, PlannedIsFree
    <2>5. <<lifePhase[q], PhaseOf(v, plan'[q])>> \in Lifecycle!Moves
      BY <2>2, <2>3, <2>4 DEF Lifecycle!Moves
    <2> QED BY <1>0, <1>1, <1>3, <2>1, <2>5, LifeMove
  <1>4. CASE v.phase = Pod(q).phase /\ UNCHANGED plan
    <2>1. PhaseOf(v, plan'[q]) = lifePhase[q] /\ HolderOf(v) = lifeHolder[q]
      BY <1>1, <1>4 DEF PhaseOf, HolderOf, lifePhase, lifeHolder
    <2> QED BY <1>0, <1>1, <1>4, <2>1, LifeMove
  <1>5. CASE v.phase = "Gone" /\ UNCHANGED plan
    <2>1. PhaseOf(v, plan'[q]) = "none" /\ HolderOf(v) = None
      BY <1>5 DEF PhaseOf, HolderOf
    <2>2. /\ lifePhase' = [lifePhase EXCEPT ![q] = "none"]
          /\ lifeHolder' = [lifeHolder EXCEPT ![q] = None]
      BY <1>0, <1>1, <1>5, <2>1, LifeWrite
    <2>3. Pod(q) \in PodObj
      BY <1>0, Reads
    <2>4. lifePhase[q] # "none"
      BY <2>3 DEF lifePhase, PhaseOf, Exists, PodObj, PodPhases
    <2>5. Lifecycle!Vanish(q)
      BY <2>2, <2>4 DEF Lifecycle!Vanish
    <2> QED BY <2>5 DEF LifeStep, Lifecycle!Next
  <1> QED BY <1>1, <1>2, <1>3, <1>4, <1>5

\* A restart forgets what the cnstore controller was about to patch: no pod is
\* Condemned any more.
LEMMA RestartLife ==
  ASSUME LifeInv, TypeOK', Restart
  PROVE  LifeStep
  <1>0. TypeOK
    BY DEF LifeInv, BindingInv
  <1>1. \A p \in Pods : Pod(p)' = Pod(p) /\ plan'[p] = "none"
    BY <1>0, FreshLog, Reads DEF Restart, Pod
  <1>2. \A p \in Pods : \/ lifePhase'[p] = lifePhase[p]
                        \/ /\ lifePhase[p] = "Condemned" /\ lifePhase'[p] = "Terminating"
                           /\ Pod(p).phase = "Terminating"
    BY <1>1 DEF lifePhase, PhaseOf
  <1>3. \A p \in Pods : lifeHolder'[p] = HolderOf(Pod(p)) /\ lifeHolder[p] = HolderOf(Pod(p))
    BY <1>1 DEF lifeHolder
  <1>4. <<"Condemned", "Terminating">> \in Lifecycle!Moves
    BY DEF Lifecycle!Moves
  <1>5. \A p \in Pods : Pod(p).phase = "Terminating" => HolderOf(Pod(p)) = None
    BY DEF HolderOf
  <1>6. \A p \in Pods : \/ lifePhase'[p] = lifePhase[p] /\ lifeHolder'[p] = lifeHolder[p]
                        \/ /\ <<lifePhase[p], lifePhase'[p]>> \in Lifecycle!Moves
                           /\ lifeHolder'[p] = None
    BY <1>2, <1>3, <1>4, <1>5
  <1> QED BY <1>6, LifeMoves

LEMMA EnvironmentLife ==
  ASSUME LifeInv, TypeOK', Environment, MaxLag = 0
  PROVE  LifeStep
  <1>0. TypeOK
    BY DEF LifeInv, BindingInv
  <1>1. ASSUME NEW q \in Pods, NEW phase \in {"Idle", "Terminating"}, StoreDecide(q, phase)
        PROVE  LifeStep
    <2>1. Pod(q).phase \in {"Unknown", "Draining"} /\ \A p \in Pods : Pod(p)' = Pod(p)
      <3>1. StoreCopies(q) = {Pod(q)}
        BY <1>0, NoLag DEF StoreCopies
      <3> QED BY <1>1, <3>1 DEF StoreDecide, Pod
    <2>2. \A p \in Pods \ {q} : plan'[p] = plan[p]
      BY <1>0, <1>1 DEF StoreDecide, TypeOK
    <2>3. \A p \in Pods : PhaseOf(Pod(p)', plan'[p]) = PhaseOf(Pod(p), plan[p])
      BY <2>1, <2>2 DEF PhaseOf
    <2>4. lifePhase' = lifePhase /\ lifeHolder' = lifeHolder
      BY <2>1, <2>3 DEF lifePhase, lifeHolder
    <2> QED BY <2>4 DEF LifeStep, Lifecycle!vars
  <1>2. ASSUME NEW q \in Pods,
               \/ StorePatch(q) \/ PoolScaleIn(q) \/ LabelOutdated(q) \/ PodDeleted(q)
               \/ PodDies(q) \/ PodLifecycle(q)
        PROVE  LifeStep
    <2>1. CASE Exists(q)
      BY <1>2, <2>1, OthersLife
    <2>2. CASE ~Exists(q)
      <3>1. StorePatch(q) /\ Pod(q).phase = "Gone"
        BY <1>2, <2>2 DEF PoolScaleIn, LabelOutdated, PodDeleted, PodDies, PodLifecycle, Exists
      <3>2. /\ \A p \in Pods : Pod(p)' = Pod(p)
            /\ \A p \in Pods \ {q} : plan'[p] = plan[p]
        BY <1>0, <2>2, <3>1 DEF StorePatch, TypeOK, Pod
      <3>3. \A p \in Pods : PhaseOf(Pod(p)', plan'[p]) = PhaseOf(Pod(p), plan[p])
        BY <3>1, <3>2 DEF PhaseOf
      <3>4. lifePhase' = lifePhase /\ lifeHolder' = lifeHolder
        BY <3>2, <3>3 DEF lifePhase, lifeHolder
      <3> QED BY <3>4 DEF LifeStep, Lifecycle!vars
    <2> QED BY <2>1, <2>2
  <1>3. ASSUME NEW q \in Pods, DeliverPod(q)
        PROVE  LifeStep
    <2>1. Latest(Tail(pods[q])) = Latest(pods[q])
      BY <1>0, <1>3, Reads, DeliverLog DEF DeliverPod
    <2>2. UNCHANGED plan /\ \A p \in Pods : Pod(p)' = Pod(p)
      BY <1>0, <1>3, <2>1 DEF DeliverPod, Pod, TypeOK
    <2> QED BY <2>2, LifeStays
  <1>4. CASE Restart
    BY <1>4, RestartLife
  <1>5. CASE UNCHANGED <<pods, plan>>
    BY <1>5, LifeStays DEF Pod
  <1> QED BY <1>1, <1>2, <1>3, <1>4, <1>5
          DEF Environment, reclaimLegacyCNClaim, OnPreparingUpdate, CreateClaim,
              DeleteClaim, DeliverClaim, MigrateClaim, Abort

\* CNClaim implements PodLifecycle: whatever the claim controller, the cnstore
\* controller, the pool controller and Kruise write to the labels of the pods, in any
\* order and across restarts of the operator, a pod serves one claim at a time, is
\* taken by a claim only when Idle, and leaves a claim only through Draining or by
\* being deleted.
\* For a cache that is up to date and claims that are not migrated: over a cache that
\* is behind, a repeated Finalize sets a pod that is Idle again back to Draining, and
\* Sync of a migrated claim binds a pod that was set to Terminating in the meantime.
THEOREM ClaimsKeepToLifecycle ==
  ASSUME MaxLag = 0, "migrate" \notin Disruptions
  PROVE  Spec => Lifecycle!Spec
  <1>1. Init => LifeInv
    <2> SUFFICES ASSUME Init PROVE LifeInv
      OBVIOUS
    <2>1. BindingInv
      BY BindingInductive
    <2>2. w.pc = "rest"
      BY Objects DEF Init
    <2> QED BY <2>1, <2>2 DEF LifeInv, ListedIsHeld
  <1>2. LifeInv /\ [Next]_vars => LifeInv'
    BY ListedInductive
  <1>3. Init => Lifecycle!Init
    <2> SUFFICES ASSUME Init PROVE Lifecycle!Init
      OBVIOUS
    <2>1. \A p \in Pods : Pod(p).phase = "Unknown" /\ plan[p] = "none"
      <3> DEFINE new == [phase |-> "Unknown", by |-> None, normal |-> TRUE,
                         dead |-> FALSE, old |-> FALSE]
      <3>1. new \in PodObj /\ new.phase = "Unknown"
        BY DEF PodObj, PodPhases
      <3>2. \A p \in Pods : pods[p] = <<new>> /\ plan[p] = "none"
        BY DEF Init
      <3> HIDE DEF new
      <3>3. Latest(<<new>>) = new
        BY <3>1, FreshLog
      <3> QED BY <3>1, <3>2, <3>3 DEF Pod
    <2>2. \A p \in Pods : lifePhase[p] = "Unknown" /\ lifeHolder[p] = None
      BY <2>1 DEF lifePhase, lifeHolder, PhaseOf, HolderOf
    <2> QED BY <2>2 DEF Lifecycle!Init, lifePhase, lifeHolder
  <1>4. LifeInv /\ [Next]_vars => LifeStep
    <2> SUFFICES ASSUME LifeInv, [Next]_vars PROVE LifeStep
      OBVIOUS
    <2>1. TypeOK /\ TypeOK'
      BY ListedInductive DEF LifeInv, BindingInv
    <2>2. ASSUME NEW c \in Claims, Observe(c) PROVE LifeStep
      <3>1. UNCHANGED <<pods, plan>>
        BY <2>1, <2>2, WorkerBegins
      <3> QED BY <3>1, LifeStays DEF Pod
    <2>3. CASE Step
      BY <2>1, <2>3, WorkerLife
    <2>4. CASE Environment
      BY <2>1, <2>4, EnvironmentLife
    <2>5. CASE UNCHANGED vars
      BY <2>5, LifeStays DEF vars, Pod
    <2> QED BY <2>2, <2>3, <2>4, <2>5 DEF Next
  <1> QED BY <1>1, <1>2, <1>3, <1>4, PTL DEF Spec, Lifecycle!Spec, LifeStep
=============================================================================
