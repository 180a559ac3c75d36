----------------------------- MODULE CNPoolProofs ----------------------------
(***************************************************************************)
(* The pool is well typed, keeps its pods to the life cycle of             *)
(* PodLifecycle and leaves Kruise no pod to choose, for any sets, pods,    *)
(* claims and scenarios.                                                   *)
(***************************************************************************)
EXTENDS CNPool, FiniteSetTheorems, TLAPS

(* Pods that exist belong to a set, so kruise knows which CloneSet they are of. *)
Placed == \A p \in Pods : Exists(p) => pods[p].set \in Sets

(* Pods that the worker takes for unchanged are as it has read them. *)
Fresh == worker # NONE => \A p \in worker.fresh : worker.seen[p] = pods[p].phase

PoolInv == TypeOK /\ Placed /\ Fresh

-----------------------------------------------------------------------------
(* Counting *)

(* A number of pods is within the bound on replicas. *)
LEMMA PodsCounted ==
  ASSUME NEW S \in SUBSET Pods
  PROVE  /\ Cardinality(S) \in 0 .. Cardinality(Pods)
         /\ Cardinality(S) \in 0 .. MaxReplicas
         /\ Cardinality(S) \in Nat
  <1>1. IsFiniteSet(S) /\ Cardinality(S) <= Cardinality(Pods)
    BY CNSetAssumption, FS_Subset
  <1>2. Cardinality(S) \in Nat /\ Cardinality(Pods) \in Nat
    BY <1>1, CNSetAssumption, FS_CardinalityType
  <1> QED BY <1>1, <1>2, CNSetAssumption

(* A number of claims is a number. *)
LEMMA ClaimsCounted ==
  ASSUME NEW S \in SUBSET Claims
  PROVE  Cardinality(S) \in Nat
  BY CNPoolAssumption, FS_Subset, FS_CardinalityType

-----------------------------------------------------------------------------
(* Type correctness *)

(* What the CNSet controller and kruise do leaves their objects well typed. *)
LEMMA SetControllerTyped ==
  ASSUME PoolInv, NEW s \in Sets, SetController(s)
  PROVE  PoolInv'
  <1> USE DEF PoolInv, TypeOK, CNSetTypeOK
  <1>1. cnset[s] \in CNSetObj /\ setName(s) \in {setName(t) : t \in Sets}
    OBVIOUS
  <1>2. cs[setName(s)] \in CloneSetObj
    BY <1>1
  <1>3. OfSet(s) \in SUBSET Pods
    BY DEF OfSet
  <1>4. WithStatus(cnset[s], s) \in CNSetObj
    BY <1>1, <1>3, PodsCounted DEF WithStatus, CNSetObj
  <1>5. NoCloneSet \in CloneSetObj /\ NoCNSet \in CNSetObj
    BY CNSetAssumption, PodsCounted DEF NoCloneSet, NoCNSet, CloneSetObj, CNSetObj, Templates
  <1>6. /\ Create(cnset[s]) \in CloneSetObj
        /\ Update(cnset[s], cs[setName(s)]) \in CloneSetObj
        /\ scaleSet(cnset[s], cs[setName(s)]) \in CloneSetObj
    BY <1>1, <1>2, <1>5 DEF Create, Update, syncCloneSet, scaleSet, CloneSetObj, CNSetObj, NoCloneSet
  <1>7. /\ cnset' \in [Sets -> CNSetObj]
        /\ cs' \in [{setName(t) : t \in Sets} -> CloneSetObj]
    <2>1. CASE Observe(s)
      BY <2>1, <1>1, <1>2, <1>4, <1>6 DEF Observe
    <2>2. CASE Finalize(s)
      BY <2>2, <1>5 DEF Finalize
    <2> QED BY <2>1, <2>2 DEF SetController
  <1>8. UNCHANGED <<pods, pool, worker, claims, holder, reading, env>>
    BY DEF SetController, Observe, Finalize
  <1> QED BY <1>7, <1>8 DEF Placed, Exists, Fresh

LEMMA KruiseTyped ==
  ASSUME PoolInv, Kruise
  PROVE  PoolInv'
  <1> USE DEF PoolInv, TypeOK, CNSetTypeOK
  <1>1. pods' \in [Pods -> PodObj] /\ Placed' /\ UNCHANGED <<cnset, cs>>
    <2>1. ASSUME NEW s \in Sets, NEW p \in Pods, CreatePod(s, p)
          PROVE  pods' \in [Pods -> PodObj] /\ Placed' /\ UNCHANGED <<cnset, cs>>
      <3>1. cs[setName(s)] \in CloneSetObj
        OBVIOUS
      <3>2. NewPod(s) \in PodObj /\ NewPod(s).set = s
        BY <3>1 DEF NewPod, NoPod, PodObj, CloneSetObj, Opt
      <3> QED BY <2>1, <3>2 DEF CreatePod, Placed, Exists
    <2>2. ASSUME NEW p \in Pods, StopPod(p)
          PROVE  pods' \in [Pods -> PodObj] /\ Placed' /\ UNCHANGED <<cnset, cs>>
      BY <2>2 DEF StopPod, Placed, Exists, PodObj
    <2>3. ASSUME NEW p \in Pods, RelabelPod(p)
          PROVE  pods' \in [Pods -> PodObj] /\ Placed' /\ UNCHANGED <<cnset, cs>>
      <3>1. pods[p].set \in Sets
        BY <2>3 DEF RelabelPod, Placed
      <3>2. cs[setName(pods[p].set)] \in CloneSetObj
        BY <3>1
      <3> QED BY <2>3, <3>2 DEF RelabelPod, Placed, Exists, PodObj, CloneSetObj
    <2> QED BY <2>1, <2>2, <2>3 DEF Kruise
  <1>2. worker' = NONE \/ worker' \in Snapshot
    <2>1. CASE worker = NONE
      BY <2>1 DEF Kruise
    <2>2. CASE worker # NONE
      BY <2>2 DEF Kruise, Snapshot
    <2> QED BY <2>1, <2>2
  <1>3. UNCHANGED <<pool, claims, holder, reading, env>>
    BY DEF Kruise
  <1>4. Fresh'
    BY <1>2 DEF Kruise, Fresh, Snapshot
  <1> QED BY <1>1, <1>2, <1>3, <1>4

(* A pod that changes is marked, so the worker's view of the others stands. *)
LEMMA Touched ==
  ASSUME PoolInv, NEW p \in Pods, worker' = Touch(p), \A q \in Pods \ {p} : pods'[q] = pods[q]
  PROVE  (worker' = NONE \/ worker' \in Snapshot) /\ Fresh'
  <1>1. CASE worker = NONE
    BY <1>1 DEF Touch, Fresh
  <1>2. CASE worker # NONE
    <2>1. worker \in Snapshot /\ worker' = [worker EXCEPT !.fresh = @ \ {p}]
      BY <1>2 DEF PoolInv, TypeOK, Touch
    <2> QED BY <2>1, <1>2 DEF Snapshot, PoolInv, Fresh
  <1> QED BY <1>1, <1>2

(* A pod that exists may get another phase: it stays in its set. *)
LEMMA SetPhaseTyped ==
  ASSUME PoolInv, NEW p \in Pods, NEW x \in Phases, Exists(p), pods' = SetPhase(p, x),
         worker' = Touch(p), UNCHANGED <<cnset, cs>>
  PROVE  CNSetTypeOK' /\ Placed' /\ Fresh' /\ (worker' = NONE \/ worker' \in Snapshot)
  <1>1. CNSetTypeOK' /\ Placed' /\ \A q \in Pods \ {p} : pods'[q] = pods[q]
    BY DEF PoolInv, TypeOK, CNSetTypeOK, SetPhase, PodObj, Phases, Placed, Exists
  <1> QED BY <1>1, Touched

LEMMA SyncReadTyped ==
  ASSUME PoolInv, SyncRead
  PROVE  PoolInv'
  <1> USE DEF PoolInv, TypeOK, CNSetTypeOK
  <1>1. ASSUME NEW s \in Sets
        PROVE  syncLegacySet(s) \in CNSetObj
    <2>1. LegacyUse(s) \in SUBSET Pods /\ CNSetLivePods(s) \in SUBSET Pods
      BY DEF LegacyUse, CNSetLivePods, OfSet
    <2>2. cnset[s] \in CNSetObj
      OBVIOUS
    <2>3. Cardinality(LegacyUse(s)) \in 0 .. MaxReplicas
      BY <2>1, PodsCounted
    <2> QED BY <2>1, <2>2, <2>3 DEF syncLegacySet, CNSetObj
  <1>2. cnset' \in [Sets -> CNSetObj]
    BY <1>1 DEF SyncRead
  <1>3. claims' \in [Claims -> {"none", "Pending", "Bound", "Outdated", "Lost"}]
    BY DEF SyncRead, reclaimLegacyCNClaim
  <1>4. worker' \in Snapshot
    <2>1. UNION {LegacyUse(s) : s \in LegacySets} \in SUBSET Pods
      BY DEF LegacyUse, CNSetLivePods, OfSet
    <2>2. Cardinality(UNION {LegacyUse(s) : s \in LegacySets}) \in Nat
      BY <2>1, PodsCounted
    <2>3. {c \in listNominatedClaims : claims[c] = "Pending"} \in SUBSET Claims
      BY DEF listNominatedClaims
    <2>4. Cardinality({c \in listNominatedClaims : claims[c] = "Pending"}) \in Nat
      BY <2>3, ClaimsCounted
    <2>5. Listed \in SUBSET Pods
      BY DEF Listed, CNSetLivePods, OfSet
    <2>6. [p \in Pods |-> IF p \in Listed THEN pods[p].phase ELSE "none"] \in [Pods -> Phases]
      BY DEF PodObj, Phases
    <2> QED BY <2>2, <2>4, <2>5, <2>6 DEF SyncRead, Snapshot
  <1>5. UNCHANGED <<cs, pods, pool, holder, reading, env>>
    BY DEF SyncRead
  <1>6. Fresh'
    <2>1. Listed \in SUBSET Pods
      BY DEF Listed, CNSetLivePods, OfSet
    <2> QED BY <2>1, <1>5 DEF SyncRead, Fresh
  <1> QED BY <1>2, <1>3, <1>4, <1>5, <1>6 DEF Placed, Exists

(* The numbers that the decision to scale is made of. *)
LEMMA Counts ==
  ASSUME TypeOK, worker # NONE
  PROVE  /\ worker \in Snapshot
         /\ desiredReplicas \in Nat
         /\ totalPods <= MaxPods => desiredReplicas \in 0 .. MaxReplicas
         /\ idlePods \in SUBSET Pods
         /\ terminatingPods \in SUBSET Pods
  <1>1. worker \in Snapshot
    BY DEF TypeOK
  <1>2. inUse \in Nat
    <2>1. {p \in Pods : podInUse(worker.seen[p])} \in SUBSET Pods
      OBVIOUS
    <2> QED BY <2>1, PodsCounted DEF inUse
  <1>3. worker.pending \in Nat /\ worker.legacy \in Nat /\ worker.p.idle \in Nat
    BY <1>1, CNPoolAssumption DEF Snapshot, PoolObj
  <1>4. desiredReplicas \in Nat
    BY <1>2, <1>3 DEF desiredReplicas
  <1> QED BY <1>1, <1>3, <1>4, CNPoolAssumption, CNSetAssumption
          DEF totalPods, idlePods, terminatingPods, SeenIn

(* The pods that are given up were read as Unknown or Idle and are unchanged. *)
LEMMA GivenUp ==
  ASSUME TypeOK, worker # NONE, NEW n, NEW D \in PickedPods(n)
  PROVE  /\ Retired(D) \in SUBSET Pods
         /\ \A p \in Retired(D) : p \in worker.fresh /\ worker.seen[p] \in {"Unknown", "Idle"}
  BY DEF PickedPods, Retired, idlePods, SeenIn

LEMMA SyncWriteTyped ==
  ASSUME PoolInv, SyncWrite
  PROVE  PoolInv'
  <1> USE DEF PoolInv, TypeOK, CNSetTypeOK
  <1> DEFINE name == worker.p.rev
             c == IF cnset[name].st # "none" THEN cnset[name] ELSE buildCNSet(worker.p)
  <1>1. /\ worker # NONE
        /\ worker' = NONE
        /\ UNCHANGED <<cs, pool, claims, holder, reading>>
    BY DEF SyncWrite
  <1>2. worker \in Snapshot /\ worker.p \in PoolObj /\ name \in Sets
    BY <1>1, Counts DEF Snapshot, PoolObj
  <1>3. NoCNSet \in CNSetObj
    BY CNSetAssumption, PodsCounted DEF NoCNSet, CNSetObj, Templates
  <1>4. c \in CNSetObj
    <2>1. cnset[name] \in CNSetObj
      BY <1>2
    <2>2. buildCNSet(worker.p) \in CNSetObj
      BY <1>2, <1>3 DEF buildCNSet, syncCNSetSpec, CNSetObj, PoolObj, May
    <2> QED BY <2>1, <2>2
  <1>5. CASE totalPods > MaxPods
    BY <1>1, <1>5 DEF SyncWrite, Placed, Exists, Fresh
  <1>6. CASE ~(totalPods > MaxPods)
    <2>1. PICK D \in PickedPods(ScaleInCount(c.replicas)),
               saved \in (IF May("rpc") /\ env.changes < MaxChanges THEN BOOLEAN ELSE {TRUE}) :
            /\ pods' = [p \in Pods |-> IF p \in Retired(D)
                                       THEN [pods[p] EXCEPT !.phase = "Terminating"] ELSE pods[p]]
            /\ cnset' = IF ~saved THEN cnset
                        ELSE [cnset EXCEPT ![name] =
                                [syncCNSetSpec(worker.p, c) EXCEPT
                                   !.replicas = Replicas(c.replicas, Retired(D)),
                                   !.del = terminatingPods \cup Retired(D)]]
            /\ env' = IF saved THEN env ELSE [env EXCEPT !.changes = @ + 1]
      BY <1>6 DEF SyncWrite
    <2>2. Retired(D) \in SUBSET Pods /\ \A p \in Retired(D) : p \in Pods
      BY <1>1, GivenUp
    <2>3. pods' \in [Pods -> PodObj]
      BY <2>1, <2>2 DEF PodObj
    <2>4. \A p \in Pods : pods'[p].set = pods[p].set
      BY <2>1, <2>2 DEF PodObj
    <2>5. \A p \in Retired(D) : Exists(p)
      BY <1>1, GivenUp DEF Fresh, Exists
    <2>6. Replicas(c.replicas, Retired(D)) \in 0 .. MaxReplicas
      <3>1. desiredReplicas \in Nat /\ desiredReplicas \in 0 .. MaxReplicas
        <4>1. totalPods <= MaxPods
          <5>1. totalPods \in Nat
            BY <1>1, <1>2, Counts DEF totalPods, Snapshot
          <5> QED BY <5>1, <1>6, CNPoolAssumption
        <4> QED BY <4>1, <1>1, Counts
      <3>2. c.replicas \in 0 .. MaxReplicas
        BY <1>4 DEF CNSetObj
      <3>3. Cardinality(Retired(D)) \in Nat
        BY <2>2, PodsCounted
      <3> QED BY <3>1, <3>2, <3>3, CNSetAssumption DEF Replicas, Max2
    <2>7. terminatingPods \cup Retired(D) \in SUBSET Pods
      BY <2>2, <1>1, Counts
    <2>8. syncCNSetSpec(worker.p, c) \in CNSetObj
      BY <1>2, <1>4 DEF syncCNSetSpec, CNSetObj, PoolObj, May
    <2>9. cnset' \in [Sets -> CNSetObj]
      <3>1. [syncCNSetSpec(worker.p, c) EXCEPT
               !.replicas = Replicas(c.replicas, Retired(D)),
               !.del = terminatingPods \cup Retired(D)] \in CNSetObj
        BY <2>6, <2>7, <2>8 DEF CNSetObj
      <3> QED BY <2>1, <3>1, <1>2
    <2>10. env' \in [may : Scenarios, changes : 0 .. MaxChanges]
      <3>1. CASE saved
        BY <3>1, <2>1
      <3>2. CASE ~saved
        <4>1. env.changes < MaxChanges
          BY <3>2
        <4> QED BY <4>1, <3>2, <2>1, CNPoolAssumption
      <3> QED BY <3>1, <3>2
    <2>11. Placed'
      <3>1. ASSUME NEW p \in Pods, pods'[p].phase # "none"
            PROVE  pods'[p].set \in Sets
        <4>1. CASE p \in Retired(D)
          BY <4>1, <2>4, <2>5 DEF Placed
        <4>2. CASE p \notin Retired(D)
          BY <4>2, <3>1, <2>1 DEF Placed, Exists
        <4> QED BY <4>1, <4>2
      <3> QED BY <3>1 DEF Placed, Exists
    <2> QED BY <1>1, <2>3, <2>9, <2>10, <2>11 DEF Fresh
  <1> QED BY <1>5, <1>6

(* The controllers of stores and claims. *)
LEMMA PodStepTyped ==
  ASSUME PoolInv, NEW p \in Pods,
         \/ Register(p) \/ ReadUnknown(p) \/ PatchIdle(p) \/ Recycle(p) \/ RemovePod(p)
         \/ EvictPod(p) \/ \E c \in Claims : BindPod(c, p),
         p \in reading => Exists(p)
  PROVE  PoolInv'
  <1> USE DEF PoolInv, TypeOK
  <1>1. CASE Register(p)
    BY <1>1, SetPhaseTyped DEF Register, Phases, Exists
  <1>2. CASE ReadUnknown(p)
    BY <1>2 DEF ReadUnknown, CNSetTypeOK, Placed, Exists, Fresh
  <1>3. CASE PatchIdle(p)
    <2>1. Exists(p)
      BY <1>3 DEF PatchIdle
    <2> QED BY <1>3, <2>1, SetPhaseTyped DEF PatchIdle, Phases
  <1>4. CASE Recycle(p)
    <2>1. Exists(p) /\ (IF pods[p].direct THEN "Terminating" ELSE "Idle") \in Phases
      BY <1>4 DEF Recycle, Exists, Phases
    <2> QED BY <1>4, <2>1, SetPhaseTyped DEF Recycle
  <1>5. CASE EvictPod(p)
    BY <1>5, SetPhaseTyped DEF EvictPod, Phases, Exists
  <1>6. CASE RemovePod(p)
    <2>1. NoPod \in PodObj /\ NoPod.phase = "none"
      BY DEF NoPod, PodObj, Opt
    <2>2. CNSetTypeOK' /\ Placed' /\ \A q \in Pods \ {p} : pods'[q] = pods[q]
      BY <1>6, <2>1 DEF RemovePod, CNSetTypeOK, Placed, Exists
    <2>3. (worker' = NONE \/ worker' \in Snapshot) /\ Fresh'
      BY <1>6, <2>2, Touched DEF RemovePod
    <2>4. holder' \in [Pods -> Opt(Claims)]
      BY <1>6 DEF RemovePod, Opt
    <2>5. claims' \in [Claims -> {"none", "Pending", "Bound", "Outdated", "Lost"}]
      BY <1>6 DEF RemovePod
    <2> QED BY <1>6, <2>2, <2>3, <2>4, <2>5 DEF RemovePod
  <1>7. ASSUME NEW c \in Claims, BindPod(c, p)
        PROVE  PoolInv'
    <2>1. CNSetTypeOK' /\ Placed' /\ Fresh' /\ (worker' = NONE \/ worker' \in Snapshot)
      BY <1>7, SetPhaseTyped DEF BindPod, Phases, Exists
    <2>2. /\ holder' \in [Pods -> Opt(Claims)]
          /\ claims' \in [Claims -> {"none", "Pending", "Bound", "Outdated", "Lost"}]
      BY <1>7 DEF BindPod, Opt
    <2> QED BY <1>7, <2>1, <2>2 DEF BindPod
  <1> QED BY <1>1, <1>2, <1>3, <1>4, <1>5, <1>6, <1>7

LEMMA ReleaseTyped ==
  ASSUME PoolInv, NEW c \in Claims, ReleaseClaim(c), \A p \in Pods : holder[p] # NONE => Exists(p)
  PROVE  PoolInv'
  <1> USE DEF PoolInv, TypeOK, CNSetTypeOK
  <1> DEFINE mine == {p \in Pods : holder[p] = c}
  <1>1. /\ pods' = [p \in Pods |-> IF p \in mine THEN [pods[p] EXCEPT !.phase = "Draining"] ELSE pods[p]]
        /\ holder' = [p \in Pods |-> IF p \in mine THEN NONE ELSE holder[p]]
        /\ worker' = IF worker = NONE THEN worker ELSE [worker EXCEPT !.fresh = @ \ mine]
        /\ claims' = [claims EXCEPT ![c] = "none"]
        /\ UNCHANGED <<cnset, cs, pool, reading, env>>
    BY DEF ReleaseClaim
  <1>2. \A p \in mine : Exists(p)
    BY CNPoolAssumption
  <1>3. pods' \in [Pods -> PodObj] /\ Placed'
    BY <1>1, <1>2 DEF PodObj, Placed, Exists
  <1>4. (worker' = NONE \/ worker' \in Snapshot) /\ Fresh'
    <2>1. CASE worker = NONE
      BY <2>1, <1>1 DEF Fresh
    <2>2. CASE worker # NONE
      BY <2>2, <1>1 DEF Fresh, Snapshot
    <2> QED BY <2>1, <2>2
  <1>5. /\ holder' \in [Pods -> Opt(Claims)]
        /\ claims' \in [Claims -> {"none", "Pending", "Bound", "Outdated", "Lost"}]
    BY <1>1 DEF Opt
  <1> QED BY <1>1, <1>3, <1>4, <1>5

LEMMA UsersTyped ==
  ASSUME PoolInv, Users \/ Restart \/ FinalizePool
  PROVE  PoolInv'
  <1> USE DEF PoolInv, TypeOK, CNSetTypeOK
  <1>1. ASSUME Change
        PROVE  env' \in [may : Scenarios, changes : 0 .. MaxChanges]
    BY <1>1, CNPoolAssumption DEF Change
  <1>2. ASSUME NEW c \in Claims, NewClaim(c) \/ DeleteClaim(c)
        PROVE  PoolInv'
    BY <1>1, <1>2 DEF NewClaim, DeleteClaim, Placed, Exists, Fresh
  <1>3. CASE ChangePool
    <2>1. pool' \in PoolObj
      BY <1>3 DEF ChangePool, PoolObj, Templates
    <2> QED BY <1>1, <1>3, <2>1 DEF ChangePool, Placed, Exists, Fresh
  <1>4. ASSUME NEW s \in Sets, ChangeDeps(s)
        PROVE  PoolInv'
    <2>1. cnset' \in [Sets -> CNSetObj]
      BY <1>4 DEF ChangeDeps, CNSetObj, Templates
    <2> QED BY <1>1, <1>4, <2>1 DEF ChangeDeps, Placed, Exists, Fresh
  <1>5. CASE Restart
    BY <1>1, <1>5 DEF Restart, Placed, Exists, Fresh
  <1>6. CASE FinalizePool
    <2>1. pool' \in PoolObj
      BY <1>6 DEF FinalizePool, PoolObj
    <2>2. cnset' \in [Sets -> CNSetObj]
      <3>1. \A s \in Sets : [cnset[s] EXCEPT !.st = "deleting"] \in CNSetObj
        BY DEF CNSetObj
      <3> QED BY <1>6, <3>1 DEF FinalizePool
    <2> QED BY <1>6, <2>1, <2>2 DEF FinalizePool, Placed, Exists, Fresh
  <1> QED BY <1>2, <1>3, <1>4, <1>5, <1>6 DEF Users

-----------------------------------------------------------------------------
(* Who holds a pod, and whose registration is under way *)

(* Only a Bound pod has a holder. *)
HeldIsBound == \A p \in Pods : holder[p] # NONE => pods[p].phase = "Bound"

(* A pod that has been read as Unknown was not bound since: at most the pool
   has given it up. *)
ReadIsUnknown ==
  /\ \A p \in reading : pods[p].phase \in {"Unknown", "Terminating"}
  /\ reading # {} => May("late")

LifeInv == PoolInv /\ HeldIsBound /\ ReadIsUnknown

LEMMA InitLife == Init => LifeInv
  <1> SUFFICES ASSUME Init PROVE LifeInv
    OBVIOUS
  <1>1. PICK s \in Sets : s # First
    BY CNPoolAssumption
  <1>2. (CHOOSE t \in Sets : t # First) \in Sets
    BY <1>1
  <1>3. NoPod \in PodObj /\ NoCNSet \in CNSetObj /\ NoCloneSet \in CloneSetObj
    BY CNSetAssumption, PodsCounted
       DEF NoPod, PodObj, Opt, NoCNSet, CNSetObj, Templates, NoCloneSet, CloneSetObj
  <1>4. CNSetTypeOK /\ Placed /\ \A p \in Pods : pods[p].phase \in {"none", "Unknown"}
    <2>1. /\ cnset \in [Sets -> CNSetObj]
          /\ cs \in [{setName(t) : t \in Sets} -> CloneSetObj]
      BY <1>3 DEF Init
    <2>2. ASSUME NEW p \in Pods
          PROVE  /\ pods[p] \in PodObj
                 /\ pods[p].phase = "none" \/ (pods[p].phase = "Unknown" /\ pods[p].set \in Sets)
      BY <1>2, <1>3 DEF Init, NoPod, PodObj, Opt
    <2>3. pods \in [Pods -> PodObj]
      BY <2>2 DEF Init
    <2> QED BY <2>1, <2>2, <2>3 DEF CNSetTypeOK, Placed, Exists
  <1>5. pool \in PoolObj /\ worker = NONE
    <2>1. pool \in [st : {"live"}, rev : {First}, tpl : {0}, idle : IF May("scale") THEN MaxIdles ELSE {1}]
      BY DEF Init
    <2>2. pool \in [st : {"live"}, rev : {First}, tpl : {0}, idle : MaxIdles]
      BY <2>1, CNPoolAssumption
    <2>3. {0} \subseteq Templates /\ First \in Sets
      BY CNPoolAssumption DEF Templates
    <2>4. pool \in PoolObj
      BY <2>2, <2>3 DEF PoolObj
    <2> QED BY <2>4 DEF Init
  <1>6. /\ claims \in [Claims -> {"none", "Pending", "Bound", "Outdated", "Lost"}]
        /\ holder \in [Pods -> Opt(Claims)] /\ reading = {}
        /\ \A p \in Pods : holder[p] = NONE
    BY DEF Init, Opt
  <1>7. env \in [may : Scenarios, changes : 0 .. MaxChanges]
    <2>1. PICK m \in Scenarios :
            env = [may |-> m, changes |-> IF m \cap {"late", "rollout"} = {} THEN 0 ELSE 1]
      BY DEF Init
    <2>2. 0 \in 0 .. MaxChanges /\ 1 \in 0 .. MaxChanges
      BY CNPoolAssumption
    <2> QED BY <2>1, <2>2
  <1> QED BY <1>4, <1>5, <1>6, <1>7
          DEF LifeInv, PoolInv, TypeOK, Fresh, HeldIsBound, ReadIsUnknown

(* What becomes of the phases and the holders of the pods in each step: the life
   cycle takes the same step, or stands still. *)
LifeStep == HeldIsBound' /\ ReadIsUnknown' /\ [Lifecycle!Next]_(Lifecycle!vars)

(* A step that leaves the phases alone. *)
LEMMA SamePhases ==
  ASSUME LifeInv, \A p \in Pods : pods'[p].phase = pods[p].phase,
         UNCHANGED <<holder, reading>>, env'.may = env.may
  PROVE  LifeStep
  <1>1. HeldIsBound' /\ ReadIsUnknown'
    BY DEF LifeInv, PoolInv, TypeOK, HeldIsBound, ReadIsUnknown, May
  <1>2. lifePhase' = lifePhase
    BY DEF lifePhase
  <1> QED BY <1>1, <1>2 DEF LifeStep, Lifecycle!vars

(* A step in which each pod keeps its phase and its holder, or makes a move that
   the life cycle allows and is in nobody's hands. *)
LEMMA Moving ==
  ASSUME LifeInv, PoolInv', holder' \in [Pods -> Opt(Claims)],
         \A p \in Pods :
           \/ lifePhase'[p] = lifePhase[p] /\ holder'[p] = holder[p]
           \/ <<lifePhase[p], lifePhase'[p]>> \in Lifecycle!Moves /\ holder'[p] = NONE
  PROVE  Lifecycle!Next
  <1>1. lifePhase' \in [Pods -> Lifecycle!Phases]
    BY DEF PoolInv, TypeOK, CNSetTypeOK, PodObj, lifePhase, Lifecycle!Phases
  <1>2. Lifecycle!Move
    BY <1>1 DEF Lifecycle!Move, Opt
  <1> QED BY <1>2 DEF Lifecycle!Next

(* One pod that nobody holds makes a move. *)
LEMMA OneMoves ==
  ASSUME LifeInv, PoolInv', NEW p \in Pods, holder[p] = NONE,
         \A q \in Pods \ {p} : pods'[q] = pods[q],
         \A q \in Pods \ {p} : q \in reading' <=> q \in reading,
         p \in reading' => p \in reading /\ pods'[p].phase \in {"Unknown", "Terminating"},
         <<lifePhase[p], lifePhase'[p]>> \in Lifecycle!Moves,
         UNCHANGED <<holder, env>>
  PROVE  LifeStep
  <1>1. HeldIsBound'
    BY DEF LifeInv, HeldIsBound
  <1>2. ReadIsUnknown'
    BY DEF LifeInv, PoolInv, TypeOK, ReadIsUnknown, May
  <1>3. \A q \in Pods \ {p} : lifePhase'[q] = lifePhase[q]
    BY DEF lifePhase
  <1>4. Lifecycle!Next
    BY <1>3, Moving DEF LifeInv, PoolInv, TypeOK
  <1> QED BY <1>1, <1>2, <1>4 DEF LifeStep

-----------------------------------------------------------------------------
(* Each action *)

LEMMA KruiseLife ==
  ASSUME LifeInv, PoolInv', Kruise
  PROVE  LifeStep
  <1> USE DEF LifeInv, PoolInv, TypeOK, CNSetTypeOK
  <1>1. ASSUME NEW s \in Sets, NEW p \in Pods, CreatePod(s, p)
        PROVE  LifeStep
    <2>1. pods[p].phase = "none" /\ p \notin reading /\ holder[p] = NONE
      BY <1>1 DEF CreatePod, Unused, Exists, ReadIsUnknown, HeldIsBound
    <2>2. pods'[p].phase = "Unknown" /\ \A q \in Pods \ {p} : pods'[q] = pods[q]
      BY <1>1 DEF CreatePod, NewPod, NoPod
    <2>3. UNCHANGED <<holder, reading, env>>
      BY DEF Kruise
    <2>4. <<lifePhase[p], lifePhase'[p]>> \in Lifecycle!Moves
      BY <2>1, <2>2, <2>3 DEF lifePhase, Lifecycle!Moves
    <2> QED BY <2>1, <2>2, <2>3, <2>4, OneMoves
  <1>2. ASSUME NEW p \in Pods, StopPod(p) \/ RelabelPod(p)
        PROVE  LifeStep
    <2>1. \A q \in Pods : pods'[q].phase = pods[q].phase
      BY <1>2 DEF StopPod, RelabelPod, PodObj
    <2> QED BY <2>1, SamePhases DEF Kruise
  <1> QED BY <1>1, <1>2 DEF Kruise

LEMMA SyncWriteLife ==
  ASSUME LifeInv, PoolInv', SyncWrite
  PROVE  LifeStep
  <1> USE DEF LifeInv, PoolInv, TypeOK, CNSetTypeOK
  <1>1. worker # NONE /\ UNCHANGED <<holder, reading>>
    BY DEF SyncWrite
  <1>2. CASE totalPods > MaxPods
    BY <1>1, <1>2, SamePhases DEF SyncWrite
  <1>3. CASE ~(totalPods > MaxPods)
    <2> DEFINE name == worker.p.rev
               c == IF cnset[name].st # "none" THEN cnset[name] ELSE buildCNSet(worker.p)
    <2>1. PICK D \in PickedPods(ScaleInCount(c.replicas)) :
            /\ pods' = [p \in Pods |-> IF p \in Retired(D)
                                       THEN [pods[p] EXCEPT !.phase = "Terminating"] ELSE pods[p]]
            /\ env' = env \/ env' = [env EXCEPT !.changes = @ + 1]
      BY <1>3 DEF SyncWrite
    <2>2. \A p \in Retired(D) : p \in Pods /\ pods[p].phase \in {"Unknown", "Idle"}
      BY <1>1, GivenUp DEF Fresh
    <2>3. env'.may = env.may
      BY <2>1
    <2>4. \A p \in Pods : pods'[p].phase = IF p \in Retired(D) THEN "Terminating" ELSE pods[p].phase
      BY <2>1 DEF PodObj
    <2>5. HeldIsBound' /\ ReadIsUnknown'
      BY <1>1, <2>2, <2>3, <2>4 DEF HeldIsBound, ReadIsUnknown, May
    <2>6. ASSUME NEW p \in Pods
          PROVE  \/ lifePhase'[p] = lifePhase[p] /\ holder'[p] = holder[p]
                 \/ <<lifePhase[p], lifePhase'[p]>> \in Lifecycle!Moves /\ holder'[p] = NONE
      <3>1. CASE p \in Retired(D)
        <4>1. holder'[p] = NONE
          BY <3>1, <1>1, <2>2 DEF HeldIsBound
        <4>2. CASE p \in reading
          BY <3>1, <4>1, <4>2, <1>1, <2>2, <2>4 DEF lifePhase, Lifecycle!Moves, ReadIsUnknown
        <4>3. CASE p \notin reading
          BY <3>1, <4>1, <4>3, <1>1, <2>2, <2>4 DEF lifePhase, Lifecycle!Moves
        <4> QED BY <4>2, <4>3
      <3>2. CASE p \notin Retired(D)
        BY <3>2, <1>1, <2>4 DEF lifePhase
      <3> QED BY <3>1, <3>2
    <2>7. Lifecycle!Next
      BY <1>1, <2>6, Moving
    <2> QED BY <2>5, <2>7 DEF LifeStep
  <1> QED BY <1>2, <1>3

LEMMA PodStepLife ==
  ASSUME LifeInv, PoolInv', NEW p \in Pods,
         Register(p) \/ PatchIdle(p) \/ Recycle(p) \/ EvictPod(p)
  PROVE  LifeStep
  <1> USE DEF LifeInv, PoolInv, TypeOK, CNSetTypeOK
  <1>1. holder[p] = NONE /\ UNCHANGED <<holder, env>>
    BY DEF Register, PatchIdle, Recycle, EvictPod, HeldIsBound, ReadIsUnknown
  <1>2. \A q \in Pods \ {p} : pods'[q] = pods[q]
    BY DEF Register, PatchIdle, Recycle, EvictPod, SetPhase
  <1>3. CASE Register(p)
    <2>1. p \notin reading /\ pods'[p].phase = "Idle" /\ pods[p].phase = "Unknown" /\ reading' = reading
      BY <1>3 DEF Register, SetPhase, PodObj, ReadIsUnknown
    <2>2. <<lifePhase[p], lifePhase'[p]>> \in Lifecycle!Moves
      BY <2>1 DEF lifePhase, Lifecycle!Moves
    <2> QED BY <1>1, <1>2, <2>1, <2>2, OneMoves
  <1>4. CASE PatchIdle(p)
    <2>1. /\ p \in reading /\ reading' = reading \ {p}
          /\ pods'[p].phase = "Idle" /\ pods[p].phase \in {"Unknown", "Terminating"}
      BY <1>4 DEF PatchIdle, SetPhase, PodObj, ReadIsUnknown
    <2>2. <<lifePhase[p], lifePhase'[p]>> \in Lifecycle!Moves
      BY <2>1 DEF lifePhase, Lifecycle!Moves
    <2> QED BY <1>1, <1>2, <2>1, <2>2, OneMoves
  <1>5. CASE Recycle(p) \/ EvictPod(p)
    <2>1. /\ p \notin reading /\ reading' = reading
          /\ pods'[p].phase \in {"Idle", "Terminating"} /\ pods[p].phase = "Draining"
      BY <1>5 DEF Recycle, EvictPod, SetPhase, PodObj, ReadIsUnknown
    <2>2. <<lifePhase[p], lifePhase'[p]>> \in Lifecycle!Moves
      BY <2>1 DEF lifePhase, Lifecycle!Moves
    <2> QED BY <1>1, <1>2, <2>1, <2>2, OneMoves
  <1> QED BY <1>3, <1>4, <1>5

LEMMA ReadLife ==
  ASSUME LifeInv, NEW p \in Pods, ReadUnknown(p)
  PROVE  LifeStep
  <1>1. HeldIsBound' /\ ReadIsUnknown'
    BY DEF LifeInv, HeldIsBound, ReadIsUnknown, ReadUnknown, May
  <1>2. UNCHANGED <<lifePhase, holder>>
    BY DEF ReadUnknown, lifePhase
  <1> QED BY <1>1, <1>2 DEF LifeStep, Lifecycle!vars

LEMMA RemoveLife ==
  ASSUME LifeInv, NEW p \in Pods, RemovePod(p)
  PROVE  LifeStep
  <1> USE DEF LifeInv, PoolInv, TypeOK, CNSetTypeOK
  <1>1. /\ pods' = [pods EXCEPT ![p] = NoPod] /\ pods'[p].phase = "none"
        /\ holder' = [holder EXCEPT ![p] = NONE]
        /\ reading' = reading \ {p} /\ env' = env
        /\ pods[p].phase # "none"
    BY DEF RemovePod, NoPod, Exists
  <1>2. HeldIsBound' /\ ReadIsUnknown'
    BY <1>1 DEF HeldIsBound, ReadIsUnknown, May
  <1>3. lifePhase' = [lifePhase EXCEPT ![p] = "none"] /\ lifePhase[p] # "none"
    BY <1>1 DEF lifePhase
  <1>4. Lifecycle!Next
    BY <1>1, <1>3 DEF Lifecycle!Next, Lifecycle!Vanish
  <1> QED BY <1>2, <1>4 DEF LifeStep

LEMMA BindLife ==
  ASSUME LifeInv, NEW p \in Pods, NEW c \in Claims, BindPod(c, p)
  PROVE  LifeStep
  <1> USE DEF LifeInv, PoolInv, TypeOK, CNSetTypeOK
  <1>1. /\ pods[p].phase = "Idle" /\ pods'[p].phase = "Bound"
        /\ \A q \in Pods \ {p} : pods'[q] = pods[q]
        /\ holder' = [holder EXCEPT ![p] = c]
        /\ UNCHANGED <<reading, env>>
    BY DEF BindPod, SetPhase, PodObj
  <1>2. HeldIsBound' /\ ReadIsUnknown'
    BY <1>1 DEF HeldIsBound, ReadIsUnknown, May
  <1>3. lifePhase' = [lifePhase EXCEPT ![p] = "Bound"] /\ lifePhase[p] = "Idle"
    BY <1>1 DEF lifePhase
  <1>4. Lifecycle!Next
    BY <1>1, <1>3 DEF Lifecycle!Next, Lifecycle!Claim
  <1> QED BY <1>2, <1>4 DEF LifeStep

LEMMA ReleaseLife ==
  ASSUME LifeInv, PoolInv', NEW c \in Claims, ReleaseClaim(c)
  PROVE  LifeStep
  <1> USE DEF LifeInv, PoolInv, TypeOK, CNSetTypeOK
  <1>1. /\ \A p \in Pods : pods'[p].phase = IF holder[p] = c THEN "Draining" ELSE pods[p].phase
        /\ holder' = [p \in Pods |-> IF holder[p] = c THEN NONE ELSE holder[p]]
        /\ UNCHANGED <<reading, env>>
    BY DEF ReleaseClaim, PodObj
  <1>2. \A p \in Pods : holder[p] = c => pods[p].phase = "Bound" /\ p \notin reading
    BY CNPoolAssumption DEF HeldIsBound, ReadIsUnknown
  <1>3. HeldIsBound' /\ ReadIsUnknown'
    BY <1>1, <1>2 DEF HeldIsBound, ReadIsUnknown, May
  <1>4. \A p \in Pods :
          \/ lifePhase'[p] = lifePhase[p] /\ holder'[p] = holder[p]
          \/ <<lifePhase[p], lifePhase'[p]>> \in Lifecycle!Moves /\ holder'[p] = NONE
    BY <1>1, <1>2 DEF lifePhase, Lifecycle!Moves
  <1>5. Lifecycle!Next
    BY <1>4, Moving
  <1> QED BY <1>3, <1>5 DEF LifeStep

(* The steps of users, of the sets' controller and of the pool's reading leave
   the phases alone. *)
LEMMA QuietLife ==
  ASSUME LifeInv,
         (\E s \in Sets : SetController(s)) \/ SyncRead \/ FinalizePool \/ Users \/ Restart
  PROVE  LifeStep
  <1>1. UNCHANGED <<pods, holder, reading>>
    BY DEF SetController, Observe, Finalize, SyncRead, FinalizePool, Users, NewClaim, DeleteClaim,
           ChangePool, ChangeDeps, Restart
  <1>2. env' = env \/ env' = [env EXCEPT !.changes = @ + 1]
    BY DEF SetController, SyncRead, FinalizePool, Users, NewClaim, DeleteClaim,
           ChangePool, ChangeDeps, Restart, Change
  <1>3. env'.may = env.may
    BY <1>2 DEF LifeInv, PoolInv, TypeOK
  <1> QED BY <1>1, <1>3, SamePhases

-----------------------------------------------------------------------------

(* LifeInv is inductive, and under it every step of the pool is a step of the
   life cycle. *)
LEMMA LifeInductive == LifeInv /\ [Next]_vars => LifeInv' /\ [Lifecycle!Next]_(Lifecycle!vars)
  <1> SUFFICES ASSUME LifeInv, [Next]_vars PROVE LifeInv' /\ [Lifecycle!Next]_(Lifecycle!vars)
    OBVIOUS
  <1>1. SUFFICES PoolInv' /\ LifeStep
    BY DEF LifeInv, LifeStep
  <1>2. PoolInv /\ (\A p \in Pods : (p \in reading \/ holder[p] # NONE) => Exists(p))
    BY DEF LifeInv, HeldIsBound, ReadIsUnknown, Exists
  <1>3. CASE SyncRead
    BY <1>2, <1>3, SyncReadTyped, QuietLife
  <1>4. CASE SyncWrite
    BY <1>2, <1>4, SyncWriteTyped, SyncWriteLife
  <1>5. CASE FinalizePool \/ Users \/ Restart
    BY <1>2, <1>5, UsersTyped, QuietLife
  <1>6. ASSUME NEW s \in Sets, SetController(s)
        PROVE  PoolInv' /\ LifeStep
    BY <1>2, <1>6, SetControllerTyped, QuietLife
  <1>7. CASE Kruise
    BY <1>2, <1>7, KruiseTyped, KruiseLife
  <1>8. ASSUME NEW p \in Pods, Register(p) \/ PatchIdle(p) \/ Recycle(p) \/ EvictPod(p)
        PROVE  PoolInv' /\ LifeStep
    <2>1. PoolInv'
      BY <1>2, <1>8, PodStepTyped
    <2> QED BY <1>8, <2>1, PodStepLife
  <1>9. ASSUME NEW p \in Pods, ReadUnknown(p) \/ RemovePod(p)
        PROVE  PoolInv' /\ LifeStep
    <2>1. PoolInv'
      BY <1>2, <1>9, PodStepTyped
    <2> QED BY <1>9, <2>1, ReadLife, RemoveLife
  <1>10. ASSUME NEW p \in Pods, NEW c \in Claims, BindPod(c, p)
         PROVE  PoolInv' /\ LifeStep
    <2>1. PoolInv'
      BY <1>2, <1>10, PodStepTyped
    <2> QED BY <1>10, <2>1, BindLife
  <1>11. ASSUME NEW c \in Claims, ReleaseClaim(c)
         PROVE  PoolInv' /\ LifeStep
    <2>1. PoolInv'
      BY <1>2, <1>11, ReleaseTyped
    <2> QED BY <1>11, <2>1, ReleaseLife
  <1>12. CASE UNCHANGED vars
    <2>1. PoolInv'
      BY <1>2, <1>12 DEF vars, PoolInv, TypeOK, CNSetTypeOK, Placed, Exists, Fresh
    <2> QED BY <1>12, <2>1, SamePhases DEF vars
  <1> QED BY <1>3, <1>4, <1>5, <1>6, <1>7, <1>8, <1>9, <1>10, <1>11, <1>12
          DEF Next, PoolSteps, OtherSteps

(* The initial pods are in phases in which the life cycle begins. *)
LEMMA InitRefines == Init => Lifecycle!Init
  <1> SUFFICES ASSUME Init PROVE Lifecycle!Init
    OBVIOUS
  <1>1. \A p \in Pods : pods[p].phase \in {"none", "Unknown"}
    BY DEF Init, NoPod
  <1>2. lifePhase \in [Pods -> {"none", "Unknown"}]
    BY <1>1 DEF lifePhase
  <1> QED BY <1>2 DEF Init, Lifecycle!Init

(* The objects of the pool are well typed whatever the controllers, kruise and users
   do: the replicas written for a set, made of counts of pods and claims and of
   differences of them, stay natural numbers within the bound
   (src/pkg/controllers/cnpool/controller.go:127-181). *)
THEOREM PoolTypeCorrect == Spec => []TypeOK
  <1>1. LifeInv => TypeOK
    BY DEF LifeInv, PoolInv
  <1> QED BY <1>1, InitLife, LifeInductive, PTL DEF Spec

(* The phases and the holders of the pods that the controllers of pools, stores and
   claims write between them implement the life cycle: a held pod is never taken
   away to make the pool smaller (src/pkg/controllers/cnpool/controller.go:160). *)
THEOREM PoolKeepsToLifecycle == Spec => KeepsToLifecycle
  BY InitLife, InitRefines, LifeInductive, PTL DEF Spec, KeepsToLifecycle, Lifecycle!Spec

-----------------------------------------------------------------------------
(* Who decides which pods go, while the template of the pool stays as it is *)

Steady == ~May("rollout") /\ ~May("late")

Own == cnset[First]
Clones == cs[setName(First)]
Staying == {p \in OfSet(First) : ~pods[p].stopping}

(* There is one set. *)
OnlyFirst ==
  /\ pool.rev = First
  /\ worker # NONE => worker.p.rev = First
  /\ \A s \in Sets \ {First} : cnset[s].st = "none" /\ cs[setName(s)].st = "none"

(* The pool has been deleted and with it the set. *)
Over == worker = NONE /\ pool.st # "live" /\ Own.st = "none" /\ Clones.st = "none"

(* The CloneSet lives within the life of its set, and pods within that of the CloneSet. *)
Lifetimes ==
  /\ Own.st = "none" => Own = NoCNSet /\ Clones.st = "none"
  /\ Own.st = "deleting" => pool.st # "live" /\ worker = NONE
  /\ Clones.st = "none" => OfSet(First) = {}

(* The pods that are to be deleted have been given up, and the set names all that
   the CloneSet names or that have begun to stop. *)
Condemned ==
  /\ \A p \in Own.del \cup Clones.del : Exists(p) => pods[p].phase = "Terminating"
  /\ \A p \in OfSet(First) : (p \in Clones.del \/ pods[p].stopping) => p \in Own.del
  /\ Own.del # {} => Own.selector

(* The worker has seen every pod that the set names, so it will name it again. *)
Seen ==
  worker # NONE =>
    /\ worker.fresh \subseteq OfSet(First)
    /\ ~Own.selector => worker.fresh = {} /\ \A p \in Pods : worker.seen[p] = "none"
    /\ \A p \in OfSet(First) \cap Own.del : worker.seen[p] = "Terminating"
    /\ \A p \in Pods : worker.seen[p] = "Terminating" =>
         /\ Exists(p) => pods[p].phase = "Terminating"
         /\ p \notin Own.del => p \in OfSet(First)

(* The CloneSet has room for its pods, and will have when it has been scaled to
   what the set says. *)
Room ==
  Clones.st = "live" =>
    /\ Cardinality(Staying \ Clones.del) <= Clones.replicas
    /\ Cardinality(Staying \ Own.del) + Clones.replicas
         <= Own.replicas + Cardinality(Staying \ Clones.del)

Running == Lifetimes /\ Condemned /\ Seen /\ Room

Decided == OnlyFirst /\ (Over \/ Running)

DecideInv == LifeInv /\ (Steady => Decided)

LEMMA FirstTyped ==
  ASSUME PoolInv
  PROVE  /\ First \in Sets
         /\ Own \in CNSetObj
         /\ Clones \in CloneSetObj
         /\ OfSet(First) \in SUBSET Pods
         /\ Staying \in SUBSET Pods
         /\ Own.replicas \in Nat
         /\ Clones.replicas \in Nat
  <1>1. First \in Sets /\ OfSet(First) \in SUBSET Pods /\ Staying \in SUBSET Pods
    BY CNPoolAssumption DEF OfSet, Staying
  <1>2. Own \in CNSetObj /\ Clones \in CloneSetObj
    BY <1>1 DEF PoolInv, TypeOK, CNSetTypeOK, Own, Clones
  <1> QED BY <1>1, <1>2, CNSetAssumption DEF CNSetObj, CloneSetObj

(* CloneSets of different sets have different names. *)
LEMMA Names == \A s, t \in Sets : setName(s) = setName(t) => s = t
  BY DEF setName

(* The pods change, and the set and its CloneSet do not. *)
LEMMA PodsMove ==
  ASSUME LifeInv, LifeInv', Running, UNCHANGED <<cnset, cs>>,
         pool'.st = pool.st \/ pool'.st # "live",
         worker' # NONE => /\ worker # NONE
                           /\ worker'.seen = worker.seen
                           /\ worker'.fresh \subseteq worker.fresh
                           /\ worker'.fresh \subseteq OfSet(First)',
         OfSet(First)' \subseteq OfSet(First),
         Staying' \ Clones.del = Staying \ Clones.del,
         Staying' \ Own.del = Staying \ Own.del,
         \A p \in OfSet(First)' : pods'[p].stopping => pods[p].stopping \/ p \in Own.del,
         \A p \in Pods : pods'[p].phase # "none" =>
           pods[p].phase # "none" /\ (pods[p].phase = "Terminating" => pods'[p].phase = "Terminating"),
         \A p \in OfSet(First) \ OfSet(First)' : p \in Own.del
  PROVE  Running'
  <1>1. Own' = Own /\ Clones' = Clones
    BY DEF Own, Clones
  <1>2. Own.del \subseteq Pods /\ Clones.del \subseteq Pods
    BY FirstTyped DEF LifeInv, CNSetObj, CloneSetObj
  <1>3. Lifetimes'
    BY <1>1 DEF Running, Lifetimes
  <1>4. Condemned'
    BY <1>1, <1>2 DEF Running, Condemned, Exists
  <1>5. Seen'
    <2> SUFFICES ASSUME worker' # NONE PROVE Seen'
      BY DEF Seen
    <2>1. worker # NONE /\ worker'.seen = worker.seen /\ worker'.fresh \subseteq worker.fresh
      OBVIOUS
    <2>2. ~Own.selector => worker'.fresh = {} /\ \A p \in Pods : worker'.seen[p] = "none"
      BY <2>1 DEF Running, Seen
    <2>3. \A p \in OfSet(First)' \cap Own.del : worker'.seen[p] = "Terminating"
      BY <2>1 DEF Running, Seen
    <2>4. ASSUME NEW p \in Pods, worker'.seen[p] = "Terminating"
          PROVE  pods'[p].phase # "none" => pods'[p].phase = "Terminating"
      BY <2>1, <2>4 DEF Running, Seen, Exists
    <2>5. ASSUME NEW p \in Pods, worker'.seen[p] = "Terminating", p \notin Own.del
          PROVE  p \in OfSet(First)'
      BY <2>1, <2>5 DEF Running, Seen
    <2> QED BY <1>1, <2>2, <2>3, <2>4, <2>5 DEF Seen, Exists
  <1>6. Room'
    BY <1>1 DEF Running, Room
  <1> QED BY <1>3, <1>4, <1>5, <1>6 DEF Running

(* Pods get other phases, but none that has been given up comes back. *)
LEMMA PhasesMove ==
  ASSUME LifeInv, LifeInv', Running, UNCHANGED <<cnset, cs>>,
         pool'.st = pool.st \/ pool'.st # "live",
         worker' # NONE => /\ worker # NONE
                           /\ worker'.seen = worker.seen
                           /\ worker'.fresh \subseteq worker.fresh,
         \A p \in Pods :
           /\ pods'[p].set = pods[p].set
           /\ pods'[p].direct = pods[p].direct
           /\ pods'[p].stopping = pods[p].stopping
           /\ pods'[p].phase = "none" <=> pods[p].phase = "none"
           /\ pods[p].phase = "Terminating" => pods'[p].phase = "Terminating"
  PROVE  Running'
  <1>1. OfSet(First)' = OfSet(First) /\ Staying' = Staying
    BY DEF OfSet, Staying, Exists
  <1>2. worker' # NONE => worker'.fresh \subseteq OfSet(First)'
    BY <1>1 DEF Running, Seen
  <1>3. \A p \in OfSet(First)' : pods'[p].stopping => pods[p].stopping
    BY DEF OfSet
  <1> QED BY <1>1, <1>2, <1>3, PodsMove

(* What the worker still has of what it has read. *)
LEMMA WorkerTouched ==
  ASSUME PoolInv, NEW p \in Pods, worker' = Touch(p)
  PROVE  /\ worker' # NONE => /\ worker # NONE /\ worker'.p = worker.p
                              /\ worker'.seen = worker.seen
                              /\ worker'.fresh \subseteq worker.fresh \ {p}
         /\ worker = NONE => worker' = NONE
  <1>1. CASE worker = NONE
    BY <1>1 DEF Touch
  <1>2. CASE worker # NONE
    <2>1. worker \in Snapshot /\ worker' = [worker EXCEPT !.fresh = @ \ {p}]
      BY <1>2 DEF PoolInv, TypeOK, Touch
    <2> QED BY <2>1, <1>2 DEF Snapshot
  <1> QED BY <1>1, <1>2

(* The other controllers change a pod and leave the sets and the pool alone. *)
LEMMA OnlyFirstStays ==
  ASSUME OnlyFirst, UNCHANGED <<cnset, cs>>, pool'.rev = pool.rev,
         worker' # NONE => worker # NONE /\ worker'.p = worker.p
  PROVE  OnlyFirst'
  BY DEF OnlyFirst

LEMMA OverStays ==
  ASSUME Over, UNCHANGED <<cnset, cs>>, worker' = NONE, pool'.st = pool.st \/ pool'.st # "live"
  PROVE  Over'
  BY DEF Over, Own, Clones

(* The cnstore controller and a claim that takes a pod. *)
LEMMA PodStepDecided ==
  ASSUME LifeInv, LifeInv', Steady, Decided, NEW p \in Pods,
         \/ Register(p) \/ ReadUnknown(p) \/ PatchIdle(p) \/ Recycle(p)
         \/ EvictPod(p) \/ \E c \in Claims : BindPod(c, p)
  PROVE  Decided'
  <1> USE DEF LifeInv, PoolInv, TypeOK, CNSetTypeOK
  <1>1. p \notin reading /\ ~May("late")
    BY DEF ReadIsUnknown, Steady
  <1>2. PICK x \in Phases \ {"none"} :
          /\ pods' = SetPhase(p, x) /\ pods[p].phase \in {"Unknown", "Idle", "Draining"}
          /\ worker' = Touch(p) /\ UNCHANGED <<cnset, cs, pool>>
    <2>1. CASE Register(p)
      BY <2>1 DEF Register, Phases
    <2>2. CASE ReadUnknown(p) \/ PatchIdle(p)
      BY <2>2, <1>1 DEF ReadUnknown, PatchIdle
    <2>3. CASE Recycle(p)
      <3>1. (IF pods[p].direct THEN "Terminating" ELSE "Idle") \in Phases \ {"none"}
        BY DEF Phases
      <3> QED BY <2>3, <3>1 DEF Recycle
    <2>4. CASE EvictPod(p)
      BY <2>4 DEF EvictPod, Phases
    <2>5. ASSUME NEW c \in Claims, BindPod(c, p)
          PROVE  /\ pods' = SetPhase(p, "Bound") /\ pods[p].phase = "Idle"
                 /\ worker' = Touch(p) /\ UNCHANGED <<cnset, cs, pool>>
      BY <2>5 DEF BindPod
    <2>6. "Bound" \in Phases \ {"none"}
      BY DEF Phases
    <2> QED BY <2>1, <2>2, <2>3, <2>4, <2>5, <2>6
  <1>3. \A q \in Pods :
          /\ pods'[q].set = pods[q].set
          /\ pods'[q].direct = pods[q].direct
          /\ pods'[q].stopping = pods[q].stopping
          /\ pods'[q].phase = "none" <=> pods[q].phase = "none"
          /\ pods[q].phase = "Terminating" => pods'[q].phase = "Terminating"
    BY <1>2 DEF SetPhase, PodObj
  <1>4. OnlyFirst'
    BY <1>2, OnlyFirstStays, WorkerTouched DEF Decided
  <1>5. CASE Over
    BY <1>2, <1>4, <1>5, OverStays, WorkerTouched DEF Decided, Over
  <1>6. CASE Running
    <2>1. worker' # NONE => /\ worker # NONE /\ worker'.seen = worker.seen
                            /\ worker'.fresh \subseteq worker.fresh
      BY <1>2, WorkerTouched
    <2>2. Running'
      BY <1>2, <1>3, <1>6, <2>1, PhasesMove
    <2> QED BY <1>4, <2>2 DEF Decided
  <1> QED BY <1>5, <1>6 DEF Decided

(* A claim leaves its pod: a pod that it holds is Bound and has not been given up. *)
LEMMA ReleaseDecided ==
  ASSUME LifeInv, LifeInv', Steady, Decided, NEW c \in Claims, ReleaseClaim(c)
  PROVE  Decided'
  <1> USE DEF LifeInv, PoolInv, TypeOK, CNSetTypeOK
  <1> DEFINE mine == {p \in Pods : holder[p] = c}
  <1>1. /\ pods' = [p \in Pods |-> IF p \in mine THEN [pods[p] EXCEPT !.phase = "Draining"] ELSE pods[p]]
        /\ worker' = IF worker = NONE THEN worker ELSE [worker EXCEPT !.fresh = @ \ mine]
        /\ UNCHANGED <<cnset, cs, pool, reading, env>>
    BY DEF ReleaseClaim
  <1>2. \A p \in mine : pods[p].phase = "Bound"
    BY CNPoolAssumption DEF HeldIsBound
  <1>3. \A q \in Pods :
          /\ pods'[q].set = pods[q].set
          /\ pods'[q].direct = pods[q].direct
          /\ pods'[q].stopping = pods[q].stopping
          /\ pods'[q].phase = "none" <=> pods[q].phase = "none"
          /\ pods[q].phase = "Terminating" => pods'[q].phase = "Terminating"
    BY <1>1, <1>2 DEF PodObj
  <1>4. /\ worker' # NONE => /\ worker # NONE /\ worker'.p = worker.p
                             /\ worker'.seen = worker.seen
                             /\ worker'.fresh \subseteq worker.fresh
        /\ worker = NONE => worker' = NONE
    <2>1. CASE worker = NONE
      BY <2>1, <1>1
    <2>2. CASE worker # NONE
      <3>1. worker \in Snapshot /\ worker' = [worker EXCEPT !.fresh = @ \ mine]
        BY <2>2, <1>1
      <3> QED BY <3>1, <2>2 DEF Snapshot
    <2> QED BY <2>1, <2>2
  <1> HIDE DEF mine
  <1>5. OnlyFirst'
    BY <1>1, <1>4, OnlyFirstStays DEF Decided
  <1>6. CASE Over
    BY <1>1, <1>4, <1>5, <1>6, OverStays DEF Decided, Over
  <1>7. CASE Running
    <2>1. Running'
      BY <1>1, <1>3, <1>4, <1>7, PhasesMove
    <2> QED BY <1>5, <2>1 DEF Decided
  <1> QED BY <1>6, <1>7 DEF Decided

(* A pod that is gone had begun to stop, or was beside the CloneSets. *)
LEMMA RemoveDecided ==
  ASSUME LifeInv, LifeInv', Steady, Decided, NEW p \in Pods, RemovePod(p)
  PROVE  Decided'
  <1> USE DEF LifeInv, PoolInv, TypeOK, CNSetTypeOK
  <1>1. /\ pods' = [pods EXCEPT ![p] = NoPod]
        /\ pods[p].stopping \/ pods[p].direct
        /\ worker' = Touch(p) /\ UNCHANGED <<cnset, cs, pool, env>>
    BY DEF RemovePod
  <1>2. OnlyFirst'
    BY <1>1, OnlyFirstStays, WorkerTouched DEF Decided
  <1>3. CASE Over
    BY <1>1, <1>2, <1>3, OverStays, WorkerTouched DEF Decided, Over
  <1>4. CASE Running
    <2>1. /\ pods'[p].phase = "none"
          /\ \A q \in Pods \ {p} : pods'[q] = pods[q]
      BY <1>1 DEF NoPod
    <2>2. OfSet(First)' = OfSet(First) \ {p}
      BY <2>1 DEF OfSet, Exists
    <2>3. p \notin Staying
      BY <1>1 DEF Staying, OfSet
    <2>4. Staying' = Staying
      BY <2>1, <2>2, <2>3 DEF Staying, OfSet
    <2>5. p \in OfSet(First) => p \in Own.del
      BY <1>1, <1>4 DEF Running, Condemned, OfSet
    <2>6. worker' # NONE => /\ worker # NONE
                            /\ worker'.seen = worker.seen
                            /\ worker'.fresh \subseteq worker.fresh \ {p}
      BY <1>1, WorkerTouched
    <2>7. worker' # NONE => worker'.fresh \subseteq OfSet(First)'
      BY <2>2, <2>6, <1>4 DEF Running, Seen
    <2>8. \A q \in OfSet(First)' : pods'[q].stopping => pods[q].stopping
      BY <2>1, <2>2 DEF OfSet
    <2>9. Running'
      BY <1>1, <1>4, <2>1, <2>2, <2>4, <2>5, <2>6, <2>7, <2>8, PodsMove
    <2> QED BY <1>2, <2>9 DEF Decided
  <1> QED BY <1>3, <1>4 DEF Decided

(* kruise: a pod it creates is counted by the set and the CloneSet alike, and one
   it stops by neither. *)
LEMMA KruiseDecided ==
  ASSUME LifeInv, LifeInv', Steady, Decided, Kruise
  PROVE  Decided'
  <1> USE DEF LifeInv, PoolInv, TypeOK, CNSetTypeOK
  <1>1. UNCHANGED <<cnset, cs, pool, env>>
    BY DEF Kruise, CreatePod, StopPod, RelabelPod
  <1>2. /\ worker' # NONE => /\ worker # NONE /\ worker'.p = worker.p
                             /\ worker'.seen = worker.seen
                             /\ worker'.fresh = {q \in worker.fresh : pods'[q] = pods[q]}
        /\ worker = NONE => worker' = NONE
    <2>1. CASE worker = NONE
      BY <2>1 DEF Kruise
    <2>2. CASE worker # NONE
      <3>1. worker \in Snapshot /\ worker' = [worker EXCEPT !.fresh = {q \in @ : pods'[q] = pods[q]}]
        BY <2>2 DEF Kruise
      <3> QED BY <3>1, <2>2 DEF Snapshot
    <2> QED BY <2>1, <2>2
  <1>3. OnlyFirst'
    BY <1>1, <1>2, OnlyFirstStays DEF Decided
  <1>4. CASE Over
    BY <1>1, <1>2, <1>3, <1>4, OverStays DEF Decided, Over
  <1>5. CASE Running
    <2>1. SUFFICES Running'
      BY <1>3 DEF Decided
    <2>2. /\ First \in Sets /\ OfSet(First) \in SUBSET Pods /\ Staying \in SUBSET Pods
          /\ Own.replicas \in Nat /\ Clones.replicas \in Nat
      BY FirstTyped
    <2>3. ASSUME NEW s \in Sets, NEW p \in Pods, CreatePod(s, p)
          PROVE  Running'
      <3>1. s = First
        BY <2>3 DEF CreatePod, Decided, OnlyFirst
      <3>2. /\ Clones.st = "live" /\ ~Exists(p) /\ p \notin Own.del /\ p \notin Clones.del
            /\ Cardinality(Active(First)) < Clones.replicas
        BY <2>3, <3>1 DEF CreatePod, Unused, Own, Clones
      <3>3. /\ pods'[p].set = First /\ ~pods'[p].direct /\ ~pods'[p].stopping /\ pods'[p].phase = "Unknown"
            /\ \A q \in Pods \ {p} : pods'[q] = pods[q]
        BY <2>3, <3>1 DEF CreatePod, NewPod, NoPod
      <3>4. p \notin OfSet(First) /\ p \notin Staying
        BY <3>2 DEF OfSet, Staying
      <3>5. OfSet(First)' = OfSet(First) \cup {p}
        BY <3>3 DEF OfSet, Exists
      <3>6. Staying' = Staying \cup {p}
        BY <3>3, <3>5 DEF Staying, OfSet
      <3>7. Own' = Own /\ Clones' = Clones
        BY <1>1 DEF Own, Clones
      <3>8. Active(First) = Staying \ Clones.del
        BY DEF Active, Staying, Clones
      <3>9. /\ Cardinality(Staying' \ Clones.del) = Cardinality(Staying \ Clones.del) + 1
            /\ Cardinality(Staying' \ Own.del) = Cardinality(Staying \ Own.del) + 1
        <4>1. /\ Staying' \ Clones.del = (Staying \ Clones.del) \cup {p}
              /\ Staying' \ Own.del = (Staying \ Own.del) \cup {p}
          BY <3>2, <3>6
        <4>2. IsFiniteSet(Staying \ Clones.del) /\ IsFiniteSet(Staying \ Own.del)
          <5>1. Staying \ Clones.del \in SUBSET Pods /\ Staying \ Own.del \in SUBSET Pods
            BY <2>2
          <5> QED BY <5>1, CNSetAssumption, FS_Subset
        <4> QED BY <4>1, <4>2, <3>4, FS_AddElement
      <3>10. /\ Cardinality(Staying \ Clones.del) \in Nat
             /\ Cardinality(Staying \ Own.del) \in Nat
        <4>1. Staying \ Clones.del \in SUBSET Pods /\ Staying \ Own.del \in SUBSET Pods
          BY <2>2
        <4> QED BY <4>1, PodsCounted
      <3>11. Room'
        <4>1. /\ Cardinality(Staying \ Clones.del) < Clones.replicas
              /\ Cardinality(Staying \ Own.del) + Clones.replicas
                   <= Own.replicas + Cardinality(Staying \ Clones.del)
          BY <1>5, <3>2, <3>8 DEF Running, Room
        <4> HIDE DEF LifeInv
        <4>2. /\ Cardinality(Staying' \ Clones.del) <= Clones.replicas
              /\ Cardinality(Staying' \ Own.del) + Clones.replicas
                   <= Own.replicas + Cardinality(Staying' \ Clones.del)
          BY <4>1, <3>9, <3>10, <2>2
        <4> QED BY <4>2, <3>7 DEF Room
      <3>12. Lifetimes'
        BY <1>1, <1>2, <1>5, <3>2, <3>7 DEF Running, Lifetimes
      <3>13. Condemned'
        <4>1. \A q \in Own.del \cup Clones.del : q \in Pods \ {p}
          BY <3>2, FirstTyped DEF CNSetObj, CloneSetObj
        <4> QED BY <4>1, <1>5, <3>3, <3>5, <3>7 DEF Running, Condemned, Exists, OfSet
      <3>14. Seen'
        <4> SUFFICES ASSUME worker' # NONE PROVE Seen'
          BY DEF Seen
        <4>1. worker # NONE /\ worker'.seen = worker.seen /\ worker'.fresh \subseteq worker.fresh
          BY <1>2
        <4>2. worker.seen[p] # "Terminating"
          BY <4>1, <1>5, <3>2, <3>4 DEF Running, Seen
        <4>3. /\ worker'.fresh \subseteq OfSet(First)'
              /\ ~Own.selector => worker'.fresh = {} /\ \A q \in Pods : worker'.seen[q] = "none"
          BY <4>1, <1>5, <3>5 DEF Running, Seen
        <4>4. \A q \in OfSet(First)' \cap Own.del : worker'.seen[q] = "Terminating"
          BY <4>1, <1>5, <3>2, <3>5 DEF Running, Seen
        <4>5. ASSUME NEW q \in Pods, worker'.seen[q] = "Terminating"
              PROVE  /\ pods'[q].phase # "none" => pods'[q].phase = "Terminating"
                     /\ q \notin Own.del => q \in OfSet(First)'
          BY <4>1, <4>2, <4>5, <1>5, <3>3, <3>5 DEF Running, Seen, Exists
        <4> QED BY <3>7, <4>3, <4>4, <4>5 DEF Seen, Exists
      <3> QED BY <3>11, <3>12, <3>13, <3>14 DEF Running
    <2>4. ASSUME NEW p \in Pods, StopPod(p)
          PROVE  Running'
      <3>1. /\ pods' = [pods EXCEPT ![p].stopping = TRUE] /\ Exists(p) /\ ~pods[p].direct
            /\ cs[setName(pods[p].set)].st = "none" \/ p \in cs[setName(pods[p].set)].del
        BY <2>4 DEF StopPod
      <3>2. \A q \in Pods :
              /\ pods'[q].set = pods[q].set /\ pods'[q].direct = pods[q].direct
              /\ pods'[q].phase = pods[q].phase
              /\ q # p => pods'[q].stopping = pods[q].stopping
              /\ q = p => pods'[q].stopping
        <4>1. pods[p] \in PodObj /\ pods'[p] = [pods[p] EXCEPT !.stopping = TRUE]
          BY <3>1
        <4>2. \A q \in Pods \ {p} : pods'[q] = pods[q]
          BY <3>1
        <4>3. /\ pods'[p].set = pods[p].set /\ pods'[p].direct = pods[p].direct
              /\ pods'[p].phase = pods[p].phase /\ pods'[p].stopping = TRUE
          BY <4>1 DEF PodObj
        <4> QED BY <4>2, <4>3
      <3>3. OfSet(First)' = OfSet(First)
        BY <3>2 DEF OfSet, Exists
      <3>4. p \in OfSet(First) => p \in Clones.del /\ p \in Own.del
        BY <3>1, <1>5 DEF Running, Condemned, Lifetimes, OfSet, Clones
      <3>5. /\ Staying' \ Clones.del = Staying \ Clones.del
            /\ Staying' \ Own.del = Staying \ Own.del
        BY <3>2, <3>3, <3>4 DEF Staying, OfSet
      <3>6. \A q \in OfSet(First)' : pods'[q].stopping => pods[q].stopping \/ q \in Own.del
        BY <3>2, <3>3, <3>4 DEF OfSet
      <3>7. worker' # NONE => worker'.fresh \subseteq worker.fresh /\ worker'.fresh \subseteq OfSet(First)'
        BY <1>2, <1>5, <3>3 DEF Running, Seen
      <3> QED BY <1>1, <1>2, <1>5, <3>2, <3>3, <3>5, <3>6, <3>7, PodsMove
    <2>5. ASSUME NEW p \in Pods, RelabelPod(p)
          PROVE  Running'
      <3>1. \A q \in Pods :
              /\ pods'[q].set = pods[q].set /\ pods'[q].direct = pods[q].direct
              /\ pods'[q].stopping = pods[q].stopping
              /\ pods'[q].phase = pods[q].phase
        BY <2>5 DEF RelabelPod, PodObj
      <3> QED BY <1>1, <1>2, <1>5, <3>1, PhasesMove
    <2> QED BY <2>3, <2>4, <2>5 DEF Kruise
  <1> QED BY <1>4, <1>5 DEF Decided

(* The CNSet controller: the CloneSet begins without pods, and what it is scaled to
   leaves room for those that stay. *)
LEMMA SetControllerDecided ==
  ASSUME LifeInv, LifeInv', Steady, Decided, NEW s \in Sets, SetController(s)
  PROVE  Decided'
  <1> USE DEF LifeInv, PoolInv, TypeOK, CNSetTypeOK
  <1>1. s = First
    BY DEF SetController, Observe, Finalize, Decided, OnlyFirst
  <1>2. Running
    BY <1>1 DEF Decided, Over, SetController, Observe, Finalize, Own
  <1>3. UNCHANGED <<pods, pool, worker, claims, holder, reading, env>>
    BY DEF SetController, Observe, Finalize
  <1>4. /\ First \in Sets /\ OfSet(First) \in SUBSET Pods /\ Staying \in SUBSET Pods
        /\ Own \in CNSetObj /\ Clones \in CloneSetObj
        /\ Own.replicas \in Nat /\ Clones.replicas \in Nat
    BY FirstTyped
  <1>5. OfSet(First)' = OfSet(First) /\ Staying' = Staying
    BY <1>3 DEF OfSet, Staying, Exists
  <1>6. ASSUME NEW t \in Sets \ {First}
        PROVE  cnset'[t] = cnset[t] /\ cs'[setName(t)] = cs[setName(t)]
    <2>1. setName(t) # setName(First) /\ setName(t) \in {setName(u) : u \in Sets}
      BY <1>4, Names
    <2>2. CASE Observe(First)
      BY <2>1, <2>2 DEF Observe
    <2>3. CASE Finalize(First)
      BY <2>1, <2>3 DEF Finalize
    <2> QED BY <1>1, <2>2, <2>3 DEF SetController
  <1>7. OnlyFirst'
    BY <1>3, <1>6 DEF Decided, OnlyFirst
  <1>8. setName(First) \in DOMAIN cs /\ First \in DOMAIN cnset
    BY <1>4
  <1>9. /\ Cardinality(Staying \ Clones.del) \in Nat
        /\ Cardinality(Staying \ Own.del) \in Nat
    <2>1. Staying \ Clones.del \in SUBSET Pods /\ Staying \ Own.del \in SUBSET Pods
      BY <1>4
    <2> QED BY <2>1, PodsCounted
  <1>10. CASE Finalize(First)
    <2>1. Own.st = "deleting" /\ Own' = NoCNSet /\ Clones' = NoCloneSet
      BY <1>8, <1>10 DEF Finalize, Own, Clones
    <2>2. Over'
      BY <2>1, <1>2, <1>3 DEF Over, Running, Lifetimes, NoCNSet, NoCloneSet
    <2> QED BY <1>7, <2>2 DEF Decided
  <1>11. CASE Observe(First)
    <2>1. SUFFICES Running'
      BY <1>7 DEF Decided
    <2>2. Own.st = "live"
      BY <1>11 DEF Observe, Own
    <2>3. CASE Clones.st = "none"
      <3>1. Own' = Own /\ Clones' = Create(Own)
        BY <2>3, <1>8, <1>11 DEF Observe, Own, Clones
      <3>2. Clones'.st = "live" /\ Clones'.replicas = Own.replicas /\ Clones'.del = Own.del
        BY <3>1 DEF Create, syncCloneSet, scaleSet, NoCloneSet
      <3>3. OfSet(First) = {} /\ Staying = {} /\ Staying \ Own.del = {}
        BY <2>3, <1>2 DEF Running, Lifetimes, Staying
      <3>4. Lifetimes' /\ Condemned' /\ Seen'
        BY <1>2, <1>3, <1>5, <2>2, <3>1, <3>2, <3>3 DEF Running, Lifetimes, Condemned, Seen, Exists
      <3>5. Room'
        <4>1. Cardinality(Staying \ Own.del) = 0
          BY <3>3, FS_EmptySet
        <4> QED BY <1>4, <1>5, <3>1, <3>2, <4>1 DEF Room
      <3> QED BY <3>4, <3>5 DEF Running
    <2>4. CASE Clones.st # "none" /\ Update(Own, Clones) # Clones
      <3>1. Own' = Own /\ Clones' = Update(Own, Clones)
        BY <2>4, <1>8, <1>11 DEF Observe, Own, Clones
      <3>2. Clones'.st = Clones.st /\ Clones'.replicas = Clones.replicas /\ Clones'.del = Clones.del
        BY <3>1, <1>4 DEF Update, syncCloneSet, CloneSetObj
      <3> QED BY <1>2, <1>3, <1>5, <3>1, <3>2 DEF Running, Lifetimes, Condemned, Seen, Room, Exists
    <2>5. CASE Clones.st # "none" /\ Update(Own, Clones) = Clones
      <3>1. Own' = WithStatus(Own, First) /\ (Clones' = Clones \/ Clones' = scaleSet(Own, Clones))
        BY <2>5, <1>8, <1>11 DEF Observe, Own, Clones
      <3>2. Own'.st = "live" /\ Own'.selector /\ Own'.replicas = Own.replicas /\ Own'.del = Own.del
        BY <3>1, <2>2, <1>4 DEF WithStatus, CNSetObj
      <3>3. CASE Clones' = Clones
        BY <1>2, <1>3, <1>5, <2>2, <3>2, <3>3 DEF Running, Lifetimes, Condemned, Seen, Room, Exists
      <3>4. CASE Clones' = scaleSet(Own, Clones)
        <4>1. Clones'.st = Clones.st /\ Clones'.replicas = Own.replicas /\ Clones'.del = Own.del
          BY <3>4, <1>4 DEF scaleSet, CloneSetObj
        <4>2. Lifetimes' /\ Condemned' /\ Seen'
          BY <1>2, <1>3, <1>5, <2>2, <3>2, <4>1 DEF Running, Lifetimes, Condemned, Seen, Exists
        <4>3. Clones.st = "live"
          BY <2>5, <1>4 DEF CloneSetObj
        <4>4. Cardinality(Staying \ Own.del) <= Own.replicas
          BY <1>2, <1>4, <1>9, <4>3 DEF Running, Room
        <4>5. Room'
          BY <1>4, <1>5, <1>9, <3>2, <4>1, <4>4 DEF Room
        <4> QED BY <4>2, <4>5 DEF Running
      <3> QED BY <3>1, <3>3, <3>4
    <2> QED BY <2>3, <2>4, <2>5
  <1> QED BY <1>1, <1>10, <1>11 DEF SetController

(* The pool reads: it sees all pods that the set names. *)
LEMMA SyncReadDecided ==
  ASSUME LifeInv, LifeInv', Steady, Decided, SyncRead
  PROVE  Decided'
  <1> USE DEF LifeInv, PoolInv, TypeOK, CNSetTypeOK
  <1>1. /\ pool.st = "live" /\ worker = NONE
        /\ UNCHANGED <<cs, pods, pool, holder, reading, env>>
    BY DEF SyncRead
  <1>2. Running /\ OnlyFirst
    BY <1>1 DEF Decided, Over
  <1>3. desired = First /\ LegacySets = {}
    BY <1>2 DEF OnlyFirst, desired, LegacySets, OwnedSets
  <1>4. cnset' = cnset
    BY <1>3 DEF SyncRead
  <1>5. /\ First \in Sets /\ OfSet(First) \in SUBSET Pods /\ Own \in CNSetObj /\ Listed \subseteq OfSet(First)
    BY <1>3, FirstTyped DEF Listed, CNSetLivePods
  <1>6. /\ worker'.p = pool /\ worker'.fresh = Listed
        /\ \A p \in Pods : worker'.seen[p] = IF p \in Listed THEN pods[p].phase ELSE "none"
    BY DEF SyncRead
  <1>7. /\ Own' = Own /\ Clones' = Clones /\ OfSet(First)' = OfSet(First) /\ Staying' = Staying
    BY <1>1, <1>4 DEF Own, Clones, OfSet, Staying, Exists
  <1>8. OnlyFirst'
    BY <1>1, <1>2, <1>4, <1>6 DEF OnlyFirst
  <1>9. Own.selector /\ Own.st # "none" => Listed = OfSet(First)
    BY <1>3 DEF Listed, CNSetLivePods, Own
  <1>10. ~Own.selector => Listed = {}
    BY <1>3 DEF Listed, CNSetLivePods, Own
  <1>11. Lifetimes' /\ Condemned' /\ Room'
    BY <1>1, <1>2, <1>7 DEF Running, Lifetimes, Condemned, Room, Exists
  <1>12. Own.del # {} => Own.selector /\ Own.st # "none"
    BY <1>2 DEF Running, Condemned, Lifetimes, NoCNSet
  <1>13. \A p \in OfSet(First) \cap Own.del : worker'.seen[p] = "Terminating"
    BY <1>2, <1>5, <1>6, <1>9, <1>12 DEF Running, Condemned, OfSet
  <1>14. Seen'
    BY <1>1, <1>5, <1>6, <1>7, <1>10, <1>13 DEF Seen, Exists
  <1> QED BY <1>8, <1>11, <1>14 DEF Decided, Running

(* What the pool writes: the pods it gives up were not named before, all that were
   are named again, and the replicas go down by no more than the pods given up. *)
LEMMA SyncWriteDecided ==
  ASSUME LifeInv, LifeInv', Steady, Decided, SyncWrite
  PROVE  Decided'
  <1> USE DEF LifeInv, PoolInv, TypeOK, CNSetTypeOK
  <1>1. worker # NONE /\ worker' = NONE /\ UNCHANGED <<cs, pool, claims, holder, reading>>
    BY DEF SyncWrite
  <1>2. Running /\ OnlyFirst /\ worker.p.rev = First /\ Own.st # "deleting"
    BY <1>1 DEF Decided, Over, OnlyFirst, Running, Lifetimes
  <1>3. /\ First \in Sets /\ OfSet(First) \in SUBSET Pods /\ Staying \in SUBSET Pods
        /\ Own \in CNSetObj /\ Clones \in CloneSetObj
        /\ Own.replicas \in Nat /\ Clones.replicas \in Nat
    BY FirstTyped
  <1>4. CASE totalPods > MaxPods
    <2>1. UNCHANGED <<cnset, pods>>
      BY <1>4 DEF SyncWrite
    <2>2. Running'
      BY <1>1, <1>2, <2>1, PhasesMove
    <2>3. OnlyFirst'
      BY <1>1, <1>2, <2>1, OnlyFirstStays
    <2> QED BY <2>2, <2>3 DEF Decided
  <1>5. CASE ~(totalPods > MaxPods)
    <2> DEFINE c == IF Own.st # "none" THEN Own ELSE buildCNSet(worker.p)
    <2>1. PICK D \in PickedPods(ScaleInCount(c.replicas)), saved \in BOOLEAN :
            /\ pods' = [p \in Pods |-> IF p \in Retired(D)
                                       THEN [pods[p] EXCEPT !.phase = "Terminating"] ELSE pods[p]]
            /\ cnset' = IF ~saved THEN cnset
                        ELSE [cnset EXCEPT ![First] =
                                [syncCNSetSpec(worker.p, c) EXCEPT
                                   !.replicas = Replicas(c.replicas, Retired(D)),
                                   !.del = terminatingPods \cup Retired(D)]]
      BY <1>2, <1>5 DEF SyncWrite, Own
    <2> DEFINE G == Retired(D)
    <2>2. \A p \in G : p \in Pods /\ p \in worker.fresh /\ pods[p].phase \in {"Unknown", "Idle"}
      BY <1>1, GivenUp DEF Fresh
    <2>3. \A q \in Pods :
            /\ pods'[q].set = pods[q].set /\ pods'[q].direct = pods[q].direct
            /\ pods'[q].stopping = pods[q].stopping
            /\ pods'[q].phase = IF q \in G THEN "Terminating" ELSE pods[q].phase
      BY <2>1 DEF PodObj
    <2>4. \A q \in Pods :
            /\ pods'[q].phase = "none" <=> pods[q].phase = "none"
            /\ pods[q].phase = "Terminating" => pods'[q].phase = "Terminating"
      BY <2>2, <2>3
    <2>5. CASE ~saved
      <3>1. cnset' = cnset
        BY <2>1, <2>5
      <3>2. Running'
        BY <1>1, <1>2, <2>3, <2>4, <3>1, PhasesMove
      <3>3. OnlyFirst'
        BY <1>1, <1>2, <3>1, OnlyFirstStays
      <3> QED BY <3>2, <3>3 DEF Decided
    <2>6. CASE saved
      <3>1. c \in CNSetObj
        <4>1. NoCNSet \in CNSetObj
          BY CNSetAssumption, PodsCounted DEF NoCNSet, CNSetObj, Templates
        <4>2. worker.p \in PoolObj
          BY <1>1 DEF Snapshot
        <4>3. buildCNSet(worker.p) \in CNSetObj
          BY <4>1, <4>2 DEF buildCNSet, syncCNSetSpec, CNSetObj, PoolObj, May
        <4> QED BY <4>3, <1>3
      <3>2. /\ c.st = "live" /\ c.selector = Own.selector
            /\ c.replicas = Own.replicas /\ c.del = Own.del
        <4>1. CASE Own.st = "none"
          <5>1. Own = NoCNSet
            BY <4>1, <1>2 DEF Running, Lifetimes
          <5> QED BY <4>1, <5>1 DEF buildCNSet, syncCNSetSpec, NoCNSet
        <4>2. CASE Own.st # "none"
          BY <4>2, <1>2, <1>3 DEF CNSetObj
        <4> QED BY <4>1, <4>2
      <3> HIDE DEF c
      <3>3. /\ Own'.st = "live" /\ Own'.selector = Own.selector
            /\ Own'.replicas = Replicas(Own.replicas, G)
            /\ Own'.del = terminatingPods \cup G
        BY <2>1, <2>6, <1>3, <3>1, <3>2 DEF Own, syncCNSetSpec, CNSetObj
      <3>4. Clones' = Clones /\ OfSet(First)' = OfSet(First) /\ Staying' = Staying
        BY <1>1, <2>3, <2>4 DEF Clones, OfSet, Staying, Exists
      <3>5. OnlyFirst'
        <4>1. \A s \in Sets \ {First} : cnset'[s] = cnset[s]
          BY <2>1, <2>6
        <4> QED BY <4>1, <1>1, <1>2 DEF OnlyFirst
      <3>6. Lifetimes'
        BY <1>1, <1>2, <3>3, <3>4 DEF Running, Lifetimes
      <3>7. \A p \in terminatingPods : p \in Pods /\ worker.seen[p] = "Terminating"
        BY DEF terminatingPods, SeenIn
      <3>8. OfSet(First) \cap Own.del \subseteq terminatingPods
        BY <1>1, <1>2, <1>3 DEF Running, Seen, terminatingPods, SeenIn
      <3>9. Condemned'
        <4>1. ASSUME NEW p \in terminatingPods \cup G \cup Clones.del, pods'[p].phase # "none"
              PROVE  pods'[p].phase = "Terminating"
          <5>1. CASE p \in G
            BY <5>1, <2>2, <2>3
          <5>2. CASE p \in terminatingPods
            BY <5>2, <4>1, <3>7, <2>4, <1>1, <1>2 DEF Running, Seen, Exists
          <5>3. CASE p \in Clones.del
            <6>1. p \in Pods
              BY <5>3, <1>3 DEF CloneSetObj
            <6> QED BY <5>3, <6>1, <4>1, <2>4, <1>2 DEF Running, Condemned, Exists
          <5> QED BY <4>1, <5>1, <5>2, <5>3
        <4>2. ASSUME NEW p \in OfSet(First), p \in Clones.del \/ pods'[p].stopping
              PROVE  p \in terminatingPods
          <5>1. p \in Own.del
            BY <4>2, <1>2, <1>3, <2>3 DEF Running, Condemned
          <5> QED BY <5>1, <3>8
        <4>3. terminatingPods \cup G # {} => Own.selector
          BY <1>1, <1>2, <2>2, <3>7 DEF Running, Seen
        <4> QED BY <3>3, <3>4, <4>1, <4>2, <4>3 DEF Condemned, Exists
      <3>10. Room'
        <4> DEFINE before == Staying \ Own.del
                   after == Staying \ Own'.del
        <4>1. G \subseteq before
          BY <1>1, <1>2, <2>2 DEF Running, Seen, Condemned, Staying, OfSet, Exists
        <4>2. after \subseteq before \ G
          BY <3>3, <3>8 DEF Staying
        <4>3. IsFiniteSet(before) /\ IsFiniteSet(G) /\ IsFiniteSet(before \ G)
          BY <1>3, <4>1, CNSetAssumption, FS_Subset
        <4>4. Cardinality(before \ G) = Cardinality(before) - Cardinality(G)
          <5>1. before \cap G = G
            BY <4>1
          <5> QED BY <5>1, <4>3, FS_Difference
        <4>5. Cardinality(after) <= Cardinality(before \ G)
          BY <4>2, <4>3, FS_Subset
        <4>6. /\ Cardinality(after) \in Nat /\ Cardinality(before) \in Nat /\ Cardinality(G) \in Nat
              /\ Cardinality(Staying \ Clones.del) \in Nat /\ Cardinality(before \ G) \in Nat
          <5>1. /\ after \in SUBSET Pods /\ before \in SUBSET Pods /\ G \in SUBSET Pods
                /\ Staying \ Clones.del \in SUBSET Pods /\ before \ G \in SUBSET Pods
            BY <1>3, <4>1
          <5> QED BY <5>1, PodsCounted
        <4> HIDE DEF before, after, G
        <4>7. Own'.replicas \in Nat /\ Own'.replicas >= Own.replicas - Cardinality(G)
          <5>1. desiredReplicas \in Nat /\ worker.pending \in Nat
            BY <1>1, Counts DEF Snapshot
          <5> QED BY <5>1, <3>3, <1>3, <4>6 DEF Replicas, Max2
        <4>8. SUFFICES ASSUME Clones.st = "live"
              PROVE  /\ Cardinality(Staying \ Clones.del) <= Clones.replicas
                     /\ Cardinality(after) + Clones.replicas
                          <= Own'.replicas + Cardinality(Staying \ Clones.del)
          BY <3>4 DEF Room, after
        <4>9. /\ Cardinality(Staying \ Clones.del) <= Clones.replicas
              /\ Cardinality(before) + Clones.replicas
                   <= Own.replicas + Cardinality(Staying \ Clones.del)
          BY <1>2, <4>8 DEF Running, Room, before
        <4> QED BY <1>3, <4>4, <4>5, <4>6, <4>7, <4>9
      <3>11. Seen'
        BY <1>1 DEF Seen
      <3> QED BY <3>5, <3>6, <3>9, <3>10, <3>11 DEF Decided, Running
    <2> QED BY <2>5, <2>6
  <1> QED BY <1>4, <1>5

(* Users, a restart, and the end of the pool. *)
LEMMA UsersDecided ==
  ASSUME LifeInv, LifeInv', Steady, Decided, Users \/ Restart \/ FinalizePool
  PROVE  Decided'
  <1> USE DEF LifeInv, PoolInv, TypeOK, CNSetTypeOK
  <1>1. UNCHANGED <<cs, pods>>
    BY DEF Users, NewClaim, DeleteClaim, ChangePool, ChangeDeps, Restart, FinalizePool
  <1>2. Own \in CNSetObj /\ First \in Sets
    BY FirstTyped
  <1>3. ASSUME UNCHANGED cnset, pool'.st = pool.st \/ pool'.st # "live", pool'.rev = pool.rev,
               worker' = worker \/ worker' = NONE
        PROVE  Decided'
    <2>1. OnlyFirst'
      BY <1>1, <1>3, OnlyFirstStays DEF Decided
    <2>2. CASE Over
      BY <1>1, <1>3, <2>1, <2>2, OverStays DEF Decided, Over
    <2>3. CASE Running
      BY <1>1, <1>3, <2>1, <2>3, PhasesMove DEF Decided
    <2> QED BY <2>2, <2>3 DEF Decided
  <1>4. ASSUME NEW c \in Claims, NewClaim(c) \/ DeleteClaim(c)
        PROVE  Decided'
    BY <1>3, <1>4 DEF NewClaim, DeleteClaim
  <1>5. CASE ChangePool
    <2>1. UNCHANGED <<cnset, worker>> /\ pool'.rev = pool.rev /\ (pool'.st = pool.st \/ pool'.st # "live")
      BY <1>5 DEF ChangePool, Steady, PoolObj
    <2> QED BY <1>3, <2>1
  <1>6. ASSUME NEW s \in Sets, ChangeDeps(s)
        PROVE  Decided'
    <2>1. s = First /\ Own.st = "live" /\ UNCHANGED <<pool, worker>>
      BY <1>6 DEF ChangeDeps, Decided, OnlyFirst, Own
    <2>2. /\ Own'.st = "live" /\ Own'.selector = Own.selector
          /\ Own'.replicas = Own.replicas /\ Own'.del = Own.del
      BY <1>2, <1>6, <2>1 DEF ChangeDeps, Own, CNSetObj
    <2>3. Clones' = Clones /\ OfSet(First)' = OfSet(First) /\ Staying' = Staying
      BY <1>1 DEF Clones, OfSet, Staying, Exists
    <2>4. Running'
      BY <1>1, <2>1, <2>2, <2>3 DEF Decided, Over, Running, Lifetimes, Condemned, Seen, Room, Exists
    <2>5. OnlyFirst'
      BY <1>1, <1>6, <2>1 DEF ChangeDeps, Decided, OnlyFirst
    <2> QED BY <2>4, <2>5 DEF Decided
  <1>7. CASE Restart
    BY <1>3, <1>7 DEF Restart
  <1>8. CASE FinalizePool
    <2>1. pool.st = "deleting" /\ worker = NONE /\ UNCHANGED worker
      BY <1>8 DEF FinalizePool
    <2>2. CASE OwnedSets = {}
      <3>1. UNCHANGED cnset /\ pool'.st = "gone" /\ pool'.rev = pool.rev
        BY <1>8, <2>2 DEF FinalizePool, PoolObj
      <3> QED BY <1>3, <2>1, <3>1
    <2>3. CASE OwnedSets # {}
      <3>1. OwnedSets = {First} /\ Own.st # "none"
        BY <2>3, <1>2 DEF OwnedSets, Decided, OnlyFirst, Own
      <3>2. /\ UNCHANGED pool
            /\ Own' = [Own EXCEPT !.st = "deleting"]
            /\ \A s \in Sets \ {First} : cnset'[s] = cnset[s]
        BY <1>2, <1>8, <2>3, <3>1 DEF FinalizePool, Own
      <3>3. /\ Own'.st = "deleting" /\ Own'.selector = Own.selector
            /\ Own'.replicas = Own.replicas /\ Own'.del = Own.del
        BY <1>2, <3>2 DEF CNSetObj
      <3>4. Clones' = Clones /\ OfSet(First)' = OfSet(First) /\ Staying' = Staying
        BY <1>1 DEF Clones, OfSet, Staying, Exists
      <3>5. Running'
        BY <1>1, <2>1, <3>1, <3>2, <3>3, <3>4
           DEF Decided, Over, Running, Lifetimes, Condemned, Seen, Room, Exists
      <3>6. OnlyFirst'
        BY <1>1, <2>1, <3>2 DEF Decided, OnlyFirst
      <3> QED BY <3>5, <3>6 DEF Decided
    <2> QED BY <2>2, <2>3
  <1> QED BY <1>4, <1>5, <1>6, <1>7, <1>8 DEF Users

(* What may happen in a behaviour is settled at its start. *)
LEMMA MayStays ==
  ASSUME LifeInv, [Next]_vars
  PROVE  env'.may = env.may
  <1>1. env' = env \/ env' = [env EXCEPT !.changes = @ + 1]
    BY DEF Next, PoolSteps, OtherSteps, Users, SyncRead, SyncWrite, FinalizePool, SetController, Kruise,
           Register, ReadUnknown, PatchIdle, Recycle, RemovePod, ReleaseClaim, BindPod, NewClaim,
           DeleteClaim, ChangePool, ChangeDeps, Change, Restart, EvictPod, vars
  <1> QED BY <1>1 DEF LifeInv, PoolInv, TypeOK

LEMMA DecideInductive == DecideInv /\ [Next]_vars => DecideInv'
  <1> SUFFICES ASSUME DecideInv, [Next]_vars PROVE DecideInv'
    OBVIOUS
  <1>1. LifeInv /\ LifeInv'
    BY LifeInductive DEF DecideInv
  <1>2. Steady' => Steady
    BY <1>1, MayStays DEF Steady, May
  <1>3. SUFFICES ASSUME Steady, Decided PROVE Decided'
    BY <1>1, <1>2 DEF DecideInv
  <1>4. CASE PoolSteps
    BY <1>1, <1>3, <1>4, SyncReadDecided, SyncWriteDecided, UsersDecided DEF PoolSteps
  <1>5. CASE OtherSteps
    <2>1. ASSUME NEW s \in Sets, SetController(s)
          PROVE  Decided'
      BY <1>1, <1>3, <2>1, SetControllerDecided
    <2>2. CASE Kruise
      BY <1>1, <1>3, <2>2, KruiseDecided
    <2>3. ASSUME NEW p \in Pods, Register(p) \/ ReadUnknown(p) \/ PatchIdle(p) \/ Recycle(p)
          PROVE  Decided'
      BY <1>1, <1>3, <2>3, PodStepDecided
    <2>4. ASSUME NEW p \in Pods, RemovePod(p)
          PROVE  Decided'
      BY <1>1, <1>3, <2>4, RemoveDecided
    <2>5. ASSUME NEW p \in Pods, NEW c \in Claims, BindPod(c, p)
          PROVE  Decided'
      BY <1>1, <1>3, <2>5, PodStepDecided
    <2>6. ASSUME NEW c \in Claims, ReleaseClaim(c)
          PROVE  Decided'
      BY <1>1, <1>3, <2>6, ReleaseDecided
    <2> QED BY <1>5, <2>1, <2>2, <2>3, <2>4, <2>5, <2>6 DEF OtherSteps
  <1>6. CASE Users \/ Restart
    BY <1>1, <1>3, <1>6, UsersDecided
  <1>7. ASSUME NEW p \in Pods, EvictPod(p)
        PROVE  Decided'
    BY <1>1, <1>3, <1>7, PodStepDecided
  <1>8. CASE UNCHANGED vars
    BY <1>3, <1>8 DEF vars, Decided, OnlyFirst, Over, Running, Lifetimes, Condemned, Seen, Room,
                      Own, Clones, Staying, OfSet, Exists
  <1> QED BY <1>4, <1>5, <1>6, <1>7, <1>8 DEF Next

LEMMA InitDecides == Init => DecideInv
  <1> SUFFICES ASSUME Init PROVE DecideInv
    OBVIOUS
  <1>1. LifeInv
    BY InitLife
  <1>2. /\ First \in Sets /\ pool.rev = First /\ worker = NONE
        /\ \A s \in Sets : cnset[s] = NoCNSet /\ cs[setName(s)] = NoCloneSet
    <2>1. First \in Sets
      BY CNPoolAssumption
    <2> QED BY <2>1 DEF Init
  <1>3. OfSet(First) = {}
    <2>1. \A p \in Pods : pods[p].phase = "none" \/ pods[p].direct
      BY DEF Init, NoPod
    <2> QED BY <2>1 DEF OfSet, Exists
  <1>4. Own = NoCNSet /\ Clones = NoCloneSet
    BY <1>2 DEF Own, Clones
  <1>5. OnlyFirst
    BY <1>2 DEF OnlyFirst, NoCNSet, NoCloneSet
  <1>6. Running
    BY <1>2, <1>3, <1>4 DEF Running, Lifetimes, Condemned, Seen, Room, NoCNSet, NoCloneSet
  <1> QED BY <1>1, <1>5, <1>6 DEF DecideInv, Decided

(* As long as the template of the pool stays as it is and registrations are patched
   in time, kruise never has to choose a pod of its own, whatever claims, crashes,
   evictions and changes of maxIdle come between: a CloneSet never has more pods
   than replicas other than those it has been told to delete
   (src/pkg/controllers/cnpool/pooling.go:125). *)
THEOREM PoolAlwaysDecides == Spec => []PoolDecides
  <1>1. DecideInv => PoolDecides
    <2> SUFFICES ASSUME DecideInv, NEW s \in Sets, cs[setName(s)].st = "live", Steady
                 PROVE  Cardinality(Active(s)) <= cs[setName(s)].replicas
      BY DEF PoolDecides, Steady
    <2>1. Decided /\ PoolInv
      BY DEF DecideInv, LifeInv
    <2>2. s = First
      BY <2>1 DEF Decided, OnlyFirst
    <2>3. Running
      BY <2>1, <2>2 DEF Decided, Over, Clones
    <2>4. Active(First) = Staying \ Clones.del
      BY DEF Active, Staying, Clones
    <2> QED BY <2>2, <2>3, <2>4 DEF Running, Room, Clones
  <1> QED BY <1>1, InitDecides, DecideInductive, PTL DEF Spec
=============================================================================
