-------------------------- MODULE CNClaimSetProofs --------------------------
(***************************************************************************)
(* The CNClaimSet controller, for any number of claims and replicas and    *)
(* any cache lag: the counts that scale computes from cached claims stay   *)
(* within what there is to count, and as long as the status counts what    *)
(* there is, claims are made and deleted once, however old the cache is.   *)
(***************************************************************************)
EXTENDS CNClaimSet, ObjectStoreProofs, FiniteSetTheorems

-----------------------------------------------------------------------------
(* Counting claims *)

LEMMA CountIds ==
  ASSUME NEW S \in SUBSET Ids
  PROVE  /\ IsFiniteSet(S)
         /\ Cardinality(S) \in 0 .. MaxClaims
         /\ \A T \in SUBSET S : Cardinality(T) \in 0 .. Cardinality(S)
  <1>1. IsFiniteSet(Ids) /\ Cardinality(Ids) = MaxClaims
    BY ClaimSetAssumption, FS_Interval DEF Ids
  <1>2. IsFiniteSet(S) /\ Cardinality(S) <= MaxClaims
    BY <1>1, FS_Subset
  <1>3. Cardinality(S) \in Nat
    BY <1>2, FS_CardinalityType
  <1>4. ASSUME NEW T \in SUBSET S
        PROVE  Cardinality(T) \in 0 .. Cardinality(S)
    <2>1. IsFiniteSet(T) /\ Cardinality(T) <= Cardinality(S)
      BY <1>2, FS_Subset
    <2>2. Cardinality(T) \in Nat
      BY <2>1, FS_CardinalityType
    <2> QED BY <1>3, <2>1, <2>2
  <1> QED BY <1>2, <1>3, <1>4, ClaimSetAssumption

LEMMA ListsIds ==
  ASSUME NEW list
  PROVE  owned(list) \in SUBSET Ids /\ lost(list) \in SUBSET Ids
  BY DEF owned, lost

LEMMA ObjectsTyped ==
  /\ NoClaim \in ClaimObj /\ makeClaim \in ClaimObj /\ FirstClaim \in ClaimObj /\ Deleting \in ClaimObj
  /\ Blank \in [Ids -> ClaimObj]
  /\ Resting \in Worker
  <1>1. NoClaim \in ClaimObj
    BY DEF NoClaim, ClaimObj, Phases
  <1>2. makeClaim \in ClaimObj /\ FirstClaim \in ClaimObj /\ Deleting \in ClaimObj
    BY DEF NoClaim, makeClaim, FirstClaim, Deleting, ClaimObj, Phases
  <1>3. Blank \in [Ids -> ClaimObj]
    BY <1>1 DEF Blank
  <1>4. 0 \in 0 .. MaxReplicas /\ 0 \in 0 .. MaxClaims
    BY ClaimSetAssumption
  <1> QED BY <1>1, <1>2, <1>3, <1>4 DEF Resting, Worker

LEMMA ReadsTyped ==
  ASSUME TypeOK
  PROVE  /\ Set \in SetObj /\ Cached(set) \in SetObj
         /\ \A i \in Ids : Claim(i) \in ClaimObj
         /\ CachedClaims \in [Ids -> ClaimObj] /\ ActualClaims \in [Ids -> ClaimObj]
  <1>1. Set \in SetObj /\ Cached(set) \in SetObj
    BY LogEnds DEF TypeOK, Set
  <1>2. ASSUME NEW i \in Ids
        PROVE  Claim(i) \in ClaimObj /\ Cached(claims[i]) \in ClaimObj
    <2>1. claims[i] \in Logs(ClaimObj)
      BY DEF TypeOK
    <2> QED BY <2>1, LogEnds DEF Claim
  <1> QED BY <1>1, <1>2 DEF CachedClaims, ActualClaims

-----------------------------------------------------------------------------
(* Writes *)

LEMMA WriteClaimTyped ==
  ASSUME TypeOK, NEW i \in Ids, NEW v \in ClaimObj, WriteClaim(i, v)
  PROVE  claims' \in [Ids -> Logs(ClaimObj)]
  <1>1. claims \in [Ids -> Logs(ClaimObj)] /\ claims[i] \in Logs(ClaimObj)
    BY DEF TypeOK
  <1>2. Write(claims[i], v) \in Logs(ClaimObj)
    BY <1>1, WriteLog
  <1> QED BY <1>1, <1>2 DEF WriteClaim

LEMMA DeleteTyped ==
  ASSUME TypeOK, NEW i \in Ids, Delete(i)
  PROVE  claims' \in [Ids -> Logs(ClaimObj)]
  BY WriteClaimTyped, ObjectsTyped DEF Delete, TypeOK

LEMMA WriteSetTyped ==
  ASSUME TypeOK, NEW v \in SetObj, WriteSet(v)
  PROVE  set' \in Logs(SetObj)
  <1>1. Write(set, v) \in Logs(SetObj) /\ <<v>> \in Logs(SetObj)
    BY WriteLog, FreshLog DEF TypeOK
  <1> QED BY <1>1 DEF WriteSet

-----------------------------------------------------------------------------
(* The worker *)

LEMMA SyncTyped ==
  ASSUME TypeOK, Sync \/ CheckCache
  PROVE  w' \in Worker
  <1>1. CASE Sync
    <2>1. CachedClaims \in [Ids -> ClaimObj] /\ Cached(set).replicas \in 0 .. MaxReplicas
      BY ReadsTyped DEF SetObj
    <2>2. Resting \in Worker /\ UpToDate(set) \in BOOLEAN
      BY ObjectsTyped DEF UpToDate
    <2> QED BY <1>1, <2>1, <2>2 DEF Sync, Worker
  <1>2. CASE CheckCache
    BY <1>2, ObjectsTyped DEF CheckCache, Return, TypeOK, Worker
  <1> QED BY <1>1, <1>2

(* scale counts no more claims than there are, and asks for no more than
   one above the replicas. *)
LEMMA ScaleTyped ==
  ASSUME TypeOK, scale
  PROVE  w' \in Worker
  <1> DEFINE current == Cardinality(owned(w.oc))
             ready == {i \in owned(w.oc) : IsReady(w.oc[i])}
             updated == {i \in ready : IsUpdated(w.oc[i])}
             want == IF Cardinality(ready) >= w.replicas /\ Cardinality(updated) < w.replicas
                     THEN w.replicas + 1 ELSE w.replicas
             clean == {i \in lost(w.oc) : w.oc[i].st = "live"}
             new == IF want > current THEN want - current ELSE 0
  <1>1. w \in Worker /\ w.replicas \in 0 .. MaxReplicas /\ w.oc \in [Ids -> ClaimObj]
    BY DEF TypeOK, Worker
  <1>2. owned(w.oc) \in SUBSET Ids /\ clean \in SUBSET Ids
    BY ListsIds
  <1>3. current \in 0 .. MaxClaims
    BY <1>2, CountIds
  <1>4. want \in 0 .. MaxReplicas + 1 /\ MaxReplicas + 1 <= MaxClaims
    BY <1>1, ClaimSetAssumption
  <1>5. new \in 0 .. MaxClaims /\ current + new \in 0 .. MaxClaims
    <2> HIDE DEF want, current
    <2> QED BY <1>3, <1>4, ClaimSetAssumption
  <1>6. ASSUME NEW S \in scaleIn(current - w.replicas),
               w' = [w EXCEPT !.pc = "calls", !.del = S, !.lost = clean,
                              !.n = current - Cardinality(S),
                              !.oc = [i \in Ids |-> IF i \in S THEN @[i] ELSE NoClaim]]
        PROVE  w' \in Worker
    <2>1. S \in SUBSET owned(w.oc)
      BY <1>6 DEF scaleIn
    <2>2. Cardinality(S) \in 0 .. current
      BY <1>2, <2>1, CountIds
    <2>3. current - Cardinality(S) \in 0 .. MaxClaims
      <3> HIDE DEF current
      <3> QED BY <1>3, <2>2, ClaimSetAssumption
    <2>4. [i \in Ids |-> IF i \in S THEN w.oc[i] ELSE NoClaim] \in [Ids -> ClaimObj]
      BY <1>1, ObjectsTyped
    <2>5. S \in SUBSET Ids
      BY <1>2, <2>1
    <2> HIDE DEF current, clean
    <2> QED BY <1>1, <1>2, <1>6, <2>3, <2>4, <2>5 DEF Worker
  <1>7. CASE w' = [w EXCEPT !.pc = "calls", !.new = new, !.lost = clean, !.n = current + new, !.oc = Blank]
    <2> HIDE DEF current, clean, new
    <2> QED BY <1>1, <1>2, <1>5, <1>7, ObjectsTyped DEF Worker
  <1>8. \/ \E S \in scaleIn(current - w.replicas) :
              w' = [w EXCEPT !.pc = "calls", !.del = S, !.lost = clean,
                             !.n = current - Cardinality(S),
                             !.oc = [i \in Ids |-> IF i \in S THEN @[i] ELSE NoClaim]]
        \/ w' = [w EXCEPT !.pc = "calls", !.new = new, !.lost = clean, !.n = current + new, !.oc = Blank]
    BY DEF scale
  <1> QED BY <1>6, <1>7, <1>8

LEMMA ReconcileTyped ==
  ASSUME TypeOK, Reconcile
  PROVE  TypeOK'
  <1>0. w \in Worker /\ set \in Logs(SetObj) /\ claims \in [Ids -> Logs(ClaimObj)] /\ Resting \in Worker
    BY ObjectsTyped DEF TypeOK
  <1> USE DEF TypeOK
  <1>1. CASE Sync \/ CheckCache
    <2>1. UNCHANGED <<set, claims, env>> /\ counted' \in BOOLEAN
      BY <1>1 DEF Sync, CheckCache, InSync, UpToDate
    <2> QED BY <1>1, <2>1, SyncTyped
  <1>2. CASE scale
    <2>1. UNCHANGED <<set, claims, env, counted>>
      BY <1>2 DEF scale
    <2> QED BY <1>2, <2>1, ScaleTyped
  <1>3. CASE NoIdLeft \/ PurgeDone
    BY <1>0, <1>3 DEF NoIdLeft, PurgeDone, Return
  <1>4. CASE UpdateStatus
    <2>1. [Set EXCEPT !.status = w.n] \in SetObj
      BY <1>0, ReadsTyped DEF SetObj, Worker
    <2>2. set' \in Logs(SetObj)
      BY <1>4, <2>1, WriteSetTyped DEF UpdateStatus
    <2>3. w' = Resting /\ counted' \in BOOLEAN /\ UNCHANGED <<claims, env>>
      BY <1>0, <1>4 DEF UpdateStatus, Return, Worker
    <2> QED BY <1>0, <2>2, <2>3
  <1>5. CASE Finalize
    <2>1. owned(CachedClaims) \cup lost(CachedClaims) \in SUBSET Ids
      BY ListsIds
    <2>2. w' \in Worker
      BY <1>0, <1>5, <2>1 DEF Finalize, Worker
    <2> QED BY <1>5, <2>2 DEF Finalize
  <1>6. CASE RemoveFinalizer
    <2>1. [Set EXCEPT !.st = "gone"] \in SetObj
      BY ReadsTyped DEF SetObj
    <2>2. set' \in Logs(SetObj)
      BY <1>6, <2>1, WriteSetTyped DEF RemoveFinalizer
    <2> QED BY <1>0, <1>6, <2>2 DEF RemoveFinalizer, Return
  <1>7. ASSUME NEW i \in Ids, DeleteSurplus(i) \/ CleanClaim(i) \/ PurgeClaim(i)
        PROVE  TypeOK'
    <2>1. Delete(i) /\ UNCHANGED <<set, env, counted>>
      BY <1>7 DEF DeleteSurplus, CleanClaim, PurgeClaim
    <2>2. w' \in Worker
      BY <1>0, <1>7 DEF DeleteSurplus, CleanClaim, PurgeClaim, Worker
    <2>3. claims' \in [Ids -> Logs(ClaimObj)]
      BY <2>1, DeleteTyped
    <2> QED BY <2>1, <2>2, <2>3
  <1>8. ASSUME NEW i \in Ids, CreateOwned(i)
        PROVE  TypeOK'
    <2>1. w' \in Worker
      BY <1>0, <1>8, ClaimSetAssumption DEF CreateOwned, Worker
    <2>2. claims' \in [Ids -> Logs(ClaimObj)]
      BY <1>8, WriteClaimTyped, ObjectsTyped DEF CreateOwned
    <2> QED BY <1>8, <2>1, <2>2 DEF CreateOwned
  <1> QED BY <1>1, <1>2, <1>3, <1>4, <1>5, <1>6, <1>7, <1>8 DEF Reconcile

-----------------------------------------------------------------------------
(* The others *)

LEMMA Behind ==
  ASSUME NEW T, NEW log \in Logs(T), ~UpToDate(log)
  PROVE  Len(log) > 1 /\ Tail(log) \in Logs(T)
  <1>1. Len(log) > 1
    BY MaxLagAssumption DEF Logs, UpToDate
  <1> QED BY <1>1, DeliverLog

LEMMA EnvironmentTyped ==
  ASSUME TypeOK, Environment
  PROVE  TypeOK'
  <1>0. w \in Worker /\ set \in Logs(SetObj) /\ claims \in [Ids -> Logs(ClaimObj)] /\ Resting \in Worker
    BY ObjectsTyped DEF TypeOK
  <1> USE DEF TypeOK
  <1>1. ASSUME NEW i \in Ids, NEW v \in ClaimObj, ChangeClaim(i, v)
        PROVE  TypeOK'
    <2>1. claims' \in [Ids -> Logs(ClaimObj)]
      BY <1>1, WriteClaimTyped DEF ChangeClaim
    <2> QED BY <1>1, <2>1 DEF ChangeClaim
  <1>2. ASSUME NEW i \in Ids,
               \/ BindPod(i) \/ Outdate(i) \/ PodLost(i)
               \/ Migrate(i) \/ ClaimGone(i) \/ CollectClaim(i)
        PROVE  TypeOK'
    <2>1. Claim(i) \in ClaimObj
      BY ReadsTyped
    <2>2. /\ [Claim(i) EXCEPT !.pod = TRUE, !.phase = "Bound"] \in ClaimObj
          /\ [Claim(i) EXCEPT !.phase = "Outdated"] \in ClaimObj
          /\ [Claim(i) EXCEPT !.pod = FALSE] \in ClaimObj
          /\ [Claim(i) EXCEPT !.source = ~@] \in ClaimObj
      BY <2>1 DEF ClaimObj, Phases
    <2>3. \E v \in ClaimObj : ChangeClaim(i, v)
      BY <1>2, <2>2, ObjectsTyped DEF BindPod, Outdate, PodLost, Migrate, ClaimGone, CollectClaim
    <2> QED BY <1>1, <2>3
  <1>3. ASSUME NEW i \in Ids, DeliverClaim(i)
        PROVE  TypeOK'
    <2>1. Tail(claims[i]) \in Logs(ClaimObj)
      BY <1>0, <1>3, Behind DEF DeliverClaim
    <2> QED BY <1>0, <1>3, <2>1 DEF DeliverClaim
  <1>4. CASE DeliverSet
    <2>1. Tail(set) \in Logs(SetObj)
      BY <1>0, <1>4, Behind DEF DeliverSet
    <2> QED BY <1>4, <2>1 DEF DeliverSet
  <1>5. ASSUME NEW v \in SetObj, v.generation = Set.generation, ChangeSet(v)
        PROVE  TypeOK'
    <2>1. Set.generation + 1 \in 0 .. MaxChanges
      BY <1>5, ReadsTyped, ClaimSetAssumption DEF ChangeSet, SetObj
    <2>2. [v EXCEPT !.generation = @ + 1] \in SetObj
      BY <1>5, <2>1 DEF SetObj
    <2>3. set' \in Logs(SetObj)
      BY <1>5, <2>2, WriteSetTyped DEF ChangeSet
    <2>4. w' \in Worker
      BY <1>0, <1>5 DEF ChangeSet, Worker
    <2> QED BY <1>5, <2>3, <2>4 DEF ChangeSet
  <1>6. ASSUME NEW n \in 0 .. MaxReplicas, Rescale(n)
        PROVE  TypeOK'
    <2>1. /\ [Set EXCEPT !.replicas = n] \in SetObj
          /\ [Set EXCEPT !.replicas = n].generation = Set.generation
      BY ReadsTyped DEF SetObj
    <2> QED BY <1>5, <1>6, <2>1 DEF Rescale
  <1>7. CASE DeleteSet
    <2>1. /\ [Set EXCEPT !.st = "deleting"] \in SetObj
          /\ [Set EXCEPT !.st = "deleting"].generation = Set.generation
      BY ReadsTyped DEF SetObj
    <2> QED BY <1>5, <1>7, <2>1 DEF DeleteSet
  <1>8. CASE Fail /\ UNCHANGED <<set, claims>> /\ counted' = FALSE
    <2>1. env' \in [may : Disruptions, failures : 0 .. MaxFailures]
      BY <1>8, ClaimSetAssumption DEF Fail
    <2> QED BY <1>0, <1>8, <2>1 DEF Fail, Return
  <1>9. CASE Restart
    <2>1. <<Set>> \in Logs(SetObj)
      BY ReadsTyped, FreshLog
    <2>2. \A i \in Ids : <<Claim(i)>> \in Logs(ClaimObj)
      BY ReadsTyped, FreshLog
    <2>3. env' \in [may : Disruptions, failures : 0 .. MaxFailures] /\ w' \in Worker
      BY <1>0, <1>9, ClaimSetAssumption DEF Restart, Fail, Return
    <2> QED BY <1>9, <2>1, <2>2, <2>3 DEF Restart
  <1>10. ASSUME NEW i \in Ids, ClaimLost(i)
         PROVE  TypeOK'
    <2>1. [Claim(i) EXCEPT !.phase = "Lost"] \in ClaimObj
      BY ReadsTyped DEF ClaimObj, Phases
    <2>2. claims' \in [Ids -> Logs(ClaimObj)]
      BY <1>10, <2>1, WriteClaimTyped DEF ClaimLost
    <2> QED BY <1>10, <2>2 DEF ClaimLost
  <1> QED BY <1>2, <1>3, <1>4, <1>6, <1>7, <1>8, <1>9, <1>10 DEF Environment, Abort

(* TypeOK: whatever the cache shows, scale keeps within the counts the
   status and the code's loops can hold
   (src/pkg/controllers/cnclaimset/controller.go:129-259). *)
THEOREM ClaimSetTypeCorrect == Spec => []TypeOK
  <1>1. Init => TypeOK
    <2> SUFFICES ASSUME Init PROVE TypeOK
      OBVIOUS
    <2>1. PICK n \in 0 .. MaxReplicas, m \in 0 .. MaxReplicas :
            /\ set = <<[st |-> "live", generation |-> 0, replicas |-> n, status |-> m]>>
            /\ claims = [i \in Ids |-> <<IF i <= m THEN FirstClaim ELSE NoClaim>>]
      <3>1. 0 \in 0 .. MaxReplicas
        BY ClaimSetAssumption
      <3> QED BY <3>1 DEF Init
    <2>2. m \in 0 .. MaxClaims /\ 0 \in 0 .. MaxChanges /\ 0 \in 0 .. MaxFailures
      BY ClaimSetAssumption
    <2>3. [st |-> "live", generation |-> 0, replicas |-> n, status |-> m] \in SetObj
      BY <2>2 DEF SetObj
    <2>4. set \in Logs(SetObj)
      BY <2>1, <2>3, FreshLog
    <2>5. claims \in [Ids -> Logs(ClaimObj)]
      BY <2>1, FreshLog, ObjectsTyped
    <2> QED BY <2>2, <2>4, <2>5, ObjectsTyped DEF Init, TypeOK
  <1>2. TypeOK /\ [Next]_vars => TypeOK'
    BY ReconcileTyped, EnvironmentTyped DEF Next, vars, TypeOK
  <1> QED BY <1>1, <1>2, PTL DEF Spec

-----------------------------------------------------------------------------
(* The versions of a claim *)

(* The claims that listOwnedClaims counts as owned. *)
Own(c) == c.st = "live" /\ c.phase # "Lost"

(* A claim that waits has no pod and does not migrate. *)
Good == {c \in ClaimObj : c.st = "live" /\ c.phase = "Pending" => ~c.pod /\ ~c.source}

(* A claim is owned only if it was before, and does not wait again. *)
Follows(a, b) == Own(b) => Own(a) /\ (IsReady(a) => IsReady(b))

(* The versions of a claim follow each other; only the cache may still be at
   the time before the claim was made. *)
ClaimLogs ==
  {log \in Logs(Good) : \A k, l \in 1 .. Len(log) :
      k <= l => Follows(log[k], log[l]) \/ (k = 1 /\ log[1].st = "none")}

OwnedNow(log) == Own(Latest(log))
OwnedInCache(log) == Own(Cached(log))
OwnedOnce(log) == \E k \in 1 .. Len(log) : Own(log[k])

(* The ways in which a log moves on: versions are added and the cache may get
   nearer. *)
MovesOn(log, new) ==
  /\ OwnedOnce(new) => OwnedOnce(log)
  /\ OwnedInCache(log) /\ OwnedOnce(new) => OwnedInCache(new)
  /\ OwnedNow(new) => OwnedNow(log) /\ (IsReady(Latest(log)) => IsReady(Latest(new)))

LEMMA ClaimLogEnds ==
  ASSUME NEW log \in ClaimLogs
  PROVE  /\ log \in Seq(Good) /\ Len(log) \in Nat \ {0} /\ log \in Logs(Good)
         /\ Latest(log) \in Good /\ Cached(log) \in Good
         /\ OwnedNow(log) \/ OwnedInCache(log) => OwnedOnce(log)
         /\ OwnedNow(log) /\ OwnedInCache(log) /\ IsReady(Cached(log)) => IsReady(Latest(log))
  <1>1. log \in Logs(Good)
    BY DEF ClaimLogs
  <1>2. log \in Seq(Good) /\ Len(log) \in Nat \ {0} /\ Latest(log) \in Good /\ Cached(log) \in Good
    BY <1>1, LogEnds
  <1>3. 1 \in 1 .. Len(log) /\ Len(log) \in 1 .. Len(log)
    BY <1>2
  <1>4. OwnedNow(log) \/ OwnedInCache(log) => OwnedOnce(log)
    BY <1>3 DEF OwnedNow, OwnedInCache, OwnedOnce, Latest, Cached
  <1>5. Follows(log[1], log[Len(log)]) \/ log[1].st = "none"
    BY <1>2, <1>3 DEF ClaimLogs
  <1> QED BY <1>1, <1>2, <1>4, <1>5 DEF OwnedNow, OwnedInCache, Latest, Cached, Follows, Own

LEMMA NoClaimGood == NoClaim \in Good /\ makeClaim \in Good /\ Deleting \in Good
  BY ObjectsTyped DEF Good, NoClaim, makeClaim, Deleting

LEMMA FreshClaimLog ==
  ASSUME NEW v \in Good
  PROVE  <<v>> \in ClaimLogs /\ Latest(<<v>>) = v /\ Cached(<<v>>) = v
         /\ (OwnedOnce(<<v>>) <=> Own(v))
  <1>1. <<v>> \in Logs(Good) /\ Latest(<<v>>) = v
    BY FreshLog
  <1>2. Follows(v, v)
    BY DEF Follows
  <1>3. \A k, l \in 1 .. Len(<<v>>) : Follows(<<v>>[k], <<v>>[l])
    BY <1>2
  <1> QED BY <1>1, <1>3 DEF ClaimLogs, Cached, OwnedOnce

(* A version that follows the latest is added to what is left of the log. *)
LEMMA AppendMovesOn ==
  ASSUME NEW log \in ClaimLogs, NEW v \in Good, Follows(Latest(log), v),
         NEW d \in {0, 1}, NEW new \in Logs(Good),
         Len(new) = Len(log) + 1 - d,
         \A k \in 1 .. Len(log) - d : new[k] = log[k + d],
         new[Len(log) + 1 - d] = v
  PROVE  new \in ClaimLogs /\ MovesOn(log, new)
  <1>0. /\ log \in Seq(Good) /\ Len(log) \in Nat \ {0} /\ Len(new) \in Nat \ {0}
        /\ d \in Int
    BY ClaimLogEnds, LogEnds
  <1> DEFINE N == Len(log)
  <1>1. \A k, l \in 1 .. N : k <= l => Follows(log[k], log[l]) \/ (k = 1 /\ log[1].st = "none")
    BY DEF ClaimLogs
  <1>2. \A k \in 1 .. N : Follows(log[k], v) \/ (k = 1 /\ log[1].st = "none")
    <2> SUFFICES ASSUME NEW k \in 1 .. N
                 PROVE  Follows(log[k], v) \/ (k = 1 /\ log[1].st = "none")
      OBVIOUS
    <2>1. Follows(log[k], log[N]) \/ (k = 1 /\ log[1].st = "none")
      BY <1>0, <1>1
    <2> QED BY <2>1 DEF Follows, Latest
  <1>3. ASSUME NEW k \in 1 .. Len(new), NEW l \in 1 .. Len(new), k <= l
        PROVE  Follows(new[k], new[l]) \/ (k = 1 /\ new[1].st = "none")
    <2>1. CASE l = N + 1 - d /\ k = l
      BY <2>1 DEF Follows
    <2>2. CASE l = N + 1 - d /\ k < l
      <3>1. k + d \in 1 .. N /\ k \in 1 .. N - d
        BY <1>0, <2>2
      <3>2. new[k] = log[k + d] /\ new[l] = v
        BY <2>2, <3>1
      <3>3. k + d = 1 => k = 1 /\ d = 0
        BY <1>0
      <3>4. Follows(log[k + d], v) \/ (k + d = 1 /\ log[1].st = "none")
        BY <1>2, <3>1
      <3> QED BY <3>2, <3>3, <3>4
    <2>3. CASE l # N + 1 - d
      <3>1. k + d \in 1 .. N /\ l + d \in 1 .. N /\ k \in 1 .. N - d /\ l \in 1 .. N - d /\ k + d <= l + d
        BY <1>0, <1>3, <2>3
      <3>2. new[k] = log[k + d] /\ new[l] = log[l + d]
        BY <3>1
      <3>3. k + d = 1 => k = 1 /\ d = 0
        BY <1>0
      <3>4. Follows(log[k + d], log[l + d]) \/ (k + d = 1 /\ log[1].st = "none")
        BY <1>1, <3>1
      <3> QED BY <3>2, <3>3, <3>4
    <2> QED BY <1>0, <2>1, <2>2, <2>3
  <1>4. new \in ClaimLogs
    BY <1>3 DEF ClaimLogs
  <1>5. Latest(new) = v
    BY <1>0 DEF Latest
  <1>6. OwnedNow(new) => OwnedNow(log) /\ (IsReady(Latest(log)) => IsReady(Latest(new)))
    BY <1>5 DEF OwnedNow, Follows
  <1>7. ASSUME NEW k \in 1 .. Len(new), Own(new[k])
        PROVE  \E l \in 1 .. N : Own(log[l]) /\ (l >= 1 + d \/ l = N)
    <2>1. CASE k = N + 1 - d
      <3>1. Own(v)
        BY <1>7, <2>1
      <3>2. Own(log[N]) /\ N \in 1 .. N
        BY <1>0, <3>1 DEF Follows, Latest
      <3> QED BY <3>2
    <2>2. CASE k # N + 1 - d
      <3>1. k + d \in 1 .. N /\ k \in 1 .. N - d /\ k + d >= 1 + d
        BY <1>0, <2>2
      <3> QED BY <1>7, <3>1
    <2> QED BY <2>1, <2>2
  <1>8. OwnedOnce(new) => OwnedOnce(log)
    BY <1>7 DEF OwnedOnce
  <1>9. ASSUME OwnedInCache(log), OwnedOnce(new)
        PROVE  OwnedInCache(new)
    <2>1. PICK k \in 1 .. Len(new) : Own(new[k])
      BY <1>9 DEF OwnedOnce
    <2>2. 1 \in 1 .. Len(new) /\ 1 <= k
      BY <1>0, <2>1
    <2>3. Follows(new[1], new[k]) \/ new[1].st = "none"
      BY <1>3, <2>2
    <2>4. CASE d = 0
      <3>1. new[1] = log[1]
        BY <1>0, <2>4
      <3> QED BY <1>9, <3>1 DEF OwnedInCache, Cached
    <2>5. CASE d = 1 /\ N = 1
      <3>1. k = 1 /\ Len(new) = 1
        BY <1>0, <2>5
      <3> QED BY <2>1, <3>1 DEF OwnedInCache, Cached
    <2>6. CASE d = 1 /\ N > 1
      <3>1. new[1] = log[2] /\ 2 \in 1 .. N /\ N \in 1 .. N
        BY <1>0, <2>6
      <3>2. PICK l \in 1 .. N : Own(log[l]) /\ (l >= 2 \/ l = N)
        BY <1>7, <2>1, <2>6
      <3>3. 2 <= l /\ Follows(log[2], log[l])
        BY <1>0, <1>1, <2>6, <3>1, <3>2
      <3> QED BY <3>1, <3>2, <3>3 DEF OwnedInCache, Cached, Follows
    <2>7. d = 0 \/ (d = 1 /\ N = 1) \/ (d = 1 /\ N > 1)
      <3>1. N \in Nat \ {0}
        BY <1>0
      <3> HIDE DEF N
      <3> QED BY <3>1
    <2> QED BY <2>4, <2>5, <2>6, <2>7
  <1> QED BY <1>4, <1>6, <1>8, <1>9 DEF MovesOn

(* What a write that follows the latest version does to the log. *)
LEMMA WriteMovesOn ==
  ASSUME NEW log \in ClaimLogs, NEW v \in Good, Follows(Latest(log), v)
  PROVE  Write(log, v) \in ClaimLogs /\ MovesOn(log, Write(log, v)) /\ Latest(Write(log, v)) = v
  <1>1. log \in Seq(Good) /\ Len(log) \in Nat \ {0} /\ log \in Logs(Good)
    BY ClaimLogEnds
  <1>2. Write(log, v) \in Logs(Good) /\ Latest(Write(log, v)) = v
    BY <1>1, WriteLog
  <1>3. CASE v = Latest(log)
    <2>1. Write(log, v) = log
      BY <1>3 DEF Write
    <2> QED BY <1>2, <2>1 DEF MovesOn
  <1>4. CASE v # Latest(log) /\ Len(log) > MaxLag
    <2>1. Write(log, v) = Append(Tail(log), v)
      BY <1>4 DEF Write
    <2> DEFINE new == Append(Tail(log), v)
    <2>2. /\ Len(new) = Len(log) + 1 - 1
          /\ \A k \in 1 .. Len(log) - 1 : new[k] = log[k + 1]
          /\ new[Len(log) + 1 - 1] = v
      BY <1>1
    <2> QED BY <1>2, <2>1, <2>2, AppendMovesOn
  <1>5. CASE v # Latest(log) /\ ~(Len(log) > MaxLag)
    <2>1. Write(log, v) = Append(log, v)
      BY <1>5 DEF Write
    <2> DEFINE new == Append(log, v)
    <2>2. /\ Len(new) = Len(log) + 1 - 0
          /\ \A k \in 1 .. Len(log) - 0 : new[k] = log[k + 0]
          /\ new[Len(log) + 1 - 0] = v
      BY <1>1
    <2> QED BY <1>2, <2>1, <2>2, AppendMovesOn
  <1> QED BY <1>3, <1>4, <1>5

(* ... and what the delivery of an event does. *)
LEMMA DeliverMovesOn ==
  ASSUME NEW log \in ClaimLogs, ~UpToDate(log)
  PROVE  Tail(log) \in ClaimLogs /\ MovesOn(log, Tail(log)) /\ Latest(Tail(log)) = Latest(log)
  <1>1. log \in Seq(Good) /\ Len(log) \in Nat \ {0} /\ log \in Logs(Good)
    BY ClaimLogEnds
  <1>2. Len(log) > 1
    BY <1>1, Behind
  <1>3. Tail(log) \in Logs(Good) /\ Latest(Tail(log)) = Latest(log)
    BY <1>1, <1>2, DeliverLog
  <1> DEFINE new == Tail(log)
  <1>4. Len(new) = Len(log) - 1 /\ \A k \in 1 .. Len(log) - 1 : new[k] = log[k + 1]
    BY <1>1
  <1>5. \A k, l \in 1 .. Len(log) : k <= l => Follows(log[k], log[l]) \/ (k = 1 /\ log[1].st = "none")
    BY DEF ClaimLogs
  <1>6. ASSUME NEW k \in 1 .. Len(new), NEW l \in 1 .. Len(new), k <= l
        PROVE  Follows(new[k], new[l])
    <2>1. k + 1 \in 1 .. Len(log) /\ l + 1 \in 1 .. Len(log) /\ k + 1 <= l + 1 /\ k + 1 # 1
      BY <1>1, <1>2, <1>4, <1>6
    <2>2. Follows(log[k + 1], log[l + 1])
      BY <1>5, <2>1
    <2> QED BY <1>1, <1>4, <2>2
  <1>7. new \in ClaimLogs
    BY <1>3, <1>6 DEF ClaimLogs
  <1>8. ASSUME NEW k \in 1 .. Len(new), Own(new[k])
        PROVE  OwnedOnce(log) /\ OwnedInCache(new)
    <2>1. k + 1 \in 1 .. Len(log) /\ new[k] = log[k + 1] /\ 1 \in 1 .. Len(new) /\ 1 <= k
      BY <1>1, <1>2, <1>4
    <2>2. Follows(new[1], new[k])
      BY <1>6, <2>1
    <2> QED BY <1>8, <2>1, <2>2 DEF OwnedOnce, OwnedInCache, Cached, Follows
  <1>9. MovesOn(log, new)
    BY <1>3, <1>8 DEF MovesOn, OwnedOnce, OwnedNow
  <1> QED BY <1>3, <1>7, <1>9

-----------------------------------------------------------------------------
(* The owned claims: now, in the cache, and in any version under way *)

Now   == owned(ActualClaims)
Shown == owned(CachedClaims)
Ever  == {i \in Ids : OwnedOnce(claims[i])}

Shaped == TypeOK /\ claims \in [Ids -> ClaimLogs] /\ w.oc \in [Ids -> Good]

(* The claims move on, and none is made. *)
AllMoveOn == /\ claims' \in [Ids -> ClaimLogs]
             /\ \A i \in Ids : MovesOn(claims[i], claims'[i])

LEMMA InSets ==
  /\ \A i \in Ids : /\ i \in Now <=> OwnedNow(claims[i])
                    /\ i \in Shown <=> OwnedInCache(claims[i])
                    /\ i \in Ever <=> OwnedOnce(claims[i])
  /\ Now \in SUBSET Ids /\ Shown \in SUBSET Ids /\ Ever \in SUBSET Ids
  BY DEF Now, Shown, Ever, owned, ActualClaims, CachedClaims, Claim, OwnedNow, OwnedInCache, Own

LEMMA InSetsNext ==
  /\ \A i \in Ids : /\ i \in Now' <=> OwnedNow(claims'[i])
                    /\ i \in Shown' <=> OwnedInCache(claims'[i])
                    /\ i \in Ever' <=> OwnedOnce(claims'[i])
  /\ Now' \in SUBSET Ids /\ Shown' \in SUBSET Ids /\ Ever' \in SUBSET Ids
  BY DEF Now, Shown, Ever, owned, ActualClaims, CachedClaims, Claim, OwnedNow, OwnedInCache, Own

LEMMA EverIsAll ==
  ASSUME claims \in [Ids -> ClaimLogs]
  PROVE  Now \subseteq Ever /\ Shown \subseteq Ever
  BY InSets, ClaimLogEnds

LEMMA EverIsAllNext ==
  ASSUME claims' \in [Ids -> ClaimLogs]
  PROVE  Now' \subseteq Ever' /\ Shown' \subseteq Ever'
  BY InSetsNext, ClaimLogEnds

LEMMA MovedSets ==
  ASSUME AllMoveOn
  PROVE  /\ Now' \subseteq Now /\ Ever' \subseteq Ever /\ Shown \cap Ever' \subseteq Shown'
         /\ Now' \subseteq Ever' /\ Shown' \subseteq Ever'
         /\ \A i \in Now' : IsReady(Claim(i)) => IsReady(Claim(i)')
  <1>1. Now' \subseteq Ever' /\ Shown' \subseteq Ever'
    BY EverIsAllNext DEF AllMoveOn
  <1>2. ASSUME NEW i \in Ids
        PROVE  /\ i \in Now' => i \in Now /\ (IsReady(Claim(i)) => IsReady(Claim(i)'))
               /\ i \in Ever' => i \in Ever
               /\ i \in Shown /\ i \in Ever' => i \in Shown'
    <2>1. MovesOn(claims[i], claims'[i])
      BY DEF AllMoveOn
    <2> QED BY <2>1, InSets, InSetsNext DEF MovesOn, Claim
  <1> QED BY <1>1, <1>2, InSetsNext, InSets

LEMMA StayMovesOn ==
  ASSUME NEW log
  PROVE  MovesOn(log, log)
  BY DEF MovesOn

LEMMA StillMoves ==
  ASSUME Shaped, UNCHANGED claims
  PROVE  AllMoveOn /\ Now' = Now
  BY StayMovesOn, InSets, InSetsNext DEF Shaped, AllMoveOn

(* A claim is written. *)
LEMMA WrittenMoves ==
  ASSUME Shaped, NEW i \in Ids, NEW v \in Good, Follows(Claim(i), v), WriteClaim(i, v)
  PROVE  /\ AllMoveOn
         /\ Claim(i)' = v
         /\ \A j \in Ids \ {i} : Claim(j)' = Claim(j)
         /\ Now' = IF Own(v) THEN Now ELSE Now \ {i}
  <1>1. claims \in [Ids -> ClaimLogs] /\ claims[i] \in ClaimLogs
    BY DEF Shaped
  <1>2. /\ Write(claims[i], v) \in ClaimLogs
        /\ MovesOn(claims[i], Write(claims[i], v))
        /\ Latest(Write(claims[i], v)) = v
    BY <1>1, WriteMovesOn DEF Claim
  <1>3. claims'[i] = Write(claims[i], v) /\ \A j \in Ids \ {i} : claims'[j] = claims[j]
    BY <1>1 DEF WriteClaim
  <1>4. claims' \in [Ids -> ClaimLogs]
    BY <1>1, <1>2 DEF WriteClaim
  <1>5. AllMoveOn
    BY <1>2, <1>3, <1>4, StayMovesOn DEF AllMoveOn
  <1>6. Claim(i)' = v /\ \A j \in Ids \ {i} : Claim(j)' = Claim(j)
    BY <1>2, <1>3 DEF Claim
  <1>7. ASSUME NEW j \in Ids
        PROVE  j \in Now' <=> (j \in Now /\ j # i) \/ (j = i /\ Own(v))
    <2>1. CASE j = i
      BY <1>2, <1>3, <2>1, InSetsNext DEF OwnedNow
    <2>2. CASE j # i
      BY <1>3, <2>2, InSets, InSetsNext
    <2> QED BY <2>1, <2>2
  <1>8. Own(v) => i \in Now
    BY InSets DEF Follows, OwnedNow, Claim
  <1>9. Now' = IF Own(v) THEN Now ELSE Now \ {i}
    BY <1>7, <1>8, InSets, InSetsNext
  <1> QED BY <1>5, <1>6, <1>9

LEMMA DeletedMoves ==
  ASSUME Shaped, NEW i \in Ids, Delete(i)
  PROVE  AllMoveOn /\ Now' = Now \ {i} /\ \A j \in Now' : Claim(j)' = Claim(j)
  <1>1. CASE Claim(i).st = "live"
    <2>1. WriteClaim(i, Deleting) /\ ~Own(Deleting)
      BY <1>1 DEF Delete, Own, Deleting, NoClaim
    <2>2. Follows(Claim(i), Deleting)
      BY <2>1 DEF Follows
    <2>3. /\ AllMoveOn /\ Now' = Now \ {i}
          /\ \A j \in Ids \ {i} : Claim(j)' = Claim(j)
      BY <2>1, <2>2, WrittenMoves, NoClaimGood
    <2>4. Now' \subseteq Ids \ {i}
      BY <2>3, InSets
    <2> QED BY <2>3, <2>4
  <1>2. CASE Claim(i).st # "live"
    <2>1. UNCHANGED claims
      BY <1>2 DEF Delete
    <2>2. i \notin Now
      BY <1>2, InSets DEF OwnedNow, Own, Claim
    <2>3. Now' = Now \ {i}
      BY <2>1, <2>2, StillMoves
    <2> QED BY <2>1, <2>3, StillMoves DEF Claim
  <1> QED BY <1>1, <1>2

LEMMA DeliveredMoves ==
  ASSUME Shaped, NEW i \in Ids, DeliverClaim(i)
  PROVE  AllMoveOn /\ Now' = Now
  <1>1. claims \in [Ids -> ClaimLogs] /\ claims[i] \in ClaimLogs
    BY DEF Shaped
  <1>2. /\ Tail(claims[i]) \in ClaimLogs
        /\ MovesOn(claims[i], Tail(claims[i]))
        /\ Latest(Tail(claims[i])) = Latest(claims[i])
    BY <1>1, DeliverMovesOn DEF DeliverClaim
  <1>3. claims'[i] = Tail(claims[i]) /\ \A j \in Ids \ {i} : claims'[j] = claims[j]
    BY <1>1 DEF DeliverClaim
  <1>4. claims' \in [Ids -> ClaimLogs]
    BY <1>1, <1>2 DEF DeliverClaim
  <1>5. AllMoveOn
    BY <1>2, <1>3, <1>4, StayMovesOn DEF AllMoveOn
  <1>6. \A j \in Ids : OwnedNow(claims'[j]) <=> OwnedNow(claims[j])
    BY <1>2, <1>3 DEF OwnedNow
  <1>7. Now' = Now
    BY <1>6, InSets, InSetsNext
  <1> QED BY <1>5, <1>7

(* The claim controller, the pool and the garbage collector. *)
LEMMA ChangedMoves ==
  ASSUME Shaped, NEW i \in Ids,
         \/ BindPod(i) \/ Outdate(i) \/ PodLost(i) \/ Migrate(i) \/ ClaimGone(i)
  PROVE  AllMoveOn /\ Now' = Now /\ UNCHANGED <<set, w, env, counted>>
  <1>0. Claim(i) \in Good /\ Claim(i) \in ClaimObj
    <2>1. claims[i] \in ClaimLogs
      BY DEF Shaped
    <2> QED BY <2>1, ClaimLogEnds DEF Claim, Good
  <1>1. ASSUME NEW v \in Good, Follows(Claim(i), v), Own(v) <=> Own(Claim(i)), ChangeClaim(i, v)
        PROVE  AllMoveOn /\ Now' = Now /\ UNCHANGED <<set, w, env, counted>>
    <2>1. WriteClaim(i, v) /\ UNCHANGED <<set, w, env, counted>>
      BY <1>1 DEF ChangeClaim
    <2>2. AllMoveOn /\ Now' = IF Own(v) THEN Now ELSE Now \ {i}
      BY <1>1, <2>1, WrittenMoves
    <2>3. ~Own(v) => i \notin Now
      BY <1>1, InSets DEF OwnedNow, Claim
    <2> QED BY <2>1, <2>2, <2>3
  <1> USE DEF Good, Follows, Own, IsReady, ClaimObj, Phases
  <1>2. CASE BindPod(i)
    <2> DEFINE v == [Claim(i) EXCEPT !.pod = TRUE, !.phase = "Bound"]
    <2>1. v \in Good /\ Follows(Claim(i), v) /\ (Own(v) <=> Own(Claim(i)))
      BY <1>0, <1>2 DEF BindPod
    <2> QED BY <1>1, <1>2, <2>1 DEF BindPod
  <1>3. CASE Outdate(i)
    <2> DEFINE v == [Claim(i) EXCEPT !.phase = "Outdated"]
    <2>1. v \in Good /\ Follows(Claim(i), v) /\ (Own(v) <=> Own(Claim(i)))
      BY <1>0, <1>3 DEF Outdate
    <2> QED BY <1>1, <1>3, <2>1 DEF Outdate
  <1>4. CASE PodLost(i)
    <2> DEFINE v == [Claim(i) EXCEPT !.pod = FALSE]
    <2>1. v \in Good /\ Follows(Claim(i), v) /\ (Own(v) <=> Own(Claim(i)))
      BY <1>0, <1>4 DEF PodLost
    <2> QED BY <1>1, <1>4, <2>1 DEF PodLost
  <1>5. CASE Migrate(i)
    <2> DEFINE v == [Claim(i) EXCEPT !.source = ~@]
    <2>1. v \in Good /\ Follows(Claim(i), v) /\ (Own(v) <=> Own(Claim(i)))
      BY <1>0, <1>5 DEF Migrate
    <2> QED BY <1>1, <1>5, <2>1 DEF Migrate
  <1>6. CASE ClaimGone(i)
    <2>1. Follows(Claim(i), NoClaim) /\ (Own(NoClaim) <=> Own(Claim(i)))
      BY <1>0, <1>6 DEF ClaimGone, NoClaim
    <2> QED BY <1>1, <1>6, <2>1, NoClaimGood DEF ClaimGone
  <1> QED BY <1>2, <1>3, <1>4, <1>5, <1>6

(* A claim is made where the cache and the API server agree that there is none. *)
LEMMA MadeClaim ==
  ASSUME Shaped, NEW i \in Ids, claims[i] = <<NoClaim>>, WriteClaim(i, makeClaim)
  PROVE  /\ claims' \in [Ids -> ClaimLogs]
         /\ i \notin Now /\ i \notin Ever
         /\ Now' = Now \cup {i} /\ Ever' = Ever \cup {i}
         /\ \A j \in Ids \ {i} : claims'[j] = claims[j]
  <1> DEFINE new == Write(<<NoClaim>>, makeClaim)
  <1>0. claims \in [Ids -> ClaimLogs]
    BY DEF Shaped
  <1>1. new = <<NoClaim, makeClaim>> \/ new = <<makeClaim>>
    <2>1. makeClaim # NoClaim /\ Latest(<<NoClaim>>) = NoClaim
      BY DEF makeClaim, NoClaim, Latest
    <2>2. new = Append(IF Len(<<NoClaim>>) > MaxLag THEN Tail(<<NoClaim>>) ELSE <<NoClaim>>, makeClaim)
      BY <2>1 DEF Write
    <2>3. CASE Len(<<NoClaim>>) > MaxLag
      <3>1. Tail(<<NoClaim>>) = << >>
        OBVIOUS
      <3> QED BY <2>2, <2>3, <3>1
    <2>4. CASE ~(Len(<<NoClaim>>) > MaxLag)
      BY <2>2, <2>4
    <2> QED BY <2>3, <2>4
  <1>2. NoClaim \in Good /\ makeClaim \in Good /\ ~Own(NoClaim) /\ Own(makeClaim) /\ NoClaim.st = "none"
    BY NoClaimGood DEF NoClaim, makeClaim, Own
  <1>3. new \in Logs(Good) /\ Latest(new) = makeClaim
    <2>1. <<NoClaim>> \in Logs(Good)
      BY <1>2, FreshLog
    <2> QED BY <1>2, <2>1, WriteLog
  <1>4. new \in ClaimLogs
    <2>1. CASE new = <<makeClaim>>
      BY <1>2, <2>1, FreshClaimLog
    <2>2. CASE new = <<NoClaim, makeClaim>>
      <3>1. Len(new) = 2 /\ new[1] = NoClaim /\ new[2] = makeClaim
        BY <2>2
      <3>2. \A k, l \in 1 .. 2 : k <= l => Follows(new[k], new[l]) \/ (k = 1 /\ new[1].st = "none")
        BY <1>2, <3>1 DEF Follows
      <3> QED BY <1>3, <3>1, <3>2 DEF ClaimLogs
    <2> QED BY <1>1, <2>1, <2>2
  <1>5. claims'[i] = new /\ \A j \in Ids \ {i} : claims'[j] = claims[j]
    BY <1>0 DEF WriteClaim
  <1>6. claims' \in [Ids -> ClaimLogs]
    BY <1>0, <1>4 DEF WriteClaim
  <1>7. OwnedNow(new) /\ OwnedOnce(new)
    BY <1>2, <1>3, <1>4, ClaimLogEnds DEF OwnedNow
  <1>8. ~OwnedNow(claims[i]) /\ ~OwnedOnce(claims[i])
    BY <1>2, FreshClaimLog DEF OwnedNow
  <1>9. \A j \in Ids : /\ j \in Now' <=> j \in Now \/ j = i
                       /\ j \in Ever' <=> j \in Ever \/ j = i
    BY <1>5, <1>7, InSets, InSetsNext
  <1>10. i \notin Now /\ i \notin Ever
    BY <1>8, InSets
  <1> QED BY <1>5, <1>6, <1>9, <1>10, InSets, InSetsNext

-----------------------------------------------------------------------------
(* What the counts are worth *)

Listed == owned(w.oc)

ReadyNow == {i \in Now : IsReady(Claim(i))}

(* The cache shows the owned claims, and no event under way changes that. *)
Settled == Ever = Now /\ Ever = Shown

(* The worker has only made claims since the cache was settled, or has only
   deleted some. *)
OneWay == Ever = Now \/ Ever = Shown

(* Before claims are made or deleted the cache is settled or the status has the
   number of owned claims. *)
AtRest ==
  w.pc \in {"rest", "check"} /\ Set.st = "live" =>
    Settled \/ (Cardinality(Now) = Set.status /\ OneWay)

(* The copies that are compared with the API server: claims may be missing or there
   may be too many, not both. *)
AtCheck ==
  w.pc = "check" => \/ Ever = Now /\ Listed \subseteq Shown
                    \/ Ever = Shown /\ Shown \subseteq Listed

(* The copies that are counted are the owned claims. *)
AtScale == w.pc = "scale" => Settled /\ Listed = Now

(* A claim that the copy shows as ready is. *)
ReadyStays ==
  w.pc \in {"check", "scale"} => \A i \in Listed \cap Now : IsReady(w.oc[i]) => IsReady(Claim(i))

(* The calls that are left to do lead to the number that will be stored. *)
Making ==
  /\ w.del = {} /\ Ever = Now
  /\ w.n = Cardinality(Now) + w.new
  /\ w.new > 0 => w.n <= w.replicas + 1

Thinning ==
  /\ w.new = 0 /\ Ever = Shown
  /\ w.del \subseteq Now
  /\ Cardinality(Now) = w.n + Cardinality(w.del)
  /\ Cardinality(ReadyNow \ w.del) >= w.replicas

AtCalls == w.pc = "calls" => w.lost \cap Ever = {} /\ (Making \/ Thinning)

Counts == AtRest /\ AtCheck /\ AtScale /\ ReadyStays /\ AtCalls

(* A set that is deleted stays so; nobody makes claims for it. *)
Deletion ==
  /\ \A v \in Versions(set) : v.st # "live" => Set.st # "live"
  /\ w.pc \in {"purge", "unfinalize"} => Set.st # "live"
  /\ counted /\ w.pc \in {"check", "scale", "calls"} => Set.st # "gone"

NothingBegun == w.pc \in {"check", "scale"} => w.new = 0 /\ w.del = {}

CountInv == Shaped /\ NothingBegun /\ Deletion /\ (counted => Counts)

(* Sets of claims are finite. *)
LEMMA SetsAreFinite ==
  /\ IsFiniteSet(Now) /\ IsFiniteSet(Shown) /\ IsFiniteSet(Ever)
  /\ Cardinality(Now) \in Nat /\ Cardinality(Shown) \in Nat
  <1>1. Now \in SUBSET Ids /\ Shown \in SUBSET Ids /\ Ever \in SUBSET Ids
    BY InSets
  <1> QED BY <1>1, CountIds, ClaimSetAssumption

(* The worker and the set are as they were, and the owned claims too. *)
LEMMA StillCounts ==
  ASSUME Shaped, counted => Counts, AllMoveOn, Now' = Now,
         counted' => counted,
         /\ w'.pc = w.pc /\ w'.oc = w.oc /\ w'.del = w.del /\ w'.new = w.new
         /\ w'.lost \subseteq w.lost /\ w'.n = w.n /\ w'.replicas = w.replicas,
         Set'.st = "live" => Set.st = "live",
         Set'.status = Set.status
  PROVE  counted' => Counts'
  <1> SUFFICES ASSUME counted, Counts PROVE Counts'
    OBVIOUS
  <1>1. /\ Ever' \subseteq Ever /\ Shown \cap Ever' \subseteq Shown'
        /\ Now' \subseteq Ever' /\ Shown' \subseteq Ever'
        /\ \A i \in Now' : IsReady(Claim(i)) => IsReady(Claim(i)')
    BY MovedSets
  <1>2. Now \subseteq Ever /\ Shown \subseteq Ever
    BY EverIsAll DEF Shaped
  <1>3. Ever = Now => Ever' = Now'
    BY <1>1
  <1>4. Ever = Shown => Ever' = Shown'
    BY <1>1
  <1>5. Listed' = Listed
    BY DEF Listed, owned
  <1>6. AtRest'
    BY <1>3, <1>4 DEF Counts, AtRest, Settled, OneWay
  <1>7. AtCheck'
    <2> SUFFICES ASSUME w.pc = "check"
                 PROVE  \/ Ever' = Now' /\ Listed' \subseteq Shown'
                        \/ Ever' = Shown' /\ Shown' \subseteq Listed'
      BY DEF AtCheck
    <2>1. CASE Ever = Now /\ Listed \subseteq Shown
      <3>1. Ever' = Ever
        BY <1>3, <2>1
      <3> QED BY <1>1, <1>2, <1>3, <1>5, <2>1, <3>1
    <2>2. CASE Ever = Shown /\ Shown \subseteq Listed
      BY <1>1, <1>4, <1>5, <2>2
    <2> QED BY <2>1, <2>2 DEF Counts, AtCheck
  <1>8. AtScale'
    BY <1>3, <1>4, <1>5 DEF Counts, AtScale, Settled
  <1>9. ReadyStays'
    BY <1>1, <1>5 DEF Counts, ReadyStays
  <1>10. AtCalls'
    <2> SUFFICES ASSUME w.pc = "calls"
                 PROVE  (w.lost \cap Ever)' = {} /\ (Making' \/ Thinning')
      BY DEF AtCalls
    <2>1. w.lost \cap Ever = {} /\ (Making \/ Thinning)
      BY DEF Counts, AtCalls
    <2>2. (w.lost \cap Ever)' = {}
      <3>1. w'.lost \subseteq w.lost /\ Ever' \subseteq Ever
        BY <1>1
      <3> QED BY <2>1, <3>1
    <2>3. CASE Making
      BY <1>3, <2>2, <2>3 DEF Making
    <2>4. CASE Thinning
      <3>1. ReadyNow \ w.del \in SUBSET (ReadyNow' \ w.del) /\ ReadyNow' \ w.del \in SUBSET Ids
        BY <1>1, InSets DEF ReadyNow
      <3>2. Cardinality(ReadyNow \ w.del) <= Cardinality(ReadyNow' \ w.del)
        BY <3>1, CountIds, FS_Subset
      <3>3. Cardinality(ReadyNow \ w.del) \in Nat /\ Cardinality(ReadyNow' \ w.del) \in Nat /\ w.replicas \in Nat
        <4>1. ReadyNow \ w.del \in SUBSET Ids
          BY <3>1
        <4>2. /\ IsFiniteSet(ReadyNow \ w.del) /\ IsFiniteSet(ReadyNow' \ w.del)
              /\ w.replicas \in 0 .. MaxReplicas
          BY <3>1, <4>1, CountIds DEF Shaped, TypeOK, Worker
        <4> QED BY <4>2, FS_CardinalityType, ClaimSetAssumption
      <3>4. Cardinality(ReadyNow' \ w'.del) >= w'.replicas
        <4>1. Cardinality(ReadyNow \ w.del) >= w.replicas
          BY <2>4 DEF Thinning
        <4>2. w'.del = w.del /\ w'.replicas = w.replicas
          OBVIOUS
        <4> DEFINE a == Cardinality(ReadyNow \ w.del)
                   b == Cardinality(ReadyNow' \ w.del)
        <4>3. a \in Nat /\ b \in Nat /\ a <= b /\ a >= w.replicas /\ w.replicas \in Nat
          BY <3>2, <3>3, <4>1
        <4>4. b >= w.replicas
          <5> HIDE DEF a, b
          <5> QED BY <4>3
        <4> QED BY <4>2, <4>4
      <3> QED BY <1>4, <2>2, <2>4, <3>4 DEF Thinning
    <2> QED BY <2>1, <2>3, <2>4
  <1> QED BY <1>6, <1>7, <1>8, <1>9, <1>10 DEF Counts

LEMMA SameClaims ==
  ASSUME UNCHANGED claims
  PROVE  /\ Now' = Now /\ Shown' = Shown /\ Ever' = Ever /\ ReadyNow' = ReadyNow
         /\ \A i \in Ids : Claim(i)' = Claim(i)
  <1>1. Now' = Now /\ Shown' = Shown /\ Ever' = Ever
    BY InSets, InSetsNext
  <1>2. \A i \in Ids : Claim(i)' = Claim(i)
    BY DEF Claim
  <1> QED BY <1>1, <1>2, InSets DEF ReadyNow

(* Sets of the same size, of which one is part of the other, are the same. *)
LEMMA SameSets ==
  ASSUME NEW S \in SUBSET Ids, NEW T \in SUBSET Ids, Cardinality(S) = Cardinality(T),
         S \subseteq T \/ T \subseteq S
  PROVE  S = T
  <1>1. IsFiniteSet(S) /\ IsFiniteSet(T)
    BY CountIds
  <1> QED BY <1>1, FS_Subset

(* Sync trusts the cache if it shows as many claims as the status has. *)
LEMMA SyncCounts ==
  ASSUME CountInv, Sync
  PROVE  counted' => Counts'
  <1> SUFFICES ASSUME counted' PROVE Counts'
    OBVIOUS
  <1>1. /\ Cached(set).st = "live" /\ w.pc = "rest"
        /\ w'.pc = (IF Cardinality(Shown) # Cached(set).status THEN "check" ELSE "scale")
        /\ w'.oc = CachedClaims
        /\ InSync \/ (counted /\ UpToDate(set))
        /\ UNCHANGED <<set, claims>>
    BY DEF Sync, Shown, Resting
  <1>2. Now' = Now /\ Shown' = Shown /\ Ever' = Ever /\ \A i \in Ids : Claim(i)' = Claim(i)
    BY <1>1, SameClaims
  <1>3. Listed' = Shown
    BY <1>1 DEF Listed, Shown, owned
  <1>4. Now \subseteq Ever /\ Shown \subseteq Ever /\ Now \in SUBSET Ids /\ Shown \in SUBSET Ids
    BY EverIsAll, InSets DEF CountInv, Shaped
  <1>5. Set = Cached(set)
    BY <1>1 DEF InSync, UpToDate, Set, Latest, Cached
  <1>6. Settled \/ (Cardinality(Now) = Cached(set).status /\ OneWay)
    <2>1. CASE InSync
      <3>1. \A i \in Ids : OwnedOnce(claims[i]) <=> OwnedNow(claims[i])
        BY <2>1 DEF InSync, UpToDate, OwnedOnce, OwnedNow, Latest
      <3>2. \A i \in Ids : OwnedNow(claims[i]) <=> OwnedInCache(claims[i])
        BY <2>1 DEF InSync, UpToDate, OwnedInCache, OwnedNow, Latest, Cached
      <3>3. Settled
        BY <3>1, <3>2, InSets DEF Settled
      <3> QED BY <3>3
    <2>2. CASE counted /\ UpToDate(set)
      BY <1>1, <1>5, <2>2 DEF CountInv, Counts, AtRest
    <2> QED BY <1>1, <2>1, <2>2
  <1>7. OneWay
    BY <1>6 DEF Settled, OneWay
  <1>8. AtRest'
    <2>1. Settled' <=> Settled
      BY <1>2 DEF Settled
    <2>2. OneWay' <=> OneWay
      BY <1>2 DEF OneWay
    <2>3. Set' = Cached(set)
      BY <1>1, <1>5 DEF Set
    <2> QED BY <1>2, <1>6, <2>1, <2>2, <2>3 DEF AtRest
  <1>9. AtCheck'
    BY <1>2, <1>3, <1>7 DEF AtCheck, OneWay
  <1>10. AtScale'
    <2> SUFFICES ASSUME Cardinality(Shown) = Cached(set).status
                 PROVE  Ever = Now /\ Ever = Shown
      BY <1>1, <1>2, <1>3 DEF AtScale, Settled
    <2>1. CASE Settled
      BY <2>1 DEF Settled
    <2>2. CASE Cardinality(Now) = Cached(set).status /\ OneWay
      <3>1. Now \subseteq Shown \/ Shown \subseteq Now
        BY <1>4, <2>2 DEF OneWay
      <3>2. Now = Shown
        BY <1>4, <2>2, <3>1, SameSets
      <3> QED BY <2>2, <3>2 DEF OneWay
    <2> QED BY <1>6, <2>1, <2>2
  <1>11. ReadyStays'
    <2> SUFFICES ASSUME NEW i \in Shown \cap Now, IsReady(CachedClaims[i])
                 PROVE  IsReady(Claim(i))
      BY <1>1, <1>2, <1>3, <1>4 DEF ReadyStays
    <2>1. i \in Ids /\ claims[i] \in ClaimLogs
      BY <1>4 DEF CountInv, Shaped
    <2>2. OwnedNow(claims[i]) /\ OwnedInCache(claims[i]) /\ IsReady(Cached(claims[i]))
      BY <2>1, InSets DEF CachedClaims
    <2> QED BY <2>1, <2>2, ClaimLogEnds DEF Claim
  <1>12. AtCalls'
    BY <1>1 DEF AtCalls
  <1> QED BY <1>8, <1>9, <1>10, <1>11, <1>12 DEF Counts

(* ... or if it shows as many as the API server has. *)
LEMMA CheckCounts ==
  ASSUME CountInv, CheckCache
  PROVE  counted' => Counts'
  <1> SUFFICES ASSUME counted, Counts PROVE Counts'
    BY DEF CheckCache, CountInv
  <1>1. /\ w.pc = "check"
        /\ \/ Cardinality(Listed) = Cardinality(Now) /\ w' = [w EXCEPT !.pc = "scale"]
           \/ w' = Resting
        /\ UNCHANGED <<set, claims>>
    BY DEF CheckCache, Listed, Now, Return
  <1>2. Now' = Now /\ Shown' = Shown /\ Ever' = Ever /\ \A i \in Ids : Claim(i)' = Claim(i)
    BY <1>1, SameClaims
  <1>3. Now \subseteq Ever /\ Shown \subseteq Ever /\ Now \in SUBSET Ids /\ Shown \in SUBSET Ids
    BY EverIsAll, InSets DEF CountInv, Shaped
  <1>4. CASE w' = Resting
    <2>1. w'.pc = "rest"
      BY <1>4 DEF Resting
    <2>2. AtRest'
      <3>1. Set' = Set
        BY <1>1 DEF Set
      <3> QED BY <1>1, <1>2, <3>1 DEF Counts, AtRest, Settled, OneWay
    <2> QED BY <2>1, <2>2 DEF Counts, AtCheck, AtScale, ReadyStays, AtCalls
  <1>5. CASE Cardinality(Listed) = Cardinality(Now) /\ w' = [w EXCEPT !.pc = "scale"]
    <2>1. w \in Worker
      BY DEF CountInv, Shaped, TypeOK
    <2>2. w'.pc = "scale" /\ w'.oc = w.oc
      BY <1>5, <2>1 DEF Worker
    <2>3. Listed' = Listed /\ Listed \in SUBSET Ids
      BY <2>2 DEF Listed, owned
    <2>4. \/ Ever = Now /\ Listed \subseteq Shown
          \/ Ever = Shown /\ Shown \subseteq Listed
      BY <1>1 DEF Counts, AtCheck
    <2>5. Listed \subseteq Now \/ Now \subseteq Listed
      BY <1>3, <2>4
    <2>6. Listed = Now
      BY <1>3, <1>5, <2>3, <2>5, SameSets
    <2>7. Settled
      BY <1>3, <2>4, <2>6 DEF Settled
    <2>8. AtScale'
      BY <1>2, <2>3, <2>6, <2>7 DEF AtScale, Settled
    <2>9. ReadyStays'
      BY <1>1, <1>2, <2>2, <2>3, <2>6, <1>3 DEF Counts, ReadyStays
    <2> QED BY <2>2, <2>8, <2>9 DEF Counts, AtRest, AtCheck, AtCalls
  <1> QED BY <1>1, <1>4, <1>5

(* A claim that waits is deleted before any that is ready. *)
LEMMA WaitingGoFirst ==
  ASSUME NEW a \in Good, NEW b \in Good, Own(a), ~IsReady(a), Own(b), IsReady(b)
  PROVE  claimDeletionOrder(a, b)
  <1>1. a.phase = "Pending" /\ b.phase \in {"Bound", "Outdated"}
    BY DEF Good, ClaimObj, Phases, Own, IsReady
  <1>2. ~a.pod /\ b.pod \in BOOLEAN
    BY <1>1 DEF Good, ClaimObj, Own
  <1>3. claimPhaseToOrdinal[a.phase] < claimPhaseToOrdinal[b.phase]
    BY <1>1 DEF claimPhaseToOrdinal
  <1> QED BY <1>2, <1>3 DEF claimDeletionOrder, Good, ClaimObj

(* Scale-in leaves enough ready claims. *)
LEMMA ScaleInLeavesReady ==
  ASSUME CountInv, NEW S \in scaleIn(Cardinality(Listed) - w.replicas),
         Cardinality({i \in Listed : IsReady(w.oc[i])}) > w.replicas
  PROVE  Cardinality({i \in Listed : IsReady(w.oc[i])} \ S) >= w.replicas
  <1> DEFINE ready == {i \in Listed : IsReady(w.oc[i])}
             cps == {i \in owned(w.oc) : ~w.oc[i].source}
  <1>1. w.replicas \in Nat /\ w.oc \in [Ids -> Good]
    BY ClaimSetAssumption DEF CountInv, Shaped, TypeOK, Worker
  <1>2. Listed \in SUBSET Ids /\ ready \in SUBSET Listed /\ \A i \in Listed : Own(w.oc[i]) /\ w.oc[i] \in Good
    BY <1>1 DEF Listed, owned, Own
  <1>3. S \in SUBSET cps /\ cps \in SUBSET Listed
    BY DEF scaleIn, Listed
  <1>4. /\ IsFiniteSet(Listed) /\ IsFiniteSet(ready) /\ IsFiniteSet(S) /\ IsFiniteSet(cps)
        /\ Cardinality(Listed) \in Nat /\ Cardinality(ready) \in Nat /\ Cardinality(S) \in Nat
        /\ Cardinality(cps) \in Nat /\ Cardinality(ready) <= Cardinality(Listed)
    <2>1. IsFiniteSet(Listed)
      BY <1>2, CountIds
    <2>2. IsFiniteSet(ready) /\ IsFiniteSet(cps) /\ Cardinality(ready) <= Cardinality(Listed)
      BY <1>2, <1>3, <2>1, FS_Subset
    <2>3. IsFiniteSet(S)
      BY <1>3, <2>2, FS_Subset
    <2> QED BY <2>1, <2>2, <2>3, FS_CardinalityType
  <1>5. Cardinality(S) <= Cardinality(Listed) - w.replicas
    <2> DEFINE count == Cardinality(Listed) - w.replicas
    <2>1. Cardinality(S) = IF count < Cardinality(cps) THEN count ELSE Cardinality(cps)
      BY DEF scaleIn
    <2>2. Cardinality(Listed) \in Int /\ Cardinality(cps) \in Int
      BY <1>4
    <2> QED BY <1>1, <2>1, <2>2
  <1>6. CASE \A j \in Listed \ ready : j \in S
    <2>1. Listed \ S = ready \ S
      BY <1>2, <1>6
    <2>2. Cardinality(Listed \ S) = Cardinality(Listed) - Cardinality(Listed \cap S)
      BY <1>4, FS_Difference
    <2>3. Listed \cap S = S
      BY <1>3
    <2>4. Cardinality(ready \ S) = Cardinality(Listed) - Cardinality(S)
      BY <2>1, <2>2, <2>3
    <2> DEFINE a == Cardinality(Listed)
               b == Cardinality(S)
               c == Cardinality(ready \ S)
    <2>5. a \in Nat /\ b \in Nat /\ c = a - b /\ b <= a - w.replicas
      BY <1>4, <1>5, <2>4
    <2>6. c >= w.replicas
      <3> HIDE DEF a, b, c
      <3> QED BY <1>1, <2>5
    <2> QED BY <2>6
  <1>7. ASSUME NEW j \in Listed \ ready, j \notin S
        PROVE  Cardinality(ready \ S) >= w.replicas
    <2>1. ~IsReady(w.oc[j]) /\ Own(w.oc[j]) /\ w.oc[j] \in Good
      BY <1>2, <1>7
    <2>2. ~w.oc[j].source
      BY <2>1 DEF Good, ClaimObj, Phases, Own, IsReady
    <2>3. j \in cps \ S
      BY <1>7, <2>2 DEF Listed
    <2>4. ASSUME NEW i \in S, i \in ready
          PROVE  FALSE
      <3>1. ~claimDeletionOrder(w.oc[j], w.oc[i])
        BY <2>3 DEF scaleIn
      <3>2. Own(w.oc[i]) /\ IsReady(w.oc[i]) /\ w.oc[i] \in Good
        BY <1>2, <2>4
      <3> QED BY <2>1, <3>1, <3>2, WaitingGoFirst
    <2>5. ready \ S = ready
      BY <2>4
    <2> DEFINE a == Cardinality(ready)
    <2>6. a \in Nat /\ a > w.replicas
      BY <1>4
    <2>7. a >= w.replicas
      <3> HIDE DEF a
      <3> QED BY <1>1, <2>6
    <2> QED BY <2>5, <2>7
  <1> QED BY <1>6, <1>7

LEMMA ScaleCounts ==
  ASSUME CountInv, scale
  PROVE  counted' => Counts'
  <1> SUFFICES ASSUME counted, Counts PROVE Counts'
    BY DEF scale, CountInv
  <1> DEFINE current == Cardinality(Listed)
             ready == {i \in Listed : IsReady(w.oc[i])}
             updated == {i \in ready : IsUpdated(w.oc[i])}
             want == IF Cardinality(ready) >= w.replicas /\ Cardinality(updated) < w.replicas
                     THEN w.replicas + 1 ELSE w.replicas
             clean == {i \in lost(w.oc) : w.oc[i].st = "live"}
             new == IF want > current THEN want - current ELSE 0
  <1>1. w.pc = "scale" /\ UNCHANGED <<set, claims, env, counted>>
    BY DEF scale
  <1>2. Settled /\ Listed = Now /\ w.new = 0 /\ w.del = {}
    BY <1>1 DEF CountInv, Counts, AtScale, NothingBegun
  <1>3. /\ Now' = Now /\ Shown' = Shown /\ Ever' = Ever /\ ReadyNow' = ReadyNow
    BY <1>1, SameClaims
  <1>4. clean \cap Ever = {}
    BY <1>2 DEF Settled, Listed, lost
  <1>5. w \in Worker /\ w.replicas \in Nat /\ current \in Nat
    BY <1>2, SetsAreFinite, ClaimSetAssumption DEF CountInv, Shaped, TypeOK, Worker
  <1>6. \/ /\ Cardinality(ready) > w.replicas
           /\ \E S \in scaleIn(current - w.replicas) :
                w' = [w EXCEPT !.pc = "calls", !.del = S, !.lost = clean,
                               !.n = current - Cardinality(S),
                               !.oc = [i \in Ids |-> IF i \in S THEN @[i] ELSE NoClaim]]
        \/ w' = [w EXCEPT !.pc = "calls", !.new = new, !.lost = clean, !.n = current + new, !.oc = Blank]
    BY DEF scale, Listed
  <1>7. ASSUME Cardinality(ready) > w.replicas,
               NEW S \in scaleIn(current - w.replicas),
               w' = [w EXCEPT !.pc = "calls", !.del = S, !.lost = clean,
                              !.n = current - Cardinality(S),
                              !.oc = [i \in Ids |-> IF i \in S THEN @[i] ELSE NoClaim]]
        PROVE  w'.pc = "calls" /\ AtCalls'
    <2>1. /\ w'.pc = "calls" /\ w'.del = S /\ w'.lost = clean /\ w'.n = current - Cardinality(S)
          /\ w'.new = 0 /\ w'.replicas = w.replicas
      <3> HIDE DEF current, clean
      <3> QED BY <1>2, <1>5, <1>7 DEF Worker
    <2>2. S \in SUBSET Now
      BY <1>2, <1>7 DEF scaleIn, Listed
    <2>3. Cardinality(S) \in Nat
      BY <2>2, SetsAreFinite, FS_Subset, FS_CardinalityType
    <2>4. Cardinality(Now) = (current - Cardinality(S)) + Cardinality(S)
      <3>1. Cardinality(Now) = current
        BY <1>2
      <3> HIDE DEF current
      <3> QED BY <1>5, <2>3, <3>1
    <2>5. ready \ S \in SUBSET (ReadyNow \ S)
      BY <1>1, <1>2 DEF Counts, ReadyStays, ReadyNow
    <2>6. Cardinality(ReadyNow \ S) >= w.replicas
      <3>1. Cardinality(ready \ S) >= w.replicas
        BY <1>7, ScaleInLeavesReady
      <3>2. ReadyNow \ S \in SUBSET Now
        BY DEF ReadyNow
      <3>3. IsFiniteSet(ReadyNow \ S)
        BY <3>2, SetsAreFinite, FS_Subset
      <3>4. Cardinality(ready \ S) <= Cardinality(ReadyNow \ S) /\ IsFiniteSet(ready \ S)
        BY <2>5, <3>3, FS_Subset
      <3> DEFINE a == Cardinality(ready \ S)
                 b == Cardinality(ReadyNow \ S)
      <3>5. a \in Nat /\ b \in Nat /\ a <= b /\ a >= w.replicas
        BY <3>1, <3>3, <3>4, FS_CardinalityType
      <3>6. b >= w.replicas
        <4> HIDE DEF a, b
        <4> QED BY <1>5, <3>5
      <3> QED BY <3>6
    <2>7. Thinning'
      <3> HIDE DEF current, clean
      <3> QED BY <1>2, <1>3, <2>1, <2>2, <2>4, <2>6 DEF Thinning, Settled
    <2>8. w'.lost \cap Ever' = {}
      BY <1>3, <1>4, <2>1
    <2> QED BY <2>1, <2>7, <2>8 DEF AtCalls
  <1>8. ASSUME w' = [w EXCEPT !.pc = "calls", !.new = new, !.lost = clean, !.n = current + new, !.oc = Blank]
        PROVE  w'.pc = "calls" /\ AtCalls'
    <2>1. /\ w'.pc = "calls" /\ w'.del = {} /\ w'.lost = clean /\ w'.n = current + new
          /\ w'.new = new /\ w'.replicas = w.replicas
      <3> HIDE DEF current, clean, new
      <3> QED BY <1>2, <1>5, <1>8 DEF Worker
    <2>2. want <= w.replicas + 1 /\ want \in Nat
      BY <1>5
    <2>3. new > 0 => current + new <= w.replicas + 1
      <3> HIDE DEF want, current
      <3> QED BY <1>5, <2>2
    <2>4. Making'
      <3>1. Cardinality(Now) = current
        BY <1>2
      <3> HIDE DEF current, clean, new
      <3> QED BY <1>2, <1>3, <2>1, <2>3, <3>1 DEF Making, Settled
    <2>5. w'.lost \cap Ever' = {}
      BY <1>3, <1>4, <2>1
    <2> QED BY <2>1, <2>4, <2>5 DEF AtCalls
  <1>9. w'.pc = "calls" /\ AtCalls'
    BY <1>6, <1>7, <1>8
  <1> QED BY <1>9 DEF Counts, AtRest, AtCheck, AtScale, ReadyStays

(* One deletion. *)
LEMMA DeleteCounts ==
  ASSUME CountInv, NEW i \in Ids, DeleteSurplus(i)
  PROVE  counted' => Counts'
  <1> SUFFICES ASSUME counted, Counts PROVE Counts'
    BY DEF DeleteSurplus, CountInv
  <1>1. w.pc = "calls" /\ i \in w.del /\ Delete(i) /\ w' = [w EXCEPT !.del = @ \ {i}]
    BY DEF DeleteSurplus
  <1>2. w \in Worker /\ w.n \in Nat /\ w.replicas \in Nat
    BY ClaimSetAssumption DEF CountInv, Shaped, TypeOK, Worker
  <1>3. /\ w'.pc = "calls" /\ w'.del = w.del \ {i} /\ w'.new = w.new /\ w'.n = w.n
        /\ w'.lost = w.lost /\ w'.replicas = w.replicas
    BY <1>1, <1>2 DEF Worker
  <1>4. w.lost \cap Ever = {} /\ Thinning
    BY <1>1 DEF Counts, AtCalls, Making
  <1>5. AllMoveOn /\ Now' = Now \ {i} /\ \A j \in Now' : Claim(j)' = Claim(j)
    BY <1>1, DeletedMoves DEF CountInv
  <1>6. Ever' \subseteq Ever /\ Shown \cap Ever' \subseteq Shown' /\ Shown' \subseteq Ever'
    BY <1>5, MovedSets
  <1>7. Ever' = Shown' /\ w'.del \subseteq Now' /\ w'.lost \cap Ever' = {}
    BY <1>3, <1>4, <1>5, <1>6 DEF Thinning
  <1>8. Cardinality(Now') = w'.n + Cardinality(w'.del)
    <2>1. IsFiniteSet(Now) /\ i \in Now /\ w.del \in SUBSET Now
      BY <1>1, <1>4, SetsAreFinite DEF Thinning
    <2>2. IsFiniteSet(w.del)
      BY <2>1, FS_Subset
    <2>3. Cardinality(Now \ {i}) = Cardinality(Now) - 1 /\ Cardinality(w.del \ {i}) = Cardinality(w.del) - 1
      BY <1>1, <2>1, <2>2, FS_RemoveElement
    <2>4. Cardinality(Now) = w.n + Cardinality(w.del) /\ Cardinality(w.del) \in Nat
      BY <1>4, <2>2, FS_CardinalityType DEF Thinning
    <2>5. Cardinality(Now') = Cardinality(Now) - 1 /\ Cardinality(w'.del) = Cardinality(w.del) - 1
      BY <1>3, <1>5, <2>3
    <2> QED BY <1>2, <1>3, <2>4, <2>5
  <1>9. ReadyNow \ w.del \in SUBSET (ReadyNow' \ w'.del)
    BY <1>1, <1>3, <1>5 DEF ReadyNow
  <1>10. Cardinality(ReadyNow' \ w'.del) >= w'.replicas
    <2>1. ReadyNow' \ w'.del \in SUBSET Ids
      BY InSetsNext DEF ReadyNow
    <2>2. IsFiniteSet(ReadyNow' \ w'.del)
      BY <2>1, CountIds
    <2>3. IsFiniteSet(ReadyNow \ w.del) /\ Cardinality(ReadyNow \ w.del) <= Cardinality(ReadyNow' \ w'.del)
      BY <1>9, <2>2, FS_Subset
    <2> DEFINE a == Cardinality(ReadyNow \ w.del)
               b == Cardinality(ReadyNow' \ w'.del)
    <2>4. a \in Nat /\ b \in Nat /\ a <= b /\ a >= w.replicas
      BY <1>4, <2>2, <2>3, FS_CardinalityType DEF Thinning
    <2>5. b >= w.replicas
      <3> HIDE DEF a, b
      <3> QED BY <1>2, <2>4
    <2> QED BY <1>3, <2>5
  <1>11. Thinning'
    BY <1>3, <1>4, <1>7, <1>8, <1>10 DEF Thinning
  <1> QED BY <1>3, <1>7, <1>11 DEF Counts, AtRest, AtCheck, AtScale, ReadyStays, AtCalls

(* One creation. *)
LEMMA CreateCounts ==
  ASSUME CountInv, NEW i \in Ids, CreateOwned(i)
  PROVE  counted' => Counts'
  <1> SUFFICES ASSUME counted, Counts PROVE Counts'
    BY DEF CreateOwned, CountInv
  <1>1. /\ w.pc = "calls" /\ w.new > 0 /\ WriteClaim(i, makeClaim) /\ w' = [w EXCEPT !.new = @ - 1]
        /\ claims[i] = <<NoClaim>> /\ i \notin w.lost
    BY DEF CreateOwned, genAvailableID
  <1>2. w \in Worker /\ w.n \in Nat /\ w.replicas \in Nat /\ w.new \in Nat
    BY ClaimSetAssumption DEF CountInv, Shaped, TypeOK, Worker
  <1>3. /\ w'.pc = "calls" /\ w'.del = w.del /\ w'.new = w.new - 1 /\ w'.n = w.n
        /\ w'.lost = w.lost /\ w'.replicas = w.replicas
    BY <1>1, <1>2 DEF Worker
  <1>4. w.lost \cap Ever = {} /\ Making
    <2>1. w.lost \cap Ever = {} /\ (Making \/ Thinning)
      BY <1>1 DEF Counts, AtCalls
    <2>2. ~Thinning
      BY <1>1, <1>2 DEF Thinning
    <2> QED BY <2>1, <2>2
  <1>5. i \notin Now /\ Now' = Now \cup {i} /\ Ever' = Ever \cup {i}
    BY <1>1, MadeClaim DEF CountInv
  <1>6. Ever' = Now' /\ w'.lost \cap Ever' = {}
    BY <1>1, <1>3, <1>4, <1>5 DEF Making
  <1>7. w'.n = Cardinality(Now') + w'.new
    <2>1. Cardinality(Now') = Cardinality(Now) + 1 /\ Cardinality(Now) \in Nat
      BY <1>5, SetsAreFinite, FS_AddElement
    <2>2. w.n = Cardinality(Now) + w.new
      BY <1>4 DEF Making
    <2> QED BY <1>2, <1>3, <2>1, <2>2
  <1>8. w'.new > 0 => w'.n <= w'.replicas + 1
    BY <1>1, <1>3, <1>4 DEF Making
  <1>9. Making'
    BY <1>3, <1>4, <1>6, <1>7, <1>8 DEF Making
  <1> QED BY <1>3, <1>6, <1>9 DEF Counts, AtRest, AtCheck, AtScale, ReadyStays, AtCalls

(* The deletion of a lost claim. *)
LEMMA CleanCounts ==
  ASSUME CountInv, NEW i \in Ids, CleanClaim(i)
  PROVE  counted' => Counts'
  <1> SUFFICES ASSUME counted, Counts PROVE counted' => Counts'
    BY DEF CleanClaim, CountInv
  <1>1. /\ w.pc = "calls" /\ i \in w.lost /\ Delete(i) /\ w' = [w EXCEPT !.lost = @ \ {i}]
        /\ UNCHANGED <<set, counted>>
    BY DEF CleanClaim
  <1>2. w \in Worker
    BY DEF CountInv, Shaped, TypeOK
  <1>3. /\ w'.pc = w.pc /\ w'.oc = w.oc /\ w'.del = w.del /\ w'.new = w.new
        /\ w'.lost \subseteq w.lost /\ w'.n = w.n /\ w'.replicas = w.replicas
    BY <1>1, <1>2 DEF Worker
  <1>4. i \notin Ever
    BY <1>1 DEF Counts, AtCalls
  <1>5. i \notin Now
    BY <1>4, EverIsAll DEF CountInv, Shaped
  <1>6. AllMoveOn /\ Now' = Now
    BY <1>1, <1>5, DeletedMoves DEF CountInv
  <1>7. Set' = Set
    BY <1>1 DEF Set
  <1> QED BY <1>1, <1>3, <1>6, <1>7, StillCounts DEF CountInv

-----------------------------------------------------------------------------
(* The claim set *)

LEMMA WrittenSet ==
  ASSUME TypeOK, NEW v \in SetObj, WriteSet(v)
  PROVE  Set' = v /\ Versions(set') \subseteq Versions(set) \cup {v}
  <1>0. set \in Logs(SetObj)
    BY DEF TypeOK
  <1>1. CASE "stale" \in env.may
    <2>1. set' = Write(set, v)
      BY <1>1 DEF WriteSet
    <2> QED BY <1>0, <2>1, WriteLog, WriteVersions DEF Set
  <1>2. CASE "stale" \notin env.may
    <2>1. set' = <<v>>
      BY <1>2 DEF WriteSet
    <2> QED BY <2>1, FreshLog, FreshVersions DEF Set
  <1> QED BY <1>1, <1>2

(* What a step does to the set: it keeps its versions, or one is added. *)
LEMMA SetChanges ==
  ASSUME TypeOK, [Next]_vars
  PROVE  \/ Set' = Set /\ Versions(set') \subseteq Versions(set)
         \/ /\ Versions(set') \subseteq Versions(set) \cup {Set'}
            /\ \/ UpdateStatus /\ w.fresh /\ Set' = [Set EXCEPT !.status = w.n]
               \/ RemoveFinalizer /\ Set' = [Set EXCEPT !.st = "gone"]
               \/ /\ Set.st = "live" /\ Set'.st \in {"live", "deleting"} /\ Set'.status = Set.status
                  /\ w' = [w EXCEPT !.fresh = FALSE]
                  /\ UNCHANGED <<claims, env, counted>>
  <1>0. Set \in SetObj /\ set \in Logs(SetObj)
    BY ReadsTyped DEF TypeOK
  <1>1. CASE UNCHANGED set
    BY <1>1 DEF Set
  <1>2. CASE UpdateStatus /\ w.fresh
    <2>1. [Set EXCEPT !.status = w.n] \in SetObj
      BY <1>0 DEF SetObj, TypeOK, Worker
    <2> QED BY <1>2, <2>1, WrittenSet DEF UpdateStatus
  <1>3. CASE RemoveFinalizer
    <2>1. [Set EXCEPT !.st = "gone"] \in SetObj
      BY <1>0 DEF SetObj
    <2> QED BY <1>3, <2>1, WrittenSet DEF RemoveFinalizer
  <1>4. ASSUME NEW v \in SetObj, v.generation = Set.generation, v.status = Set.status,
               v.st \in {"live", "deleting"}, ChangeSet(v)
        PROVE  /\ Versions(set') \subseteq Versions(set) \cup {Set'}
               /\ Set.st = "live" /\ Set'.st \in {"live", "deleting"} /\ Set'.status = Set.status
               /\ w' = [w EXCEPT !.fresh = FALSE]
               /\ UNCHANGED <<claims, env, counted>>
    <2>1. Set.generation + 1 \in 0 .. MaxChanges
      BY <1>0, <1>4, ClaimSetAssumption DEF ChangeSet, SetObj
    <2> DEFINE u == [v EXCEPT !.generation = @ + 1]
    <2>2. u \in SetObj /\ u.st = v.st /\ u.status = v.status
      BY <1>4, <2>1 DEF SetObj
    <2>3. Set' = u /\ Versions(set') \subseteq Versions(set) \cup {u}
      BY <1>4, <2>2, WrittenSet DEF ChangeSet
    <2> QED BY <1>4, <2>2, <2>3 DEF ChangeSet
  <1>5. CASE DeleteSet
    <2> DEFINE v == [Set EXCEPT !.st = "deleting"]
    <2>1. v \in SetObj /\ v.generation = Set.generation /\ v.status = Set.status /\ v.st = "deleting"
      BY <1>0 DEF SetObj
    <2> QED BY <1>4, <1>5, <2>1 DEF DeleteSet
  <1>6. ASSUME NEW n \in 0 .. MaxReplicas, Rescale(n)
        PROVE  /\ Versions(set') \subseteq Versions(set) \cup {Set'}
               /\ Set.st = "live" /\ Set'.st \in {"live", "deleting"} /\ Set'.status = Set.status
               /\ w' = [w EXCEPT !.fresh = FALSE]
               /\ UNCHANGED <<claims, env, counted>>
    <2> DEFINE v == [Set EXCEPT !.replicas = n]
    <2>1. v \in SetObj /\ v.generation = Set.generation /\ v.status = Set.status /\ v.st = Set.st
      BY <1>0 DEF SetObj
    <2>2. Set.st = "live"
      BY <1>6 DEF Rescale, ChangeSet
    <2> QED BY <1>4, <1>6, <2>1, <2>2 DEF Rescale
  <1>7. CASE DeliverSet
    <2>1. set' = Tail(set) /\ Len(set) > 1
      BY <1>0, <1>7, Behind DEF DeliverSet
    <2> QED BY <1>0, <2>1, DeliverLog, DeliverVersions DEF Set
  <1>8. CASE Restart
    <2>1. set' = <<Set>>
      BY <1>8 DEF Restart
    <2>2. Set' = Set /\ Versions(set') = {Set}
      BY <2>1, FreshLog, FreshVersions DEF Set
    <2> QED BY <1>0, <2>2, EndVersions DEF Set
  <1>9. CASE UpdateStatus /\ ~w.fresh
    BY <1>1, <1>9 DEF UpdateStatus
  <1>10. CASE Reconcile
    <2>1. UNCHANGED set \/ UpdateStatus \/ RemoveFinalizer
      BY <1>10 DEF Reconcile, Sync, CheckCache, scale, NoIdLeft, Finalize, PurgeDone,
                  DeleteSurplus, CreateOwned, CleanClaim, PurgeClaim
    <2> QED BY <1>1, <1>2, <1>3, <1>9, <2>1
  <1>11. CASE Environment
    <2>1. \/ UNCHANGED set \/ DeleteSet \/ DeliverSet \/ Restart
          \/ \E n \in 0 .. MaxReplicas : Rescale(n)
      BY <1>11 DEF Environment, Abort, BindPod, Outdate, PodLost, ClaimLost, Migrate, ClaimGone,
                  CollectClaim, DeliverClaim, ChangeClaim
    <2> QED BY <1>1, <1>5, <1>6, <1>7, <1>8, <2>1
  <1> QED BY <1>1, <1>10, <1>11 DEF Next, vars

(* Where the worker goes. *)
LEMMA Flow ==
  ASSUME TypeOK, [Next]_vars
  PROVE  \/ Sync \/ Finalize
         \/ w' = Resting
         \/ /\ counted' => counted
            /\ w'.pc \in {"check", "scale", "calls"} => w.pc \in {"check", "scale", "calls"}
            /\ w'.pc \in {"check", "scale"} =>
                 w.pc \in {"check", "scale"} /\ w'.new = w.new /\ w'.del = w.del
            /\ w'.pc \in {"purge", "unfinalize"} => w'.pc = w.pc
            /\ \/ w'.oc = w.oc \/ w'.oc = Blank
               \/ \E S \in SUBSET Ids : w'.oc = [i \in Ids |-> IF i \in S THEN w.oc[i] ELSE NoClaim]
  <1>0. w \in Worker
    BY DEF TypeOK
  <1>1. CASE UNCHANGED <<w, counted>>
    BY <1>1
  <1>2. CASE Reconcile
    <2>1. CASE NoIdLeft \/ UpdateStatus \/ PurgeDone \/ RemoveFinalizer
      BY <2>1 DEF NoIdLeft, UpdateStatus, PurgeDone, RemoveFinalizer, Return
    <2>2. CASE CheckCache
      BY <1>0, <2>2 DEF CheckCache, Return, Worker
    <2>3. CASE scale
      <3>1. w.pc = "scale" /\ UNCHANGED counted
        BY <2>3 DEF scale
      <3> DEFINE current == Cardinality(owned(w.oc))
                 clean == {i \in lost(w.oc) : w.oc[i].st = "live"}
      <3>2. \/ \E S \in scaleIn(current - w.replicas) :
                  w' = [w EXCEPT !.pc = "calls", !.del = S, !.lost = clean,
                                 !.n = current - Cardinality(S),
                                 !.oc = [i \in Ids |-> IF i \in S THEN @[i] ELSE NoClaim]]
            \/ \E m : w' = [w EXCEPT !.pc = "calls", !.new = m, !.lost = clean, !.n = current + m, !.oc = Blank]
        BY <2>3 DEF scale
      <3>3. ASSUME NEW S \in scaleIn(current - w.replicas),
                   w' = [w EXCEPT !.pc = "calls", !.del = S, !.lost = clean,
                                  !.n = current - Cardinality(S),
                                  !.oc = [i \in Ids |-> IF i \in S THEN @[i] ELSE NoClaim]]
            PROVE  /\ w'.pc = "calls" /\ S \in SUBSET Ids
                   /\ w'.oc = [i \in Ids |-> IF i \in S THEN w.oc[i] ELSE NoClaim]
        <4>1. S \in SUBSET Ids
          BY <3>3 DEF scaleIn, owned
        <4> HIDE DEF current, clean
        <4> QED BY <1>0, <3>3, <4>1 DEF Worker
      <3>4. ASSUME NEW m, w' = [w EXCEPT !.pc = "calls", !.new = m, !.lost = clean, !.n = current + m, !.oc = Blank]
            PROVE  w'.pc = "calls" /\ w'.oc = Blank
        BY <1>0, <3>4 DEF Worker
      <3> HIDE DEF current, clean
      <3>5. /\ w'.pc = "calls"
            /\ \/ w'.oc = Blank
               \/ \E S \in SUBSET Ids : w'.oc = [i \in Ids |-> IF i \in S THEN w.oc[i] ELSE NoClaim]
        BY <3>2, <3>3, <3>4
      <3> QED BY <3>1, <3>5
    <2>4. ASSUME NEW i \in Ids, DeleteSurplus(i) \/ CreateOwned(i) \/ CleanClaim(i) \/ PurgeClaim(i)
          PROVE  /\ counted' = counted /\ w'.pc = w.pc /\ w'.oc = w.oc
                 /\ w.pc \in {"calls", "purge"}
      BY <1>0, <2>4 DEF DeleteSurplus, CreateOwned, CleanClaim, PurgeClaim, Worker
    <2> QED BY <1>2, <2>1, <2>2, <2>3, <2>4 DEF Reconcile
  <1>3. CASE Environment
    <2>1. \/ UNCHANGED <<w, counted>>
          \/ w' = Resting
          \/ w' = [w EXCEPT !.fresh = FALSE] /\ UNCHANGED counted
          \/ UNCHANGED w /\ counted' = FALSE
      BY <1>3 DEF Environment, DeleteSet, Rescale, ChangeSet, DeliverSet, Abort, Restart, Fail, Return,
                  BindPod, Outdate, PodLost, ClaimLost, Migrate, ClaimGone, CollectClaim, DeliverClaim,
                  ChangeClaim
    <2> QED BY <1>0, <1>1, <2>1 DEF Worker
  <1> QED BY <1>1, <1>2, <1>3 DEF Next, vars

LEMMA DeletionKept ==
  ASSUME CountInv, [Next]_vars
  PROVE  NothingBegun' /\ Deletion'
  <1>0. TypeOK /\ NothingBegun /\ Deletion
    BY DEF CountInv, Shaped
  <1>1. \/ Set' = Set /\ Versions(set') \subseteq Versions(set)
        \/ /\ Versions(set') \subseteq Versions(set) \cup {Set'}
           /\ \/ UpdateStatus /\ w.fresh /\ Set' = [Set EXCEPT !.status = w.n]
              \/ RemoveFinalizer /\ Set' = [Set EXCEPT !.st = "gone"]
              \/ /\ Set.st = "live" /\ Set'.st \in {"live", "deleting"} /\ Set'.status = Set.status
                 /\ w' = [w EXCEPT !.fresh = FALSE]
                 /\ UNCHANGED <<claims, env, counted>>
    BY <1>0, SetChanges
  <1>2. /\ Set'.st # "live" \/ Set.st = "live"
        /\ Set'.st = "gone" => Set.st = "gone" \/ w'.pc = "rest"
    <2>1. [Set EXCEPT !.status = w.n].st = Set.st /\ [Set EXCEPT !.st = "gone"].st = "gone"
      BY <1>0, ReadsTyped DEF SetObj
    <2>2. RemoveFinalizer => w'.pc = "rest"
      BY DEF RemoveFinalizer, Return, Resting
    <2> QED BY <1>1, <2>1, <2>2
  <1>3. \A v \in Versions(set') : v.st # "live" => Set'.st # "live"
    BY <1>0, <1>1, <1>2 DEF Deletion
  <1>4. CASE w' = Resting
    <2>1. w'.pc = "rest"
      BY <1>4 DEF Resting
    <2> QED BY <1>3, <2>1 DEF Deletion, NothingBegun
  <1>5. CASE Sync
    <2>1. /\ UNCHANGED set /\ Cached(set).st = "live" /\ w'.pc \in {"check", "scale"}
          /\ w'.new = 0 /\ w'.del = {}
          /\ counted' => UpToDate(set)
      BY <1>5 DEF Sync, InSync, Resting
    <2>2. counted' => Set'.st = "live"
      BY <2>1 DEF UpToDate, Set, Latest, Cached
    <2> QED BY <1>3, <2>1, <2>2 DEF Deletion, NothingBegun
  <1>6. CASE Finalize
    <2>1. /\ UNCHANGED set /\ Cached(set).st = "deleting" /\ w'.pc \in {"purge", "unfinalize"}
      BY <1>6 DEF Finalize, Resting
    <2>2. Cached(set) \in Versions(set)
      BY <1>0, EndVersions DEF TypeOK
    <2>3. Set'.st # "live"
      BY <1>0, <1>2, <2>1, <2>2 DEF Deletion
    <2> QED BY <1>3, <2>1, <2>3 DEF Deletion, NothingBegun
  <1>7. CASE /\ counted' => counted
             /\ w'.pc \in {"check", "scale", "calls"} => w.pc \in {"check", "scale", "calls"}
             /\ w'.pc \in {"check", "scale"} =>
                  w.pc \in {"check", "scale"} /\ w'.new = w.new /\ w'.del = w.del
             /\ w'.pc \in {"purge", "unfinalize"} => w'.pc = w.pc
    BY <1>0, <1>2, <1>3, <1>7 DEF Deletion, NothingBegun
  <1> QED BY <1>0, <1>4, <1>5, <1>6, <1>7, Flow

LEMMA ShapedKept ==
  ASSUME Shaped, [Next]_vars
  PROVE  Shaped'
  <1>0. TypeOK /\ claims \in [Ids -> ClaimLogs] /\ w.oc \in [Ids -> Good]
    BY DEF Shaped
  <1>1. TypeOK'
    BY <1>0, ReconcileTyped, EnvironmentTyped DEF Next, vars, TypeOK
  <1>2. w'.oc \in [Ids -> Good]
    <2>1. Blank \in [Ids -> Good] /\ Resting.oc = Blank
      BY NoClaimGood DEF Blank, Resting
    <2>2. CASE Sync
      <3>1. \A i \in Ids : Cached(claims[i]) \in Good
        BY <1>0, ClaimLogEnds
      <3> QED BY <2>2, <3>1 DEF Sync, CachedClaims, Resting
    <2>3. CASE Finalize
      BY <2>1, <2>3 DEF Finalize, Resting
    <2>4. CASE w' = Resting
      BY <2>1, <2>4
    <2>5. CASE \E S \in SUBSET Ids : w'.oc = [i \in Ids |-> IF i \in S THEN w.oc[i] ELSE NoClaim]
      BY <1>0, <2>5, NoClaimGood
    <2>6. CASE w'.oc = w.oc \/ w'.oc = Blank
      BY <1>0, <2>1, <2>6
    <2> QED BY <1>0, <2>2, <2>3, <2>4, <2>5, <2>6, Flow
  <1>3. claims' \in [Ids -> ClaimLogs]
    <2>1. CASE UNCHANGED claims
      BY <1>0, <2>1
    <2>2. ASSUME NEW i \in Ids, Delete(i)
          PROVE  claims' \in [Ids -> ClaimLogs]
      BY <2>2, DeletedMoves DEF AllMoveOn
    <2>3. ASSUME NEW i \in Ids, CreateOwned(i)
          PROVE  claims' \in [Ids -> ClaimLogs]
      BY <2>3, MadeClaim DEF CreateOwned, genAvailableID
    <2>4. ASSUME NEW i \in Ids, \/ BindPod(i) \/ Outdate(i) \/ PodLost(i) \/ Migrate(i) \/ ClaimGone(i)
          PROVE  claims' \in [Ids -> ClaimLogs]
      BY <2>4, ChangedMoves DEF AllMoveOn
    <2>5. ASSUME NEW i \in Ids, DeliverClaim(i)
          PROVE  claims' \in [Ids -> ClaimLogs]
      BY <2>5, DeliveredMoves DEF AllMoveOn
    <2>6. ASSUME NEW i \in Ids, ClaimLost(i) \/ CollectClaim(i)
          PROVE  claims' \in [Ids -> ClaimLogs]
      <3>1. Claim(i) \in Good
        BY <1>0, ClaimLogEnds DEF Claim
      <3>2. CASE ClaimLost(i)
        <4> DEFINE v == [Claim(i) EXCEPT !.phase = "Lost"]
        <4>1. v \in Good /\ Follows(Claim(i), v)
          BY <3>1 DEF Good, ClaimObj, Phases, Follows, Own
        <4> QED BY <3>2, <4>1, WrittenMoves DEF ClaimLost, AllMoveOn
      <3>3. CASE CollectClaim(i)
        <4>1. Follows(Claim(i), Deleting)
          BY DEF Follows, Own, Deleting, NoClaim
        <4> QED BY <3>3, <4>1, NoClaimGood, WrittenMoves DEF CollectClaim, ChangeClaim, AllMoveOn
      <3> QED BY <2>6, <3>2, <3>3
    <2>7. CASE Restart
      <3>1. \A i \in Ids : <<Claim(i)>> \in ClaimLogs
        BY <1>0, ClaimLogEnds, FreshClaimLog DEF Claim
      <3> QED BY <2>7, <3>1 DEF Restart
    <2>8. CASE Reconcile
      BY <2>1, <2>2, <2>3, <2>8 DEF Reconcile, Sync, CheckCache, scale, NoIdLeft, UpdateStatus,
         Finalize, PurgeDone, RemoveFinalizer, DeleteSurplus, CleanClaim, PurgeClaim
    <2>9. CASE Environment
      BY <2>1, <2>4, <2>5, <2>6, <2>7, <2>9 DEF Environment, DeleteSet, Rescale, ChangeSet,
         DeliverSet, Abort
    <2> QED BY <2>1, <2>8, <2>9 DEF Next, vars
  <1> QED BY <1>1, <1>2, <1>3 DEF Shaped

-----------------------------------------------------------------------------
(* The invariant *)

(* The status is stored. *)
LEMMA UpdateCounts ==
  ASSUME CountInv, UpdateStatus
  PROVE  counted' => Counts'
  <1> SUFFICES ASSUME counted, w.fresh, Counts PROVE Counts'
    BY DEF UpdateStatus, CountInv
  <1>1. /\ w.pc = "calls" /\ w.del = {} /\ w.new = 0
        /\ w' = Resting /\ UNCHANGED claims
        /\ WriteSet([Set EXCEPT !.status = w.n])
    BY DEF UpdateStatus, Return
  <1>2. w'.pc = "rest"
    BY <1>1 DEF Resting
  <1>3. Now' = Now /\ Shown' = Shown /\ Ever' = Ever
    BY <1>1, SameClaims
  <1>4. w.n \in 0 .. MaxClaims /\ w.n \in Nat /\ Set \in SetObj /\ TypeOK
    BY ReadsTyped, ClaimSetAssumption DEF CountInv, Shaped, TypeOK, Worker
  <1>5. [Set EXCEPT !.status = w.n] \in SetObj /\ [Set EXCEPT !.status = w.n].status = w.n
    BY <1>4 DEF SetObj
  <1>6. Set'.status = w.n
    BY <1>1, <1>4, <1>5, WrittenSet
  <1>7. Cardinality(Now) = w.n /\ OneWay
    <2>1. Cardinality(Now) \in Nat /\ Cardinality({}) = 0
      BY SetsAreFinite, FS_EmptySet
    <2>2. CASE Making
      BY <1>1, <1>4, <2>1, <2>2 DEF Making, OneWay
    <2>3. CASE Thinning
      BY <1>1, <1>4, <2>1, <2>3 DEF Thinning, OneWay
    <2> QED BY <1>1, <2>2, <2>3 DEF Counts, AtCalls
  <1>8. AtRest'
    BY <1>3, <1>6, <1>7 DEF AtRest, OneWay
  <1> QED BY <1>2, <1>8 DEF Counts, AtCheck, AtScale, ReadyStays, AtCalls

(* Where nothing is to be counted. *)
LEMMA NoCounts ==
  ASSUME \/ w'.pc \in {"purge", "unfinalize"}
         \/ w'.pc = "rest" /\ Set'.st # "live"
  PROVE  Counts'
  BY DEF Counts, AtRest, AtCheck, AtScale, ReadyStays, AtCalls

(* A new process has an up to date cache. *)
LEMMA RestartCounts ==
  ASSUME CountInv, Restart
  PROVE  Counts'
  <1>1. w'.pc = "rest" /\ \A i \in Ids : claims'[i] = <<Claim(i)>>
    BY DEF Restart, Fail, Return, Resting
  <1>2. \A i \in Ids : Claim(i) \in Good
    BY ClaimLogEnds DEF CountInv, Shaped, Claim
  <1>3. \A i \in Ids : /\ OwnedOnce(claims'[i]) <=> OwnedNow(claims'[i])
                       /\ OwnedOnce(claims'[i]) <=> OwnedInCache(claims'[i])
    BY <1>1, <1>2, FreshClaimLog DEF OwnedNow, OwnedInCache
  <1>4. Settled'
    BY <1>3, InSetsNext DEF Settled
  <1> QED BY <1>1, <1>4 DEF Counts, AtRest, AtCheck, AtScale, ReadyStays, AtCalls

LEMMA CountsKept ==
  ASSUME CountInv, [Next]_vars
  PROVE  counted' => Counts'
  <1>0. TypeOK /\ Shaped /\ Deletion /\ Deletion' /\ w \in Worker
    BY DeletionKept DEF CountInv, Shaped, TypeOK
  <1>1. ASSUME AllMoveOn, Now' = Now, counted' => counted,
               w' = w \/ w' = [w EXCEPT !.fresh = FALSE],
               Set'.st = "live" => Set.st = "live", Set'.status = Set.status
        PROVE  counted' => Counts'
    <2>1. /\ w'.pc = w.pc /\ w'.oc = w.oc /\ w'.del = w.del /\ w'.new = w.new
          /\ w'.lost \subseteq w.lost /\ w'.n = w.n /\ w'.replicas = w.replicas
      BY <1>0, <1>1 DEF Worker
    <2> QED BY <1>1, <2>1, StillCounts DEF CountInv
  <1>2. CASE UNCHANGED vars
    <2>1. UNCHANGED <<set, claims, w, counted>>
      BY <1>2 DEF vars
    <2> QED BY <1>0, <1>1, <2>1, StillMoves DEF Set
  <1>3. CASE Reconcile
    <2>1. CASE NoIdLeft
      BY <2>1 DEF NoIdLeft
    <2>2. CASE Finalize
      <3>1. w'.pc \in {"purge", "unfinalize"}
        BY <2>2 DEF Finalize, Resting
      <3> QED BY <3>1, NoCounts
    <2>3. CASE PurgeDone
      <3>1. w'.pc = "rest" /\ Set' = Set /\ Set.st # "live"
        BY <1>0, <2>3 DEF PurgeDone, Return, Resting, Deletion, Set
      <3> QED BY <3>1, NoCounts
    <2>4. CASE RemoveFinalizer
      <3>1. w'.pc = "rest" /\ w.pc = "unfinalize" /\ WriteSet([Set EXCEPT !.st = "gone"])
        BY <2>4 DEF RemoveFinalizer, Return, Resting
      <3>2. [Set EXCEPT !.st = "gone"] \in SetObj /\ [Set EXCEPT !.st = "gone"].st = "gone"
        BY <1>0, ReadsTyped DEF SetObj
      <3>3. Set'.st = "gone"
        BY <1>0, <3>1, <3>2, WrittenSet
      <3> QED BY <3>1, <3>3, NoCounts
    <2>5. ASSUME NEW i \in Ids, PurgeClaim(i)
          PROVE  counted' => Counts'
      <3>1. w'.pc = "purge"
        BY <1>0, <2>5 DEF PurgeClaim, Worker
      <3> QED BY <3>1, NoCounts
    <2> QED BY <1>3, <2>1, <2>2, <2>3, <2>4, <2>5, SyncCounts, CheckCounts, ScaleCounts, UpdateCounts,
               DeleteCounts, CreateCounts, CleanCounts DEF Reconcile
  <1>4. CASE Environment
    <2>1. CASE DeleteSet \/ \E n \in 0 .. MaxReplicas : Rescale(n)
      <3>1. /\ w' = [w EXCEPT !.fresh = FALSE] /\ UNCHANGED <<claims, counted>>
            /\ Set.st = "live" /\ w'.pc = w.pc
        BY <1>0, <2>1 DEF DeleteSet, Rescale, ChangeSet, Worker
      <3>2. Set'.status = Set.status
        <4>1. ~UpdateStatus /\ ~RemoveFinalizer
          <5>1. w'.pc = w.pc
            BY <3>1
          <5> QED BY <5>1 DEF UpdateStatus, RemoveFinalizer, Return, Resting
        <4> QED BY <1>0, <4>1, SetChanges
      <3> QED BY <1>0, <1>1, <3>1, <3>2, StillMoves
    <2>2. CASE DeliverSet
      <3>1. UNCHANGED <<claims, w, env, counted>> /\ set' = Tail(set) /\ set \in Logs(SetObj) /\ ~UpToDate(set)
        BY <1>0, <2>2 DEF DeliverSet, TypeOK
      <3>2. Set' = Set
        BY <3>1, Behind, DeliverLog DEF Set
      <3> QED BY <1>0, <1>1, <3>1, <3>2, StillMoves
    <2>3. CASE Abort \/ \E i \in Ids : ClaimLost(i)
      BY <2>3 DEF Abort, ClaimLost
    <2>4. CASE Restart
      BY <2>4, RestartCounts
    <2>5. ASSUME NEW i \in Ids, \/ BindPod(i) \/ Outdate(i) \/ PodLost(i) \/ Migrate(i) \/ ClaimGone(i)
          PROVE  counted' => Counts'
      <3>1. AllMoveOn /\ Now' = Now /\ UNCHANGED <<set, w, env, counted>>
        BY <1>0, <2>5, ChangedMoves
      <3> QED BY <1>1, <3>1 DEF Set
    <2>6. ASSUME NEW i \in Ids, DeliverClaim(i)
          PROVE  counted' => Counts'
      <3>1. AllMoveOn /\ Now' = Now
        BY <1>0, <2>6, DeliveredMoves
      <3>2. UNCHANGED <<set, w, env, counted>>
        BY <2>6 DEF DeliverClaim
      <3> QED BY <1>1, <3>1, <3>2 DEF Set
    <2>7. ASSUME NEW i \in Ids, CollectClaim(i), counted
          PROVE  Counts'
      <3>1. Set.st = "gone" /\ UNCHANGED <<set, w, env, counted>>
        BY <2>7 DEF CollectClaim, ChangeClaim
      <3>2. w.pc \notin {"check", "scale", "calls"}
        BY <1>0, <2>7, <3>1 DEF Deletion
      <3>3. w'.pc \in {"rest", "purge", "unfinalize"} /\ Set'.st # "live"
        BY <1>0, <3>1, <3>2 DEF Worker, Set
      <3> QED BY <3>3, NoCounts
    <2>8. ASSUME NEW i \in Ids, CollectClaim(i)
          PROVE  counted' => Counts'
      BY <2>7, <2>8 DEF CollectClaim, ChangeClaim
    <2> QED BY <1>4, <2>1, <2>2, <2>3, <2>4, <2>5, <2>6, <2>8 DEF Environment
  <1> QED BY <1>2, <1>3, <1>4 DEF Next

LEMMA InitCounts ==
  ASSUME Init, TypeOK
  PROVE  CountInv
  <1>1. PICK n \in 0 .. MaxReplicas, m \in Int :
          /\ set = <<[st |-> "live", generation |-> 0, replicas |-> n, status |-> m]>>
          /\ claims = [i \in Ids |-> <<IF i <= m THEN FirstClaim ELSE NoClaim>>]
    <2>1. 0 .. MaxReplicas \subseteq Int /\ 0 \in Int
      BY ClaimSetAssumption
    <2> QED BY <2>1 DEF Init
  <1>2. w = Resting /\ w.pc = "rest" /\ w.oc = Blank
    BY DEF Init, Resting
  <1>3. FirstClaim \in Good /\ NoClaim \in Good /\ Blank \in [Ids -> Good]
    BY ObjectsTyped, NoClaimGood DEF Good, FirstClaim, makeClaim, NoClaim, Blank
  <1>4. ASSUME NEW i \in Ids
        PROVE  \E v \in Good : claims[i] = <<v>>
    BY <1>1, <1>3
  <1>5. ASSUME NEW i \in Ids
        PROVE  /\ claims[i] \in ClaimLogs
               /\ OwnedOnce(claims[i]) <=> OwnedNow(claims[i])
               /\ OwnedOnce(claims[i]) <=> OwnedInCache(claims[i])
    BY <1>4, FreshClaimLog DEF OwnedNow, OwnedInCache
  <1>6. claims \in [Ids -> ClaimLogs]
    BY <1>1, <1>5
  <1>7. Settled
    BY <1>5, InSets DEF Settled
  <1>8. Versions(set) = {Set} /\ Set.st = "live"
    <2> DEFINE v == [st |-> "live", generation |-> 0, replicas |-> n, status |-> m]
    <2>1. set = <<v>> /\ Set = v
      BY <1>1 DEF Set, Latest
    <2>2. Versions(set) = {v}
      BY <2>1, FreshVersions
    <2> QED BY <2>1, <2>2
  <1>9. Shaped /\ NothingBegun /\ Deletion
    BY <1>2, <1>3, <1>6, <1>8 DEF Shaped, NothingBegun, Deletion
  <1>10. Counts
    BY <1>2, <1>7 DEF Counts, AtRest, AtCheck, AtScale, ReadyStays, AtCalls
  <1> QED BY <1>9, <1>10 DEF CountInv

(* The invariant of the counts: what the comparison of numbers in Sync lets through
   is what there is, as long as the numbers are those of the last reconciliation
   (src/pkg/controllers/cnclaimset/controller.go:79-127). *)
THEOREM CountsAreRight == Spec => []CountInv
  <1>1. TypeOK /\ Init => CountInv
    BY InitCounts
  <1>2. CountInv /\ [Next]_vars => CountInv'
    BY CountsKept, DeletionKept, ShapedKept DEF CountInv
  <1> QED BY <1>1, <1>2, ClaimSetTypeCorrect, PTL DEF Spec

(* NoSecondSurge: scaleOut makes no claim while there are more than the set asked for,
   although it counts copies (src/pkg/controllers/cnclaimset/controller.go:150-182). *)
THEOREM SurgesOnce == Spec => NoSecondSurge
  <1> DEFINE A == counted /\ w.pc = "calls" /\ w'.pc = "calls" /\ w'.new < w.new
                  => Cardinality(owned(ActualClaims)) <= w.replicas
  <1>1. CountInv /\ [Next]_vars => [A]_vars
    <2> SUFFICES ASSUME CountInv, [Next]_vars, counted, w.pc = "calls", w'.pc = "calls", w'.new < w.new
                 PROVE  Cardinality(Now) <= w.replicas
      BY DEF Now
    <2>1. /\ w.new \in Nat /\ w'.new \in Nat /\ w.n \in Nat /\ w.replicas \in Nat
          /\ Cardinality(Now) \in Nat
      <3>1. w \in Worker /\ w' \in Worker
        BY ShapedKept DEF CountInv, Shaped, TypeOK
      <3> QED BY <3>1, SetsAreFinite, ClaimSetAssumption DEF Worker
    <2>2. w.new > 0
      BY <2>1
    <2>3. Making
      <3>1. ~Thinning
        BY <2>1, <2>2 DEF Thinning
      <3> QED BY <3>1 DEF CountInv, Counts, AtCalls
    <2>4. w.n = Cardinality(Now) + w.new /\ w.n <= w.replicas + 1
      BY <2>2, <2>3 DEF Making
    <2> DEFINE a == Cardinality(Now)
    <2>5. a <= w.replicas
      <3>1. a \in Nat /\ w.n = a + w.new
        BY <2>1, <2>4
      <3> HIDE DEF a
      <3> QED BY <2>1, <2>2, <2>4, <3>1
    <2> QED BY <2>5
  <1>2. [][A]_vars => NoSecondSurge
    BY PTL DEF NoSecondSurge
  <1> QED BY <1>1, <1>2, CountsAreRight, PTL DEF Spec

(* ScaleInKeepsReady: the claims that scaleIn does not delete are enough, although it
   chooses from copies (src/pkg/controllers/cnclaimset/controller.go:146-148, 216-259). *)
THEOREM ScaleInLeavesEnough == Spec => ScaleInKeepsReady
  <1> DEFINE A == counted /\ w.pc = "calls" /\ w'.pc = "calls" /\ w'.del # w.del
                  => Cardinality({j \in owned(ActualClaims)' : IsReady(Claim(j)')}) >= w.replicas
  <1>1. CountInv /\ [Next]_vars => [A]_vars
    <2> SUFFICES ASSUME CountInv, [Next]_vars, counted, w.pc = "calls", w'.pc = "calls", w'.del # w.del
                 PROVE  Cardinality(ReadyNow') >= w.replicas
      BY DEF ReadyNow, Now
    <2>1. w \in Worker
      BY DEF CountInv, Shaped, TypeOK
    <2>2. PICK i \in Ids : DeleteSurplus(i)
      <3>1. CASE Reconcile
        <4>1. ~(Sync \/ CheckCache \/ scale \/ Finalize \/ RemoveFinalizer)
          BY DEF Sync, CheckCache, scale, Finalize, RemoveFinalizer
        <4>2. ~(NoIdLeft \/ UpdateStatus \/ PurgeDone)
          BY DEF NoIdLeft, UpdateStatus, PurgeDone, Return, Resting
        <4>3. ~\E i \in Ids : CreateOwned(i) \/ CleanClaim(i) \/ PurgeClaim(i)
          BY <2>1 DEF CreateOwned, CleanClaim, PurgeClaim, Worker
        <4> QED BY <3>1, <4>1, <4>2, <4>3 DEF Reconcile
      <3>2. CASE Environment
        <4>1. \/ UNCHANGED w
              \/ w' = Resting
              \/ w' = [w EXCEPT !.fresh = FALSE]
          BY <3>2 DEF Environment, DeleteSet, Rescale, ChangeSet, DeliverSet, Abort, Restart, Fail, Return,
                      BindPod, Outdate, PodLost, ClaimLost, Migrate, ClaimGone, CollectClaim, DeliverClaim,
                      ChangeClaim
        <4> QED BY <2>1, <4>1 DEF Worker, Resting
      <3> QED BY <3>1, <3>2 DEF Next, vars
    <2>3. counted' /\ w'.replicas = w.replicas /\ w'.new = w.new
      BY <2>1, <2>2 DEF DeleteSurplus, Worker
    <2>4. Thinning
      BY <2>2 DEF DeleteSurplus, Making, CountInv, Counts, AtCalls
    <2>5. AllMoveOn /\ Now' = Now \ {i} /\ \A j \in Now' : Claim(j)' = Claim(j)
      BY <2>2, DeletedMoves DEF CountInv, DeleteSurplus
    <2>6. ReadyNow \ w.del \in SUBSET ReadyNow' /\ ReadyNow' \in SUBSET Ids
      BY <2>2, <2>5, InSets DEF ReadyNow, DeleteSurplus
    <2>7. IsFiniteSet(ReadyNow')
      BY <2>6, CountIds
    <2>8. IsFiniteSet(ReadyNow \ w.del) /\ Cardinality(ReadyNow \ w.del) <= Cardinality(ReadyNow')
      BY <2>6, <2>7, FS_Subset
    <2> DEFINE a == Cardinality(ReadyNow \ w.del)
               b == Cardinality(ReadyNow')
    <2>9. a \in Nat /\ b \in Nat /\ a <= b /\ a >= w.replicas /\ w.replicas \in Nat
      BY <2>1, <2>4, <2>7, <2>8, FS_CardinalityType, ClaimSetAssumption DEF Thinning, Worker
    <2>10. b >= w.replicas
      <3> HIDE DEF a, b
      <3> QED BY <2>9
    <2> QED BY <2>10
  <1>2. [][A]_vars => ScaleInKeepsReady
    BY PTL DEF ScaleInKeepsReady
  <1> QED BY <1>1, <1>2, CountsAreRight, PTL DEF Spec
=============================================================================
