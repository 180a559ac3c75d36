------------------------------- MODULE CNPool -------------------------------
(***************************************************************************)
(* The CNPool controller (src/pkg/controllers/cnpool) with the CNSets it   *)
(* makes, kruise, and what the cnstore and cnclaim controllers do to the   *)
(* pods of a pool.                                                         *)
(*                                                                         *)
(* A reconciliation of the pool reads the sets, the pods and the claims    *)
(* first (SyncRead) and then writes what it has decided (SyncWrite); the   *)
(* other controllers step in between.  The cnstore controller reads an     *)
(* Unknown pod and patches it later.  A claim takes a pod in one step: its *)
(* optimistic update succeeds only on the pod it has read.                 *)
(***************************************************************************)
EXTENDS CNSet

CONSTANTS
  Claims,      \* names of CNClaims
  First,       \* the revision of the template at the start, a set
  MaxPods,     \* spec.strategy.scaleStrategy.maxPods
  MaxIdles,    \* values of maxIdle a user may choose
  MaxChanges,  \* bound: changes users make and faults
  Scenarios    \* what may happen in a behaviour, of
               \*   "rollout"  a user changes the template of the pool
               \*   "inplace"  the changes are made in place (the version gate)
               \*   "deps"     what a set depends on changes
               \*   "scale"    a user changes maxIdle
               \*   "late"     a pod is read as Unknown and patched to Idle later
               \*   "evict"    a pod cannot be drained in time
               \*   "direct"   there is a pod of an earlier revision beside the CloneSets
               \*   "rpc"      calls fail and the operator restarts
               \*   "delete"   a user deletes the pool

ASSUME CNPoolAssumption ==
  /\ First \in Sets /\ Sets # {First}
  /\ NONE \notin Claims
  /\ IsFiniteSet(Claims)
  /\ MaxPods \in 0 .. MaxReplicas
  /\ MaxIdles \subseteq Nat /\ 1 \in MaxIdles
  /\ MaxChanges \in Nat \ {0}

VARIABLES
  pool,     \* the pool
  worker,   \* the reconciliation of the pool: what it has read
  claims,   \* the phase of each claim
  holder,   \* the claim each pod is labelled with
  reading,  \* the pods the cnstore controller has read as Unknown
  env       \* the scenario and the number of changes so far

vars == <<cnset, cs, pods, pool, worker, claims, holder, reading, env>>

PoolObj == [ st : {"live", "deleting", "gone"}, rev : Sets, tpl : Templates, idle : MaxIdles ]

\* What the reconciliation has read: the pool, the phases of the pods of the
\* current set, which of them have not changed since, and the numbers of
\* pending claims and of pods of earlier sets that are in use.
Phases == {"none", "Unknown", "Idle", "Bound", "Draining", "Terminating"}

Snapshot == [ p : PoolObj, seen : [Pods -> Phases], fresh : SUBSET Pods,
              pending : Nat, legacy : Nat ]

TypeOK ==
  /\ CNSetTypeOK
  /\ pool \in PoolObj
  /\ worker = NONE \/ worker \in Snapshot
  /\ claims \in [Claims -> {"none", "Pending", "Bound", "Outdated", "Lost"}]
  /\ holder \in [Pods -> Opt(Claims)]
  /\ reading \subseteq Pods
  /\ env \in [may : Scenarios, changes : 0 .. MaxChanges]

May(x) == x \in env.may

podInUse(phase) == phase \in {"Bound", "Draining"}

\* Changes users make and faults are bounded.
Change ==
  /\ env.changes < MaxChanges
  /\ env' = [env EXCEPT !.changes = @ + 1]

\* Pods that change are not as the pool has read them.
Touch(p) == IF worker = NONE THEN worker ELSE [worker EXCEPT !.fresh = @ \ {p}]

SetPhase(p, phase) == [pods EXCEPT ![p].phase = phase]

-----------------------------------------------------------------------------
(* The specification of a CNSet *)

syncCNSetSpec(p, c) ==
  [c EXCEPT !.outdated = FALSE, !.tpl = p.tpl, !.pause = ~May("inplace"), !.drain = FALSE]

buildCNSet(p) == syncCNSetSpec(p, [NoCNSet EXCEPT !.st = "live"])

\* CNSets are named after the hash of what cannot be changed in place.
desired == pool.rev

OwnedSets == {s \in Sets : cnset[s].st # "none"}

-----------------------------------------------------------------------------
(* Reading, and the sets of earlier revisions *)

\* No pod is found before the status of the CNSet has a selector.
CNSetLivePods(s) == IF cnset[s].selector THEN OfSet(s) ELSE {}

DirectPods(s) == {p \in Pods : Exists(p) /\ pods[p].direct /\ pods[p].set = s}

LegacyUse(s) == {p \in CNSetLivePods(s) : podInUse(pods[p].phase)}

LegacySets == OwnedSets \ {desired}

\* Pods whose claims are asked to leave.
ReclaimedPods ==
  {p \in UNION {LegacyUse(s) : s \in LegacySets} \cup UNION {DirectPods(s) : s \in Sets \ {desired}} :
     pods[p].phase = "Bound" /\ holder[p] # NONE}

\* A bound pod of a claim that is not there is an error.
ReclaimFails == \E p \in ReclaimedPods : claims[holder[p]] = "none"

reclaimLegacyCNClaim ==
  [c \in Claims |-> IF \E p \in ReclaimedPods : holder[p] = c THEN "Outdated" ELSE claims[c]]

\* Mutant: pods that are not in use are not deleted.
syncLegacyReplicas(s) ==
  LET use == LegacyUse(s)
  IN [cnset[s] EXCEPT !.replicas = Cardinality(use), !.outdated = TRUE]

syncLegacySet(s) ==
  LET use == LegacyUse(s) IN
  LET done == use = {} /\ cnset[s].running = 0 /\ DirectPods(s) = {}
  IN [cnset[s] EXCEPT !.replicas = Cardinality(use),
                      !.del = CNSetLivePods(s) \ use,
                      !.outdated = TRUE,
                      !.st = IF done THEN "deleting" ELSE @]

Listed == IF cnset[desired].st = "none" THEN {} ELSE CNSetLivePods(desired)

listNominatedClaims == {c \in Claims : claims[c] # "none"}

SyncRead ==
  /\ pool.st = "live" /\ worker = NONE
  /\ ~ReclaimFails
  /\ cnset' = [s \in Sets |-> IF s \in LegacySets THEN syncLegacySet(s) ELSE cnset[s]]
  /\ claims' = reclaimLegacyCNClaim
  /\ worker' = [ p       |-> pool,
                 seen    |-> [p \in Pods |-> IF p \in Listed THEN pods[p].phase ELSE "none"],
                 fresh   |-> Listed,
                 pending |-> Cardinality({c \in listNominatedClaims : claims[c] = "Pending"}),
                 legacy  |-> Cardinality(UNION {LegacyUse(s) : s \in LegacySets}) ]
  /\ UNCHANGED <<cs, pods, pool, holder, reading, env>>

-----------------------------------------------------------------------------
(* Scaling the current set *)

SeenIn(phases) == {p \in Pods : worker.seen[p] \in phases}

inUse == Cardinality({p \in Pods : podInUse(worker.seen[p])})
idlePods == SeenIn({"Unknown", "Idle"})
terminatingPods == SeenIn({"Terminating"})

\* Mutant: pending claims are expected to find an idle pod.
UnclaimedReplicas == inUse + worker.p.idle

desiredReplicas == inUse + worker.pending + worker.p.idle
activeReplicas == inUse + Cardinality(idlePods)

\* Mutant: only the pods there are count.
PodsInUse == worker.legacy + inUse

totalPods == worker.legacy + desiredReplicas

Max2(a, b) == IF a >= b THEN a ELSE b

deletionCost(p) ==
  CASE worker.seen[p] = "Unknown" -> 1 [] worker.seen[p] = "Idle" -> 2

\* The first n pods to delete; pods of the same cost are in any order.
PickedPods(n) ==
  {D \in SUBSET idlePods :
     /\ Cardinality(D) = IF Cardinality(idlePods) > n THEN n ELSE Cardinality(idlePods)
     /\ \A p \in D, q \in idlePods \ D : deletionCost(p) <= deletionCost(q)}

\* Mutant: without the optimistic lock.
RetiredAnyway(D) == {p \in D : Exists(p)}

\* The pods that are set to Terminating: the update of one that has changed
\* is refused.
Retired(D) == D \cap worker.fresh

\* Mutant: the replicas follow the decision and not the pods given up.
ReplicasDecided(spec, gone) == desiredReplicas

Replicas(spec, gone) ==
  IF desiredReplicas > spec THEN desiredReplicas
  ELSE IF worker.pending > 0 THEN spec
  ELSE Max2(spec - Cardinality(gone), desiredReplicas)

\* Pods to give up: none while claims are pending.
ScaleInCount(spec) ==
  IF desiredReplicas > spec \/ worker.pending > 0 THEN 0
  ELSE LET over == spec - desiredReplicas IN
       IF activeReplicas > desiredReplicas THEN Max2(activeReplicas - desiredReplicas, over) ELSE over

SyncWrite ==
  /\ worker # NONE
  /\ LET name == worker.p.rev IN
     LET c == IF cnset[name].st # "none" THEN cnset[name] ELSE buildCNSet(worker.p) IN
     IF totalPods > MaxPods THEN UNCHANGED <<cnset, pods, env>>
     ELSE \E D \in PickedPods(ScaleInCount(c.replicas)),
             saved \in (IF May("rpc") /\ env.changes < MaxChanges THEN BOOLEAN ELSE {TRUE}) :
       LET gone == Retired(D) IN
       /\ pods' = [p \in Pods |-> IF p \in gone THEN [pods[p] EXCEPT !.phase = "Terminating"]
                                  ELSE pods[p]]
       /\ cnset' = IF ~saved THEN cnset
                   ELSE [cnset EXCEPT ![name] =
                           [syncCNSetSpec(worker.p, c) EXCEPT
                              !.replicas = Replicas(c.replicas, gone),
                              !.del = terminatingPods \cup gone]]
       /\ env' = IF saved THEN env ELSE [env EXCEPT !.changes = @ + 1]
  /\ worker' = NONE
  /\ UNCHANGED <<cs, pool, claims, holder, reading>>

\* The reconciliation ends between its calls.
Restart ==
  /\ May("rpc") /\ worker # NONE /\ Change
  /\ worker' = NONE
  /\ UNCHANGED <<cnset, cs, pods, pool, claims, holder, reading>>

\* DeleteAllOf, and the pool is gone when no set is left.
FinalizePool ==
  /\ pool.st = "deleting" /\ worker = NONE
  /\ IF OwnedSets = {} THEN pool' = [pool EXCEPT !.st = "gone"] /\ UNCHANGED cnset
     ELSE /\ cnset' = [s \in Sets |-> IF s \in OwnedSets THEN [cnset[s] EXCEPT !.st = "deleting"]
                                      ELSE cnset[s]]
          /\ UNCHANGED pool
  /\ UNCHANGED <<cs, pods, worker, claims, holder, reading, env>>

-----------------------------------------------------------------------------
(* The other controllers *)

SetController(s) ==
  /\ Observe(s) \/ Finalize(s)
  /\ UNCHANGED <<pool, worker, claims, holder, reading, env>>

Kruise ==
  /\ \/ \E s \in Sets, p \in Pods : CreatePod(s, p)
     \/ \E p \in Pods : StopPod(p) \/ RelabelPod(p)
  /\ worker' = IF worker = NONE THEN worker
               ELSE [worker EXCEPT !.fresh = {p \in @ : pods'[p] = pods[p]}]
  /\ UNCHANGED <<pool, claims, holder, reading, env>>

\* A pod that has registered is patched to Idle, whatever it is by then when
\* the patch is late.  The controller decides on its cached copy of the pod; a
\* copy that is behind is one that was read while it was current, and acted on
\* later.  What is not here is a copy older than the controller's own last patch
\* (the same pod read as Unknown or Draining twice): the scenario "requeue" of
\* CNClaim, where it takes a pod from its claim.
Register(p) ==
  /\ pods[p].phase = "Unknown" /\ ~May("late")
  /\ pods' = SetPhase(p, "Idle")
  /\ worker' = Touch(p)
  /\ UNCHANGED <<cnset, cs, pool, claims, holder, reading, env>>

ReadUnknown(p) ==
  /\ pods[p].phase = "Unknown" /\ p \notin reading /\ May("late")
  /\ reading' = reading \cup {p}
  /\ UNCHANGED <<cnset, cs, pods, pool, worker, claims, holder, env>>

PatchIdle(p) ==
  /\ p \in reading
  /\ reading' = reading \ {p}
  /\ pods' = SetPhase(p, "Idle")
  /\ worker' = Touch(p)
  /\ UNCHANGED <<cnset, cs, pool, claims, holder, env>>

\* A Draining pod goes back to the pool, or is evicted: a direct one always.
Recycle(p) ==
  /\ pods[p].phase = "Draining"
  /\ pods' = SetPhase(p, IF pods[p].direct THEN "Terminating" ELSE "Idle")
  /\ worker' = Touch(p)
  /\ UNCHANGED <<cnset, cs, pool, claims, holder, reading, env>>

EvictPod(p) ==
  /\ May("evict") /\ pods[p].phase = "Draining"
  /\ pods' = SetPhase(p, "Terminating")
  /\ worker' = Touch(p)
  /\ UNCHANGED <<cnset, cs, pool, claims, holder, reading, env>>

\* The store of a pod that stops has drained, of a direct one once it is
\* evicted or Idle.
RemovePod(p) ==
  /\ Exists(p)
  /\ pods[p].stopping \/ (pods[p].direct /\ pods[p].phase \in {"Terminating", "Idle"})
  /\ pods' = [pods EXCEPT ![p] = NoPod]
  /\ holder' = [holder EXCEPT ![p] = NONE]
  /\ claims' = IF holder[p] = NONE THEN claims ELSE [claims EXCEPT ![holder[p]] = "Lost"]
  /\ reading' = reading \ {p}
  /\ worker' = Touch(p)
  /\ UNCHANGED <<cnset, cs, pool, env>>

\* A claim takes an Idle pod that is not outdated.
BindPod(c, p) ==
  /\ claims[c] = "Pending"
  /\ pods[p].phase = "Idle" /\ ~pods[p].outdated
  /\ pods' = SetPhase(p, "Bound")
  /\ holder' = [holder EXCEPT ![p] = c]
  /\ claims' = [claims EXCEPT ![c] = "Bound"]
  /\ worker' = Touch(p)
  /\ UNCHANGED <<cnset, cs, pool, reading, env>>

\* A claim that is Outdated or Lost is deleted by its claim set; its pod
\* drains.
ReleaseClaim(c) ==
  /\ claims[c] \in {"Outdated", "Lost"}
  /\ claims' = [claims EXCEPT ![c] = "none"]
  /\ LET mine == {p \in Pods : holder[p] = c}
     IN /\ pods' = [p \in Pods |-> IF p \in mine THEN [pods[p] EXCEPT !.phase = "Draining"] ELSE pods[p]]
        /\ holder' = [p \in Pods |-> IF p \in mine THEN NONE ELSE holder[p]]
        /\ worker' = IF worker = NONE THEN worker ELSE [worker EXCEPT !.fresh = @ \ mine]
  /\ UNCHANGED <<cnset, cs, pool, reading, env>>

-----------------------------------------------------------------------------
(* Users *)

NewClaim(c) ==
  /\ Change /\ claims[c] = "none" /\ pool.st = "live"
  /\ claims' = [claims EXCEPT ![c] = "Pending"]
  /\ UNCHANGED <<cnset, cs, pods, pool, worker, holder, reading>>

DeleteClaim(c) ==
  /\ Change /\ claims[c] = "Bound"
  /\ claims' = [claims EXCEPT ![c] = "Outdated"]
  /\ UNCHANGED <<cnset, cs, pods, pool, worker, holder, reading>>

\* The template: with the gate an image is changed in place.
ChangePool ==
  /\ Change /\ pool.st = "live"
  /\ \/ May("rollout") /\ \E s \in Sets \ {pool.rev} : pool' = [pool EXCEPT !.rev = s]
     \/ May("inplace") /\ pool' = [pool EXCEPT !.tpl = 1 - @]
     \/ May("scale") /\ \E i \in MaxIdles \ {pool.idle} : pool' = [pool EXCEPT !.idle = i]
     \/ May("delete") /\ pool' = [pool EXCEPT !.st = "deleting"]
  /\ UNCHANGED <<cnset, cs, pods, worker, claims, holder, reading>>

\* The dependencies of a set change and with them the template of its pods.
ChangeDeps(s) ==
  /\ Change /\ cnset[s].st = "live" /\ May("deps")
  /\ cnset' = [cnset EXCEPT ![s].tpl = 1 - @]
  /\ UNCHANGED <<cs, pods, pool, worker, claims, holder, reading>>

-----------------------------------------------------------------------------

Init ==
  /\ env \in {[may |-> m, changes |-> IF m \cap {"late", "rollout"} = {} THEN 0 ELSE 1] : m \in Scenarios}
  /\ cnset = [s \in Sets |-> NoCNSet]
  /\ cs = [n \in {setName(s) : s \in Sets} |-> NoCloneSet]
  /\ LET direct == CHOOSE p \in Pods : TRUE
         old == CHOOSE s \in Sets : s # First
     IN pods = [p \in Pods |-> IF p = direct /\ May("direct")
                               THEN [NoPod EXCEPT !.set = old, !.direct = TRUE, !.phase = "Unknown"]
                               ELSE NoPod]
  /\ pool \in [st : {"live"}, rev : {First}, tpl : {0}, idle : IF May("scale") THEN MaxIdles ELSE {1}]
  /\ worker = NONE
  /\ claims = [c \in Claims |-> "none"]
  /\ holder = [p \in Pods |-> NONE]
  /\ reading = {}

PoolSteps == SyncRead \/ SyncWrite \/ FinalizePool

OtherSteps ==
  \/ \E s \in Sets : SetController(s)
  \/ Kruise
  \/ \E p \in Pods : Register(p) \/ ReadUnknown(p) \/ PatchIdle(p) \/ Recycle(p) \/ RemovePod(p)
  \/ \E c \in Claims : ReleaseClaim(c) \/ (\E p \in Pods : BindPod(c, p))

Users ==
  \/ \E c \in Claims : NewClaim(c) \/ DeleteClaim(c)
  \/ ChangePool
  \/ \E s \in Sets : ChangeDeps(s)

Next == PoolSteps \/ OtherSteps \/ Users \/ Restart \/ \E p \in Pods : EvictPod(p)

\* Controllers are requeued until they have nothing to do, kruise and the
\* controllers of pods and claims as well: a claim that is asked to leave
\* leaves, and a pod that stops is gone some time.
Fairness ==
  /\ WF_vars(PoolSteps) /\ WF_vars(OtherSteps)
  /\ \A p \in Pods : WF_vars(RemovePod(p) \/ Recycle(p))
  /\ WF_vars(\E c \in Claims : ReleaseClaim(c))

Spec == Init /\ [][Next]_vars /\ Fairness

-----------------------------------------------------------------------------
(* Properties *)

\* The phase of a pod as the pool promises it.
lifePhase ==
  [p \in Pods |-> IF pods[p].phase = "Terminating" /\ p \in reading
                  THEN "Condemned" ELSE pods[p].phase]

Lifecycle == INSTANCE PodLifecycle WITH phase <- lifePhase, holder <- holder

\* Whatever the controllers of pools, stores and claims do to the labels of a
\* pod, it keeps to the life cycle (src/pkg/controllers/cnpool/controller.go:160).
KeepsToLifecycle == Lifecycle!Spec

\* kruise never has to choose a pod of its own: a CloneSet never has more
\* pods than replicas other than those it has been told to delete
\* (pooling.go:125, all scale-in is the decision of the pool).
PoolDecides ==
  \A s \in Sets :
    cs[setName(s)].st = "live" /\ ~May("rollout") /\ ~May("late")
      => Cardinality(Active(s)) <= cs[setName(s)].replicas

Demand ==
  Cardinality({p \in Pods : Exists(p) /\ podInUse(pods[p].phase)})
    + Cardinality({c \in Claims : claims[c] = "Pending"}) + pool.idle

\* A pending claim gets a pod, unless the pool is at its limit or deleted.
PendingServed ==
  \A c \in Claims :
    claims[c] = "Pending" ~> claims[c] # "Pending" \/ Demand > MaxPods \/ pool.st # "live"

\* The sets of earlier revisions go away once nobody holds on to their pods, and
\* a deleted pool leaves no set.
LeftoversGo ==
  /\ LegacySets # {} ~> LegacySets = {}
  /\ pool.st = "deleting" ~> pool.st = "gone" /\ \A s \in Sets : cnset[s].st = "none"
=============================================================================
