---------------------------- MODULE PodSetsProofs ----------------------------
(***************************************************************************)
(* Proofs about PodSets, for every set of pods, every scenario and all     *)
(* bounds.  How a configuration is computed is not looked into.            *)
(***************************************************************************)
EXTENDS PodSets, FiniteSetTheorems, TLAPS

-----------------------------------------------------------------------------
(* The shape of the state *)

IsPod(x) == x = [t |-> x.t, conf |-> x.conf]

Shape ==
  /\ env = [may |-> env.may, edits |-> env.edits, faults |-> env.faults]
  /\ maps = [inplace |-> maps.inplace, legacy |-> maps.legacy]
  /\ obj = [st |-> obj.st, spec |-> obj.spec]
  /\ pods = [p \in Pods |-> pods[p]]
  /\ listed = [p \in Pods |-> listed[p]]
  /\ \A p \in Existing : IsPod(pods[p])

\* What a reconciliation may do to everything but the workload and the queue.
LEMMA ObserveFrame ==
  ASSUME Observe
  PROVE  /\ UNCHANGED <<kind, mo, pods, listed, log, obj>>
         /\ maps' = maps \/ maps' = SyncConfigMap(obj.spec, Synced.cm)
         /\ \E n : env' = [env EXCEPT !.faults = n]
  <1>1. CASE StatefulObserve
    BY <1>1 DEF StatefulObserve, Create, Scale, Update, Finish, Counted
  <1>2. CASE CNObserve
    BY <1>2 DEF CNObserve, Create, Scale, Update, Finish, Counted
  <1>3. CASE ProxyObserve
    BY <1>3 DEF ProxyObserve, Counted
  <1>4. CASE WebUIObserve
    BY <1>4 DEF WebUIObserve, Create, SvcUpdate, Update, Finish, Counted
  <1> QED BY <1>1, <1>2, <1>3, <1>4 DEF Observe

\* Other log stores are no concern of the set but for its queue.
LEMMA StoresFrame ==
  ASSUME Failover \/ ScaleLogSet
  PROVE  /\ UNCHANGED <<kind, mo, obj, wl, maps, pods, listed>>
         /\ UNCHANGED env \/ \E n : env' = [env EXCEPT !.faults = n]
  BY DEF Failover, ScaleLogSet, Counted

LEMMA SetPodsShape ==
  ASSUME Shape, NEW p \in Pods, NEW x, x = NONE \/ IsPod(x), SetPods([pods EXCEPT ![p] = x]),
         UNCHANGED env \/ \E n : env' = [env EXCEPT !.faults = n]
  PROVE  Shape'
  <1>1. pods' = [pods EXCEPT ![p] = x] /\ UNCHANGED <<kind, mo, obj, wl, maps, log>>
    BY DEF SetPods
  <1>2. pods' = [q \in Pods |-> pods'[q]] /\ \A q \in Pods : pods'[q] = IF q = p THEN x ELSE pods[q]
    BY <1>1 DEF Shape
  <1>3. listed' = [q \in Pods |-> listed'[q]]
    BY DEF SetPods, Shape
  <1>4. \A q \in Existing' : IsPod(pods[q])'
    BY <1>2 DEF Shape, Existing, IsPod
  <1>5. env' = [may |-> env'.may, edits |-> env'.edits, faults |-> env'.faults]
    BY DEF Shape
  <1> QED BY <1>1, <1>2, <1>3, <1>4, <1>5 DEF Shape

\* The pods a step of the workload controller or a crash leaves.
LEMMA PodsStep ==
  ASSUME Shape, Rollout \/ Crash
  PROVE  \E p, x :
           /\ p \in Pods
           /\ SetPods([pods EXCEPT ![p] = x])
           /\ \/ x = NONE
              \/ x = Fresh(wl.t) /\ (Cardinality(Existing) < wl.replicas \/ wl.st = "live")
              \/ p \in Existing /\ x = Fresh(pods[p].t)
              \/ /\ p \in Existing /\ ConfigFound(pods[p].t) # {}
                 /\ x = [t |-> pods[p].t, conf |-> ConfigFound(pods[p].t)]
           /\ UNCHANGED env \/ \E n : env' = [env EXCEPT !.faults = n]
  <1>1. ASSUME NEW p \in Existing, NEW c
        PROVE  [pods EXCEPT ![p].conf = c] = [pods EXCEPT ![p] = [t |-> pods[p].t, conf |-> c]]
    <2>1. pods[p] = [t |-> pods[p].t, conf |-> pods[p].conf]
      BY DEF Shape, IsPod
    <2>2. [pods[p] EXCEPT !.conf = c] = [t |-> pods[p].t, conf |-> c]
      BY <2>1
    <2> QED BY <2>2
  <1>2. CASE Rollout
    <2>1. PICK p \in Pods :
            /\ \/ /\ Cardinality(Existing) < wl.replicas
                  /\ SetPods([pods EXCEPT ![p] = Fresh(wl.t)])
               \/ SetPods([pods EXCEPT ![p] = NONE])
               \/ wl.st = "live" /\ SetPods([pods EXCEPT ![p] = Fresh(wl.t)])
               \/ /\ p \in Existing /\ ConfigFound(pods[p].t) # {}
                  /\ SetPods([pods EXCEPT ![p].conf = ConfigFound(pods[p].t)])
            /\ UNCHANGED env
      BY <1>2 DEF Rollout
    <2>2. CASE Cardinality(Existing) < wl.replicas /\ SetPods([pods EXCEPT ![p] = Fresh(wl.t)])
      BY <2>1, <2>2
    <2>3. CASE SetPods([pods EXCEPT ![p] = NONE])
      BY <2>1, <2>3
    <2>4. CASE wl.st = "live" /\ SetPods([pods EXCEPT ![p] = Fresh(wl.t)])
      BY <2>1, <2>4
    <2>5. CASE /\ p \in Existing /\ ConfigFound(pods[p].t) # {}
               /\ SetPods([pods EXCEPT ![p].conf = ConfigFound(pods[p].t)])
      <3> DEFINE x == [t |-> pods[p].t, conf |-> ConfigFound(pods[p].t)]
      <3>1. SetPods([pods EXCEPT ![p] = x])
        BY <1>1, <2>5
      <3> QED BY <2>1, <2>5, <3>1
    <2> QED BY <2>1, <2>2, <2>3, <2>4, <2>5
  <1>3. CASE Crash
    <2>1. PICK p \in Existing : \/ SetPods([pods EXCEPT ![p].conf = {}])
                                \/ SetPods([pods EXCEPT ![p] = NONE])
      BY <1>3 DEF Crash
    <2>2. p \in Pods /\ \E n : env' = [env EXCEPT !.faults = n]
      BY <1>3 DEF Crash, Existing
    <2>3. CASE SetPods([pods EXCEPT ![p].conf = {}])
      <3>1. SetPods([pods EXCEPT ![p] = Fresh(pods[p].t)])
        BY <1>1, <2>3 DEF Fresh
      <3> QED BY <2>2, <3>1
    <2>4. CASE SetPods([pods EXCEPT ![p] = NONE])
      BY <2>2, <2>4
    <2> QED BY <2>1, <2>3, <2>4
  <1> QED BY <1>2, <1>3

LEMMA FreshIsPod == ASSUME NEW t PROVE IsPod(Fresh(t))
  BY DEF IsPod, Fresh

\* Kind and scenario are chosen once.
LEMMA ScenarioStays ==
  ASSUME Shape, [Next]_vars
  PROVE  env'.may = env.may /\ kind' = kind
  <1>1. CASE Observe
    BY <1>1, ObserveFrame DEF Shape
  <1>2. CASE Finalize
    BY <1>2 DEF Finalize, FinalizeDNSet, FinalizeProxySet, FinalizeWebUI, DeleteOwned, Counted, Shape
  <1>3. CASE Rollout \/ Crash
    BY <1>3 DEF Rollout, Crash, SetPods, Shape
  <1>4. CASE DeliverPods \/ SyncCluster \/ DeleteSet \/ UNCHANGED vars
    BY <1>4 DEF DeliverPods, SyncCluster, DeleteSet, vars
  <1>6. CASE Failover \/ ScaleLogSet
    BY <1>6, StoresFrame DEF Shape
  <1>5. CASE EditSet \/ EditCluster
    BY <1>5 DEF EditSet, EditCluster, Edited, Shape
  <1> QED BY <1>1, <1>2, <1>3, <1>4, <1>5, <1>6 DEF Next

LEMMA ShapeInductive ==
  ASSUME Shape, [Next]_vars
  PROVE  Shape'
  <1>1. CASE Observe
    <2>1. UNCHANGED <<kind, mo, pods, listed, log, obj>>
      BY <1>1, ObserveFrame
    <2>2. maps' = [inplace |-> maps'.inplace, legacy |-> maps'.legacy]
      BY <1>1, ObserveFrame DEF SyncConfigMap, SyncedMaps, ensureConfigMapLegacy, Shape
    <2>3. env' = [may |-> env'.may, edits |-> env'.edits, faults |-> env'.faults]
      BY <1>1, ObserveFrame DEF Shape
    <2> QED BY <2>1, <2>2, <2>3 DEF Shape, Existing
  <1>2. CASE Finalize
    BY <1>2 DEF Finalize, FinalizeDNSet, FinalizeProxySet, FinalizeWebUI, DeleteOwned, Counted, Shape,
                Existing
  <1>3. CASE Rollout \/ Crash
    <2>1. PICK p, x :
           /\ p \in Pods
           /\ SetPods([pods EXCEPT ![p] = x])
           /\ \/ x = NONE
              \/ x = Fresh(wl.t) /\ (Cardinality(Existing) < wl.replicas \/ wl.st = "live")
              \/ p \in Existing /\ x = Fresh(pods[p].t)
              \/ /\ p \in Existing /\ ConfigFound(pods[p].t) # {}
                 /\ x = [t |-> pods[p].t, conf |-> ConfigFound(pods[p].t)]
           /\ UNCHANGED env \/ \E n : env' = [env EXCEPT !.faults = n]
      BY <1>3, PodsStep
    <2>2. x = NONE \/ IsPod(x)
      BY <2>1, FreshIsPod DEF IsPod
    <2> QED BY <2>1, <2>2, SetPodsShape
  <1>4. CASE DeliverPods
    BY <1>4 DEF DeliverPods, Shape, Existing
  <1>5. CASE EditSet
    BY <1>5 DEF EditSet, Edited, Shape, Existing
  <1>6. CASE EditCluster
    BY <1>6 DEF EditCluster, Edited, Shape, Existing
  <1>7. CASE SyncCluster
    BY <1>7 DEF SyncCluster, Shape, Existing
  <1>8. CASE DeleteSet
    BY <1>8 DEF DeleteSet, Shape, Existing
  <1>9. CASE Failover \/ ScaleLogSet
    <2>1. UNCHANGED <<kind, mo, obj, wl, maps, pods, listed>>
      BY <1>9, StoresFrame
    <2>2. env' = [may |-> env'.may, edits |-> env'.edits, faults |-> env'.faults]
      BY <1>9, StoresFrame DEF Shape
    <2> QED BY <2>1, <2>2 DEF Shape, Existing
  <1>10. CASE UNCHANGED vars
    BY <1>10 DEF vars, Shape, Existing
  <1> QED BY <1>1, <1>2, <1>3, <1>4, <1>5, <1>6, <1>7, <1>8, <1>9, <1>10 DEF Next

-----------------------------------------------------------------------------
(* Pods keep their configuration *)

\* The map that is updated in place: the dashboard's has a configuration that
\* all pods read, that of the other kinds only configurations by their digest.
MapsFit ==
  \A m \in maps.inplace : IF kind = "WebUI" THEN ~m.script.inplace /\ m.plain # {}
                          ELSE m.script.inplace /\ m.plain = {}

\* Unless the cache lags it has the pods there are.
CacheFresh == "lag" \notin env.may => \A p \in Pods : listed[p] = TemplateIn(pods[p])

\* A pod that has started would find a configuration again.
Kept == "lag" \notin env.may => \A p \in Existing : pods[p].conf # {} => ConfigFound(pods[p].t) # {}

KeptInv == Shape /\ MapsFit /\ CacheFresh /\ Kept

LEMMA SyncedMap == Synced.cm = buildConfigMap(kind, obj.spec, Config(kind, obj.spec, log))
  BY DEF Synced, syncPods

\* What writing the config map does to the one that is updated in place.
LEMMA SyncInplace ==
  ASSUME Shape, maps' = SyncConfigMap(obj.spec, Synced.cm)
  PROVE  \/ maps'.inplace = maps.inplace
         \/ \E m : /\ maps'.inplace = {m}
                   /\ m.script.inplace = (kind # "WebUI")
                   /\ m.plain = IF kind = "WebUI" THEN {Config(kind, obj.spec, log)} ELSE {}
                   /\ KeptInUse(maps.inplace, ListedPods) \subseteq m.keyed
  <1> DEFINE cm == Synced.cm
             m == [cm EXCEPT !.keyed = @ \cup KeptInUse(maps.inplace, ListedPods)]
  <1>1. CASE ~InplaceConfigmapUpdate(obj.spec)
    BY <1>1 DEF SyncConfigMap, SyncedMaps, ensureConfigMapLegacy, Shape
  <1>2. CASE InplaceConfigmapUpdate(obj.spec)
    <2>1. maps'.inplace = {m}
      BY <1>2 DEF SyncConfigMap, SyncedMaps, ensureConfigMap, Shape
    <2>2. /\ cm = [script |-> cm.script, plain |-> cm.plain, keyed |-> cm.keyed]
          /\ cm.script.inplace = (kind # "WebUI")
          /\ cm.plain = IF kind = "WebUI" THEN {Config(kind, obj.spec, log)} ELSE {}
      BY <1>2, SyncedMap DEF buildConfigMap, StartScript
    <2>3. /\ m.script = cm.script /\ m.plain = cm.plain
          /\ m.keyed = cm.keyed \cup KeptInUse(maps.inplace, ListedPods)
      BY <2>2
    <2> HIDE DEF m, cm
    <2> QED BY <2>1, <2>2, <2>3
  <1> QED BY <1>1, <1>2

LEMMA SyncFits ==
  ASSUME Shape, MapsFit, maps' = SyncConfigMap(obj.spec, Synced.cm), UNCHANGED kind
  PROVE  MapsFit'
  BY SyncInplace DEF MapsFit

\* A configuration that a pod of the list carries stays in the map.
LEMMA SyncKeeps ==
  ASSUME KeptInv, maps' = SyncConfigMap(obj.spec, Synced.cm), UNCHANGED <<kind, pods>>,
         "lag" \notin env.may, NEW p \in Existing, pods[p].conf # {}
  PROVE  ConfigFound(pods[p].t)' # {}
  <1> DEFINE t == pods[p].t
  <1>1. ConfigFound(t) # {}
    BY DEF KeptInv, Kept
  <1>2. CASE t.volumes["config"] # {} \/ maps'.inplace = maps.inplace
    BY <1>1, <1>2 DEF ConfigFound, ConfigRead
  <1>3. CASE t.volumes["config"] = {} /\ maps'.inplace # maps.inplace
    <2>1. PICK m : /\ maps'.inplace = {m}
                   /\ m.script.inplace = (kind # "WebUI")
                   /\ m.plain = IF kind = "WebUI" THEN {Config(kind, obj.spec, log)} ELSE {}
                   /\ KeptInUse(maps.inplace, ListedPods) \subseteq m.keyed
      BY <1>3, SyncInplace DEF KeptInv
    <2>2. ConfigFound(t)' = ConfigRead(t, m)
      <3>1. ConfigFound(t)' = UNION {ConfigRead(t, x) : x \in {m}}
        BY <1>3, <2>1 DEF ConfigFound
      <3>2. UNION {ConfigRead(t, x) : x \in {m}} = ConfigRead(t, m)
        OBVIOUS
      <3> QED BY <3>1, <3>2
    <2>3. PICK old \in maps.inplace : ConfigRead(t, old) # {}
      BY <1>1, <1>3 DEF ConfigFound
    <2>4. CASE kind = "WebUI"
      <3>1. ~m.script.inplace /\ m.plain # {}
        BY <2>1, <2>4
      <3>2. ConfigRead(t, m) = m.plain
        BY <3>1 DEF ConfigRead
      <3> QED BY <2>2, <3>1, <3>2
    <2>5. CASE kind # "WebUI"
      <3>1. old.script.inplace /\ old.plain = {}
        BY <2>5 DEF KeptInv, MapsFit
      <3>2. /\ "CONFIG_SUFFIX" \in DOMAIN t.env
            /\ "config-suffix" \in DOMAIN t.annotations
            /\ t.annotations["config-suffix"] \in old.keyed
        BY <2>3, <3>1 DEF ConfigRead
      <3>3. p \in Pods /\ t \in listed[p]
        BY DEF KeptInv, CacheFresh, TemplateIn, Existing
      <3>4. t \in ListedPods
        BY <3>3 DEF ListedPods
      <3>5. t.annotations["config-suffix"] \in KeptInUse(maps.inplace, ListedPods)
        BY <3>2, <3>4 DEF KeptInUse, configInUse
      <3>6. t.annotations["config-suffix"] \in m.keyed
        BY <2>1, <3>5
      <3> QED BY <2>1, <2>2, <2>5, <3>2, <3>6 DEF ConfigRead
    <2> QED BY <2>4, <2>5
  <1> QED BY <1>2, <1>3

\* What a pod finds depends on the maps and on its template only.
LEMMA SetPodsKeeps ==
  ASSUME KeptInv, NEW p \in Pods, NEW x, SetPods([pods EXCEPT ![p] = x]), env'.may = env.may,
         \/ x = NONE
         \/ x.conf = {}
         \/ ConfigFound(x.t) # {}
  PROVE  MapsFit' /\ CacheFresh' /\ Kept'
  <1>1. /\ UNCHANGED <<kind, maps>>
        /\ \A q \in Pods : pods'[q] = IF q = p THEN x ELSE pods[q]
    BY DEF SetPods, KeptInv, Shape
  <1>2. MapsFit'
    BY <1>1 DEF KeptInv, MapsFit
  <1>3. CacheFresh'
    BY DEF SetPods, May, CacheFresh
  <1>4. \A q \in Existing' : q \in Pods /\ (q # p => q \in Existing /\ pods'[q] = pods[q])
    BY <1>1 DEF Existing
  <1>5. ASSUME "lag" \notin env.may, NEW q \in Existing', pods'[q].conf # {}
        PROVE  ConfigFound(pods[q].t)' # {}
    <2>1. CASE q = p
      <3>1. pods'[q] = x /\ x # NONE
        BY <1>1, <1>4, <1>5, <2>1 DEF Existing
      <3>2. ConfigFound(pods'[q].t) # {}
        BY <1>5, <3>1
      <3> QED BY <1>1, <3>2 DEF ConfigFound
    <2>2. CASE q # p
      <3>1. ConfigFound(pods[q].t) # {} /\ pods'[q] = pods[q]
        BY <1>4, <1>5, <2>2 DEF KeptInv, Kept
      <3> QED BY <1>1, <3>1 DEF ConfigFound
    <2> QED BY <2>1, <2>2
  <1>6. Kept'
    BY <1>5 DEF Kept
  <1> QED BY <1>2, <1>3, <1>6

LEMMA KeptInductive ==
  ASSUME KeptInv, [Next]_vars
  PROVE  KeptInv'
  <1>0. Shape'
    BY ShapeInductive DEF KeptInv
  <1>1. CASE Observe
    <2>1. UNCHANGED <<kind, mo, pods, listed, log, obj>> /\ env'.may = env.may
      BY <1>1, ObserveFrame DEF KeptInv, Shape
    <2>2. CASE maps' = maps
      <3>1. ASSUME NEW t PROVE ConfigFound(t)' = ConfigFound(t')
        BY <2>2 DEF ConfigFound
      <3> QED BY <1>0, <2>1, <2>2, <3>1
              DEF KeptInv, MapsFit, CacheFresh, TemplateIn, Kept, Existing, ConfigFound
    <2>3. CASE maps' = SyncConfigMap(obj.spec, Synced.cm)
      <3>1. MapsFit'
        BY <2>1, <2>3, SyncFits DEF KeptInv
      <3>2. CacheFresh'
        BY <2>1 DEF KeptInv, CacheFresh, TemplateIn
      <3>3. Existing' = Existing
        BY <2>1 DEF Existing
      <3>4. ASSUME "lag" \notin env'.may, NEW p \in Existing', pods'[p].conf # {}
            PROVE  ConfigFound(pods[p].t)' # {}
        BY <2>1, <2>3, <3>3, <3>4, SyncKeeps
      <3>5. Kept'
        BY <3>4 DEF Kept
      <3> QED BY <1>0, <3>1, <3>2, <3>5 DEF KeptInv
    <2> QED BY <1>1, <2>2, <2>3, ObserveFrame
  <1>3. CASE Rollout \/ Crash
    <2>1. PICK p, x :
           /\ p \in Pods
           /\ SetPods([pods EXCEPT ![p] = x])
           /\ \/ x = NONE
              \/ x = Fresh(wl.t) /\ (Cardinality(Existing) < wl.replicas \/ wl.st = "live")
              \/ p \in Existing /\ x = Fresh(pods[p].t)
              \/ /\ p \in Existing /\ ConfigFound(pods[p].t) # {}
                 /\ x = [t |-> pods[p].t, conf |-> ConfigFound(pods[p].t)]
           /\ UNCHANGED env \/ \E n : env' = [env EXCEPT !.faults = n]
      BY <1>3, PodsStep DEF KeptInv
    <2>2. x = NONE \/ x.conf = {} \/ ConfigFound(x.t) # {}
      BY <2>1 DEF Fresh
    <2>3. env'.may = env.may
      BY <2>1 DEF KeptInv, Shape
    <2> QED BY <1>0, <2>1, <2>2, <2>3, SetPodsKeeps DEF KeptInv
  <1>4. CASE DeliverPods
    BY <1>0, <1>4 DEF DeliverPods, May, KeptInv, MapsFit, CacheFresh, Kept
  <1>5. CASE UNCHANGED <<kind, maps, pods, listed, env>>
    BY <1>0, <1>5 DEF KeptInv, MapsFit, CacheFresh, Kept, TemplateIn, Existing, ConfigFound
  <1>6. CASE UNCHANGED <<kind, maps, pods, listed>> /\ env'.may = env.may
    BY <1>0, <1>6 DEF KeptInv, MapsFit, CacheFresh, Kept, TemplateIn, Existing, ConfigFound
  <1>7. CASE Finalize
    <2>1. UNCHANGED <<kind, maps, pods, listed>> /\ env'.may = env.may
      BY <1>7 DEF Finalize, FinalizeDNSet, FinalizeProxySet, FinalizeWebUI, DeleteOwned, Counted,
                  KeptInv, Shape
    <2> QED BY <1>6, <2>1
  <1>8. CASE EditSet \/ EditCluster
    <2>1. UNCHANGED <<kind, maps, pods, listed>> /\ env'.may = env.may
      BY <1>8 DEF EditSet, EditCluster, Edited, KeptInv, Shape
    <2> QED BY <1>6, <2>1
  <1>9. CASE SyncCluster \/ DeleteSet
    BY <1>5, <1>9 DEF SyncCluster, DeleteSet
  <1>10. CASE UNCHANGED vars
    BY <1>5, <1>10 DEF vars
  <1>11. CASE Failover \/ ScaleLogSet
    <2>1. UNCHANGED <<kind, maps, pods, listed>> /\ env'.may = env.may
      BY <1>11, StoresFrame DEF KeptInv, Shape
    <2> QED BY <1>6, <2>1
  <1> QED BY <1>1, <1>3, <1>4, <1>7, <1>8, <1>9, <1>10, <1>11 DEF Next

LEMMA KeptInit == Init => KeptInv
  BY DEF Init, KeptInv, Shape, MapsFit, CacheFresh, Kept, TemplateIn, Existing

\* The controller never takes a configuration out of the config map that a pod
\* has started with, whatever is edited, upgraded, failed over or lost
\* (ensureConfigMap), if the cache of pods is not behind.
THEOREM ConfigurationsKept == Spec => ConfigKept
  <1>1. KeptInv /\ [Next]_vars => KeptInv'
    BY KeptInductive
  <1>2. ASSUME KeptInv, [Next]_vars, NEW p \in Existing, pods[p].conf # {}, pods'[p] = pods[p],
               "lag" \notin env.may
        PROVE  ConfigFound(pods[p].t)' # {}
    <2>1. KeptInv'
      BY <1>1, <1>2
    <2>2. env'.may = env.may
      BY <1>2, ScenarioStays DEF KeptInv
    <2>3. p \in Existing'
      BY <1>2 DEF Existing
    <2> QED BY <1>2, <2>1, <2>2, <2>3 DEF KeptInv, Kept
  <1>3. KeptInv /\ [Next]_vars =>
          [\A p \in Existing : (pods[p].conf # {} /\ pods'[p] = pods[p] /\ "lag" \notin env.may)
                                 => ConfigFound(pods[p].t)' # {}]_vars
    BY <1>2
  <1> QED BY <1>1, <1>3, KeptInit, PTL DEF Spec, ConfigKept

-----------------------------------------------------------------------------
(* Specs *)

SpecFields == DOMAIN BaseSpec

Volumes == {Volume(n) : n \in {5, 10, 20}}

\* What admission looks at, field by field.
FieldOK(f, v) ==
  /\ f = "image" => v = [name |-> "mo", tag |-> v.tag] /\ v.tag \in {NONE, <<1, 1, 0>>, <<2, 0, 0>>}
  /\ f = "semanticVersion" => v \in {NONE, <<1, 2, 0>>}
  /\ f = "operatorVersion" => v \in {NONE, LatestOpVersion}
  /\ f = "overlay" => v \in Overlays \cup {NONE}
  /\ f = "promDiscoveryScheme" => v \in {NONE, "Pod", "Service"}
  /\ f = "memoryLimitPercent" => v \in {NONE, 50}
  /\ f = "volume" => v \in Volumes
  /\ f = "cacheVolume" => v \in Volumes \cup {NONE}
  /\ f = "serviceType" => v \in {NONE, "ClusterIP", "NodePort"}
  /\ f = "labels" => v = {}
  /\ f = "replicas" => v \in {1, 2}
  /\ f = "config" => validateConfig(v)
  /\ f = "sharedStorage" => v = FileStorage
  /\ f \in {"logShardReplicas", "logShards", "dnShards"} => v \in {NONE, 1}
  /\ f = "restoreFrom" => v = NONE

\* The specs that edits, webhooks and the cluster make.
SpecOK(s) ==
  /\ s = [f \in SpecFields |-> s[f]]
  /\ \A f \in SpecFields : FieldOK(f, s[f])
  /\ s.nodePort # NONE => s.serviceType = "NodePort"

LEMMA Fields ==
  SpecFields = {"image", "memory", "serviceArgs", "overlay", "semanticVersion", "operatorVersion",
    "exportToPrometheus", "promDiscoveryScheme", "memoryLimitPercent", "memoryFsSize",
    "topologyEvenSpread", "nodeSelector", "replicas", "config", "volume", "cacheVolume",
    "memoryCacheSize", "diskCacheSize", "dnsBasedIdentity", "labels", "podManagementPolicy",
    "pythonUdfSidecar", "role", "pauseUpdate", "serviceType", "nodePort", "storeDrainEnabled",
    "storeDrainTimeout", "maxSurge", "maxUnavailable", "sharedStorage", "restoreFrom",
    "logShardReplicas", "logShards", "dnShards", "storeFailureTimeout", "pvcRetentionPolicy"}
  BY DEF SpecFields, BaseSpec

\* A change of one field.
LEMMA Changed ==
  ASSUME NEW s, s = [f \in SpecFields |-> s[f]], NEW g \in SpecFields, NEW v
  PROVE  LET r == [s EXCEPT ![g] = v]
         IN /\ r = [f \in SpecFields |-> r[f]]
            /\ r[g] = v
            /\ \A f \in SpecFields : f # g => r[f] = s[f]
  OBVIOUS

LEMMA FieldChange ==
  ASSUME NEW s, SpecOK(s), NEW g \in SpecFields, NEW v, FieldOK(g, v),
         g = "nodePort" => s.serviceType = "NodePort",
         g = "serviceType" => v = "NodePort" \/ s.nodePort = NONE
  PROVE  SpecOK([s EXCEPT ![g] = v])
  <1> DEFINE r == [s EXCEPT ![g] = v]
  <1>1. /\ r = [f \in SpecFields |-> r[f]]
        /\ r[g] = v
        /\ \A f \in SpecFields : f # g => r[f] = s[f]
    BY Changed DEF SpecOK
  <1> HIDE DEF r
  <1>2. \A f \in SpecFields : FieldOK(f, r[f])
    BY <1>1 DEF SpecOK
  <1>3. "nodePort" \in SpecFields /\ "serviceType" \in SpecFields
    BY Fields
  <1>4. r.nodePort # NONE => r.serviceType = "NodePort"
    BY <1>1, <1>3 DEF SpecOK
  <1>5. SpecOK(r)
    BY <1>1, <1>2, <1>4 DEF SpecOK
  <1> QED BY <1>5 DEF r

LEMMA BaseOK == SpecOK(BaseSpec) /\ SpecOK([BaseSpec EXCEPT !.operatorVersion = NONE])
  <1>1. BaseSpec = [f \in SpecFields |-> BaseSpec[f]]
    BY DEF SpecFields, BaseSpec
  <1>2. ASSUME NEW f \in SpecFields PROVE FieldOK(f, BaseSpec[f])
    BY Fields DEF FieldOK, BaseSpec, Volumes, Volume, validateConfig
  <1>3. BaseSpec.nodePort = NONE
    BY DEF BaseSpec
  <1>4. SpecOK(BaseSpec)
    BY <1>1, <1>2, <1>3 DEF SpecOK
  <1>5. "operatorVersion" \in SpecFields /\ FieldOK("operatorVersion", NONE)
    BY Fields DEF FieldOK
  <1> QED BY <1>4, <1>5, FieldChange

OverlayFields == {"podLabels", "podAnnotations", "volumes", "spec", "sidecarContainers", "main",
                  "env", "volumeMounts", "valid"}

IsOverlay(o) == o = [f \in OverlayFields |-> o[f]]

LEMMA BaseOverlays == IsOverlay(NoOverlay) /\ IsOverlay(Sidecar)
  <1>1. IsOverlay(NoOverlay)
    BY DEF IsOverlay, NoOverlay, OverlayFields
  <1>2. DOMAIN Sidecar = OverlayFields /\ Sidecar = [f \in DOMAIN Sidecar |-> Sidecar[f]]
    BY <1>1 DEF IsOverlay, Sidecar
  <1> QED BY <1>1, <1>2 DEF IsOverlay

LEMMA UpsertTwice ==
  ASSUME NEW f, NEW g
  PROVE  /\ Upsert(f, Upsert(f, g)) = Upsert(f, g)
         /\ Upsert(Upsert(f, g), g) = Upsert(f, g)
  BY DEF Upsert

\* The overlays are closed under what the webhooks and the cluster do to them.
LEMMA OverlaysClosed ==
  /\ NoOverlay \in Overlays /\ Sidecar \in Overlays
  /\ \A o \in Overlays :
       /\ IsOverlay(o)
       /\ o.valid
       /\ "terminationGracePeriodSeconds" \in DOMAIN o.spec => o.spec["terminationGracePeriodSeconds"] = 30
       /\ "config-suffix" \notin DOMAIN o.podAnnotations
       /\ [o EXCEPT !.env = Upsert([GODEBUG |-> "default"], @)] \in Overlays
       /\ [o EXCEPT !.podLabels = Upsert(@, [cluster |-> "mo"])] \in Overlays
  <1> DEFINE G == [GODEBUG |-> "default"]
             C == [cluster |-> "mo"]
             Of(b, e, l) == [b EXCEPT !.env = e, !.podLabels = l]
  <1>1. ASSUME NEW b \in {NoOverlay, Sidecar}, NEW e \in {b.env, Upsert(G, b.env)},
               NEW l \in {b.podLabels, Upsert(b.podLabels, C)}
        PROVE  Of(b, e, l) \in Overlays
    <2> DEFINE E == {b.env, Upsert(G, b.env)}
               L == {b.podLabels, Upsert(b.podLabels, C)}
    <2>1. OverlaysOf(b) = {Of(b, x, y) : x \in E, y \in L}
      BY DEF OverlaysOf
    <2>2. e \in E /\ l \in L
      OBVIOUS
    <2> HIDE DEF Of, E, L
    <2>3. Of(b, e, l) \in {Of(b, x, y) : x \in E, y \in L}
      BY <2>2
    <2> QED BY <2>1, <2>3 DEF Overlays
  <1>2. ASSUME NEW b \in {NoOverlay, Sidecar}
        PROVE  b = Of(b, b.env, b.podLabels)
    <2>1. IsOverlay(b)
      BY BaseOverlays
    <2> QED BY <2>1 DEF IsOverlay, OverlayFields
  <1>3. NoOverlay \in Overlays /\ Sidecar \in Overlays
    BY <1>1, <1>2
  <1>4. ASSUME NEW o \in Overlays
        PROVE  /\ IsOverlay(o)
               /\ o.valid
               /\ "terminationGracePeriodSeconds" \in DOMAIN o.spec
                    => o.spec["terminationGracePeriodSeconds"] = 30
               /\ "config-suffix" \notin DOMAIN o.podAnnotations
               /\ [o EXCEPT !.env = Upsert(G, @)] \in Overlays
               /\ [o EXCEPT !.podLabels = Upsert(@, C)] \in Overlays
    <2>0. PICK b \in {NoOverlay, Sidecar} : o \in OverlaysOf(b)
      BY DEF Overlays
    <2>1. PICK e \in {b.env, Upsert(G, b.env)}, l \in {b.podLabels, Upsert(b.podLabels, C)} :
            o = Of(b, e, l)
      BY <2>0 DEF OverlaysOf
    <2>2. IsOverlay(b)
      BY BaseOverlays
    <2>3. /\ IsOverlay(o) /\ o.env = e /\ o.podLabels = l /\ o.spec = b.spec /\ o.valid = b.valid
          /\ o.podAnnotations = b.podAnnotations
      BY <2>1, <2>2 DEF IsOverlay, OverlayFields
    <2>4. /\ b.valid
          /\ "terminationGracePeriodSeconds" \in DOMAIN b.spec
               => b.spec["terminationGracePeriodSeconds"] = 30
          /\ "config-suffix" \notin DOMAIN b.podAnnotations
      <3>1. CASE b = NoOverlay
        BY <3>1 DEF NoOverlay
      <3>2. CASE b = Sidecar
        <4>1. IsOverlay(NoOverlay) /\ NoOverlay.valid = TRUE
          BY BaseOverlays DEF NoOverlay
        <4>2. /\ Sidecar.valid = NoOverlay.valid
              /\ Sidecar.spec = [terminationGracePeriodSeconds |-> 30]
              /\ Sidecar.podAnnotations = [note |-> "a"]
          BY <4>1 DEF Sidecar, IsOverlay, OverlayFields
        <4> QED BY <3>2, <4>1, <4>2
      <3> QED BY <3>1, <3>2
    <2>5. Upsert(G, e) = Upsert(G, b.env) /\ Upsert(l, C) = Upsert(b.podLabels, C)
      BY UpsertTwice
    <2>6. [o EXCEPT !.env = Upsert(G, @)] = Of(b, Upsert(G, b.env), l)
      BY <2>1, <2>2, <2>3, <2>5 DEF IsOverlay, OverlayFields
    <2>7. [o EXCEPT !.podLabels = Upsert(@, C)] = Of(b, e, Upsert(b.podLabels, C))
      BY <2>1, <2>2, <2>3, <2>5 DEF IsOverlay, OverlayFields
    <2> HIDE DEF Of
    <2> QED BY <1>1, <2>3, <2>4, <2>6, <2>7
  <1> QED BY <1>3, <1>4

\* No edit leads out of the specs.
LEMMA EditOK ==
  ASSUME NEW s, SpecOK(s), NEW e \in EditNames
  PROVE  SpecOK(Edit(e, s))
  <1>1. CASE e = "image"
    <2>1. Edit(e, s) = [s EXCEPT !.image = [s.image EXCEPT !.tag = <<2, 0, 0>>]]
      BY <1>1 DEF Edit
    <2>2. "image" \in SpecFields /\ FieldOK("image", [s.image EXCEPT !.tag = <<2, 0, 0>>])
      BY Fields DEF FieldOK, SpecOK
    <2>3. SpecOK([s EXCEPT !.image = [s.image EXCEPT !.tag = <<2, 0, 0>>]])
      BY <2>2, FieldChange
    <2> QED BY <2>1, <2>3
  <1>2. CASE e = "config"
    <2>1. Edit(e, s) = [s EXCEPT !.config = [log |-> Table([level |-> Val("debug")])]]
      BY <1>2 DEF Edit
    <2>2. "config" \in SpecFields /\ FieldOK("config", [log |-> Table([level |-> Val("debug")])])
      BY Fields DEF FieldOK, validateConfig, Has
    <2>3. SpecOK([s EXCEPT !.config = [log |-> Table([level |-> Val("debug")])]])
      BY <2>2, FieldChange
    <2> QED BY <2>1, <2>3
  <1>3. CASE e = "tn"
    <2>1. Edit(e, s) = [s EXCEPT !.config = [tn |-> Table(Empty)]]
      BY <1>3 DEF Edit
    <2>2. "config" \in SpecFields /\ FieldOK("config", [tn |-> Table(Empty)])
      BY Fields DEF FieldOK, validateConfig, Has
    <2>3. SpecOK([s EXCEPT !.config = [tn |-> Table(Empty)]])
      BY <2>2, FieldChange
    <2> QED BY <2>1, <2>3
  <1>4. CASE e = "memory"
    <2>1. Edit(e, s) = [s EXCEPT !.memory = 8, !.memoryLimitPercent = 50]
      BY <1>4 DEF Edit
    <2>2. "memory" \in SpecFields /\ FieldOK("memory", 8)
      BY Fields DEF FieldOK
    <2>3. "memoryLimitPercent" \in SpecFields /\ FieldOK("memoryLimitPercent", 50)
      BY Fields DEF FieldOK
    <2>4. SpecOK([s EXCEPT !.memory = 8])
      BY <2>2, FieldChange
    <2>5. SpecOK([s EXCEPT !.memory = 8, !.memoryLimitPercent = 50])
      BY <2>3, <2>4, FieldChange
    <2> QED BY <2>1, <2>5
  <1>5. CASE e = "prom"
    <2>1. Edit(e, s) = [s EXCEPT !.exportToPrometheus = TRUE, !.promDiscoveryScheme = IF kind = "CNSet" THEN s.promDiscoveryScheme ELSE "Pod"]
      BY <1>5 DEF Edit
    <2>2. "exportToPrometheus" \in SpecFields /\ FieldOK("exportToPrometheus", TRUE)
      BY Fields DEF FieldOK, SpecOK
    <2>3. "promDiscoveryScheme" \in SpecFields /\ FieldOK("promDiscoveryScheme", IF kind = "CNSet" THEN s.promDiscoveryScheme ELSE "Pod")
      BY Fields DEF FieldOK, SpecOK
    <2>4. SpecOK([s EXCEPT !.exportToPrometheus = TRUE])
      BY <2>2, FieldChange
    <2>5. SpecOK([s EXCEPT !.exportToPrometheus = TRUE, !.promDiscoveryScheme = IF kind = "CNSet" THEN s.promDiscoveryScheme ELSE "Pod"])
      BY <2>3, <2>4, FieldChange
    <2> QED BY <2>1, <2>5
  <1>6. CASE e = "overlay"
    <2>1. Edit(e, s) = [s EXCEPT !.overlay = Sidecar, !.pythonUdfSidecar = "udf"]
      BY <1>6 DEF Edit
    <2>2. "overlay" \in SpecFields /\ FieldOK("overlay", Sidecar)
      BY Fields, OverlaysClosed DEF FieldOK
    <2>3. "pythonUdfSidecar" \in SpecFields /\ FieldOK("pythonUdfSidecar", "udf")
      BY Fields, OverlaysClosed DEF FieldOK
    <2>4. SpecOK([s EXCEPT !.overlay = Sidecar])
      BY <2>2, FieldChange
    <2>5. SpecOK([s EXCEPT !.overlay = Sidecar, !.pythonUdfSidecar = "udf"])
      BY <2>3, <2>4, FieldChange
    <2> QED BY <2>1, <2>5
  <1>7. CASE e = "operator"
    <2>1. Edit(e, s) = [s EXCEPT !.operatorVersion = LatestOpVersion]
      BY <1>7 DEF Edit
    <2>2. "operatorVersion" \in SpecFields /\ FieldOK("operatorVersion", LatestOpVersion)
      BY Fields DEF FieldOK
    <2>3. SpecOK([s EXCEPT !.operatorVersion = LatestOpVersion])
      BY <2>2, FieldChange
    <2> QED BY <2>1, <2>3
  <1>8. CASE e = "memfs"
    <2>1. Edit(e, s) = [s EXCEPT !.memoryFsSize = 1, !.semanticVersion = <<1, 2, 0>>]
      BY <1>8 DEF Edit
    <2>2. "memoryFsSize" \in SpecFields /\ FieldOK("memoryFsSize", 1)
      BY Fields DEF FieldOK
    <2>3. "semanticVersion" \in SpecFields /\ FieldOK("semanticVersion", <<1, 2, 0>>)
      BY Fields DEF FieldOK
    <2>4. SpecOK([s EXCEPT !.memoryFsSize = 1])
      BY <2>2, FieldChange
    <2>5. SpecOK([s EXCEPT !.memoryFsSize = 1, !.semanticVersion = <<1, 2, 0>>])
      BY <2>3, <2>4, FieldChange
    <2> QED BY <2>1, <2>5
  <1>9. CASE e = "scale"
    <2>1. Edit(e, s) = [s EXCEPT !.replicas = 2]
      BY <1>9 DEF Edit
    <2>2. "replicas" \in SpecFields /\ FieldOK("replicas", 2)
      BY Fields DEF FieldOK
    <2>3. SpecOK([s EXCEPT !.replicas = 2])
      BY <2>2, FieldChange
    <2> QED BY <2>1, <2>3
  <1>10. CASE e = "grow"
    <2>1. Edit(e, s) = [s EXCEPT !.cacheVolume = Volume(20), !.volume = Volume(20)]
      BY <1>10 DEF Edit
    <2>2. "cacheVolume" \in SpecFields /\ FieldOK("cacheVolume", Volume(20))
      BY Fields DEF FieldOK, Volumes
    <2>3. "volume" \in SpecFields /\ FieldOK("volume", Volume(20))
      BY Fields DEF FieldOK, Volumes
    <2>4. SpecOK([s EXCEPT !.cacheVolume = Volume(20)])
      BY <2>2, FieldChange
    <2>5. SpecOK([s EXCEPT !.cacheVolume = Volume(20), !.volume = Volume(20)])
      BY <2>3, <2>4, FieldChange
    <2> QED BY <2>1, <2>5
  <1>11. CASE e = "shrink"
    <2>1. Edit(e, s) = [s EXCEPT !.cacheVolume = Volume(5), !.volume = Volume(5)]
      BY <1>11 DEF Edit
    <2>2. "cacheVolume" \in SpecFields /\ FieldOK("cacheVolume", Volume(5))
      BY Fields DEF FieldOK, Volumes
    <2>3. "volume" \in SpecFields /\ FieldOK("volume", Volume(5))
      BY Fields DEF FieldOK, Volumes
    <2>4. SpecOK([s EXCEPT !.cacheVolume = Volume(5)])
      BY <2>2, FieldChange
    <2>5. SpecOK([s EXCEPT !.cacheVolume = Volume(5), !.volume = Volume(5)])
      BY <2>3, <2>4, FieldChange
    <2> QED BY <2>1, <2>5
  <1>12. CASE e = "novolume"
    <2>1. Edit(e, s) = [s EXCEPT !.cacheVolume = NONE]
      BY <1>12 DEF Edit
    <2>2. "cacheVolume" \in SpecFields /\ FieldOK("cacheVolume", NONE)
      BY Fields DEF FieldOK
    <2>3. SpecOK([s EXCEPT !.cacheVolume = NONE])
      BY <2>2, FieldChange
    <2> QED BY <2>1, <2>3
  <1>13. CASE e = "pause"
    <2>1. Edit(e, s) = [s EXCEPT !.pauseUpdate = ~s.pauseUpdate]
      BY <1>13 DEF Edit
    <2>2. "pauseUpdate" \in SpecFields /\ FieldOK("pauseUpdate", ~s.pauseUpdate)
      BY Fields DEF FieldOK
    <2>3. SpecOK([s EXCEPT !.pauseUpdate = ~s.pauseUpdate])
      BY <2>2, FieldChange
    <2> QED BY <2>1, <2>3
  <1>14. CASE e = "drain"
    <2>1. Edit(e, s) = [s EXCEPT !.storeDrainEnabled = TRUE]
      BY <1>14 DEF Edit
    <2>2. "storeDrainEnabled" \in SpecFields /\ FieldOK("storeDrainEnabled", TRUE)
      BY Fields DEF FieldOK
    <2>3. SpecOK([s EXCEPT !.storeDrainEnabled = TRUE])
      BY <2>2, FieldChange
    <2> QED BY <2>1, <2>3
  <1>15. CASE e = "expose"
    <2>1. Edit(e, s) = [s EXCEPT !.serviceType = "NodePort", !.nodePort = 30000]
      BY <1>15 DEF Edit
    <2>2. "serviceType" \in SpecFields /\ FieldOK("serviceType", "NodePort")
      BY Fields DEF FieldOK
    <2>3. "nodePort" \in SpecFields /\ FieldOK("nodePort", 30000)
      BY Fields DEF FieldOK
    <2>4. SpecOK([s EXCEPT !.serviceType = "NodePort"])
      BY <2>2, FieldChange
    <2>6. [s EXCEPT !.serviceType = "NodePort"].serviceType = "NodePort"
      <3>1. s = [f \in SpecFields |-> s[f]]
        BY DEF SpecOK
      <3> QED BY <2>2, <3>1
    <2> DEFINE r == [s EXCEPT !.serviceType = "NodePort"]
    <2>7. SpecOK(r) /\ r.serviceType = "NodePort"
      BY <2>4, <2>6
    <2> HIDE DEF r
    <2>5. SpecOK([r EXCEPT !.nodePort = 30000])
      BY <2>3, <2>7, FieldChange
    <2> QED BY <2>1, <2>5 DEF r
  <1>16. CASE e = "unversioned"
    <2>1. Edit(e, s) = [s EXCEPT !.image = [s.image EXCEPT !.tag = NONE]]
      BY <1>16 DEF Edit
    <2>2. "image" \in SpecFields /\ FieldOK("image", [s.image EXCEPT !.tag = NONE])
      BY Fields DEF FieldOK, SpecOK
    <2>3. SpecOK([s EXCEPT !.image = [s.image EXCEPT !.tag = NONE]])
      BY <2>2, FieldChange
    <2> QED BY <2>1, <2>3
  <1>17. CASE e = "retain"
    <2>1. Edit(e, s) = [s EXCEPT !.pvcRetentionPolicy = "Retain", !.logShardReplicas = NONE]
      BY <1>17 DEF Edit
    <2>2. "pvcRetentionPolicy" \in SpecFields /\ FieldOK("pvcRetentionPolicy", "Retain")
      BY Fields DEF FieldOK
    <2>3. "logShardReplicas" \in SpecFields /\ FieldOK("logShardReplicas", NONE)
      BY Fields DEF FieldOK
    <2>4. SpecOK([s EXCEPT !.pvcRetentionPolicy = "Retain"])
      BY <2>2, FieldChange
    <2>5. SpecOK([s EXCEPT !.pvcRetentionPolicy = "Retain", !.logShardReplicas = NONE])
      BY <2>3, <2>4, FieldChange
    <2> QED BY <2>1, <2>5
  <1> QED BY <1>1, <1>2, <1>3, <1>4, <1>5, <1>6, <1>7, <1>8, <1>9, <1>10, <1>11, <1>12, <1>13, <1>14, <1>15, <1>16, <1>17 DEF EditNames

Shaped(s) == s = [f \in SpecFields |-> s[f]]

\* The fields of the kinds that the webhooks fill in, and with what.
MOSets == {"LogSet", "DNSet", "CNSet"}

Filled(k, s, f) ==
  \/ f = "serviceArgs" /\ k # "WebUI"
  \/ f = "promDiscoveryScheme" /\ k \in MOSets /\ s.exportToPrometheus = TRUE
  \/ f = "diskCacheSize" /\ k \in {"DNSet", "CNSet"} /\ s.cacheVolume # NONE
  \/ f = "memoryCacheSize" /\ (k = "DNSet" \/ (k = "CNSet" /\ s.memory # 0))
  \/ f = "storeDrainTimeout" /\ k = "CNSet" /\ s.storeDrainEnabled
  \/ f \in {"serviceType", "maxSurge", "maxUnavailable"} /\ k = "CNSet"
  \/ f \in {"logShardReplicas", "logShards", "dnShards", "storeFailureTimeout",
            "pvcRetentionPolicy"} /\ k = "LogSet"

With(s, f) ==
  CASE f = "serviceArgs" -> ServiceDefaultArgs
    [] f = "promDiscoveryScheme" -> "Service"
    [] f = "diskCacheSize" -> defaultDiskCacheSize(s.cacheVolume.size)
    [] f = "memoryCacheSize" -> s.memory \div 2
    [] f = "storeDrainTimeout" -> 5
    [] f = "serviceType" -> "ClusterIP"
    [] f = "maxSurge" -> 1
    [] f = "maxUnavailable" -> 0
    [] f = "logShardReplicas" -> IF s.replicas >= minHAReplicas THEN minHAReplicas ELSE singleReplica
    [] f \in {"logShards", "dnShards"} -> 1
    [] f = "storeFailureTimeout" -> 10
    [] f = "pvcRetentionPolicy" -> "Delete"

WithEnv(o) == [Default(o, NoOverlay) EXCEPT !.env = Upsert([GODEBUG |-> "default"], @)]

DefaultTo(k, s, f) ==
  IF f = "overlay" THEN (IF k \in MOSets THEN WithEnv(s.overlay) ELSE s.overlay)
  ELSE IF Filled(k, s, f) THEN Default(s[f], With(s, f)) ELSE s[f]

\* The steps of the defaulters, each on the fields it fills in.
LEMMA ArgsDefault ==
  ASSUME NEW s, Shaped(s)
  PROVE  LET d == setDefaultServiceArgs(s)
         IN /\ Shaped(d)
            /\ d.serviceArgs = Default(s.serviceArgs, ServiceDefaultArgs)
            /\ \A f \in SpecFields : f # "serviceArgs" => d[f] = s[f]
  <1>1. "serviceArgs" \in SpecFields
    BY Fields
  <1> QED BY <1>1 DEF Shaped, setDefaultServiceArgs

LEMMA PodSetDefault ==
  ASSUME NEW s, Shaped(s)
  PROVE  LET d == setPodSetDefaults(s)
         IN /\ Shaped(d)
            /\ d.overlay = WithEnv(s.overlay)
            /\ d.promDiscoveryScheme = IF s.exportToPrometheus = TRUE
                                       THEN Default(s.promDiscoveryScheme, "Service")
                                       ELSE s.promDiscoveryScheme
            /\ \A f \in SpecFields \ {"overlay", "promDiscoveryScheme"} : d[f] = s[f]
  <1>1. "overlay" \in SpecFields /\ "promDiscoveryScheme" \in SpecFields
    BY Fields
  <1> DEFINE o == WithEnv(s.overlay)
             p == IF s.exportToPrometheus = TRUE THEN Default(s.promDiscoveryScheme, "Service")
                  ELSE s.promDiscoveryScheme
  <1>2. setPodSetDefaults(s) = [s EXCEPT !.overlay = o, !.promDiscoveryScheme = p]
    BY DEF setPodSetDefaults, WithEnv
  <1> HIDE DEF o, p
  <1>3. LET d == [s EXCEPT !.overlay = o, !.promDiscoveryScheme = p]
        IN /\ Shaped(d) /\ d.overlay = o /\ d.promDiscoveryScheme = p
           /\ \A f \in SpecFields \ {"overlay", "promDiscoveryScheme"} : d[f] = s[f]
    BY <1>1 DEF Shaped
  <1> QED BY <1>2, <1>3 DEF o, p

LEMMA DiskDefault ==
  ASSUME NEW s, Shaped(s)
  PROVE  LET d == DefaultDiskCache(s)
         IN /\ Shaped(d)
            /\ d.diskCacheSize = IF s.cacheVolume = NONE THEN s.diskCacheSize
                                 ELSE Default(s.diskCacheSize, defaultDiskCacheSize(s.cacheVolume.size))
            /\ \A f \in SpecFields : f # "diskCacheSize" => d[f] = s[f]
  <1>1. "diskCacheSize" \in SpecFields
    BY Fields
  <1> QED BY <1>1 DEF Shaped, DefaultDiskCache

\* What DefaultSpec makes of a spec, field by field.
LEMMA DNDefaults ==
  ASSUME NEW s, Shaped(s)
  PROVE  LET d == DNDefaultSpec(s)
         IN Shaped(d) /\ \A f \in SpecFields : d[f] = DefaultTo("DNSet", s, f)
  <1> DEFINE a == DefaultDiskCache(s)
             b == [a EXCEPT !.memoryCacheSize = Default(@, s.memory \div 2)]
             c == setDefaultServiceArgs(b)
             d == setPodSetDefaults(c)
  <1>0. /\ {"memoryCacheSize", "diskCacheSize", "exportToPrometheus", "serviceArgs", "overlay",
            "promDiscoveryScheme"} \subseteq SpecFields
        /\ d = DNDefaultSpec(s)
    BY Fields DEF DNDefaultSpec
  <1>1. /\ Shaped(a)
        /\ a.diskCacheSize = IF s.cacheVolume = NONE THEN s.diskCacheSize
                             ELSE Default(s.diskCacheSize, defaultDiskCacheSize(s.cacheVolume.size))
        /\ \A f \in SpecFields : f # "diskCacheSize" => a[f] = s[f]
    BY DiskDefault
  <1> HIDE DEF a
  <1>2. /\ Shaped(b)
        /\ b.memoryCacheSize = Default(a.memoryCacheSize, s.memory \div 2)
        /\ \A f \in SpecFields : f # "memoryCacheSize" => b[f] = a[f]
    BY <1>0, <1>1 DEF Shaped
  <1> HIDE DEF b
  <1>3. /\ Shaped(c)
        /\ c.serviceArgs = Default(b.serviceArgs, ServiceDefaultArgs)
        /\ \A f \in SpecFields : f # "serviceArgs" => c[f] = b[f]
    BY <1>2, ArgsDefault
  <1> HIDE DEF c
  <1>4. /\ Shaped(d)
        /\ d.overlay = WithEnv(c.overlay)
        /\ d.promDiscoveryScheme = IF c.exportToPrometheus = TRUE
                                   THEN Default(c.promDiscoveryScheme, "Service")
                                   ELSE c.promDiscoveryScheme
        /\ \A f \in SpecFields \ {"overlay", "promDiscoveryScheme"} : d[f] = c[f]
    BY <1>3, PodSetDefault
  <1> HIDE DEF d
  <1>5. ASSUME NEW f \in SpecFields PROVE d[f] = DefaultTo("DNSet", s, f)
    BY <1>0, <1>1, <1>2, <1>3, <1>4 DEF DefaultTo, Filled, With, MOSets
  <1> QED BY <1>0, <1>4, <1>5

LEMMA CNDefaults ==
  ASSUME NEW s, Shaped(s)
  PROVE  LET d == CNDefaultSpec(s)
         IN Shaped(d) /\ \A f \in SpecFields : d[f] = DefaultTo("CNSet", s, f)
  <1> DEFINE a == DefaultDiskCache(s)
             Mem == IF s.memory # 0 THEN Default(a.memoryCacheSize, s.memory \div 2) ELSE a.memoryCacheSize
             Drain == IF s.storeDrainEnabled THEN Default(a.storeDrainTimeout, 5) ELSE a.storeDrainTimeout
             Type == Default(a.serviceType, "ClusterIP")
             Surge == Default(a.maxSurge, 1)
             Unav == Default(a.maxUnavailable, 0)
             b == [a EXCEPT !.serviceType = Type, !.memoryCacheSize = Mem, !.storeDrainTimeout = Drain,
                            !.maxSurge = Surge, !.maxUnavailable = Unav]
             c == setDefaultServiceArgs(b)
             d == setPodSetDefaults(c)
             Own == {"serviceType", "memoryCacheSize", "storeDrainTimeout", "maxSurge", "maxUnavailable"}
  <1>0. /\ Own \cup {"diskCacheSize", "exportToPrometheus", "serviceArgs", "overlay",
                     "promDiscoveryScheme"} \subseteq SpecFields
        /\ d = CNDefaultSpec(s)
    BY Fields DEF CNDefaultSpec
  <1>1. /\ Shaped(a)
        /\ a.diskCacheSize = IF s.cacheVolume = NONE THEN s.diskCacheSize
                             ELSE Default(s.diskCacheSize, defaultDiskCacheSize(s.cacheVolume.size))
        /\ \A f \in SpecFields : f # "diskCacheSize" => a[f] = s[f]
    BY DiskDefault
  <1> HIDE DEF a, Mem, Drain, Type, Surge, Unav
  <1>2. /\ Shaped(b)
        /\ b.serviceType = Type /\ b.memoryCacheSize = Mem /\ b.storeDrainTimeout = Drain
        /\ b.maxSurge = Surge /\ b.maxUnavailable = Unav
        /\ \A f \in SpecFields \ Own : b[f] = a[f]
    BY <1>0, <1>1 DEF Shaped
  <1> HIDE DEF b
  <1>3. /\ Shaped(c)
        /\ c.serviceArgs = Default(b.serviceArgs, ServiceDefaultArgs)
        /\ \A f \in SpecFields : f # "serviceArgs" => c[f] = b[f]
    BY <1>2, ArgsDefault
  <1> HIDE DEF c
  <1>4. /\ Shaped(d)
        /\ d.overlay = WithEnv(c.overlay)
        /\ d.promDiscoveryScheme = IF c.exportToPrometheus = TRUE
                                   THEN Default(c.promDiscoveryScheme, "Service")
                                   ELSE c.promDiscoveryScheme
        /\ \A f \in SpecFields \ {"overlay", "promDiscoveryScheme"} : d[f] = c[f]
    BY <1>3, PodSetDefault
  <1> HIDE DEF d
  <1>5. ASSUME NEW f \in SpecFields PROVE d[f] = DefaultTo("CNSet", s, f)
    <2>1. CASE f \in Own
      BY <2>1, <1>0, <1>1, <1>2, <1>3, <1>4 DEF DefaultTo, Filled, With, MOSets, Mem, Drain, Type, Surge, Unav
    <2>2. CASE f \notin Own
      BY <2>2, <1>0, <1>1, <1>2, <1>3, <1>4 DEF DefaultTo, Filled, With, MOSets
    <2> QED BY <2>1, <2>2
  <1> QED BY <1>0, <1>4, <1>5

LEMMA LogDefaults ==
  ASSUME NEW s, Shaped(s), s.sharedStorage = FileStorage
  PROVE  LET d == LogDefaultSpec(s)
         IN Shaped(d) /\ \A f \in SpecFields : d[f] = DefaultTo("LogSet", s, f)
  <1> DEFINE Rep == Default(s.logShardReplicas, IF s.replicas >= minHAReplicas THEN minHAReplicas ELSE singleReplica)
             Shards == Default(s.logShards, 1)
             DN == Default(s.dnShards, 1)
             Fail == Default(s.storeFailureTimeout, 10)
             a == [s EXCEPT !.logShardReplicas = Rep, !.logShards = Shards, !.dnShards = DN,
                            !.storeFailureTimeout = Fail]
             b == setDefaultRetentionPolicy(a)
             c == setDefaultServiceArgs(b)
             d == setPodSetDefaults(c)
             Own == {"logShardReplicas", "logShards", "dnShards", "storeFailureTimeout"}
  <1>0. /\ Own \cup {"pvcRetentionPolicy", "sharedStorage", "exportToPrometheus", "serviceArgs", "overlay",
                     "promDiscoveryScheme"} \subseteq SpecFields
        /\ d = LogDefaultSpec(s)
    BY Fields DEF LogDefaultSpec
  <1> HIDE DEF Rep, Shards, DN, Fail
  <1>1. /\ Shaped(a)
        /\ a.logShardReplicas = Rep /\ a.logShards = Shards /\ a.dnShards = DN
        /\ a.storeFailureTimeout = Fail
        /\ \A f \in SpecFields \ Own : a[f] = s[f]
    BY <1>0 DEF Shaped
  <1> HIDE DEF a
  <1>2. /\ Shaped(b)
        /\ b.pvcRetentionPolicy = Default(s.pvcRetentionPolicy, "Delete")
        /\ \A f \in SpecFields : f # "pvcRetentionPolicy" => b[f] = a[f]
    <2>1. a.sharedStorage = FileStorage /\ a.pvcRetentionPolicy = s.pvcRetentionPolicy
      BY <1>0, <1>1
    <2>2. FileStorage.s3 = NONE /\ [FileStorage EXCEPT !.s3 = NONE] = FileStorage
      BY DEF FileStorage
    <2> DEFINE P == Default(s.pvcRetentionPolicy, "Delete")
               e == [a EXCEPT !.pvcRetentionPolicy = P, !.sharedStorage = FileStorage]
    <2>3. b = [a EXCEPT !.pvcRetentionPolicy = P, !.sharedStorage.s3 = NONE]
      BY <2>1, <2>2 DEF setDefaultRetentionPolicy, Default
    <2> HIDE DEF P
    <2>4. [a EXCEPT !.pvcRetentionPolicy = P, !.sharedStorage.s3 = NONE] = e
      BY <1>0, <1>1, <2>1, <2>2 DEF Shaped
    <2>5. /\ Shaped(e) /\ e.pvcRetentionPolicy = P /\ e.sharedStorage = FileStorage
          /\ \A f \in SpecFields \ {"pvcRetentionPolicy", "sharedStorage"} : e[f] = a[f]
      BY <1>0, <1>1 DEF Shaped
    <2> HIDE DEF e, b
    <2> QED BY <2>1, <2>3, <2>4, <2>5 DEF P
  <1> HIDE DEF b
  <1>3. /\ Shaped(c)
        /\ c.serviceArgs = Default(b.serviceArgs, ServiceDefaultArgs)
        /\ \A f \in SpecFields : f # "serviceArgs" => c[f] = b[f]
    BY <1>2, ArgsDefault
  <1> HIDE DEF c
  <1>4. /\ Shaped(d)
        /\ d.overlay = WithEnv(c.overlay)
        /\ d.promDiscoveryScheme = IF c.exportToPrometheus = TRUE
                                   THEN Default(c.promDiscoveryScheme, "Service")
                                   ELSE c.promDiscoveryScheme
        /\ \A f \in SpecFields \ {"overlay", "promDiscoveryScheme"} : d[f] = c[f]
    BY <1>3, PodSetDefault
  <1> HIDE DEF d
  <1>5. ASSUME NEW f \in SpecFields PROVE d[f] = DefaultTo("LogSet", s, f)
    <2>1. CASE f \in Own
      BY <2>1, <1>0, <1>1, <1>2, <1>3, <1>4 DEF DefaultTo, Filled, With, MOSets, Rep, Shards, DN, Fail
    <2>2. CASE f \notin Own
      BY <2>2, <1>0, <1>1, <1>2, <1>3, <1>4 DEF DefaultTo, Filled, With, MOSets
    <2> QED BY <2>1, <2>2
  <1> QED BY <1>0, <1>4, <1>5

LEMMA SpecDefaults ==
  ASSUME NEW k \in SetKinds, NEW s, Shaped(s), s.sharedStorage = FileStorage
  PROVE  LET d == DefaultSpec(k, s)
         IN Shaped(d) /\ \A f \in SpecFields : d[f] = DefaultTo(k, s, f)
  <1>1. CASE k = "LogSet"
    BY <1>1, LogDefaults DEF DefaultSpec
  <1>2. CASE k = "DNSet"
    BY <1>2, DNDefaults DEF DefaultSpec
  <1>3. CASE k = "CNSet"
    BY <1>3, CNDefaults DEF DefaultSpec
  <1>4. CASE k = "ProxySet"
    <2>1. DefaultSpec(k, s) = setDefaultServiceArgs(s)
      BY <1>4 DEF DefaultSpec
    <2>2. ASSUME NEW f \in SpecFields
          PROVE  DefaultTo(k, s, f) = IF f = "serviceArgs" THEN Default(s.serviceArgs, ServiceDefaultArgs)
                                      ELSE s[f]
      BY <1>4 DEF DefaultTo, Filled, With, MOSets
    <2> QED BY <2>1, <2>2, ArgsDefault
  <1>5. CASE k = "WebUI"
    <2>1. DefaultSpec(k, s) = s
      BY <1>5 DEF DefaultSpec
    <2>2. ASSUME NEW f \in SpecFields PROVE DefaultTo(k, s, f) = s[f]
      BY <1>5 DEF DefaultTo, Filled, MOSets
    <2> QED BY <2>1, <2>2
  <1> QED BY <1>1, <1>2, <1>3, <1>4, <1>5 DEF SetKinds

\* The defaulter of the CNSet adds the role.
LEMMA SetDefaults ==
  ASSUME NEW k \in SetKinds, NEW s, Shaped(s), s.sharedStorage = FileStorage
  PROVE  LET d == DefaultSet(k, s)
         IN /\ Shaped(d)
            /\ \A f \in SpecFields \ {"role"} : d[f] = DefaultTo(k, s, f)
            /\ d.role = IF k = "CNSet" THEN Default(s.role, "TP") ELSE s.role
  <1> DEFINE d == DefaultSpec(k, s)
  <1>1. Shaped(d) /\ \A f \in SpecFields : d[f] = DefaultTo(k, s, f)
    BY SpecDefaults
  <1>2. DefaultSet(k, s) = IF k = "CNSet" THEN [d EXCEPT !.role = Default(@, "TP")] ELSE d
    BY DEF DefaultSet
  <1> HIDE DEF d
  <1>3. "role" \in SpecFields
    BY Fields
  <1>4. DefaultTo(k, s, "role") = s.role
    BY DEF DefaultTo, Filled
  <1>5. CASE k # "CNSet"
    BY <1>1, <1>2, <1>3, <1>4, <1>5
  <1>6. CASE k = "CNSet"
    <2> DEFINE e == [d EXCEPT !.role = Default(@, "TP")]
    <2>1. /\ Shaped(e) /\ e.role = Default(d.role, "TP")
          /\ \A f \in SpecFields \ {"role"} : e[f] = d[f]
      BY <1>1, <1>3 DEF Shaped
    <2> HIDE DEF e
    <2>2. DefaultSet(k, s) = e
      BY <1>2, <1>6 DEF e
    <2> QED BY <1>1, <1>3, <1>4, <1>6, <2>1, <2>2
  <1> QED BY <1>5, <1>6

\* The defaults do not lead out of the specs.
LEMMA DefaultToOK ==
  ASSUME NEW k \in SetKinds, NEW s, SpecOK(s), NEW f \in SpecFields
  PROVE  FieldOK(f, DefaultTo(k, s, f))
  <1>1. FieldOK(f, s[f])
    BY DEF SpecOK
  <1>2. CASE f = "overlay"
    <2>1. s.overlay \in Overlays \cup {NONE}
      BY <1>1, <1>2 DEF FieldOK
    <2>2. Default(s.overlay, NoOverlay) \in Overlays
      BY <2>1, OverlaysClosed DEF Default
    <2>3. WithEnv(s.overlay) \in Overlays
      BY <2>2, OverlaysClosed DEF WithEnv
    <2>4. DefaultTo(k, s, f) \in Overlays \cup {NONE}
      BY <1>2, <2>1, <2>3 DEF DefaultTo
    <2> QED BY <1>2, <2>4 DEF FieldOK
  <1>3. CASE f # "overlay" /\ ~Filled(k, s, f)
    BY <1>1, <1>3 DEF DefaultTo
  <1>4. CASE f # "overlay" /\ Filled(k, s, f)
    <2>1. DefaultTo(k, s, f) = s[f] \/ DefaultTo(k, s, f) = With(s, f)
      BY <1>4 DEF DefaultTo, Default
    <2>2. FieldOK(f, With(s, f))
      <3>1. "replicas" \in SpecFields /\ s.replicas \in {1, 2}
        BY Fields DEF SpecOK, FieldOK
      <3>2. CASE f \in {"promDiscoveryScheme", "serviceType"}
        <4>1. With(s, f) = IF f = "serviceType" THEN "ClusterIP" ELSE "Service"
          BY <3>2 DEF With
        <4> QED BY <3>2, <4>1 DEF FieldOK
      <3>3. CASE f \in {"logShardReplicas", "logShards", "dnShards"}
        <4>1. With(s, f) = 1
          BY <3>1, <3>3 DEF With, minHAReplicas, singleReplica
        <4> QED BY <3>3, <4>1 DEF FieldOK
      <3>4. CASE f \notin {"promDiscoveryScheme", "serviceType", "logShardReplicas", "logShards", "dnShards"}
        <4>1. f \in {"serviceArgs", "diskCacheSize", "memoryCacheSize", "storeDrainTimeout", "maxSurge",
                     "maxUnavailable", "storeFailureTimeout", "pvcRetentionPolicy"}
          BY <1>4, <3>4 DEF Filled
        <4> HIDE DEF With
        <4> QED BY <4>1 DEF FieldOK
      <3> QED BY <3>2, <3>3, <3>4
    <2> QED BY <1>1, <2>1, <2>2
  <1> QED BY <1>2, <1>3, <1>4

LEMMA DefaultOK ==
  ASSUME NEW k \in SetKinds, NEW s, SpecOK(s)
  PROVE  SpecOK(DefaultSpec(k, s)) /\ SpecOK(DefaultSet(k, s))
  <1>0. /\ {"sharedStorage", "nodePort", "serviceType", "role"} \subseteq SpecFields
        /\ Shaped(s) /\ s.sharedStorage = FileStorage
    BY Fields DEF SpecOK, FieldOK, Shaped
  <1>1. /\ DefaultTo(k, s, "nodePort") = s.nodePort
        /\ s.serviceType = "NodePort" => DefaultTo(k, s, "serviceType") = "NodePort"
    BY NoneAssumption DEF DefaultTo, Filled, Default
  <1>2. ASSUME NEW v PROVE FieldOK("role", v)
    BY DEF FieldOK
  <1>3. SpecOK(DefaultSpec(k, s))
    <2> DEFINE d == DefaultSpec(k, s)
    <2>1. Shaped(d) /\ \A f \in SpecFields : d[f] = DefaultTo(k, s, f)
      BY <1>0, SpecDefaults
    <2> HIDE DEF d
    <2>2. d.nodePort # NONE => d.serviceType = "NodePort"
      BY <1>0, <1>1, <2>1 DEF SpecOK
    <2>3. \A f \in SpecFields : FieldOK(f, d[f])
      BY <2>1, DefaultToOK
    <2>4. SpecOK(d)
      BY <2>1, <2>2, <2>3 DEF SpecOK, Shaped
    <2> QED BY <2>4 DEF d
  <1>4. SpecOK(DefaultSet(k, s))
    <2> DEFINE d == DefaultSet(k, s)
    <2>1. Shaped(d) /\ \A f \in SpecFields \ {"role"} : d[f] = DefaultTo(k, s, f)
      BY <1>0, SetDefaults
    <2> HIDE DEF d
    <2>2. d.nodePort # NONE => d.serviceType = "NodePort"
      BY <1>0, <1>1, <2>1 DEF SpecOK
    <2>3. \A f \in SpecFields : FieldOK(f, d[f])
      BY <1>2, <2>1, DefaultToOK
    <2>4. SpecOK(d)
      BY <2>1, <2>2, <2>3 DEF SpecOK, Shaped
    <2> QED BY <2>4 DEF d
  <1> QED BY <1>3, <1>4

\* What has been filled in stays: defaults are stable.
LEMMA DefaultStable ==
  ASSUME NEW k \in SetKinds, NEW s, SpecOK(s)
  PROVE  DefaultSet(k, DefaultSet(k, s)) = DefaultSet(k, s)
  <1> DEFINE d == DefaultSet(k, s)
             e == DefaultSet(k, d)
  <1>0. /\ {"sharedStorage", "role", "exportToPrometheus", "cacheVolume", "memory",
            "storeDrainEnabled", "replicas", "overlay"} \subseteq SpecFields
        /\ Shaped(s) /\ s.sharedStorage = FileStorage
    BY Fields DEF SpecOK, FieldOK, Shaped
  <1>1. /\ Shaped(d)
        /\ \A f \in SpecFields \ {"role"} : d[f] = DefaultTo(k, s, f)
        /\ d.role = IF k = "CNSet" THEN Default(s.role, "TP") ELSE s.role
    BY <1>0, SetDefaults
  <1>2. /\ d.exportToPrometheus = s.exportToPrometheus /\ d.cacheVolume = s.cacheVolume
        /\ d.memory = s.memory /\ d.storeDrainEnabled = s.storeDrainEnabled
        /\ d.replicas = s.replicas /\ d.sharedStorage = FileStorage
    BY <1>0, <1>1 DEF DefaultTo, Filled
  <1>3. /\ Shaped(e)
        /\ \A f \in SpecFields \ {"role"} : e[f] = DefaultTo(k, d, f)
        /\ e.role = IF k = "CNSet" THEN Default(d.role, "TP") ELSE d.role
    BY <1>1, <1>2, SetDefaults
  <1>4. s.overlay \in Overlays \cup {NONE} /\ Default(s.overlay, NoOverlay) \in Overlays
    BY <1>0, OverlaysClosed DEF SpecOK, FieldOK, Default
  <1>5. WithEnv(WithEnv(s.overlay)) = WithEnv(s.overlay)
    <2> DEFINE o == Default(s.overlay, NoOverlay)
               G == [GODEBUG |-> "default"]
               w == [o EXCEPT !.env = Upsert(G, @)]
    <2>1. o \in Overlays /\ IsOverlay(o) /\ w \in Overlays
      BY <1>4, OverlaysClosed
    <2>2. w # NONE /\ WithEnv(s.overlay) = w
      BY <2>1, NoneAssumption DEF WithEnv
    <2>3. WithEnv(w) = [w EXCEPT !.env = Upsert(G, @)]
      BY <2>2 DEF WithEnv, Default
    <2> HIDE DEF o
    <2>4. w.env = Upsert(G, o.env)
      BY <2>1 DEF IsOverlay, OverlayFields
    <2>5. [w EXCEPT !.env = Upsert(G, @)] = w
      <3>1. Upsert(G, w.env) = w.env
        BY <2>4, UpsertTwice
      <3>2. IsOverlay(w)
        BY <2>1, OverlaysClosed
      <3> HIDE DEF w, G
      <3>3. [w EXCEPT !.env = w.env] = w
        BY <3>2 DEF IsOverlay, OverlayFields
      <3> QED BY <3>1, <3>3
    <2> QED BY <2>2, <2>3, <2>5
  <1> HIDE DEF d, e
  <1>6. ASSUME NEW f \in SpecFields \ {"role"} PROVE e[f] = d[f]
    <2>1. CASE f = "overlay"
      BY <1>0, <1>1, <1>3, <1>5, <2>1 DEF DefaultTo
    <2>2. CASE f # "overlay"
      <3>1. Filled(k, d, f) = Filled(k, s, f) /\ With(d, f) = With(s, f)
        BY <1>2 DEF Filled, With
      <3> QED BY <1>1, <1>3, <2>2, <3>1 DEF DefaultTo, Default
    <2> QED BY <2>1, <2>2
  <1>7. e.role = d.role
    BY <1>1, <1>3 DEF Default
  <1>8. e = d
    BY <1>1, <1>3, <1>6, <1>7 DEF Shaped
  <1> QED BY <1>8 DEF d, e

\* The fields that the validation of an update compares or asks for.
Compared == {"image", "semanticVersion", "operatorVersion", "volume", "cacheVolume",
             "exportToPrometheus", "promDiscoveryScheme"}

\* What an edit does to them.
EditChanges(e, s, r) ==
  /\ r.operatorVersion \in {s.operatorVersion, LatestOpVersion}
  /\ r.semanticVersion \in {s.semanticVersion, <<1, 2, 0>>}
  /\ e # "unversioned" => r.image.tag \in {s.image.tag, <<2, 0, 0>>}
  /\ e # "shrink" => /\ r.volume \in {s.volume, Volume(20)}
                     /\ r.cacheVolume \in {s.cacheVolume, Volume(20), NONE}
  /\ \/ r.exportToPrometheus = s.exportToPrometheus /\ r.promDiscoveryScheme = s.promDiscoveryScheme
     \/ kind = "CNSet" \/ r.promDiscoveryScheme = "Pod"

LEMMA EditFields ==
  ASSUME NEW s, SpecOK(s), NEW e \in EditNames
  PROVE  EditChanges(e, s, Edit(e, s))
  <1>0. Compared \subseteq SpecFields /\ Shaped(s) /\ s.image = [name |-> "mo", tag |-> s.image.tag]
    BY Fields DEF Compared, SpecOK, FieldOK, Shaped
  <1>1. CASE e = "image"
    <2> DEFINE r == [s EXCEPT !.image = [s.image EXCEPT !.tag = <<2, 0, 0>>]]
    <2>1. Edit(e, s) = r
      BY <1>1 DEF Edit
    <2>2. {"image"} \subseteq SpecFields
      BY Fields
    <2>3. (\A f \in Compared \ {"image"} : r[f] = s[f]) /\ r.image = [s.image EXCEPT !.tag = <<2, 0, 0>>]
      BY <1>0, <2>2 DEF Shaped
    <2> HIDE DEF r
    <2>4. EditChanges(e, s, r)
      BY <1>0, <1>1, <2>3 DEF EditChanges, Compared
    <2> QED BY <2>1, <2>4
  <1>2. CASE e = "config"
    <2> DEFINE r == [s EXCEPT !.config = [log |-> Table([level |-> Val("debug")])]]
    <2>1. Edit(e, s) = r
      BY <1>2 DEF Edit
    <2>2. {"config"} \subseteq SpecFields
      BY Fields
    <2>3. (\A f \in Compared \ {"config"} : r[f] = s[f])
      BY <1>0, <2>2 DEF Shaped
    <2> HIDE DEF r
    <2>4. EditChanges(e, s, r)
      BY <1>0, <1>2, <2>3 DEF EditChanges, Compared
    <2> QED BY <2>1, <2>4
  <1>3. CASE e = "tn"
    <2> DEFINE r == [s EXCEPT !.config = [tn |-> Table(Empty)]]
    <2>1. Edit(e, s) = r
      BY <1>3 DEF Edit
    <2>2. {"config"} \subseteq SpecFields
      BY Fields
    <2>3. (\A f \in Compared \ {"config"} : r[f] = s[f])
      BY <1>0, <2>2 DEF Shaped
    <2> HIDE DEF r
    <2>4. EditChanges(e, s, r)
      BY <1>0, <1>3, <2>3 DEF EditChanges, Compared
    <2> QED BY <2>1, <2>4
  <1>4. CASE e = "memory"
    <2> DEFINE r == [s EXCEPT !.memory = 8, !.memoryLimitPercent = 50]
    <2>1. Edit(e, s) = r
      BY <1>4 DEF Edit
    <2>2. {"memory", "memoryLimitPercent"} \subseteq SpecFields
      BY Fields
    <2>3. (\A f \in Compared \ {"memory", "memoryLimitPercent"} : r[f] = s[f])
      BY <1>0, <2>2 DEF Shaped
    <2> HIDE DEF r
    <2>4. EditChanges(e, s, r)
      BY <1>0, <1>4, <2>3 DEF EditChanges, Compared
    <2> QED BY <2>1, <2>4
  <1>5. CASE e = "prom"
    <2> DEFINE r == [s EXCEPT !.exportToPrometheus = TRUE, !.promDiscoveryScheme = (IF kind = "CNSet" THEN s.promDiscoveryScheme ELSE "Pod")]
    <2>1. Edit(e, s) = r
      BY <1>5 DEF Edit
    <2>2. {"exportToPrometheus", "promDiscoveryScheme"} \subseteq SpecFields
      BY Fields
    <2>3. (\A f \in Compared \ {"exportToPrometheus", "promDiscoveryScheme"} : r[f] = s[f]) /\ r.exportToPrometheus = TRUE /\ r.promDiscoveryScheme = (IF kind = "CNSet" THEN s.promDiscoveryScheme ELSE "Pod")
      BY <1>0, <2>2 DEF Shaped
    <2> HIDE DEF r
    <2>4. EditChanges(e, s, r)
      BY <1>0, <1>5, <2>3 DEF EditChanges, Compared
    <2> QED BY <2>1, <2>4
  <1>6. CASE e = "overlay"
    <2> DEFINE r == [s EXCEPT !.overlay = Sidecar, !.pythonUdfSidecar = "udf"]
    <2>1. Edit(e, s) = r
      BY <1>6 DEF Edit
    <2>2. {"overlay", "pythonUdfSidecar"} \subseteq SpecFields
      BY Fields
    <2>3. (\A f \in Compared \ {"overlay", "pythonUdfSidecar"} : r[f] = s[f])
      BY <1>0, <2>2 DEF Shaped
    <2> HIDE DEF r
    <2>4. EditChanges(e, s, r)
      BY <1>0, <1>6, <2>3 DEF EditChanges, Compared
    <2> QED BY <2>1, <2>4
  <1>7. CASE e = "operator"
    <2> DEFINE r == [s EXCEPT !.operatorVersion = LatestOpVersion]
    <2>1. Edit(e, s) = r
      BY <1>7 DEF Edit
    <2>2. {"operatorVersion"} \subseteq SpecFields
      BY Fields
    <2>3. (\A f \in Compared \ {"operatorVersion"} : r[f] = s[f]) /\ r.operatorVersion = LatestOpVersion
      BY <1>0, <2>2 DEF Shaped
    <2> HIDE DEF r
    <2>4. EditChanges(e, s, r)
      BY <1>0, <1>7, <2>3 DEF EditChanges, Compared
    <2> QED BY <2>1, <2>4
  <1>8. CASE e = "memfs"
    <2> DEFINE r == [s EXCEPT !.memoryFsSize = 1, !.semanticVersion = <<1, 2, 0>>]
    <2>1. Edit(e, s) = r
      BY <1>8 DEF Edit
    <2>2. {"memoryFsSize", "semanticVersion"} \subseteq SpecFields
      BY Fields
    <2>3. (\A f \in Compared \ {"memoryFsSize", "semanticVersion"} : r[f] = s[f]) /\ r.semanticVersion = <<1, 2, 0>>
      BY <1>0, <2>2 DEF Shaped
    <2> HIDE DEF r
    <2>4. EditChanges(e, s, r)
      BY <1>0, <1>8, <2>3 DEF EditChanges, Compared
    <2> QED BY <2>1, <2>4
  <1>9. CASE e = "scale"
    <2> DEFINE r == [s EXCEPT !.replicas = 2]
    <2>1. Edit(e, s) = r
      BY <1>9 DEF Edit
    <2>2. {"replicas"} \subseteq SpecFields
      BY Fields
    <2>3. (\A f \in Compared \ {"replicas"} : r[f] = s[f])
      BY <1>0, <2>2 DEF Shaped
    <2> HIDE DEF r
    <2>4. EditChanges(e, s, r)
      BY <1>0, <1>9, <2>3 DEF EditChanges, Compared
    <2> QED BY <2>1, <2>4
  <1>10. CASE e = "grow"
    <2> DEFINE r == [s EXCEPT !.cacheVolume = Volume(20), !.volume = Volume(20)]
    <2>1. Edit(e, s) = r
      BY <1>10 DEF Edit
    <2>2. {"cacheVolume", "volume"} \subseteq SpecFields
      BY Fields
    <2>3. (\A f \in Compared \ {"cacheVolume", "volume"} : r[f] = s[f]) /\ r.cacheVolume = Volume(20) /\ r.volume = Volume(20)
      BY <1>0, <2>2 DEF Shaped
    <2> HIDE DEF r
    <2>4. EditChanges(e, s, r)
      BY <1>0, <1>10, <2>3 DEF EditChanges, Compared
    <2> QED BY <2>1, <2>4
  <1>11. CASE e = "shrink"
    <2> DEFINE r == [s EXCEPT !.cacheVolume = Volume(5), !.volume = Volume(5)]
    <2>1. Edit(e, s) = r
      BY <1>11 DEF Edit
    <2>2. {"cacheVolume", "volume"} \subseteq SpecFields
      BY Fields
    <2>3. (\A f \in Compared \ {"cacheVolume", "volume"} : r[f] = s[f]) /\ r.cacheVolume = Volume(5) /\ r.volume = Volume(5)
      BY <1>0, <2>2 DEF Shaped
    <2> HIDE DEF r
    <2>4. EditChanges(e, s, r)
      BY <1>0, <1>11, <2>3 DEF EditChanges, Compared
    <2> QED BY <2>1, <2>4
  <1>12. CASE e = "novolume"
    <2> DEFINE r == [s EXCEPT !.cacheVolume = NONE]
    <2>1. Edit(e, s) = r
      BY <1>12 DEF Edit
    <2>2. {"cacheVolume"} \subseteq SpecFields
      BY Fields
    <2>3. (\A f \in Compared \ {"cacheVolume"} : r[f] = s[f]) /\ r.cacheVolume = NONE
      BY <1>0, <2>2 DEF Shaped
    <2> HIDE DEF r
    <2>4. EditChanges(e, s, r)
      BY <1>0, <1>12, <2>3 DEF EditChanges, Compared
    <2> QED BY <2>1, <2>4
  <1>13. CASE e = "pause"
    <2> DEFINE r == [s EXCEPT !.pauseUpdate = ~s.pauseUpdate]
    <2>1. Edit(e, s) = r
      BY <1>13 DEF Edit
    <2>2. {"pauseUpdate"} \subseteq SpecFields
      BY Fields
    <2>3. (\A f \in Compared \ {"pauseUpdate"} : r[f] = s[f])
      BY <1>0, <2>2 DEF Shaped
    <2> HIDE DEF r
    <2>4. EditChanges(e, s, r)
      BY <1>0, <1>13, <2>3 DEF EditChanges, Compared
    <2> QED BY <2>1, <2>4
  <1>14. CASE e = "drain"
    <2> DEFINE r == [s EXCEPT !.storeDrainEnabled = TRUE]
    <2>1. Edit(e, s) = r
      BY <1>14 DEF Edit
    <2>2. {"storeDrainEnabled"} \subseteq SpecFields
      BY Fields
    <2>3. (\A f \in Compared \ {"storeDrainEnabled"} : r[f] = s[f])
      BY <1>0, <2>2 DEF Shaped
    <2> HIDE DEF r
    <2>4. EditChanges(e, s, r)
      BY <1>0, <1>14, <2>3 DEF EditChanges, Compared
    <2> QED BY <2>1, <2>4
  <1>15. CASE e = "expose"
    <2> DEFINE port == 30000
               r == [s EXCEPT !.serviceType = "NodePort", !.nodePort = port]
    <2>1. Edit(e, s) = r
      BY <1>15 DEF Edit
    <2> HIDE DEF port
    <2>2. {"serviceType", "nodePort"} \subseteq SpecFields
      BY Fields
    <2>3. (\A f \in Compared \ {"serviceType", "nodePort"} : r[f] = s[f])
      BY <1>0, <2>2 DEF Shaped
    <2> HIDE DEF r
    <2>4. EditChanges(e, s, r)
      BY <1>0, <1>15, <2>3 DEF EditChanges, Compared
    <2> QED BY <2>1, <2>4
  <1>16. CASE e = "unversioned"
    <2> DEFINE r == [s EXCEPT !.image = [s.image EXCEPT !.tag = NONE]]
    <2>1. Edit(e, s) = r
      BY <1>16 DEF Edit
    <2>2. {"image"} \subseteq SpecFields
      BY Fields
    <2>3. (\A f \in Compared \ {"image"} : r[f] = s[f]) /\ r.image = [s.image EXCEPT !.tag = NONE]
      BY <1>0, <2>2 DEF Shaped
    <2> HIDE DEF r
    <2>4. EditChanges(e, s, r)
      BY <1>0, <1>16, <2>3 DEF EditChanges, Compared
    <2> QED BY <2>1, <2>4
  <1>17. CASE e = "retain"
    <2> DEFINE r == [s EXCEPT !.pvcRetentionPolicy = "Retain", !.logShardReplicas = NONE]
    <2>1. Edit(e, s) = r
      BY <1>17 DEF Edit
    <2>2. {"pvcRetentionPolicy", "logShardReplicas"} \subseteq SpecFields
      BY Fields
    <2>3. (\A f \in Compared \ {"pvcRetentionPolicy", "logShardReplicas"} : r[f] = s[f])
      BY <1>0, <2>2 DEF Shaped
    <2> HIDE DEF r
    <2>4. EditChanges(e, s, r)
      BY <1>0, <1>17, <2>3 DEF EditChanges, Compared
    <2> QED BY <2>1, <2>4
  <1> QED BY <1>1, <1>2, <1>3, <1>4, <1>5, <1>6, <1>7, <1>8, <1>9, <1>10, <1>11, <1>12, <1>13, <1>14, <1>15, <1>16, <1>17 DEF EditNames

LEMMA SpecFacts ==
  ASSUME NEW s, SpecOK(s)
  PROVE  /\ Shaped(s)
         /\ s.image = [name |-> "mo", tag |-> s.image.tag]
         /\ s.semanticVersion \in {NONE, <<1, 2, 0>>}
         /\ s.operatorVersion \in {NONE, LatestOpVersion}
         /\ s.overlay \in Overlays \cup {NONE}
         /\ s.promDiscoveryScheme \in {NONE, "Pod", "Service"}
         /\ s.memoryLimitPercent \in {NONE, 50}
         /\ s.volume \in Volumes
         /\ s.cacheVolume \in Volumes \cup {NONE}
         /\ s.serviceType \in {NONE, "ClusterIP", "NodePort"}
         /\ s.labels = {}
         /\ s.replicas \in {1, 2}
         /\ validateConfig(s.config)
         /\ s.sharedStorage = FileStorage
         /\ s.restoreFrom = NONE
         /\ s.nodePort # NONE => s.serviceType = "NodePort"
  <1>0. Shaped(s) /\ (s.nodePort # NONE => s.serviceType = "NodePort")
    BY DEF SpecOK, Shaped
  <1>1. "image" \in SpecFields /\ FieldOK("image", s.image)
    BY Fields DEF SpecOK
  <1>2. "semanticVersion" \in SpecFields /\ FieldOK("semanticVersion", s.semanticVersion)
    BY Fields DEF SpecOK
  <1>3. "operatorVersion" \in SpecFields /\ FieldOK("operatorVersion", s.operatorVersion)
    BY Fields DEF SpecOK
  <1>4. "overlay" \in SpecFields /\ FieldOK("overlay", s.overlay)
    BY Fields DEF SpecOK
  <1>5. "promDiscoveryScheme" \in SpecFields /\ FieldOK("promDiscoveryScheme", s.promDiscoveryScheme)
    BY Fields DEF SpecOK
  <1>6. "memoryLimitPercent" \in SpecFields /\ FieldOK("memoryLimitPercent", s.memoryLimitPercent)
    BY Fields DEF SpecOK
  <1>7. "volume" \in SpecFields /\ FieldOK("volume", s.volume)
    BY Fields DEF SpecOK
  <1>8. "cacheVolume" \in SpecFields /\ FieldOK("cacheVolume", s.cacheVolume)
    BY Fields DEF SpecOK
  <1>9. "serviceType" \in SpecFields /\ FieldOK("serviceType", s.serviceType)
    BY Fields DEF SpecOK
  <1>10. "labels" \in SpecFields /\ FieldOK("labels", s.labels)
    BY Fields DEF SpecOK
  <1>11. "replicas" \in SpecFields /\ FieldOK("replicas", s.replicas)
    BY Fields DEF SpecOK
  <1>12. "config" \in SpecFields /\ FieldOK("config", s.config)
    BY Fields DEF SpecOK
  <1>13. "sharedStorage" \in SpecFields /\ FieldOK("sharedStorage", s.sharedStorage)
    BY Fields DEF SpecOK
  <1>14. "restoreFrom" \in SpecFields /\ FieldOK("restoreFrom", s.restoreFrom)
    BY Fields DEF SpecOK
  <1>20. s.image = [name |-> "mo", tag |-> s.image.tag]
    BY <1>1 DEF FieldOK
  <1>21. s.semanticVersion \in {NONE, <<1, 2, 0>>}
    BY <1>2 DEF FieldOK
  <1>22. s.operatorVersion \in {NONE, LatestOpVersion}
    BY <1>3 DEF FieldOK
  <1>23. s.overlay \in Overlays \cup {NONE}
    BY <1>4 DEF FieldOK
  <1>24. s.promDiscoveryScheme \in {NONE, "Pod", "Service"}
    BY <1>5 DEF FieldOK
  <1>25. s.memoryLimitPercent \in {NONE, 50}
    BY <1>6 DEF FieldOK
  <1>26. s.volume \in Volumes /\ s.cacheVolume \in Volumes \cup {NONE}
    BY <1>7, <1>8 DEF FieldOK
  <1>27. s.serviceType \in {NONE, "ClusterIP", "NodePort"} /\ s.labels = {}
    BY <1>9, <1>10 DEF FieldOK
  <1>28. s.replicas \in {1, 2} /\ s.restoreFrom = NONE
    BY <1>11, <1>14 DEF FieldOK
  <1>29. validateConfig(s.config)
    BY <1>12 DEF FieldOK
  <1>30. s.sharedStorage = FileStorage
    BY <1>13 DEF FieldOK
  <1> QED BY <1>0, <1>20, <1>21, <1>22, <1>23, <1>24, <1>25, <1>26, <1>27, <1>28, <1>29, <1>30

LEMMA SetOverlayOK ==
  ASSUME NEW s, SpecOK(s)
  PROVE  SpecOK(setOverlay(s)) /\ \A f \in SpecFields \ {"overlay"} : setOverlay(s)[f] = s[f]
  <1> DEFINE b == Default(s.overlay, NoOverlay)
             o == [b EXCEPT !.podLabels = Upsert(@, [cluster |-> "mo"])]
  <1>1. "overlay" \in SpecFields /\ s.overlay \in Overlays \cup {NONE}
    BY Fields DEF SpecOK, FieldOK
  <1>2. b \in Overlays
    BY <1>1, OverlaysClosed DEF Default
  <1>4. setOverlay(s) = [s EXCEPT !.overlay = o]
    BY DEF setOverlay
  <1> HIDE DEF b
  <1>3. o \in Overlays
    BY <1>2, OverlaysClosed
  <1> HIDE DEF o
  <1>5. FieldOK("overlay", o)
    BY <1>3 DEF FieldOK
  <1>6. SpecOK([s EXCEPT !.overlay = o])
    BY <1>1, <1>5, FieldChange
  <1>7. \A f \in SpecFields \ {"overlay"} : [s EXCEPT !.overlay = o][f] = s[f]
    BY <1>1 DEF SpecOK
  <1> QED BY <1>4, <1>6, <1>7

-----------------------------------------------------------------------------
(* Admission *)

Stable(s) == SpecOK(s) /\ DefaultSet(kind, s) = s

Versioned(s) == kind \in {"DNSet", "CNSet", "WebUI"} => GetSemVer(s) # NONE

PromKnown(s) == kind # "CNSet" /\ s.exportToPrometheus = TRUE => s.promDiscoveryScheme # NONE

\* Volumes and the version of the operator do not get less.
NotBelow(old, new) ==
  /\ new.volume.size >= old.volume.size
  /\ old.cacheVolume # NONE /\ new.cacheVolume # NONE => new.cacheVolume.size >= old.cacheVolume.size
  /\ old.operatorVersion # NONE => new.operatorVersion = LatestOpVersion

LEMMA VolumeIs ==
  ASSUME NEW v \in Volumes
  PROVE  v.size \in {5, 10, 20} /\ v.class = NONE
  BY DEF Volumes, Volume

\* The fields of a spec the webhooks have filled in.
LEMMA StableFields ==
  ASSUME kind \in SetKinds, NEW s, Stable(s)
  PROVE  /\ kind \in MOSets /\ s.exportToPrometheus = TRUE => s.promDiscoveryScheme \in {"Pod", "Service"}
         /\ kind = "CNSet" => s.serviceType \in {"ClusterIP", "NodePort"}
         /\ kind = "LogSet" => s.logShardReplicas = 1 /\ s.logShards = 1 /\ s.dnShards = 1
  <1>0. /\ {"sharedStorage", "promDiscoveryScheme", "serviceType", "logShardReplicas", "logShards",
            "dnShards", "replicas"} \subseteq SpecFields
        /\ Shaped(s) /\ \A f \in SpecFields : FieldOK(f, s[f])
    BY Fields DEF Stable, SpecOK, Shaped
  <1>1. s.sharedStorage = FileStorage /\ s.replicas \in {1, 2}
    BY <1>0 DEF FieldOK
  <1>2. \A f \in SpecFields \ {"role"} : s[f] = DefaultTo(kind, s, f)
    BY <1>0, <1>1, SetDefaults DEF Stable
  <1>3. ASSUME kind \in MOSets, s.exportToPrometheus = TRUE
        PROVE  s.promDiscoveryScheme \in {"Pod", "Service"}
    <2>1. s.promDiscoveryScheme = Default(s.promDiscoveryScheme, "Service")
      BY <1>0, <1>2, <1>3 DEF DefaultTo, Filled, With
    <2>2. s.promDiscoveryScheme \in {NONE, "Pod", "Service"}
      BY <1>0 DEF FieldOK
    <2> QED BY <2>1, <2>2 DEF Default
  <1>4. ASSUME kind = "CNSet" PROVE s.serviceType \in {"ClusterIP", "NodePort"}
    <2>1. s.serviceType = Default(s.serviceType, "ClusterIP")
      BY <1>0, <1>2, <1>4 DEF DefaultTo, Filled, With
    <2>2. s.serviceType \in {NONE, "ClusterIP", "NodePort"}
      BY <1>0 DEF FieldOK
    <2> QED BY <2>1, <2>2 DEF Default
  <1>5. ASSUME kind = "LogSet", NEW f \in {"logShardReplicas", "logShards", "dnShards"} PROVE s[f] = 1
    <2>1. With(s, f) = 1
      BY <1>1 DEF With, minHAReplicas, singleReplica
    <2>2. s[f] = Default(s[f], 1)
      BY <1>0, <1>2, <1>5, <2>1 DEF DefaultTo, Filled
    <2>3. s[f] \in {NONE, 1}
      BY <1>0 DEF FieldOK
    <2> QED BY <2>2, <2>3 DEF Default
  <1> QED BY <1>3, <1>4, <1>5

\* The webhooks admit every spec there can be that is versioned and does not
\* ask for less than the one there is.
LEMMA Admits ==
  ASSUME kind \in SetKinds, NEW old, NEW new, Stable(old), Stable(new),
         Versioned(new), PromKnown(new), NotBelow(old, new)
  PROVE  ValidateUpdate(kind, old, new)
  <1>0. SpecOK(old) /\ SpecOK(new)
    BY DEF Stable
  <1>1. /\ old.volume \in Volumes /\ new.volume \in Volumes
        /\ old.cacheVolume \in Volumes \cup {NONE} /\ new.cacheVolume \in Volumes \cup {NONE}
    BY <1>0, SpecFacts
  <1>2. /\ validateVolumeUpdate(old.volume, new.volume) /\ validateVolume(new.volume)
        /\ validateVolumeUpdate(old.cacheVolume, new.cacheVolume)
        /\ new.cacheVolume # NONE => validateVolume(new.cacheVolume)
    BY <1>1, VolumeIs DEF validateVolume, validateVolumeUpdate, NotBelow
  <1>3. validateGoMemLimitPercent(new.memoryLimitPercent)
    <2>1. new.memoryLimitPercent \in {NONE, 50}
      BY <1>0, SpecFacts
    <2> QED BY <2>1 DEF validateGoMemLimitPercent
  <1>4. CASE kind = "LogSet"
    <2>1. /\ new.sharedStorage = FileStorage /\ old.sharedStorage = FileStorage
          /\ new.restoreFrom = NONE /\ old.restoreFrom = NONE /\ new.replicas \in {1, 2}
      BY <1>0, SpecFacts
    <2>4. /\ new.logShardReplicas = 1 /\ new.logShards = 1 /\ new.dnShards = 1
          /\ old.logShardReplicas = 1 /\ old.logShards = 1 /\ old.dnShards = 1
      BY <1>4, StableFields
    <2>5. InitialConfig(new) = InitialConfig(old)
      BY <2>1, <2>4 DEF InitialConfig
    <2>6. NONE # 1
      BY NoneAssumption
    <2>2. InitialConfig(new) = InitialConfig(old) /\ validateInitialConfig(new)
      BY <2>1, <2>4, <2>5, <2>6 DEF validateInitialConfig
    <2>3. validateSharedStorage(new)
      BY <2>1, NoneAssumption DEF validateSharedStorage, FileStorage
    <2> QED BY <1>2, <1>3, <1>4, <2>1, <2>2, <2>3 DEF ValidateUpdate, LogValidateUpdate,
              LogValidateSpecUpdate, LogValidateMutateCommon
  <1>5. CASE kind \in {"DNSet", "CNSet", "WebUI"}
    <2>1. validatePodSet(new)
      <3>1. new.overlay \in Overlays \cup {NONE} /\ new.image.name = "mo"
            /\ new.promDiscoveryScheme \in {NONE, "Pod", "Service"}
        <4>1. new.image = [name |-> "mo", tag |-> new.image.tag]
          BY <1>0, SpecFacts
        <4> HIDE DEF Overlays
        <4>2. new.image.name = "mo"
          BY <4>1
        <4>3. new.overlay \in Overlays \cup {NONE} /\ new.promDiscoveryScheme \in {NONE, "Pod", "Service"}
          BY <1>0, SpecFacts
        <4> QED BY <4>2, <4>3
      <3>2. new.overlay # NONE => validateOverlays(new.overlay)
        <4>1. ASSUME NEW o \in Overlays PROVE validateOverlays(o)
          <5>1. /\ o.valid
                /\ "terminationGracePeriodSeconds" \in DOMAIN o.spec
                     => o.spec["terminationGracePeriodSeconds"] = 30
            BY OverlaysClosed
          <5> QED BY <5>1 DEF validateOverlays
        <4> QED BY <3>1, <4>1
      <3>3. new.exportToPrometheus = TRUE => new.promDiscoveryScheme \in {"Pod", "Service"}
        BY <1>5, <3>1, StableFields DEF PromKnown, MOSets
      <3> QED BY <1>5, <3>1, <3>2, <3>3, NoneAssumption
             DEF validatePodSet, Versioned, validateMainContainer
    <2>2. CASE kind = "DNSet"
      <3>1. validateConfig(new.config)
        BY <1>0, SpecFacts
      <3> QED BY <1>2, <1>3, <2>1, <2>2, <3>1
              DEF ValidateUpdate, DNValidateUpdate, DNValidateCreate, DNValidateSpecCreate
    <2>3. CASE kind = "CNSet"
      <3>1. CNValidateSpecCreate(new)
        <4>1. new.labels = {} /\ new.serviceType \in {"ClusterIP", "NodePort"}
          BY <1>0, <2>3, StableFields, SpecFacts
        <4>2. new.nodePort # NONE => new.serviceType = "NodePort"
          BY <1>0, SpecFacts
        <4> QED BY <1>2, <1>3, <4>1, <4>2 DEF CNValidateSpecCreate
      <3>2. validatePodSetUpdate(old, new)
        <4>1. old.operatorVersion \in {NONE, LatestOpVersion} /\ new.operatorVersion \in {NONE, LatestOpVersion}
          BY <1>0, SpecFacts
        <4>2. ~LT(GetOperatorVersion(new), GetOperatorVersion(old))
          BY <4>1, NoneAssumption DEF NotBelow, GetOperatorVersion, Default, LT, LatestOpVersion,
             FirstOpVersion, OpVersion1_2_0, OpVersion1_3_0
        <4> QED BY <2>3, <4>2 DEF validatePodSetUpdate, Versioned
      <3> QED BY <1>2, <2>1, <2>3, <3>1, <3>2 DEF ValidateUpdate, CNValidateUpdate, CNValidateCreate
    <2>4. CASE kind = "WebUI"
      BY <2>1, <2>4 DEF ValidateUpdate, WebUIValidateCreate
    <2> QED BY <1>5, <2>2, <2>3, <2>4
  <1>6. CASE kind = "ProxySet"
    BY <1>6 DEF ValidateUpdate
  <1> QED BY <1>4, <1>5, <1>6 DEF SetKinds

\* The defaults leave alone what is compared, but for the discovery scheme.
SameAs(s, d) ==
  /\ \A f \in Compared \ {"promDiscoveryScheme"} : d[f] = s[f]
  /\ d.promDiscoveryScheme \in {s.promDiscoveryScheme, "Service"}

LEMMA DefaultSame ==
  ASSUME NEW k \in SetKinds, NEW s, SpecOK(s)
  PROVE  SameAs(s, DefaultSpec(k, s)) /\ SameAs(s, DefaultSet(k, s))
  <1>0. Compared \subseteq SpecFields \ {"role"} /\ Shaped(s) /\ s.sharedStorage = FileStorage
    BY Fields, SpecFacts DEF Compared
  <1>1. /\ \A f \in Compared \ {"promDiscoveryScheme"} : DefaultTo(k, s, f) = s[f]
        /\ DefaultTo(k, s, "promDiscoveryScheme") \in {s.promDiscoveryScheme, "Service"}
    BY DEF Compared, DefaultTo, Filled, With, Default
  <1>2. \A f \in Compared : /\ DefaultSpec(k, s)[f] = DefaultTo(k, s, f)
                            /\ DefaultSet(k, s)[f] = DefaultTo(k, s, f)
    BY <1>0, SpecDefaults, SetDefaults
  <1>3. "promDiscoveryScheme" \in Compared
    BY DEF Compared
  <1> QED BY <1>1, <1>2, <1>3 DEF SameAs

LEMMA SameKeeps ==
  ASSUME NEW s, NEW d, SameAs(s, d)
  PROVE  /\ GetSemVer(d) = GetSemVer(s)
         /\ Versioned(s) => Versioned(d)
         /\ PromKnown(s) => PromKnown(d)
         /\ \A r : /\ NotBelow(r, d) = NotBelow(r, s)
                   /\ NotBelow(d, r) = NotBelow(s, r)
  <1>1. /\ d.image = s.image /\ d.semanticVersion = s.semanticVersion
        /\ d.operatorVersion = s.operatorVersion /\ d.volume = s.volume
        /\ d.cacheVolume = s.cacheVolume /\ d.exportToPrometheus = s.exportToPrometheus
        /\ d.promDiscoveryScheme \in {s.promDiscoveryScheme, "Service"}
    BY DEF SameAs, Compared
  <1>2. GetSemVer(d) = GetSemVer(s)
    BY <1>1 DEF GetSemVer
  <1>3. PromKnown(s) => PromKnown(d)
    BY <1>1, NoneAssumption DEF PromKnown
  <1>4. ASSUME NEW r PROVE NotBelow(r, d) = NotBelow(r, s) /\ NotBelow(d, r) = NotBelow(s, r)
    BY <1>1 DEF NotBelow
  <1> QED BY <1>2, <1>3, <1>4 DEF Versioned

LEMMA NotBelowItself ==
  ASSUME NEW s, SpecOK(s)
  PROVE  NotBelow(s, s)
  <1>0. s.volume \in Volumes /\ s.cacheVolume \in Volumes \cup {NONE}
    BY SpecFacts
  <1>1. s.volume.size >= s.volume.size
    BY <1>0, VolumeIs
  <1>2. s.cacheVolume # NONE => s.cacheVolume.size >= s.cacheVolume.size
    BY <1>0, VolumeIs
  <1>3. s.operatorVersion \in {NONE, LatestOpVersion}
    BY SpecFacts
  <1> QED BY <1>1, <1>2, <1>3 DEF NotBelow

\* The cluster's webhook lets volumes shrink and versions go that the webhooks of
\* the sets do not: a set is then refused the spec of its cluster.  Users of a
\* cluster do neither.
ClusterEdits == \A sc \in Scenarios : "cluster" \in sc => {"shrink", "unversioned"} \cap sc = {}

ClusterInv ==
  mo # NONE => /\ {"shrink", "unversioned"} \cap env.may = {}
               /\ SpecOK(mo) /\ GetSemVer(mo) # NONE /\ PromKnown(mo)
               /\ NotBelow(obj.spec, mo)

AdmitInv ==
  /\ Shape
  /\ kind \in SetKinds
  /\ Stable(obj.spec) /\ Versioned(obj.spec) /\ PromKnown(obj.spec)
  /\ ClusterInv

LEMMA AdmitSteps ==
  ASSUME kind \in SetKinds, NEW s, SpecOK(s)
  PROVE  /\ Stable(DefaultSet(kind, s))
         /\ SpecOK(ClusterDefault(kind, s)) /\ SameAs(s, ClusterDefault(kind, s))
         /\ SameAs(s, DefaultSet(kind, s))
         /\ SameAs(s, setOverlay(s))
  <1>1. Stable(DefaultSet(kind, s))
    BY DefaultOK, DefaultStable DEF Stable
  <1>2. SameAs(s, s)
    BY DEF SameAs
  <1>3. SpecOK(ClusterDefault(kind, s)) /\ SameAs(s, ClusterDefault(kind, s))
    BY <1>2, DefaultOK, DefaultSame DEF ClusterDefault
  <1>4. SameAs(s, setOverlay(s))
    <2>1. Compared \subseteq SpecFields \ {"overlay"}
      BY Fields DEF Compared
    <2>2. "promDiscoveryScheme" \in Compared
      BY DEF Compared
    <2>3. \A f \in Compared : setOverlay(s)[f] = s[f]
      BY <2>1, SetOverlayOK
    <2> QED BY <2>2, <2>3 DEF SameAs
  <1> QED BY <1>1, <1>3, <1>4, DefaultSame

\* The spec the cluster writes.
LEMMA WantedIs ==
  ASSUME kind \in SetKinds, SpecOK(mo), GetSemVer(mo) # NONE, PromKnown(mo)
  PROVE  /\ Stable(Wanted) /\ Versioned(Wanted) /\ PromKnown(Wanted)
         /\ \A r : NotBelow(r, Wanted) = NotBelow(r, mo) /\ NotBelow(Wanted, r) = NotBelow(mo, r)
  <1> DEFINE s == setOverlay(mo)
  <1>1. SpecOK(s) /\ SameAs(mo, s)
    BY SetOverlayOK, AdmitSteps
  <1>2. Wanted = DefaultSet(kind, s)
    BY DEF Wanted
  <1> HIDE DEF s
  <1>3. Stable(Wanted) /\ SameAs(s, Wanted)
    BY <1>1, <1>2, AdmitSteps
  <1>4. /\ GetSemVer(Wanted) # NONE /\ PromKnown(Wanted)
        /\ \A r : NotBelow(r, Wanted) = NotBelow(r, mo) /\ NotBelow(Wanted, r) = NotBelow(mo, r)
    BY <1>1, <1>3, SameKeeps
  <1> QED BY <1>3, <1>4 DEF Versioned

LEMMA AdmitInit == ClusterEdits /\ Init => AdmitInv
  <1> SUFFICES ASSUME ClusterEdits, Init PROVE AdmitInv
    OBVIOUS
  <1>1. Shape /\ kind \in SetKinds
    BY DEF Init, Shape, Existing
  <1> DEFINE g == Given(BaseSpec)
  <1>2. SpecOK(g)
    BY BaseOK DEF Given
  <1>3. GetSemVer(g) # NONE /\ PromKnown(g)
    <2>1. /\ BaseSpec.semanticVersion = NONE /\ BaseSpec.image.tag = <<1, 1, 0>>
          /\ BaseSpec.exportToPrometheus = NONE
      BY DEF BaseSpec
    <2>2. g.semanticVersion = NONE /\ g.image.tag = <<1, 1, 0>> /\ g.exportToPrometheus = NONE
      <3>1. {"semanticVersion", "image", "exportToPrometheus", "operatorVersion"} \subseteq SpecFields
        BY Fields
      <3>2. Shaped(BaseSpec)
        BY BaseOK, SpecFacts
      <3> QED BY <2>1, <3>1, <3>2 DEF Given, Shaped
    <2> HIDE DEF g
    <2> QED BY <2>2, NoneAssumption DEF GetSemVer, Default, PromKnown
  <1>4. obj.spec = DefaultSet(kind, IF mo = NONE THEN g ELSE setOverlay(mo))
    BY DEF Init
  <1>5. mo # NONE => mo = ClusterDefault(kind, g) /\ {"shrink", "unversioned"} \cap env.may = {}
    BY DEF Init, ClusterEdits, May
  <1> HIDE DEF g
  <1>6. CASE mo = NONE
    <2>1. Stable(obj.spec) /\ SameAs(g, obj.spec)
      BY <1>1, <1>2, <1>4, <1>6, AdmitSteps
    <2>2. Versioned(obj.spec) /\ PromKnown(obj.spec)
      BY <1>3, <2>1, SameKeeps DEF Versioned
    <2> QED BY <1>1, <1>6, <2>1, <2>2 DEF AdmitInv, ClusterInv
  <1>7. CASE mo # NONE
    <2>1. SpecOK(mo) /\ SameAs(g, mo)
      BY <1>1, <1>2, <1>5, <1>7, AdmitSteps
    <2>2. GetSemVer(mo) # NONE /\ PromKnown(mo)
      BY <1>3, <2>1, SameKeeps
    <2>3. obj.spec = Wanted
      BY <1>4, <1>7 DEF Wanted
    <2>4. Stable(obj.spec) /\ Versioned(obj.spec) /\ PromKnown(obj.spec) /\ NotBelow(obj.spec, mo)
      BY <1>1, <2>1, <2>2, <2>3, WantedIs, NotBelowItself
    <2> QED BY <1>1, <1>5, <1>7, <2>1, <2>2, <2>4 DEF AdmitInv, ClusterInv
  <1> QED BY <1>6, <1>7

LEMMA EditAdmitted ==
  ASSUME AdmitInv, EditSet
  PROVE  Stable(obj.spec)' /\ Versioned(obj.spec)' /\ PromKnown(obj.spec)'
  <1>1. PICK e \in EditNames : /\ ValidateUpdate(kind, obj.spec, DefaultSet(kind, Edit(e, obj.spec)))
                               /\ obj' = [obj EXCEPT !.spec = DefaultSet(kind, Edit(e, obj.spec))]
    BY DEF EditSet
  <1> DEFINE r == Edit(e, obj.spec)
             d == DefaultSet(kind, r)
  <1>2. kind' = kind /\ obj'.spec = d
    BY <1>1 DEF EditSet, AdmitInv, Shape
  <1>3. SpecOK(obj.spec) /\ SpecOK(r) /\ EditChanges(e, obj.spec, r)
    BY EditOK, EditFields DEF AdmitInv, Stable
  <1> HIDE DEF r
  <1>4. Stable(d) /\ SameAs(r, d)
    BY <1>3, AdmitSteps DEF AdmitInv
  <1>5. Versioned(d)
    BY <1>1 DEF r, Versioned, ValidateUpdate, DNValidateUpdate, DNValidateCreate, CNValidateUpdate,
       CNValidateCreate, WebUIValidateCreate, validatePodSet
  <1>6. PromKnown(r)
    BY <1>3, NoneAssumption DEF EditChanges, PromKnown, AdmitInv
  <1>7. PromKnown(d)
    BY <1>4, <1>6, SameKeeps
  <1> HIDE DEF d
  <1> QED BY <1>2, <1>4, <1>5, <1>7 DEF Stable, Versioned, PromKnown

LEMMA EditBelow ==
  ASSUME NEW old, NEW s, NEW r, SpecOK(old), SpecOK(s), NotBelow(old, s),
         NEW e \in EditNames \ {"shrink", "unversioned"}, EditChanges(e, s, r)
  PROVE  NotBelow(old, r) /\ (GetSemVer(s) # NONE => GetSemVer(r) # NONE)
  <1>1. /\ r.volume \in {s.volume, Volume(20)}
        /\ r.cacheVolume \in {s.cacheVolume, Volume(20), NONE}
        /\ r.operatorVersion \in {s.operatorVersion, LatestOpVersion}
        /\ r.semanticVersion \in {s.semanticVersion, <<1, 2, 0>>}
        /\ r.image.tag \in {s.image.tag, <<2, 0, 0>>}
    BY DEF EditChanges
  <1>2. old.volume \in Volumes /\ old.cacheVolume \in Volumes \cup {NONE}
    BY SpecFacts
  <1>3. Volume(20).size = 20
    BY DEF Volume
  <1>4. /\ old.volume.size \in {5, 10, 20}
        /\ old.cacheVolume # NONE => old.cacheVolume.size \in {5, 10, 20}
    BY <1>2, VolumeIs
  <1>5. NotBelow(old, r)
    BY <1>1, <1>3, <1>4 DEF NotBelow
  <1>6. GetSemVer(s) # NONE => GetSemVer(r) # NONE
    BY <1>1, NoneAssumption DEF GetSemVer, Default
  <1> QED BY <1>5, <1>6

LEMMA ClusterEditAdmitted ==
  ASSUME AdmitInv, EditCluster
  PROVE  ClusterInv'
  <1>0. /\ UNCHANGED <<kind, obj>> /\ env'.may = env.may
        /\ {"shrink", "unversioned"} \cap env.may = {}
        /\ SpecOK(mo) /\ GetSemVer(mo) # NONE /\ PromKnown(mo) /\ NotBelow(obj.spec, mo)
    BY DEF EditCluster, Edited, AdmitInv, Shape, ClusterInv
  <1>1. PICK e \in EditNames \cap env.may : mo' = ClusterDefault(kind, Edit(e, mo))
    BY DEF EditCluster
  <1> DEFINE r == Edit(e, mo)
  <1>2. SpecOK(r) /\ EditChanges(e, mo, r)
    BY <1>0, EditOK, EditFields
  <1> HIDE DEF r
  <1>3. SpecOK(mo') /\ SameAs(r, mo')
    BY <1>1, <1>2, AdmitSteps DEF r, AdmitInv
  <1>4. NotBelow(obj.spec, r) /\ GetSemVer(r) # NONE
    <2>1. e \in EditNames \ {"shrink", "unversioned"}
      BY <1>0
    <2> QED BY <1>0, <1>2, <2>1, EditBelow DEF AdmitInv, Stable
  <1>5. PromKnown(r)
    BY <1>0, <1>2, NoneAssumption DEF EditChanges, PromKnown
  <1> DEFINE m == mo'
  <1>6. SpecOK(m) /\ SameAs(r, m)
    BY <1>3
  <1> HIDE DEF m
  <1>7. NotBelow(obj.spec, m) /\ GetSemVer(m) # NONE /\ PromKnown(m)
    BY <1>4, <1>5, <1>6, SameKeeps
  <1> QED BY <1>0, <1>6, <1>7 DEF m, ClusterInv, PromKnown

LEMMA AdmitInductive ==
  ASSUME AdmitInv, [Next]_vars
  PROVE  AdmitInv'
  <1>0. Shape' /\ kind' = kind /\ kind' \in SetKinds /\ env'.may = env.may
    BY ShapeInductive, ScenarioStays DEF AdmitInv
  <1>1. CASE mo' = mo /\ obj'.spec = obj.spec
    BY <1>0, <1>1 DEF AdmitInv, Stable, Versioned, PromKnown, ClusterInv
  <1>2. CASE Observe
    BY <1>1, <1>2, ObserveFrame
  <1>3. CASE Finalize
    BY <1>1, <1>3 DEF Finalize, FinalizeDNSet, FinalizeProxySet, FinalizeWebUI, DeleteOwned, AdmitInv, Shape
  <1>4. CASE Rollout \/ Crash
    BY <1>1, <1>4 DEF Rollout, Crash, SetPods
  <1>5. CASE DeliverPods \/ Failover \/ ScaleLogSet \/ UNCHANGED vars
    BY <1>1, <1>5, StoresFrame DEF DeliverPods, vars
  <1>6. CASE DeleteSet
    BY <1>1, <1>6 DEF DeleteSet, AdmitInv, Shape
  <1>7. CASE EditSet
    <2>1. mo' = NONE
      BY <1>7 DEF EditSet
    <2> QED BY <1>0, <1>7, <2>1, EditAdmitted DEF AdmitInv, ClusterInv
  <1>8. CASE EditCluster
    <2>1. obj' = obj
      BY <1>8 DEF EditCluster
    <2> QED BY <1>0, <1>8, <2>1, ClusterEditAdmitted DEF AdmitInv, Stable, Versioned, PromKnown
  <1>9. CASE SyncCluster
    <2>1. mo' = mo /\ obj'.spec = Wanted /\ mo # NONE
      BY <1>9 DEF SyncCluster, AdmitInv, Shape
    <2>2. SpecOK(mo) /\ GetSemVer(mo) # NONE /\ PromKnown(mo)
      BY <2>1 DEF AdmitInv, ClusterInv
    <2>3. /\ Stable(Wanted) /\ Versioned(Wanted) /\ PromKnown(Wanted) /\ NotBelow(Wanted, mo)
      BY <2>2, WantedIs, NotBelowItself DEF AdmitInv
    <2>4. (Stable(obj.spec) /\ Versioned(obj.spec) /\ PromKnown(obj.spec) /\ NotBelow(obj.spec, mo))'
      BY <1>0, <2>1, <2>3 DEF Stable, Versioned, PromKnown
    <2> QED BY <1>0, <2>1, <2>2, <2>4 DEF AdmitInv, ClusterInv, PromKnown
  <1> QED BY <1>2, <1>3, <1>4, <1>5, <1>6, <1>7, <1>8, <1>9 DEF Next

\* Defaults are stable, an update that changes nothing is admitted, and a set is
\* never refused the spec of its cluster, however many specs of it the set has
\* missed (the webhooks' Default and ValidateUpdate), if users of a cluster do not
\* take volumes or versions back.
THEOREM SpecsAdmitted == ClusterEdits => (Spec => []ControllersAdmitted)
  <1> SUFFICES ASSUME ClusterEdits PROVE Spec => []ControllersAdmitted
    OBVIOUS
  <1>1. Init => AdmitInv
    BY AdmitInit
  <1>2. AdmitInv /\ [Next]_vars => AdmitInv'
    BY AdmitInductive
  <1>3. AdmitInv => ControllersAdmitted
    <2> SUFFICES ASSUME AdmitInv PROVE ControllersAdmitted
      OBVIOUS
    <2>1. ValidateUpdate(kind, obj.spec, obj.spec)
      BY Admits, NotBelowItself DEF AdmitInv, Stable
    <2>2. ASSUME mo # NONE PROVE ValidateUpdate(kind, obj.spec, Wanted)
      BY <2>2, WantedIs, Admits DEF AdmitInv, ClusterInv
    <2> QED BY <2>1, <2>2 DEF ControllersAdmitted, AdmitInv, Stable
  <1> QED BY <1>1, <1>2, <1>3, PTL DEF Spec

-----------------------------------------------------------------------------
(* Templates *)

TemplateFields == {"labels", "annotations", "main", "env", "mounts", "volumes", "spec", "gates", "others"}

IsTemplate(t) == t = [f \in TemplateFields |-> t[f]]

\* A template that has the annotations of another.
SameNotes(t, r) == IsTemplate(r) /\ r.annotations = t.annotations

LEMMA OverlayMetaTemplate ==
  ASSUME NEW o, NEW t, IsTemplate(t)
  PROVE  /\ IsTemplate(OverlayPodMeta(o, t))
         /\ OverlayPodMeta(o, t).annotations = IF o = NONE THEN t.annotations
                                               ELSE Upsert(t.annotations, o.podAnnotations)
  BY DEF IsTemplate, TemplateFields, OverlayPodMeta

LEMMA OverlaySpecTemplate ==
  ASSUME NEW o, NEW t, IsTemplate(t)
  PROVE  SameNotes(t, OverlayPodSpec(o, t))
  BY DEF IsTemplate, TemplateFields, OverlayPodSpec, SameNotes

LEMMA OverlayMainTemplate ==
  ASSUME NEW o, NEW t, IsTemplate(t)
  PROVE  SameNotes(t, OverlayMainContainer(o, t))
  BY DEF IsTemplate, TemplateFields, OverlayMainContainer, SameNotes

LEMMA SyncMetaTemplate ==
  ASSUME NEW p, NEW t, IsTemplate(t)
  PROVE  IsTemplate(SyncPodMeta(p, t))
  BY DEF IsTemplate, TemplateFields, SyncPodMeta

LEMMA SuffixTemplate ==
  ASSUME NEW p, NEW suffix, NEW t, IsTemplate(t)
  PROVE  /\ IsTemplate(SetConfigSuffix(p, suffix, t))
         /\ InplaceConfigmapUpdate(p) => SetConfigSuffix(p, suffix, t).annotations["config-suffix"] = suffix
  <1>1. CASE ~InplaceConfigmapUpdate(p)
    BY <1>1 DEF SetConfigSuffix, InplaceConfigmapUpdate
  <1>2. CASE InplaceConfigmapUpdate(p)
    <2> DEFINE a == Upsert(t.annotations, Entry("config-suffix", suffix))
    <2>1. SetConfigSuffix(p, suffix, t) = [t EXCEPT !.annotations = a]
      BY <1>2 DEF SetConfigSuffix, InplaceConfigmapUpdate
    <2>2. a["config-suffix"] = suffix
      BY DEF Upsert, Entry
    <2> HIDE DEF a
    <2>3. LET r == [t EXCEPT !.annotations = a] IN IsTemplate(r) /\ r.annotations = a
      BY DEF IsTemplate, TemplateFields
    <2> QED BY <2>1, <2>2, <2>3
  <1> QED BY <1>1, <1>2

LEMMA PartsTemplate ==
  ASSUME NEW p, NEW sp, NEW t, IsTemplate(t)
  PROVE  /\ SameNotes(t, SetStorageProviderConfig(sp, t))
         /\ SameNotes(t, SetupMemoryFsVolume(p, t))
         /\ SameNotes(t, SyncTopology(p, t))
         /\ \A mounts, e : SameNotes(t, MainContainer(p, mounts, e, t))
         /\ \A gates : SameNotes(t, PodFields(p, gates, t))
  <1>1. SameNotes(t, SetStorageProviderConfig(sp, t))
    BY DEF IsTemplate, TemplateFields, SameNotes, SetStorageProviderConfig
  <1>2. SameNotes(t, SetupMemoryFsVolume(p, t))
    BY DEF IsTemplate, TemplateFields, SameNotes, SetupMemoryFsVolume
  <1>3. SameNotes(t, SyncTopology(p, t))
    BY DEF IsTemplate, TemplateFields, SameNotes, SyncTopology
  <1>4. ASSUME NEW mounts, NEW e PROVE SameNotes(t, MainContainer(p, mounts, e, t))
    BY DEF IsTemplate, TemplateFields, SameNotes, MainContainer
  <1>5. ASSUME NEW gates PROVE SameNotes(t, PodFields(p, gates, t))
    BY DEF IsTemplate, TemplateFields, SameNotes, PodFields
  <1> QED BY <1>1, <1>2, <1>3, <1>4, <1>5

LEMMA FinishTemplate ==
  ASSUME NEW p, NEW sp, NEW t, IsTemplate(t)
  PROVE  SameNotes(t, FinishPodSpec(p, sp, t))
  <1> DEFINE a == SetStorageProviderConfig(sp, t)
             b == SyncTopology(p, a)
             c == OverlayPodSpec(p.overlay, b)
             d == SetupMemoryFsVolume(p, c)
  <1>1. SameNotes(t, a)
    BY PartsTemplate
  <1> HIDE DEF a
  <1>2. SameNotes(a, b)
    BY <1>1, PartsTemplate DEF SameNotes
  <1> HIDE DEF b
  <1>3. SameNotes(b, c)
    BY <1>2, OverlaySpecTemplate DEF SameNotes
  <1> HIDE DEF c
  <1>4. SameNotes(c, d)
    BY <1>3, PartsTemplate DEF SameNotes
  <1>5. FinishPodSpec(p, sp, t) = d
    BY DEF FinishPodSpec, a, b, c
  <1> HIDE DEF d
  <1> QED BY <1>1, <1>2, <1>3, <1>4, <1>5 DEF SameNotes

LEMMA LogTemplate ==
  ASSUME NEW s, NEW t, IsTemplate(t)
  PROVE  SameNotes(t, LogSyncPodSpec(s, t))
  <1> DEFINE mounts == Upsert(Entry("mo-data", "data"), [bootstrap |-> "ro", config |-> "ro", gossip |-> "ro"])
             e == Upsert(baseEnv, [POD_IP |-> "fieldRef", HEADLESS_SERVICE_NAME |-> "log"])
             a == MainContainer(s, mounts, e, t)
             b == OverlayMainContainer(s.overlay, a)
             c == PodFields(s, {"InPlaceUpdateReady"}, b)
             v == [bootstrap |-> "bootstrap", gossip |-> "gossip"]
             d == [c EXCEPT !.volumes = v]
             r == FinishPodSpec(s, s.sharedStorage, d)
  <1>0. LogSyncPodSpec(s, t) = r
    BY DEF LogSyncPodSpec
  <1> HIDE DEF mounts, e, v
  <1>1. SameNotes(t, a)
    BY PartsTemplate
  <1> HIDE DEF a
  <1>2. SameNotes(a, b)
    BY <1>1, OverlayMainTemplate DEF SameNotes
  <1> HIDE DEF b
  <1>3. SameNotes(b, c)
    <2>1. IsTemplate(b)
      BY <1>2 DEF SameNotes
    <2> QED BY <2>1, PartsTemplate
  <1> HIDE DEF c
  <1>4. SameNotes(c, d)
    BY <1>3 DEF SameNotes, IsTemplate, TemplateFields
  <1> HIDE DEF d
  <1>5. SameNotes(d, r)
    BY <1>4, FinishTemplate DEF SameNotes
  <1> HIDE DEF r
  <1> QED BY <1>0, <1>1, <1>2, <1>3, <1>4, <1>5 DEF SameNotes

LEMMA DNTemplate ==
  ASSUME NEW s, NEW sp, NEW t, IsTemplate(t)
  PROVE  SameNotes(t, DNSyncPodSpec(s, sp, t))
  <1> DEFINE mounts == Upsert([config |-> "ro"], dataMount(s.cacheVolume))
             e == Upsert(Upsert(baseEnv, [HEADLESS_SERVICE_NAME |-> "dn"]),
                         If(s.dnsBasedIdentity, [HOSTNAME_UUID |-> "y"]))
             a == MainContainer(s, mounts, e, t)
             b == OverlayMainContainer(s.overlay, a)
             c == PodFields(s, {"InPlaceUpdateReady"}, b)
             r == FinishPodSpec(s, sp, c)
  <1>0. DNSyncPodSpec(s, sp, t) = r
    BY DEF DNSyncPodSpec
  <1> HIDE DEF mounts, e
  <1>1. SameNotes(t, a)
    BY PartsTemplate
  <1> HIDE DEF a
  <1>2. SameNotes(a, b)
    BY <1>1, OverlayMainTemplate DEF SameNotes
  <1> HIDE DEF b
  <1>3. SameNotes(b, c)
    <2>1. IsTemplate(b)
      BY <1>2 DEF SameNotes
    <2> QED BY <2>1, PartsTemplate
  <1> HIDE DEF c
  <1>4. SameNotes(c, r)
    BY <1>3, FinishTemplate DEF SameNotes
  <1> HIDE DEF r
  <1> QED BY <1>0, <1>1, <1>2, <1>3, <1>4 DEF SameNotes

LEMMA CNTemplate ==
  ASSUME NEW s, NEW sp, NEW t, IsTemplate(t)
  PROVE  IsTemplate(CNSyncPodSpec(s, sp, CNSyncPodMeta(s, t)))
  <1> DEFINE lab == Upsert(Upsert(t.annotations, Entry("cn-labels", s.labels)),
                      If(s.podManagementPolicy # NONE,
                         Entry("pod-management-policy", s.podManagementPolicy)))
             g == [t EXCEPT !.annotations = lab]
             h == SyncPodMeta(s, g)
             i == OverlayPodMeta(s.overlay, h)
  <1>1. CNSyncPodMeta(s, t) = i
    BY DEF CNSyncPodMeta
  <1> HIDE DEF lab
  <1>2. IsTemplate(g)
    BY DEF IsTemplate, TemplateFields
  <1> HIDE DEF g
  <1>3. IsTemplate(h)
    BY <1>2, SyncMetaTemplate
  <1> HIDE DEF h
  <1>4. IsTemplate(i)
    BY <1>3, OverlayMetaTemplate
  <1> HIDE DEF i
  <1> DEFINE mounts == Upsert([config |-> "ro"], dataMount(s.cacheVolume))
             e == Upsert(baseEnv, [HEADLESS_SERVICE_NAME |-> "cn", POD_IP |-> "fieldRef"])
             gates == i.gates \cup {"CNStoreReadiness", "KruisePodReady", "InPlaceUpdateReady"}
             a == MainContainer(s, mounts, e, i)
             b == OverlayMainContainer(s.overlay, a)
             c == PodFields(s, gates, b)
             d == FinishPodSpec(s, sp, c)
             r == [d EXCEPT !.others = @ \cup (IF s.pythonUdfSidecar = NONE THEN {}
                                               ELSE {s.pythonUdfSidecar})]
  <1>5. CNSyncPodSpec(s, sp, i) = r
    BY DEF CNSyncPodSpec
  <1> HIDE DEF mounts, e, gates
  <1>6. IsTemplate(a)
    BY <1>4, PartsTemplate DEF SameNotes
  <1> HIDE DEF a
  <1>7. IsTemplate(b)
    BY <1>6, OverlayMainTemplate DEF SameNotes
  <1> HIDE DEF b
  <1>8. IsTemplate(c)
    BY <1>7, PartsTemplate DEF SameNotes
  <1> HIDE DEF c
  <1>9. IsTemplate(d)
    BY <1>8, FinishTemplate DEF SameNotes
  <1> HIDE DEF d
  <1>10. IsTemplate(r)
    BY <1>9 DEF IsTemplate, TemplateFields
  <1> QED BY <1>1, <1>5, <1>10

LEMMA ProxyTemplate ==
  ASSUME NEW s, NEW sp, NEW suffix, NEW t, IsTemplate(t),
         s.overlay # NONE => "config-suffix" \notin DOMAIN s.overlay.podAnnotations
  PROVE  LET r == ProxySyncMOPod(s, sp, suffix, t)
         IN IsTemplate(r) /\ (InplaceConfigmapUpdate(s) => r.annotations["config-suffix"] = suffix)
  <1> DEFINE a == MainContainer(s, [config |-> "ro"], baseEnv, t)
             b == [a EXCEPT !.main = Upsert(@, [readinessProbe |-> "tcp"])]
             c == OverlayMainContainer(s.overlay, b)
             d == PodFields(s, {"InPlaceUpdateReady"}, c)
             e == SyncTopology(s, d)
             f == SetStorageProviderConfig(sp, e)
             g == SyncPodMeta(s, f)
             h == SetConfigSuffix(s, suffix, g)
             i == OverlayPodMeta(s.overlay, h)
             r == OverlayPodSpec(s.overlay, i)
  <1>0. ProxySyncMOPod(s, sp, suffix, t) = r
    BY DEF ProxySyncMOPod
  <1>1. IsTemplate(a)
    BY PartsTemplate DEF SameNotes
  <1> HIDE DEF a
  <1>2. IsTemplate(b)
    BY <1>1 DEF IsTemplate, TemplateFields
  <1> HIDE DEF b
  <1>3. IsTemplate(c)
    BY <1>2, OverlayMainTemplate DEF SameNotes
  <1> HIDE DEF c
  <1>4. IsTemplate(d)
    BY <1>3, PartsTemplate DEF SameNotes
  <1> HIDE DEF d
  <1>5. IsTemplate(e)
    BY <1>4, PartsTemplate DEF SameNotes
  <1> HIDE DEF e
  <1>6. IsTemplate(f)
    BY <1>5, PartsTemplate DEF SameNotes
  <1> HIDE DEF f
  <1>7. IsTemplate(g)
    BY <1>6, SyncMetaTemplate
  <1> HIDE DEF g
  <1>8. IsTemplate(h) /\ (InplaceConfigmapUpdate(s) => h.annotations["config-suffix"] = suffix
                                              /\ "config-suffix" \in DOMAIN h.annotations)
    <2>1. IsTemplate(h) /\ (InplaceConfigmapUpdate(s) => h.annotations["config-suffix"] = suffix)
      BY <1>7, SuffixTemplate
    <2>2. ASSUME InplaceConfigmapUpdate(s)
          PROVE  "config-suffix" \in DOMAIN h.annotations
      <3> DEFINE x == Upsert(g.annotations, Entry("config-suffix", suffix))
      <3>1. h = [g EXCEPT !.annotations = x]
        BY <2>2 DEF SetConfigSuffix, InplaceConfigmapUpdate
      <3>2. "config-suffix" \in DOMAIN x
        BY DEF Upsert, Entry
      <3> HIDE DEF x, h
      <3>3. h.annotations = x
        BY <1>7, <3>1 DEF IsTemplate, TemplateFields
      <3> QED BY <3>2, <3>3
    <2> QED BY <2>1, <2>2
  <1> HIDE DEF h
  <1>9. /\ IsTemplate(i)
        /\ i.annotations = IF s.overlay = NONE THEN h.annotations
                           ELSE Upsert(h.annotations, s.overlay.podAnnotations)
    BY <1>8, OverlayMetaTemplate
  <1> HIDE DEF i
  <1>10. InplaceConfigmapUpdate(s) => i.annotations["config-suffix"] = suffix
    BY <1>8, <1>9 DEF Upsert
  <1>11. SameNotes(i, r)
    BY <1>9, OverlaySpecTemplate
  <1> HIDE DEF r
  <1> QED BY <1>0, <1>10, <1>11 DEF SameNotes

LEMMA WebUITemplate ==
  ASSUME NEW s, NEW t, IsTemplate(t)
  PROVE  IsTemplate(WebUISyncPodSpec(s, t))
  <1> DEFINE a == PodFields(s, {"InPlaceUpdateReady"}, t)
             b == [a EXCEPT !.others = {"backend", "frontend"}]
             c == OverlayPodMeta(s.overlay, b)
             d == SyncTopology(s, c)
             r == OverlayPodSpec(s.overlay, d)
  <1>0. WebUISyncPodSpec(s, t) = r
    BY DEF WebUISyncPodSpec
  <1>1. IsTemplate(a)
    BY PartsTemplate DEF SameNotes
  <1> HIDE DEF a
  <1>2. IsTemplate(b)
    BY <1>1 DEF IsTemplate, TemplateFields
  <1> HIDE DEF b
  <1>3. IsTemplate(c)
    BY <1>2, OverlayMetaTemplate
  <1> HIDE DEF c
  <1>4. IsTemplate(d)
    BY <1>3, PartsTemplate DEF SameNotes
  <1> HIDE DEF d
  <1>5. IsTemplate(r)
    BY <1>4, OverlaySpecTemplate DEF SameNotes
  <1> QED BY <1>0, <1>5

LEMMA InplaceIsLatest ==
  ASSUME NEW s, SpecOK(s)
  PROVE  /\ InplaceConfigmapUpdate(s) <=> s.operatorVersion = LatestOpVersion
         /\ InplaceConfigmapUpdate(s) <=> GetOperatorVersion(s) = LatestOpVersion
  <1>1. s.operatorVersion \in {NONE, LatestOpVersion}
    BY SpecFacts
  <1>2. \A v : Enabled("InplaceConfigmapUpdate", v) <=> versionPrecedes(OpVersion1_3_0, v)
    <2>1. gateVersions["InplaceConfigmapUpdate"] = {OpVersion1_3_0}
      BY DEF gateVersions
    <2> QED BY <2>1 DEF Enabled
  <1>3. versionPrecedes(OpVersion1_3_0, LatestOpVersion) /\ ~versionPrecedes(OpVersion1_3_0, FirstOpVersion)
    BY DEF versionPrecedes, followsInMajor, OpVersion1_3_0, OpVersion1_2_0, LatestOpVersion, FirstOpVersion
  <1>4. GetOperatorVersion(s) = IF s.operatorVersion = NONE THEN FirstOpVersion ELSE s.operatorVersion
    BY DEF GetOperatorVersion, Default
  <1>5. NONE # LatestOpVersion
    BY NoneAssumption
  <1>6. InplaceConfigmapUpdate(s) <=> versionPrecedes(OpVersion1_3_0, GetOperatorVersion(s))
    BY <1>2 DEF InplaceConfigmapUpdate
  <1> QED BY <1>1, <1>3, <1>4, <1>5, <1>6

\* The template a controller makes names the configuration of the spec: by the
\* map in its volume or, where that is updated in place, by the annotation.
LEMMA SyncTemplate ==
  ASSUME kind \in SetKinds, NEW s, SpecOK(s), NEW t, IsTemplate(t)
  PROVE  LET r == syncPods(s, t).t
             conf == Config(kind, s, log)
         IN /\ IsTemplate(r)
            /\ r.volumes["config"] = IF InplaceConfigmapUpdate(s) THEN {}
                                     ELSE {buildConfigMap(kind, s, conf)}
            /\ InplaceConfigmapUpdate(s) /\ kind # "WebUI" => r.annotations["config-suffix"] = conf
  <1> DEFINE conf == Config(kind, s, log)
             cm == buildConfigMap(kind, s, conf)
             sp == log.spec.sharedStorage
             base == SyncPodMeta(s, t)
             meta == OverlayPodMeta(s.overlay, base)
             y == CASE kind = "LogSet" -> LogSyncPodSpec(s, LogConfigSuffix(s, conf, meta))
                    [] kind = "DNSet" -> DNSyncPodSpec(s, sp, SetConfigSuffix(s, conf, meta))
                    [] kind = "CNSet" -> SetConfigSuffix(s, conf,
                                           PoolAnnotations(s, CNSyncPodSpec(s, sp, CNSyncPodMeta(s, t))))
                    [] kind = "ProxySet" -> ProxySyncMOPod(s, sp, conf, t)
                    [] kind = "WebUI" -> WebUISyncPodSpec(s, t)
             r == SyncConfigVolume(s, cm, y)
  <1>0. syncPods(s, t).t = r
    BY DEF syncPods
  <1> HIDE DEF conf, cm, sp
  <1>1. IsTemplate(base)
    BY SyncMetaTemplate
  <1> HIDE DEF base
  <1>2. IsTemplate(meta)
    BY <1>1, OverlayMetaTemplate
  <1> HIDE DEF meta
  <1>3. IsTemplate(y) /\ (InplaceConfigmapUpdate(s) /\ kind # "WebUI" => y.annotations["config-suffix"] = conf)
    <2>1. CASE kind = "LogSet"
      <3> DEFINE a == LogConfigSuffix(s, conf, meta)
                 b == LogSyncPodSpec(s, a)
      <3>1. IsTemplate(a) /\ (InplaceConfigmapUpdate(s) => a.annotations["config-suffix"] = conf)
        BY <1>2, SuffixTemplate, InplaceIsLatest DEF LogConfigSuffix
      <3> HIDE DEF a
      <3>2. SameNotes(a, b)
        BY <3>1, LogTemplate
      <3>3. y = b
        BY <2>1 DEF a
      <3> HIDE DEF b, y
      <3> QED BY <3>1, <3>2, <3>3 DEF SameNotes
    <2>2. CASE kind = "DNSet"
      <3> DEFINE a == SetConfigSuffix(s, conf, meta)
                 b == DNSyncPodSpec(s, sp, a)
      <3>1. IsTemplate(a) /\ (InplaceConfigmapUpdate(s) => a.annotations["config-suffix"] = conf)
        BY <1>2, SuffixTemplate
      <3> HIDE DEF a
      <3>2. SameNotes(a, b)
        BY <3>1, DNTemplate
      <3>3. y = b
        BY <2>2 DEF a
      <3> HIDE DEF b, y
      <3> QED BY <3>1, <3>2, <3>3 DEF SameNotes
    <2>3. CASE kind = "CNSet"
      <3> DEFINE a == CNSyncPodSpec(s, sp, CNSyncPodMeta(s, t))
                 b == PoolAnnotations(s, a)
                 c == SetConfigSuffix(s, conf, b)
      <3>1. IsTemplate(a)
        BY CNTemplate
      <3>2. y = c
        BY <2>3
      <3> HIDE DEF a, y
      <3>3. IsTemplate(b)
        BY <3>1 DEF PoolAnnotations, IsTemplate, TemplateFields
      <3> HIDE DEF b
      <3>4. IsTemplate(c) /\ (InplaceConfigmapUpdate(s) => c.annotations["config-suffix"] = conf)
        BY <3>3, SuffixTemplate
      <3> QED BY <3>2, <3>4
    <2>4. CASE kind = "ProxySet"
      <3>1. s.overlay # NONE => "config-suffix" \notin DOMAIN s.overlay.podAnnotations
        <4>1. s.overlay \in Overlays \cup {NONE}
          BY SpecFacts
        <4>2. \A o \in Overlays : "config-suffix" \notin DOMAIN o.podAnnotations
          BY OverlaysClosed
        <4> QED BY <4>1, <4>2
      <3> DEFINE a == ProxySyncMOPod(s, sp, conf, t)
      <3>2. IsTemplate(a) /\ (InplaceConfigmapUpdate(s) => a.annotations["config-suffix"] = conf)
        BY <3>1, ProxyTemplate
      <3>3. y = a
        BY <2>4
      <3> QED BY <3>2, <3>3
    <2>5. CASE kind = "WebUI"
      <3>1. y = WebUISyncPodSpec(s, t)
        BY <2>5
      <3> QED BY <2>5, <3>1, WebUITemplate
    <2> QED BY <2>1, <2>2, <2>3, <2>4, <2>5 DEF SetKinds
  <1> HIDE DEF y
  <1> DEFINE V == IF InplaceConfigmapUpdate(s) THEN {} ELSE {cm}
             v == Upsert(y.volumes, [config |-> V])
  <1>4. r = [y EXCEPT !.volumes = v]
    BY DEF SyncConfigVolume
  <1> HIDE DEF V
  <1>5. v["config"] = V
    BY DEF Upsert
  <1> HIDE DEF v, r
  <1>6. IsTemplate(r) /\ r.volumes = v /\ r.annotations = y.annotations
    BY <1>3, <1>4 DEF IsTemplate, TemplateFields
  <1> QED BY <1>0, <1>3, <1>5, <1>6 DEF V, cm, conf

-----------------------------------------------------------------------------
(* Changes roll out *)

WorkloadFields == {"st", "t", "replicas", "claim", "svcs", "type", "scrape"}

\* A template names a map that is not updated in place, or none; that of a CNSet
\* names none only if its spec asks for the update in place, and so does every
\* later one.
TemplateFits(t) ==
  /\ IsTemplate(t)
  /\ \A m \in t.volumes["config"] : ~m.script.inplace
  /\ kind = "CNSet" /\ t.volumes["config"] = {} => InplaceConfigmapUpdate(obj.spec)

WorkloadFits(w) ==
  /\ w = [f \in WorkloadFields |-> w[f]]
  /\ w.st \in {"none", "live"}
  /\ w.st = "none" => w.replicas = 0
  /\ w.st = "live" => TemplateFits(w.t)
  /\ w.claim \in {NONE, 5, 10, 20}
  /\ kind \in {"LogSet", "DNSet"} => "svc" \notin w.svcs

\* A pod that has started has the configuration its template names.
PodFits(p) ==
  LET t == pods[p].t
  IN /\ \A m \in t.volumes["config"] : ~m.script.inplace
     /\ pods[p].conf # {} =>
          IF t.volumes["config"] # {} THEN pods[p].conf = UNION {m.plain : m \in t.volumes["config"]}
          ELSE kind # "WebUI" => pods[p].conf = {t.annotations["config-suffix"]}

\* What the controller has seen to before it lets the set out of its queue.
Settled ==
  LET new == syncPods(obj.spec, wl.t).t
  IN /\ wl.st = "live"
     /\ wl.t = IF Paused THEN PausedTemplate(new) ELSE new
     /\ wl.replicas = obj.spec.replicas
     /\ SizeOf(obj.spec) # NONE => wl.claim \in {SizeOf(obj.spec), NONE}
     /\ kind # "WebUI" => wl.scrape = PromDiscoveredByService(obj.spec)
     /\ "svc" \in wl.svcs => wl.type = obj.spec.serviceType
     /\ Ready

\* What a set reads of its LogSet.
LogFits(l) == l = [spec |-> l.spec, reserved |-> l.reserved] /\ l.spec = [f \in SpecFields |-> l.spec[f]]

RollInv ==
  /\ KeptInv
  /\ kind \in SetKinds
  /\ LogFits(log)
  /\ SpecOK(obj.spec) /\ (mo # NONE => SpecOK(mo))
  /\ WorkloadFits(wl)
  /\ \A p \in Existing : PodFits(p)
  /\ obj.st = "live" /\ queue = "out" => Settled

\* All pods there are have started if as many as there are have.
LEMMA AllStarted ==
  ASSUME Ready, Cardinality(Existing) = obj.spec.replicas, obj.spec.replicas \in Nat
  PROVE  \A p \in Existing : pods[p].conf # {}
  <1> DEFINE S == {p \in Pods : pods[p] # NONE /\ pods[p].conf # {}}
  <1>1. IsFiniteSet(Pods)
    BY PodSetsAssumption
  <1>2. IsFiniteSet(Existing) /\ S \in SUBSET Existing
    <2>1. Existing \in SUBSET Pods /\ S \in SUBSET Existing
      BY DEF Existing
    <2> HIDE DEF S
    <2> QED BY <1>1, <2>1, FS_Subset
  <1>3. Cardinality(S) >= obj.spec.replicas
    BY DEF Ready
  <1> HIDE DEF S
  <1>4. IsFiniteSet(S) /\ Cardinality(S) \in Nat /\ Cardinality(S) <= Cardinality(Existing)
    <2>1. IsFiniteSet(S) /\ Cardinality(S) <= Cardinality(Existing)
      BY <1>2, FS_Subset
    <2> QED BY <2>1, FS_CardinalityType
  <1>5. Cardinality(S) = Cardinality(Existing)
    BY <1>3, <1>4
  <1>6. S = Existing
    BY <1>2, <1>5, FS_Subset
  <1> QED BY <1>6 DEF S

LEMMA SettledRollsOut ==
  ASSUME RollInv, Quiet
  PROVE  RolledOut
  <1> DEFINE new == syncPods(obj.spec, wl.t).t
             conf == Config(kind, obj.spec, log)
             inplace == InplaceConfigmapUpdate(obj.spec)
  <1>1. Settled /\ SpecOK(obj.spec) /\ kind \in SetKinds /\ Cardinality(Existing) = wl.replicas
    BY DEF Quiet, RollInv
  <1>2. /\ wl.st = "live"
        /\ wl.t = IF Paused THEN PausedTemplate(new) ELSE new
        /\ wl.replicas = obj.spec.replicas
        /\ SizeOf(obj.spec) # NONE => wl.claim \in {SizeOf(obj.spec), NONE}
        /\ kind # "WebUI" => wl.scrape = PromDiscoveredByService(obj.spec)
        /\ "svc" \in wl.svcs => wl.type = obj.spec.serviceType
        /\ Ready
    BY <1>1 DEF Settled
  <1>3. TemplateFits(wl.t)
    BY <1>2 DEF RollInv, WorkloadFits
  <1>4. /\ IsTemplate(new)
        /\ new.volumes["config"] = IF inplace THEN {} ELSE {buildConfigMap(kind, obj.spec, conf)}
        /\ inplace /\ kind # "WebUI" => new.annotations["config-suffix"] = conf
    BY <1>1, <1>3, SyncTemplate DEF TemplateFits
  <1>5. obj.spec.replicas \in Nat
    <2>1. obj.spec.replicas \in {1, 2}
      BY <1>1, SpecFacts
    <2> QED BY <2>1
  <1>6. \A p \in Existing : pods[p].conf # {}
    BY <1>1, <1>2, <1>5, AllStarted
  <1>7. ~inplace => buildConfigMap(kind, obj.spec, conf).plain = {conf}
    BY DEF buildConfigMap
  <1> HIDE DEF new, conf, inplace
  <1>8. ASSUME NEW p \in Existing
        PROVE  pods[p].t = wl.t /\ (RunsWith(p) \/ (Paused /\ wl.t.volumes["config"] # {}))
    <2>1. pods[p].t = wl.t /\ pods[p].conf # {}
      BY <1>6 DEF Quiet
    <2>2. IF wl.t.volumes["config"] # {} THEN pods[p].conf = UNION {m.plain : m \in wl.t.volumes["config"]}
          ELSE kind # "WebUI" => pods[p].conf = {wl.t.annotations["config-suffix"]}
      BY <2>1 DEF RollInv, PodFits
    <2>3. RunsWith(p) \/ (Paused /\ wl.t.volumes["config"] # {})
      <3>1. CASE ~Paused /\ inplace
        BY <1>2, <1>4, <2>1, <2>2, <3>1 DEF RunsWith, conf, inplace
      <3>2. CASE ~Paused /\ ~inplace
        <4>1. wl.t.volumes["config"] = {buildConfigMap(kind, obj.spec, conf)}
          BY <1>2, <1>4, <3>2
        <4>2. pods[p].conf = {conf}
          BY <1>7, <2>2, <3>2, <4>1
        <4> QED BY <4>2 DEF RunsWith, conf
      <3>3. CASE Paused /\ wl.t.volumes["config"] = {}
        <4>1. kind = "CNSet" /\ inplace
          BY <1>3, <3>3 DEF Paused, TemplateFits, inplace
        <4>2. wl.t.annotations = new.annotations
          BY <1>2, <1>3, <3>3 DEF PausedTemplate, TemplateFits, IsTemplate, TemplateFields
        <4>3. pods[p].conf = {conf}
          BY <1>4, <2>2, <3>3, <4>1, <4>2
        <4> QED BY <4>3 DEF RunsWith, conf
      <3> QED BY <3>1, <3>2, <3>3
    <2> QED BY <2>1, <2>3
  <1>9. Paused \/ wl.t = syncPods(obj.spec, wl.t).t
    BY <1>2 DEF new
  <1> QED BY <1>1, <1>2, <1>8, <1>9 DEF RolledOut

LEMMA SyncedFits ==
  ASSUME RollInv
  PROVE  TemplateFits(Synced.t)
  <1> DEFINE t == IF Missing THEN PodTemplateOf(kind) ELSE wl.t
             r == syncPods(obj.spec, t).t
  <1>1. IsTemplate(t)
    <2>1. CASE Missing
      BY <2>1 DEF PodTemplateOf, IsTemplate, TemplateFields
    <2>2. CASE ~Missing
      BY <2>2 DEF Missing, RollInv, WorkloadFits, TemplateFits
    <2> QED BY <2>1, <2>2
  <1>2. Synced.t = r
    BY DEF Synced
  <1> HIDE DEF t
  <1>3. /\ IsTemplate(r)
        /\ r.volumes["config"] = IF InplaceConfigmapUpdate(obj.spec) THEN {}
                                 ELSE {buildConfigMap(kind, obj.spec, Config(kind, obj.spec, log))}
    BY <1>1, SyncTemplate DEF RollInv
  <1> HIDE DEF r
  <1>4. ~InplaceConfigmapUpdate(obj.spec)
          => ~buildConfigMap(kind, obj.spec, Config(kind, obj.spec, log)).script.inplace
    BY DEF buildConfigMap, StartScript
  <1>5. \A m \in r.volumes["config"] : ~m.script.inplace
    BY <1>3, <1>4
  <1>6. r.volumes["config"] = {} => InplaceConfigmapUpdate(obj.spec)
    BY <1>3
  <1> QED BY <1>2, <1>3, <1>5, <1>6 DEF TemplateFits

LEMMA SizeIs ==
  ASSUME RollInv
  PROVE  SizeOf(obj.spec) \in {NONE, 5, 10, 20}
  <1>1. obj.spec.volume \in Volumes /\ obj.spec.cacheVolume \in Volumes \cup {NONE}
    BY SpecFacts DEF RollInv
  <1>2. DataVolume(obj.spec) \in Volumes \cup {NONE}
    BY <1>1 DEF DataVolume, RollInv, SetKinds
  <1> QED BY <1>2, VolumeIs DEF SizeOf

\* What the controllers make of a workload.
LEMMA BuildFits ==
  ASSUME RollInv, NEW t, TemplateFits(t)
  PROVE  WorkloadFits(buildWorkload(obj.spec, t)) /\ buildWorkload(obj.spec, t).st = "live"
  <1> DEFINE size == SizeOf(obj.spec)
             w == [st |-> "live", t |-> t, replicas |-> obj.spec.replicas, claim |-> size,
                   svcs |-> {}, type |-> NONE, scrape |-> FALSE]
  <1>1. buildWorkload(obj.spec, t) = w
    <2>1. buildWorkload(obj.spec, t) = [NoWorkload EXCEPT !.st = "live", !.t = t,
                                          !.replicas = obj.spec.replicas, !.claim = size]
      BY DEF buildWorkload, SizeOf
    <2> HIDE DEF size
    <2> QED BY <2>1 DEF NoWorkload
  <1>2. size \in {NONE, 5, 10, 20}
    BY SizeIs
  <1> HIDE DEF size
  <1>3. w = [f \in WorkloadFields |-> w[f]]
    BY DEF WorkloadFields
  <1>4. w.st = "live" /\ w.t = t /\ w.claim = size /\ w.svcs = {}
    OBVIOUS
  <1> HIDE DEF w
  <1> QED BY <1>1, <1>2, <1>3, <1>4 DEF WorkloadFits

LEMMA ServicesFit ==
  ASSUME NEW w, WorkloadFits(w), NEW S, NEW type, kind \in {"LogSet", "DNSet"} => "svc" \notin S
  PROVE  WorkloadFits([w EXCEPT !.svcs = S, !.type = type])
  BY DEF WorkloadFits, WorkloadFields

LEMMA ServiceFits ==
  ASSUME NEW w, WorkloadFits(w), kind \notin {"LogSet", "DNSet"}
  PROVE  /\ WorkloadFits(syncService(w)) /\ syncService(w).st = w.st /\ syncService(w).t = w.t
         /\ syncService(w).replicas = w.replicas /\ syncService(w).claim = w.claim
         /\ syncService(w).type = obj.spec.serviceType
         /\ syncService(w).scrape = PromDiscoveredByService(obj.spec)
  BY DEF WorkloadFits, WorkloadFields, syncService

LEMMA MetricServiceFits ==
  ASSUME NEW w, WorkloadFits(w)
  PROVE  /\ WorkloadFits(syncMetricService(w)) /\ syncMetricService(w).st = w.st
         /\ syncMetricService(w).t = w.t /\ syncMetricService(w).claim = w.claim
         /\ syncMetricService(w).type = w.type
         /\ syncMetricService(w).scrape = PromDiscoveredByService(obj.spec)
  BY DEF WorkloadFits, WorkloadFields, syncMetricService

LEMMA ReplicasStored ==
  ASSUME NEW w, WorkloadFits(w), w.st = "live", NEW n
  PROVE  WorkloadFits([w EXCEPT !.replicas = n])
  BY DEF WorkloadFits, WorkloadFields

LEMMA TemplateStored ==
  ASSUME NEW w, WorkloadFits(w), w.st = "live", NEW t, TemplateFits(t), NEW n
  PROVE  WorkloadFits([w EXCEPT !.t = t, !.replicas = n])
  BY DEF WorkloadFits, WorkloadFields

LEMMA ClaimStored ==
  ASSUME NEW w, WorkloadFits(w), w.st = "live", NEW t, TemplateFits(t), NEW c \in {NONE, 5, 10, 20}
  PROVE  WorkloadFits([w EXCEPT !.claim = c, !.t = t])
  BY DEF WorkloadFits, WorkloadFields

LEMMA CreateFits ==
  ASSUME RollInv, NEW sync, TemplateFits(sync.t), Create(sync)
  PROVE  WorkloadFits(wl') /\ queue' = queue
  <1>1. PICK made \in SUBSET (CreatedSvcs \cup {"wl"}) :
          wl' = [IF wl.st = "none" /\ "wl" \in made THEN buildWorkload(obj.spec, sync.t) ELSE wl
                 EXCEPT !.svcs = wl.svcs \cup (made \ {"wl"}),
                        !.type = IF "svc" \in made \ wl.svcs THEN obj.spec.serviceType ELSE wl.type]
    BY DEF Create
  <1> DEFINE new == IF wl.st = "none" /\ "wl" \in made THEN buildWorkload(obj.spec, sync.t) ELSE wl
             S == wl.svcs \cup (made \ {"wl"})
             ty == IF "svc" \in made \ wl.svcs THEN obj.spec.serviceType ELSE wl.type
  <1>2. WorkloadFits(new)
    BY BuildFits DEF RollInv
  <1>3. wl' = [new EXCEPT !.svcs = S, !.type = ty]
    BY <1>1
  <1>4. kind \in {"LogSet", "DNSet"} => "svc" \notin S
    BY DEF CreatedSvcs, RollInv, WorkloadFits
  <1> HIDE DEF new, S, ty
  <1> QED BY <1>2, <1>3, <1>4, ServicesFit DEF Create

LEMMA ScaleFits ==
  ASSUME RollInv, NEW before, WorkloadFits(before), before.st = "live", NEW cms, Scale(before, cms)
  PROVE  WorkloadFits(wl') /\ queue' = queue
  <1>1. wl' \in {wl, before, [before EXCEPT !.replicas = obj.spec.replicas]} /\ queue' = queue
    BY DEF Scale, Calls
  <1> QED BY <1>1, ReplicasStored DEF RollInv

LEMMA UpdateFits ==
  ASSUME RollInv, NEW before, WorkloadFits(before), before.st = "live", NEW sync, NEW new,
         TemplateFits(new), NEW n, Update(before, sync, new, n)
  PROVE  WorkloadFits(wl') /\ queue' = queue
  <1>1. wl' \in {wl, before, [before EXCEPT !.t = new, !.replicas = n]} /\ queue' = queue
    BY DEF Update, Calls
  <1>2. WorkloadFits([before EXCEPT !.t = new, !.replicas = n]) /\ WorkloadFits(wl)
    BY TemplateStored DEF RollInv
  <1> QED BY <1>1, <1>2

LEMMA FinishFits ==
  ASSUME RollInv, NEW before, WorkloadFits(before), before.st = "live", NEW sync, TemplateFits(sync.t),
         NEW size \in {NONE, 5, 10, 20}, NEW rolledOut, Finish(before, sync, size, rolledOut)
  PROVE  WorkloadFits(wl')
  <1> DEFINE grown == SyncVolumeSize(before, sync.t, size)
             done == IF kind \in {"LogSet", "DNSet"} THEN syncMetricService(grown) ELSE grown
  <1>1. wl' \in {wl, before, grown, done}
    BY DEF Finish, Calls
  <1>2. WorkloadFits(grown)
    BY ClaimStored DEF SyncVolumeSize
  <1> HIDE DEF grown
  <1>3. WorkloadFits(syncMetricService(grown))
    BY <1>2, MetricServiceFits
  <1>4. WorkloadFits(done)
    BY <1>2, <1>3
  <1> HIDE DEF done
  <1> QED BY <1>1, <1>2, <1>4 DEF RollInv

\* The end of a reconciliation that takes the set out of the queue: nothing was
\* left to do.
LEMMA FinishSettles ==
  ASSUME RollInv, NEW before, WorkloadFits(before), before.st = "live", before.claim = wl.claim,
         NEW sync, NEW size \in {NONE, 5, 10, 20}, NEW rolledOut,
         Finish(before, sync, size, rolledOut), queue' # "in"
  PROVE  /\ wl' = wl /\ Ready
         /\ size # NONE => wl.claim \in {size, NONE}
         /\ wl.type = before.type
         /\ wl.scrape = IF kind \in {"LogSet", "DNSet"} THEN PromDiscoveredByService(obj.spec)
                        ELSE before.scrape
  <1> DEFINE grown == SyncVolumeSize(before, sync.t, size)
             done == IF kind \in {"LogSet", "DNSet"} THEN syncMetricService(grown) ELSE grown
  <1>1. PICK k \in Calls(4) :
          /\ wl' = CASE k = 0 -> wl [] k \in {1, 2} \/ VolumeShrinks(size) -> before
                     [] k = 3 -> grown [] k = 4 -> done
          /\ queue' = IF k < 4 \/ VolumeShrinks(size) \/ done # wl \/ ~Ready \/ ~rolledOut
                      THEN "in" ELSE "out"
    BY DEF Finish, Requeue
  <1>2. k \in 0 .. 4
    BY DEF Calls
  <1>3. k = 4 /\ ~VolumeShrinks(size) /\ done = wl /\ Ready
    <2> HIDE DEF done
    <2>1. ~(k < 4) /\ ~VolumeShrinks(size) /\ done = wl /\ Ready
      BY <1>1
    <2> QED BY <1>2, <2>1
  <1>4. wl' = wl
    BY <1>1, <1>3
  <1>5. /\ DOMAIN before = WorkloadFields /\ wl.claim \in {NONE, 5, 10, 20}
        /\ before = [f \in WorkloadFields |-> before[f]]
    BY DEF WorkloadFits, RollInv
  <1>6. /\ grown.type = before.type /\ grown.scrape = before.scrape
        /\ grown = [f \in WorkloadFields |-> grown[f]]
        /\ wl.claim # NONE /\ size # NONE /\ wl.claim < size => grown.claim = size
    <2>1. CASE wl.claim = NONE \/ size = NONE \/ wl.claim >= size
      <3>1. grown = before
        BY <2>1 DEF SyncVolumeSize
      <3>2. ~(wl.claim # NONE /\ size # NONE /\ wl.claim < size)
        BY <1>5, <2>1
      <3> QED BY <1>5, <3>1, <3>2
    <2>2. CASE ~(wl.claim = NONE \/ size = NONE \/ wl.claim >= size)
      <3>1. grown = [before EXCEPT !.claim = size, !.t = sync.t]
        BY <2>2 DEF SyncVolumeSize
      <3> HIDE DEF grown
      <3> QED BY <1>5, <3>1 DEF WorkloadFields
    <2> QED BY <2>1, <2>2
  <1> HIDE DEF grown
  <1>7. /\ done.claim = grown.claim /\ done.type = grown.type
        /\ done.scrape = IF kind \in {"LogSet", "DNSet"} THEN PromDiscoveredByService(obj.spec)
                         ELSE grown.scrape
    BY <1>6 DEF syncMetricService, WorkloadFields
  <1> HIDE DEF done
  <1>8. ASSUME size # NONE, wl.claim # NONE PROVE wl.claim = size
    <2>1. size \in {5, 10, 20} /\ wl.claim \in {5, 10, 20}
      BY <1>5, <1>8
    <2>2. ~(wl.claim > size)
      BY <1>3, <1>8 DEF VolumeShrinks
    <2>3. ~(wl.claim < size)
      BY <1>3, <1>6, <1>7, <1>8, <2>1
    <2> QED BY <2>1, <2>2, <2>3
  <1> QED BY <1>3, <1>4, <1>6, <1>7, <1>8

\* A reconciliation stores a workload that fits, and lets the set out of the
\* queue only if all is as it is to be.
LEMMA StatefulFits ==
  ASSUME RollInv, StatefulObserve
  PROVE  WorkloadFits(wl') /\ (queue' # "in" => Settled /\ wl' = wl)
  <1> DEFINE sync == Synced
  <1>1. /\ kind \in {"LogSet", "DNSet"} /\ queue = "in"
        /\ IF Missing THEN Create(sync)
           ELSE IF obj.spec.replicas # wl.replicas THEN Scale(wl, maps)
           ELSE IF sync.t # wl.t THEN Update(wl, sync, sync.t, wl.replicas)
           ELSE Finish(wl, sync, SizeOf(obj.spec), Updated)
    BY DEF StatefulObserve, Reconciles, queued
  <1>2. ~Missing => sync = syncPods(obj.spec, wl.t) /\ wl.st = "live"
    BY DEF Synced, Missing, RollInv, WorkloadFits
  <1>3. TemplateFits(sync.t) /\ WorkloadFits(wl) /\ SizeOf(obj.spec) \in {NONE, 5, 10, 20}
    BY SyncedFits, SizeIs DEF RollInv
  <1> HIDE DEF sync
  <1>4. CASE Missing
    BY <1>1, <1>3, <1>4, CreateFits
  <1>5. CASE ~Missing /\ obj.spec.replicas # wl.replicas
    BY <1>1, <1>2, <1>3, <1>5, ScaleFits
  <1>6. CASE ~Missing /\ obj.spec.replicas = wl.replicas /\ sync.t # wl.t
    BY <1>1, <1>2, <1>3, <1>6, UpdateFits
  <1>7. CASE ~Missing /\ obj.spec.replicas = wl.replicas /\ sync.t = wl.t
    <2>1. Finish(wl, sync, SizeOf(obj.spec), Updated)
      BY <1>1, <1>7
    <2>2. WorkloadFits(wl')
      BY <1>2, <1>3, <1>7, <2>1, FinishFits
    <2>3. ASSUME queue' # "in" PROVE Settled /\ wl' = wl
      <3>1. /\ wl' = wl /\ Ready
            /\ SizeOf(obj.spec) # NONE => wl.claim \in {SizeOf(obj.spec), NONE}
            /\ wl.scrape = PromDiscoveredByService(obj.spec)
        BY <1>1, <1>2, <1>3, <1>7, <2>1, <2>3, FinishSettles
      <3>2. "svc" \notin wl.svcs /\ ~Paused
        BY <1>1, <1>3 DEF WorkloadFits, Paused
      <3> QED BY <1>2, <1>7, <3>1, <3>2 DEF Settled
    <2> QED BY <2>2, <2>3
  <1> QED BY <1>4, <1>5, <1>6, <1>7

LEMMA PausedFits ==
  ASSUME TemplateFits(wl.t), NEW t
  PROVE  TemplateFits(PausedTemplate(t))
  BY DEF TemplateFits, PausedTemplate, IsTemplate, TemplateFields

LEMMA CNFits ==
  ASSUME RollInv, CNObserve
  PROVE  WorkloadFits(wl') /\ (queue' # "in" => Settled /\ wl' = wl)
  <1> DEFINE sync == Synced
             target == IF obj.spec.pauseUpdate THEN PausedTemplate(sync.t) ELSE sync.t
             synced == syncService(wl)
             served == syncMetricService(synced)
  <1>1. /\ kind = "CNSet" /\ queue = "in"
        /\ IF Missing THEN Create(sync)
           ELSE IF target # wl.t THEN Update(served, sync, target, wl.replicas)
           ELSE IF obj.spec.replicas # wl.replicas THEN Scale(served, SyncConfigMap(obj.spec, sync.cm))
           ELSE Finish(served, sync, SizeOf(obj.spec), Updated)
    BY DEF CNObserve, Reconciles, queued
  <1>2. ~Missing => sync = syncPods(obj.spec, wl.t) /\ wl.st = "live"
    BY DEF Synced, Missing, RollInv, WorkloadFits
  <1>3. TemplateFits(sync.t) /\ WorkloadFits(wl) /\ SizeOf(obj.spec) \in {NONE, 5, 10, 20}
    BY SyncedFits, SizeIs DEF RollInv
  <1>4. /\ WorkloadFits(synced) /\ synced.st = wl.st /\ synced.claim = wl.claim
        /\ synced.type = obj.spec.serviceType
    BY <1>1, <1>3, ServiceFits
  <1> HIDE DEF sync, synced
  <1>5. /\ WorkloadFits(served) /\ served.st = wl.st /\ served.claim = wl.claim
        /\ served.type = obj.spec.serviceType
        /\ served.scrape = PromDiscoveredByService(obj.spec)
    BY <1>4, MetricServiceFits
  <1>6. ~Missing => TemplateFits(target)
    BY <1>2, <1>3, PausedFits DEF WorkloadFits
  <1>7. target = IF Paused THEN PausedTemplate(sync.t) ELSE sync.t
    BY <1>1 DEF Paused
  <1> HIDE DEF served, target
  <1>8. CASE Missing
    BY <1>1, <1>3, <1>8, CreateFits
  <1>9. CASE ~Missing /\ target # wl.t
    BY <1>1, <1>2, <1>5, <1>6, <1>9, UpdateFits
  <1>10. CASE ~Missing /\ target = wl.t /\ obj.spec.replicas # wl.replicas
    BY <1>1, <1>2, <1>5, <1>10, ScaleFits
  <1>11. CASE ~Missing /\ target = wl.t /\ obj.spec.replicas = wl.replicas
    <2>1. Finish(served, sync, SizeOf(obj.spec), Updated) /\ served.st = "live"
      BY <1>1, <1>2, <1>5, <1>11
    <2>2. WorkloadFits(wl')
      BY <1>3, <1>5, <2>1, FinishFits
    <2>3. ASSUME queue' # "in" PROVE Settled /\ wl' = wl
      <3>1. /\ wl' = wl /\ Ready
            /\ SizeOf(obj.spec) # NONE => wl.claim \in {SizeOf(obj.spec), NONE}
            /\ wl.type = served.type
            /\ wl.scrape = IF kind \in {"LogSet", "DNSet"} THEN PromDiscoveredByService(obj.spec)
                           ELSE served.scrape
        BY <1>3, <1>5, <2>1, <2>3, FinishSettles
      <3> QED BY <1>1, <1>2, <1>5, <1>7, <1>11, <3>1 DEF Settled
    <2> QED BY <2>2, <2>3
  <1> QED BY <1>8, <1>9, <1>10, <1>11

LEMMA ProxyFits ==
  ASSUME RollInv, ProxyObserve
  PROVE  WorkloadFits(wl') /\ (queue' # "in" => Settled /\ wl' = wl)
  <1> DEFINE sync == Synced
             old == IF wl.st = "none" THEN buildWorkload(obj.spec, sync.t) ELSE wl
             new == [old EXCEPT !.t = sync.t, !.replicas = obj.spec.replicas]
             synced == syncService(new)
  <1>1. PICK k \in Calls(3) :
          /\ wl' = CASE k <= 1 -> wl [] k = 2 -> new [] k = 3 -> synced
          /\ queue' = IF k < 3 \/ ~Ready \/ synced # wl THEN "in" ELSE "out"
    <2> DEFINE Old(y) == IF wl.st = "none" THEN buildWorkload(obj.spec, y.t) ELSE wl
               New(y) == [Old(y) EXCEPT !.t = y.t, !.replicas = obj.spec.replicas]
    <2>1. \E y \in {Synced}, k \in Calls(3) :
            /\ wl' = CASE k <= 1 -> wl [] k = 2 -> New(y) [] k = 3 -> syncService(New(y))
            /\ queue' = IF k < 3 \/ ~Ready \/ syncService(New(y)) # wl THEN "in" ELSE "out"
      BY DEF ProxyObserve, Requeue
    <2>2. new = New(Synced) /\ synced = syncService(New(Synced))
      OBVIOUS
    <2> HIDE DEF New, new, synced
    <2> QED BY <2>1, <2>2
  <1>2. kind = "ProxySet" /\ k \in 0 .. 3 /\ (wl.st # "none" => sync = syncPods(obj.spec, wl.t))
    BY DEF ProxyObserve, Calls, Synced, Missing, RequiredSvcs
  <1>3. TemplateFits(sync.t) /\ WorkloadFits(wl)
    BY SyncedFits DEF RollInv
  <1>4. WorkloadFits(old) /\ old.st = "live"
    BY <1>3, BuildFits DEF WorkloadFits
  <1> HIDE DEF sync, old
  <1>5. WorkloadFits(new)
    BY <1>3, <1>4, TemplateStored
  <1>6. new.st = "live" /\ new.t = sync.t /\ new.replicas = obj.spec.replicas
    BY <1>4 DEF WorkloadFits, WorkloadFields
  <1> HIDE DEF new
  <1>7. /\ WorkloadFits(synced) /\ synced.st = new.st /\ synced.t = new.t
        /\ synced.replicas = new.replicas /\ synced.type = obj.spec.serviceType
        /\ synced.scrape = PromDiscoveredByService(obj.spec)
    BY <1>2, <1>5, ServiceFits
  <1> HIDE DEF synced
  <1>8. WorkloadFits(wl')
    <2>1. wl' \in {wl, new, synced}
      BY <1>1, <1>2
    <2> QED BY <1>3, <1>5, <1>7, <2>1
  <1>9. ASSUME queue' # "in" PROVE Settled /\ wl' = wl
    <2>1. k = 3 /\ Ready /\ synced = wl
      <3>1. ~(k < 3) /\ Ready /\ synced = wl
        BY <1>1, <1>9
      <3> QED BY <1>2, <3>1
    <2>2. wl' = wl
      BY <1>1, <2>1
    <2>3. wl.st = "live" /\ wl.t = syncPods(obj.spec, wl.t).t
      BY <1>2, <1>6, <1>7, <2>1
    <2>4. SizeOf(obj.spec) = NONE /\ ~Paused
      BY <1>2 DEF SizeOf, DataVolume, Paused
    <2> QED BY <1>6, <1>7, <2>1, <2>2, <2>3, <2>4 DEF Settled
  <1> QED BY <1>8, <1>9

LEMMA WebUIFits ==
  ASSUME RollInv, WebUIObserve
  PROVE  WorkloadFits(wl') /\ (queue' # "in" => Settled /\ wl' = wl)
  <1> DEFINE sync == Synced
  <1>1. /\ kind = "WebUI" /\ queue = "in"
        /\ IF Missing THEN Create(sync)
           ELSE IF sync.t # wl.t \/ obj.spec.replicas # wl.replicas
                THEN Update(wl, sync, sync.t, obj.spec.replicas)
           ELSE IF obj.spec.serviceType # wl.type THEN SvcUpdate(sync)
           ELSE Finish(wl, sync, NONE, TRUE)
    BY DEF WebUIObserve, Reconciles, queued
  <1>2. ~Missing => sync = syncPods(obj.spec, wl.t) /\ wl.st = "live"
    BY DEF Synced, Missing, RollInv, WorkloadFits
  <1>3. TemplateFits(sync.t) /\ WorkloadFits(wl)
    BY SyncedFits DEF RollInv
  <1> HIDE DEF sync
  <1>4. CASE Missing
    BY <1>1, <1>3, <1>4, CreateFits
  <1>5. CASE ~Missing /\ (sync.t # wl.t \/ obj.spec.replicas # wl.replicas)
    BY <1>1, <1>2, <1>3, <1>5, UpdateFits
  <1>6. CASE ~Missing /\ ~(sync.t # wl.t \/ obj.spec.replicas # wl.replicas) /\ obj.spec.serviceType # wl.type
    <2>1. SvcUpdate(sync)
      BY <1>1, <1>6
    <2>2. wl' \in {wl, [wl EXCEPT !.type = obj.spec.serviceType]} /\ queue' = queue
      BY <2>1 DEF SvcUpdate
    <2>3. WorkloadFits([wl EXCEPT !.type = obj.spec.serviceType])
      BY <1>3 DEF WorkloadFits, WorkloadFields
    <2> QED BY <1>1, <1>3, <2>2, <2>3
  <1>7. CASE ~Missing /\ sync.t = wl.t /\ obj.spec.replicas = wl.replicas /\ obj.spec.serviceType = wl.type
    <2>1. Finish(wl, sync, NONE, TRUE)
      BY <1>1, <1>7
    <2>2. WorkloadFits(wl')
      BY <1>2, <1>3, <1>7, <2>1, FinishFits
    <2>3. ASSUME queue' # "in" PROVE Settled /\ wl' = wl
      <3>1. wl' = wl /\ Ready
        BY <1>2, <1>3, <1>7, <2>1, <2>3, FinishSettles
      <3>2. SizeOf(obj.spec) = NONE /\ ~Paused
        BY <1>1 DEF SizeOf, DataVolume, Paused
      <3> QED BY <1>1, <1>2, <1>7, <3>1, <3>2 DEF Settled
    <2> QED BY <2>2, <2>3
  <1> QED BY <1>4, <1>5, <1>6, <1>7

LEMMA ObserveFits ==
  ASSUME RollInv, Observe
  PROVE  WorkloadFits(wl') /\ (queue' # "in" => Settled /\ wl' = wl)
  BY StatefulFits, CNFits, ProxyFits, WebUIFits DEF Observe

\* What a pod finds when it starts.
LEMMA FoundFits ==
  ASSUME RollInv, NEW t, \A m \in t.volumes["config"] : ~m.script.inplace, ConfigFound(t) # {}
  PROVE  IF t.volumes["config"] # {} THEN ConfigFound(t) = UNION {m.plain : m \in t.volumes["config"]}
         ELSE kind # "WebUI" => ConfigFound(t) = {t.annotations["config-suffix"]}
  <1>1. CASE t.volumes["config"] # {}
    <2>1. \A m \in t.volumes["config"] : ConfigRead(t, m) = m.plain
      BY DEF ConfigRead
    <2>2. ConfigFound(t) = UNION {ConfigRead(t, m) : m \in t.volumes["config"]}
      BY <1>1 DEF ConfigFound
    <2>3. {ConfigRead(t, m) : m \in t.volumes["config"]} = {m.plain : m \in t.volumes["config"]}
      BY <2>1
    <2> QED BY <1>1, <2>2, <2>3
  <1>2. CASE t.volumes["config"] = {} /\ kind # "WebUI"
    <2>1. \A m \in maps.inplace : m.script.inplace /\ m.plain = {}
      BY <1>2 DEF RollInv, KeptInv, MapsFit
    <2>2. \A m \in maps.inplace : ConfigRead(t, m) \subseteq {t.annotations["config-suffix"]}
      BY <2>1 DEF ConfigRead
    <2>3. ConfigFound(t) = UNION {ConfigRead(t, m) : m \in maps.inplace}
      BY <1>2 DEF ConfigFound
    <2>4. ConfigFound(t) \subseteq {t.annotations["config-suffix"]}
      BY <2>2, <2>3
    <2> QED BY <1>2, <2>4
  <1> QED BY <1>1, <1>2

LEMMA PodsFit ==
  ASSUME RollInv, Rollout \/ Crash
  PROVE  (\A p \in Existing : PodFits(p))'
  <1>1. PICK p, x :
          /\ p \in Pods
          /\ SetPods([pods EXCEPT ![p] = x])
          /\ \/ x = NONE
             \/ x = Fresh(wl.t) /\ (Cardinality(Existing) < wl.replicas \/ wl.st = "live")
             \/ p \in Existing /\ x = Fresh(pods[p].t)
             \/ /\ p \in Existing /\ ConfigFound(pods[p].t) # {}
                /\ x = [t |-> pods[p].t, conf |-> ConfigFound(pods[p].t)]
          /\ UNCHANGED env \/ \E n : env' = [env EXCEPT !.faults = n]
    BY PodsStep DEF RollInv, KeptInv
  <1>2. kind' = kind /\ \A q \in Pods : pods'[q] = IF q = p THEN x ELSE pods[q]
    BY <1>1 DEF SetPods, RollInv, KeptInv, Shape
  <1> DEFINE Fits(y) == /\ \A m \in y.t.volumes["config"] : ~m.script.inplace
                        /\ y.conf # {} =>
                             IF y.t.volumes["config"] # {}
                             THEN y.conf = UNION {m.plain : m \in y.t.volumes["config"]}
                             ELSE kind # "WebUI" => y.conf = {y.t.annotations["config-suffix"]}
  <1>3. \A q \in Existing : Fits(pods[q])
    BY DEF RollInv, PodFits
  <1>4. ASSUME x # NONE PROVE Fits(x)
    <2>1. CASE x = Fresh(wl.t) /\ (Cardinality(Existing) < wl.replicas \/ wl.st = "live")
      <3>1. wl.st = "live"
        <4>1. Existing \in SUBSET Pods /\ IsFiniteSet(Pods)
          BY PodSetsAssumption DEF Existing
        <4>2. IsFiniteSet(Existing)
          BY <4>1, FS_Subset
        <4>3. Cardinality(Existing) \in Nat
          BY <4>2, FS_CardinalityType
        <4> QED BY <2>1, <4>3 DEF RollInv, WorkloadFits
      <3>2. x.t = wl.t /\ x.conf = {}
        BY <2>1 DEF Fresh
      <3> QED BY <3>1, <3>2 DEF RollInv, WorkloadFits, TemplateFits
    <2>2. CASE p \in Existing /\ x = Fresh(pods[p].t)
      <3>1. x.t = pods[p].t /\ x.conf = {}
        BY <2>2 DEF Fresh
      <3> QED BY <1>3, <2>2, <3>1
    <2>3. CASE /\ p \in Existing /\ ConfigFound(pods[p].t) # {}
               /\ x = [t |-> pods[p].t, conf |-> ConfigFound(pods[p].t)]
      <3> DEFINE t == pods[p].t
                 c == ConfigFound(t)
      <3>1. \A m \in t.volumes["config"] : ~m.script.inplace
        BY <1>3, <2>3
      <3>2. x.t = t /\ x.conf = c /\ c # {}
        BY <2>3
      <3> HIDE DEF t
      <3>3. IF t.volumes["config"] # {} THEN c = UNION {m.plain : m \in t.volumes["config"]}
            ELSE kind # "WebUI" => c = {t.annotations["config-suffix"]}
        BY <3>1, <3>2, FoundFits
      <3> HIDE DEF c
      <3> QED BY <3>1, <3>2, <3>3
    <2> QED BY <1>1, <1>4, <2>1, <2>2, <2>3
  <1> HIDE DEF Fits
  <1>5. \A q \in Pods : pods'[q] # NONE => Fits(pods'[q])
    BY <1>2, <1>3, <1>4 DEF Existing
  <1>6. ASSUME NEW q \in Pods, pods'[q] # NONE PROVE PodFits(q)'
    <2>1. Fits(pods'[q])
      BY <1>5, <1>6
    <2> QED BY <1>2, <2>1 DEF Fits, PodFits
  <1> QED BY <1>6 DEF Existing

\* The specs stay in the set of specs, and the version of a CNSet does not go back.
LEMMA SpecsStay ==
  ASSUME RollInv, [Next]_vars
  PROVE  /\ SpecOK(obj'.spec) /\ (mo' # NONE => SpecOK(mo'))
         /\ kind = "CNSet" /\ InplaceConfigmapUpdate(obj.spec) => InplaceConfigmapUpdate(obj'.spec)
  <1>0. Shape /\ kind \in SetKinds /\ SpecOK(obj.spec) /\ (mo # NONE => SpecOK(mo))
    BY DEF RollInv, KeptInv
  <1>1. CASE mo' = mo /\ obj'.spec = obj.spec
    BY <1>0, <1>1
  <1>2. CASE Observe
    BY <1>1, <1>2, ObserveFrame
  <1>3. CASE Finalize
    BY <1>0, <1>1, <1>3 DEF Finalize, FinalizeDNSet, FinalizeProxySet, FinalizeWebUI, DeleteOwned, Shape
  <1>4. CASE Rollout \/ Crash
    BY <1>1, <1>4 DEF Rollout, Crash, SetPods
  <1>5. CASE DeliverPods \/ Failover \/ ScaleLogSet \/ UNCHANGED vars
    BY <1>1, <1>5, StoresFrame DEF DeliverPods, vars
  <1>6. CASE DeleteSet
    BY <1>0, <1>1, <1>6 DEF DeleteSet, Shape
  <1>7. ASSUME NEW new, SpecOK(new), kind = "CNSet", ValidateUpdate(kind, obj.spec, new),
               InplaceConfigmapUpdate(obj.spec)
        PROVE  InplaceConfigmapUpdate(new)
    <2>1. ~LT(GetOperatorVersion(new), GetOperatorVersion(obj.spec))
      BY <1>7 DEF ValidateUpdate, CNValidateUpdate, validatePodSetUpdate
    <2>2. GetOperatorVersion(obj.spec) = LatestOpVersion /\ new.operatorVersion \in {NONE, LatestOpVersion}
      BY <1>0, <1>7, InplaceIsLatest, SpecFacts
    <2>3. LT(FirstOpVersion, LatestOpVersion)
      BY DEF LT, FirstOpVersion, LatestOpVersion, OpVersion1_2_0, OpVersion1_3_0
    <2>4. new.operatorVersion = LatestOpVersion
      BY <2>1, <2>2, <2>3 DEF GetOperatorVersion, Default
    <2> QED BY <1>7, <2>4, InplaceIsLatest
  <1>8. CASE EditSet
    <2>1. PICK e \in EditNames : /\ ValidateUpdate(kind, obj.spec, DefaultSet(kind, Edit(e, obj.spec)))
                                 /\ obj' = [obj EXCEPT !.spec = DefaultSet(kind, Edit(e, obj.spec))]
      BY <1>8 DEF EditSet
    <2> DEFINE new == DefaultSet(kind, Edit(e, obj.spec))
    <2>2. obj'.spec = new /\ mo' = mo
      BY <1>0, <1>8, <2>1 DEF EditSet, Shape
    <2>3. SpecOK(new)
      BY <1>0, EditOK, DefaultOK
    <2>4. ValidateUpdate(kind, obj.spec, new)
      BY <2>1
    <2> HIDE DEF new
    <2> QED BY <1>0, <1>7, <2>2, <2>3, <2>4
  <1>9. CASE EditCluster
    <2>1. PICK e \in EditNames : mo' = ClusterDefault(kind, Edit(e, mo)) /\ mo # NONE /\ obj' = obj
      BY <1>9 DEF EditCluster
    <2>2. SpecOK(Edit(e, mo))
      BY <1>0, <2>1, EditOK
    <2>3. SpecOK(mo')
      BY <1>0, <2>1, <2>2, AdmitSteps
    <2> QED BY <1>0, <2>1, <2>3
  <1>10. CASE SyncCluster
    <2>1. mo' = mo /\ obj'.spec = Wanted /\ mo # NONE /\ ValidateUpdate(kind, obj.spec, Wanted)
      BY <1>0, <1>10 DEF SyncCluster, Shape
    <2>2. SpecOK(Wanted)
      BY <1>0, <2>1, SetOverlayOK, DefaultOK DEF Wanted
    <2> QED BY <1>0, <1>7, <2>1, <2>2
  <1> QED BY <1>2, <1>3, <1>4, <1>5, <1>6, <1>8, <1>9, <1>10 DEF Next

LEMMA NoWorkloadFits == WorkloadFits(NoWorkload)
  BY DEF WorkloadFits, NoWorkload, WorkloadFields

LEMMA RollInit == Init => RollInv
  <1> SUFFICES ASSUME Init PROVE RollInv
    OBVIOUS
  <1>1. KeptInv /\ kind \in SetKinds /\ queue = "in"
    BY KeptInit DEF Init
  <1>2. LogFits(log)
    <2> DEFINE s == DefaultSet("LogSet", BaseSpec)
    <2>1. log = [spec |-> [s EXCEPT !.sharedStorage = S3Storage], reserved |-> {}]
      BY DEF Init
    <2>2. s = [f \in SpecFields |-> s[f]]
      BY BaseOK, DefaultOK DEF SpecOK, SetKinds
    <2> HIDE DEF s
    <2> QED BY <2>1, <2>2 DEF LogFits
  <1>3. SpecOK(obj.spec) /\ (mo # NONE => SpecOK(mo))
    <2>1. SpecOK(Given(BaseSpec))
      BY BaseOK DEF Given
    <2>2. mo # NONE => SpecOK(mo)
      <3>1. mo # NONE => mo = ClusterDefault(kind, Given(BaseSpec))
        BY DEF Init
      <3> QED BY <1>1, <2>1, <3>1, AdmitSteps
    <2>3. CASE mo = NONE
      <3>1. obj.spec = DefaultSet(kind, Given(BaseSpec))
        BY <2>3 DEF Init
      <3> QED BY <1>1, <2>1, <2>2, <3>1, DefaultOK
    <2>4. CASE mo # NONE
      <3>1. obj.spec = DefaultSet(kind, setOverlay(mo))
        BY <2>4 DEF Init
      <3> QED BY <1>1, <2>2, <2>4, <3>1, SetOverlayOK, DefaultOK
    <2> QED BY <2>3, <2>4
  <1>4. WorkloadFits(wl)
    <2>1. wl = NoWorkload
      BY DEF Init
    <2> QED BY <2>1, NoWorkloadFits
  <1>5. Existing = {}
    BY DEF Init, Existing
  <1> QED BY <1>1, <1>2, <1>3, <1>4, <1>5 DEF RollInv

\* Deleting the services and the workload.
LEMMA DeletedFits ==
  ASSUME RollInv, DeleteOwned
  PROVE  WorkloadFits(wl')
  <1>1. wl' \in {wl, [wl EXCEPT !.svcs = @ \ CreatedSvcs], NoWorkload}
    BY DEF DeleteOwned
  <1>2. WorkloadFits(wl)
    BY DEF RollInv
  <1> DEFINE svcs == wl.svcs \ CreatedSvcs
             w == [wl EXCEPT !.svcs = svcs]
  <1>3. WorkloadFits(w)
    <2>1. "svc" \in svcs => "svc" \in wl.svcs
      OBVIOUS
    <2> HIDE DEF svcs
    <2> QED BY <1>2, <2>1 DEF WorkloadFits, WorkloadFields
  <1>4. [wl EXCEPT !.svcs = @ \ CreatedSvcs] = w
    OBVIOUS
  <1> QED BY <1>1, <1>2, <1>3, <1>4, NoWorkloadFits

LEMMA WorkloadStep ==
  ASSUME RollInv, [Next]_vars
  PROVE  WorkloadFits(wl)'
  <1>0. /\ kind' = kind
        /\ kind = "CNSet" /\ InplaceConfigmapUpdate(obj.spec) => InplaceConfigmapUpdate(obj'.spec)
    BY ScenarioStays, SpecsStay DEF RollInv, KeptInv
  <1> DEFINE w == wl'
  <1>1. WorkloadFits(w)
    <2>1. CASE Observe
      BY <2>1, ObserveFits
    <2>2. CASE Finalize
      BY <2>2, DeletedFits DEF Finalize, FinalizeDNSet, FinalizeProxySet, FinalizeWebUI
    <2>3. CASE wl' = wl
      BY <2>3 DEF RollInv
    <2>4. CASE Rollout \/ Crash
      BY <2>3, <2>4 DEF Rollout, Crash, SetPods
    <2>5. CASE DeliverPods \/ EditSet \/ EditCluster \/ SyncCluster \/ DeleteSet \/ Failover
               \/ ScaleLogSet \/ UNCHANGED vars
      BY <2>3, <2>5, StoresFrame DEF DeliverPods, EditSet, EditCluster, SyncCluster, DeleteSet, vars
    <2> QED BY <2>1, <2>2, <2>4, <2>5 DEF Next
  <1>2. WorkloadFits(w) => WorkloadFits(wl)'
    <2> SUFFICES ASSUME WorkloadFits(w) PROVE WorkloadFits(wl)'
      OBVIOUS
    <2>1. w.st = "live" => TemplateFits(wl.t)'
      BY <1>0 DEF WorkloadFits, TemplateFits
    <2> QED BY <1>0, <2>1 DEF WorkloadFits
  <1> QED BY <1>1, <1>2

\* The configuration of a set that does not name the log stores.
LEMMA ConfigWithout ==
  ASSUME NEW s, NEW a, NEW b, a.spec.sharedStorage = b.spec.sharedStorage,
         kind \in SetKinds \ {"DNSet", "CNSet"}
  PROVE  Config(kind, s, a) = Config(kind, s, b)
  BY DEF Config, ProxyConfig, SetKinds

\* Settled speaks of the kind, the set, the workload, the pods and the log set.
LEMMA SettledStays ==
  ASSUME Settled, UNCHANGED <<kind, obj, wl, pods, log>>
  PROVE  Settled'
  BY DEF Settled, syncPods, Paused, PausedTemplate, SizeOf, DataVolume, Ready, LogConfigSuffix,
         PoolAnnotations

\* A change of the log stores keeps their storage.
LEMMA StoresChange ==
  ASSUME LogFits(log), Failover \/ ScaleLogSet
  PROVE  LogFits(log)' /\ log'.spec.sharedStorage = log.spec.sharedStorage
  <1>1. log = [spec |-> log.spec, reserved |-> log.reserved] /\ log.spec = [f \in SpecFields |-> log.spec[f]]
    BY DEF LogFits
  <1>2. CASE Failover
    BY <1>1, <1>2 DEF Failover, LogFits
  <1>3. CASE ScaleLogSet
    <2> DEFINE s == [log.spec EXCEPT !.replicas = 2]
    <2>1. log' = [spec |-> s, reserved |-> log.reserved]
      BY <1>1, <1>3 DEF ScaleLogSet
    <2>2. s = [f \in SpecFields |-> s[f]] /\ s.sharedStorage = log.spec.sharedStorage
      BY <1>1, Fields
    <2> HIDE DEF s
    <2> QED BY <2>1, <2>2 DEF LogFits
  <1> QED BY <1>2, <1>3

\* A change of the log stores leaves a set settled that is out of the queue and
\* would have been told.
LEMMA SettledStores ==
  ASSUME RollInv, obj.st = "live", Failover \/ ScaleLogSet, queue' = "out"
  PROVE  Settled'
  <1>1. UNCHANGED <<kind, obj, wl, pods>> /\ log'.spec.sharedStorage = log.spec.sharedStorage
    BY StoresFrame, StoresChange DEF RollInv
  <1>2. kind \in SetKinds \ {"DNSet", "CNSet"} /\ queue = "out"
    BY DEF Failover, ScaleLogSet, Unheard, requestsForLogSetStatefulSet, RollInv
  <1>3. Settled
    BY <1>2 DEF RollInv
  <1> DEFINE l == log'
  <1>4. Config(kind, obj.spec, log) = Config(kind, obj.spec, l)
    BY <1>1, <1>2, ConfigWithout
  <1>5. syncPods(obj.spec, wl.t)' = syncPods(obj.spec, wl.t)
    BY <1>1, <1>2, <1>4 DEF syncPods
  <1>6. (SizeOf(obj.spec)' = SizeOf(obj.spec)) /\ (Ready' = Ready) /\ (Paused' = Paused)
    BY <1>1 DEF SizeOf, DataVolume, Ready, Paused
  <1> QED BY <1>1, <1>3, <1>5, <1>6 DEF Settled, PausedTemplate

LEMMA SettledStep ==
  ASSUME RollInv, [Next]_vars, obj'.st = "live", queue' = "out"
  PROVE  Settled'
  <1>1. CASE Observe
    BY <1>1, ObserveFits, ObserveFrame, SettledStays
  <1>2. CASE Finalize
    <2>1. obj'.st \in {"deleting", "gone"}
      BY <1>2 DEF Finalize, FinalizeDNSet, FinalizeProxySet, FinalizeWebUI, DeleteOwned, RollInv,
                  KeptInv, Shape
    <2> QED BY <2>1
  <1>3. CASE Rollout \/ Crash \/ EditSet \/ SyncCluster
    BY <1>3 DEF Rollout, Crash, SetPods, EditSet, SyncCluster, Requeue
  <1>4. CASE DeliverPods \/ EditCluster \/ UNCHANGED vars
    <2>1. UNCHANGED <<kind, obj, wl, pods, log, queue>>
      BY <1>4 DEF DeliverPods, EditCluster, vars
    <2> QED BY <2>1, SettledStays DEF RollInv
  <1>5. CASE DeleteSet
    BY <1>5 DEF DeleteSet, RollInv, KeptInv, Shape
  <1>6. CASE Failover \/ ScaleLogSet
    <2>1. obj.st = "live"
      BY <1>6, StoresFrame
    <2> QED BY <1>6, <2>1, SettledStores
  <1> QED BY <1>1, <1>2, <1>3, <1>4, <1>5, <1>6 DEF Next

LEMMA RollInductive ==
  ASSUME RollInv, [Next]_vars
  PROVE  RollInv'
  <1>1. KeptInv' /\ kind' = kind /\ (kind \in SetKinds)'
    BY KeptInductive, ScenarioStays DEF RollInv, KeptInv
  <1>2. LogFits(log)'
    <2>1. log' = log \/ Failover \/ ScaleLogSet
      <3>1. CASE Observe
        BY <3>1, ObserveFrame
      <3>2. CASE ~Observe
        BY <3>2 DEF Next, Finalize, FinalizeDNSet, FinalizeProxySet, FinalizeWebUI, DeleteOwned, Rollout,
                    Crash, SetPods, DeliverPods, EditSet, EditCluster, SyncCluster, DeleteSet, vars
      <3> QED BY <3>1, <3>2
    <2>2. log' = log => LogFits(log)'
      BY DEF LogFits, RollInv
    <2> QED BY <2>1, <2>2, StoresChange DEF RollInv
  <1>3. (SpecOK(obj.spec) /\ (mo # NONE => SpecOK(mo)))'
    BY SpecsStay
  <1>4. (\A p \in Existing : PodFits(p))'
    <2>1. CASE Rollout \/ Crash
      BY <2>1, PodsFit
    <2>2. CASE pods' = pods
      BY <1>1, <2>2 DEF RollInv, Existing, PodFits
    <2>3. CASE Observe
      BY <2>2, <2>3, ObserveFrame
    <2>4. CASE Finalize
      BY <2>2, <2>4 DEF Finalize, FinalizeDNSet, FinalizeProxySet, FinalizeWebUI, DeleteOwned
    <2>5. CASE DeliverPods \/ EditSet \/ EditCluster \/ SyncCluster \/ DeleteSet \/ Failover
               \/ ScaleLogSet \/ UNCHANGED vars
      BY <2>2, <2>5, StoresFrame DEF DeliverPods, EditSet, EditCluster, SyncCluster, DeleteSet, vars
    <2> QED BY <2>1, <2>3, <2>4, <2>5 DEF Next
  <1>5. (obj.st = "live" /\ queue = "out" => Settled)'
    BY SettledStep
  <1> QED BY <1>1, <1>2, <1>3, <1>4, <1>5, WorkloadStep DEF RollInv

\* Whatever calls of the controller fail and pods restart or are lost on the way,
\* it does not let a set out of its queue (the end of Observe) before every change
\* of the spec that admission lets through, and every change of the log stores that
\* it hears of, is in the template, the replicas, the claims, the services and all
\* the pods.  It does not hear of a LogSet that is scaled, nor of a log store that
\* is replaced while the sets cannot be listed, once the set is out of the queue.
THEOREM ChangesReachPods == Spec => []ChangesRollOut
  <1>1. RollInv /\ [Next]_vars => RollInv'
    BY RollInductive
  <1>2. RollInv => ChangesRollOut
    BY SettledRollsOut DEF ChangesRollOut
  <1> QED BY RollInit, <1>1, <1>2, PTL DEF Spec
=============================================================================
