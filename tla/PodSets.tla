------------------------------- MODULE PodSets -------------------------------
(***************************************************************************)
(* How a change of the spec of a set gets to its pods: through admission,  *)
(* the controller of the set (its config map, then the template of the     *)
(* workload it owns) and the workload controller.  A behaviour is about    *)
(* one set of one kind, made by a user or by a cluster; the failover of    *)
(* the log stores is in LogSet, the draining and pooling of CN stores in   *)
(* CNSet, CNStore and CNPool, the buckets in LogSet; none of them is here. *)
(***************************************************************************)
EXTENDS ConfigMaps

CONSTANTS
  Pods,       \* bound: the pods of the set
  MaxEdits,   \* bound: changes users make to the spec
  MaxFaults,  \* bound: calls that fail, pods that restart or are lost
  Scenarios   \* what may happen in a behaviour: kinds of sets, EditNames, and
              \*   "cluster"   the set belongs to a cluster
              \*   "old"       it was made by an operator of version 1.2.0
              \*   "failover"  a log store is replaced
              \*   "logscale"  the LogSet is scaled
              \*   "rpc"       calls fail
              \*   "crash"     pods restart and are lost
              \*   "lag"       the pods are listed from a cache that lags
              \*   "delete"    the set is deleted

ASSUME PodSetsAssumption ==
  /\ IsFiniteSet(Pods)
  /\ MaxEdits \in Nat
  /\ MaxFaults \in Nat

VARIABLES
  kind,    \* the kind of the set
  mo,      \* its spec in the cluster, NONE without a cluster
  obj,     \* the set
  wl,      \* the StatefulSet, CloneSet or Deployment of the set, and its services
  maps,    \* its config maps
  pods,    \* the template a pod was made from and the configuration it has read, if any
  listed,  \* the template of a pod in the cache, if it is there
  log,     \* the LogSet: its spec and the reserved ordinals
  queue,   \* "in": the set is in the queue of its controller, "out": it is not,
           \* "unaware": nor has it heard of the last change of the log stores
  env      \* the scenario, edits and faults so far

vars == <<kind, mo, obj, wl, maps, pods, listed, log, queue, env>>

-----------------------------------------------------------------------------
(* Specs and what users change *)

FileStorage == [s3 |-> NONE, fileSystem |-> [path |-> "/mo"]]
S3Storage == [s3 |-> [type |-> "aws", path |-> "bucket", endpoint |-> NONE, region |-> NONE,
                      certificateRef |-> "cert", secretRef |-> "secret", s3RetentionPolicy |-> NONE],
              fileSystem |-> NONE]

BaseSpec ==
  [image |-> [name |-> "mo", tag |-> <<1, 1, 0>>], memory |-> 4, serviceArgs |-> NONE,
   overlay |-> NONE, semanticVersion |-> NONE, operatorVersion |-> LatestOpVersion,
   exportToPrometheus |-> NONE, promDiscoveryScheme |-> NONE, memoryLimitPercent |-> NONE,
   memoryFsSize |-> NONE, topologyEvenSpread |-> NONE, nodeSelector |-> NONE, replicas |-> 1,
   config |-> NONE, volume |-> [size |-> 10, class |-> NONE],
   cacheVolume |-> [size |-> 10, class |-> NONE], memoryCacheSize |-> NONE, diskCacheSize |-> NONE,
   dnsBasedIdentity |-> FALSE, labels |-> {}, podManagementPolicy |-> NONE,
   pythonUdfSidecar |-> NONE, role |-> NONE, pauseUpdate |-> FALSE, serviceType |-> NONE,
   nodePort |-> NONE, storeDrainEnabled |-> FALSE, storeDrainTimeout |-> NONE, maxSurge |-> NONE,
   maxUnavailable |-> NONE, sharedStorage |-> FileStorage, restoreFrom |-> NONE,
   logShardReplicas |-> NONE, logShards |-> NONE, dnShards |-> NONE, storeFailureTimeout |-> NONE,
   pvcRetentionPolicy |-> NONE]

Volume(size) == [size |-> size, class |-> NONE]

Sidecar == [NoOverlay EXCEPT !.env = [GOMEMLIMIT |-> 1], !.podLabels = [team |-> "a"],
                             !.podAnnotations = [note |-> "a"], !.sidecarContainers = {"agent"},
                             !.spec = [terminationGracePeriodSeconds |-> 30]]

EditNames == {"image", "config", "tn", "memory", "prom", "overlay", "operator", "memfs", "scale",
              "grow", "shrink", "novolume", "pause", "drain", "expose", "unversioned", "retain"}

\* A change of the spec a user asks for.
Edit(e, s) ==
  CASE e = "image"       -> [s EXCEPT !.image.tag = <<2, 0, 0>>]
    [] e = "config"      -> [s EXCEPT !.config = [log |-> Table([level |-> Val("debug")])]]
    [] e = "tn"          -> [s EXCEPT !.config = [tn |-> Table(Empty)]]
    [] e = "memory"      -> [s EXCEPT !.memory = 8, !.memoryLimitPercent = 50]
    [] e = "prom"        -> [s EXCEPT !.exportToPrometheus = TRUE,
                                      !.promDiscoveryScheme = IF kind = "CNSet" THEN @ ELSE "Pod"]
    [] e = "overlay"     -> [s EXCEPT !.overlay = Sidecar, !.pythonUdfSidecar = "udf"]
    [] e = "operator"    -> [s EXCEPT !.operatorVersion = LatestOpVersion]
    [] e = "memfs"       -> [s EXCEPT !.memoryFsSize = 1, !.semanticVersion = <<1, 2, 0>>]
    [] e = "scale"       -> [s EXCEPT !.replicas = 2]
    [] e = "grow"        -> [s EXCEPT !.cacheVolume = Volume(20), !.volume = Volume(20)]
    [] e = "shrink"      -> [s EXCEPT !.cacheVolume = Volume(5), !.volume = Volume(5)]
    [] e = "novolume"    -> [s EXCEPT !.cacheVolume = NONE]
    [] e = "pause"       -> [s EXCEPT !.pauseUpdate = ~@]
    [] e = "drain"       -> [s EXCEPT !.storeDrainEnabled = TRUE]
    [] e = "expose"      -> [s EXCEPT !.serviceType = "NodePort", !.nodePort = 30000]
    [] e = "unversioned" -> [s EXCEPT !.image.tag = NONE]
    [] e = "retain"      -> [s EXCEPT !.pvcRetentionPolicy = "Retain", !.logShardReplicas = NONE]

\* The overlays a spec may come to have: the ones users write, with what the
\* webhooks and the cluster put into them.
OverlaysOf(o) ==
  {[o EXCEPT !.env = e, !.podLabels = l] :
     e \in {o.env, Upsert([GODEBUG |-> "default"], o.env)},
     l \in {o.podLabels, Upsert(o.podLabels, [cluster |-> "mo"])}}

Overlays == OverlaysOf(NoOverlay) \cup OverlaysOf(Sidecar)

\* NONE is none of the values that a field may have.
ASSUME NoneAssumption ==
  /\ NONE \notin Overlays
  /\ NONE \notin {<<1, 1, 0>>, <<1, 2, 0>>, <<2, 0, 0>>, LatestOpVersion}
  /\ NONE \notin {"mo", "/mo", "Pod", "Service", "NodePort", "ClusterIP"}
  /\ NONE # FileStorage.fileSystem
  /\ NONE # 1 /\ NONE # TRUE

May(x) == x \in env.may

\* The numbers of calls that take effect, of n.
Calls(n) == IF May("rpc") /\ env.faults < MaxFaults THEN 0 .. n ELSE {n}

queued == queue = "in"

Requeue(b) == queue' = IF b THEN "in" ELSE "out"

Counted(k, n) == env' = [env EXCEPT !.faults = IF k < n THEN @ + 1 ELSE @]

-----------------------------------------------------------------------------
(* What the set controllers compute *)

\* The volume whose size is synchronised, and its size.
DataVolume(s) == CASE kind = "LogSet" -> s.volume
                   [] kind \in {"DNSet", "CNSet"} -> s.cacheVolume
                   [] OTHER -> NONE

\* GoMemLimitEnv reads the overlay without looking whether there is one.
Panics(s) == kind # "WebUI" /\ s.overlay = NONE /\ s.memoryLimitPercent # NONE /\ s.memory # 0

\* The log service takes the suffix for its latest version only.
LogConfigSuffix(s, suffix, t) ==
  IF GetOperatorVersion(s) = LatestOpVersion THEN SetConfigSuffix(s, suffix, t) ELSE t

PoolAnnotations(s, t) ==
  [t EXCEPT !.annotations = Upsert(@, If(s.podManagementPolicy = "Pooling"
       /\ Enabled("InplacePoolRollingUpdate", GetOperatorVersion(s)), Entry("pool-rolling", "y")))]

\* The config map, and the template a controller makes of the one that is
\* stored.
syncPods(s, t) ==
  LET suffix == Config(kind, s, log)
      cm == buildConfigMap(kind, s, suffix)
      sp == log.spec.sharedStorage
      meta == OverlayPodMeta(s.overlay, SyncPodMeta(s, t))
      synced == CASE kind = "LogSet" -> LogSyncPodSpec(s, LogConfigSuffix(s, suffix, meta))
                  [] kind = "DNSet" -> DNSyncPodSpec(s, sp, SetConfigSuffix(s, suffix, meta))
                  [] kind = "CNSet" -> SetConfigSuffix(s, suffix,
                                         PoolAnnotations(s, CNSyncPodSpec(s, sp, CNSyncPodMeta(s, t))))
                  [] kind = "ProxySet" -> ProxySyncMOPod(s, sp, suffix, t)
                  [] kind = "WebUI" -> WebUISyncPodSpec(s, t)
  IN [cm |-> cm, t |-> SyncConfigVolume(s, cm, synced)]

ListedPods == UNION {listed[p] : p \in Pods}

\* The config map is written on the way to the template.
SyncConfigMap(s, cm) == SyncedMaps(s, maps, cm, ListedPods)

\* The services Create makes, and the ones without which Observe creates again.
CreatedSvcs == CASE kind = "LogSet" -> {"headless", "discovery"}
                 [] kind = "DNSet" -> {"headless"}
                 [] kind = "CNSet" -> {"headless", "svc"}
                 [] OTHER -> {"svc"}
RequiredSvcs == CASE kind = "LogSet" -> {"discovery"}
                  [] kind = "DNSet" -> {"headless"}
                  [] kind = "WebUI" -> {"svc"}
                  [] OTHER -> {}

\* type: of the service; scrape: Prometheus finds the services.
NoWorkload == [st |-> "none", t |-> NONE, replicas |-> 0, claim |-> NONE,
               svcs |-> {}, type |-> NONE, scrape |-> FALSE]

buildWorkload(s, t) ==
  [NoWorkload EXCEPT !.st = "live", !.t = t, !.replicas = s.replicas,
                     !.claim = IF DataVolume(s) = NONE THEN NONE ELSE DataVolume(s).size]

\* The services that are made, and made to follow the spec, outside Create.
syncService(old) ==
  [old EXCEPT !.svcs = @ \cup {"svc"}, !.type = obj.spec.serviceType,
              !.scrape = PromDiscoveredByService(obj.spec)]

syncMetricService(old) ==
  [old EXCEPT !.svcs = @ \cup {"metric"}, !.scrape = PromDiscoveredByService(obj.spec)]

Ready == Cardinality({p \in Pods : pods[p] # NONE /\ pods[p].conf # {}}) >= obj.spec.replicas
Updated == Cardinality({p \in Pods : pods[p] # NONE /\ pods[p].conf # {} /\ pods[p].t = wl.t})
             >= obj.spec.replicas

-----------------------------------------------------------------------------
(* The controllers *)

Reconciles == obj.st = "live" /\ queued /\ ~Panics(obj.spec)

\* The config map, then the services and the workload; of these a failed call
\* does not keep the others from being made.
Create(sync) ==
  \E k \in Calls(2) : \E made \in (IF k = 2 THEN {CreatedSvcs \cup {"wl"}}
                                   ELSE IF k = 1 THEN SUBSET (CreatedSvcs \cup {"wl"}) ELSE {{}}) :
    LET new == IF wl.st = "none" /\ "wl" \in made THEN buildWorkload(obj.spec, sync.t) ELSE wl
    IN /\ maps' = IF k >= 1 THEN SyncConfigMap(obj.spec, sync.cm) ELSE maps
       /\ wl' = [new EXCEPT !.svcs = wl.svcs \cup (made \ {"wl"}),
                            !.type = IF "svc" \in made \ wl.svcs THEN obj.spec.serviceType ELSE wl.type]
       /\ Counted(k, 2)
       /\ UNCHANGED <<obj, queue>>

\* before, cms: the services and config maps as the pass leaves them before
\* the call.
Scale(before, cms) ==
  \E k \in Calls(2) :
    /\ maps' = IF k >= 1 THEN cms ELSE maps
    /\ wl' = CASE k = 0 -> wl [] k = 1 -> before
               [] k = 2 -> [before EXCEPT !.replicas = obj.spec.replicas]
    /\ Counted(k, 2)
    /\ UNCHANGED <<obj, queue>>

\* The template new takes the place of the stored one, after the config map.
Update(before, sync, new, replicas) ==
  \E k \in Calls(3) :
    /\ maps' = IF k >= 2 THEN SyncConfigMap(obj.spec, sync.cm) ELSE maps
    /\ wl' = CASE k = 0 -> wl [] k \in {1, 2} -> before
               [] k = 3 -> [before EXCEPT !.t = new, !.replicas = replicas]
    /\ Counted(k, 3)
    /\ UNCHANGED <<obj, queue>>

\* The size of the claims; the workload goes with it as it was computed.
SyncVolumeSize(before, new, size) ==
  IF wl.claim = NONE \/ size = NONE \/ wl.claim >= size THEN before
  ELSE [before EXCEPT !.claim = size, !.t = new]

VolumeShrinks(size) == wl.claim # NONE /\ size # NONE /\ wl.claim > size

\* Nothing to create, scale or update: volumes, the status, and the end of the
\* reconciliation, for good if the set is ready and rolled out.
Finish(before, sync, size, rolledOut) ==
  LET grown == SyncVolumeSize(before, sync.t, size)
      done == IF kind \in {"LogSet", "DNSet"} THEN syncMetricService(grown) ELSE grown
  IN \E k \in Calls(4) :
       /\ maps' = IF k >= 2 THEN SyncConfigMap(obj.spec, sync.cm) ELSE maps
       /\ wl' = CASE k = 0 -> wl [] k \in {1, 2} \/ VolumeShrinks(size) -> before
                  [] k = 3 -> grown [] k = 4 -> done
       /\ Requeue(k < 4 \/ VolumeShrinks(size) \/ done # wl \/ ~Ready \/ ~rolledOut)
       /\ Counted(k, 4)
       /\ UNCHANGED obj

Missing == wl.st = "none" \/ ~(RequiredSvcs \subseteq wl.svcs)

\* What the pass computes: Create starts from an empty template.
Synced == syncPods(obj.spec, IF Missing THEN PodTemplateOf(kind) ELSE wl.t)

SizeOf(s) == IF DataVolume(s) = NONE THEN NONE ELSE DataVolume(s).size

\* LogSet and DNSet scale before they update.
StatefulObserve ==
  /\ Reconciles /\ kind \in {"LogSet", "DNSet"}
  /\ \E sync \in {Synced} :
       IF Missing THEN Create(sync)
       ELSE IF obj.spec.replicas # wl.replicas THEN Scale(wl, maps)
       ELSE IF sync.t # wl.t THEN Update(wl, sync, sync.t, wl.replicas)
       ELSE Finish(wl, sync, SizeOf(obj.spec), Updated)
  /\ UNCHANGED <<kind, mo, pods, listed, log>>

\* Labels and annotations of the template are updated although updates are
\* paused, the rest of it is not.
PausedTemplate(new) == [wl.t EXCEPT !.labels = new.labels, !.annotations = new.annotations]

\* The services are brought up to date first.
CNObserve ==
  /\ Reconciles /\ kind = "CNSet"
  /\ \E sync \in {Synced} :
       LET target == IF obj.spec.pauseUpdate THEN PausedTemplate(sync.t) ELSE sync.t
           served == syncMetricService(syncService(wl))
       IN IF Missing THEN Create(sync)
          ELSE IF target # wl.t THEN Update(served, sync, target, wl.replicas)
          ELSE IF obj.spec.replicas # wl.replicas THEN Scale(served, SyncConfigMap(obj.spec, sync.cm))
          ELSE Finish(served, sync, SizeOf(obj.spec), Updated)
  /\ UNCHANGED <<kind, mo, pods, listed, log>>

\* The proxy has no Create: the CloneSet, then the service are brought up to
\* date, each made if it is not there.
ProxyObserve ==
  /\ Reconciles /\ kind = "ProxySet"
  /\ \E sync \in {Synced}, k \in Calls(3) :
       LET old == IF wl.st = "none" THEN buildWorkload(obj.spec, sync.t) ELSE wl
           new == [old EXCEPT !.t = sync.t, !.replicas = obj.spec.replicas]
           synced == syncService(new)
       IN /\ maps' = IF k >= 1 THEN SyncConfigMap(obj.spec, sync.cm) ELSE maps
          /\ wl' = CASE k <= 1 -> wl [] k = 2 -> new [] k = 3 -> synced
          /\ Requeue(k < 3 \/ ~Ready \/ synced # wl)
          /\ Counted(k, 3)
  /\ UNCHANGED <<kind, mo, obj, pods, listed, log>>

SvcUpdate(sync) ==
  \E k \in Calls(2) :
    /\ maps' = IF k >= 1 THEN SyncConfigMap(obj.spec, sync.cm) ELSE maps
    /\ wl' = IF k = 2 THEN [wl EXCEPT !.type = obj.spec.serviceType] ELSE wl
    /\ Counted(k, 2)
    /\ UNCHANGED <<obj, queue>>

\* The dashboard's replicas go with the template, then its service.
WebUIObserve ==
  /\ Reconciles /\ kind = "WebUI"
  /\ \E sync \in {Synced} :
       IF Missing THEN Create(sync)
       ELSE IF sync.t # wl.t \/ obj.spec.replicas # wl.replicas
            THEN Update(wl, sync, sync.t, obj.spec.replicas)
       ELSE IF obj.spec.serviceType # wl.type
            THEN SvcUpdate(sync)
       ELSE Finish(wl, sync, NONE, TRUE)
  /\ UNCHANGED <<kind, mo, pods, listed, log>>

Observe == StatefulObserve \/ CNObserve \/ ProxyObserve \/ WebUIObserve

\* The services and the workload are deleted; the set goes when they are gone.
DeleteOwned ==
  /\ obj.st = "deleting"
  /\ \E k \in Calls(3) :
       /\ wl' = CASE k = 0 -> wl [] k = 1 -> [wl EXCEPT !.svcs = @ \ CreatedSvcs] [] OTHER -> NoWorkload
       /\ obj' = IF k = 3 THEN [obj EXCEPT !.st = "gone"] ELSE obj
       /\ Counted(k, 3)
  /\ UNCHANGED <<kind, mo, maps, pods, listed, log, queue>>

FinalizeDNSet == kind = "DNSet" /\ DeleteOwned
FinalizeProxySet == kind = "ProxySet" /\ DeleteOwned
FinalizeWebUI == kind = "WebUI" /\ DeleteOwned

Finalize == FinalizeDNSet \/ FinalizeProxySet \/ FinalizeWebUI

-----------------------------------------------------------------------------
(* The workload controller and the pods *)

\* The configuration a pod of template t reads in the map m.  A script that reads
\* the suffix does not run without the variable.
ConfigRead(t, m) ==
  IF ~m.script.inplace THEN m.plain
  ELSE IF "CONFIG_SUFFIX" \notin DOMAIN t.env THEN {}
  ELSE IF "config-suffix" \in DOMAIN t.annotations THEN {t.annotations["config-suffix"]} \cap m.keyed
  ELSE m.plain

\* The configuration a pod of template t finds when it starts, {} if there is none.
ConfigFound(t) ==
  UNION {ConfigRead(t, m) : m \in IF t.volumes["config"] = {} THEN maps.inplace
                                   ELSE t.volumes["config"]}

Existing == {p \in Pods : pods[p] # NONE}

TemplateIn(pod) == IF pod = NONE THEN {} ELSE {pod.t}

SetPods(new) ==
  /\ pods' = new
  /\ listed' = IF May("lag") THEN listed
               ELSE [p \in Pods |-> TemplateIn(new[p])]
  /\ Requeue(TRUE)
  /\ UNCHANGED <<kind, mo, obj, wl, maps, log>>

Fresh(t) == [t |-> t, conf |-> {}]

Rollout ==
  \E p \in Pods :
    /\ \/ /\ Cardinality(Existing) < wl.replicas
          /\ p = CHOOSE q \in Pods \ Existing : TRUE
          /\ SetPods([pods EXCEPT ![p] = Fresh(wl.t)])
       \/ pods[p] # NONE /\ Cardinality(Existing) > wl.replicas /\ SetPods([pods EXCEPT ![p] = NONE])
       \/ /\ p \in Existing /\ wl.st = "live" /\ pods[p].t # wl.t
          /\ SetPods([pods EXCEPT ![p] = Fresh(wl.t)])
       \/ /\ p \in Existing /\ pods[p].conf = {} /\ ConfigFound(pods[p].t) # {}
          /\ SetPods([pods EXCEPT ![p].conf = ConfigFound(pods[p].t)])
    /\ UNCHANGED env

Crash ==
  /\ May("crash") /\ env.faults < MaxFaults
  /\ \E p \in Existing : \/ pods[p].conf # {} /\ SetPods([pods EXCEPT ![p].conf = {}])
                         \/ SetPods([pods EXCEPT ![p] = NONE])
  /\ env' = [env EXCEPT !.faults = @ + 1]

DeliverPods ==
  /\ May("lag")
  /\ listed' = [p \in Pods |-> TemplateIn(pods[p])]
  /\ listed' # listed
  /\ UNCHANGED <<kind, mo, obj, wl, maps, pods, log, queue, env>>

-----------------------------------------------------------------------------
(* Users, the cluster and the LogSet *)

Edited == env' = [env EXCEPT !.edits = @ + 1] /\ env.edits < MaxEdits

EditSet ==
  /\ mo = NONE /\ obj.st = "live" /\ Edited
  /\ \E e \in EditNames \cap env.may :
       LET new == DefaultSet(kind, Edit(e, obj.spec))
       IN /\ new # obj.spec
          /\ ValidateUpdate(kind, obj.spec, new)
          /\ obj' = [obj EXCEPT !.spec = new]
  /\ Requeue(TRUE)
  /\ UNCHANGED <<kind, mo, wl, maps, pods, listed, log>>

EditCluster ==
  /\ mo # NONE /\ Edited
  /\ \E e \in EditNames \cap env.may :
       LET new == ClusterDefault(kind, Edit(e, mo))
       IN new # mo /\ ClusterValidateUpdate(kind, mo, new) /\ mo' = new
  /\ UNCHANGED <<kind, obj, wl, maps, pods, listed, log, queue>>

\* The spec of the set as the cluster writes it.
setOverlay(s) ==
  LET o == Default(s.overlay, NoOverlay)
  IN [s EXCEPT !.overlay = [o EXCEPT !.podLabels = Upsert(@, [cluster |-> "mo"])]]

Wanted == DefaultSet(kind, setOverlay(mo))

SyncCluster ==
  /\ mo # NONE /\ obj.st = "live"
  /\ obj.spec # Wanted
  /\ ValidateUpdate(kind, obj.spec, Wanted)
  /\ obj' = [obj EXCEPT !.spec = Wanted]
  /\ Requeue(TRUE)
  /\ UNCHANGED <<kind, mo, wl, maps, pods, listed, log, env>>

DeleteSet ==
  /\ May("delete") /\ obj.st = "live" /\ kind \in {"DNSet", "ProxySet", "WebUI"}
  /\ obj' = [obj EXCEPT !.st = "deleting"]
  /\ UNCHANGED <<kind, mo, wl, maps, pods, listed, log, queue, env>>

\* Mutant: the sets do not watch the StatefulSet of their LogSet.
requestsForNone == FALSE

\* Whether a change of the reserved ordinals puts the set into the queue.
requestsForLogSetStatefulSet == kind \in {"DNSet", "CNSet"}

\* The log stores are others, and no event says so to the sets that name them
\* in their configuration.
Unheard == IF queue = "out" /\ kind \in {"DNSet", "CNSet"} THEN "unaware" ELSE queue

\* The event is lost if the sets cannot be listed.
Failover ==
  /\ May("failover") /\ log.reserved = {}
  /\ log' = [log EXCEPT !.reserved = {0}]
  /\ \E k \in Calls(1) :
       /\ queue' = IF k = 0 THEN Unheard ELSE IF requestsForLogSetStatefulSet THEN "in" ELSE queue
       /\ Counted(k, 1)
  /\ UNCHANGED <<kind, mo, obj, wl, maps, pods, listed>>

\* The replicas decide on the addresses as well (HaKeeperSvcAddrs), but the
\* sets only hear of the reserved ordinals (LogSetReserveOrdinalsChangedPredicate).
ScaleLogSet ==
  /\ May("logscale") /\ log.spec.replicas = 1
  /\ log' = [log EXCEPT !.spec.replicas = 2]
  /\ queue' = Unheard
  /\ UNCHANGED <<kind, mo, obj, wl, maps, pods, listed, env>>

-----------------------------------------------------------------------------
Given(s) == IF May("old") THEN [s EXCEPT !.operatorVersion = NONE] ELSE s

Init ==
  /\ env \in [may : Scenarios, edits : {0}, faults : {0}]
  /\ kind \in SetKinds \cap env.may
  /\ mo = IF May("cluster") THEN ClusterDefault(kind, Given(BaseSpec)) ELSE NONE
  /\ obj = [st |-> "live", spec |-> DefaultSet(kind, IF mo = NONE THEN Given(BaseSpec) ELSE setOverlay(mo))]
  /\ wl = NoWorkload
  /\ maps = [inplace |-> {}, legacy |-> {}]
  /\ pods = [p \in Pods |-> NONE]
  /\ listed = [p \in Pods |-> {}]
  /\ log = [spec |-> [DefaultSet("LogSet", BaseSpec) EXCEPT !.sharedStorage = S3Storage], reserved |-> {}]
  /\ queue = "in"

Next == Observe \/ Finalize \/ Rollout \/ Crash \/ DeliverPods
        \/ EditSet \/ EditCluster \/ SyncCluster \/ DeleteSet
        \/ Failover \/ ScaleLogSet

Spec == Init /\ [][Next]_vars

-----------------------------------------------------------------------------
(* Properties *)

\* A pod finds its configuration again when it restarts: the controller never
\* takes a configuration out of the config map that a pod has started with
\* (ensureConfigMap: "append item that is still in use").
ConfigKept ==
  [][\A p \in Existing : (pods[p].conf # {} /\ pods'[p] = pods[p] /\ "lag" \notin env.may)
                           => ConfigFound(pods[p].t)' # {}]_vars

\* A pod runs with the configuration of its set's spec; the dashboard's config
\* map is updated under its pods, which do not read it again.
RunsWith(p) ==
  \/ pods[p].conf = {Config(kind, obj.spec, log)}
  \/ kind = "WebUI" /\ InplaceConfigmapUpdate(obj.spec) /\ pods[p].conf # {}

Paused == kind = "CNSet" /\ obj.spec.pauseUpdate

\* A pause keeps back all of the template but labels and annotations: pods take
\* a new configuration if the template names it by an annotation.
RolledOut ==
  /\ wl.st = "live"
  /\ Paused \/ wl.t = syncPods(obj.spec, wl.t).t
  /\ wl.replicas = obj.spec.replicas
  /\ SizeOf(obj.spec) # NONE => wl.claim \in {SizeOf(obj.spec), NONE}
  /\ kind # "WebUI" => wl.scrape = PromDiscoveredByService(obj.spec)
  /\ "svc" \in wl.svcs => wl.type = obj.spec.serviceType
  /\ Cardinality(Existing) = wl.replicas
  /\ \A p \in Existing : /\ pods[p].t = wl.t
                         /\ RunsWith(p) \/ (Paused /\ wl.t.volumes["config"] # {})

\* Nobody is going to do anything about the set: it is not in the queue of its
\* controller, which has been told of everything, and the pods are the ones the
\* workload asks for.
Quiet ==
  /\ obj.st = "live" /\ queue = "out"
  /\ Cardinality(Existing) = wl.replicas
  /\ \A p \in Existing : pods[p].t = wl.t

\* Every change of a spec that admission lets through, and every replacement of a
\* log store that the set's controller hears of, gets to the template, the volumes,
\* the services and all pods, whatever calls of the controller fail and pods restart
\* on the way: it does not turn to other work (the end of Observe) before it has.
\* Two changes of the log stores are not heard of, and a set that is out of the
\* queue keeps addresses of other log stores until something else puts it back:
\* the LogSet is scaled, which the predicate of the watch passes over, and a log
\* store is replaced while the sets cannot be listed (requestsForLogSetStatefulSet).
\* Then queue is "unaware" and the property says nothing.
ChangesRollOut == Quiet => RolledOut

\* Admission never refuses what a controller has to write.  An update that
\* changes nothing is accepted, so that finalizers and annotations can be put on
\* the object: defaults are stable, and what was admitted is admitted again.
\* And a set takes the spec of its cluster, which another webhook has admitted,
\* whichever specs in between it has missed.  That holds of the edits that the
\* scenarios with "cluster" list, not of everything the cluster's webhook admits:
\* it compares only the LogSet with what it was (and not its volume) and does not
\* look at versions, so a smaller volume ("shrink") and an image without a version
\* ("unversioned") pass it and are refused by the webhook of the set for as long
\* as the cluster asks for them.  Those two edits are left out with "cluster", and
\* no edit changes the class of a volume or writes both [tn] and [dn].
ControllersAdmitted ==
  /\ DefaultSet(kind, obj.spec) = obj.spec
  /\ ValidateUpdate(kind, obj.spec, obj.spec)
  /\ mo # NONE => ValidateUpdate(kind, obj.spec, Wanted)

\* While spec.pauseUpdate is set, the pod spec of the template stays as it is
\* ("PauseUpdate means the CNSet should pause rolling-update").
PausedStays ==
  [][(wl.st = "live" /\ obj.spec.pauseUpdate /\ obj'.spec.pauseUpdate /\ wl'.st = "live")
       => wl'.t = [wl.t EXCEPT !.labels = wl'.t.labels, !.annotations = wl'.t.annotations]]_vars
=============================================================================
