----------------------------- MODULE PodTemplate -----------------------------
(***************************************************************************)
(* How the controllers of the five kinds of sets turn a spec into the pod  *)
(* template of the workload they own.  A template has labels, annotations, *)
(* the fields of the main container, its env and mounts, and the volumes,  *)
(* readiness gates, other containers and remaining fields of the pod spec. *)
(* Each of these parts but the gates and the other containers is a         *)
(* function from names to values, and every controller starts from the     *)
(* template it has stored.                                                 *)
(***************************************************************************)
EXTENDS Versions, FiniteSets, TLC

Entry(k, v) == [x \in {k} |-> v]
Upsert(f, g) == [k \in DOMAIN f \cup DOMAIN g |-> IF k \in DOMAIN g THEN g[k] ELSE f[k]]
Without(f, keys) == [k \in DOMAIN f \ keys |-> f[k]]
If(cond, f) == IF cond THEN f ELSE <<>>

-----------------------------------------------------------------------------
(* Monitoring options of a pod set.                                        *)

GetExportToPrometheus(p) == p.exportToPrometheus = TRUE
GetPromDiscoveryScheme(p) == Default(p.promDiscoveryScheme, "Service")
PromDiscoveredByService(p) == GetPromDiscoveryScheme(p) = "Service" /\ GetExportToPrometheus(p)
PromDiscoveredByPod(p) == GetPromDiscoveryScheme(p) = "Pod" /\ GetExportToPrometheus(p)

-----------------------------------------------------------------------------
(* The overlay of a pod set: what it names is put over the template, what  *)
(* it does not name stays.  overlay.spec and overlay.main are the fields   *)
(* of the pod spec and of the main container that it sets.                 *)

OverlayPodMeta(o, t) ==
  IF o = NONE THEN t
  ELSE [t EXCEPT !.labels = Upsert(@, o.podLabels),
                 !.annotations = Upsert(@, o.podAnnotations)]

OverlayPodSpec(o, t) ==
  IF o = NONE THEN t
  ELSE [t EXCEPT !.volumes = Upsert(@, o.volumes),
                 !.spec = Upsert(@, o.spec),
                 !.others = IF o.sidecarContainers = NONE THEN @ ELSE o.sidecarContainers]

OverlayMainContainer(o, t) ==
  IF o = NONE THEN t
  ELSE [t EXCEPT !.main = Upsert(@, o.main),
                 !.env = Upsert(@, o.env),
                 !.mounts = Upsert(@, o.volumeMounts)]

-----------------------------------------------------------------------------
(* Parts every kind uses.                                                  *)

SyncPodMeta(p, t) ==
  LET prom == IF PromDiscoveredByPod(p)
              THEN Upsert(t.annotations, [scrape |-> "true", port |-> "metrics"])
              ELSE Without(t.annotations, {"scrape", "port"})
      sem == If(GetSemVer(p) # NONE, Entry("semantic-version", GetSemVer(p)))
      op == If(LT(FirstOpVersion, GetOperatorVersion(p)),
               Entry("operator-version", GetOperatorVersion(p)))
  IN [t EXCEPT !.annotations = Upsert(Upsert(prom, sem), op)]

GoMemLimitEnv(p) ==
  If(p.memoryLimitPercent # NONE /\ p.memory # 0 /\ "GOMEMLIMIT" \notin DOMAIN p.overlay.env,
     [GOMEMLIMIT |-> (p.memory * p.memoryLimitPercent) \div 100])

ConfigSuffixEnv(p) ==
  If(Enabled("InplaceConfigmapUpdate", GetOperatorVersion(p)), [CONFIG_SUFFIX |-> "fieldRef"])

SetConfigSuffix(p, suffix, t) ==
  IF Enabled("InplaceConfigmapUpdate", GetOperatorVersion(p))
  THEN [t EXCEPT !.annotations = Upsert(@, Entry("config-suffix", suffix))] ELSE t

SetStorageProviderConfig(sp, t) ==
  LET s3 == sp.s3
      cert == s3.certificateRef # NONE
  IN IF s3 = NONE THEN t
     ELSE [t EXCEPT
       !.volumes = Upsert(@, If(cert, Entry("s3-ssl", s3.certificateRef))),
       !.mounts = Upsert(@, If(cert, Entry("s3-ssl", "s3-ssl"))),
       !.env = Upsert(Upsert(@, If(s3.secretRef # NONE,
                                   [AWS_ACCESS_KEY_ID |-> s3.secretRef,
                                    AWS_SECRET_ACCESS_KEY |-> s3.secretRef])),
                      [AWS_REGION |-> Default(s3.region, "us-west-2")])]

SetupMemoryFsVolume(p, t) ==
  IF p.memoryFsSize = NONE THEN t
  ELSE [t EXCEPT !.volumes = Upsert(@, Entry("mo-memory", p.memoryFsSize)),
                 !.mounts = Upsert(@, Entry("mo-memory", "bin")),
                 !.env = Upsert(@, [MO_BIN_PATH |-> "bin"])]

SyncTopology(p, t) == [t EXCEPT !.spec = Upsert(@, [topologySpread |-> p.topologyEvenSpread])]

\* The main container before its overlay: args, env and mounts are replaced.
MainContainer(p, mounts, env, t) ==
  [t EXCEPT !.main = Upsert(@, [image |-> p.image, resources |-> p.memory,
                                command |-> "start.sh", args |-> p.serviceArgs]),
            !.mounts = mounts,
            !.env = Upsert(env, Upsert(ConfigSuffixEnv(p), GoMemLimitEnv(p)))]

PodFields(p, gates, t) ==
  [t EXCEPT !.others = {}, !.gates = gates,
            !.spec = Upsert(@, [nodeSelector |-> p.nodeSelector])]

\* The storage credentials, the spread over topology domains, the overlay and
\* the memory file system, in the order LogSet, DNSet and CNSet apply them.
FinishPodSpec(p, sp, t) ==
  SetupMemoryFsVolume(p, OverlayPodSpec(p.overlay, SyncTopology(p, SetStorageProviderConfig(sp, t))))

-----------------------------------------------------------------------------
(* One operator per kind; the workload is a Kruise StatefulSet, a Kruise   *)
(* CloneSet or a Deployment, all with the same pod template.               *)

PodTemplateOf(kind) ==
  [labels |-> [component |-> kind], annotations |-> <<>>, main |-> <<>>, env |-> <<>>,
   mounts |-> <<>>, volumes |-> <<>>, spec |-> <<>>, gates |-> {}, others |-> {}]

baseEnv == [POD_NAME |-> "fieldRef", NAMESPACE |-> "fieldRef"]
dataMount(volume) == If(volume # NONE, Entry("mo-data", "data"))

LogSyncPodSpec(ls, t) ==
  LET mounts == Upsert(Entry("mo-data", "data"), [bootstrap |-> "ro", config |-> "ro", gossip |-> "ro"])
      main == MainContainer(ls, mounts,
                Upsert(baseEnv, [POD_IP |-> "fieldRef", HEADLESS_SERVICE_NAME |-> "log"]), t)
      pod == PodFields(ls, {"InPlaceUpdateReady"}, OverlayMainContainer(ls.overlay, main))
  IN FinishPodSpec(ls, ls.sharedStorage,
       [pod EXCEPT !.volumes = [bootstrap |-> "bootstrap", gossip |-> "gossip"]])

DNSyncPodSpec(dn, sp, t) ==
  LET env == Upsert(Upsert(baseEnv, [HEADLESS_SERVICE_NAME |-> "dn"]),
                    If(dn.dnsBasedIdentity, [HOSTNAME_UUID |-> "y"]))
      main == MainContainer(dn, Upsert([config |-> "ro"], dataMount(dn.cacheVolume)), env, t)
  IN FinishPodSpec(dn, sp,
       PodFields(dn, {"InPlaceUpdateReady"}, OverlayMainContainer(dn.overlay, main)))

\* AddReadinessGate appends, so the gates of the stored template stay.  The
\* sidecar is added after the overlay, which may have replaced the others.
CNSyncPodSpec(cn, sp, t) ==
  LET env == Upsert(baseEnv, [HEADLESS_SERVICE_NAME |-> "cn", POD_IP |-> "fieldRef"])
      main == MainContainer(cn, Upsert([config |-> "ro"], dataMount(cn.cacheVolume)), env, t)
      gates == t.gates \cup {"CNStoreReadiness", "KruisePodReady", "InPlaceUpdateReady"}
      pod == FinishPodSpec(cn, sp, PodFields(cn, gates, OverlayMainContainer(cn.overlay, main)))
  IN [pod EXCEPT !.others = @ \cup (IF cn.pythonUdfSidecar = NONE THEN {}
                                     ELSE {cn.pythonUdfSidecar})]

CNSyncPodMeta(cn, t) ==
  LET labelled == [t EXCEPT !.annotations =
        Upsert(Upsert(@, Entry("cn-labels", cn.labels)),
               If(cn.podManagementPolicy # NONE,
                  Entry("pod-management-policy", cn.podManagementPolicy)))]
  IN OverlayPodMeta(cn.overlay, SyncPodMeta(cn, labelled))

\* SyncMOPod, the path of the proxy: the readiness probe goes under the
\* overlay, and so does the config suffix.
ProxySyncMOPod(p, sp, suffix, t) ==
  LET main == MainContainer(p, [config |-> "ro"], baseEnv, t)
      probed == [main EXCEPT !.main = Upsert(@, [readinessProbe |-> "tcp"])]
      pod == PodFields(p, {"InPlaceUpdateReady"}, OverlayMainContainer(p.overlay, probed))
      meta == SetConfigSuffix(p, suffix, SyncPodMeta(p, SetStorageProviderConfig(sp, SyncTopology(p, pod))))
  IN OverlayPodSpec(p.overlay, OverlayPodMeta(p.overlay, meta))

\* The dashboard has no main container: a backend and a frontend.
WebUISyncPodSpec(wi, t) ==
  LET pod == [PodFields(wi, {"InPlaceUpdateReady"}, t) EXCEPT !.others = {"backend", "frontend"}]
  IN OverlayPodSpec(wi.overlay, SyncTopology(wi, OverlayPodMeta(wi.overlay, pod)))
=============================================================================
