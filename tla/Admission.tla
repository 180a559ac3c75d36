------------------------------ MODULE Admission ------------------------------
(***************************************************************************)
(* The admission webhooks of the sets and of the cluster: what they fill   *)
(* in and what they refuse (src/pkg/webhook).  One record holds the specs  *)
(* of all kinds; a kind leaves the fields it has not alone.  The result of *)
(* the validation copied from Kubernetes (corevalidation) is the field     *)
(* valid of an overlay.                                                    *)
(***************************************************************************)
EXTENDS TomlConfig, PodTemplate

CONSTANT ServiceDefaultArgs  \* the flag of the operator, NONE if not given

SetKinds == {"LogSet", "DNSet", "CNSet", "ProxySet", "WebUI"}

minHAReplicas == 3
singleReplica == 1

NoOverlay == [podLabels |-> <<>>, podAnnotations |-> <<>>, volumes |-> <<>>, spec |-> <<>>,
              sidecarContainers |-> NONE, main |-> <<>>, env |-> <<>>, volumeMounts |-> <<>>,
              valid |-> TRUE]

-----------------------------------------------------------------------------
(* Defaults: a field is filled in only where the user has left it out.     *)

setDefaultServiceArgs(s) == [s EXCEPT !.serviceArgs = Default(@, ServiceDefaultArgs)]

setPodSetDefaults(s) ==
  LET o == Default(s.overlay, NoOverlay)
  IN [s EXCEPT !.overlay = [o EXCEPT !.env = Upsert([GODEBUG |-> "default"], @)],
               !.promDiscoveryScheme = IF s.exportToPrometheus = TRUE THEN Default(@, "Service") ELSE @]

defaultDiskCacheSize(size) == (size * 9) \div 10

DefaultDiskCache(s) ==
  IF s.cacheVolume = NONE THEN s
  ELSE [s EXCEPT !.diskCacheSize = Default(@, defaultDiskCacheSize(s.cacheVolume.size))]

CNDefaultSpec(s) ==
  LET own == [DefaultDiskCache(s) EXCEPT
        !.serviceType = Default(@, "ClusterIP"),
        !.memoryCacheSize = IF s.memory # 0 THEN Default(@, s.memory \div 2) ELSE @,
        !.storeDrainTimeout = IF s.storeDrainEnabled THEN Default(@, 5) ELSE @,
        !.maxSurge = Default(@, 1),
        !.maxUnavailable = Default(@, 0)]
  IN setPodSetDefaults(setDefaultServiceArgs(own))

\* Requests.Memory() is never nil: without a request the cache gets size 0.
DNDefaultSpec(s) ==
  setPodSetDefaults(setDefaultServiceArgs(
    [DefaultDiskCache(s) EXCEPT !.memoryCacheSize = Default(@, s.memory \div 2)]))

setDefaultRetentionPolicy(s) ==
  LET s3 == s.sharedStorage.s3
      other == IF s3 = NONE THEN NONE ELSE s3.s3RetentionPolicy
      pvc == Default(s.pvcRetentionPolicy, Default(other, "Delete"))
      storage == IF s3 = NONE THEN NONE
                 ELSE [s3 EXCEPT !.s3RetentionPolicy = Default(@, pvc)]
  IN [s EXCEPT !.pvcRetentionPolicy = pvc, !.sharedStorage.s3 = storage]

LogDefaultSpec(s) ==
  LET own == [s EXCEPT
        !.logShardReplicas = Default(@, IF s.replicas >= minHAReplicas THEN minHAReplicas
                                        ELSE singleReplica),
        !.logShards = Default(@, 1),
        !.dnShards = Default(@, 1),
        !.storeFailureTimeout = Default(@, 10)]
  IN setPodSetDefaults(setDefaultServiceArgs(setDefaultRetentionPolicy(own)))

DefaultSpec(kind, s) ==
  CASE kind = "LogSet" -> LogDefaultSpec(s)
    [] kind = "DNSet" -> DNDefaultSpec(s)
    [] kind = "CNSet" -> CNDefaultSpec(s)
    [] kind = "ProxySet" -> setDefaultServiceArgs(s)
    [] kind = "WebUI" -> s

\* Only the defaulter of the CNSet itself knows the role.
DefaultSet(kind, s) ==
  LET d == DefaultSpec(kind, s)
  IN IF kind = "CNSet" THEN [d EXCEPT !.role = Default(@, "TP")] ELSE d

-----------------------------------------------------------------------------
(* Validation.  v is an optional volume [size, class].                     *)

validateVolume(v) == v.size # 0

validateGoMemLimitPercent(p) == p # NONE => p > 0 /\ p <= 100

validateOverlays(o) ==
  /\ o.valid
  /\ "terminationGracePeriodSeconds" \in DOMAIN o.spec => o.spec["terminationGracePeriodSeconds"] >= 0

validateMainContainer(s) == s.image.name # NONE

validatePodSet(s) ==
  /\ s.overlay # NONE => validateOverlays(s.overlay)
  /\ GetSemVer(s) # NONE
  /\ s.exportToPrometheus = TRUE => s.promDiscoveryScheme \in {"Pod", "Service"}
  /\ validateMainContainer(s)

validatePodSetUpdate(old, new) ==
  /\ GetSemVer(old) # NONE => GetSemVer(new) # NONE
  /\ ~LT(GetOperatorVersion(new), GetOperatorVersion(old))

\* Mutant: the comparison of the sizes also refuses the same size.
validateVolumeGrowth(old, new) ==
  (old # NONE /\ new # NONE) => new.size > old.size

validateVolumeUpdate(old, new) ==
  (old # NONE /\ new # NONE) =>
    /\ (new.class # NONE /\ old.class # NONE) => new.class = old.class
    /\ new.size >= old.size

CNValidateSpecCreate(s) ==
  /\ s.cacheVolume # NONE => validateVolume(s.cacheVolume)
  /\ s.serviceType # "ExternalName"
  /\ s.nodePort # NONE => s.serviceType # "ClusterIP"
  /\ \A l \in s.labels : l.key # NONE /\ l.values # {} /\ NONE \notin l.values
  /\ validateGoMemLimitPercent(s.memoryLimitPercent)

DNValidateSpecCreate(s) ==
  /\ s.cacheVolume # NONE => validateVolume(s.cacheVolume)
  /\ validateGoMemLimitPercent(s.memoryLimitPercent)

validateConfig(conf) == conf # NONE => ~(Has(conf, "tn") /\ Has(conf, "dn"))

validateSharedStorage(s) ==
  LET sp == s.sharedStorage
  IN /\ sp.s3 # NONE => sp.s3.path # NONE
     /\ sp.fileSystem # NONE => sp.fileSystem.path # NONE
     /\ (sp.s3 = NONE) # (sp.fileSystem = NONE)

validateInitialConfig(s) ==
  /\ NONE \notin {s.logShardReplicas, s.logShards, s.dnShards}
  /\ s.replicas # 0 => s.logShardReplicas <= s.replicas

LogValidateMutateCommon(s) ==
  /\ validateVolume(s.volume)
  /\ validateInitialConfig(s)
  /\ validateSharedStorage(s)
  /\ validateGoMemLimitPercent(s.memoryLimitPercent)

InitialConfig(s) == <<s.logShardReplicas, s.logShards, s.dnShards, s.restoreFrom>>

LogValidateSpecUpdate(old, new) ==
  /\ LogValidateMutateCommon(new)
  /\ InitialConfig(new) = InitialConfig(old)
  /\ new.sharedStorage.s3 = old.sharedStorage.s3

LogValidateUpdate(old, new) ==
  LogValidateSpecUpdate(old, new) /\ validateVolumeUpdate(old.volume, new.volume)

DNValidateCreate(s) == DNValidateSpecCreate(s) /\ validatePodSet(s) /\ validateConfig(s.config)

DNValidateUpdate(old, new) ==
  DNValidateCreate(new) /\ validateVolumeUpdate(old.cacheVolume, new.cacheVolume)

CNValidateCreate(s) == CNValidateSpecCreate(s) /\ validatePodSet(s)

CNValidateUpdate(old, new) ==
  /\ CNValidateCreate(new)
  /\ validatePodSetUpdate(old, new)
  /\ validateVolumeUpdate(old.cacheVolume, new.cacheVolume)

WebUIValidateCreate(s) == validatePodSet(s)

\* Nothing is refused for a proxy.
ValidateUpdate(kind, old, new) ==
  CASE kind = "LogSet" -> LogValidateUpdate(old, new)
    [] kind = "DNSet" -> DNValidateUpdate(old, new)
    [] kind = "CNSet" -> CNValidateUpdate(old, new)
    [] kind = "ProxySet" -> TRUE
    [] kind = "WebUI" -> WebUIValidateCreate(new)

-----------------------------------------------------------------------------
(* The webhook of the cluster, for the spec of one of its sets: proxy and  *)
(* dashboard have no defaults there, and of an update only the LogSet's is *)
(* compared with what it was.                                              *)

ClusterDefault(kind, s) ==
  IF kind \in {"LogSet", "DNSet", "CNSet"} THEN DefaultSpec(kind, s) ELSE s

ClusterValidateMutateCommon(kind, s) ==
  CASE kind = "DNSet" -> DNValidateSpecCreate(s)
    [] kind = "CNSet" -> CNValidateSpecCreate(s)
    [] OTHER -> TRUE

ClusterValidateUpdate(kind, old, new) ==
  /\ ClusterValidateMutateCommon(kind, new)
  /\ kind = "LogSet" => LogValidateSpecUpdate(old, new)
=============================================================================
