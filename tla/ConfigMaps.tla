----------------------------- MODULE ConfigMaps -----------------------------
(***************************************************************************)
(* The configuration the controllers of the sets compute for their pods,   *)
(* and the config maps they keep it in.  Settings that are the same for    *)
(* all sets of a kind (ports, listen addresses) are left out but for one.  *)
(*                                                                         *)
(* The data of a config map is the start script, the configuration under   *)
(* the key config.toml (plain, a set with one element or none), and the    *)
(* configurations under keys that end with the digest of their value.  A   *)
(* digest is modelled by what it is made from.                             *)
(***************************************************************************)
EXTENDS Admission

\* A sequence of settings [path, x], in the order of the calls.
SetAll(conf, settings) ==
  Seqs!FoldLeft(LAMBDA c, setting : Set(c, setting[1], setting[2]), conf, settings)

When(cond, path, x) == IF cond THEN <<<<path, x>>>> ELSE <<>>

-----------------------------------------------------------------------------
(* File services *)

S3FS(s3, subDir) ==
  "endpoint" :> Val(Default(s3.endpoint, "s3.us-west-2.amazonaws.com"))
  @@ "bucket" :> Val(s3.path) @@ "key-prefix" :> Val(subDir)
  @@ If(s3.region # NONE, "region" :> Val(s3.region))
  @@ If(s3.certificateRef # NONE, "cert-files" :> Val(s3.certificateRef))

CacheConfig(cache) ==
  IF cache = NONE THEN "memory-capacity" :> Val(1)
  ELSE If(cache.memory # NONE, "memory-capacity" :> Val(cache.memory))
       @@ If(cache.disk # NONE, "disk-capacity" :> Val(cache.disk) @@ "disk-path" :> Val("cache"))

sharedFileServiceConfig(sp, cache, name, subDir) ==
  LET s3 == sp.s3
      backend == IF sp.fileSystem # NONE THEN (IF name = "ETL" THEN "DISK-ETL" ELSE "DISK")
                 ELSE IF s3.type = "minio" THEN "MINIO" ELSE "S3"
  IN "name" :> Val(name) @@ "backend" :> Val(backend)
     @@ (IF s3 = NONE THEN <<>> ELSE "s3" :> Table(S3FS(s3, subDir)))
     @@ (IF sp.fileSystem = NONE THEN <<>> ELSE "data-dir" :> Val(sp.fileSystem.path))
     @@ If(CacheConfig(cache) # <<>>, "cache" :> Table(CacheConfig(cache)))

localFS == "name" :> Val("LOCAL") @@ "backend" :> Val("DISK") @@ "data-dir" :> Val("data")

FileServiceConfig(sp, cache) ==
  "data-dir" :> Val("data")
  @@ "fileservice" :> Array(<<localFS, sharedFileServiceConfig(sp, cache, "S3", "data"),
                              sharedFileServiceConfig(sp, NONE, "ETL", "etl")>>)

LogServiceFSConfig(sp) ==
  "data-dir" :> Val("data")
  @@ "fileservice" :> Array(<<sharedFileServiceConfig(sp, NONE, "BACKUP", "")>>)

SharedStorageCache(s) == [memory |-> s.memoryCacheSize, disk |-> s.diskCacheSize]

-----------------------------------------------------------------------------
(* The configuration of each kind.  log is what the set reads of its       *)
(* LogSet: [spec, reserved], the reserved ordinals of the StatefulSet.     *)

DiscoveryFixed(s) == GetSemVer(s) # NONE /\ HasMOFeature(GetSemVer(s), "DiscoveryFixed")

\* The first spec.replicas ordinals that are not reserved.
HaKeeperSvcAddrs(log) ==
  {i \in 0 .. log.spec.replicas + Cardinality(log.reserved) :
     /\ i \notin log.reserved
     /\ Cardinality({j \in 0 .. i : j \notin log.reserved}) <= log.spec.replicas}

HAKeeperClient(s, log) ==
  IF DiscoveryFixed(s) THEN <<<<<<"hakeeper-client", "discovery-address">>, "discovery">>>>
  ELSE <<<<<<"hakeeper-client", "service-addresses">>, HaKeeperSvcAddrs(log)>>>>

Observability(s) == When(GetExportToPrometheus(s), <<"observability", "enableMetricToProm">>, TRUE)

LogConfig(s) ==
  LET fs == IF s.restoreFrom # NONE THEN LogServiceFSConfig(s.sharedStorage)
            ELSE FileServiceConfig(s.sharedStorage, NONE)
  IN SetAll(MergeDeep(s.config, fs),
       <<<<<<"service-type">>, "LOG">>, <<<<"hakeeper-client", "discovery-address">>, "discovery">>>>
       \o When(s.replicas = 1, <<"logservice", "gossip-allow-self-as-seed">>, TRUE)
       \o Observability(s))

\* All settings go to the table [tn] if the user has configured it.
DNAlias(s) == IF Has(NewTomlConfig(s.config), "tn") THEN "tn" ELSE "dn"

DNConfig(s, log) ==
  LET client == SetAll(s.config, HAKeeperClient(s, log))
  IN SetAll(MergeDeep(client, FileServiceConfig(log.spec.sharedStorage, SharedStorageCache(s))),
       <<<<<<"service-type">>, "DN">>, <<<<DNAlias(s), "listen-address">>, "any">>>>
       \o Observability(s))

CNConfig(s, log) ==
  SetAll(MergeDeep(s.config, FileServiceConfig(log.spec.sharedStorage, SharedStorageCache(s))),
    <<<<<<"service-type">>, "CN">>>> \o HAKeeperClient(s, log)
    \o <<<<<<"cn", "role">>, s.role>>>> \o Observability(s)
    \o When(s.pythonUdfSidecar # NONE, <<"cn", "python-udf-client", "server-address">>, s.pythonUdfSidecar)
    \o When(s.storeDrainEnabled, <<"cn", "init-work-state">>, "Draining"))

ProxyConfig(s, log) ==
  SetAll(MergeDeep(Set(s.config, <<"hakeeper-client", "discovery-address">>, "discovery"),
                   FileServiceConfig(log.spec.sharedStorage, NONE)),
    <<<<<<"service-type">>, "PROXY">>>> \o Observability(s))

WebUIConfig(s) == SetAll(s.config, <<<<<<"db", "host">>, "cn">>, <<<<"server", "mode">>, "playground">>>>)

Config(kind, s, log) ==
  CASE kind = "LogSet" -> LogConfig(s)
    [] kind = "DNSet" -> DNConfig(s, log)
    [] kind = "CNSet" -> CNConfig(s, log)
    [] kind = "ProxySet" -> ProxyConfig(s, log)
    [] kind = "WebUI" -> WebUIConfig(s)

-----------------------------------------------------------------------------
(* Config maps *)

InplaceConfigmapUpdate(s) == Enabled("InplaceConfigmapUpdate", GetOperatorVersion(s))

\* What the start script depends on; inplace: it takes the configuration whose
\* digest the pod carries.  The dashboard has no script.
StartScript(kind, s) ==
  [inplace |-> kind # "WebUI" /\ InplaceConfigmapUpdate(s),
   memoryBin |-> kind \notin {"ProxySet", "WebUI"} /\ s.memoryFsSize # NONE,
   alias |-> IF kind = "DNSet" THEN DNAlias(s) ELSE NONE,
   v2 |-> kind = "LogSet" /\ DiscoveryFixed(s)]

buildConfigMap(kind, s, conf) ==
  LET keyed == InplaceConfigmapUpdate(s) /\ kind # "WebUI"
  IN [script |-> StartScript(kind, s),
      plain |-> IF keyed THEN {} ELSE {conf},
      keyed |-> IF keyed THEN {conf} ELSE {}]

\* A configuration is in use if a pod of the list carries its digest.
configInUse(conf, list) ==
  \E t \in list : "config-suffix" \in DOMAIN t.annotations /\ t.annotations["config-suffix"] = conf

\* Mutant: only the configuration of the new template is kept.
keepDesired(old, list) == {}

\* The configurations of the map there is that stay in it.
KeptInUse(old, list) ==
  {conf \in UNION {m.keyed : m \in old} : configInUse(conf, list)}

ensureConfigMap(old, desired, list) ==
  {[desired EXCEPT !.keyed = @ \cup KeptInUse(old, list)]}

\* maps.inplace has the one map of the set that is updated in place, if there is
\* one, and maps.legacy the maps whose names end with the digest of their data.
ensureConfigMapLegacy(maps, desired) == [maps EXCEPT !.legacy = @ \cup {desired}]

SyncedMaps(s, maps, cm, list) ==
  IF InplaceConfigmapUpdate(s)
  THEN [maps EXCEPT !.inplace = ensureConfigMap(@, cm, list)]
  ELSE ensureConfigMapLegacy(maps, cm)

\* The volume has the map that it names; without one it names the map that is
\* updated in place.
SyncConfigVolume(s, cm, t) ==
  [t EXCEPT !.volumes = Upsert(@, [config |-> IF InplaceConfigmapUpdate(s) THEN {} ELSE {cm}])]
=============================================================================
