------------------------------ MODULE Versions ------------------------------
(***************************************************************************)
(* The version gates of the operator.  A semantic version is the triple    *)
(* <<major, minor, patch>>; NONE stands for a string that does not parse,  *)
(* and for an optional field that is not set.                              *)
(***************************************************************************)
EXTENDS Naturals, Optional

OpVersion1_2_0 == <<1, 2, 0>>
OpVersion1_3_0 == <<1, 3, 0>>
FirstOpVersion == OpVersion1_2_0
LatestOpVersion == OpVersion1_3_0

LT(v, w) ==
  \/ v[1] < w[1]
  \/ v[1] = w[1] /\ v[2] < w[2]
  \/ v[1] = w[1] /\ v[2] = w[2] /\ v[3] < w[3]

\* Within one minor branch the patch decides; a base version that starts a
\* minor branch (patch 0) also covers the later minor branches.
followsInMajor(base, v) ==
  \/ base[3] = 0 /\ v[2] >= base[2]
  \/ base[2] = v[2] /\ v[3] >= base[3]

versionPrecedes(base, v) == base[1] = v[1] /\ followsInMajor(base, v)

versionPrecedesCrossMajor(base, v) ==
  IF v[1] # base[1] THEN v[1] > base[1] ELSE followsInMajor(base, v)

featureVersions ==
  [PipelineInfo      |-> {<<1, 1, 2>>, <<1, 2, 0>>, <<2, 0, 0>>, <<3, 0, 0>>, <<4, 0, 0>>},
   SessionSource     |-> {<<1, 1, 2>>, <<1, 2, 0>>, <<2, 0, 0>>},
   LockMigration     |-> {<<1, 2, 0>>, <<2, 0, 0>>},
   ShardingMigration |-> {<<2, 0, 0>>},
   DiscoveryFixed    |-> {}]

featureGlobalMinVersions == [DiscoveryFixed |-> <<2, 0, 0>>]

HasMOFeature(v, f) ==
  \/ f \in DOMAIN featureGlobalMinVersions
     /\ versionPrecedesCrossMajor(featureGlobalMinVersions[f], v)
  \/ \E min \in featureVersions[f] : versionPrecedes(min, v)

gateVersions ==
  [InplaceConfigmapUpdate   |-> {OpVersion1_3_0},
   InplacePoolRollingUpdate |-> {OpVersion1_3_0}]

Enabled(gate, v) == \E min \in gateVersions[gate] : versionPrecedes(min, v)

-----------------------------------------------------------------------------
(* The versions of a pod set.  podSet.semanticVersion and                  *)
(* podSet.operatorVersion are optional; an image is the record             *)
(* [name, tag], and the tag is a version, or NONE if it does not parse.    *)

GetSemVer(podSet) ==
  Default(podSet.semanticVersion, podSet.image.tag)

GetOperatorVersion(podSet) ==
  Default(podSet.operatorVersion, FirstOpVersion)
=============================================================================
