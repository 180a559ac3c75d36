------------------------------ MODULE Cluster -------------------------------
(***************************************************************************)
(* The MatrixOneCluster controller (src/pkg/controllers/mocluster): it     *)
(* restores a backup, creates the credential, the LogSet, the DNSet, the   *)
(* CNSets of the groups, the WebUI and the ProxySet, deletes the CNSets of *)
(* groups that are no longer wanted, and sums up their status.  The sets   *)
(* are driven by their own controllers, here by what those report.  A      *)
(* BackupJob backs the cluster up.                                         *)
(*                                                                         *)
(* A reconciliation of the cluster is one step; with faults it may end     *)
(* after any of its calls.                                                 *)
(***************************************************************************)
EXTENDS BackupJobs, Sequences

LOCAL INSTANCE SequencesExt

CONSTANTS
  Groups,      \* names of CN groups
  MaxChanges   \* bound: changes users make and faults
               \* Scenarios also has
               \*   "restore"  spec.restoreFrom is set
               \*   "backup"   a user backs the cluster up
               \*   "metric"   spec.metricReaderEnabled is set
               \*   "change"   a user changes the spec of the cluster
               \*   "fails"    a set loses its pods
               \*   "skip"     a user sets the annotation skip-sync
               \*   "delete"   a user deletes the cluster

\* The RestoreJob of a cluster carries the cluster's name: there is one.
ASSUME ClusterAssumption ==
  /\ MaxChanges \in Nat
  /\ \A r, s \in Restores : r = s

VARIABLES
  mo,       \* the cluster
  sets,     \* the sets of the cluster
  secrets   \* the credentials that exist

clusterVars == <<mo, sets, secrets>>
vars == <<jobs, kjobs, unseen, backups, data, env, mo, sets, secrets>>

Optionals == {"webui", "proxy"}
Sets == {"log", "dn"} \cup Groups \cup Optionals

SetObj == [ st     : {"none", "live", "deleting"},
            rev    : 0 .. 1,     \* its spec
            ready  : BOOLEAN,
            synced : BOOLEAN ]

NoSet == [st |-> "none", rev |-> 0, ready |-> FALSE, synced |-> FALSE]

ClusterObj ==
  [ st      : {"live", "deleting", "gone"},
    skip    : BOOLEAN,                             \* annotation skip-sync
    rev     : 0 .. 1,                              \* all that goes into the specs of the sets
    wanted  : SUBSET (Groups \cup Optionals),  \* spec.cnGroups, webui and proxy
    cred    : BOOLEAN,                             \* status.credentialRef
    metric  : {"none", "secret", "init"},          \* status.clusterMetrics
    ready   : BOOLEAN,                             \* conditions Ready and Synced
    synced  : BOOLEAN,
    host    : BOOLEAN ]                            \* status.host

TypeOK ==
  /\ JobsTypeOK
  /\ mo \in ClusterObj
  /\ sets \in [Sets -> SetObj]
  /\ secrets \subseteq {"root", "metric"}
  /\ env \in [may : Scenarios, changes : 0 .. MaxChanges]

Change ==
  /\ env.changes < MaxChanges
  /\ env' = [env EXCEPT !.changes = @ + 1]

Live(c) == sets[c].st # "none"
WantedGroups == mo.wanted \cap Groups

-----------------------------------------------------------------------------
(* The sets, in the order in which they are created or updated *)

Order == <<"log", "dn">>
         \o SetToSeq(WantedGroups)
         \o SelectSeq(<<"webui", "proxy">>, LAMBDA c : c \in mo.wanted)

\* The spec of a set: from the cluster, with the defaults of the cluster where
\* it leaves something open.
setPodSetDefault(s) == [s EXCEPT !.rev = mo.rev]

CreateOwnedOrUpdate(s) ==
  setPodSetDefault(IF s.st = "none" THEN [NoSet EXCEPT !.st = "live"] ELSE s)

\* The groups that are not wanted are deleted after the CNSets are synced and
\* before the WebUI and the ProxySet are.
Undesired == {g \in Groups \ mo.wanted : Live(g)}

\* Mutant: groups that are no longer wanted stay.
SyncWantedSets(n) ==
  [c \in Sets |->
     IF \E i \in 1 .. n : i \in DOMAIN Order /\ Order[i] = c THEN CreateOwnedOrUpdate(sets[c])
     ELSE sets[c]]

SyncSets(n) ==
  [c \in Sets |->
     IF \E i \in 1 .. n : i \in DOMAIN Order /\ Order[i] = c THEN CreateOwnedOrUpdate(sets[c])
     ELSE IF c \in Undesired /\ n > 2 + Cardinality(WantedGroups)
          THEN [sets[c] EXCEPT !.st = "deleting"]
     ELSE sets[c]]

\* One call for each set and one for the groups.
SetCalls == Len(Order) + 1

-----------------------------------------------------------------------------
(* Status *)

Ready(c) == Live(c) /\ sets[c].ready
Synced(c) == Live(c) /\ sets[c].synced

Considered == {"log", "dn"} \cup WantedGroups \cup (mo.wanted \cap {"proxy"})

readyCondition == \A c \in Considered : Ready(c)
syncedCondition == \A c \in Considered : Synced(c)

\* A CNSet of the cluster is needed for the users of the metrics and, without
\* a proxy, for the host.
FirstCN == \E g \in WantedGroups : Live(g)

HostKnown == "proxy" \in mo.wanted \/ FirstCN

Status(m) == [m EXCEPT !.ready = readyCondition, !.synced = syncedCondition]

WithHost(m) == [m EXCEPT !.host = @ \/ (m.ready /\ HostKnown)]

\* The user for the metrics: its credential is created and recorded, then a CN
\* that runs makes the user, then the status is stored.  What was created and
\* not recorded is an error at the next attempt.
NeedsMetricUser(m) == May("metric") /\ m.metric # "init" /\ FirstCN

InitMetricCredential(m, n) ==
  IF m.metric # "none" THEN m
  ELSE IF n >= 2 THEN [m EXCEPT !.metric = "secret"] ELSE m

MetricFails(m) == m.metric = "none" /\ "metric" \in secrets

UserMade(m) == m.metric = "secret" /\ \E g \in WantedGroups : Ready(g)

initializeMetricUser(m, n) ==
  LET c == InitMetricCredential(m, n)
  IN IF MetricFails(m) THEN m
     ELSE IF UserMade(c) /\ n >= 3 THEN WithHost([c EXCEPT !.metric = "init"]) ELSE c

-----------------------------------------------------------------------------
(* A reconciliation *)

\* The credential is created and recorded in the status.
InitRootCredential(n) ==
  /\ "root" \notin secrets
  /\ secrets' = IF n >= 1 THEN secrets \cup {"root"} ELSE secrets
  /\ mo' = IF n >= 2 THEN [mo EXCEPT !.cred = TRUE] ELSE mo

\* The sets are synced, the users for the metrics are made, and the status is
\* stored.  A metric user that cannot be made ends the reconciliation with an
\* error; its status is stored all the same.
SyncAll(n) ==
  LET status == Status(mo)
      k == n - SetCalls
      metric == NeedsMetricUser(mo) /\ k >= 1
  IN /\ sets' = SyncSets(n)
     /\ secrets' = IF metric /\ mo.metric = "none" THEN secrets \cup {"metric"} ELSE secrets
     /\ mo' = IF k < 1 THEN mo
              ELSE IF metric THEN initializeMetricUser(status, k)
              ELSE WithHost(status)

Up ==
  /\ IF ~mo.cred
     THEN \E n \in Calls(2) : InitRootCredential(n) /\ UNCHANGED sets
     ELSE \E n \in Calls(SetCalls + 3) : SyncAll(n)
  /\ UNCHANGED jobVars

\* Mutant: the sets are made while the restore runs.
LaunchAtOnce(r) ==
  IF jobs[r].st = "none"
  THEN /\ \E n \in Calls(1) :
            jobs' = IF n = 1 THEN [jobs EXCEPT ![r] = [NoJob EXCEPT !.st = "live"]] ELSE jobs
       /\ UNCHANGED <<kjobs, unseen, backups, data, clusterVars>>
  ELSE Up

\* The annotation restore-complete is set on the copy at hand and never
\* stored, so every reconciliation asks for the RestoreJob, and creates it if
\* it is not there.
Restore(r) ==
  IF jobs[r].st = "none"
  THEN /\ \E n \in Calls(1) :
            jobs' = IF n = 1 THEN [jobs EXCEPT ![r] = [NoJob EXCEPT !.st = "live"]] ELSE jobs
       /\ UNCHANGED <<kjobs, unseen, backups, data, clusterVars>>
  ELSE CASE jobs[r].phase = "Failed" ->
              mo' = [mo EXCEPT !.ready = FALSE] /\ UNCHANGED <<sets, secrets, jobVars>>
         [] jobs[r].phase = "Completed" -> Up
         [] OTHER -> FALSE

Observe ==
  /\ mo.st = "live"
  /\ ~mo.skip
  /\ IF May("restore") THEN \E r \in Restores : Restore(r) ELSE Up
  /\ UNCHANGED env

\* The CNSets are deleted and not waited for; the ProxySet is left to the
\* garbage collector, because a WebUI of its name is deleted instead.
Awaited == {"log", "dn", "webui"}

\* Mutant: the cluster goes without a look at its sets.
FinalizeUnseen ==
  /\ mo.st = "deleting"
  /\ mo' = [mo EXCEPT !.st = IF mo.skip \/ \A c \in Awaited : sets[c].st # "live" THEN "gone" ELSE @]
  /\ sets' = [c \in Sets |-> IF c \in {"log", "dn"} /\ Live(c) /\ ~mo.skip
                             THEN [sets[c] EXCEPT !.st = "deleting"] ELSE sets[c]]
  /\ UNCHANGED <<secrets, jobVars, env>>

Finalize ==
  /\ mo.st = "deleting"
  /\ IF mo.skip
     THEN mo' = [mo EXCEPT !.st = "gone"] /\ UNCHANGED sets
     ELSE /\ sets' = [c \in Sets |-> IF c \in Groups \cup Awaited /\ Live(c)
                                     THEN [sets[c] EXCEPT !.st = "deleting"] ELSE sets[c]]
          /\ mo' = [mo EXCEPT !.st = IF \E c \in Awaited : Live(c) THEN @ ELSE "gone"]
  /\ UNCHANGED <<secrets, jobVars, env>>

-----------------------------------------------------------------------------
(* The controllers of the sets, Kubernetes and users *)

\* A set waits for the LogSet, a CNSet for the DNSet too.
Dependencies(c) ==
  CASE c \in {"dn", "proxy"} -> {"log"} [] c \in Groups -> {"log", "dn"} [] OTHER -> {}

\* The controller of a set rolls its spec out and reports that it is ready when
\* its pods are, and lets a deleted set go.
SetReconcile(c) ==
  /\ CASE sets[c].st = "live" ->
            /\ \A d \in Dependencies(c) : Ready(d)
            /\ sets' = [sets EXCEPT ![c].ready = TRUE, ![c].synced = TRUE]
       [] sets[c].st = "deleting" -> sets' = [sets EXCEPT ![c] = NoSet]
       [] OTHER -> FALSE
  /\ UNCHANGED <<mo, secrets, jobVars, env>>

\* What is owned by the cluster is deleted after it.
OwnedRest == {c \in Sets : sets[c].st = "live"}

Collect ==
  /\ mo.st = "gone"
  /\ OwnedRest # {} \/ secrets # {} \/ \E r \in Restores : jobs[r].st = "live"
  /\ sets' = [c \in Sets |-> IF c \in OwnedRest THEN [sets[c] EXCEPT !.st = "deleting"] ELSE sets[c]]
  /\ secrets' = {}
  /\ jobs' = [j \in Jobs |-> IF j \in Restores /\ jobs[j].st = "live"
                             THEN [jobs[j] EXCEPT !.st = "deleting"] ELSE jobs[j]]
  /\ UNCHANGED <<mo, kjobs, unseen, backups, data, env>>

ChangeSpec ==
  /\ May("change")
  /\ mo.st = "live"
  /\ Change
  /\ \/ mo' = [mo EXCEPT !.rev = 1 - @]
     \/ \E c \in Groups \cup Optionals :
          mo' = [mo EXCEPT !.wanted = IF c \in @ THEN @ \ {c} ELSE @ \cup {c}]
  /\ UNCHANGED <<sets, secrets, jobVars>>

LosePods(c) ==
  /\ May("fails")
  /\ sets[c].st = "live"
  /\ sets[c].ready
  /\ Change
  /\ sets' = [sets EXCEPT ![c].ready = FALSE, ![c].synced = FALSE]
  /\ UNCHANGED <<mo, secrets, jobVars>>

SkipSync ==
  /\ May("skip")
  /\ mo.st # "gone"
  /\ Change
  /\ mo' = [mo EXCEPT !.skip = ~@]
  /\ UNCHANGED <<sets, secrets, jobVars>>

DeleteCluster ==
  /\ May("delete")
  /\ mo.st = "live"
  /\ Change
  /\ mo' = [mo EXCEPT !.st = "deleting"]
  /\ UNCHANGED <<sets, secrets, jobVars>>

\* A user backs the cluster up.
CreateBackupJob(b) ==
  /\ May("backup")
  /\ jobs[b].st = "none"
  /\ b \notin backups
  /\ Change
  /\ jobs' = [jobs EXCEPT ![b] = [NoJob EXCEPT !.st = "live"]]
  /\ UNCHANGED <<kjobs, unseen, backups, data, clusterVars>>

\* A backup needs the host and the credential of the cluster; the Backup that
\* is restored is there.
SourceReady(j) == j \in Restores \/ (mo.st # "gone" /\ mo.host /\ mo.cred)

-----------------------------------------------------------------------------
(* Specification *)

NewCluster == [ st |-> "live", skip |-> FALSE, rev |-> 0, wanted |-> Groups \cup {"webui"},
                cred |-> FALSE, metric |-> "none", ready |-> FALSE, synced |-> FALSE, host |-> FALSE ]

Init ==
  /\ env \in [may : Scenarios, changes : {0}]
  /\ mo = NewCluster
  /\ sets = [c \in Sets |-> NoSet]
  /\ secrets = {}
  /\ jobs = [j \in Jobs |-> NoJob]
  /\ kjobs = [j \in Jobs |-> "none"]
  /\ unseen = {}
  /\ backups = {}
  /\ data = "empty"

ClusterSteps == Observe \/ Finalize \/ Collect
JobStep(j) == (JobSteps(j, SourceReady(j)) \/ GC(j)) /\ UNCHANGED <<clusterVars, env>>
Users == ChangeSpec \/ SkipSync \/ DeleteCluster \/ \E b \in Backups : CreateBackupJob(b)

Next ==
  \/ ClusterSteps
  \/ \E c \in Sets : SetReconcile(c) \/ LosePods(c)
  \/ \E j \in Jobs : JobStep(j)
  \/ Users

\* The work queues look at every object again and again, and commands end.  A
\* RestoreJob stays for an hour after it has ended and the cluster is looked at
\* every few seconds, so it does not always go unseen.
Fairness ==
  /\ WF_vars(ClusterSteps)
  /\ SF_vars(Observe /\ UNCHANGED jobs)
  /\ WF_vars(\E c \in Sets : SetReconcile(c))
  /\ \A j \in Jobs : WF_vars(JobStep(j))

Spec == Init /\ [][Next]_vars /\ Fairness

-----------------------------------------------------------------------------
(* Properties *)

\* The sets of a cluster with restoreFrom are created only after the restore
\* has succeeded: no store starts on storage that is empty or half restored.
LaunchedRestored ==
  [][May("restore") /\ ~Live("log") /\ Live("log")' => data = "restored"]_vars

\* The credential was created but not recorded.
Wedged == ("root" \in secrets /\ ~mo.cred) \/ ("metric" \in secrets /\ mo.metric = "none")

RestoreFailed == \E r \in Restores : jobs[r].phase = "Failed"

Settled ==
  /\ mo.ready
  /\ mo.host \/ ~HostKnown
  /\ \A c \in {"log", "dn"} \cup mo.wanted : sets[c].st = "live" /\ sets[c].rev = mo.rev
  /\ Undesired = {}

\* A cluster gets the sets that its spec asks for, in the version it asks for,
\* loses the CNSets of groups it no longer asks for, and reports Ready,
\* whatever fails on the way; unless its restore fails or a credential that
\* was created could not be recorded.
ClusterSettles ==
  mo.st = "live" ~> Settled \/ mo.st # "live" \/ mo.skip \/ RestoreFailed \/ Wedged

\* Of a cluster that is deleted nothing is left, the sets its Finalize does
\* not wait for included; no order of the set controllers, the RestoreJob and
\* the garbage collector keeps it.
DeletedClusterGoes ==
  mo.st = "deleting" ~>
    mo.st = "gone" /\ secrets = {} /\ (\A c \in Sets : ~Live(c)) /\ \A r \in Restores : jobs[r].st = "none"

\* A job whose command was started ends, is collected with its Kubernetes job,
\* and does not wait for an answer forever.
JobsEnd == \A j \in Jobs : jobs[j].phase = "Running" ~> jobs[j].st = "none" /\ kjobs[j] = "none"
=============================================================================
