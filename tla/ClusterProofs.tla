---------------------------- MODULE ClusterProofs ----------------------------
(***************************************************************************)
(* The command of a backup or of a restore runs once, and the sets of a    *)
(* cluster that is restored are made only when it is, for any jobs, groups *)
(* and scenarios.  What has to be known besides is how the status of a job *)
(* and its Kubernetes job can differ between two calls.                    *)
(***************************************************************************)
EXTENDS Cluster, TLAPS

(* A job that has not recorded its start has started its command only if the
   Kubernetes job is still there; one that records an outcome does not look
   again. *)
JobOK(j) ==
  /\ jobs[j].runs <= 1
  /\ kjobs[j] # "none" => jobs[j].runs = 1
  /\ jobs[j].st = "none" => jobs[j].runs = 0
  /\ jobs[j].st = "live" /\ jobs[j].phase = "Pending" /\ jobs[j].runs = 1 => kjobs[j] # "none"
  /\ jobs[j].phase \in {"Running", "Completed"} => jobs[j].runs = 1
  /\ jobs[j].phase \in {"Completed", "Failed"} => jobs[j].ended
  /\ jobs[j].phase = "Completed" /\ j \in Backups => j \in backups

JobInv == JobsTypeOK /\ \A j \in Jobs : JobOK(j)

(* A step about one job leaves the others as they are. *)
LEMMA OneJob ==
  ASSUME JobInv, NEW j \in Jobs,
         jobs' \in [Jobs -> JobObj], kjobs' \in [Jobs -> Commands], unseen' \subseteq Jobs,
         backups' \subseteq Backups, backups \subseteq backups',
         data' \in {"empty", "partial", "restored"},
         \A k \in Jobs \ {j} : jobs'[k] = jobs[k] /\ kjobs'[k] = kjobs[k],
         JobOK(j)'
  PROVE  JobInv'
  <1>1. ASSUME NEW k \in Jobs \ {j}
        PROVE  JobOK(k)'
    BY <1>1 DEF JobInv, JobOK
  <1> QED BY <1>1 DEF JobInv, JobsTypeOK

(* A call that ends before the last one has done what the calls before it do. *)
LEMMA CallsAreNumbers ==
  ASSUME NEW m \in Nat, NEW n \in Calls(m)
  PROVE  n \in Nat /\ n <= m
  BY DEF Calls

LEMMA EnsureJobOnce ==
  ASSUME JobInv, NEW j \in Jobs, jobs[j].st = "live", jobs[j].phase = "Pending", EnsureJob(j),
         data' \in {"empty", "partial", "restored"}
  PROVE  JobInv'
  <1> USE DEF JobInv, JobsTypeOK
  <1>1. PICK n \in Calls(3) :
          LET new == n >= 1 /\ kjobs[j] = "none" IN
          /\ jobs[j].runs < MaxRuns \/ ~new
          /\ kjobs' = IF new THEN buildJob(j) ELSE kjobs
          /\ unseen' = IF new /\ May("lag") THEN unseen \cup {j} ELSE unseen
          /\ jobs' = [jobs EXCEPT ![j].runs = IF new THEN @ + 1 ELSE @,
                                  ![j].svc = @ \/ n >= 2,
                                  ![j].phase = IF n = 3 THEN "Running" ELSE @]
          /\ UNCHANGED backups
    BY DEF EnsureJob
  <1>2. n \in Nat /\ n <= 3
    BY CallsAreNumbers
  <1>3. JobOK(j) /\ jobs[j] \in JobObj /\ kjobs[j] \in Commands
    OBVIOUS
  <1>4. CASE n >= 1 /\ kjobs[j] = "none"
    <2>1. jobs[j].runs = 0 /\ jobs[j].runs + 1 = 1 /\ 1 \in 0 .. MaxRuns
      <3>1. jobs[j].runs \in Nat /\ MaxRuns \in Nat
        BY <1>3, BackupJobsAssumption DEF JobObj
      <3>2. jobs[j].runs <= 1 /\ jobs[j].runs # 1
        BY <1>3, <1>4 DEF JobOK
      <3>3. jobs[j].runs < MaxRuns
        BY <1>1, <1>4
      <3> QED BY <3>1, <3>2, <3>3
    <2>2. jobs' \in [Jobs -> JobObj] /\ jobs'[j].runs = 1 /\ jobs'[j].st = "live"
          /\ jobs'[j].phase \in {"Pending", "Running"}
      <3> DEFINE r == [jobs[j] EXCEPT !.runs = 1, !.svc = @ \/ n >= 2,
                                      !.phase = IF n = 3 THEN "Running" ELSE @]
      <3>1. jobs' = [jobs EXCEPT ![j] = r]
        BY <1>1, <1>3, <1>4, <2>1
      <3>2. r \in JobObj /\ r.runs = 1 /\ r.st = "live" /\ r.phase \in {"Pending", "Running"}
        BY <1>3, <2>1 DEF JobObj
      <3> HIDE DEF r
      <3> QED BY <3>1, <3>2
    <2>3. kjobs' \in [Jobs -> Commands] /\ kjobs'[j] = "running"
      BY <1>1, <1>4 DEF buildJob, Commands
    <2>4. JobOK(j)'
      BY <2>2, <2>3 DEF JobOK
    <2>5. \A k \in Jobs \ {j} : jobs'[k] = jobs[k] /\ kjobs'[k] = kjobs[k]
      BY <1>1, <1>4 DEF buildJob
    <2> QED BY <1>1, <2>2, <2>3, <2>4, <2>5, OneJob
  <1>5. CASE ~(n >= 1 /\ kjobs[j] = "none")
    <2>1. jobs' \in [Jobs -> JobObj] /\ jobs'[j].runs = jobs[j].runs /\ jobs'[j].st = "live"
          /\ jobs'[j].phase = IF n = 3 THEN "Running" ELSE "Pending"
      BY <1>1, <1>2, <1>3, <1>5 DEF JobObj
    <2>2. kjobs' = kjobs
      BY <1>1, <1>5
    <2>3. JobOK(j)'
      BY <1>1, <1>3, <1>5, <2>1, <2>2 DEF JobOK
    <2>4. \A k \in Jobs \ {j} : jobs'[k] = jobs[k] /\ kjobs'[k] = kjobs[k]
      BY <1>1, <2>2
    <2> QED BY <1>1, <1>5, <2>1, <2>2, <2>3, <2>4, OneJob
  <1> QED BY <1>4, <1>5

(* What becomes of a job whose command was started. *)
LEMMA OutcomeOnce ==
  ASSUME JobInv, NEW j \in Jobs, jobs[j].phase = "Running", jobs[j].st = "live",
         \/ failBackup(j)
         \/ j \in Backups /\ completeBackup(j)
         \/ j \in Restores /\ successRestore(j)
  PROVE  JobInv'
  <1> USE DEF JobInv, JobsTypeOK
  <1>1. JobOK(j) /\ jobs[j] \in JobObj
    OBVIOUS
  <1>2. ASSUME NEW x \in {"Failed", "Completed"}
        PROVE  /\ SetJob(j, x) \in [Jobs -> JobObj]
               /\ SetJob(j, x)[j].phase = x /\ SetJob(j, x)[j].ended
               /\ SetJob(j, x)[j].runs = jobs[j].runs /\ SetJob(j, x)[j].st = jobs[j].st
               /\ \A k \in Jobs \ {j} : SetJob(j, x)[k] = jobs[k]
    BY <1>1 DEF SetJob, JobObj
  <1>3. CASE failBackup(j)
    <2>1. jobs' = SetJob(j, "Failed") \/ jobs' = jobs
      BY <1>3 DEF failBackup
    <2>2. UNCHANGED <<kjobs, unseen, backups, data>>
      BY <1>3 DEF failBackup
    <2>3. JobOK(j)'
      BY <1>1, <1>2, <2>1, <2>2 DEF JobOK
    <2> QED BY <1>2, <2>1, <2>2, <2>3, OneJob
  <1>4. CASE j \in Backups /\ completeBackup(j)
    <2>1. PICK n \in Calls(3) :
            /\ backups' = IF n >= 1 THEN backups \cup {j} ELSE backups
            /\ kjobs' = IF n >= 2 THEN [kjobs EXCEPT ![j] = "none"] ELSE kjobs
            /\ jobs' = IF n = 3 THEN SetJob(j, "Completed") ELSE jobs
            /\ UNCHANGED <<unseen, data>>
      BY <1>4 DEF completeBackup
    <2>2. n \in Nat
      BY CallsAreNumbers
    <2>3. kjobs' \in [Jobs -> Commands] /\ (kjobs'[j] = "none" \/ kjobs' = kjobs)
      BY <2>1 DEF Commands
    <2>4. JobOK(j)'
      <3>1. CASE n = 3
        BY <1>1, <1>2, <1>4, <2>1, <2>3, <3>1 DEF JobOK
      <3>2. CASE n # 3
        BY <1>1, <2>1, <2>3, <3>2 DEF JobOK
      <3> QED BY <3>1, <3>2
    <2>5. jobs' \in [Jobs -> JobObj] /\ \A k \in Jobs \ {j} : jobs'[k] = jobs[k] /\ kjobs'[k] = kjobs[k]
      BY <1>2, <2>1
    <2>6. backups' \subseteq Backups /\ backups \subseteq backups'
      BY <1>4, <2>1
    <2> QED BY <2>1, <2>3, <2>4, <2>5, <2>6, OneJob
  <1>5. CASE j \in Restores /\ successRestore(j)
    <2>1. PICK n \in Calls(2) :
            /\ kjobs' = IF n >= 1 THEN [kjobs EXCEPT ![j] = "none"] ELSE kjobs
            /\ jobs' = IF n = 2 THEN SetJob(j, "Completed") ELSE jobs
            /\ UNCHANGED <<unseen, backups, data>>
      BY <1>5 DEF successRestore
    <2>2. kjobs' \in [Jobs -> Commands] /\ (kjobs'[j] = "none" \/ kjobs' = kjobs)
      BY <2>1 DEF Commands
    <2>3. j \notin Backups
      BY <1>5, BackupJobsAssumption
    <2>4. JobOK(j)'
      BY <1>1, <1>2, <2>1, <2>2, <2>3 DEF JobOK
    <2>5. jobs' \in [Jobs -> JobObj] /\ \A k \in Jobs \ {j} : jobs'[k] = jobs[k] /\ kjobs'[k] = kjobs[k]
      BY <1>2, <2>1
    <2> QED BY <2>1, <2>2, <2>4, <2>5, OneJob
  <1> QED BY <1>3, <1>4, <1>5

LEMMA ObserveOnce ==
  ASSUME JobInv, NEW j \in Jobs, NEW ready,
         \/ j \in Backups /\ ObserveBackup(j, ready)
         \/ j \in Restores /\ ObserveRestore(j, ready)
  PROVE  JobInv'
  <1>1. JobOK(j) /\ jobs[j] \in JobObj /\ data \in {"empty", "partial", "restored"}
    BY DEF JobInv, JobsTypeOK
  <1>2. jobs[j].st = "live" /\ ~jobs[j].ended
    BY DEF ObserveBackup, ObserveRestore
  <1>3. jobs[j].phase \in {"Pending", "Running"}
    BY <1>1, <1>2 DEF JobOK, JobObj
  <1>4. CASE jobs[j].phase = "Running"
    BY <1>2, <1>4, OutcomeOnce
       DEF ObserveBackup, ObserveRestore, waitBackup, waitRestore, OwnedBackups, failRestore
  <1>5. CASE jobs[j].phase = "Pending"
    <2>1. EnsureJob(j) /\ data' \in {"empty", "partial", "restored"}
      BY <1>1, <1>5 DEF ObserveBackup, ObserveRestore, syncBackup, syncRestore
    <2> QED BY <1>2, <1>5, <2>1, EnsureJobOnce
  <1> QED BY <1>3, <1>4, <1>5

(* The end of a job, and what Kubernetes does. *)
LEMMA JobStepOnce ==
  ASSUME JobInv, NEW j \in Jobs, JobStep(j)
  PROVE  JobInv'
  <1> USE DEF JobInv, JobsTypeOK
  <1>1. JobOK(j) /\ jobs[j] \in JobObj /\ kjobs[j] \in Commands
    OBVIOUS
  <1>2. CASE (j \in Backups /\ ObserveBackup(j, SourceReady(j))) \/ (j \in Restores /\ ObserveRestore(j, SourceReady(j)))
    BY <1>2, ObserveOnce
  <1>3. CASE FinalizeJob(j)
    <2>1. /\ jobs[j].st = "deleting" /\ UNCHANGED <<backups, data>>
          /\ kjobs' \in [Jobs -> Commands] /\ kjobs'[j] = "none" /\ unseen' \subseteq Jobs
          /\ jobs' = jobs \/ jobs' = [jobs EXCEPT ![j] = NoJob]
          /\ \A k \in Jobs \ {j} : jobs'[k] = jobs[k] /\ kjobs'[k] = kjobs[k]
      BY <1>1, <1>3 DEF FinalizeJob, Commands
    <2>2. NoJob \in JobObj
      BY BackupJobsAssumption DEF NoJob, JobObj
    <2>3. jobs' \in [Jobs -> JobObj]
      BY <2>1, <2>2
    <2>4. JobOK(j)'
      BY <1>1, <2>1 DEF JobOK, NoJob
    <2> QED BY <2>1, <2>3, <2>4, OneJob
  <1>4. CASE CommandEnds(j)
    <2>1. /\ kjobs[j] = "running" /\ UNCHANGED <<jobs, unseen, backups>>
          /\ data' \in {"empty", "partial", "restored"}
          /\ kjobs' \in [Jobs -> Commands] /\ kjobs'[j] # "none"
          /\ \A k \in Jobs \ {j} : kjobs'[k] = kjobs[k]
      BY <1>4 DEF CommandEnds, Commands
    <2>2. JobOK(j)'
      BY <1>1, <2>1 DEF JobOK
    <2> QED BY <2>1, <2>2, OneJob
  <1>5. CASE DeliverJob(j)
    BY <1>5 DEF DeliverJob, JobOK
  <1>6. CASE GC(j)
    <2>1. /\ jobs' = [jobs EXCEPT ![j].st = "deleting"] /\ jobs[j].st = "live"
          /\ UNCHANGED <<kjobs, unseen, backups, data>>
      BY <1>6 DEF GC
    <2>2. jobs' \in [Jobs -> JobObj] /\ jobs'[j].st = "deleting"
      BY <1>1, <2>1 DEF JobObj
    <2>3. JobOK(j)'
      BY <1>1, <2>1, <2>2 DEF JobOK, JobObj
    <2>4. \A k \in Jobs \ {j} : jobs'[k] = jobs[k] /\ kjobs'[k] = kjobs[k]
      BY <2>1
    <2> QED BY <2>1, <2>2, <2>3, <2>4, OneJob
  <1> QED BY <1>2, <1>3, <1>4, <1>5, <1>6 DEF JobStep, JobSteps

(* A job is created under a name that is free. *)
LEMMA NewJobOnce ==
  ASSUME JobInv, NEW j \in Jobs, jobs[j].st = "none",
         jobs' = [jobs EXCEPT ![j] = [NoJob EXCEPT !.st = "live"]],
         UNCHANGED <<kjobs, unseen, backups, data>>
  PROVE  JobInv'
  <1> USE DEF JobInv, JobsTypeOK
  <1>1. JobOK(j) /\ kjobs[j] = "none"
    BY DEF JobOK
  <1>2. [NoJob EXCEPT !.st = "live"] \in JobObj
    <2>1. NoJob \in JobObj
      BY BackupJobsAssumption DEF NoJob, JobObj
    <2> QED BY <2>1 DEF JobObj
  <1>3. JobOK(j)'
    BY <1>1 DEF JobOK, NoJob
  <1> QED BY <1>2, <1>3, OneJob

LEMMA SameJobs ==
  ASSUME JobInv, UNCHANGED jobVars
  PROVE  JobInv'
  BY DEF JobInv, JobsTypeOK, JobOK, jobVars

LEMMA ObserveClusterOnce ==
  ASSUME JobInv, Observe
  PROVE  JobInv'
  <1>1. CASE UNCHANGED jobVars
    BY <1>1, SameJobs
  <1>2. ASSUME NEW r \in Restores, jobs[r].st = "none", Restore(r)
        PROVE  JobInv'
    <2>1. /\ jobs' = [jobs EXCEPT ![r] = [NoJob EXCEPT !.st = "live"]] \/ jobs' = jobs
          /\ UNCHANGED <<kjobs, unseen, backups, data>>
      BY <1>2 DEF Restore
    <2> QED BY <1>2, <2>1, NewJobOnce, SameJobs DEF Jobs, jobVars
  <1>3. ASSUME NEW r \in Restores, jobs[r].st # "none", Restore(r)
        PROVE  JobInv'
    <2>1. UNCHANGED jobVars
      BY <1>3 DEF Restore, Up
    <2> QED BY <2>1, SameJobs
  <1>4. CASE ~May("restore")
    <2>1. UNCHANGED jobVars
      BY <1>4 DEF Observe, Up
    <2> QED BY <2>1, SameJobs
  <1> QED BY <1>2, <1>3, <1>4 DEF Observe

LEMMA CollectOnce ==
  ASSUME JobInv, Collect
  PROVE  JobInv'
  <1> USE DEF JobInv, JobsTypeOK
  <1>1. /\ jobs' = [j \in Jobs |-> IF j \in Restores /\ jobs[j].st = "live"
                                   THEN [jobs[j] EXCEPT !.st = "deleting"] ELSE jobs[j]]
        /\ UNCHANGED <<kjobs, unseen, backups, data>>
    BY DEF Collect
  <1>2. ASSUME NEW j \in Jobs
        PROVE  jobs'[j] \in JobObj /\ JobOK(j)'
    <2>1. JobOK(j) /\ jobs[j] \in JobObj
      OBVIOUS
    <2>2. CASE j \in Restores /\ jobs[j].st = "live"
      <3>1. jobs'[j] = [jobs[j] EXCEPT !.st = "deleting"]
        BY <1>1, <2>2
      <3> QED BY <1>1, <2>1, <2>2, <3>1 DEF JobOK, JobObj
    <2>3. CASE ~(j \in Restores /\ jobs[j].st = "live")
      BY <1>1, <2>1, <2>3 DEF JobOK
    <2> QED BY <2>2, <2>3
  <1>3. jobs' \in [Jobs -> JobObj]
    BY <1>1, <1>2
  <1> QED BY <1>1, <1>2, <1>3

LEMMA JobsInductive == JobInv /\ [Next]_vars => JobInv'
  <1> SUFFICES ASSUME JobInv, [Next]_vars PROVE JobInv'
    OBVIOUS
  <1>1. CASE Observe
    BY <1>1, ObserveClusterOnce
  <1>2. CASE Collect
    BY <1>2, CollectOnce
  <1>3. ASSUME NEW j \in Jobs, JobStep(j)
        PROVE  JobInv'
    BY <1>3, JobStepOnce
  <1>4. ASSUME NEW b \in Backups, CreateBackupJob(b)
        PROVE  JobInv'
    BY <1>4, NewJobOnce DEF CreateBackupJob, Jobs
  <1>5. CASE Finalize \/ ChangeSpec \/ SkipSync \/ DeleteCluster
    <2>1. UNCHANGED jobVars
      BY <1>5 DEF Finalize, ChangeSpec, SkipSync, DeleteCluster
    <2> QED BY <2>1, SameJobs
  <1>6. ASSUME NEW c \in Sets, SetReconcile(c) \/ LosePods(c)
        PROVE  JobInv'
    <2>1. UNCHANGED jobVars
      BY <1>6 DEF SetReconcile, LosePods
    <2> QED BY <2>1, SameJobs
  <1>7. CASE UNCHANGED vars
    <2>1. UNCHANGED jobVars
      BY <1>7 DEF vars, jobVars
    <2> QED BY <2>1, SameJobs
  <1> QED BY <1>1, <1>2, <1>3, <1>4, <1>5, <1>6, <1>7 DEF Next, ClusterSteps, Users

LEMMA InitJobs == Init => JobInv
  <1> SUFFICES ASSUME Init PROVE JobInv
    OBVIOUS
  <1>1. NoJob \in JobObj
    BY BackupJobsAssumption DEF NoJob, JobObj
  <1>2. JobsTypeOK
    BY <1>1 DEF Init, JobsTypeOK, Commands
  <1>3. ASSUME NEW j \in Jobs
        PROVE  JobOK(j)
    BY <1>3 DEF Init, JobOK, NoJob
  <1> QED BY <1>2, <1>3 DEF JobInv

(* The command of a backup or restore is started at most once in the life of its
   job, whatever fails between the creation of the Kubernetes job, its deletion and
   the status updates around them, and a job that reports Completed has run its
   command and left its Backup (src/pkg/controllers/br/backup_controller.go:165). *)
THEOREM CommandsRunOnce == Spec => []CommandRunsOnce
  <1>1. JobInv => CommandRunsOnce
    BY DEF JobInv, JobOK, CommandRunsOnce
  <1> QED BY <1>1, InitJobs, JobsInductive, PTL DEF Spec

-----------------------------------------------------------------------------
(* The restore and the launch *)

(* A restore whose success is known, to its command or to its RestoreJob, has
   filled the storage. *)
RestoreKnown == \A r \in Restores : kjobs[r] = "done" \/ jobs[r].phase = "Completed" => data = "restored"

RestoreInv == JobInv /\ RestoreKnown /\ DOMAIN sets = Sets

LEMMA SetsStay ==
  ASSUME RestoreInv, [Next]_vars
  PROVE  DOMAIN sets' = Sets
  <1> USE DEF RestoreInv
  <1>1. CASE Observe
    BY <1>1 DEF Observe, Restore, Up, SyncAll, SyncSets, clusterVars
  <1>2. CASE Collect \/ Finalize
    BY <1>2 DEF Collect, Finalize
  <1>3. ASSUME NEW c \in Sets, SetReconcile(c) \/ LosePods(c)
        PROVE  DOMAIN sets' = Sets
    BY <1>3 DEF SetReconcile, LosePods
  <1>4. CASE UNCHANGED sets
    BY <1>4
  <1> QED BY <1>1, <1>2, <1>3, <1>4
          DEF Next, ClusterSteps, Users, JobStep, ChangeSpec, SkipSync, DeleteCluster, CreateBackupJob,
              clusterVars, vars

(* A look at the RestoreJob: the storage is overwritten only while no success is
   known, and Completed is recorded only of a command that is done. *)
LEMMA ObserveRestoreKnown ==
  ASSUME JobInv, RestoreKnown, NEW j \in Restores, NEW ready, ObserveRestore(j, ready)
  PROVE  RestoreKnown'
  <1>1. j \in Jobs /\ Restores = {j}
    BY ClusterAssumption DEF Jobs
  <1>2. SUFFICES kjobs'[j] = "done" \/ jobs'[j].phase = "Completed" => data' = "restored"
    BY <1>1 DEF RestoreKnown
  <1>3. JobOK(j) /\ jobs[j] \in JobObj /\ jobs \in [Jobs -> JobObj] /\ kjobs \in [Jobs -> Commands]
    BY <1>1 DEF JobInv, JobsTypeOK
  <1>4. kjobs[j] = "done" \/ jobs[j].phase = "Completed" => data = "restored"
    BY DEF RestoreKnown
  <1>5. jobs[j].st = "live" /\ ~jobs[j].ended
    BY DEF ObserveRestore
  <1>6. jobs[j].phase \in {"Pending", "Running"}
    BY <1>3, <1>5 DEF JobOK, JobObj
  <1>7. ASSUME NEW x \in {"Failed", "Completed"}
        PROVE  SetJob(j, x)[j].phase = x
    BY <1>1, <1>3 DEF SetJob, JobObj
  <1>8. CASE jobs[j].phase = "Running"
    <2>1. waitRestore(j)
      BY <1>8 DEF ObserveRestore
    <2>2. CASE failBackup(j)
      BY <1>4, <1>7, <2>2, <1>8 DEF failBackup
    <2>3. CASE kjobs[j] = "done" /\ successRestore(j)
      BY <1>4, <2>3 DEF successRestore
    <2> QED BY <2>1, <2>2, <2>3 DEF waitRestore, failRestore
  <1>9. CASE jobs[j].phase = "Pending"
    <2>1. EnsureJob(j) /\ data' = IF kjobs' = kjobs THEN data ELSE "partial"
      BY <1>9 DEF ObserveRestore, syncRestore
    <2>2. /\ kjobs' = [kjobs EXCEPT ![j] = "running"] \/ kjobs' = kjobs
          /\ jobs'[j].phase \in {"Pending", "Running"}
      <3>1. PICK n \in Calls(3) :
              LET new == n >= 1 /\ kjobs[j] = "none" IN
              /\ kjobs' = IF new THEN buildJob(j) ELSE kjobs
              /\ jobs' = [jobs EXCEPT ![j].runs = IF new THEN @ + 1 ELSE @,
                                      ![j].svc = @ \/ n >= 2,
                                      ![j].phase = IF n = 3 THEN "Running" ELSE @]
        BY <2>1 DEF EnsureJob
      <3> DEFINE r == [jobs[j] EXCEPT !.runs = IF n >= 1 /\ kjobs[j] = "none" THEN @ + 1 ELSE @,
                                      !.svc = @ \/ n >= 2,
                                      !.phase = IF n = 3 THEN "Running" ELSE @]
      <3>2. jobs'[j] = r
        BY <1>1, <1>3, <3>1
      <3>3. r.phase \in {"Pending", "Running"}
        BY <1>3, <1>9 DEF JobObj
      <3> QED BY <3>1, <3>2, <3>3 DEF buildJob
    <2>3. CASE kjobs' = kjobs
      BY <1>4, <2>1, <2>2, <2>3
    <2>4. CASE kjobs' = [kjobs EXCEPT ![j] = "running"]
      BY <1>1, <1>3, <2>2, <2>4
    <2> QED BY <2>2, <2>3, <2>4
  <1> QED BY <1>6, <1>8, <1>9

LEMMA JobStepKnown ==
  ASSUME JobInv, RestoreKnown, NEW j \in Jobs, JobStep(j)
  PROVE  RestoreKnown'
  <1>1. jobs \in [Jobs -> JobObj] /\ kjobs \in [Jobs -> Commands] /\ Restores \subseteq Jobs
    BY DEF JobInv, JobsTypeOK, Jobs
  <1>2. CASE j \in Restores /\ ObserveRestore(j, SourceReady(j))
    BY <1>2, ObserveRestoreKnown
  <1>3. CASE j \in Backups /\ ObserveBackup(j, SourceReady(j))
    <2>1. j \notin Restores
      BY <1>3, BackupJobsAssumption
    <2>2. data' = data
      BY <1>3 DEF ObserveBackup, waitBackup, syncBackup, failBackup, completeBackup
    <2>3. \A r \in Restores : jobs'[r] = jobs[r] /\ kjobs'[r] = kjobs[r]
      BY <1>1, <1>3, <2>1
         DEF ObserveBackup, waitBackup, syncBackup, failBackup, completeBackup, EnsureJob, buildJob, SetJob
    <2> QED BY <2>2, <2>3 DEF RestoreKnown
  <1>4. CASE FinalizeJob(j)
    <2>1. data' = data
      BY <1>4 DEF FinalizeJob
    <2>2. \A r \in Restores : kjobs'[r] = kjobs[r] \/ kjobs'[r] = "none"
      BY <1>1, <1>4 DEF FinalizeJob
    <2>3. \A r \in Restores : jobs'[r] = jobs[r] \/ jobs'[r].phase = "Pending"
      BY <1>1, <1>4 DEF FinalizeJob, NoJob
    <2> QED BY <2>1, <2>2, <2>3 DEF RestoreKnown
  <1>5. CASE CommandEnds(j)
    <2>1. PICK end \in {"done", "bad", "dead"} :
            /\ kjobs' = [kjobs EXCEPT ![j] = end]
            /\ data' = IF j \in Restores /\ end = "done" THEN "restored" ELSE data
      BY <1>5 DEF CommandEnds
    <2>2. jobs' = jobs
      BY <1>5 DEF CommandEnds
    <2>3. ASSUME NEW r \in Restores, kjobs'[r] = "done" \/ jobs'[r].phase = "Completed"
          PROVE  data' = "restored"
      BY <1>1, <2>1, <2>2, <2>3 DEF RestoreKnown
    <2> QED BY <2>3 DEF RestoreKnown
  <1>6. CASE DeliverJob(j)
    BY <1>6 DEF DeliverJob, RestoreKnown
  <1>7. CASE GC(j)
    <2>1. UNCHANGED <<kjobs, data>> /\ jobs' = [jobs EXCEPT ![j].st = "deleting"]
      BY <1>7 DEF GC
    <2>2. \A r \in Restores : jobs'[r].phase = jobs[r].phase
      BY <1>1, <2>1 DEF JobObj
    <2> QED BY <2>1, <2>2 DEF RestoreKnown
  <1> QED BY <1>2, <1>3, <1>4, <1>5, <1>6, <1>7 DEF JobStep, JobSteps

LEMMA RestoreInductive == RestoreInv /\ [Next]_vars => RestoreInv'
  <1> SUFFICES ASSUME RestoreInv, [Next]_vars PROVE RestoreInv'
    OBVIOUS
  <1>1. SUFFICES RestoreKnown'
    BY JobsInductive, SetsStay DEF RestoreInv
  <1>2. jobs \in [Jobs -> JobObj] /\ Restores \subseteq Jobs
    BY DEF RestoreInv, JobInv, JobsTypeOK, Jobs
  <1>3. ASSUME UNCHANGED <<kjobs, data>>,
               \A r \in Restores : jobs'[r].phase \in {jobs[r].phase, "Pending"}
        PROVE  RestoreKnown'
    BY <1>3 DEF RestoreInv, RestoreKnown
  <1>4. ASSUME NEW j \in Jobs, JobStep(j)
        PROVE  RestoreKnown'
    BY <1>4, JobStepKnown DEF RestoreInv
  <1>5. CASE UNCHANGED jobVars
    BY <1>3, <1>5 DEF jobVars
  <1>6. CASE Observe /\ ~UNCHANGED jobVars
    <2>1. PICK r \in Restores : jobs' = [jobs EXCEPT ![r] = [NoJob EXCEPT !.st = "live"]]
                                \/ jobs' = jobs
      BY <1>6 DEF Observe, Restore, Up
    <2>2. UNCHANGED <<kjobs, data>>
      BY <1>6 DEF Observe, Restore, Up, jobVars
    <2>3. \A s \in Restores : jobs'[s].phase \in {jobs[s].phase, "Pending"}
      BY <1>2, <2>1 DEF NoJob
    <2> QED BY <1>3, <2>2, <2>3
  <1>7. CASE Collect
    <2>1. \A r \in Restores : jobs'[r].phase = jobs[r].phase
      BY <1>2, <1>7 DEF Collect, JobObj
    <2> QED BY <1>3, <1>7, <2>1 DEF Collect
  <1>8. ASSUME NEW b \in Backups, CreateBackupJob(b)
        PROVE  RestoreKnown'
    <2>1. \A r \in Restores : jobs'[r].phase \in {jobs[r].phase, "Pending"}
      BY <1>2, <1>8 DEF CreateBackupJob, NoJob
    <2> QED BY <1>3, <1>8, <2>1 DEF CreateBackupJob
  <1>9. CASE Finalize \/ ChangeSpec \/ SkipSync \/ DeleteCluster \/ UNCHANGED vars
    BY <1>5, <1>9 DEF Finalize, ChangeSpec, SkipSync, DeleteCluster, vars, jobVars
  <1>10. ASSUME NEW c \in Sets, SetReconcile(c) \/ LosePods(c)
         PROVE  RestoreKnown'
    BY <1>5, <1>10 DEF SetReconcile, LosePods
  <1> QED BY <1>4, <1>5, <1>6, <1>7, <1>8, <1>9, <1>10
          DEF Next, ClusterSteps, Users

(* The LogSet comes into being only when the cluster is launched, and a cluster
   with restoreFrom is launched only when its RestoreJob is Completed. *)
LEMMA LaunchStep ==
  ASSUME RestoreInv, [Next]_vars, May("restore"), ~Live("log"), Live("log")'
  PROVE  data = "restored"
  <1>1. "log" \in Sets /\ DOMAIN sets = Sets /\ sets["log"].st = "none" /\ sets'["log"].st # "none"
    BY DEF Sets, Live, RestoreInv
  <1>2. CASE Observe
    <2>1. PICK r \in Restores : Restore(r)
      BY <1>2 DEF Observe
    <2>2. jobs[r].phase = "Completed"
      BY <1>1, <2>1 DEF Restore, clusterVars
    <2> QED BY <2>2 DEF RestoreInv, RestoreKnown
  <1>3. CASE Finalize
    BY <1>1, <1>3 DEF Finalize, Live
  <1>4. CASE Collect
    BY <1>1, <1>4 DEF Collect, OwnedRest
  <1>5. ASSUME NEW c \in Sets, SetReconcile(c) \/ LosePods(c)
        PROVE  FALSE
    <2>1. c # "log"
      BY <1>1, <1>5 DEF SetReconcile, LosePods
    <2> QED BY <1>1, <1>5, <2>1 DEF SetReconcile, LosePods
  <1>6. CASE UNCHANGED sets
    BY <1>1, <1>6
  <1> QED BY <1>2, <1>3, <1>4, <1>5, <1>6
          DEF Next, ClusterSteps, Users, JobStep, ChangeSpec, SkipSync, DeleteCluster, CreateBackupJob,
              clusterVars, vars

(* The sets of a cluster with restoreFrom are created only after the restore has
   succeeded: no store starts on storage that is empty or half restored, whatever
   fails and however often the RestoreJob is collected and made anew
   (src/pkg/controllers/mocluster/controller.go:69). *)
THEOREM LaunchesRestored == Spec => LaunchedRestored
  <1>1. Init => RestoreInv
    <2>1. Init => JobInv
      BY InitJobs
    <2>2. Init => RestoreKnown
      BY DEF Init, RestoreKnown, NoJob, Jobs
    <2>3. Init => DOMAIN sets = Sets
      BY DEF Init
    <2> QED BY <2>1, <2>2, <2>3 DEF RestoreInv
  <1>2. RestoreInv /\ [Next]_vars
        => [May("restore") /\ ~Live("log") /\ Live("log")' => data = "restored"]_vars
    BY LaunchStep
  <1> QED BY <1>1, <1>2, RestoreInductive, PTL DEF Spec, LaunchedRestored
=============================================================================
