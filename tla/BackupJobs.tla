----------------------------- MODULE BackupJobs -----------------------------
(***************************************************************************)
(* The controllers of BackupJobs and RestoreJobs (src/pkg/controllers/br). *)
(* Each runs a command in a Kubernetes job of its own, asks the command    *)
(* for its outcome, and records the outcome in its status; a BackupJob     *)
(* that succeeds also leaves a Backup.  Jobs that have ended are collected *)
(* after a while.                                                          *)
(*                                                                         *)
(* A look at a job is one step.  With faults it may end after any of its   *)
(* calls, by an error of the call or a restart of the operator.            *)
(***************************************************************************)
EXTENDS Naturals, FiniteSets, Optional

CONSTANTS
  Backups,   \* names of BackupJobs
  Restores,  \* names of RestoreJobs
  MaxRuns,   \* bound: times the command of one job is started
  Scenarios  \* what may happen in a behaviour; here
             \*   "rpc"   calls fail and the operator restarts
             \*   "lag"   the cache may not show a Kubernetes job yet
             \*   "bad"   commands fail

ASSUME BackupJobsAssumption == Backups \cap Restores = {} /\ MaxRuns \in Nat

VARIABLES
  jobs,     \* the BackupJobs and RestoreJobs
  kjobs,    \* the Kubernetes job of each, and what has become of its command
  unseen,   \* the Kubernetes jobs that the cache does not show yet
  backups,  \* the Backups, by the job that has made them
  data,     \* the storage that is restored to
  env       \* the scenario and the number of changes so far

jobVars == <<jobs, kjobs, unseen, backups, data>>

Jobs == Backups \cup Restores

JobObj == [ st     : {"none", "live", "deleting"},
            phase  : {"Pending", "Running", "Completed", "Failed"},
            ended  : BOOLEAN,       \* condition Ended
            backup : BOOLEAN,       \* status.backup
            svc    : BOOLEAN,       \* the service of the command is there
            runs   : 0 .. MaxRuns ] \* how often the command was started

NoJob == [st |-> "none", phase |-> "Pending", ended |-> FALSE, backup |-> FALSE,
          svc |-> FALSE, runs |-> 0]

\* done, bad: the command has ended and its outcome can be asked for; dead:
\* the pod has failed.
Commands == {"none", "running", "done", "bad", "dead"}

JobsTypeOK ==
  /\ jobs \in [Jobs -> JobObj]
  /\ kjobs \in [Jobs -> Commands]
  /\ unseen \subseteq Jobs
  /\ backups \subseteq Backups
  /\ data \in {"empty", "partial", "restored"}

May(x) == x \in env.may

\* The number of calls of a look that take effect, of n.
Calls(n) == IF May("rpc") THEN 0 .. n ELSE {n}

SetJob(j, phase) ==
  [jobs EXCEPT ![j].phase = phase, ![j].ended = TRUE, ![j].backup = phase = "Completed" /\ j \in Backups]

-----------------------------------------------------------------------------
(* A look at a job *)

buildJob(j) == [kjobs EXCEPT ![j] = "running"]

\* The Kubernetes job is created unless it exists, then the service, then the
\* status is updated.
EnsureJob(j) ==
  \E n \in Calls(3) :
    LET new == n >= 1 /\ kjobs[j] = "none" IN
    /\ jobs[j].runs < MaxRuns \/ ~new
    /\ kjobs' = IF new THEN buildJob(j) ELSE kjobs
    /\ unseen' = IF new /\ May("lag") THEN unseen \cup {j} ELSE unseen
    /\ jobs' = [jobs EXCEPT ![j].runs = IF new THEN @ + 1 ELSE @,
                            ![j].svc = @ \/ n >= 2,
                            ![j].phase = IF n = 3 THEN "Running" ELSE @]
    /\ UNCHANGED backups

syncBackup(j) == EnsureJob(j) /\ UNCHANGED data

\* The command begins to overwrite the storage.
syncRestore(j) == EnsureJob(j) /\ data' = IF kjobs' = kjobs THEN data ELSE "partial"

\* The Kubernetes job is kept.
failBackup(j) ==
  /\ \E n \in Calls(1) : jobs' = IF n = 1 THEN SetJob(j, "Failed") ELSE jobs
  /\ UNCHANGED <<kjobs, unseen, backups, data>>

failRestore(j) == failBackup(j)

\* The Backup is created, the Kubernetes job is deleted, and only then the
\* status is updated.
completeBackup(j) ==
  \E n \in Calls(3) :
    /\ backups' = IF n >= 1 THEN backups \cup {j} ELSE backups
    /\ kjobs' = IF n >= 2 THEN [kjobs EXCEPT ![j] = "none"] ELSE kjobs
    /\ jobs' = IF n = 3 THEN SetJob(j, "Completed") ELSE jobs
    /\ UNCHANGED <<unseen, data>>

successRestore(j) ==
  \E n \in Calls(2) :
    /\ kjobs' = IF n >= 1 THEN [kjobs EXCEPT ![j] = "none"] ELSE kjobs
    /\ jobs' = IF n = 2 THEN SetJob(j, "Completed") ELSE jobs
    /\ UNCHANGED <<unseen, backups, data>>

\* Backups are looked up by labels that none carries, so the Backup that a
\* BackupJob has left is never found.
OwnedBackups(j) == {}

Found(j) == kjobs[j] # "none" /\ j \notin unseen

\* Mutant: a Kubernetes job that is gone is created again.
waitOrRerun(j) ==
  IF ~Found(j) THEN /\ jobs' = [jobs EXCEPT ![j].phase = "Pending"]
                    /\ UNCHANGED <<kjobs, unseen, backups, data>>
  ELSE IF kjobs[j] \in {"bad", "dead"} THEN failBackup(j)
  ELSE kjobs[j] = "done" /\ completeBackup(j)

\* A command that has not ended is asked again later.
waitBackup(j) ==
  IF OwnedBackups(j) # {} THEN completeBackup(j)
  ELSE IF ~Found(j) \/ kjobs[j] \in {"bad", "dead"} THEN failBackup(j)
  ELSE kjobs[j] = "done" /\ completeBackup(j)

waitRestore(j) ==
  IF ~Found(j) \/ kjobs[j] \in {"bad", "dead"} THEN failRestore(j)
  ELSE kjobs[j] = "done" /\ successRestore(j)

\* ready: the source of a backup, or the Backup of a restore, is there.
ObserveBackup(j, ready) ==
  /\ jobs[j].st = "live"
  /\ ~jobs[j].ended
  /\ IF jobs[j].phase = "Running" THEN waitBackup(j) ELSE ready /\ syncBackup(j)

ObserveRestore(j, ready) ==
  /\ jobs[j].st = "live"
  /\ ~jobs[j].ended
  /\ IF jobs[j].phase = "Running" THEN waitRestore(j) ELSE ready /\ syncRestore(j)

\* Mutant: jobs that have failed are kept.
GCCompleted(j) ==
  /\ jobs[j].st = "live"
  /\ jobs[j].phase = "Completed"
  /\ jobs' = [jobs EXCEPT ![j].st = "deleting"]
  /\ UNCHANGED <<kjobs, unseen, backups, data>>

\* The time to live of a job that has ended is over.
GC(j) ==
  /\ jobs[j].st = "live"
  /\ jobs[j].ended
  /\ jobs' = [jobs EXCEPT ![j].st = "deleting"]
  /\ UNCHANGED <<kjobs, unseen, backups, data>>

FinalizeJob(j) ==
  /\ jobs[j].st = "deleting"
  /\ IF kjobs[j] # "none"
     THEN kjobs' = [kjobs EXCEPT ![j] = "none"] /\ unseen' = unseen \ {j} /\ UNCHANGED jobs
     ELSE jobs' = [jobs EXCEPT ![j] = NoJob] /\ UNCHANGED <<kjobs, unseen>>
  /\ UNCHANGED <<backups, data>>

-----------------------------------------------------------------------------
(* Kubernetes and the command *)

CommandEnds(j) ==
  /\ kjobs[j] = "running"
  /\ \E end \in {"done"} \cup (IF May("bad") THEN {"bad", "dead"} ELSE {}) :
       /\ kjobs' = [kjobs EXCEPT ![j] = end]
       /\ data' = IF j \in Restores /\ end = "done" THEN "restored" ELSE data
  /\ UNCHANGED <<jobs, unseen, backups>>

DeliverJob(j) ==
  /\ j \in unseen
  /\ unseen' = unseen \ {j}
  /\ UNCHANGED <<jobs, kjobs, backups, data>>

JobSteps(j, ready) ==
  \/ j \in Backups /\ ObserveBackup(j, ready)
  \/ j \in Restores /\ ObserveRestore(j, ready)
  \/ FinalizeJob(j) \/ CommandEnds(j) \/ DeliverJob(j)

-----------------------------------------------------------------------------
(* Properties *)

\* The command of a BackupJob or RestoreJob is started at most once, whatever
\* fails between the creation of the Kubernetes job, its deletion and the
\* status updates around them; and a BackupJob that reports Completed has run
\* its command and left its Backup.
CommandRunsOnce ==
  \A j \in Jobs :
    /\ jobs[j].runs <= 1
    /\ jobs[j].phase = "Completed" => jobs[j].runs = 1 /\ (j \in Backups => j \in backups)
=============================================================================
