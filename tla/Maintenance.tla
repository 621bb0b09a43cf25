----------------------------- MODULE Maintenance ------------------------------
(***************************************************************************)
(* The jobs operators run beside a server that goes on working: the        *)
(* rotation of its log (tools/ops/rotate_fastapi_log.py) and the backup of *)
(* its database (backup_chat_db.py, exercise_recovery_drill.py).  Each may *)
(* be killed at any step.                                                  *)
(***************************************************************************)
EXTENDS Naturals, Sequences

CONSTANTS
  MaxLines,     \* lines the server writes
  MaxCommits,   \* transactions the server commits
  KeepFiles,    \* archives and backups that are kept
  MaxDeaths     \* jobs that are killed

ASSUME MaintenanceAssumption ==
  /\ MaxLines \in Nat /\ MaxCommits \in Nat /\ MaxDeaths \in Nat
  /\ KeepFiles \in Nat \ {0}

VARIABLES
  job,        \* the point the job that runs is at
  deaths,     \* how many jobs were killed
  log,        \* the lines of fastapi.log
  appended,   \* how many lines were appended
  archives,   \* what each archive has, by age
  lost,       \* history: lines a rotation truncated that it had not copied
  commits,    \* the state of the database, as the number of its commits
  backups,    \* the state each backup has, 0 when it was cut short, by age
  kept        \* the state the last finished backup has

logVars == <<log, appended, archives, lost>>
backupVars == <<commits, backups, kept>>
maintenanceVars == <<job, deaths, logVars, backupVars>>

Then(next) == job' = next /\ UNCHANGED deaths

(* prune_old_archives and prune_old_backups: the newest files stay.          *)
PruneOld(files) == SubSeq(files, IF Len(files) > KeepFiles THEN Len(files) - KeepFiles + 1 ELSE 1,
                          Len(files))
PruneNew(files) == SubSeq(files, 1, IF Len(files) > KeepFiles THEN KeepFiles ELSE Len(files))

(***************************************************************************)
(* The log.  The server appends; the rotation copies and then truncates.   *)
(***************************************************************************)
WriteLine ==
    /\ appended < MaxLines
    /\ appended' = appended + 1 /\ log' = log \union {appended'}
    /\ UNCHANGED <<job, deaths, archives, lost, backupVars>>

BeginRotation ==
    /\ job = "none" /\ log # {}
    /\ Then("copy_log")
    /\ UNCHANGED <<logVars, backupVars>>

\* Mutation: the log is truncated before it is copied.
TruncateFirst ==
    /\ job = "copy_log"
    /\ log' = {} /\ archives' = Append(archives, log')
    /\ Then("truncate")
    /\ UNCHANGED <<appended, lost, backupVars>>

CopyLog ==
    /\ job = "copy_log"
    /\ archives' = Append(archives, log)
    /\ Then("truncate")
    /\ UNCHANGED <<log, appended, lost, backupVars>>

(* The file is emptied of all it has by now.                               *)
TruncateLog ==
    /\ job = "truncate"
    /\ log' = {}
    /\ lost' = lost \union (log \ archives[Len(archives)])
    /\ Then("prune_log")
    /\ UNCHANGED <<appended, archives, backupVars>>

PruneOldArchives ==
    /\ job = "prune_log"
    /\ archives' = PruneOld(archives)
    /\ Then("none")
    /\ UNCHANGED <<log, appended, lost, backupVars>>

(***************************************************************************)
(* The database.  A backup is a file from the moment it is opened, and has *)
(* the state of one moment when it is whole.                               *)
(***************************************************************************)
CommitTransaction ==
    /\ commits < MaxCommits
    /\ commits' = commits + 1
    /\ UNCHANGED <<job, deaths, backups, kept, logVars>>

OpenBackup ==
    /\ job = "none" /\ commits > 0
    /\ backups' = Append(backups, 0)
    /\ Then("copy_db")
    /\ UNCHANGED <<commits, kept, logVars>>

CopyDatabase ==
    /\ job = "copy_db"
    /\ backups' = [backups EXCEPT ![Len(backups)] = commits]
    /\ kept' = commits
    /\ Then("prune_db")
    /\ UNCHANGED <<commits, logVars>>

PruneNewBackups ==
    /\ job = "prune_db"
    /\ backups' = PruneNew(backups)
    /\ Then("none")
    /\ UNCHANGED <<commits, kept, logVars>>

PruneOldBackups ==
    /\ job = "prune_db"
    /\ backups' = PruneOld(backups)
    /\ Then("none")
    /\ UNCHANGED <<commits, kept, logVars>>

(***************************************************************************)
(* The job is killed.  A copy that was under way is cut short; a           *)
(* transaction is rolled back.                                             *)
(***************************************************************************)
JobDies ==
    /\ job # "none" /\ deaths < MaxDeaths
    /\ job' = "none" /\ deaths' = deaths + 1
    /\ archives' \in {archives} \union
         (IF job = "copy_log" THEN {Append(archives, part) : part \in SUBSET log} ELSE {})
    /\ UNCHANGED <<log, appended, lost, backupVars>>

RotationStep ==
    WriteLine \/ BeginRotation \/ CopyLog \/ TruncateLog \/ PruneOldArchives \/ JobDies

BackupStep == CommitTransaction \/ OpenBackup \/ CopyDatabase \/ PruneOldBackups \/ JobDies

MaintenanceInit ==
    /\ job = "none" /\ deaths = 0
    /\ log = {} /\ appended = 0 /\ archives = <<>> /\ lost = {}
    /\ commits = 0 /\ backups = <<>> /\ kept = 0

(***************************************************************************)
(* WhatIsTruncatedIsArchived.  rotate_fastapi_log.py:75 says "Copy         *)
(* oversized log to archive and truncate the original": a line is          *)
(* truncated only after it was copied.  What the server writes between the *)
(* two is not.                                                             *)
(***************************************************************************)
WhatIsTruncatedIsArchived == lost = {}
=============================================================================
