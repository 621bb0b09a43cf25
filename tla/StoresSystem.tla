---------------------------- MODULE StoresSystem ------------------------------
(***************************************************************************)
(* What outlives a request, and those who look after it: the idempotency   *)
(* keys, the Postgres repositories, the scripts that deploy a release, the *)
(* jobs of the operators and the cutover to Postgres.  They share no       *)
(* state, so that a behaviour follows one of them.                         *)
(***************************************************************************)
EXTENDS Idempotency, PostgresRuntime, Releases, Maintenance, OwnerlessPurge,
        Cutover, TLC

VARIABLE part   \* what is followed

storesVars == <<part, vars, postgresVars, releaseVars, maintenanceVars, purgeVars, cutoverVars>>

StoresInit ==
    /\ part \in {"keys", "postgres", "release", "rotation", "backup", "purge", "cutover"}
    /\ Init /\ PostgresInit /\ ReleaseInit /\ MaintenanceInit /\ PurgeInit /\ CutoverInit
    /\ part # "keys" => route = "chat"
    /\ part # "postgres" => \A j \in Job : record[j] = NoRow
    /\ part # "release" => host = "nohup"

InKeys ==
    /\ part = "keys"
    /\ UNCHANGED <<part, postgresVars, releaseVars, maintenanceVars, purgeVars, cutoverVars>>
InPostgres ==
    /\ part = "postgres"
    /\ UNCHANGED <<part, vars, releaseVars, maintenanceVars, purgeVars, cutoverVars>>
InDeployment ==
    /\ part = "release"
    /\ UNCHANGED <<part, vars, postgresVars, maintenanceVars, purgeVars, cutoverVars>>
InMaintenance(p) ==
    /\ part = p
    /\ UNCHANGED <<part, vars, postgresVars, releaseVars, purgeVars, cutoverVars>>
InPurge ==
    /\ part = "purge"
    /\ UNCHANGED <<part, vars, postgresVars, releaseVars, maintenanceVars, cutoverVars>>
InCutover ==
    /\ part = "cutover"
    /\ UNCHANGED <<part, vars, postgresVars, releaseVars, maintenanceVars, purgeVars>>

StoresNext ==
    \/ InKeys /\ Next
    \/ InPostgres /\ PostgresStep
    \/ InDeployment /\ ReleaseStep
    \/ InMaintenance("rotation") /\ RotationStep
    \/ InMaintenance("backup") /\ BackupStep
    \/ InPurge /\ PurgeStep
    \/ InCutover /\ CutoverStep

StoresSpec == StoresInit /\ [][StoresNext]_storesVars

-----------------------------------------------------------------------------
(***************************************************************************)
(* What the deployment, the jobs of the operators and the cutover owe to   *)
(* the host and the data they work on, next to what Idempotency and        *)
(* PostgresRuntime say.                                                    *)
(***************************************************************************)

(***************************************************************************)
(* InstallsAreHonest.  Wherever a deployment is cut short, the tree says   *)
(* what it holds: a release manifest is there only when every entry of the *)
(* release it names is, or is missing after a removal that failed; the     *)
(* data is never touched; and as long as installs end, the previous        *)
(* manifest is the one a rollback needs (exercise_release_rollback_drill). *)
(***************************************************************************)
InstallsAreHonest ==
    /\ \A n \in Bundled : tree[Manifest] # Missing => tree[n] \in {tree[Manifest], Missing}
    /\ tree["var"] = "data"
    /\ ~Installing /\ history # <<>> => tree[Manifest] = history[Len(history)]
    /\ ~Installing /\ Len(history) = 2 => tree[Previous] = history[1]

(***************************************************************************)
(* DeploysServe.  A deployment that reports success has its own release in *)
(* service, after earlier runs that died, reboots and servers that failed, *)
(* except where a server nobody knows of keeps the port and nothing frees  *)
(* it: under systemd, or without fuser and lsof.                           *)
(***************************************************************************)
DeploysServe ==
    deploy.pc = "done" /\ server # NoServer =>
        \/ server.release = deploy.bundle
        \/ server.by = "stray" /\ host \in {"systemd", "bare"}

(***************************************************************************)
(* RotationLosesNothing.  However rotations are killed, a line of the log  *)
(* is in the log or in an archive, unless it is older than the archives    *)
(* that are kept, or a rotation truncated it without having copied it:     *)
(* that happens to what the server writes between the two                  *)
(* (WhatIsTruncatedIsArchived of Maintenance), and to no other line.       *)
(***************************************************************************)
RotationLosesNothing ==
    \A l \in 1..appended :
        \/ l \in log \union lost
        \/ \E i \in DOMAIN archives : l \in archives[i]
        \/ Len(archives) >= KeepFiles /\ \A i \in DOMAIN archives : \A k \in archives[i] : k > l

(***************************************************************************)
(* BackupsAreKept.  Once a backup was finished there is one as recent,     *)
(* whatever copies are cut short after it and however they are pruned.     *)
(***************************************************************************)
BackupsAreKept == kept # 0 => \E i \in DOMAIN backups : backups[i] >= kept

(***************************************************************************)
(* PurgesSpareOwners.  Beside turns that store and delete chats, a purge   *)
(* deletes none that has an owner, unless it got the owner since that      *)
(* purge had selected it (OnlyOwnerlessGo of OwnerlessPurge).              *)
(***************************************************************************)
PurgesSpareOwners == wronged \subseteq taken

(***************************************************************************)
(* CutoverIsSound.  A snapshot that was imported is in Postgres as a whole *)
(* or not at all, its references resolve though it was exported while the  *)
(* server wrote, and Postgres never gives a number out again that an       *)
(* imported row has (_reset_postgres_identity_column).                     *)
(***************************************************************************)
CutoverIsSound ==
    /\ ~collided
    /\ move.pc = "imported" => target = snapshot /\ Resolves(target)
    /\ move.pc \notin {"imported", "serving"} => target = Nothing

(***************************************************************************)
(* DeploymentsAreHonest.  What a deployment leaves on the host, and what   *)
(* it says of itself, is true wherever it was cut short.                   *)
(***************************************************************************)
DeploymentsAreHonest == InstallsAreHonest /\ DeploysServe

(***************************************************************************)
(* JobsLoseNothing.  The jobs of the operators keep the log, the backups   *)
(* and the chats of owners, wherever they are cut short and whatever the   *)
(* server does meanwhile.                                                  *)
(***************************************************************************)
JobsLoseNothing == RotationLosesNothing /\ BackupsAreKept /\ PurgesSpareOwners

(***************************************************************************)
(* For TLC: requests and payloads are interchangeable.  The requests and   *)
(* the connections of PostgresRuntime are the same model values, but a     *)
(* behaviour follows the ones or the others.                               *)
(***************************************************************************)
Symmetry == Permutations(Request) \cup Permutations(Payload) \cup Permutations(Session)
=============================================================================
