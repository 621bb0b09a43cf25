------------------------------- MODULE Releases -------------------------------
(***************************************************************************)
(* How a release gets on a host and into service                           *)
(* (tools/release/build_release_bundle.py, install_release_bundle.py,      *)
(* tools/ops/post_deploy_check.py and the scripts of ops/deploy): one run  *)
(* of the deploy script at a time, which may end at any of its commands    *)
(* (set -euo pipefail), and the host, which may reboot.                    *)
(***************************************************************************)
EXTENDS Naturals, Sequences

CONSTANT Version        \* releases a bundle can be built of

ASSUME VersionAssumption == "none" \notin Version

VARIABLES
  host,       \* "systemd", "nohup", "bare" (nohup without fuser or lsof), "windows"
  tree,       \* what each entry of the project directory is of
  deploy,     \* the run of the script and the point it is at
  server,     \* the process that holds the port, and who knows of it
  pidfile,    \* whether fastapi.pid exists
  unitUp,     \* whether systemd keeps the unit up
  history     \* the last two releases named, since an install was cut short

releaseVars == <<host, tree, deploy, server, pidfile, unitUp, history>>

Missing == "none"
Manifest == "release-manifest.json"
Previous == "release-manifest.previous.json"
Bundled == {"backend", "frontend/dist"}     \* what iter_bundle_files takes up
Preserved == {"var"}                        \* DEFAULT_PRESERVE_NAMES
Entries == Bundled \union Preserved \union {Manifest, Previous}

NoServer == [release |-> Missing, by |-> "nobody"]
NoDeploy == [pc |-> "idle", bundle |-> Missing, named |-> Missing, kept |-> Missing,
             todo |-> {}]

To(next) == deploy' = [deploy EXCEPT !.pc = next]
Keep == UNCHANGED <<host, unitUp, history>>

(* A bundle and a manifest are handed to the script, which puts the          *)
(* manifest that is installed aside.  They belong together, or one of them   *)
(* is of another release.                                                    *)
BeginDeploy(bundle, named) ==
    /\ deploy.pc = "idle"
    /\ deploy' = [NoDeploy EXCEPT !.pc = "validate", !.bundle = bundle, !.named = named,
                                  !.kept = tree[Manifest]]
    /\ UNCHANGED <<tree, server, pidfile>> /\ Keep

ValidateLate ==
    /\ deploy.pc = "validate"
    /\ deploy' = [deploy EXCEPT !.pc = "remove", !.todo = Entries \ Preserved]
    /\ UNCHANGED <<tree, server, pidfile>> /\ Keep

(* The digest in the manifest is that of the bundle, and its commit is the   *)
(* one that is expected.                                                     *)
ValidateReleaseArtifacts ==
    /\ deploy.pc = "validate"
    /\ \E expected \in Version :
         IF deploy.named = deploy.bundle /\ deploy.named = expected
           THEN deploy' = [deploy EXCEPT !.pc = "remove", !.todo = Entries \ Preserved]
           ELSE To("idle")
    /\ UNCHANGED <<tree, server, pidfile>> /\ Keep

(* _sync_project_tree removes what is not preserved, the manifests of the    *)
(* release included, in the order of the directory, ...                      *)
RemovePath ==
    /\ deploy.pc = "remove"
    /\ IF deploy.todo = {}
         THEN deploy' = [deploy EXCEPT !.pc = "copy", !.todo = Bundled] /\ UNCHANGED tree
         ELSE \E n \in deploy.todo :
                /\ tree' = [tree EXCEPT ![n] = Missing]
                /\ deploy' = [deploy EXCEPT !.todo = @ \ {n}]
    /\ UNCHANGED <<server, pidfile>> /\ Keep

(* ... and copies the entries of the bundle.                                 *)
CopyEntry ==
    /\ deploy.pc = "copy"
    /\ IF deploy.todo = {}
         THEN To("keep") /\ UNCHANGED tree
         ELSE \E n \in deploy.todo :
                /\ tree' = [tree EXCEPT ![n] = deploy.bundle]
                /\ deploy' = [deploy EXCEPT !.todo = @ \ {n}]
    /\ UNCHANGED <<server, pidfile>> /\ Keep

KeepWhatIsThere ==
    /\ deploy.pc = "keep"
    /\ tree' = [tree EXCEPT ![Previous] = IF tree[Manifest] = Missing THEN @ ELSE tree[Manifest]]
    /\ To("name")
    /\ UNCHANGED <<server, pidfile>> /\ Keep

KeepPreviousManifest ==
    /\ deploy.pc = "keep"
    /\ tree' = [tree EXCEPT ![Previous] = IF deploy.kept = Missing THEN @ ELSE deploy.kept]
    /\ To("name")
    /\ UNCHANGED <<server, pidfile>> /\ Keep

CopyManifest ==
    /\ deploy.pc = "name"
    /\ tree' = [tree EXCEPT ![Manifest] = deploy.named]
    /\ history' = Append(IF Len(history) = 2 THEN Tail(history) ELSE history, deploy.named)
    /\ To("stop")
    /\ UNCHANGED <<host, unitUp, server, pidfile>>

(* The process of the pid file is stopped, by force in the end, and the file *)
(* goes.                                                                     *)
StoppedByPid ==
    /\ pidfile' = FALSE
    /\ server' = IF pidfile /\ server.by = "pid" THEN NoServer ELSE server

NothingStopped == UNCHANGED <<pidfile, server>>

StopPidfile ==
    /\ deploy.pc = "stop"
    /\ StoppedByPid
    /\ To(IF host = "systemd" THEN "unit" ELSE "free")
    /\ UNCHANGED tree /\ Keep

(* A server that starts runs what is installed; it ends at once when the     *)
(* port is taken, and it may fail to come up.                                *)
Boots(held, by) ==
    \/ server' = held
    \/ held = NoServer /\ tree["backend"] # Missing
         /\ server' = [release |-> tree["backend"], by |-> by]

RestartUnit ==
    /\ deploy.pc = "unit"
    /\ unitUp' = TRUE
    /\ Boots(IF server.by = "unit" THEN NoServer ELSE server, "unit")
    /\ To("unit_health")
    /\ UNCHANGED <<host, tree, pidfile, history>>

(* The health of the port is asked for, whoever answers on it; a unit that   *)
(* does not become healthy is stopped and the script starts the server.      *)
UnitHealth ==
    /\ deploy.pc = "unit_health"
    /\ IF server # NoServer
         THEN To("contract") /\ UNCHANGED <<server, unitUp>>
         ELSE To("free") /\ unitUp' = FALSE /\ server' = NoServer
    /\ UNCHANGED <<host, tree, pidfile, history>>

PortNotFreed ==
    /\ deploy.pc = "free"
    /\ To("start")
    /\ UNCHANGED <<tree, pidfile, server>> /\ Keep

FreePort ==
    /\ deploy.pc = "free"
    /\ \/ host = "bare" /\ UNCHANGED server /\ To("start")
       \/ host # "bare" /\ server' = NoServer /\ To("start")
       \/ host = "windows" /\ server # NoServer /\ UNCHANGED server /\ To("idle")
    /\ UNCHANGED <<tree, pidfile>> /\ Keep

StartServer ==
    /\ deploy.pc = "start"
    /\ Boots(server, "new")
    /\ To("pid")
    /\ UNCHANGED <<tree, pidfile>> /\ Keep

(* The pid file names the process that was started, be it alive or not.      *)
WritePidfile ==
    /\ deploy.pc = "pid"
    /\ pidfile' = TRUE
    /\ server' = IF server.by = "new" THEN [server EXCEPT !.by = "pid"] ELSE server
    /\ To("health")
    /\ UNCHANGED tree /\ Keep

HealthcheckPort ==
    /\ deploy.pc = "health"
    /\ IF server # NoServer
         THEN To("contract") /\ NothingStopped
         ELSE To("idle") /\ StoppedByPid
    /\ UNCHANGED tree /\ Keep

(* post_deploy_check: when the server does not keep its contract the script  *)
(* fails; deploy.ps1 stops the server, the bash scripts leave it in service. *)
PostDeployCheck ==
    /\ deploy.pc = "contract"
    /\ \/ server # NoServer /\ To("done") /\ NothingStopped
       \/ To("idle") /\ IF host = "windows" THEN StoppedByPid ELSE NothingStopped
    /\ UNCHANGED tree /\ Keep

ReportSuccess ==
    /\ deploy.pc = "done" /\ To("idle")
    /\ UNCHANGED <<tree, server, pidfile>> /\ Keep

Installing == deploy.pc \in {"remove", "copy", "keep", "name"}
Forgotten == history' = IF Installing THEN <<>> ELSE history

(* A command of the script fails, or the script is killed: a server it had   *)
(* started and not noted yet is known to nobody.                             *)
DeployDies ==
    /\ deploy.pc # "idle" /\ deploy' = NoDeploy
    /\ server' = IF server.by = "new" THEN [server EXCEPT !.by = "stray"] ELSE server
    /\ Forgotten
    /\ UNCHANGED <<host, tree, pidfile, unitUp>>

ServerDies ==
    /\ server # NoServer /\ server' = NoServer
    /\ UNCHANGED <<deploy, tree, pidfile>> /\ Keep

(* systemd brings its unit back with what is in the tree.                    *)
UnitRestarts ==
    /\ unitUp /\ server = NoServer /\ Boots(server, "unit")
    /\ UNCHANGED <<deploy, tree, pidfile>> /\ Keep

Reboot ==
    /\ deploy' = NoDeploy /\ Forgotten
    /\ server' = NoServer /\ unitUp' = (host = "systemd")
    /\ UNCHANGED <<host, tree, pidfile>>

Scripted ==
    \/ ValidateReleaseArtifacts \/ RemovePath \/ CopyEntry \/ KeepPreviousManifest
    \/ CopyManifest \/ StopPidfile \/ RestartUnit \/ UnitHealth \/ FreePort
    \/ StartServer \/ WritePidfile \/ HealthcheckPort \/ PostDeployCheck \/ ReportSuccess

ReleaseStep ==
    \/ \E b, m \in Version : BeginDeploy(b, m)
    \/ Scripted
    \/ DeployDies \/ ServerDies \/ UnitRestarts \/ Reboot

ReleaseInit ==
    /\ host \in {"systemd", "nohup", "bare", "windows"}
    /\ tree = [n \in Entries |-> IF n \in Preserved THEN "data" ELSE Missing]
    /\ deploy = NoDeploy /\ server = NoServer
    /\ pidfile = FALSE /\ unitUp = FALSE /\ history = <<>>
=============================================================================
