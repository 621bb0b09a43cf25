----------------------------- MODULE DesktopShell -----------------------------
(***************************************************************************)
(* The packaged desktop shell, frontend/src-tauri/src/main.rs: the thread  *)
(* that starts the bundled backend, the task that reads the events of each *)
(* sidecar, the window and a second launch of the program.  They share an  *)
(* atomic flag each for ready, shutdown and startup failure, and one slot  *)
(* for the running child behind a lock.  A sidecar is a PyInstaller        *)
(* --onefile program (tools/desktop/build_desktop_sidecar.py): the process *)
(* that is spawned, and killed, unpacks it and starts the server in a      *)
(* process of its own.                                                     *)
(***************************************************************************)
EXTENDS Naturals

CONSTANT Attempts   \* how often the backend is started before the shell gives up

ASSUME AttemptsAssumption == Attempts \in Nat \ {0}

Try == 1..Attempts

VARIABLES
    starter,    \* the startup thread: its next step, and the attempt it is at
    sidecar,    \* [Try -> the spawned process; its end once it is told: "told"]
    server,     \* [Try -> the server that process started]
    event,      \* [Try -> what its event task read the flags for: early or fatal]
    stopped,    \* history: the attempts whose child was to be killed
    slot,       \* the attempt whose child is stored, {} or a singleton
    ready, shutdown, failure,    \* the flags
    existing,   \* a backend that an earlier run of the shell left behind
    window,
    process     \* of the shell: running, failed (exit code 1) or closed

procs == <<sidecar, server, event, stopped>>

shellVars == <<starter, procs, slot, ready, shutdown, failure, existing, window, process>>

Runs(a) == server[a] \in {"starting", "serving"}

\* GET /api/health on the one port of the desktop answers.
Healthy == existing = "serving" \/ \E a \in Try : server[a] = "serving"

At(pc) == process = "running" /\ starter.pc = pc

StepTo(pc) == starter' = [starter EXCEPT !.pc = pc]

\* The stored child is taken out and killed, not the server it started; that the
\* kill failed is ignored.
StopActiveBackendProcess ==
    /\ slot' = {}
    /\ stopped' = stopped \union slot
    /\ \E killed \in SUBSET {a \in slot : sidecar[a] = "running"} :
         sidecar' = [a \in Try |-> IF a \in killed THEN "ended" ELSE sidecar[a]]
    /\ UNCHANGED <<server, event>>

-----------------------------------------------------------------------------
\* The startup thread.

CheckShutdown ==
    /\ At("check")
    /\ \/ /\ shutdown
          /\ StopActiveBackendProcess /\ StepTo("done")
          /\ UNCHANGED failure
       \/ /\ ~shutdown
          /\ failure' = FALSE /\ StepTo("probe")
          /\ UNCHANGED <<slot, procs>>
    /\ UNCHANGED <<ready, shutdown, existing, window, process>>

ResolveBackendLaunchDisposition ==
    /\ At("probe")
    /\ StepTo(IF Healthy THEN "announce" ELSE "spawn")
    /\ UNCHANGED <<procs, slot, ready, shutdown, failure, existing, window, process>>

SpawnBackend ==
    /\ At("spawn")
    /\ \/ sidecar' = [sidecar EXCEPT ![starter.try] = "running"] /\ StepTo("store")
       \/ StepTo("failed") /\ UNCHANGED sidecar
    /\ UNCHANGED <<server, event, stopped, slot, ready, shutdown, failure, existing, window, process>>

StoreBackendProcess ==
    /\ At("store")
    /\ slot' = {starter.try}
    /\ StepTo("wait")
    /\ UNCHANGED <<procs, ready, shutdown, failure, existing, window, process>>

\* Mutant: the loop has no deadline.
WaitForBackendStartupForever ==
    /\ At("wait")
    /\ \/ Healthy /\ StepTo("announce")
       \/ failure /\ StepTo("stop")
    /\ UNCHANGED <<procs, slot, ready, shutdown, failure, existing, window, process>>

\* Ready, failed early, or the deadline passed.
WaitForBackendStartup ==
    /\ At("wait")
    /\ \/ Healthy /\ StepTo("announce")
       \/ StepTo("stop")
    /\ UNCHANGED <<procs, slot, ready, shutdown, failure, existing, window, process>>

\* Mutant: the child of the failed attempt is left to itself.
StopAttemptNot ==
    /\ At("stop")
    /\ StepTo("failed")
    /\ UNCHANGED <<procs, slot, ready, shutdown, failure, existing, window, process>>

StopAttempt ==
    /\ At("stop")
    /\ StopActiveBackendProcess /\ StepTo("failed")
    /\ UNCHANGED <<ready, shutdown, failure, existing, window, process>>

\* The next attempt after a backoff, or the end of the shell.
NextAttempt ==
    /\ At("failed")
    /\ IF starter.try = Attempts
       THEN process' = "failed" /\ UNCHANGED starter
       ELSE starter' = [pc |-> "check", try |-> starter.try + 1] /\ UNCHANGED process
    /\ UNCHANGED <<procs, slot, ready, shutdown, failure, existing, window>>

Announce ==
    /\ At("announce")
    /\ ready' = TRUE
    /\ StepTo("reveal")
    /\ UNCHANGED <<procs, slot, shutdown, failure, existing, window, process>>

Show == window' = IF window = "destroyed" THEN window ELSE "shown"

RevealMainWindow ==
    /\ At("reveal")
    /\ Show /\ StepTo("done")
    /\ UNCHANGED <<procs, slot, ready, shutdown, failure, existing, process>>

-----------------------------------------------------------------------------
\* The sidecars.  One is unpacked and starts its server, which is killed by nobody
\* here; a server binds the free port, or cannot and ends.

StartServer(a) ==
    /\ sidecar[a] = "running" /\ server[a] = "none"
    /\ server' = [server EXCEPT ![a] = "starting"]
    /\ UNCHANGED <<starter, sidecar, event, stopped, slot, ready, shutdown, failure, existing,
                   window, process>>

Serve(a) ==
    /\ server[a] = "starting" /\ ~Healthy
    /\ server' = [server EXCEPT ![a] = "serving"]
    /\ UNCHANGED <<starter, sidecar, event, stopped, slot, ready, shutdown, failure, existing,
                   window, process>>

ServerExits(a) ==
    /\ Runs(a)
    /\ server' = [server EXCEPT ![a] = "dead"]
    /\ UNCHANGED <<starter, sidecar, event, stopped, slot, ready, shutdown, failure, existing,
                   window, process>>

\* The spawned process ends with its server, or cannot start one.
SidecarExits(a) ==
    /\ sidecar[a] = "running" /\ ~Runs(a)
    /\ sidecar' = [sidecar EXCEPT ![a] = "ended"]
    /\ UNCHANGED <<starter, server, event, stopped, slot, ready, shutdown, failure, existing,
                   window, process>>

ExistingExits ==
    /\ existing = "serving"
    /\ existing' = "gone"
    /\ UNCHANGED <<starter, procs, slot, ready, shutdown, failure, window, process>>

\* The event task of a sidecar reads the flags ...
ReadFlags(a) ==
    /\ process = "running" /\ event[a] = "none"
    /\ event' = [event EXCEPT ![a] =
         IF shutdown THEN "none" ELSE IF ready THEN "fatal" ELSE "early"]
    /\ UNCHANGED <<starter, server, stopped, slot, ready, shutdown, failure, existing, window,
                   process>>

\* ... when the process has ended, and nobody holds its pipes open any more
\* or it is told before that, ...
TerminatedArrives(a) ==
    /\ sidecar[a] = "ended"
    /\ sidecar' = [sidecar EXCEPT ![a] = "told"]
    /\ ReadFlags(a)

\* ... and when reading its output or waiting for it fails, while it may well run, ...
ErrorArrives(a) ==
    /\ sidecar[a] \in {"running", "ended"}
    /\ UNCHANGED sidecar
    /\ ReadFlags(a)

\* Mutant: an end after startup is only recorded.
ActOnEventSoftly(a) ==
    /\ process = "running" /\ event[a] # "none"
    /\ failure' = TRUE
    /\ event' = [event EXCEPT ![a] = "none"]
    /\ UNCHANGED <<starter, sidecar, server, stopped, slot, ready, shutdown, existing, window,
                   process>>

\* ... and then fails the attempt, or ends the shell.
ActOnEvent(a) ==
    /\ process = "running" /\ event[a] # "none"
    /\ IF event[a] = "early"
       THEN failure' = TRUE /\ UNCHANGED process
       ELSE process' = "failed" /\ UNCHANGED failure
    /\ event' = [event EXCEPT ![a] = "none"]
    /\ UNCHANGED <<starter, sidecar, server, stopped, slot, ready, shutdown, existing, window>>

-----------------------------------------------------------------------------
\* The single-instance plugin shows the window, whatever the startup is at.
SecondLaunch ==
    /\ process = "running" /\ window = "hidden"
    /\ Show
    /\ UNCHANGED <<starter, procs, slot, ready, shutdown, failure, existing, process>>

OnWindowDestroyed ==
    /\ process = "running" /\ window = "shown"
    /\ window' = "destroyed"
    /\ shutdown' = TRUE
    /\ StopActiveBackendProcess
    /\ UNCHANGED <<starter, ready, failure, existing, process>>

\* The event loop ends with its only window.
LoopEnds ==
    /\ process = "running" /\ window = "destroyed"
    /\ process' = "closed"
    /\ UNCHANGED <<starter, procs, slot, ready, shutdown, failure, existing, window>>

-----------------------------------------------------------------------------
ShellInit ==
    /\ starter = [pc |-> "check", try |-> 1]
    /\ sidecar = [a \in Try |-> "none"] /\ server = [a \in Try |-> "none"]
    /\ event = [a \in Try |-> "none"]
    /\ stopped = {}
    /\ slot = {}
    /\ ready = FALSE /\ shutdown = FALSE /\ failure = FALSE
    /\ existing \in {"none", "serving"}
    /\ window = "hidden"
    /\ process = "running"

Startup ==
    \/ CheckShutdown \/ ResolveBackendLaunchDisposition \/ SpawnBackend
    \/ StoreBackendProcess \/ WaitForBackendStartup \/ StopAttempt \/ NextAttempt
    \/ Announce \/ RevealMainWindow

Surroundings ==
    \/ ExistingExits \/ SecondLaunch \/ OnWindowDestroyed \/ LoopEnds
    \/ \E a \in Try :
         \/ StartServer(a) \/ Serve(a) \/ ServerExits(a) \/ SidecarExits(a)
         \/ TerminatedArrives(a) \/ ErrorArrives(a) \/ ActOnEvent(a)
=============================================================================
