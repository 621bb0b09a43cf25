--------------------------- MODULE WorkbenchSystem ---------------------------
(***************************************************************************)
(* The workbench as a whole: the HTTP operations of                        *)
(* backend/application/workbench_task_lifecycle.py (create, cancel, retry) *)
(* and workbench_workspace_outputs.py (export), each in a thread of its    *)
(* own, composed with the workers and the recovery thread of               *)
(* WorkbenchRuntime, and with process crashes.                             *)
(***************************************************************************)
EXTENDS WorkbenchRuntime, TLC

CONSTANTS
  Requested,  (* the task kinds clients ask for                            *)
  Together,   (* bound: the kinds of which there may be more than one task *)
  Canceller,  (* POST .../cancel requests, each handled once               *)
  MaxBoots    (* bound: process starts, the first one included             *)

ASSUME SystemAssumption == Requested \subseteq TaskKind /\ MaxBoots \in Nat \ {0}

(* The bound on what a behaviour follows beside each other.                 *)
Room(k) ==
  \A u \in Task : status[u] = "absent" \/ {k, kind[u]} \subseteq Together

VARIABLES
  origin,    (* the task a retry was made from, {} for a submission        *)
  cancel,    (* [Canceller -> the request's next step, target and reply]   *)
  export,    (* [Export -> the request's next step, target and the links   *)
             (* it read]                                                   *)
  boots      (* process starts so far                                      *)

requestVars == <<origin, cancel, export>>
vars == <<storeVars, runtimeVars, requestVars, boots>>

CancelPC == {"idle", "cancelling", "reread", "replied", "lost"}
NoCancel == [pc |-> "idle", task |-> {}, code |-> 0, body |-> "absent"]

ExportPC == {"idle", "linking", "noting", "replied", "lost"}
NoExport == [pc |-> "idle", task |-> {}, seen |-> {}]

-----------------------------------------------------------------------------
(* create_and_dispatch_workbench_task: the row first, then the background   *)
(* task, which starts after the response.                                   *)
Submit(t) ==
  /\ \E k \in Requested : Room(k) /\ CreateTask(t, k)
  /\ Goto(<<t, "api">>, "dispatched")
  /\ UNCHANGED <<run, phase, todo, requestVars, boots>>

(* Mutation: the source's lineage event is forgotten.                       *)
RetryTargetOnly(source, t) ==
  /\ IsTerminal(source)
  /\ Room(kind[source])
  /\ CreateTask(t, kind[source])
  /\ origin' = [origin EXCEPT ![t] = {source}]
  /\ Goto(<<t, "api">>, "noting_target")
  /\ UNCHANGED <<run, phase, todo, cancel, export, boots>>

(* retry_workbench_task: a terminal source is copied into a new queued      *)
(* task; the two lineage events are transactions of their own, and the      *)
(* dispatch comes last.                                                     *)
Retry(source, t) ==
  /\ IsTerminal(source)
  /\ Room(kind[source])
  /\ CreateTask(t, kind[source])
  /\ origin' = [origin EXCEPT ![t] = {source}]
  /\ Goto(<<t, "api">>, "noting_source")
  /\ UNCHANGED <<run, phase, todo, cancel, export, boots>>

NoteRetryRequested(t) ==
  /\ pc[<<t, "api">>] = "noting_source"
  /\ \E source \in origin[t] : AppendEvent(source, "retry_requested")
  /\ Goto(<<t, "api">>, "noting_target")
  /\ UNCHANGED <<run, phase, todo, requestVars, boots>>

NoteRetryCreated(t) ==
  /\ pc[<<t, "api">>] = "noting_target"
  /\ AppendEvent(t, "retry_created")
  /\ Goto(<<t, "api">>, "dispatched")
  /\ UNCHANGED <<run, phase, todo, requestVars, boots>>

(* A lineage event raises: the new task stays queued, nothing dispatched.   *)
RetryFails(t) ==
  /\ StoreFaults
  /\ pc[<<t, "api">>] \in Submitting
  /\ Goto(<<t, "api">>, "done")
  /\ UNCHANGED <<storeVars, run, phase, todo, requestVars, boots>>

-----------------------------------------------------------------------------
(* cancel_workbench_task.                                                   *)

CancelSet(c, next, target, code, body) ==
  /\ cancel' = [cancel EXCEPT ![c] =
       [pc |-> next, task |-> target, code |-> code, body |-> body]]
  /\ UNCHANGED <<runtimeVars, origin, export, boots>>

CancelLoad(c, t) ==
  /\ cancel[c].pc = "idle"
  /\ status[t] # "absent"
  /\ IF status[t] = "queued" THEN CancelSet(c, "cancelling", {t}, 0, "absent")
     ELSE CancelSet(c, "replied", {t}, 409, status[t])
  /\ UNCHANGED storeVars

CancelWrite(c) ==
  /\ cancel[c].pc = "cancelling"
  /\ \E t \in cancel[c].task : MarkCancelled(t)
  /\ CancelSet(c, "reread", cancel[c].task, 0, "absent")

CancelReread(c) ==
  /\ cancel[c].pc = "reread"
  /\ \E t \in cancel[c].task : CancelSet(c, "replied", {t}, 200, status[t])
  /\ UNCHANGED storeVars

CancelFails(c) ==
  /\ StoreFaults
  /\ cancel[c].pc \in {"cancelling", "reread"}
  /\ CancelSet(c, "lost", cancel[c].task, 0, "absent")
  /\ UNCHANGED storeVars

-----------------------------------------------------------------------------
(* export_workbench_workspace_output: the links are read with the output,   *)
(* the artifact is stored, the whole list is written back, and then the     *)
(* event is appended.                                                       *)

ExportSet(x, next, target, seen) ==
  /\ export' = [export EXCEPT ![x] = [pc |-> next, task |-> target, seen |-> seen]]
  /\ UNCHANGED <<runtimeVars, origin, cancel, boots>>

ExportLoad(x, t) ==
  /\ export[x].pc = "idle"
  /\ t \in outputs
  /\ ExportSet(x, "linking", {t}, linked[t])
  /\ UNCHANGED storeVars

ExportLink(x) ==
  /\ export[x].pc = "linking"
  /\ \E t \in export[x].task : ReplaceLinks(t, export[x].seen \cup {x})
  /\ ExportSet(x, "noting", export[x].task, export[x].seen)

ExportNote(x) ==
  /\ export[x].pc = "noting"
  /\ \E t \in export[x].task : AppendEvent(t, "output_exported")
  /\ ExportSet(x, "replied", export[x].task, export[x].seen)

ExportFails(x) ==
  /\ StoreFaults
  /\ export[x].pc \in {"linking", "noting"}
  /\ ExportSet(x, "lost", export[x].task, export[x].seen)
  /\ UNCHANGED storeVars

-----------------------------------------------------------------------------
(* The process dies and is started again: only the store survives.          *)
Crash ==
  /\ boots < MaxBoots
  /\ boots' = boots + 1
  /\ RuntimeBoots
  /\ cancel' = [c \in Canceller |->
       IF cancel[c].pc \in {"cancelling", "reread"}
       THEN [cancel[c] EXCEPT !.pc = "lost"] ELSE cancel[c]]
  /\ export' = [x \in Export |->
       IF export[x].pc \in {"linking", "noting"}
       THEN [export[x] EXCEPT !.pc = "lost"] ELSE export[x]]
  /\ UNCHANGED <<storeVars, origin>>

RuntimeStep ==
  /\ \/ \E w \in Worker : WorkerStep(w) \/ RunDies(w)
     \/ RecoveryStep
     \/ RecoveryFails
  /\ UNCHANGED <<requestVars, boots>>

RequestStep ==
  \/ \E t \in Task : \/ Submit(t) \/ NoteRetryRequested(t) \/ NoteRetryCreated(t)
                     \/ RetryFails(t)
                     \/ \E source \in Task : Retry(source, t)
  \/ \E c \in Canceller : \/ CancelWrite(c) \/ CancelReread(c) \/ CancelFails(c)
                          \/ \E t \in Task : CancelLoad(c, t)
  \/ \E x \in Export : \/ ExportLink(x) \/ ExportNote(x) \/ ExportFails(x)
                       \/ \E t \in Task : ExportLoad(x, t)

Next == RuntimeStep \/ RequestStep \/ Crash

Init ==
  /\ StoreInit
  /\ RuntimeInit
  /\ origin = [t \in Task |-> {}]
  /\ cancel = [c \in Canceller |-> NoCancel]
  /\ export = [x \in Export |-> NoExport]
  /\ boots = 1

Spec == Init /\ [][Next]_vars

(* Threads are scheduled and a retry in progress goes on.  Nobody owes the  *)
(* system a submission, a cancellation, an export or a crash.               *)
Fairness ==
  /\ \A w \in Worker : WF_vars(WorkerStep(w) /\ UNCHANGED <<requestVars, boots>>)
  /\ WF_vars(RecoveryStep /\ UNCHANGED <<requestVars, boots>>)
  /\ \A t \in Task : WF_vars(NoteRetryRequested(t) \/ NoteRetryCreated(t))

FairSpec == Spec /\ Fairness

-----------------------------------------------------------------------------
(***************************************************************************)
(* What the workbench guarantees, and what its documentation says it       *)
(* guarantees.                                                             *)
(***************************************************************************)

TypeOK ==
  /\ StoreTypeOK
  /\ RuntimeTypeOK
  /\ origin \in [Task -> SUBSET Task]
  /\ cancel \in [Canceller -> [pc : CancelPC, task : SUBSET Task,
                               code : {0, 200, 409}, body : Status]]
  /\ export \in [Export -> [pc : ExportPC, task : SUBSET Task, seen : SUBSET Export]]
  /\ boots \in Nat

-----------------------------------------------------------------------------
At(t, types) == {i \in DOMAIN timeline[t] : timeline[t][i] \in types}

Occurs(t, type) == Cardinality(At(t, {type}))

(* Some worker has claimed the task and is not through with it.             *)
HasRunner(t) == \E via \in Via : pc[<<t, via>>] \in Running

-----------------------------------------------------------------------------
(* The timeline settles exactly when the row does: one terminal event, of   *)
(* the row's own kind, although the worker, the interrupting recovery and a *)
(* canceller compete to write it.                                           *)
TimelineSettlesOnce ==
  \A t \in Task :
    /\ IsTerminal(t) <=> At(t, TerminalEvent) # {}
    /\ \A i, j \in At(t, TerminalEvent) : i = j
    /\ \A i \in At(t, TerminalEvent) : timeline[t][i] = status[t]

(* The background task of the request and the recovery thread may both take *)
(* a task up; only one of them ever works on it.                            *)
SingleClaim ==
  \A t \in Task :
    /\ \A u, v \in Via :
         pc[<<t, u>>] \in Running /\ pc[<<t, v>>] \in Running => u = v
    /\ \A i, j \in At(t, {"started"}) : i = j
    /\ HasRunner(t) => At(t, {"started"}) # {}

(* A cancelled task never ran: no worker started it, before or after, no    *)
(* retrieval was made for it and no output written.                         *)
CancelledNeverRan ==
  \A t \in Task : status[t] = "cancelled" =>
    /\ ~HasRunner(t)
    /\ t \notin outputs
    /\ At(t, ResearchEvent \cup {"started", "output_created"}) = {}

(* A completed canvas has its output, written before it said completed, and *)
(* only one, whoever ran it.                                                *)
CompletedCanvasHasOutput ==
  \A t \in Task : kind[t] = "canvas" /\ status[t] = "completed" =>
    /\ t \in outputs
    /\ \A i, j \in At(t, {"output_created"}) : i = j
    /\ \A i \in At(t, {"output_created"}), j \in At(t, {"completed"}) : i < j

(* A completed research task rests on at least one source that answered,    *)
(* and no retrieval of its own comes after its completion.                  *)
ResearchRestsOnEvidence ==
  \A t \in Task : kind[t] \in ResearchKind /\ status[t] = "completed" =>
    /\ At(t, {"source_completed"}) # {}
    /\ \A i \in At(t, ResearchEvent), j \in At(t, {"completed"}) : i < j

(* The research loop is bounded and goes on only for a reason: no more      *)
(* steps than the settings allow, and a follow-up only when a source        *)
(* answered in the step before it.                                          *)
FollowUpsAreEarned ==
  \A t \in Task :
    /\ Occurs(t, "step_started") <= MaxSteps
    /\ \A i \in At(t, {"follow_up"}) : \E j \in At(t, {"source_completed"}) :
         j < i /\ \A k \in At(t, {"step_started"}) : k < j \/ i < k

(* The synthesis is written once, over everything the loop retrieved.       *)
SynthesisComesLast ==
  \A t \in Task : \A i \in At(t, {"synthesis"}), j \in At(t, ResearchEvent) : j <= i

(* A retry that names its source is named by it, whatever died in between.  *)
LineageIsMutual ==
  \A source \in Task :
    Cardinality({t \in Task : source \in origin[t] /\ Occurs(t, "retry_created") > 0})
      <= Occurs(source, "retry_requested")

-----------------------------------------------------------------------------
(* Who is still going to act on an unsettled task.                          *)

QueuedHasTaker(t) ==
  \/ \E via \in Via : pc[<<t, via>>] \in {"dispatched"} \cup Submitting
  \/ phase \in {"boot", "interrupt"}
  \/ phase = "replay" /\ t \in todo

RunningHasTaker(t) ==
  \/ HasRunner(t)
  \/ phase = "boot"
  \/ phase = "interrupt" /\ t \in todo

(* As long as the store answers, an accepted task is never stranded.        *)
NoTaskStranded ==
  ~StoreFaults =>
    \A t \in Task :
      /\ status[t] = "queued" => QueuedHasTaker(t)
      /\ status[t] = "running" => RunningHasTaker(t)

-----------------------------------------------------------------------------
Lifecycle ==
  INSTANCE DurableLifecycle WITH Job <- Task, CancelFrom <- {"queued"}

(* Every status change of the rows is one the lifecycle allows, and every   *)
(* accepted task settles although processes crash.                          *)
ImplementsLifecycle == Lifecycle!FairSpec

-----------------------------------------------------------------------------
(* docs/api/API_REFERENCE.md: exported artifacts are appended to the        *)
(* output's artifacts list.                                                 *)
ExportsAreAppended ==
  \A x \in Export : export[x].pc = "replied" =>
    \A t \in export[x].task : x \in linked[t]

-----------------------------------------------------------------------------
(* What the runs ask for, in one formula each.                              *)

(* A task is worked on by one worker, settles once, and a canvas that says  *)
(* completed has the one output it was asked for.                           *)
TasksRunOnce == SingleClaim /\ TimelineSettlesOnce /\ CompletedCanvasHasOutput

(* The research loop goes on for a reason, ends within its bound, and its   *)
(* synthesis comes last and rests on what was found.                        *)
ResearchIsSound ==
  ResearchRestsOnEvidence /\ FollowUpsAreEarned /\ SynthesisComesLast

(* Whatever dies, no task is left without somebody who will take it         *)
(* further, nor a retry without its lineage.                                *)
NothingIsStranded == NoTaskStranded /\ LineageIsMutual

(***************************************************************************)
(* For TLC: tasks, exports, requests and sources are interchangeable in    *)
(* Init, Next and every safety property.                                   *)
(***************************************************************************)
Symmetry ==
  Permutations(Task) \cup Permutations(Export) \cup Permutations(Canceller)
    \cup Permutations(Source)
=============================================================================
