-------------------------- MODULE WorkbenchRuntime --------------------------
(***************************************************************************)
(* The process-local side of the workbench: the background tasks that run  *)
(* execute_workbench_task (backend/services/workbench_execution_service.py *)
(* with the canvas, the single-pass retrieval and the LangGraph research   *)
(* executors) and the startup recovery thread (main.py).                   *)
(*                                                                         *)
(* A task may be taken up by <<t, "api">>, the background task of the      *)
(* request that submitted it, and by <<t, "recovery">>, the recovery       *)
(* thread when it replays t.                                               *)
(***************************************************************************)
EXTENDS WorkbenchStore

CONSTANTS
  Source,       (* the retrieval sources a research task asks for           *)
  Found,        (* bound: how many new citations a source may return        *)
  MaxSteps,     (* workbench_{browse,deep_research}_max_steps               *)
  Engine,       (* the research engines in use: "legacy", "langgraph"       *)
  StoreFaults   (* whether a store call may raise Persistence{Read,Write}-  *)
                (* Error                                                    *)

ASSUME RuntimeAssumption ==
  /\ Found \subseteq Nat
  /\ MaxSteps \in Nat \ {0}
  /\ Engine \subseteq {"legacy", "langgraph"}
  /\ StoreFaults \in BOOLEAN

VARIABLES
  pc,      (* what the worker does next                                     *)
  run,     (* the research state of the worker                              *)
  phase,   (* what the recovery thread does next                            *)
  todo     (* the ids of its current list not yet handled                   *)

runtimeVars == <<pc, run, phase, todo>>

Via == {"api", "recovery"}
Worker == Task \X Via

Submitting == {"noting_source", "noting_target"}
Running == {"resolving", "skipping", "stepping", "searching", "publishing",
            "completing"}
PC == {"idle", "dispatched", "done"} \cup Submitting \cup Running

(* engine and the sources that are ready; the sources of the current pass   *)
(* not yet visited; the planned steps and the current one; the successful   *)
(* source runs of the step and of the task; the citations so far.           *)
NoRun == [engine |-> "none", ready |-> {}, left |-> {}, steps |-> 0, step |-> 1,
          hits |-> 0, total |-> 0, cites |-> 0]

Goto(w, next) == pc' = [pc EXCEPT ![w] = next]
SetRun(w, r) == run' = [run EXCEPT ![w] = r]
Stays == UNCHANGED <<phase, todo>>

-----------------------------------------------------------------------------
(* execute_workbench_task.                                                  *)

FirstStep(k) ==
  CASE k \in ResearchKind -> "resolving"
    [] k = "canvas"       -> "publishing"
    [] OTHER              -> "completing"

(* Mutation: the result of the claim is not looked at.                      *)
ClaimUnchecked(w) ==
  /\ pc[w] = "dispatched"
  /\ ClaimTask(w[1])
  /\ Goto(w, FirstStep(kind[w[1]]))
  /\ UNCHANGED run
  /\ Stays

(* A worker that finds the task no longer queued returns.                   *)
Claim(w) ==
  /\ pc[w] = "dispatched"
  /\ ClaimTask(w[1])
  /\ Goto(w, IF status[w[1]] = "queued" THEN FirstStep(kind[w[1]]) ELSE "done")
  /\ UNCHANGED run
  /\ Stays

(* Mutation: the canvas is completed first and its output created after.    *)
PublishCanvasLast(w) ==
  /\ pc[w] = "publishing"
  /\ MarkCompleted(w[1])
  /\ Goto(w, "completing")
  /\ UNCHANGED run
  /\ Stays

(* The model's answer becomes a workspace output.                           *)
PublishCanvas(w) ==
  /\ pc[w] = "publishing"
  /\ CreateOutput(w[1])
  /\ Goto(w, "completing")
  /\ UNCHANGED run
  /\ Stays

Complete(w) ==
  /\ pc[w] = "completing"
  /\ MarkCompleted(w[1])
  /\ Goto(w, "done")
  /\ UNCHANGED run
  /\ Stays

(* An empty answer, no runnable source, no successful source, or any        *)
(* exception of the language model, a source or a store call but the last:  *)
(* the task is marked failed, whatever the step.                            *)
GiveUp(w) ==
  /\ pc[w] \in Running
  /\ MarkFailed(w[1])
  /\ Goto(w, "done")
  /\ UNCHANGED run
  /\ Stays

(* The claim, or marking the task failed, raises: the thread ends; when it  *)
(* is the recovery thread nothing else is replayed.                         *)
RunDies(w) ==
  /\ StoreFaults
  /\ pc[w] \in {"dispatched"} \cup Running
  /\ Goto(w, "done")
  /\ IF w[2] = "recovery" THEN phase' = "dead" /\ todo' = {} ELSE Stays
  /\ UNCHANGED <<storeVars, run>>

-----------------------------------------------------------------------------
(* The research executors.  Sources are resolved again when the task runs:  *)
(* what was ready when it was accepted may no longer be.                    *)

Resolve(w) ==
  /\ pc[w] = "resolving"
  /\ AppendEvent(w[1], "sources_resolved")
  /\ \E engine \in Engine, ready \in SUBSET Source :
       SetRun(w, [NoRun EXCEPT !.engine = engine, !.ready = ready,
                               !.left = Source \ ready])
  /\ Goto(w, "skipping")
  /\ Stays

SkipUnready(w) ==
  /\ pc[w] = "skipping"
  /\ AppendEvent(w[1], "source_skipped")
  /\ \E s \in run[w].left : SetRun(w, [run[w] EXCEPT !.left = @ \ {s}])
  /\ UNCHANGED pc
  /\ Stays

Resolved(w) == pc[w] = "skipping" /\ run[w].left = {} /\ run[w].ready # {}

(* The single pass of the legacy executor.                                  *)
SearchOnce(w) ==
  /\ Resolved(w)
  /\ run[w].engine = "legacy"
  /\ SetRun(w, [run[w] EXCEPT !.left = run[w].ready])
  /\ Goto(w, "searching")
  /\ UNCHANGED storeVars
  /\ Stays

(* The language model's plan, or the fallback one, cut to MaxSteps.         *)
PlanResearch(w) ==
  /\ Resolved(w)
  /\ run[w].engine = "langgraph"
  /\ AppendEvent(w[1], "plan_created")
  /\ \E n \in 1 .. MaxSteps : SetRun(w, [run[w] EXCEPT !.steps = n])
  /\ Goto(w, "stepping")
  /\ Stays

(* Mutation: the successes of the steps before are not reset.               *)
StartStepUnreset(w) ==
  /\ pc[w] = "stepping"
  /\ AppendEvent(w[1], "step_started")
  /\ SetRun(w, [run[w] EXCEPT !.left = run[w].ready])
  /\ Goto(w, "searching")
  /\ Stays

StartStep(w) ==
  /\ pc[w] = "stepping"
  /\ AppendEvent(w[1], "step_started")
  /\ SetRun(w, [run[w] EXCEPT !.left = run[w].ready, !.hits = 0])
  /\ Goto(w, "searching")
  /\ Stays

(* Mutation: a source that failed counts as a successful run.               *)
SearchSourceCounted(w) ==
  /\ pc[w] = "searching"
  /\ \E s \in run[w].left :
       \/ /\ AppendEvent(w[1], "source_completed")
          /\ \E n \in Found :
               SetRun(w, [run[w] EXCEPT !.left = @ \ {s}, !.hits = @ + 1,
                                        !.total = @ + 1, !.cites = @ + n])
       \/ /\ AppendEvent(w[1], "source_skipped")
          /\ SetRun(w, [run[w] EXCEPT !.left = @ \ {s}, !.total = @ + 1])
  /\ UNCHANGED pc
  /\ Stays

(* One source answers, with citations of which Found are new, or fails.     *)
SearchSource(w) ==
  /\ pc[w] = "searching"
  /\ \E s \in run[w].left :
       \/ /\ AppendEvent(w[1], "source_completed")
          /\ \E n \in Found :
               SetRun(w, [run[w] EXCEPT !.left = @ \ {s}, !.hits = @ + 1,
                                        !.total = @ + 1, !.cites = @ + n])
       \/ /\ AppendEvent(w[1], "source_skipped")
          /\ SetRun(w, [run[w] EXCEPT !.left = @ \ {s}])
  /\ UNCHANGED pc
  /\ Stays

Searched(w) == pc[w] = "searching" /\ run[w].left = {} /\ run[w].total > 0

SettleForOnePass(w) ==
  /\ Searched(w)
  /\ run[w].engine = "legacy"
  /\ Goto(w, "completing")
  /\ UNCHANGED <<storeVars, run>>
  /\ Stays

(* advance_or_finish: another step while the last one found something and   *)
(* the evidence is still thin.                                              *)
ShouldContinue(w) ==
  /\ run[w].step < run[w].steps
  /\ run[w].hits > 0
  /\ IF kind[w[1]] = "deep_research"
     THEN run[w].step = 1 \/ run[w].cites < 8
     ELSE run[w].cites < 2

FollowUp(w) ==
  /\ Searched(w)
  /\ run[w].engine = "langgraph"
  /\ ShouldContinue(w)
  /\ AppendEvent(w[1], "follow_up")
  /\ SetRun(w, [run[w] EXCEPT !.step = @ + 1])
  /\ Goto(w, "stepping")
  /\ Stays

(* Mutation: the synthesis does not wait for the sources of the last step.  *)
SynthesizeEarly(w) ==
  /\ pc[w] = "searching"
  /\ run[w].total > 0
  /\ run[w].engine = "langgraph"
  /\ ~ShouldContinue(w)
  /\ AppendEvent(w[1], "synthesis")
  /\ Goto(w, IF run[w].left = {} THEN "completing" ELSE "searching")
  /\ UNCHANGED run
  /\ Stays

Synthesize(w) ==
  /\ Searched(w)
  /\ run[w].engine = "langgraph"
  /\ ~ShouldContinue(w)
  /\ AppendEvent(w[1], "synthesis")
  /\ Goto(w, "completing")
  /\ UNCHANGED run
  /\ Stays

ResearchStep(w) ==
  \/ Resolve(w) \/ SkipUnready(w) \/ SearchOnce(w) \/ PlanResearch(w)
  \/ StartStep(w) \/ SearchSource(w) \/ SettleForOnePass(w)
  \/ FollowUp(w) \/ Synthesize(w)

WorkerStep(w) ==
  \/ Claim(w) \/ PublishCanvas(w) \/ Complete(w) \/ GiveUp(w) \/ ResearchStep(w)

-----------------------------------------------------------------------------
(* recover_workbench_tasks: fail the running tasks, replay the queued ones. *)

ListRunning ==
  /\ phase = "boot"
  /\ todo' = {t \in Task : status[t] = "running"}
  /\ phase' = "interrupt"
  /\ UNCHANGED <<storeVars, pc, run>>

InterruptNext ==
  /\ phase = "interrupt"
  /\ \E t \in todo : MarkFailed(t) /\ todo' = todo \ {t}
  /\ UNCHANGED <<pc, run, phase>>

(* Mutation: queued tasks are not replayed at startup.                      *)
ListNoQueued ==
  /\ phase = "interrupt"
  /\ todo = {}
  /\ phase' = "replay"
  /\ UNCHANGED <<storeVars, pc, run, todo>>

ListQueued ==
  /\ phase = "interrupt"
  /\ todo = {}
  /\ todo' = {t \in Task : status[t] = "queued"}
  /\ phase' = "replay"
  /\ UNCHANGED <<storeVars, pc, run>>

(* The recovery thread runs the tasks itself, one after the other.          *)
ReplayNext ==
  /\ phase = "replay"
  /\ \A t \in Task : pc[<<t, "recovery">>] \in {"idle", "done"}
  /\ \E t \in todo :
       /\ todo' = todo \ {t}
       /\ Goto(<<t, "recovery">>, "dispatched")
  /\ UNCHANGED <<storeVars, run, phase>>

RecoveryFails ==
  /\ StoreFaults
  /\ phase \in {"boot", "interrupt"}
  /\ phase' = "dead"
  /\ todo' = {}
  /\ UNCHANGED <<storeVars, pc, run>>

RecoveryStep == ListRunning \/ InterruptNext \/ ListQueued \/ ReplayNext

-----------------------------------------------------------------------------
(* A process starts with a recovery thread and nothing else.                *)
RuntimeBoots ==
  /\ pc' = [w \in Worker |-> "idle"]
  /\ run' = [w \in Worker |-> NoRun]
  /\ phase' = "boot"
  /\ todo' = {}

RuntimeInit ==
  /\ pc = [w \in Worker |-> "idle"]
  /\ run = [w \in Worker |-> NoRun]
  /\ phase = "boot"
  /\ todo = {}

RunType ==
  [engine : {"none", "legacy", "langgraph"}, ready : SUBSET Source,
   left : SUBSET Source, steps : 0 .. MaxSteps, step : Nat, hits : Nat,
   total : Nat, cites : Nat]

Phase == {"boot", "interrupt", "replay", "dead"}

RuntimeTypeOK ==
  /\ pc \in [Worker -> PC]
  /\ run \in [Worker -> RunType]
  /\ phase \in Phase
  /\ todo \subseteq Task
=============================================================================
