--------------------------- MODULE WorkbenchProofs --------------------------
(***************************************************************************)
(* Machine-checked proofs about the workbench, for any number of tasks,    *)
(* sources, requests and restarts, either backend, either research engine, *)
(* and with or without store faults.                                       *)
(***************************************************************************)
EXTENDS WorkbenchSystem, TLAPS, FiniteSetTheorems

-----------------------------------------------------------------------------
(* What a step can do to the store.  A worker, and the recovery thread when *)
(* it interrupts, only write about tasks that were claimed.                 *)

Claimed(t) == status[t] \in {"running", "completed", "failed"}

(* The events appended to a timeline whatever became of the task.           *)
NoteEvent == {"retry_requested", "retry_created", "output_exported"}

StoreStep ==
  \/ UNCHANGED storeVars
  \/ \E t \in Task :
       \/ \E k \in TaskKind \cup {"none"} : CreateTask(t, k)
       \/ ClaimTask(t)
       \/ MarkCancelled(t)
       \/ Claimed(t) /\ (MarkCompleted(t) \/ MarkFailed(t) \/ CreateOutput(t))
       \/ Claimed(t) /\ \E type \in ResearchEvent : AppendEvent(t, type)
       \/ \E type \in NoteEvent : AppendEvent(t, type)
       \/ \E links \in SUBSET Export : ReplaceLinks(t, links)

Moves ==
  {<<"absent", "queued">>, <<"queued", "running">>, <<"queued", "cancelled">>,
   <<"running", "completed">>, <<"running", "failed">>}

(* The status changes by one of the moves, if at all.                       *)
StatusMove ==
  \/ UNCHANGED status
  \/ \E t \in Task, to \in Status :
       /\ <<status[t], to>> \in Moves
       /\ status' = [status EXCEPT ![t] = to]

(* Workers are pairs of a task and the way it was taken up.                 *)
LEMMA WorkerParts ==
  /\ \A w \in Worker : w[1] \in Task /\ w[2] \in Via /\ w = <<w[1], w[2]>>
  /\ \A t \in Task, via \in Via : <<t, via>> \in Worker
  /\ "api" \in Via /\ "recovery" \in Via
  BY DEF Worker, Via

(* A store step keeps the store well typed.                                 *)
LEMMA StoreStepType ==
  ASSUME StoreTypeOK, StoreStep
  PROVE  StoreTypeOK'
<1>r. ASSUME NEW t \in Task, NEW type \in EventType, Record(t, type)
      PROVE  timeline' \in [Task -> Seq(EventType)]
  <2>1. Append(timeline[t], type) \in Seq(EventType)
    BY DEF StoreTypeOK
  <2>2. QED BY <1>r, <2>1 DEF Record, StoreTypeOK
<1>m. ASSUME NEW t \in Task, NEW from, NEW to \in Status \ {"absent"},
             MoveStatus(t, from, to)
      PROVE  StoreTypeOK'
  <2>1. EventOf(to) \in EventType
    BY DEF EventOf, Status, TerminalStatus, EventType, TerminalEvent
  <2>2. CASE status[t] \in from
    <3>1. timeline' \in [Task -> Seq(EventType)]
      BY <1>m, <1>r, <2>1, <2>2 DEF MoveStatus
    <3>2. QED BY <1>m, <2>2, <3>1 DEF MoveStatus, StoreTypeOK
  <2>3. CASE status[t] \notin from
    BY <1>m, <2>3 DEF MoveStatus, StoreTypeOK
  <2>4. QED BY <2>2, <2>3
<1>s. {"queued", "running", "completed", "failed", "cancelled"} \subseteq Status \ {"absent"}
  BY DEF Status, TerminalStatus
<1>1. CASE UNCHANGED storeVars
  BY <1>1 DEF storeVars, StoreTypeOK
<1>2. ASSUME NEW t \in Task, NEW k \in TaskKind \cup {"none"}, CreateTask(t, k) PROVE StoreTypeOK'
  <2>1. timeline' \in [Task -> Seq(EventType)]
    BY <1>2, <1>r DEF CreateTask, EventType
  <2>2. QED BY <1>2, <1>s, <2>1 DEF CreateTask, StoreTypeOK
<1>3. ASSUME NEW t \in Task,
             ClaimTask(t) \/ MarkCancelled(t) \/ MarkCompleted(t) \/ MarkFailed(t)
      PROVE  StoreTypeOK'
  BY <1>3, <1>m, <1>s DEF ClaimTask, MarkCancelled, MarkCompleted, MarkFailed
<1>4. ASSUME NEW t \in Task, CreateOutput(t) PROVE StoreTypeOK'
  <2>1. timeline' \in [Task -> Seq(EventType)]
    BY <1>4, <1>r DEF CreateOutput, EventType
  <2>2. QED BY <1>4, <2>1 DEF CreateOutput, StoreTypeOK
<1>5. ASSUME NEW t \in Task, NEW type \in ResearchEvent \cup NoteEvent,
             AppendEvent(t, type)
      PROVE  StoreTypeOK'
  <2>1. timeline' \in [Task -> Seq(EventType)]
    BY <1>5, <1>r DEF AppendEvent, EventType, NoteEvent
  <2>2. QED BY <1>5, <2>1 DEF AppendEvent, StoreTypeOK
<1>6. ASSUME NEW t \in Task, NEW links \in SUBSET Export, ReplaceLinks(t, links)
      PROVE  StoreTypeOK'
  BY <1>6 DEF ReplaceLinks, StoreTypeOK
<1>7. QED BY <1>1, <1>2, <1>3, <1>4, <1>5, <1>6 DEF StoreStep

(* A store step moves at most one status, by one of the moves.              *)
LEMMA StoreStepMoves ==
  ASSUME StoreTypeOK, StoreStep
  PROVE  StatusMove
<1> USE DEF StatusMove, Moves
<1>s. {"queued", "running", "completed", "failed", "cancelled"} \subseteq Status
  BY DEF Status, TerminalStatus
<1>1. CASE UNCHANGED storeVars
  BY <1>1 DEF storeVars
<1>2. ASSUME NEW t \in Task, NEW k \in TaskKind \cup {"none"}, CreateTask(t, k) PROVE StatusMove
  BY <1>2, <1>s DEF CreateTask
<1>3. ASSUME NEW t \in Task, ClaimTask(t) \/ MarkCancelled(t) PROVE StatusMove
  BY <1>3, <1>s DEF ClaimTask, MarkCancelled, MoveStatus, Cancellable
<1>4. ASSUME NEW t \in Task, Claimed(t), MarkCompleted(t) \/ MarkFailed(t)
      PROVE  StatusMove
  BY <1>4, <1>s
     DEF MarkCompleted, MarkFailed, MoveStatus, Completable, Unsettled, Claimed
<1>5. ASSUME NEW t \in Task,
             \/ CreateOutput(t)
             \/ \E type \in ResearchEvent \cup NoteEvent : AppendEvent(t, type)
             \/ \E links \in SUBSET Export : ReplaceLinks(t, links)
      PROVE  StatusMove
  BY <1>5 DEF CreateOutput, AppendEvent, ReplaceLinks
<1>6. QED BY <1>1, <1>2, <1>3, <1>4, <1>5 DEF StoreStep

(* A claimed task stays claimed.                                            *)
LEMMA ClaimedForEver ==
  ASSUME StoreTypeOK, StoreStep, NEW t \in Task, Claimed(t)
  PROVE  Claimed(t)'
  BY StoreStepMoves DEF StatusMove, Moves, Claimed, StoreTypeOK

-----------------------------------------------------------------------------
(* The claims: what makes a worker's unconditional writes harmless.  A      *)
(* worker past its claim holds a claimed task alone, and the recovery       *)
(* thread interrupts only what it found running.                            *)

ClaimInv ==
  /\ \A t \in Task : HasRunner(t) => Claimed(t)
  /\ \A t \in Task, u, v \in Via :
       pc[<<t, u>>] \in Running /\ pc[<<t, v>>] \in Running => u = v
  /\ phase = "interrupt" => \A t \in todo : Claimed(t)

(* A step that lets no further worker claim a task keeps the claims in      *)
(* order.                                                                   *)
LEMMA NoNewClaim ==
  ASSUME StoreTypeOK, RuntimeTypeOK, ClaimInv, StoreStep,
         \A w \in Worker : pc'[w] \in Running => pc[w] \in Running,
         phase' = "interrupt" => \A t \in todo' : t \in Task /\ Claimed(t)
  PROVE  ClaimInv'
<1>1. \A t \in Task : HasRunner(t)' => Claimed(t)'
  BY WorkerParts, ClaimedForEver DEF ClaimInv, HasRunner
<1>2. \A t \in Task, u, v \in Via :
        pc'[<<t, u>>] \in Running /\ pc'[<<t, v>>] \in Running => u = v
  BY WorkerParts DEF ClaimInv
<1>3. QED BY <1>1, <1>2, ClaimedForEver DEF ClaimInv

(* Claim gives a queued task to its worker alone.                           *)
LEMMA ClaimStep ==
  ASSUME StoreTypeOK, RuntimeTypeOK, ClaimInv, NEW w \in Worker, Claim(w)
  PROVE  StoreStep /\ RuntimeTypeOK' /\ ClaimInv'
<1> DEFINE t == w[1]
<1>t. t \in Task /\ w[2] \in Via /\ w = <<t, w[2]>> /\ todo \subseteq Task
  BY WorkerParts DEF RuntimeTypeOK
<1>1. StoreStep
  BY <1>t DEF Claim, StoreStep
<1>f. FirstStep(kind[t]) \in Running /\ Running \subseteq PC /\ "done" \in PC \ Running
  BY DEF FirstStep, Running, PC
<1>2. RuntimeTypeOK'
  BY <1>f DEF Claim, RuntimeTypeOK, Goto, Stays
<1>3. CASE status[t] # "queued"
  <2>1. \A x \in Worker : pc'[x] \in Running => pc[x] \in Running
    BY <1>3, <1>f DEF Claim, Goto, RuntimeTypeOK
  <2>2. QED BY <1>1, <1>2, <1>t, <2>1, NoNewClaim DEF Claim, Stays, ClaimInv
<1>4. CASE status[t] = "queued"
  <2>1. Claimed(t)'
    BY <1>4, <1>t DEF Claim, ClaimTask, MoveStatus, Claimed, StoreTypeOK
  <2>2. \A via \in Via : pc[<<t, via>>] \notin Running
    BY <1>4, <1>t DEF ClaimInv, HasRunner, Claimed
  <2>3. \A u \in Task, via \in Via :
          pc'[<<u, via>>] \in Running => pc[<<u, via>>] \in Running \/ <<u, via>> = w
    BY WorkerParts DEF Claim, Goto, RuntimeTypeOK
  <2>4. \A u \in Task : HasRunner(u)' => Claimed(u)'
    BY <1>1, <1>t, <2>1, <2>3, ClaimedForEver DEF ClaimInv, HasRunner
  <2>5. \A u \in Task, x, y \in Via :
          pc'[<<u, x>>] \in Running /\ pc'[<<u, y>>] \in Running => x = y
    BY <1>t, <2>2, <2>3 DEF ClaimInv
  <2>6. QED BY <1>1, <1>2, <1>t, <2>4, <2>5, ClaimedForEver DEF Claim, Stays, ClaimInv
<1>5. QED BY <1>1, <1>2, <1>3, <1>4

(* Every other step of a worker writes about a task it holds.               *)
LEMMA WorkerStepKeeps ==
  ASSUME StoreTypeOK, RuntimeTypeOK, ClaimInv, NEW w \in Worker,
         WorkerStep(w) \/ RunDies(w)
  PROVE  StoreStep /\ RuntimeTypeOK' /\ ClaimInv'
<1> DEFINE t == w[1]
<1>t. t \in Task /\ w[2] \in Via /\ w = <<t, w[2]>> /\ todo \subseteq Task
  BY WorkerParts DEF RuntimeTypeOK
<1>h. ASSUME pc[w] \in Running PROVE Claimed(t)
  BY <1>t, <1>h DEF ClaimInv, HasRunner
<1>u. UNCHANGED storeVars => StoreStep
  BY DEF StoreStep
<1>a. ASSUME NEW type \in ResearchEvent, pc[w] \in Running, AppendEvent(t, type)
      PROVE  StoreStep
  BY <1>a, <1>h, <1>t DEF StoreStep
<1>r. run[w] \in RunType
  BY DEF RuntimeTypeOK
<1>q. ASSUME StoreStep, Stays,
             \/ UNCHANGED pc
             \/ pc[w] \in Running /\ \E next \in Running \cup {"done"} : Goto(w, next),
             UNCHANGED run \/ \E r \in RunType : SetRun(w, r)
      PROVE  StoreStep /\ RuntimeTypeOK' /\ ClaimInv'
  <2>1. RuntimeTypeOK'
    BY <1>q DEF RuntimeTypeOK, Goto, SetRun, Stays, PC
  <2>2. \A x \in Worker : pc'[x] \in Running => pc[x] \in Running
    BY <1>q DEF RuntimeTypeOK, Goto
  <2>3. QED BY <1>q, <1>t, <2>1, <2>2, NoNewClaim DEF Stays, ClaimInv
<1>1. CASE Claim(w)
  BY <1>1, ClaimStep
<1>2. CASE PublishCanvas(w)
  <2>1. StoreStep
    BY <1>2, <1>h, <1>t DEF PublishCanvas, StoreStep, Running
  <2>2. QED BY <1>2, <1>q, <2>1 DEF PublishCanvas, Running
<1>3. CASE Complete(w)
  <2>1. StoreStep
    BY <1>3, <1>h, <1>t DEF Complete, StoreStep, Running
  <2>2. QED BY <1>3, <1>q, <2>1 DEF Complete, Running
<1>4. CASE GiveUp(w)
  <2>1. StoreStep
    BY <1>4, <1>h, <1>t DEF GiveUp, StoreStep
  <2>2. QED BY <1>4, <1>q, <2>1 DEF GiveUp
<1>5. CASE RunDies(w)
  <2>1. StoreStep
    BY <1>5, <1>u DEF RunDies
  <2>2. RuntimeTypeOK'
    BY <1>5 DEF RunDies, RuntimeTypeOK, Goto, Stays, PC, Phase
  <2>3. \A x \in Worker : pc'[x] \in Running => pc[x] \in Running
    BY <1>5 DEF RunDies, RuntimeTypeOK, Goto, Running
  <2>4. phase' = "interrupt" => todo' = todo /\ phase = "interrupt"
    BY <1>5 DEF RunDies, Stays
  <2>5. QED BY <1>t, <2>1, <2>2, <2>3, <2>4, NoNewClaim DEF ClaimInv
<1> USE DEF Running, ResearchEvent
<1>6. CASE Resolve(w)
  <2>1. StoreStep
    BY <1>6, <1>a DEF Resolve
  <2>2. \E r \in RunType : SetRun(w, r)
    <3>1. PICK engine \in Engine, ready \in SUBSET Source :
            SetRun(w, [NoRun EXCEPT !.engine = engine, !.ready = ready,
                                    !.left = Source \ ready])
      BY <1>6 DEF Resolve
    <3>2. engine \in {"none", "legacy", "langgraph"} /\ 0 \in 0 .. MaxSteps
      BY RuntimeAssumption
    <3>3. QED BY <3>1, <3>2 DEF RunType, NoRun
  <2>3. QED BY <1>6, <1>q, <2>1, <2>2 DEF Resolve
<1>7. CASE SkipUnready(w)
  <2>1. StoreStep
    BY <1>7, <1>a DEF SkipUnready
  <2>2. \E r \in RunType : SetRun(w, r)
    BY <1>7, <1>r DEF SkipUnready, RunType
  <2>3. QED BY <1>7, <1>q, <2>1, <2>2 DEF SkipUnready
<1>8. CASE SearchOnce(w)
  <2>1. \E r \in RunType : SetRun(w, r)
    BY <1>8, <1>r DEF SearchOnce, RunType
  <2>2. QED BY <1>8, <1>q, <1>u, <2>1 DEF SearchOnce, Resolved
<1>9. CASE PlanResearch(w)
  <2>1. StoreStep
    BY <1>9, <1>a DEF PlanResearch, Resolved
  <2>2. \E r \in RunType : SetRun(w, r)
    <3>1. PICK n \in 1 .. MaxSteps : SetRun(w, [run[w] EXCEPT !.steps = n])
      BY <1>9 DEF PlanResearch
    <3>2. n \in 0 .. MaxSteps
      BY RuntimeAssumption
    <3>3. QED BY <1>r, <3>1, <3>2 DEF RunType
  <2>3. QED BY <1>9, <1>q, <2>1, <2>2 DEF PlanResearch, Resolved
<1>10. CASE StartStep(w)
  <2>1. StoreStep
    BY <1>10, <1>a DEF StartStep
  <2>2. \E r \in RunType : SetRun(w, r)
    BY <1>10, <1>r DEF StartStep, RunType
  <2>3. QED BY <1>10, <1>q, <2>1, <2>2 DEF StartStep
<1>11. CASE SearchSource(w)
  <2>1. StoreStep
    BY <1>11, <1>a DEF SearchSource
  <2>2. \E r \in RunType : SetRun(w, r)
    <3>1. PICK s \in run[w].left :
            \/ \E n \in Found :
                 SetRun(w, [run[w] EXCEPT !.left = @ \ {s}, !.hits = @ + 1,
                                          !.total = @ + 1, !.cites = @ + n])
            \/ SetRun(w, [run[w] EXCEPT !.left = @ \ {s}])
      BY <1>11 DEF SearchSource
    <3>2. [run[w] EXCEPT !.left = @ \ {s}] \in RunType
      BY <1>r DEF RunType
    <3>3. ASSUME NEW n \in Found
          PROVE  [run[w] EXCEPT !.left = @ \ {s}, !.hits = @ + 1,
                                !.total = @ + 1, !.cites = @ + n] \in RunType
      <4>1. /\ run[w].hits + 1 \in Nat /\ run[w].total + 1 \in Nat
            /\ n \in Nat /\ run[w].cites + n \in Nat
        BY <1>r, <3>3, RuntimeAssumption DEF RunType
      <4>2. run[w].left \ {s} \in SUBSET Source
        BY <1>r DEF RunType
      <4>3. QED BY <1>r, <4>1, <4>2 DEF RunType
    <3>4. QED BY <3>1, <3>2, <3>3
  <2>3. QED BY <1>11, <1>q, <2>1, <2>2 DEF SearchSource
<1>12. CASE SettleForOnePass(w)
  BY <1>12, <1>q, <1>u DEF SettleForOnePass, Searched
<1>13. CASE FollowUp(w)
  <2>1. StoreStep
    BY <1>13, <1>a DEF FollowUp, Searched
  <2>2. \E r \in RunType : SetRun(w, r)
    BY <1>13, <1>r DEF FollowUp, RunType
  <2>3. QED BY <1>13, <1>q, <2>1, <2>2 DEF FollowUp, Searched
<1>14. CASE Synthesize(w)
  <2>1. StoreStep
    BY <1>14, <1>a DEF Synthesize, Searched
  <2>2. QED BY <1>14, <1>q, <2>1 DEF Synthesize, Searched
<1>15. QED
  BY <1>1, <1>2, <1>3, <1>4, <1>5, <1>6, <1>7, <1>8, <1>9, <1>10, <1>11, <1>12,
     <1>13, <1>14 DEF WorkerStep, ResearchStep

(* The recovery thread fails only what it listed as running.                *)
LEMMA RecoveryStepKeeps ==
  ASSUME StoreTypeOK, RuntimeTypeOK, ClaimInv, RecoveryStep \/ RecoveryFails
  PROVE  StoreStep /\ RuntimeTypeOK' /\ ClaimInv'
<1>t. todo \subseteq Task
  BY DEF RuntimeTypeOK
<1>s. UNCHANGED storeVars => StoreStep
  BY DEF StoreStep
<1>q. ASSUME StoreStep, UNCHANGED run, phase' \in Phase, todo' \subseteq Task,
             \/ UNCHANGED pc
             \/ \E w \in Worker : Goto(w, "dispatched"),
             phase' = "interrupt" => \A t \in todo' : Claimed(t)
      PROVE  StoreStep /\ RuntimeTypeOK' /\ ClaimInv'
  <2>1. RuntimeTypeOK'
    BY <1>q DEF RuntimeTypeOK, Goto, PC
  <2>2. \A x \in Worker : pc'[x] \in Running => pc[x] \in Running
    BY <1>q DEF RuntimeTypeOK, Goto, Running
  <2>3. QED BY <1>q, <2>1, <2>2, NoNewClaim
<1> USE DEF Phase
<1>1. CASE ListRunning
  BY <1>1, <1>s, <1>q DEF ListRunning, Claimed
<1>2. CASE InterruptNext
  <2>1. PICK t \in todo : MarkFailed(t) /\ todo' = todo \ {t}
    BY <1>2 DEF InterruptNext
  <2>2. \A x \in todo : Claimed(x)
    BY <1>2 DEF InterruptNext, ClaimInv
  <2>3. StoreStep
    BY <1>t, <2>1, <2>2 DEF StoreStep
  <2>4. QED BY <1>2, <1>t, <1>q, <2>1, <2>2, <2>3 DEF InterruptNext
<1>3. CASE ListQueued
  BY <1>3, <1>s, <1>q DEF ListQueued
<1>4. CASE ReplayNext
  <2>1. PICK t \in todo : todo' = todo \ {t} /\ Goto(<<t, "recovery">>, "dispatched")
    BY <1>4 DEF ReplayNext
  <2>2. <<t, "recovery">> \in Worker
    BY <1>t, <2>1, WorkerParts
  <2>3. QED BY <1>4, <1>t, <1>s, <1>q, <2>1, <2>2 DEF ReplayNext
<1>5. CASE RecoveryFails
  BY <1>5, <1>s, <1>q DEF RecoveryFails
<1>6. QED BY <1>1, <1>2, <1>3, <1>4, <1>5 DEF RecoveryStep

(* The requests complete, fail and claim nothing.                           *)
LEMMA RequestStepKeeps ==
  ASSUME TypeOK, ClaimInv, RequestStep
  PROVE  StoreStep /\ TypeOK' /\ ClaimInv'
<1>t. /\ StoreTypeOK /\ RuntimeTypeOK /\ todo \subseteq Task
      /\ \A t \in Task : origin[t] \subseteq Task
      /\ \A c \in Canceller : cancel[c].task \subseteq Task
      /\ \A x \in Export : export[x].task \subseteq Task /\ export[x].seen \subseteq Export
      /\ \A t \in Task : status[t] \in Status
  BY DEF TypeOK, StoreTypeOK, RuntimeTypeOK
<1>s. UNCHANGED storeVars => StoreStep
  BY DEF StoreStep
<1>n. ASSUME NEW t \in Task, NEW type \in NoteEvent, AppendEvent(t, type)
      PROVE  StoreStep
  BY <1>n DEF StoreStep
<1>g. ASSUME StoreStep, UNCHANGED <<run, phase, todo, cancel, export, boots>>,
             NEW t \in Task, NEW next \in {"dispatched", "done"} \cup Submitting,
             Goto(<<t, "api">>, next),
             \/ UNCHANGED origin
             \/ \E source \in Task : origin' = [origin EXCEPT ![t] = {source}]
      PROVE  StoreStep /\ TypeOK' /\ ClaimInv'
  <2>1. pc' \in [Worker -> PC]
    BY <1>g DEF TypeOK, RuntimeTypeOK, Goto, PC, Submitting
  <2>2. \A x \in Worker : pc'[x] \in Running => pc[x] \in Running
    BY <1>g, <1>t DEF RuntimeTypeOK, Goto, Running, Submitting
  <2>3. ClaimInv'
    BY <1>g, <1>t, <2>2, NoNewClaim DEF ClaimInv
  <2>4. RuntimeTypeOK' /\ StoreTypeOK'
    BY <1>g, <1>t, <2>1, StoreStepType DEF RuntimeTypeOK
  <2>5. QED BY <1>g, <2>3, <2>4 DEF TypeOK
<1>k. ASSUME StoreStep, UNCHANGED <<runtimeVars, origin, boots>>,
             cancel' \in [Canceller -> [pc : CancelPC, task : SUBSET Task,
                                        code : {0, 200, 409}, body : Status]],
             export' \in [Export -> [pc : ExportPC, task : SUBSET Task,
                                     seen : SUBSET Export]]
      PROVE  StoreStep /\ TypeOK' /\ ClaimInv'
  <2>1. ClaimInv'
    BY <1>k, <1>t, NoNewClaim DEF ClaimInv, runtimeVars
  <2>2. RuntimeTypeOK' /\ StoreTypeOK'
    BY <1>k, <1>t, StoreStepType DEF RuntimeTypeOK, runtimeVars
  <2>3. QED BY <1>k, <2>1, <2>2 DEF TypeOK
<1>c. ASSUME StoreStep, NEW c \in Canceller, NEW next \in CancelPC,
             NEW target \in SUBSET Task, NEW code \in {0, 200, 409},
             NEW body \in Status, CancelSet(c, next, target, code, body)
      PROVE  StoreStep /\ TypeOK' /\ ClaimInv'
  <2>1. /\ cancel' \in [Canceller -> [pc : CancelPC, task : SUBSET Task,
                                       code : {0, 200, 409}, body : Status]]
        /\ UNCHANGED export
    BY <1>c DEF CancelSet, TypeOK
  <2>2. QED BY <1>c, <1>k, <2>1 DEF CancelSet, TypeOK
<1>x. ASSUME StoreStep, NEW x \in Export, NEW next \in ExportPC,
             NEW target \in SUBSET Task, NEW seen \in SUBSET Export,
             ExportSet(x, next, target, seen)
      PROVE  StoreStep /\ TypeOK' /\ ClaimInv'
  <2>1. /\ export' \in [Export -> [pc : ExportPC, task : SUBSET Task,
                                    seen : SUBSET Export]]
        /\ UNCHANGED cancel
    BY <1>x DEF ExportSet, TypeOK
  <2>2. QED BY <1>x, <1>k, <2>1 DEF ExportSet, TypeOK
<1> USE DEF Submitting, requestVars
<1>1. ASSUME NEW t \in Task, Submit(t) PROVE StoreStep /\ TypeOK' /\ ClaimInv'
  <2>1. StoreStep
    BY <1>1, SystemAssumption DEF Submit, StoreStep
  <2>2. QED BY <1>1, <1>g, <2>1 DEF Submit
<1>2. ASSUME NEW t \in Task, NEW source \in Task, Retry(source, t)
      PROVE  StoreStep /\ TypeOK' /\ ClaimInv'
  <2>1. kind[source] \in TaskKind \cup {"none"}
    BY <1>t DEF StoreTypeOK
  <2>2. StoreStep
    BY <1>2, <2>1 DEF Retry, StoreStep
  <2>3. QED BY <1>2, <1>g, <2>2 DEF Retry
<1>3. ASSUME NEW t \in Task, NoteRetryRequested(t)
      PROVE  StoreStep /\ TypeOK' /\ ClaimInv'
  <2>1. StoreStep
    BY <1>3, <1>n, <1>t DEF NoteRetryRequested, NoteEvent
  <2>2. QED BY <1>3, <1>g, <2>1 DEF NoteRetryRequested
<1>4. ASSUME NEW t \in Task, NoteRetryCreated(t)
      PROVE  StoreStep /\ TypeOK' /\ ClaimInv'
  <2>1. StoreStep
    BY <1>4, <1>n DEF NoteRetryCreated, NoteEvent
  <2>2. QED BY <1>4, <1>g, <2>1 DEF NoteRetryCreated
<1>5. ASSUME NEW t \in Task, RetryFails(t) PROVE StoreStep /\ TypeOK' /\ ClaimInv'
  BY <1>5, <1>s, <1>g DEF RetryFails
<1>b. /\ "absent" \in Status
      /\ {"cancelling", "reread", "replied", "lost"} \subseteq CancelPC
      /\ {"linking", "noting", "replied", "lost"} \subseteq ExportPC
  BY DEF Status, CancelPC, ExportPC
<1>6. ASSUME NEW c \in Canceller, NEW t \in Task, CancelLoad(c, t)
      PROVE  StoreStep /\ TypeOK' /\ ClaimInv'
  <2>1. PICK next \in CancelPC, code \in {0, 409}, body \in Status :
          CancelSet(c, next, {t}, code, body)
    <3>1. CASE status[t] = "queued"
      BY <1>6, <1>b, <3>1 DEF CancelLoad
    <3>2. CASE status[t] # "queued"
      <4>1. CancelSet(c, "replied", {t}, 409, status[t])
        BY <1>6, <3>2 DEF CancelLoad
      <4>2. status[t] \in Status
        BY <1>t DEF StoreTypeOK
      <4>3. QED BY <1>b, <4>1, <4>2
    <3>3. QED BY <3>1, <3>2
  <2>2. QED BY <1>6, <1>s, <1>c, <2>1 DEF CancelLoad
<1>7. ASSUME NEW c \in Canceller, CancelWrite(c)
      PROVE  StoreStep /\ TypeOK' /\ ClaimInv'
  <2>1. StoreStep
    BY <1>7, <1>t DEF CancelWrite, StoreStep
  <2>2. QED BY <1>7, <1>t, <1>b, <1>c, <2>1 DEF CancelWrite
<1>8. ASSUME NEW c \in Canceller, CancelReread(c) \/ CancelFails(c)
      PROVE  StoreStep /\ TypeOK' /\ ClaimInv'
  <2>1. PICK next \in CancelPC, target \in SUBSET Task, code \in {0, 200},
             body \in Status : CancelSet(c, next, target, code, body)
    <3>1. CASE CancelReread(c)
      <4>1. PICK t \in cancel[c].task : CancelSet(c, "replied", {t}, 200, status[t])
        BY <3>1 DEF CancelReread
      <4>2. {t} \in SUBSET Task /\ status[t] \in Status
        BY <1>t
      <4>3. QED BY <1>b, <4>1, <4>2
    <3>2. CASE CancelFails(c)
      BY <1>t, <1>b, <3>2 DEF CancelFails
    <3>3. QED BY <1>8, <3>1, <3>2
  <2>2. StoreStep
    BY <1>8, <1>s DEF CancelReread, CancelFails
  <2>3. QED BY <1>c, <2>1, <2>2
<1>9. ASSUME NEW x \in Export, NEW t \in Task, ExportLoad(x, t)
      PROVE  StoreStep /\ TypeOK' /\ ClaimInv'
  <2>1. linked[t] \in SUBSET Export
    BY <1>t DEF StoreTypeOK
  <2>2. QED BY <1>9, <1>s, <1>b, <1>x, <2>1 DEF ExportLoad
<1>10. ASSUME NEW x \in Export, ExportLink(x)
       PROVE  StoreStep /\ TypeOK' /\ ClaimInv'
  <2>1. export[x].seen \cup {x} \in SUBSET Export
    BY <1>t
  <2>2. StoreStep
    BY <1>10, <1>t, <2>1 DEF ExportLink, StoreStep
  <2>3. QED BY <1>10, <1>t, <1>b, <1>x, <2>2 DEF ExportLink
<1>11. ASSUME NEW x \in Export, ExportNote(x)
       PROVE  StoreStep /\ TypeOK' /\ ClaimInv'
  <2>1. StoreStep
    BY <1>11, <1>n, <1>t DEF ExportNote, NoteEvent
  <2>2. QED BY <1>11, <1>t, <1>b, <1>x, <2>1 DEF ExportNote
<1>12. ASSUME NEW x \in Export, ExportFails(x)
       PROVE  StoreStep /\ TypeOK' /\ ClaimInv'
  BY <1>12, <1>s, <1>t, <1>b, <1>x DEF ExportFails
<1>13. QED
  BY <1>1, <1>2, <1>3, <1>4, <1>5, <1>6, <1>7, <1>8, <1>9, <1>10, <1>11, <1>12
     DEF RequestStep

(* Every step is a step of the store, keeps the types and the claims.       *)
LEMMA StepKeeps ==
  TypeOK /\ ClaimInv /\ [Next]_vars => StoreStep /\ TypeOK' /\ ClaimInv'
<1> SUFFICES ASSUME TypeOK, ClaimInv, [Next]_vars
             PROVE  StoreStep /\ TypeOK' /\ ClaimInv'
  OBVIOUS
<1>t. StoreTypeOK /\ RuntimeTypeOK
  BY DEF TypeOK
<1>1. CASE RuntimeStep
  <2>1. StoreStep /\ RuntimeTypeOK' /\ ClaimInv'
    BY <1>1, <1>t, WorkerStepKeeps, RecoveryStepKeeps DEF RuntimeStep
  <2>2. StoreTypeOK'
    BY <1>t, <2>1, StoreStepType
  <2>3. QED BY <1>1, <2>1, <2>2 DEF RuntimeStep, TypeOK, requestVars
<1>2. CASE RequestStep
  BY <1>2, RequestStepKeeps
<1>3. CASE Crash
  <2>1. StoreStep /\ StoreTypeOK'
    BY <1>3, <1>t, StoreStepType DEF Crash, StoreStep
  <2>2. NoRun \in RunType
    BY RuntimeAssumption DEF NoRun, RunType
  <2>3. RuntimeTypeOK'
    BY <1>3, <2>2 DEF Crash, RuntimeBoots, RuntimeTypeOK, PC, Phase
  <2>4. \A w \in Worker : pc'[w] \notin Running
    BY <1>3 DEF Crash, RuntimeBoots, Running
  <2>5. phase' = "boot"
    BY <1>3 DEF Crash, RuntimeBoots
  <2>6. ClaimInv'
    BY <1>t, <2>1, <2>4, <2>5, NoNewClaim
  <2>7. cancel' \in [Canceller -> [pc : CancelPC, task : SUBSET Task,
                                   code : {0, 200, 409}, body : Status]]
    <3> DEFINE CancelType == [pc : CancelPC, task : SUBSET Task,
                              code : {0, 200, 409}, body : Status]
    <3>1. cancel \in [Canceller -> CancelType]
      BY DEF TypeOK
    <3>2. ASSUME NEW r \in CancelType PROVE [r EXCEPT !.pc = "lost"] \in CancelType
      BY DEF CancelPC
    <3>3. cancel' = [c \in Canceller |->
                       IF cancel[c].pc \in {"cancelling", "reread"}
                         THEN [cancel[c] EXCEPT !.pc = "lost"]
                         ELSE cancel[c]]
      BY <1>3 DEF Crash
    <3> HIDE DEF CancelType
    <3>4. cancel' \in [Canceller -> CancelType]
      BY <3>1, <3>2, <3>3
    <3>5. QED BY <3>4 DEF CancelType
  <2>8. export' \in [Export -> [pc : ExportPC, task : SUBSET Task, seen : SUBSET Export]]
    <3> DEFINE ExportType == [pc : ExportPC, task : SUBSET Task, seen : SUBSET Export]
    <3>1. export \in [Export -> ExportType]
      BY DEF TypeOK
    <3>2. ASSUME NEW r \in ExportType PROVE [r EXCEPT !.pc = "lost"] \in ExportType
      BY DEF ExportPC
    <3>3. export' = [x \in Export |->
                       IF export[x].pc \in {"linking", "noting"}
                         THEN [export[x] EXCEPT !.pc = "lost"]
                         ELSE export[x]]
      BY <1>3 DEF Crash
    <3> HIDE DEF ExportType
    <3>4. export' \in [Export -> ExportType]
      BY <3>1, <3>2, <3>3
    <3>5. QED BY <3>4 DEF ExportType
  <2>9. boots' \in Nat /\ origin' \in [Task -> SUBSET Task]
    BY <1>3 DEF Crash, TypeOK
  <2>10. QED BY <2>1, <2>3, <2>6, <2>7, <2>8, <2>9 DEF TypeOK
<1>4. CASE UNCHANGED vars
  <2>1. StoreStep
    BY <1>4 DEF vars, StoreStep
  <2>2. TypeOK'
    BY <1>4 DEF vars, storeVars, runtimeVars, requestVars, TypeOK, StoreTypeOK,
                RuntimeTypeOK
  <2>3. ClaimInv'
    BY <1>4 DEF vars, storeVars, runtimeVars, ClaimInv, HasRunner, Claimed
  <2>4. QED BY <2>1, <2>2, <2>3
<1>5. QED BY <1>1, <1>2, <1>3, <1>4 DEF Next

(* Initially nothing is accepted and nothing claimed.                       *)
LEMMA InitKeeps == Init => TypeOK /\ ClaimInv
<1> SUFFICES ASSUME Init PROVE TypeOK /\ ClaimInv
  OBVIOUS
<1>1. StoreTypeOK
  BY DEF Init, StoreInit, StoreTypeOK, Status
<1>2. NoRun \in RunType
  BY RuntimeAssumption DEF NoRun, RunType
<1>3. RuntimeTypeOK
  BY <1>2 DEF Init, RuntimeInit, RuntimeTypeOK, PC, Phase
<1>4. \A t \in Task, via \in Via : pc[<<t, via>>] \notin Running
  BY WorkerParts DEF Init, RuntimeInit, Running
<1>5. ClaimInv
  BY <1>4 DEF Init, RuntimeInit, ClaimInv, HasRunner
<1>6. QED
  BY <1>1, <1>3, <1>5
     DEF Init, TypeOK, NoCancel, NoExport, CancelPC, ExportPC, Status

(* Type correctness: rows, timelines, research states, threads and requests *)
(* never leave their ranges.                                                *)
THEOREM TypeCorrect == Spec => []TypeOK
<1>1. QED BY InitKeeps, StepKeeps, PTL DEF Spec

(* At most one worker of a task is past its claim, and the recovery thread  *)
(* only interrupts tasks that were claimed.                                 *)
THEOREM ClaimsInOrder == Spec => []ClaimInv
<1>1. QED BY InitKeeps, StepKeeps, PTL DEF Spec

-----------------------------------------------------------------------------
(* A task that was never claimed has no trace of a run.  With the claims in *)
(* order this is inductive, and a cancelled task was never claimed.         *)

RunEvent == ResearchEvent \cup {"started", "output_created"}

NeverRan(t) == t \notin outputs /\ At(t, RunEvent) = {}

UnclaimedNeverRan == \A t \in Task : ~Claimed(t) => NeverRan(t)

(* Appending an event of another type leaves no trace.                      *)
LEMMA RecordOther ==
  ASSUME StoreTypeOK, NEW t \in Task, NEW type \in EventType \ RunEvent,
         Record(t, type), UNCHANGED outputs, NEW u \in Task, NeverRan(u)
  PROVE  NeverRan(u)'
<1>1. timeline[u] \in Seq(EventType) /\ timeline[t] \in Seq(EventType)
  BY DEF StoreTypeOK
<1>2. timeline'[u] = IF u = t THEN Append(timeline[u], type) ELSE timeline[u]
  BY DEF Record, StoreTypeOK
<1>3. \A i \in DOMAIN timeline[u] : timeline[u][i] \notin RunEvent
  BY DEF NeverRan, At
<1>4. \A i \in DOMAIN timeline'[u] : timeline'[u][i] \notin RunEvent
  BY <1>1, <1>2, <1>3
<1>5. QED BY <1>4 DEF NeverRan, At

(* A store step leaves no trace of a run on an unclaimed task.              *)
LEMMA StoreStepTrace ==
  ASSUME StoreTypeOK, StoreStep, UnclaimedNeverRan
  PROVE  UnclaimedNeverRan'
<1> SUFFICES ASSUME NEW u \in Task, ~Claimed(u)' PROVE NeverRan(u)'
  BY DEF UnclaimedNeverRan
<1>u. ~Claimed(u) /\ NeverRan(u)
  BY ClaimedForEver DEF UnclaimedNeverRan
<1>o. ASSUME UNCHANGED <<timeline, outputs>> PROVE NeverRan(u)'
  BY <1>o, <1>u DEF NeverRan, At
<1>e. {"queued", "cancelled"} \cup NoteEvent \subseteq EventType \ RunEvent
  BY DEF EventType, TerminalEvent, NoteEvent, RunEvent, ResearchEvent
(* What is written about a claimed task is written about another task.      *)
<1>c. ASSUME NEW t \in Task, t # u, NEW type, Record(t, type),
             outputs' \subseteq outputs \cup {t}
      PROVE  NeverRan(u)'
  <2>1. timeline'[u] = timeline[u]
    BY <1>c DEF Record, StoreTypeOK
  <2>2. QED BY <1>c, <1>u, <2>1 DEF NeverRan, At
<1>1. CASE UNCHANGED storeVars
  BY <1>1, <1>o DEF storeVars
<1>2. ASSUME NEW t \in Task, NEW k \in TaskKind \cup {"none"}, CreateTask(t, k) PROVE NeverRan(u)'
  BY <1>2, <1>e, <1>u, RecordOther DEF CreateTask
<1>3. ASSUME NEW t \in Task, ClaimTask(t) PROVE NeverRan(u)'
  <2>1. CASE status[t] = "queued"
    <3>1. t # u
      BY <1>3, <2>1 DEF ClaimTask, MoveStatus, Claimed, StoreTypeOK
    <3>2. QED BY <1>3, <1>c, <2>1, <3>1 DEF ClaimTask, MoveStatus
  <2>2. CASE status[t] # "queued"
    BY <1>3, <1>o, <2>2 DEF ClaimTask, MoveStatus
  <2>3. QED BY <2>1, <2>2
<1>4. ASSUME NEW t \in Task, MarkCancelled(t) PROVE NeverRan(u)'
  <2>1. CASE status[t] \in Cancellable
    BY <1>4, <1>e, <1>u, <2>1, RecordOther DEF MarkCancelled, MoveStatus, EventOf
  <2>2. CASE status[t] \notin Cancellable
    BY <1>4, <1>o, <2>2 DEF MarkCancelled, MoveStatus
  <2>3. QED BY <2>1, <2>2
<1>5. ASSUME NEW t \in Task, Claimed(t), MarkCompleted(t) \/ MarkFailed(t)
      PROVE  NeverRan(u)'
  <2>1. UNCHANGED timeline \/ \E type : Record(t, type)
    BY <1>5 DEF MarkCompleted, MarkFailed, MoveStatus
  <2>2. UNCHANGED outputs
    BY <1>5 DEF MarkCompleted, MarkFailed, MoveStatus
  <2>3. QED BY <1>5, <1>u, <1>c, <1>o, <2>1, <2>2
<1>6. ASSUME NEW t \in Task, Claimed(t),
             CreateOutput(t) \/ \E type \in ResearchEvent : AppendEvent(t, type)
      PROVE  NeverRan(u)'
  BY <1>6, <1>u, <1>c DEF CreateOutput, AppendEvent
<1>7. ASSUME NEW t \in Task, NEW type \in NoteEvent, AppendEvent(t, type)
      PROVE  NeverRan(u)'
  BY <1>7, <1>e, <1>u, RecordOther DEF AppendEvent
<1>8. ASSUME NEW t \in Task, NEW links \in SUBSET Export, ReplaceLinks(t, links)
      PROVE  NeverRan(u)'
  BY <1>8, <1>o DEF ReplaceLinks
<1>9. QED BY <1>1, <1>2, <1>3, <1>4, <1>5, <1>6, <1>7, <1>8 DEF StoreStep

(* A cancelled task never ran: no worker ever started it, no retrieval was  *)
(* made for it and no output written, however late the cancellation came.   *)
THEOREM CancelledTasksNeverRan == Spec => []CancelledNeverRan
<1>1. Init => UnclaimedNeverRan
  BY DEF Init, StoreInit, UnclaimedNeverRan, NeverRan, At
<1>2. TypeOK /\ ClaimInv /\ UnclaimedNeverRan /\ [Next]_vars => UnclaimedNeverRan'
  BY StepKeeps, StoreStepTrace DEF TypeOK
<1>3. ClaimInv /\ UnclaimedNeverRan => CancelledNeverRan
  <2> SUFFICES ASSUME ClaimInv, UnclaimedNeverRan,
                      NEW t \in Task, status[t] = "cancelled"
               PROVE  /\ ~HasRunner(t)
                      /\ t \notin outputs
                      /\ At(t, ResearchEvent \cup {"started", "output_created"}) = {}
    BY DEF CancelledNeverRan
  <2>1. ~Claimed(t)
    BY DEF Claimed
  <2>2. QED BY <2>1 DEF ClaimInv, UnclaimedNeverRan, NeverRan, RunEvent
<1>4. QED BY <1>1, <1>2, <1>3, TypeCorrect, ClaimsInOrder, PTL DEF Spec

-----------------------------------------------------------------------------
(* What the timeline tells.  It only ever grows at its end, so it is enough *)
(* to look at one task and the event a step writes about it.                *)

StartsOnce(t) ==
  /\ Claimed(t) <=> At(t, {"started"}) # {}
  /\ \A i, j \in At(t, {"started"}) : i = j

SettlesOnce(t) ==
  /\ IsTerminal(t) <=> At(t, TerminalEvent) # {}
  /\ \A i, j \in At(t, TerminalEvent) : i = j
  /\ \A i \in At(t, TerminalEvent) : timeline[t][i] = status[t]

TimelineInv == \A t \in Task : StartsOnce(t) /\ SettlesOnce(t)

(* What a new event does to the places of events of given types.            *)
LEMMA RecordAt ==
  ASSUME StoreTypeOK, NEW t \in Task, NEW type \in EventType, Record(t, type),
         NEW u \in Task
  PROVE  /\ Len(timeline[u]) \in Nat
         /\ DOMAIN timeline[u] = 1..Len(timeline[u])
         /\ \A i \in 1..Len(timeline[u]) : timeline'[u][i] = timeline[u][i]
         /\ u # t => timeline'[u] = timeline[u]
         /\ u = t => timeline'[u][Len(timeline[u]) + 1] = type
         /\ \A types : At(u, types)' =
              IF u = t /\ type \in types THEN At(u, types) \cup {Len(timeline[u]) + 1}
              ELSE At(u, types)
<1>1. timeline[u] \in Seq(EventType)
  BY DEF StoreTypeOK
<1>2. timeline'[u] = IF u = t THEN Append(timeline[u], type) ELSE timeline[u]
  BY DEF Record, StoreTypeOK
<1>3. /\ Len(timeline[u]) \in Nat
      /\ DOMAIN timeline[u] = 1..Len(timeline[u])
      /\ \A i \in 1..Len(timeline[u]) : timeline'[u][i] = timeline[u][i]
      /\ u = t => timeline'[u][Len(timeline[u]) + 1] = type
      /\ DOMAIN timeline'[u] = IF u = t THEN 1..(Len(timeline[u]) + 1)
                               ELSE 1..Len(timeline[u])
  BY <1>1, <1>2
<1>4. ASSUME NEW types
      PROVE  At(u, types)' =
               IF u = t /\ type \in types THEN At(u, types) \cup {Len(timeline[u]) + 1}
               ELSE At(u, types)
  BY <1>3 DEF At
<1>5. QED BY <1>2, <1>3, <1>4

(* A step leaves a task alone, notes something on its timeline, or moves it *)
(* and says so.                                                             *)
Note == ResearchEvent \cup NoteEvent \cup {"output_created"}

Alone(t) == status'[t] = status[t] /\ timeline'[t] = timeline[t]

Noted(t, type) == status'[t] = status[t] /\ Record(t, type)

Moved(t, to) ==
  /\ <<status[t], to>> \in Moves
  /\ status'[t] = to
  /\ Record(t, EventOf(to))

TaskStep(t) ==
  \/ Alone(t)
  \/ \E type \in Note : Noted(t, type)
  \/ \E to \in Status : Moved(t, to)

LEMMA OneTaskStep ==
  ASSUME StoreTypeOK, StoreStep, NEW u \in Task
  PROVE  TaskStep(u)
<1>n. ASSUME NEW t \in Task, NEW type \in Note, Record(t, type), UNCHANGED status
      PROVE  TaskStep(u)
  <2>1. CASE u = t
    BY <1>n, <2>1 DEF TaskStep, Noted
  <2>2. CASE u # t
    BY <1>n, <2>2 DEF TaskStep, Alone, Record, StoreTypeOK
  <2>3. QED BY <2>1, <2>2
<1>m. ASSUME NEW t \in Task, NEW to \in Status, <<status[t], to>> \in Moves,
             status' = [status EXCEPT ![t] = to], Record(t, EventOf(to))
      PROVE  TaskStep(u)
  <2>1. CASE u = t
    BY <1>m, <2>1 DEF TaskStep, Moved, StoreTypeOK
  <2>2. CASE u # t
    BY <1>m, <2>2 DEF TaskStep, Alone, Record, StoreTypeOK
  <2>3. QED BY <2>1, <2>2
<1>s. {"queued", "running", "completed", "failed", "cancelled"} \subseteq Status
  BY DEF Status, TerminalStatus
<1>a. ASSUME UNCHANGED <<status, timeline>> PROVE TaskStep(u)
  BY <1>a DEF TaskStep, Alone
<1>1. CASE UNCHANGED storeVars
  BY <1>1, <1>a DEF storeVars
<1>2. ASSUME NEW t \in Task, NEW k \in TaskKind \cup {"none"}, CreateTask(t, k) PROVE TaskStep(u)
  BY <1>2, <1>m, <1>s DEF CreateTask, Moves, EventOf
<1>3. ASSUME NEW t \in Task, ClaimTask(t) \/ MarkCancelled(t) PROVE TaskStep(u)
  BY <1>3, <1>a, <1>m, <1>s DEF ClaimTask, MarkCancelled, MoveStatus, Cancellable, Moves
<1>4. ASSUME NEW t \in Task, Claimed(t), MarkCompleted(t) \/ MarkFailed(t) PROVE TaskStep(u)
  BY <1>4, <1>a, <1>m, <1>s
     DEF MarkCompleted, MarkFailed, MoveStatus, Completable, Unsettled, Claimed, Moves
<1>5. ASSUME NEW t \in Task, CreateOutput(t) PROVE TaskStep(u)
  BY <1>5, <1>n DEF CreateOutput, Note
<1>6. ASSUME NEW t \in Task, NEW type \in ResearchEvent \cup NoteEvent,
             AppendEvent(t, type)
      PROVE  TaskStep(u)
  BY <1>6, <1>n DEF AppendEvent, Note
<1>7. ASSUME NEW t \in Task, NEW links \in SUBSET Export, ReplaceLinks(t, links)
      PROVE  TaskStep(u)
  BY <1>7, <1>a DEF ReplaceLinks
<1>8. QED
  BY <1>1, <1>2, <1>3, <1>4, <1>5, <1>6, <1>7 DEF StoreStep

(* A move is reported by one event: a start, or the end it leads to.        *)
LEMMA MoveEvents ==
  ASSUME NEW t \in Task, NEW to \in Status, <<status[t], to>> \in Moves
  PROVE  /\ EventOf(to) \in EventType
         /\ EventOf(to) = "started" <=> to = "running"
         /\ EventOf(to) \in TerminalEvent <=> to \in TerminalStatus
         /\ to \in TerminalStatus => EventOf(to) = to
         /\ to = "running" => ~Claimed(t)
         /\ to # "running" => (to \in {"running", "completed", "failed"} <=> Claimed(t))
         /\ status[t] \notin TerminalStatus
  BY DEF Moves, EventOf, EventType, TerminalEvent, TerminalStatus, Claimed

LEMMA TimelineStep ==
  ASSUME StoreTypeOK, StoreStep, TimelineInv
  PROVE  TimelineInv'
<1> SUFFICES ASSUME NEW t \in Task PROVE StartsOnce(t)' /\ SettlesOnce(t)'
  BY DEF TimelineInv
<1> DEFINE n == Len(timeline[t])
<1>t. StartsOnce(t) /\ SettlesOnce(t)
  BY DEF TimelineInv
<1>1. CASE Alone(t)
  <2>1. \A types : At(t, types)' = At(t, types)
    BY <1>1 DEF Alone, At
  <2>2. (Claimed(t)' <=> Claimed(t)) /\ (IsTerminal(t)' <=> IsTerminal(t))
    BY <1>1 DEF Alone, Claimed, IsTerminal
  <2>3. QED BY <1>1, <1>t, <2>1, <2>2 DEF Alone, StartsOnce, SettlesOnce
<1>2. ASSUME NEW type \in Note, Noted(t, type) PROVE StartsOnce(t)' /\ SettlesOnce(t)'
  <2>1. type \in EventType /\ type \notin TerminalEvent /\ type # "started"
    BY DEF Note, NoteEvent, ResearchEvent, EventType, TerminalEvent
  <2>2. /\ DOMAIN timeline[t] = 1..n
        /\ \A i \in 1..n : timeline'[t][i] = timeline[t][i]
        /\ At(t, {"started"})' = At(t, {"started"})
        /\ At(t, TerminalEvent)' = At(t, TerminalEvent)
    BY <1>2, <2>1, RecordAt DEF Noted
  <2>3. \A i \in At(t, TerminalEvent) : timeline'[t][i] = timeline[t][i]
    BY <2>2 DEF At
  <2>4. (Claimed(t)' <=> Claimed(t)) /\ (IsTerminal(t)' <=> IsTerminal(t))
    BY <1>2 DEF Noted, Claimed, IsTerminal
  <2>5. QED BY <1>2, <1>t, <2>2, <2>3, <2>4 DEF Noted, StartsOnce, SettlesOnce
<1>3. ASSUME NEW to \in Status, Moved(t, to) PROVE StartsOnce(t)' /\ SettlesOnce(t)'
  <2> DEFINE type == EventOf(to)
  <2>m. /\ type \in EventType
        /\ type = "started" <=> to = "running"
        /\ type \in TerminalEvent <=> to \in TerminalStatus
        /\ to \in TerminalStatus => type = to
        /\ to = "running" => ~Claimed(t)
        /\ to # "running" => (to \in {"running", "completed", "failed"} <=> Claimed(t))
        /\ status[t] \notin TerminalStatus
    BY <1>3, MoveEvents DEF Moved
  <2>r. Record(t, type) /\ status'[t] = to
    BY <1>3 DEF Moved
  <2> HIDE DEF type
  <2>1. /\ n \in Nat
        /\ timeline'[t][n + 1] = type
        /\ \A types : At(t, types)' =
             IF type \in types THEN At(t, types) \cup {n + 1} ELSE At(t, types)
    BY <2>m, <2>r, RecordAt
  <2>2. Claimed(t)' <=> to \in {"running", "completed", "failed"}
    BY <2>r DEF Claimed
  <2>3. StartsOnce(t)'
    <3>1. CASE to = "running"
      <4>1. At(t, {"started"}) = {}
        BY <1>t, <2>m, <3>1 DEF StartsOnce
      <4>2. At(t, {"started"})' = {n + 1}
        BY <2>1, <2>m, <3>1, <4>1
      <4>3. QED BY <2>2, <3>1, <4>2 DEF StartsOnce
    <3>2. CASE to # "running"
      <4>1. At(t, {"started"})' = At(t, {"started"})
        BY <2>1, <2>m, <3>2
      <4>2. QED BY <1>t, <2>2, <2>m, <3>2, <4>1 DEF StartsOnce
    <3>3. QED BY <3>1, <3>2
  <2>4. SettlesOnce(t)'
    <3>1. At(t, TerminalEvent) = {}
      BY <1>t, <2>m DEF SettlesOnce, IsTerminal
    <3>2. At(t, TerminalEvent)' = IF to \in TerminalStatus THEN {n + 1} ELSE {}
      BY <2>1, <2>m, <3>1
    <3>3. IsTerminal(t)' <=> to \in TerminalStatus
      BY <2>r DEF IsTerminal
    <3>4. QED BY <2>1, <2>m, <2>r, <3>2, <3>3 DEF SettlesOnce
  <2>5. QED BY <2>3, <2>4
<1>4. QED BY <1>1, <1>2, <1>3, OneTaskStep DEF TaskStep

(* Initially no timeline tells anything.                                    *)
LEMMA TimelineInit == Init => TimelineInv
<1> SUFFICES ASSUME Init, NEW t \in Task PROVE StartsOnce(t) /\ SettlesOnce(t)
  BY DEF TimelineInv
<1>1. timeline[t] = <<>> /\ status[t] = "absent"
  BY DEF Init, StoreInit
<1>2. \A types : At(t, types) = {}
  BY <1>1 DEF At
<1>3. QED
  BY <1>1, <1>2 DEF StartsOnce, SettlesOnce, Claimed, IsTerminal, TerminalStatus

-----------------------------------------------------------------------------
(* The canvas.  Its output is written between the claim and the completion, *)
(* by the one worker that holds the task; a completed task has no worker.   *)

Researching == {"resolving", "skipping", "stepping", "searching"}

CanvasInv(t) ==
  /\ \A via \in Via :
       /\ pc[<<t, via>>] \in Researching => kind[t] # "canvas"
       /\ pc[<<t, via>>] = "publishing" => At(t, {"output_created"}) = {}
       /\ pc[<<t, via>>] = "completing" /\ kind[t] = "canvas" => t \in outputs
  /\ status[t] = "completed" => ~HasRunner(t)
  /\ status[t] = "completed" /\ kind[t] = "canvas" => t \in outputs
  /\ \A i, j \in At(t, {"output_created"}) : i = j
  /\ \A i \in At(t, {"output_created"}), j \in At(t, {"completed"}) : i < j

(* What a step does to the canvas of a task: nothing, to one that nobody    *)
(* claims, publishes or completes; or one of these three.                   *)

StoreQuiet(t) ==
  /\ kind[t] = kind'[t] \/ status[t] = "absent"
  /\ t \in outputs <=> t \in outputs'
  /\ status'[t] = status[t] \/ status'[t] # "completed"
  /\ At(t, {"output_created"})' = At(t, {"output_created"})
  /\ At(t, {"completed"})' = At(t, {"completed"})

RunnersStay(t) ==
  \A via \in Via : pc'[<<t, via>>] \in Running =>
    \/ pc'[<<t, via>>] = pc[<<t, via>>]
    \/ pc[<<t, via>>] \in Researching /\ pc'[<<t, via>>] \in Researching \cup {"completing"}

Quiet(t) == StoreQuiet(t) /\ RunnersStay(t)

(* Only the worker that came this way moves.                                *)
OnlyVia(t, via) == \A v \in Via \ {via} : pc'[<<t, v>>] = pc[<<t, v>>]

CanvasStep(t) ==
  \/ Quiet(t)
  \/ \E via \in Via :
       /\ OnlyVia(t, via)
       /\ \/ /\ status[t] = "queued"
             /\ StoreQuiet(t)
             /\ pc'[<<t, via>>] = FirstStep(kind[t])
          \/ PublishCanvas(<<t, via>>)
          \/ status[t] = "running" /\ Complete(<<t, via>>)

(* Every step but an output and a completion is quiet in the store.         *)
LEMMA QuietStores ==
  ASSUME StoreTypeOK, NEW t \in Task, NEW u \in Task,
         \/ UNCHANGED storeVars
         \/ \E k \in TaskKind \cup {"none"} : CreateTask(u, k)
         \/ ClaimTask(u)
         \/ MarkCancelled(u)
         \/ MarkFailed(u)
         \/ \E type \in ResearchEvent \cup NoteEvent : AppendEvent(u, type)
         \/ \E links \in SUBSET Export : ReplaceLinks(u, links)
         \/ u # t /\ (CreateOutput(u) \/ MarkCompleted(u))
         \/ status[u] \notin {"queued", "running"} /\ MarkCompleted(u)
  PROVE  StoreQuiet(t)
<1>a. ASSUME UNCHANGED timeline
      PROVE  \A types : At(t, types)' = At(t, types)
  BY <1>a DEF At
<1>r. ASSUME NEW type \in EventType, Record(u, type),
             u # t \/ type \notin {"output_created", "completed"}
      PROVE  /\ At(t, {"output_created"})' = At(t, {"output_created"})
             /\ At(t, {"completed"})' = At(t, {"completed"})
  BY <1>r, RecordAt
<1>m. ASSUME NEW from, NEW to \in {"running", "cancelled", "failed", "completed"},
             MoveStatus(u, from, to), u # t \/ to # "completed"
      PROVE  StoreQuiet(t)
  <2>1. EventOf(to) \in EventType /\ (EventOf(to) = "completed" => to = "completed")
        /\ EventOf(to) # "output_created"
    BY DEF EventOf, EventType, TerminalEvent
  <2>2. /\ At(t, {"output_created"})' = At(t, {"output_created"})
        /\ At(t, {"completed"})' = At(t, {"completed"})
    BY <1>a, <1>m, <1>r, <2>1 DEF MoveStatus
  <2>3. status'[t] = status[t] \/ status'[t] # "completed"
    BY <1>m DEF MoveStatus, StoreTypeOK
  <2>4. QED BY <1>m, <2>2, <2>3 DEF MoveStatus, StoreQuiet
<1>1. CASE UNCHANGED storeVars
  BY <1>1, <1>a DEF storeVars, StoreQuiet
<1>2. ASSUME NEW k \in TaskKind \cup {"none"}, CreateTask(u, k) PROVE StoreQuiet(t)
  <2>1. "queued" \in EventType
    BY DEF EventType
  <2>2. /\ At(t, {"output_created"})' = At(t, {"output_created"})
        /\ At(t, {"completed"})' = At(t, {"completed"})
    BY <1>2, <1>r, <2>1 DEF CreateTask
  <2>3. QED BY <1>2, <2>2 DEF CreateTask, StoreQuiet, StoreTypeOK
<1>3. CASE ClaimTask(u) \/ MarkCancelled(u) \/ MarkFailed(u)
  BY <1>3, <1>m DEF ClaimTask, MarkCancelled, MarkFailed
<1>4. ASSUME NEW type \in ResearchEvent \cup NoteEvent, AppendEvent(u, type)
      PROVE  StoreQuiet(t)
  <2>1. type \in EventType \ {"output_created", "completed"}
    BY DEF EventType, ResearchEvent, NoteEvent
  <2>2. QED BY <1>4, <1>r, <2>1 DEF AppendEvent, StoreQuiet
<1>5. ASSUME NEW links \in SUBSET Export, ReplaceLinks(u, links) PROVE StoreQuiet(t)
  BY <1>5, <1>a DEF ReplaceLinks, StoreQuiet
<1>6. CASE u # t /\ CreateOutput(u)
  <2>1. "output_created" \in EventType
    BY DEF EventType
  <2>2. QED BY <1>6, <1>r, <2>1 DEF CreateOutput, StoreQuiet
<1>7. CASE u # t /\ MarkCompleted(u)
  BY <1>7, <1>m DEF MarkCompleted
<1>8. CASE status[u] \notin {"queued", "running"} /\ MarkCompleted(u)
  BY <1>8, <1>a DEF MarkCompleted, MoveStatus, Completable, StoreQuiet
<1>9. QED BY <1>1, <1>2, <1>3, <1>4, <1>5, <1>6, <1>7, <1>8

(* A step of a worker, seen from any task.                                  *)
LEMMA WorkerCanvasStep ==
  ASSUME StoreTypeOK, RuntimeTypeOK, ClaimInv, NEW w \in Worker,
         WorkerStep(w) \/ RunDies(w), NEW t \in Task
  PROVE  CanvasStep(t)
<1> DEFINE u == w[1]
<1>u. u \in Task /\ w[2] \in Via /\ w = <<u, w[2]>>
  BY WorkerParts
<1>g. ASSUME NEW next, Goto(w, next)
      PROVE  /\ \A via \in Via : pc'[<<t, via>>] =
                  IF <<t, via>> = w THEN next ELSE pc[<<t, via>>]
             /\ u # t => RunnersStay(t)
             /\ next \notin Running => RunnersStay(t)
             /\ u = t => OnlyVia(t, w[2]) /\ pc'[<<t, w[2]>>] = next
  <2>1. \A via \in Via : pc'[<<t, via>>] = IF <<t, via>> = w THEN next ELSE pc[<<t, via>>]
    BY <1>g, WorkerParts DEF Goto, RuntimeTypeOK
  <2>2. u # t => RunnersStay(t)
    BY <1>u, <2>1 DEF RunnersStay
  <2>3. next \notin Running => RunnersStay(t)
    BY <2>1 DEF RunnersStay
  <2>4. u = t => OnlyVia(t, w[2]) /\ pc'[<<t, w[2]>>] = next
    BY <1>u, <2>1 DEF OnlyVia
  <2>5. QED BY <2>1, <2>2, <2>3, <2>4
<1>1. CASE Claim(w)
  <2>1. StoreQuiet(t)
    BY <1>1, <1>u, QuietStores DEF Claim
  <2>2. "done" \notin Running
    BY DEF Running
  <2>3. CASE u = t /\ status[u] = "queued"
    <3>1. pc'[<<t, w[2]>>] = FirstStep(kind[t])
      BY <1>1, <1>g, <1>u, <2>3 DEF Claim
    <3>2. OnlyVia(t, w[2])
      BY <1>1, <1>g, <2>3 DEF Claim
    <3>3. QED BY <1>u, <2>1, <2>3, <3>1, <3>2 DEF CanvasStep
  <2>4. CASE u # t \/ status[u] # "queued"
    <3>1. RunnersStay(t)
      BY <1>1, <1>g, <2>2, <2>4 DEF Claim
    <3>2. QED BY <2>1, <3>1 DEF CanvasStep, Quiet
  <2>5. QED BY <2>3, <2>4
<1>2. CASE PublishCanvas(w)
  <2>1. CASE u = t
    <3>1. OnlyVia(t, w[2])
      BY <1>2, <1>g, <2>1 DEF PublishCanvas
    <3>2. PublishCanvas(<<t, w[2]>>)
      BY <1>2, <1>u, <2>1
    <3>3. QED BY <1>u, <3>1, <3>2 DEF CanvasStep
  <2>2. CASE u # t
    <3>1. StoreQuiet(t)
      BY <1>2, <1>u, <2>2, QuietStores DEF PublishCanvas
    <3>2. RunnersStay(t)
      BY <1>2, <1>g, <2>2 DEF PublishCanvas
    <3>3. QED BY <3>1, <3>2 DEF CanvasStep, Quiet
  <2>3. QED BY <2>1, <2>2
<1>3. CASE Complete(w)
  <2>1. Claimed(u)
    BY <1>3, <1>u DEF Complete, ClaimInv, HasRunner, Running
  <2>2. CASE u = t /\ status[u] = "running"
    <3>1. OnlyVia(t, w[2])
      BY <1>3, <1>g, <2>2 DEF Complete
    <3>2. Complete(<<t, w[2]>>)
      BY <1>3, <1>u, <2>2
    <3>3. QED BY <1>u, <2>2, <3>1, <3>2 DEF CanvasStep
  <2>3. CASE u # t \/ status[u] # "running"
    <3>1. StoreQuiet(t)
      <4>1. u # t \/ status[u] \notin {"queued", "running"}
        BY <2>1, <2>3 DEF Claimed
      <4>2. QED BY <1>3, <1>u, <4>1, QuietStores DEF Complete
    <3>2. RunnersStay(t)
      <4>1. "done" \notin Running
        BY DEF Running
      <4>2. QED BY <1>3, <1>g, <4>1 DEF Complete
    <3>3. QED BY <3>1, <3>2 DEF CanvasStep, Quiet
  <2>4. QED BY <2>2, <2>3
<1>4. CASE GiveUp(w)
  <2>1. StoreQuiet(t)
    BY <1>4, <1>u, QuietStores DEF GiveUp
  <2>2. RunnersStay(t)
    BY <1>4, <1>g DEF GiveUp, Running
  <2>3. QED BY <2>1, <2>2 DEF CanvasStep, Quiet
<1>5. CASE RunDies(w)
  <2>1. StoreQuiet(t)
    BY <1>5, <1>u, QuietStores DEF RunDies
  <2>2. RunnersStay(t)
    BY <1>5, <1>g DEF RunDies, Running
  <2>3. QED BY <2>1, <2>2 DEF CanvasStep, Quiet
<1>6. CASE ResearchStep(w)
  <2>1. StoreQuiet(t)
    <3>1. UNCHANGED storeVars \/ \E type \in ResearchEvent : AppendEvent(u, type)
      BY <1>6 DEF ResearchStep, Resolve, SkipUnready, SearchOnce, PlanResearch, StartStep,
                  SearchSource, SettleForOnePass, FollowUp, Synthesize, ResearchEvent
    <3>2. QED BY <1>u, <3>1, QuietStores
  <2>2. RunnersStay(t)
    <3>1. \/ UNCHANGED pc
          \/ /\ pc[w] \in Researching
             /\ \E next \in Researching \cup {"completing"} : Goto(w, next)
      BY <1>6 DEF ResearchStep, Resolve, SkipUnready, SearchOnce, PlanResearch, StartStep,
                  SearchSource, SettleForOnePass, FollowUp, Synthesize, Researching,
                  Resolved, Searched
    <3>2. QED BY <1>g, <3>1 DEF RunnersStay
  <2>3. QED BY <2>1, <2>2 DEF CanvasStep, Quiet
<1>7. QED BY <1>1, <1>2, <1>3, <1>4, <1>5, <1>6 DEF WorkerStep

(* Every other step is quiet.                                               *)
LEMMA OtherCanvasStep ==
  ASSUME TypeOK,
         RecoveryStep \/ RecoveryFails \/ RequestStep \/ Crash \/ UNCHANGED vars,
         NEW t \in Task
  PROVE  CanvasStep(t)
<1>t. /\ StoreTypeOK /\ RuntimeTypeOK /\ todo \subseteq Task
      /\ \A u \in Task : origin[u] \subseteq Task /\ kind[u] \in TaskKind \cup {"none"}
      /\ \A c \in Canceller : cancel[c].task \subseteq Task
      /\ \A x \in Export : export[x].task \subseteq Task /\ export[x].seen \subseteq Export
  BY DEF TypeOK, StoreTypeOK, RuntimeTypeOK
<1>u. UNCHANGED storeVars => StoreQuiet(t)
  BY <1>t, QuietStores
<1>s. StoreQuiet(t)
  <2>1. CASE RecoveryStep \/ RecoveryFails
    <3>1. UNCHANGED storeVars \/ \E u \in Task : MarkFailed(u)
      BY <1>t, <2>1 DEF RecoveryStep, RecoveryFails, ListRunning, InterruptNext, ListQueued,
                        ReplayNext
    <3>2. QED BY <1>t, <3>1, <1>u, QuietStores
  <2>2. CASE RequestStep
    <3>1. \/ UNCHANGED storeVars
          \/ \E u \in Task :
               \/ \E k \in TaskKind \cup {"none"} : CreateTask(u, k)
               \/ MarkCancelled(u)
               \/ \E type \in NoteEvent : AppendEvent(u, type)
               \/ \E links \in SUBSET Export : ReplaceLinks(u, links)
      <4>1. CASE \E u \in Task : \/ Submit(u) \/ NoteRetryRequested(u)
                                 \/ NoteRetryCreated(u) \/ RetryFails(u)
                                 \/ \E source \in Task : Retry(source, u)
        BY <1>t, <4>1, SystemAssumption
           DEF Submit, Retry, NoteRetryRequested, NoteRetryCreated, RetryFails, NoteEvent
      <4>2. CASE \E c \in Canceller : \/ CancelWrite(c) \/ CancelReread(c) \/ CancelFails(c)
                                      \/ \E u \in Task : CancelLoad(c, u)
        BY <1>t, <4>2 DEF CancelLoad, CancelWrite, CancelReread, CancelFails
      <4>3. CASE \E x \in Export : \/ ExportLink(x) \/ ExportNote(x) \/ ExportFails(x)
                                   \/ \E u \in Task : ExportLoad(x, u)
        <5>1. \A x \in Export : export[x].seen \cup {x} \in SUBSET Export
          BY <1>t
        <5>2. QED BY <1>t, <4>3, <5>1 DEF ExportLoad, ExportLink, ExportNote, ExportFails, NoteEvent
      <4>4. QED BY <2>2, <4>1, <4>2, <4>3 DEF RequestStep
    <3>2. QED BY <1>t, <3>1, <1>u, QuietStores
  <2>3. CASE Crash \/ UNCHANGED vars
    BY <1>u, <2>3 DEF Crash, vars
  <2>4. QED BY <2>1, <2>2, <2>3
<1>r. RunnersStay(t)
  <2>g. ASSUME NEW w \in Worker, NEW next \in {"dispatched", "done"} \cup Submitting,
               Goto(w, next)
        PROVE  RunnersStay(t)
    <3>1. \A via \in Via : pc'[<<t, via>>] = IF <<t, via>> = w THEN next ELSE pc[<<t, via>>]
      BY <1>t, <2>g, WorkerParts DEF Goto, RuntimeTypeOK
    <3>2. next \notin Running
      BY DEF Running, Submitting
    <3>3. QED BY <3>1, <3>2 DEF RunnersStay
  <2>u. UNCHANGED pc => RunnersStay(t)
    BY DEF RunnersStay
  <2>1. CASE RecoveryStep \/ RecoveryFails
    <3>1. UNCHANGED pc \/ \E u \in Task : Goto(<<u, "recovery">>, "dispatched")
      BY <1>t, <2>1 DEF RecoveryStep, RecoveryFails, ListRunning, InterruptNext, ListQueued,
                        ReplayNext
    <3>2. QED BY <2>g, <2>u, <3>1, WorkerParts
  <2>2. CASE RequestStep
    <3>1. \/ UNCHANGED pc
          \/ \E u \in Task, next \in {"dispatched", "done"} \cup Submitting :
               Goto(<<u, "api">>, next)
      BY <2>2 DEF RequestStep, Submit, Retry, NoteRetryRequested, NoteRetryCreated,
                  RetryFails, CancelLoad, CancelWrite, CancelReread, CancelFails, CancelSet,
                  ExportLoad, ExportLink, ExportNote, ExportFails, ExportSet, runtimeVars,
                  Submitting
    <3>2. QED BY <2>g, <2>u, <3>1, WorkerParts
  <2>3. CASE Crash
    BY <2>3, WorkerParts DEF Crash, RuntimeBoots, RunnersStay, Running
  <2>4. CASE UNCHANGED vars
    BY <2>4, <2>u DEF vars, runtimeVars
  <2>5. QED BY <2>1, <2>2, <2>3, <2>4
<1>1. QED BY <1>s, <1>r DEF CanvasStep, Quiet

(* Such a step keeps the canvas right.                                      *)
LEMMA CanvasKeeps ==
  ASSUME StoreTypeOK, RuntimeTypeOK, ClaimInv, NEW t \in Task, CanvasInv(t),
         UnclaimedNeverRan, SettlesOnce(t), CanvasStep(t)
  PROVE  CanvasInv(t)'
<1>h. ~Claimed(t) => /\ At(t, {"output_created"}) = {}
                     /\ \A via \in Via : pc[<<t, via>>] \notin Running
  BY DEF UnclaimedNeverRan, NeverRan, At, RunEvent, ClaimInv, HasRunner
<1>c. status[t] # "completed" => At(t, {"completed"}) = {}
  <2> SUFFICES ASSUME NEW i \in At(t, {"completed"}) PROVE status[t] = "completed"
    OBVIOUS
  <2>1. i \in At(t, TerminalEvent) /\ timeline[t][i] = "completed"
    BY DEF At, TerminalEvent
  <2>2. QED BY <2>1 DEF SettlesOnce
<1>r. Researching \cup {"publishing", "completing"} = Running /\ "done" \notin Running
  BY DEF Researching, Running
<1>o. ASSUME NEW u \in Via, NEW v \in Via, u # v, pc[<<t, u>>] \in Running
      PROVE  pc[<<t, v>>] \notin Running
  BY <1>o DEF ClaimInv
<1>1. CASE Quiet(t)
  <2>1. CASE status[t] = "absent"
    <3>1. \A via \in Via : pc'[<<t, via>>] \notin Running
      BY <1>1, <1>h, <1>r, <2>1 DEF Quiet, RunnersStay, Claimed
    <3>2. status'[t] # "completed"
      BY <1>1, <2>1 DEF Quiet, StoreQuiet
    <3>3. At(t, {"output_created"})' = {}
      BY <1>1, <1>h, <2>1 DEF Quiet, StoreQuiet, Claimed
    <3>4. QED BY <1>r, <3>1, <3>2, <3>3 DEF CanvasInv
  <2>2. CASE status[t] # "absent"
    <3>1. \A via \in Via :
            /\ pc'[<<t, via>>] \in Researching => kind'[t] # "canvas"
            /\ pc'[<<t, via>>] = "publishing" => At(t, {"output_created"})' = {}
            /\ pc'[<<t, via>>] = "completing" /\ kind'[t] = "canvas" => t \in outputs'
      BY <1>1, <1>r, <2>2 DEF Quiet, StoreQuiet, RunnersStay, CanvasInv, Researching
    <3>2. status'[t] = "completed" => status[t] = "completed" /\ ~HasRunner(t)'
      BY <1>1, <1>r, <2>2 DEF Quiet, StoreQuiet, RunnersStay, CanvasInv, HasRunner
    <3>3. QED BY <1>1, <2>2, <3>1, <3>2 DEF Quiet, StoreQuiet, CanvasInv
  <2>3. QED BY <2>1, <2>2
<1>2. ASSUME NEW via \in Via, OnlyVia(t, via), status[t] = "queued", StoreQuiet(t),
             pc'[<<t, via>>] = FirstStep(kind[t])
      PROVE  CanvasInv(t)'
  <2>1. At(t, {"output_created"})' = {} /\ status'[t] # "completed" /\ kind'[t] = kind[t]
    BY <1>2, <1>h DEF StoreQuiet, Claimed
  <2>2. \A v \in Via \ {via} : pc'[<<t, v>>] \notin Running
    BY <1>2, <1>h DEF OnlyVia, Claimed
  <2>3. /\ FirstStep(kind[t]) \in Researching => kind[t] # "canvas"
        /\ FirstStep(kind[t]) = "completing" => kind[t] # "canvas"
    BY DEF FirstStep, Researching, ResearchKind
  <2>4. QED BY <1>2, <1>r, <2>1, <2>2, <2>3 DEF CanvasInv
<1>3. ASSUME NEW via \in Via, OnlyVia(t, via), PublishCanvas(<<t, via>>)
      PROVE  CanvasInv(t)'
  <2>p. pc[<<t, via>>] = "publishing" /\ <<t, via>> \in Worker
    BY <1>3, WorkerParts DEF PublishCanvas
  <2>1. /\ pc'[<<t, via>>] = "completing"
        /\ \A v \in Via \ {via} : pc'[<<t, v>>] \notin Running
    BY <1>3, <1>o, <1>r, <2>p DEF PublishCanvas, Goto, OnlyVia, RuntimeTypeOK
  <2>2. status'[t] = status[t] /\ status[t] # "completed" /\ t \in outputs'
    BY <1>3, <1>r, <2>p DEF PublishCanvas, CreateOutput, CanvasInv, HasRunner
  <2>3. /\ At(t, {"output_created"})' = {Len(timeline[t]) + 1}
        /\ At(t, {"completed"})' = {}
    <3>1. "output_created" \in EventType /\ Record(t, "output_created")
      BY <1>3 DEF EventType, PublishCanvas, CreateOutput
    <3>2. /\ At(t, {"output_created"})' =
                At(t, {"output_created"}) \cup {Len(timeline[t]) + 1}
          /\ At(t, {"completed"})' = At(t, {"completed"})
      BY <3>1, RecordAt
    <3>3. QED BY <1>c, <2>2, <2>p, <3>2 DEF CanvasInv
  <2>4. QED BY <1>r, <2>1, <2>2, <2>3 DEF CanvasInv, Researching
<1>4. ASSUME NEW via \in Via, OnlyVia(t, via), status[t] = "running",
             Complete(<<t, via>>)
      PROVE  CanvasInv(t)'
  <2>p. pc[<<t, via>>] = "completing" /\ <<t, via>> \in Worker
    BY <1>4, WorkerParts DEF Complete
  <2>1. \A v \in Via : pc'[<<t, v>>] \notin Running
    BY <1>4, <1>o, <1>r, <2>p DEF Complete, Goto, OnlyVia, RuntimeTypeOK
  <2>2. /\ Record(t, "completed") /\ UNCHANGED <<kind, outputs>>
        /\ "completed" \in EventType
    BY <1>4 DEF Complete, MarkCompleted, MoveStatus, Completable, EventOf, EventType,
                TerminalEvent
  <2>3. /\ DOMAIN timeline[t] = 1..Len(timeline[t]) /\ Len(timeline[t]) \in Nat
        /\ At(t, {"output_created"})' = At(t, {"output_created"})
        /\ At(t, {"completed"})' = At(t, {"completed"}) \cup {Len(timeline[t]) + 1}
    BY <2>2, RecordAt
  <2>4. \A i \in At(t, {"output_created"})', j \in At(t, {"completed"})' : i < j
    <3>1. At(t, {"output_created"}) \subseteq 1..Len(timeline[t])
      BY <2>3 DEF At
    <3>2. QED BY <1>4, <1>c, <2>3, <3>1
  <2>5. kind[t] = "canvas" => t \in outputs
    BY <2>p DEF CanvasInv
  <2>6. QED BY <1>r, <2>1, <2>2, <2>3, <2>4, <2>5 DEF CanvasInv, HasRunner
<1>5. QED BY <1>1, <1>2, <1>3, <1>4 DEF CanvasStep

CanvasesInv == \A t \in Task : CanvasInv(t)

LEMMA CanvasStepKeeps ==
  TypeOK /\ ClaimInv /\ UnclaimedNeverRan /\ TimelineInv /\ CanvasesInv /\ [Next]_vars
    => CanvasesInv'
<1> SUFFICES ASSUME TypeOK, ClaimInv, UnclaimedNeverRan, TimelineInv, CanvasesInv,
                    [Next]_vars, NEW t \in Task
             PROVE  CanvasInv(t)'
  BY DEF CanvasesInv
<1>1. CanvasStep(t)
  <2>1. StoreTypeOK /\ RuntimeTypeOK
    BY DEF TypeOK
  <2>2. CASE \E w \in Worker : WorkerStep(w) \/ RunDies(w)
    BY <2>1, <2>2, WorkerCanvasStep
  <2>3. CASE RecoveryStep \/ RecoveryFails \/ RequestStep \/ Crash \/ UNCHANGED vars
    BY <2>3, OtherCanvasStep
  <2>4. QED BY <2>2, <2>3 DEF Next, RuntimeStep
<1>2. QED BY <1>1, CanvasKeeps DEF TypeOK, TimelineInv, CanvasesInv

LEMMA CanvasInit == Init => CanvasesInv
<1> SUFFICES ASSUME Init, NEW t \in Task PROVE CanvasInv(t)
  BY DEF CanvasesInv
<1>1. timeline[t] = <<>> /\ status[t] = "absent"
  BY DEF Init, StoreInit
<1>2. \A types : At(t, types) = {}
  BY <1>1 DEF At
<1>3. \A via \in Via : pc[<<t, via>>] = "idle"
  BY WorkerParts DEF Init, RuntimeInit
<1>4. QED BY <1>1, <1>2, <1>3 DEF CanvasInv, Researching

(* What the timelines and the canvases rest on.                             *)
RunInv == ClaimInv /\ UnclaimedNeverRan /\ TimelineInv /\ CanvasesInv

THEOREM RunsInOrder == Spec => []RunInv
<1>1. Init => RunInv
  BY InitKeeps, TimelineInit, CanvasInit
     DEF RunInv, Init, StoreInit, UnclaimedNeverRan, NeverRan, At
<1>2. TypeOK /\ RunInv /\ [Next]_vars => RunInv'
  BY StepKeeps, StoreStepTrace, TimelineStep, CanvasStepKeeps DEF RunInv, TypeOK
<1>3. QED BY <1>1, <1>2, TypeCorrect, PTL DEF Spec

(* A task is worked on by one worker, however many took it up; its timeline *)
(* settles once and as the row does; and a canvas that says completed has   *)
(* the one output it was asked for, written before it said so.              *)
THEOREM TasksRunExactlyOnce == Spec => []TasksRunOnce
<1>1. RunInv => SingleClaim
  BY DEF RunInv, ClaimInv, TimelineInv, StartsOnce, SingleClaim
<1>2. RunInv => TimelineSettlesOnce
  BY DEF RunInv, TimelineInv, SettlesOnce, TimelineSettlesOnce
<1>3. RunInv => CompletedCanvasHasOutput
  BY DEF RunInv, CanvasesInv, CanvasInv, CompletedCanvasHasOutput
<1>4. RunInv => TasksRunOnce
  BY <1>1, <1>2, <1>3 DEF TasksRunOnce
<1>5. QED BY <1>4, RunsInOrder, PTL

-----------------------------------------------------------------------------
(* Who is still going to act on a task.                                     *)

Taken(t) ==
  /\ status[t] = "queued" => QueuedHasTaker(t)
  /\ status[t] = "running" => RunningHasTaker(t)

(* A step of another task's worker, or one that is not about the task.      *)
LEMMA TakerStays ==
  ASSUME NEW t \in Task, Taken(t), UNCHANGED <<phase, todo>>,
         status'[t] = status[t], \A via \in Via : pc'[<<t, via>>] = pc[<<t, via>>]
  PROVE  Taken(t)'
  BY DEF Taken, QueuedHasTaker, RunningHasTaker, HasRunner

(* A worker hands its task on until the task is settled.                    *)
LEMMA WorkerTakes ==
  ASSUME TypeOK, ClaimInv, NEW t \in Task, Taken(t), NEW w \in Worker, WorkerStep(w)
  PROVE  Taken(t)'
<1>t. pc \in [Worker -> PC] /\ status \in [Task -> Status] /\ kind \in [Task -> TaskKind \cup {"none"}]
  BY DEF TypeOK, StoreTypeOK, RuntimeTypeOK
<1>w. w[1] \in Task /\ w[2] \in Via /\ w = <<w[1], w[2]>>
  BY WorkerParts
<1>p. UNCHANGED <<phase, todo>>
  BY DEF WorkerStep, ResearchStep, Claim, PublishCanvas, Complete, GiveUp, Resolve,
         SkipUnready, SearchOnce, PlanResearch, StartStep, SearchSource,
         SettleForOnePass, FollowUp, Synthesize, Stays
<1>o. \A v \in Worker : v # w => pc'[v] = pc[v]
  BY <1>t DEF WorkerStep, ResearchStep, Claim, PublishCanvas, Complete, GiveUp, Resolve,
         SkipUnready, SearchOnce, PlanResearch, StartStep, SearchSource,
         SettleForOnePass, FollowUp, Synthesize, Goto
<1>c. pc[w] \in Running => Claimed(w[1])
  BY <1>w DEF ClaimInv, HasRunner
<1>1. CASE w[1] # t
  <2>1. status'[t] = status[t]
    BY <1>t, <1>w, <1>1
    DEF WorkerStep, ResearchStep, Claim, PublishCanvas, Complete, GiveUp, Resolve,
         SkipUnready, SearchOnce, PlanResearch, StartStep, SearchSource,
         SettleForOnePass, FollowUp, Synthesize, ClaimTask, MarkCompleted, MarkFailed,
         MoveStatus, CreateOutput, AppendEvent, storeVars
  <2>2. \A via \in Via : <<t, via>> \in Worker /\ <<t, via>> # w
    BY <1>w, <1>1, WorkerParts
  <2>3. QED BY <1>o, <1>p, <2>1, <2>2, TakerStays
<1>2. CASE w[1] = t /\ Claim(w)
  <2>1. CASE status[t] = "queued"
    <3>1. status'[t] = "running"
      BY <1>t, <1>2, <2>1 DEF Claim, ClaimTask, MoveStatus
    <3>2. pc'[w] \in Running
      BY <1>t, <1>2, <2>1 DEF Claim, Goto, FirstStep, Running
    <3>3. QED BY <1>w, <1>2, <3>1, <3>2 DEF Taken, RunningHasTaker, HasRunner
  <2>2. CASE status[t] # "queued"
    <3>1. status'[t] = status[t]
      BY <1>t, <1>2, <2>2 DEF Claim, ClaimTask, MoveStatus
    <3>2. pc[w] \notin Running
      BY <1>2 DEF Claim, Running
    <3>3. HasRunner(t) => HasRunner(t)'
      BY <1>o, <1>w, <1>2, <3>2, WorkerParts DEF HasRunner
    <3>4. QED BY <1>p, <2>2, <3>1, <3>3 DEF Taken, RunningHasTaker
  <2>3. QED BY <2>1, <2>2
<1>3. CASE w[1] = t /\ (Complete(w) \/ GiveUp(w))
  <2>1. pc[w] \in Running
    BY <1>3 DEF Complete, GiveUp, Running
  <2>2. status'[t] \notin {"queued", "running"}
    BY <1>t, <1>c, <1>3, <2>1
       DEF Complete, GiveUp, MarkCompleted, MarkFailed, MoveStatus, Completable,
           Unsettled, Claimed
  <2>3. QED BY <2>2 DEF Taken
<1>4. CASE w[1] = t /\ (PublishCanvas(w) \/ ResearchStep(w))
  <2>1. pc[w] \in Running /\ pc'[w] \in Running
    BY <1>t, <1>4
       DEF PublishCanvas, ResearchStep, Resolve, SkipUnready, SearchOnce, PlanResearch,
           StartStep, SearchSource, SettleForOnePass, FollowUp, Synthesize, Resolved,
           Searched, Goto, Running
  <2>2. status'[t] = status[t]
    BY <1>4
       DEF PublishCanvas, ResearchStep, Resolve, SkipUnready, SearchOnce, PlanResearch,
           StartStep, SearchSource, SettleForOnePass, FollowUp, Synthesize, CreateOutput,
           AppendEvent, storeVars
  <2>3. QED BY <1>c, <1>w, <1>4, <2>1, <2>2 DEF Taken, RunningHasTaker, HasRunner, Claimed
<1>5. QED BY <1>1, <1>2, <1>3, <1>4 DEF WorkerStep

(* Recovery takes up what nobody else would.                                *)
LEMMA RecoveryTakes ==
  ASSUME TypeOK, NEW t \in Task, Taken(t), RecoveryStep
  PROVE  Taken(t)'
<1>t. pc \in [Worker -> PC] /\ status \in [Task -> Status]
  BY DEF TypeOK, StoreTypeOK, RuntimeTypeOK
<1>1. CASE ListRunning
  BY <1>1 DEF ListRunning, storeVars, Taken, QueuedHasTaker, RunningHasTaker, HasRunner
<1>2. CASE InterruptNext
  <2>1. PICK u \in todo : MarkFailed(u) /\ todo' = todo \ {u}
    BY <1>2 DEF InterruptNext
  <2>2. UNCHANGED <<pc, phase>> /\ phase = "interrupt"
    BY <1>2 DEF InterruptNext
  <2>3. CASE u = t
    <3>1. status'[t] \notin {"queued", "running"}
      BY <1>t, <2>1, <2>3 DEF MarkFailed, MoveStatus, Unsettled
    <3>2. QED BY <3>1 DEF Taken
  <2>4. CASE u # t
    <3>1. status'[t] = status[t]
      BY <1>t, <2>1, <2>4 DEF MarkFailed, MoveStatus
    <3>2. QED BY <2>1, <2>2, <2>4, <3>1
              DEF Taken, QueuedHasTaker, RunningHasTaker, HasRunner
  <2>5. QED BY <2>3, <2>4
<1>3. CASE ListQueued
  BY <1>3 DEF ListQueued, storeVars, Taken, QueuedHasTaker, RunningHasTaker, HasRunner
<1>4. CASE ReplayNext
  <2>1. PICK u \in todo : todo' = todo \ {u} /\ Goto(<<u, "recovery">>, "dispatched")
    BY <1>4 DEF ReplayNext
  <2>2. UNCHANGED <<status, phase>> /\ phase = "replay"
    BY <1>4 DEF ReplayNext, storeVars
  <2>3. u \in Task /\ pc[<<u, "recovery">>] \in {"idle", "done"}
    BY <1>4, <2>1 DEF ReplayNext, TypeOK, RuntimeTypeOK
  <2>4. \A v \in Worker : pc'[v] = IF v = <<u, "recovery">> THEN "dispatched" ELSE pc[v]
    BY <1>t, <2>1 DEF Goto
  <2>5. HasRunner(t) => HasRunner(t)'
    BY <2>3, <2>4, WorkerParts DEF HasRunner, Running
  <2>6. QueuedHasTaker(t) => QueuedHasTaker(t)'
    <3>1. CASE u = t
      BY <2>4, <3>1, WorkerParts DEF QueuedHasTaker
    <3>2. CASE u # t
      BY <2>1, <2>2, <2>4, <3>2, WorkerParts DEF QueuedHasTaker
    <3>3. QED BY <3>1, <3>2
  <2>7. QED BY <2>2, <2>5, <2>6 DEF Taken, RunningHasTaker
<1>5. QED BY <1>1, <1>2, <1>3, <1>4 DEF RecoveryStep

(* A request hands the task it creates to a worker, and cancels only what   *)
(* is still queued.                                                         *)
LEMMA RequestTakes ==
  ASSUME ~StoreFaults, TypeOK, NEW t \in Task, Taken(t), RequestStep
  PROVE  Taken(t)'
<1>t. pc \in [Worker -> PC] /\ status \in [Task -> Status]
  BY DEF TypeOK, StoreTypeOK, RuntimeTypeOK
<1>1. ASSUME NEW u \in Task, NEW k, NEW next \in {"dispatched", "noting_source"},
             CreateTask(u, k), Goto(<<u, "api">>, next), UNCHANGED <<phase, todo>>
      PROVE  Taken(t)'
  <2>1. CASE u = t
    <3>1. status'[t] = "queued"
      BY <1>t, <1>1, <2>1 DEF CreateTask
    <3>2. pc'[<<t, "api">>] = next
      BY <1>t, <1>1, <2>1, WorkerParts DEF Goto
    <3>3. QED BY <1>1, <3>1, <3>2, WorkerParts DEF Taken, QueuedHasTaker, Submitting
  <2>2. CASE u # t
    BY <1>t, <1>1, <2>2, TakerStays, WorkerParts DEF CreateTask, Goto
  <2>3. QED BY <2>1, <2>2
<1>2. ASSUME NEW u \in Task, pc[<<u, "api">>] \in Submitting,
             NEW next \in {"dispatched", "noting_target"}, Goto(<<u, "api">>, next),
             UNCHANGED <<status, phase, todo>>
      PROVE  Taken(t)'
  <2>1. \A v \in Worker : pc'[v] = IF v = <<u, "api">> THEN next ELSE pc[v]
    BY <1>t, <1>2 DEF Goto
  <2>2. HasRunner(t) => HasRunner(t)'
    BY <1>2, <2>1, WorkerParts DEF HasRunner, Running, Submitting
  <2>3. QueuedHasTaker(t) => QueuedHasTaker(t)'
    <3>1. CASE u = t
      BY <1>2, <2>1, <3>1, WorkerParts DEF QueuedHasTaker, Submitting
    <3>2. CASE u # t
      BY <1>2, <2>1, <3>2, WorkerParts DEF QueuedHasTaker
    <3>3. QED BY <3>1, <3>2
  <2>4. QED BY <1>2, <2>2, <2>3 DEF Taken, RunningHasTaker
<1>3. ASSUME NEW u \in Task,
             \/ Submit(u) \/ NoteRetryRequested(u) \/ NoteRetryCreated(u)
             \/ \E source \in Task : Retry(source, u)
      PROVE  Taken(t)'
  BY <1>1, <1>2, <1>3
     DEF Submit, NoteRetryRequested, NoteRetryCreated, Retry, AppendEvent, Submitting
<1>4. ASSUME NEW c \in Canceller,
             CancelWrite(c) \/ CancelReread(c) \/ \E u \in Task : CancelLoad(c, u)
      PROVE  Taken(t)'
  <2>1. UNCHANGED <<pc, phase, todo>>
    BY <1>4 DEF CancelWrite, CancelReread, CancelLoad, CancelSet, runtimeVars
  <2>2. status'[t] = status[t] \/ status'[t] = "cancelled"
    BY <1>t, <1>4 DEF CancelWrite, CancelReread, CancelLoad, MarkCancelled, MoveStatus, storeVars
  <2>3. QED BY <2>1, <2>2, TakerStays DEF Taken
<1>5. ASSUME NEW x \in Export,
             ExportLink(x) \/ ExportNote(x) \/ \E u \in Task : ExportLoad(x, u)
      PROVE  Taken(t)'
  <2>1. UNCHANGED <<status, pc, phase, todo>>
    BY <1>5 DEF ExportLink, ExportNote, ExportLoad, ExportSet, ReplaceLinks, AppendEvent,
                runtimeVars, storeVars
  <2>2. QED BY <2>1, TakerStays
<1>6. QED BY <1>3, <1>4, <1>5 DEF RequestStep, RetryFails, CancelFails, ExportFails

(* A task that is queued or running is never without somebody to act on it, *)
(* as long as the store answers: neither a crash, nor the recovery that     *)
(* runs beside live workers, nor a worker that comes second loses one.      *)
LEMMA NobodyStranded == Spec => []NoTaskStranded
<1>1. Init => NoTaskStranded
  BY DEF Init, StoreInit, NoTaskStranded
<1>2. TypeOK /\ ClaimInv /\ NoTaskStranded /\ [Next]_vars => NoTaskStranded'
  <2> SUFFICES ASSUME TypeOK, ClaimInv, [Next]_vars, ~StoreFaults, NEW t \in Task, Taken(t)
               PROVE  Taken(t)'
    BY DEF NoTaskStranded, Taken
  <2>1. CASE UNCHANGED vars
    BY <2>1, TakerStays DEF vars, storeVars, runtimeVars
  <2>2. CASE RuntimeStep
    BY <2>2, WorkerTakes, RecoveryTakes DEF RuntimeStep, RunDies, RecoveryFails
  <2>3. CASE RequestStep
    BY <2>3, RequestTakes
  <2>4. CASE Crash
    BY <2>4 DEF Crash, RuntimeBoots, Taken, QueuedHasTaker, RunningHasTaker
  <2>5. QED BY <2>1, <2>2, <2>3, <2>4 DEF Next
<1>3. QED BY <1>1, <1>2, TypeCorrect, ClaimsInOrder, PTL DEF Spec

-----------------------------------------------------------------------------
(* The lineage of a retry: who has named its source, or is about to.        *)

LineageEvent == {"retry_requested", "retry_created"}

Naming(t) == At(t, {"retry_created"}) # {} \/ pc[<<t, "api">>] = "noting_target"

Retries(source) == {t \in Task : source \in origin[t] /\ Naming(t)}

Requests(source) == At(source, {"retry_requested"})

(* The source has heard of every retry before the retry names it.           *)
LineageInv ==
  /\ \A t \in Task : status[t] = "absent" =>
       ~Naming(t) /\ pc[<<t, "api">>] # "noting_source"
  /\ \A t \in Task : \A r, s \in origin[t] : r = s
  /\ \A source \in Task :
       /\ IsFiniteSet(Retries(source))
       /\ IsFiniteSet(Requests(source))
       /\ Cardinality(Retries(source)) <= Cardinality(Requests(source))

(* Nothing is said of a retry.                                              *)
Silent ==
  \/ UNCHANGED timeline
  \/ \E t \in Task, type \in EventType \ LineageEvent : Record(t, type)

LEMMA SilentLineage ==
  ASSUME StoreTypeOK, Silent, NEW t \in Task
  PROVE  /\ At(t, {"retry_created"})' = At(t, {"retry_created"})
         /\ Requests(t)' = Requests(t)
<1>1. CASE UNCHANGED timeline
  BY <1>1 DEF At, Requests
<1>2. ASSUME NEW u \in Task, NEW type \in EventType \ LineageEvent, Record(u, type)
      PROVE  /\ At(t, {"retry_created"})' = At(t, {"retry_created"})
             /\ Requests(t)' = Requests(t)
  BY <1>2, RecordAt DEF LineageEvent, Requests
<1>3. QED BY <1>1, <1>2 DEF Silent

(* A step after which no source is named by a retry that did not name it    *)
(* before.                                                                  *)
LEMMA NobodyNew ==
  ASSUME LineageInv,
         \A t \in Task : status'[t] = "absent" =>
           /\ status[t] = "absent"
           /\ pc'[<<t, "api">>] = "noting_source" => pc[<<t, "api">>] = "noting_source",
         \A t \in Task : Naming(t)' => Naming(t) /\ origin'[t] = origin[t],
         \A t \in Task : \A r, s \in origin'[t] : r = s,
         \A source \in Task : Requests(source)' = Requests(source)
  PROVE  LineageInv'
<1>1. ASSUME NEW source \in Task
      PROVE  /\ IsFiniteSet(Retries(source))'
             /\ IsFiniteSet(Requests(source))'
             /\ (Cardinality(Retries(source)) <= Cardinality(Requests(source)))'
  <2>1. Retries(source)' \in SUBSET Retries(source)
    BY DEF Retries
  <2>2. /\ IsFiniteSet(Retries(source)')
        /\ Cardinality(Retries(source)') <= Cardinality(Retries(source))
        /\ Cardinality(Retries(source)') \in Nat
    BY <2>1, FS_Subset, FS_CardinalityType DEF LineageInv
  <2>3. Cardinality(Retries(source)) \in Nat /\ Cardinality(Requests(source)) \in Nat
    BY FS_CardinalityType DEF LineageInv
  <2>4. QED BY <2>2, <2>3 DEF LineageInv
<1>2. QED BY <1>1 DEF LineageInv

(* The source hears of the retry.                                           *)
LEMMA SourceHears ==
  ASSUME StoreTypeOK, pc \in [Worker -> PC], LineageInv, UNCHANGED origin,
         NEW t \in Task, NoteRetryRequested(t), origin[t] \subseteq Task
  PROVE  LineageInv'
<1>1. PICK source \in origin[t] : AppendEvent(source, "retry_requested")
  BY DEF NoteRetryRequested
<1>s. source \in Task /\ \A s \in origin[t] : s = source
  BY DEF LineageInv
<1>2. /\ Record(source, "retry_requested") /\ UNCHANGED status
      /\ "retry_requested" \in EventType
  BY <1>1 DEF AppendEvent, EventType
<1>3. /\ Len(timeline[source]) \in Nat
      /\ DOMAIN timeline[source] = 1 .. Len(timeline[source])
      /\ Requests(source)' = Requests(source) \cup {Len(timeline[source]) + 1}
      /\ \A u \in Task \ {source} : Requests(u)' = Requests(u)
      /\ \A u \in Task : At(u, {"retry_created"})' = At(u, {"retry_created"})
  BY <1>2, <1>s, RecordAt DEF Requests
<1>4. \A u \in Task : pc'[<<u, "api">>] = IF u = t THEN "noting_target" ELSE pc[<<u, "api">>]
  BY WorkerParts DEF NoteRetryRequested, Goto
<1>5. \A u \in Task : Naming(u)' <=> Naming(u) \/ u = t
  BY <1>3, <1>4 DEF Naming
<1>6. ASSUME NEW u \in Task \ {source}
      PROVE  Retries(u)' = Retries(u)
  BY <1>5, <1>s DEF Retries
<1>7. Retries(source)' = Retries(source) \cup {t}
  BY <1>5, <1>s DEF Retries
<1>8. /\ IsFiniteSet(Retries(source)')
      /\ IsFiniteSet(Requests(source)')
      /\ Cardinality(Retries(source)') <= Cardinality(Requests(source)')
  <2>1. IsFiniteSet(Retries(source)) /\ IsFiniteSet(Requests(source))
        /\ Cardinality(Retries(source)) <= Cardinality(Requests(source))
    BY <1>s DEF LineageInv
  <2>2. Cardinality(Retries(source)) \in Nat /\ Cardinality(Requests(source)) \in Nat
    BY <2>1, FS_CardinalityType
  <2>3. Len(timeline[source]) + 1 \notin Requests(source)
    BY <1>3 DEF Requests, At
  <2>4. /\ IsFiniteSet(Requests(source)')
        /\ Cardinality(Requests(source)') = Cardinality(Requests(source)) + 1
    <3> DEFINE R == Requests(source)
               n == Len(timeline[source]) + 1
    <3> HIDE DEF R, n
    <3>1. IsFiniteSet(R) /\ n \notin R
      BY <2>1, <2>3 DEF R, n
    <3>2. IsFiniteSet(R \cup {n}) /\ Cardinality(R \cup {n}) = Cardinality(R) + 1
      BY <3>1, FS_AddElement
    <3>3. QED BY <1>3, <3>2 DEF R, n
  <2>5. /\ IsFiniteSet(Retries(source)')
        /\ Cardinality(Retries(source)') \in
             {Cardinality(Retries(source)), Cardinality(Retries(source)) + 1}
    BY <1>7, <2>1, FS_AddElement
  <2>6. QED BY <2>1, <2>2, <2>4, <2>5
<1>9. status[t] # "absent"
  BY DEF NoteRetryRequested, LineageInv
<1>10. \A u \in Task : status'[u] = "absent" =>
        ~Naming(u)' /\ pc'[<<u, "api">>] # "noting_source"
  BY <1>2, <1>4, <1>5, <1>9 DEF LineageInv
<1>11. ASSUME NEW u \in Task \ {source}
       PROVE  /\ IsFiniteSet(Retries(u))'
              /\ IsFiniteSet(Requests(u))'
              /\ (Cardinality(Retries(u)) <= Cardinality(Requests(u)))'
  BY <1>3, <1>6 DEF LineageInv
<1>12. QED BY <1>8, <1>10, <1>11 DEF LineageInv

(* Everything but a retry's own steps is silent about it.                   *)
SilentStep ==
  /\ Silent
  /\ UNCHANGED origin
  /\ \A t \in Task : pc'[<<t, "api">>] \in Submitting => pc'[<<t, "api">>] = pc[<<t, "api">>]

LEMMA SilentStepKeeps ==
  ASSUME StoreTypeOK, StoreStep, LineageInv, SilentStep
  PROVE  LineageInv'
<1>1. \A t \in Task : /\ At(t, {"retry_created"})' = At(t, {"retry_created"})
                      /\ Requests(t)' = Requests(t)
  BY SilentLineage DEF SilentStep
<1>2. \A t \in Task : status'[t] = "absent" => status[t] = "absent"
  BY StoreStepMoves DEF StatusMove, Moves, StoreTypeOK
<1>3. \A t \in Task : Naming(t)' => Naming(t)
  BY <1>1 DEF Naming, SilentStep, Submitting
<1>4. \A t \in Task :
        pc'[<<t, "api">>] = "noting_source" => pc[<<t, "api">>] = "noting_source"
  BY DEF SilentStep, Submitting
<1>5. /\ \A t \in Task : Naming(t)' => Naming(t) /\ origin'[t] = origin[t]
      /\ \A t \in Task : \A r, s \in origin'[t] : r = s
  BY <1>3 DEF SilentStep, LineageInv
<1>6. QED BY <1>1, <1>2, <1>4, <1>5, NobodyNew

LEMMA RuntimeIsSilent ==
  ASSUME TypeOK, ClaimInv, RuntimeStep
  PROVE  SilentStep
<1>t. /\ pc \in [Worker -> PC] /\ todo \subseteq Task
      /\ \A w \in Worker : w[1] \in Task
      /\ \A t \in Task : <<t, "api">> \in Worker
  BY WorkerParts DEF TypeOK, RuntimeTypeOK
<1>e. {"started", "completed", "failed", "output_created"} \cup ResearchEvent
        \subseteq EventType \ LineageEvent
  BY DEF EventType, TerminalEvent, ResearchEvent, LineageEvent
<1>m. ASSUME NEW t \in Task, ClaimTask(t) \/ MarkCompleted(t) \/ MarkFailed(t)
      PROVE  Silent
  BY <1>e, <1>m DEF ClaimTask, MarkCompleted, MarkFailed, MoveStatus, EventOf, Silent
<1>1. UNCHANGED origin
  BY DEF RuntimeStep, requestVars
<1>2. Silent
  <2>1. ASSUME NEW w \in Worker, WorkerStep(w) \/ RunDies(w)
        PROVE  Silent
    <3>1. \/ UNCHANGED timeline
          \/ ClaimTask(w[1]) \/ MarkCompleted(w[1]) \/ MarkFailed(w[1])
          \/ \E type \in {"output_created"} \cup ResearchEvent : Record(w[1], type)
      BY <2>1
         DEF WorkerStep, RunDies, ResearchStep, Claim, PublishCanvas, Complete, GiveUp, Resolve,
             SkipUnready, SearchOnce, PlanResearch, StartStep, SearchSource,
             SettleForOnePass, FollowUp, Synthesize, CreateOutput, AppendEvent, storeVars,
             ResearchEvent
    <3>2. QED BY <1>t, <1>e, <1>m, <3>1 DEF Silent
  <2>2. ASSUME RecoveryStep \/ RecoveryFails
        PROVE  Silent
    <3>1. UNCHANGED timeline \/ \E t \in Task : MarkFailed(t)
      BY <1>t, <2>2 DEF RecoveryStep, RecoveryFails, ListRunning, InterruptNext, ListQueued,
                        ReplayNext, storeVars
    <3>2. QED BY <1>m, <3>1 DEF Silent
  <2>3. QED BY <2>1, <2>2 DEF RuntimeStep
<1>3. \A t \in Task :
        pc'[<<t, "api">>] \in Submitting => pc'[<<t, "api">>] = pc[<<t, "api">>]
  <2>1. UNCHANGED pc \/ \E w \in Worker, next \in PC \ Submitting : Goto(w, next)
    <3>1. ASSUME NEW w \in Worker, WorkerStep(w) \/ RunDies(w)
          PROVE  UNCHANGED pc \/ \E next \in PC \ Submitting : Goto(w, next)
      BY <3>1
         DEF WorkerStep, RunDies, ResearchStep, Claim, PublishCanvas, Complete, GiveUp, Resolve,
             SkipUnready, SearchOnce, PlanResearch, StartStep, SearchSource,
             SettleForOnePass, FollowUp, Synthesize, FirstStep, PC, Submitting, Running
    <3>2. ASSUME RecoveryStep \/ RecoveryFails
          PROVE  UNCHANGED pc \/ \E w \in Worker, next \in PC \ Submitting : Goto(w, next)
      <4>1. "dispatched" \in PC \ Submitting /\ \A t \in Task : <<t, "recovery">> \in Worker
        BY WorkerParts DEF PC, Submitting
      <4>2. QED BY <1>t, <3>2, <4>1
                   DEF RecoveryStep, RecoveryFails, ListRunning, InterruptNext, ListQueued,
                       ReplayNext
    <3>3. QED BY <3>1, <3>2 DEF RuntimeStep
  <2>2. QED BY <1>t, <2>1 DEF Goto
<1>4. QED BY <1>1, <1>2, <1>3 DEF SilentStep

LEMMA LineageStep ==
  TypeOK /\ ClaimInv /\ LineageInv /\ [Next]_vars => LineageInv'
<1> SUFFICES ASSUME TypeOK, ClaimInv, LineageInv, [Next]_vars
             PROVE  LineageInv'
  OBVIOUS
<1>t. /\ StoreTypeOK /\ pc \in [Worker -> PC] /\ StoreStep
      /\ \A t \in Task : origin[t] \subseteq Task
      /\ \A t \in Task : <<t, "api">> \in Worker
  BY StepKeeps, WorkerParts DEF TypeOK, RuntimeTypeOK
<1>e. {"queued", "cancelled", "output_exported"} \subseteq EventType \ LineageEvent
  BY DEF EventType, TerminalEvent, LineageEvent
<1>p. UNCHANGED <<timeline, origin, pc>> => SilentStep
  BY DEF SilentStep, Silent
<1>1. CASE UNCHANGED vars
  BY <1>1, <1>p, <1>t, SilentStepKeeps DEF vars, storeVars, runtimeVars, requestVars
<1>2. CASE RuntimeStep
  BY <1>2, <1>t, RuntimeIsSilent, SilentStepKeeps
<1>3. CASE Crash
  <2>1. SilentStep
    BY <1>3, <1>t DEF Crash, RuntimeBoots, SilentStep, Silent, storeVars, Submitting
  <2>2. QED BY <1>t, <2>1, SilentStepKeeps
<1>4. ASSUME NEW c \in Canceller,
             \/ CancelWrite(c) \/ CancelReread(c) \/ CancelFails(c)
             \/ \E t \in Task : CancelLoad(c, t)
      PROVE  LineageInv'
  <2>1. Silent
    <3>1. UNCHANGED timeline \/ \E t \in Task : MarkCancelled(t)
      <4>1. CASE CancelWrite(c)
        BY <4>1 DEF CancelWrite, TypeOK
      <4>2. CASE CancelReread(c) \/ CancelFails(c) \/ \E t \in Task : CancelLoad(c, t)
        BY <4>2 DEF CancelReread, CancelFails, CancelLoad, storeVars
      <4>3. QED BY <1>4, <4>1, <4>2
    <3>2. QED BY <1>e, <3>1 DEF MarkCancelled, MoveStatus, EventOf, Silent
  <2>2. UNCHANGED <<origin, pc>>
    BY <1>4 DEF CancelWrite, CancelReread, CancelFails, CancelLoad, CancelSet, runtimeVars
  <2>3. QED BY <1>t, <2>1, <2>2, SilentStepKeeps DEF SilentStep
<1>5. ASSUME NEW x \in Export,
             \/ ExportLink(x) \/ ExportNote(x) \/ ExportFails(x)
             \/ \E t \in Task : ExportLoad(x, t)
      PROVE  LineageInv'
  <2>1. Silent
    <3>1. UNCHANGED timeline \/ \E t \in Task : Record(t, "output_exported")
      BY <1>5 DEF ExportLink, ExportNote, ExportFails, ExportLoad, ReplaceLinks, AppendEvent,
                  storeVars, TypeOK
    <3>2. QED BY <1>e, <3>1 DEF Silent
  <2>2. UNCHANGED <<origin, pc>>
    BY <1>5 DEF ExportLink, ExportNote, ExportFails, ExportLoad, ExportSet, runtimeVars
  <2>3. QED BY <1>t, <2>1, <2>2, SilentStepKeeps DEF SilentStep
<1>6. ASSUME NEW t \in Task, Submit(t) \/ RetryFails(t)
      PROVE  LineageInv'
  <2>1. Silent
    BY <1>6, <1>e DEF Submit, RetryFails, CreateTask, Silent, storeVars
  <2>2. UNCHANGED origin
    BY <1>6 DEF Submit, RetryFails, requestVars
  <2>3. \A u \in Task :
          pc'[<<u, "api">>] \in Submitting => pc'[<<u, "api">>] = pc[<<u, "api">>]
    BY <1>6, <1>t DEF Submit, RetryFails, Goto, Submitting
  <2>4. QED BY <1>t, <2>1, <2>2, <2>3, SilentStepKeeps DEF SilentStep
<1>7. ASSUME NEW t \in Task, NEW source \in Task, Retry(source, t)
      PROVE  LineageInv'
  <2>1. Silent
    BY <1>7, <1>e DEF Retry, CreateTask, Silent
  <2>2. \A u \in Task : /\ At(u, {"retry_created"})' = At(u, {"retry_created"})
                        /\ Requests(u)' = Requests(u)
    BY <1>t, <2>1, SilentLineage
  <2>3. status[t] = "absent" /\ ~Naming(t) /\ status'[t] = "queued"
    BY <1>7, <1>t DEF Retry, CreateTask, LineageInv, StoreTypeOK
  <2>4. \A u \in Task \ {t} : /\ pc'[<<u, "api">>] = pc[<<u, "api">>]
                              /\ origin'[u] = origin[u]
                              /\ status'[u] = status[u]
    BY <1>7, <1>t DEF Retry, Goto, CreateTask, TypeOK, StoreTypeOK
  <2>5. pc'[<<t, "api">>] = "noting_source" /\ origin'[t] = {source}
    BY <1>7, <1>t DEF Retry, Goto, TypeOK
  <2>6. \A u \in Task : Naming(u)' => u # t /\ Naming(u)
    BY <2>2, <2>3, <2>4, <2>5 DEF Naming
  <2>7. /\ \A u \in Task : Naming(u)' => Naming(u) /\ origin'[u] = origin[u]
        /\ \A u \in Task : \A r, s \in origin'[u] : r = s
    <3>1. \A u \in Task \ {t} : \A r, s \in origin'[u] : r = s
      BY <2>4 DEF LineageInv
    <3>2. \A r, s \in origin'[t] : r = s
      BY <2>5
    <3>3. QED BY <2>4, <2>6, <3>1, <3>2
  <2>8. \A u \in Task : status'[u] = "absent" =>
          /\ status[u] = "absent"
          /\ pc'[<<u, "api">>] = "noting_source" => pc[<<u, "api">>] = "noting_source"
    BY <2>3, <2>4
  <2>9. QED BY <2>2, <2>7, <2>8, NobodyNew
<1>8. ASSUME NEW t \in Task, NoteRetryRequested(t)
      PROVE  LineageInv'
  <2>1. UNCHANGED origin
    BY <1>8 DEF NoteRetryRequested, requestVars
  <2>2. QED BY <1>8, <1>t, <2>1, SourceHears
<1>9. ASSUME NEW t \in Task, NoteRetryCreated(t)
      PROVE  LineageInv'
  <2>1. /\ Record(t, "retry_created") /\ UNCHANGED <<status, origin>>
        /\ "retry_created" \in EventType
    BY <1>9 DEF NoteRetryCreated, AppendEvent, requestVars, EventType
  <2>2. \A u \in Task :
          /\ Requests(u)' = Requests(u)
          /\ u # t => At(u, {"retry_created"})' = At(u, {"retry_created"})
    BY <1>t, <2>1, RecordAt DEF Requests
  <2>3. \A u \in Task :
          pc'[<<u, "api">>] = IF u = t THEN "dispatched" ELSE pc[<<u, "api">>]
    BY <1>9, <1>t DEF NoteRetryCreated, Goto
  <2>4. Naming(t)
    BY <1>9 DEF NoteRetryCreated, Naming
  <2>5. \A u \in Task : Naming(u)' => Naming(u)
    BY <2>2, <2>3, <2>4 DEF Naming
  <2>6. \A u \in Task : status'[u] = "absent" =>
          /\ status[u] = "absent"
          /\ pc'[<<u, "api">>] = "noting_source" => pc[<<u, "api">>] = "noting_source"
    BY <2>1, <2>3, <2>4 DEF LineageInv
  <2>7. /\ \A u \in Task : Naming(u)' => Naming(u) /\ origin'[u] = origin[u]
        /\ \A u \in Task : \A r, s \in origin'[u] : r = s
    BY <2>1, <2>5 DEF LineageInv
  <2>8. QED BY <2>2, <2>6, <2>7, NobodyNew
<1>10. QED
  BY <1>1, <1>2, <1>3, <1>4, <1>5, <1>6, <1>7, <1>8, <1>9 DEF Next, RequestStep

LEMMA LineageInit == Init => LineageInv
<1> SUFFICES ASSUME Init PROVE LineageInv
  OBVIOUS
<1>1. \A t \in Task : /\ timeline[t] = <<>> /\ origin[t] = {}
                      /\ pc[<<t, "api">>] = "idle"
  BY WorkerParts DEF Init, StoreInit, RuntimeInit
<1>n. ASSUME NEW t \in Task PROVE \A types : At(t, types) = {}
  <2>1. timeline[t] = <<>>
    BY <1>1
  <2>2. QED BY <2>1 DEF At
<1>2. \A t \in Task : Retries(t) = {} /\ Requests(t) = {} /\ ~Naming(t)
  BY <1>1, <1>n DEF Retries, Requests, Naming
<1>3. IsFiniteSet({}) /\ Cardinality({}) = 0
  BY FS_EmptySet
<1>4. \A t \in Task : Cardinality(Retries(t)) <= Cardinality(Requests(t))
  BY <1>2, <1>3
<1>5. QED BY <1>1, <1>2, <1>3, <1>4 DEF LineageInv

(* A retry that names its source is counted by it, whatever dies between    *)
(* the transactions that note the two ends.                                 *)
LEMMA LineageCounts == LineageInv => LineageIsMutual
<1> SUFFICES ASSUME LineageInv, NEW source \in Task
             PROVE  Cardinality({t \in Task : source \in origin[t] /\ Occurs(t, "retry_created") > 0})
                      <= Occurs(source, "retry_requested")
  BY DEF LineageIsMutual
<1> DEFINE Named == {t \in Task : source \in origin[t] /\ Occurs(t, "retry_created") > 0}
<1>1. Cardinality({}) = 0
  BY FS_EmptySet
<1>2. Named \in SUBSET Retries(source)
  BY <1>1 DEF Retries, Naming, Occurs
<1>3. IsFiniteSet(Retries(source)) /\ IsFiniteSet(Requests(source))
      /\ Cardinality(Retries(source)) <= Cardinality(Requests(source))
  BY DEF LineageInv
<1>4. IsFiniteSet(Named) /\ Cardinality(Named) <= Cardinality(Retries(source))
  BY <1>2, <1>3, FS_Subset
<1>5. /\ Cardinality(Named) \in Nat /\ Cardinality(Retries(source)) \in Nat
      /\ Cardinality(Requests(source)) \in Nat
  BY <1>3, <1>4, FS_CardinalityType
<1>6. QED BY <1>3, <1>4, <1>5 DEF Occurs, Requests

(* No accepted task is left without somebody who will take it further, and  *)
(* no retry without its lineage, whatever dies.                             *)
THEOREM NothingIsLost == Spec => []NothingIsStranded
<1>1. TypeOK /\ ClaimInv /\ LineageInv /\ [Next]_vars => LineageInv'
  BY LineageStep
<1>2. Spec => []LineageInv
  BY <1>1, LineageInit, TypeCorrect, ClaimsInOrder, PTL DEF Spec
<1>3. LineageInv /\ NoTaskStranded => NothingIsStranded
  BY LineageCounts DEF NothingIsStranded
<1>4. QED BY <1>2, <1>3, NobodyStranded, PTL

-----------------------------------------------------------------------------
-----------------------------------------------------------------------------
(* The research loop.  What its one worker counts is what the timeline says *)
(* it did, so that what it decides from its counters holds of the timeline; *)
(* and nothing is retrieved for a completed task, which nobody works on.    *)

Steps(t) == At(t, {"step_started"})

(* The worker's count of the loop is the timeline's.                        *)
LoopInv(t, w) ==
  /\ pc[w] \in Researching =>
       kind[t] \in ResearchKind /\ At(t, {"synthesis"}) = {}
  /\ pc[w] = "publishing" => kind[t] \notin ResearchKind
  /\ pc[w] \in {"resolving", "skipping"} => Steps(t) = {}
  /\ pc[w] = "skipping" => run[w].step = 1 /\ run[w].hits = 0 /\ run[w].total = 0
  /\ pc[w] = "stepping" =>
       /\ run[w].engine = "langgraph" /\ run[w].step \in 1 .. run[w].steps
       /\ Cardinality(Steps(t)) + 1 = run[w].step
  /\ pc[w] = "searching" /\ run[w].engine = "langgraph" =>
       run[w].step \in 1 .. run[w].steps /\ Cardinality(Steps(t)) = run[w].step
  /\ pc[w] = "searching" /\ run[w].hits > 0 =>
       \E j \in At(t, {"source_completed"}) : \A k \in Steps(t) : k < j
  /\ pc[w] \in {"stepping", "searching"} /\ run[w].total > 0 =>
       At(t, {"source_completed"}) # {}
  /\ pc[w] = "completing" /\ kind[t] \in ResearchKind =>
       At(t, {"source_completed"}) # {}

ResearchInv(t) ==
  /\ \A via \in Via : LoopInv(t, <<t, via>>)
  /\ IsFiniteSet(Steps(t)) /\ Cardinality(Steps(t)) <= MaxSteps
  /\ \A i \in At(t, {"follow_up"}) : \E j \in At(t, {"source_completed"}) :
       j < i /\ \A k \in Steps(t) : k < j \/ i < k
  /\ \A i \in At(t, {"synthesis"}), j \in At(t, ResearchEvent) : j <= i
  /\ status[t] = "completed" /\ kind[t] \in ResearchKind =>
       At(t, {"source_completed"}) # {}
  /\ \A i \in At(t, ResearchEvent), j \in At(t, {"completed"}) : i < j

(* What a step does to the research of a task: nothing, to one that nobody  *)
(* claims, publishes, researches or completes; or one of these four.        *)

HistoryQuiet(t) ==
  /\ kind'[t] = kind[t] \/ status[t] = "absent"
  /\ status'[t] = status[t] \/ status'[t] # "completed"
  /\ \A types \in SUBSET (ResearchEvent \cup {"completed"}) : At(t, types)' = At(t, types)

LoopStays(t) ==
  \A via \in Via : pc'[<<t, via>>] \in Running =>
    pc'[<<t, via>>] = pc[<<t, via>>] /\ run'[<<t, via>>] = run[<<t, via>>]

LoopStep(t) ==
  \/ HistoryQuiet(t) /\ LoopStays(t)
  \/ \E via \in Via :
       /\ OnlyVia(t, via)
       /\ \/ /\ status[t] = "queued"
             /\ HistoryQuiet(t)
             /\ pc'[<<t, via>>] = FirstStep(kind[t])
          \/ PublishCanvas(<<t, via>>)
          \/ status[t] = "running" /\ Complete(<<t, via>>)
          \/ ResearchStep(<<t, via>>)

(* The events the research of a task is made of are looked for by type.     *)
LEMMA ResearchTypes ==
  /\ {"step_started"} \in SUBSET (ResearchEvent \cup {"completed"})
  /\ {"source_completed"} \in SUBSET (ResearchEvent \cup {"completed"})
  /\ {"follow_up"} \in SUBSET (ResearchEvent \cup {"completed"})
  /\ {"synthesis"} \in SUBSET (ResearchEvent \cup {"completed"})
  /\ {"completed"} \in SUBSET (ResearchEvent \cup {"completed"})
  /\ ResearchEvent \in SUBSET (ResearchEvent \cup {"completed"})
  BY DEF ResearchEvent

(* Every step but the research of the task and its completion is quiet.     *)
LEMMA QuietHistories ==
  ASSUME StoreTypeOK, NEW t \in Task, NEW u \in Task,
         \/ UNCHANGED storeVars
         \/ \E k \in TaskKind \cup {"none"} : CreateTask(u, k)
         \/ ClaimTask(u)
         \/ MarkCancelled(u)
         \/ MarkFailed(u)
         \/ CreateOutput(u)
         \/ \E type \in NoteEvent : AppendEvent(u, type)
         \/ u # t /\ \E type \in ResearchEvent : AppendEvent(u, type)
         \/ \E links \in SUBSET Export : ReplaceLinks(u, links)
         \/ u # t /\ MarkCompleted(u)
         \/ status[u] \notin {"queued", "running"} /\ MarkCompleted(u)
  PROVE  HistoryQuiet(t)
<1>a. ASSUME UNCHANGED timeline
      PROVE  \A types : At(t, types)' = At(t, types)
  BY <1>a DEF At
<1>r. ASSUME NEW type \in EventType, Record(u, type),
             u # t \/ type \notin ResearchEvent \cup {"completed"}
      PROVE  \A types \in SUBSET (ResearchEvent \cup {"completed"}) :
               At(t, types)' = At(t, types)
  BY <1>r, RecordAt
<1>m. ASSUME NEW from, NEW to \in {"running", "cancelled", "failed", "completed"},
             MoveStatus(u, from, to), u # t \/ to # "completed"
      PROVE  HistoryQuiet(t)
  <2>1. EventOf(to) \in EventType /\ (EventOf(to) = "completed" => to = "completed")
        /\ EventOf(to) \notin ResearchEvent
    BY DEF EventOf, EventType, TerminalEvent, ResearchEvent
  <2>2. \A types \in SUBSET (ResearchEvent \cup {"completed"}) : At(t, types)' = At(t, types)
    BY <1>a, <1>m, <1>r, <2>1 DEF MoveStatus
  <2>3. status'[t] = status[t] \/ status'[t] # "completed"
    BY <1>m DEF MoveStatus, StoreTypeOK
  <2>4. QED BY <1>m, <2>2, <2>3 DEF MoveStatus, HistoryQuiet
<1>1. CASE UNCHANGED storeVars
  BY <1>1, <1>a DEF storeVars, HistoryQuiet
<1>2. ASSUME NEW k \in TaskKind \cup {"none"}, CreateTask(u, k) PROVE HistoryQuiet(t)
  <2>1. "queued" \in EventType /\ "queued" \notin ResearchEvent \cup {"completed"}
    BY DEF EventType, ResearchEvent
  <2>2. \A types \in SUBSET (ResearchEvent \cup {"completed"}) : At(t, types)' = At(t, types)
    BY <1>2, <1>r, <2>1 DEF CreateTask
  <2>3. QED BY <1>2, <2>2 DEF CreateTask, HistoryQuiet, StoreTypeOK
<1>3. CASE ClaimTask(u) \/ MarkCancelled(u) \/ MarkFailed(u)
  BY <1>3, <1>m DEF ClaimTask, MarkCancelled, MarkFailed
<1>4. ASSUME NEW type \in NoteEvent, AppendEvent(u, type)
      PROVE  HistoryQuiet(t)
  <2>1. type \in EventType /\ type \notin ResearchEvent \cup {"completed"}
    BY DEF EventType, ResearchEvent, NoteEvent
  <2>2. QED BY <1>4, <1>r, <2>1 DEF AppendEvent, HistoryQuiet
<1>5. ASSUME NEW type \in ResearchEvent, AppendEvent(u, type), u # t
      PROVE  HistoryQuiet(t)
  <2>1. type \in EventType
    BY DEF EventType
  <2>2. QED BY <1>5, <1>r, <2>1 DEF AppendEvent, HistoryQuiet
<1>6. ASSUME NEW links \in SUBSET Export, ReplaceLinks(u, links) PROVE HistoryQuiet(t)
  BY <1>6, <1>a DEF ReplaceLinks, HistoryQuiet
<1>7. CASE CreateOutput(u)
  <2>1. "output_created" \in EventType /\ "output_created" \notin ResearchEvent \cup {"completed"}
    BY DEF EventType, ResearchEvent
  <2>2. QED BY <1>7, <1>r, <2>1 DEF CreateOutput, HistoryQuiet
<1>8. CASE u # t /\ MarkCompleted(u)
  BY <1>8, <1>m DEF MarkCompleted
<1>9. CASE status[u] \notin {"queued", "running"} /\ MarkCompleted(u)
  BY <1>9, <1>a DEF MarkCompleted, MoveStatus, Completable, HistoryQuiet
<1>10. QED BY <1>1, <1>2, <1>3, <1>4, <1>5, <1>6, <1>7, <1>8, <1>9

(* A step of a worker, seen from the research of any task.                  *)
LEMMA WorkerLoopStep ==
  ASSUME StoreTypeOK, RuntimeTypeOK, ClaimInv, NEW w \in Worker,
         WorkerStep(w) \/ RunDies(w), NEW t \in Task
  PROVE  LoopStep(t)
<1> DEFINE u == w[1]
<1>u. u \in Task /\ w[2] \in Via /\ w = <<u, w[2]>>
  BY WorkerParts
<1>g. ASSUME NEW next, Goto(w, next), u = t
      PROVE  OnlyVia(t, w[2]) /\ pc'[<<t, w[2]>>] = next
  BY <1>g, <1>u, WorkerParts DEF Goto, RuntimeTypeOK, OnlyVia
<1>o. ASSUME \A v \in Worker : v # w => pc'[v] = pc[v] /\ run'[v] = run[v],
             u # t \/ pc'[w] \notin Running
      PROVE  LoopStays(t)
  BY <1>o, <1>u, WorkerParts DEF LoopStays
<1>v. \A v \in Worker : v # w => pc'[v] = pc[v] /\ run'[v] = run[v]
  BY DEF WorkerStep, Claim, PublishCanvas, Complete, GiveUp, RunDies, ResearchStep, Resolve,
         SkipUnready, SearchOnce, PlanResearch, StartStep, SearchSource, SettleForOnePass,
         FollowUp, Synthesize, Goto, SetRun, RuntimeTypeOK
<1>1. CASE u # t
  <2>1. LoopStays(t)
    BY <1>1, <1>o, <1>v
  <2>2. \/ UNCHANGED storeVars \/ ClaimTask(u) \/ CreateOutput(u) \/ MarkCompleted(u)
        \/ MarkFailed(u) \/ \E type \in ResearchEvent : AppendEvent(u, type)
    BY DEF WorkerStep, Claim, PublishCanvas, Complete, GiveUp, RunDies, ResearchStep, Resolve,
           SkipUnready, SearchOnce, PlanResearch, StartStep, SearchSource, SettleForOnePass,
           FollowUp, Synthesize, ResearchEvent
  <2>3. HistoryQuiet(t)
    BY <1>1, <1>u, <2>2, QuietHistories
  <2>4. QED BY <2>1, <2>3 DEF LoopStep
<1>2. CASE u = t
  <2>n. "done" \notin Running
    BY DEF Running
  <2>1. CASE Claim(w)
    <3>1. HistoryQuiet(t)
      BY <1>u, <2>1, QuietHistories DEF Claim
    <3>2. CASE status[t] = "queued"
      BY <1>2, <1>g, <1>u, <2>1, <3>1, <3>2 DEF Claim, LoopStep
    <3>3. CASE status[t] # "queued"
      <4>1. pc'[w] = "done"
        BY <1>2, <2>1, <3>3 DEF Claim, Goto, RuntimeTypeOK
      <4>2. QED BY <1>o, <1>v, <2>n, <3>1, <4>1 DEF LoopStep
    <3>4. QED BY <3>2, <3>3
  <2>2. CASE PublishCanvas(w)
    BY <1>2, <1>g, <1>u, <2>2 DEF PublishCanvas, LoopStep
  <2>3. CASE Complete(w)
    <3>1. CASE status[t] = "running"
      BY <1>2, <1>g, <1>u, <2>3, <3>1 DEF Complete, LoopStep
    <3>2. CASE status[t] # "running"
      <4>1. status[t] \notin {"queued", "running"}
        BY <1>2, <1>u, <2>3, <3>2 DEF Complete, ClaimInv, HasRunner, Running, Claimed
      <4>2. HistoryQuiet(t)
        BY <1>2, <2>3, <4>1, QuietHistories DEF Complete
      <4>3. pc'[w] = "done"
        BY <2>3 DEF Complete, Goto, RuntimeTypeOK
      <4>4. QED BY <1>o, <1>v, <2>n, <4>2, <4>3 DEF LoopStep
    <3>3. QED BY <3>1, <3>2
  <2>4. CASE GiveUp(w) \/ RunDies(w)
    <3>1. HistoryQuiet(t)
      BY <1>2, <1>u, <2>4, QuietHistories DEF GiveUp, RunDies
    <3>2. pc'[w] = "done"
      BY <2>4 DEF GiveUp, RunDies, Goto, RuntimeTypeOK
    <3>3. QED BY <1>o, <1>v, <2>n, <3>1, <3>2 DEF LoopStep
  <2>5. CASE ResearchStep(w)
    <3>1. UNCHANGED pc \/ \E next : Goto(w, next)
      BY <2>5 DEF ResearchStep, Resolve, SkipUnready, SearchOnce, PlanResearch, StartStep,
                  SearchSource, SettleForOnePass, FollowUp, Synthesize
    <3>2. OnlyVia(t, w[2])
      BY <1>2, <1>g, <3>1 DEF OnlyVia
    <3>3. QED BY <1>2, <1>u, <2>5, <3>2 DEF LoopStep
  <2>6. QED BY <2>1, <2>2, <2>3, <2>4, <2>5 DEF WorkerStep
<1>3. QED BY <1>1, <1>2

(* Every other step is quiet.                                               *)
LEMMA OtherLoopStep ==
  ASSUME TypeOK,
         RecoveryStep \/ RecoveryFails \/ RequestStep \/ Crash \/ UNCHANGED vars,
         NEW t \in Task
  PROVE  LoopStep(t)
<1>t. /\ StoreTypeOK /\ RuntimeTypeOK /\ todo \subseteq Task
      /\ \A u \in Task : origin[u] \subseteq Task /\ kind[u] \in TaskKind \cup {"none"}
      /\ \A c \in Canceller : cancel[c].task \subseteq Task
      /\ \A x \in Export : export[x].task \subseteq Task /\ export[x].seen \subseteq Export
  BY DEF TypeOK, StoreTypeOK, RuntimeTypeOK
<1>u. UNCHANGED storeVars => HistoryQuiet(t)
  BY <1>t, QuietHistories
<1>s. HistoryQuiet(t)
  <2>1. CASE RecoveryStep \/ RecoveryFails
    <3>1. UNCHANGED storeVars \/ \E u \in Task : MarkFailed(u)
      BY <1>t, <2>1 DEF RecoveryStep, RecoveryFails, ListRunning, InterruptNext, ListQueued,
                        ReplayNext
    <3>2. QED BY <1>t, <3>1, <1>u, QuietHistories
  <2>2. CASE RequestStep
    <3>1. \/ UNCHANGED storeVars
          \/ \E u \in Task :
               \/ \E k \in TaskKind \cup {"none"} : CreateTask(u, k)
               \/ MarkCancelled(u)
               \/ \E type \in NoteEvent : AppendEvent(u, type)
               \/ \E links \in SUBSET Export : ReplaceLinks(u, links)
      <4>1. CASE \E u \in Task : \/ Submit(u) \/ NoteRetryRequested(u)
                                 \/ NoteRetryCreated(u) \/ RetryFails(u)
                                 \/ \E source \in Task : Retry(source, u)
        BY <1>t, <4>1, SystemAssumption
           DEF Submit, Retry, NoteRetryRequested, NoteRetryCreated, RetryFails, NoteEvent
      <4>2. CASE \E c \in Canceller : \/ CancelWrite(c) \/ CancelReread(c) \/ CancelFails(c)
                                      \/ \E u \in Task : CancelLoad(c, u)
        BY <1>t, <4>2 DEF CancelLoad, CancelWrite, CancelReread, CancelFails
      <4>3. CASE \E x \in Export : \/ ExportLink(x) \/ ExportNote(x) \/ ExportFails(x)
                                   \/ \E u \in Task : ExportLoad(x, u)
        <5>1. \A x \in Export : export[x].seen \cup {x} \in SUBSET Export
          BY <1>t
        <5>2. QED BY <1>t, <4>3, <5>1 DEF ExportLoad, ExportLink, ExportNote, ExportFails, NoteEvent
      <4>4. QED BY <2>2, <4>1, <4>2, <4>3 DEF RequestStep
    <3>2. QED BY <1>t, <3>1, <1>u, QuietHistories
  <2>3. CASE Crash \/ UNCHANGED vars
    BY <1>u, <2>3 DEF Crash, vars
  <2>4. QED BY <2>1, <2>2, <2>3
<1>r. LoopStays(t)
  <2>g. ASSUME NEW w \in Worker, NEW next \in {"dispatched", "done"} \cup Submitting,
               Goto(w, next), UNCHANGED run
        PROVE  LoopStays(t)
    <3>1. \A via \in Via : pc'[<<t, via>>] = IF <<t, via>> = w THEN next ELSE pc[<<t, via>>]
      BY <1>t, <2>g, WorkerParts DEF Goto, RuntimeTypeOK
    <3>2. next \notin Running
      BY DEF Running, Submitting
    <3>3. QED BY <2>g, <3>1, <3>2 DEF LoopStays
  <2>u. UNCHANGED <<pc, run>> => LoopStays(t)
    BY DEF LoopStays
  <2>1. CASE RecoveryStep \/ RecoveryFails
    <3>1. /\ UNCHANGED run
          /\ UNCHANGED pc \/ \E u \in Task : Goto(<<u, "recovery">>, "dispatched")
      BY <1>t, <2>1 DEF RecoveryStep, RecoveryFails, ListRunning, InterruptNext, ListQueued,
                        ReplayNext
    <3>2. QED BY <2>g, <2>u, <3>1, WorkerParts
  <2>2. CASE RequestStep
    <3>1. /\ UNCHANGED run
          /\ \/ UNCHANGED pc
             \/ \E u \in Task, next \in {"dispatched", "done"} \cup Submitting :
                  Goto(<<u, "api">>, next)
      BY <2>2 DEF RequestStep, Submit, Retry, NoteRetryRequested, NoteRetryCreated,
                  RetryFails, CancelLoad, CancelWrite, CancelReread, CancelFails, CancelSet,
                  ExportLoad, ExportLink, ExportNote, ExportFails, ExportSet, runtimeVars,
                  Submitting
    <3>2. QED BY <2>g, <2>u, <3>1, WorkerParts
  <2>3. CASE Crash
    BY <2>3, WorkerParts DEF Crash, RuntimeBoots, LoopStays, Running
  <2>4. CASE UNCHANGED vars
    BY <2>4, <2>u DEF vars, runtimeVars
  <2>5. QED BY <2>1, <2>2, <2>3, <2>4
<1>1. QED BY <1>s, <1>r DEF LoopStep

(* What is retrieved next comes after everything there is.                  *)
LEMMA ResearchAppends ==
  ASSUME StoreTypeOK, NEW t \in Task, NEW type \in ResearchEvent, AppendEvent(t, type),
         ResearchInv(t), At(t, {"synthesis"}) = {}, At(t, {"completed"}) = {},
         type = "follow_up" => \E j \in At(t, {"source_completed"}) : \A k \in Steps(t) : k < j,
         type = "step_started" => Cardinality(Steps(t)) < MaxSteps
  PROVE  /\ Len(timeline[t]) \in Nat
         /\ \A types : At(t, types) \subseteq 1 .. Len(timeline[t])
         /\ \A types : At(t, types)' = IF type \in types
                                       THEN At(t, types) \cup {Len(timeline[t]) + 1}
                                       ELSE At(t, types)
         /\ IsFiniteSet(Steps(t))' /\ Cardinality(Steps(t))' <= MaxSteps
         /\ Cardinality(Steps(t))' = IF type = "step_started" THEN Cardinality(Steps(t)) + 1
                                     ELSE Cardinality(Steps(t))
         /\ (\A i \in At(t, {"follow_up"}) : \E j \in At(t, {"source_completed"}) :
               j < i /\ \A k \in Steps(t) : k < j \/ i < k)'
         /\ (\A i \in At(t, {"synthesis"}), j \in At(t, ResearchEvent) : j <= i)'
         /\ At(t, {"completed"})' = {}
<1> DEFINE n == Len(timeline[t])
<1>e. type \in EventType /\ Record(t, type) /\ type # "completed"
  BY DEF EventType, AppendEvent, ResearchEvent
<1>1. /\ n \in Nat /\ DOMAIN timeline[t] = 1..n
      /\ \A types : At(t, types)' = IF type \in types THEN At(t, types) \cup {n + 1}
                                    ELSE At(t, types)
  BY <1>e, RecordAt
<1>2. \A types : At(t, types) \subseteq 1..n
  BY <1>1 DEF At
<1>3. /\ IsFiniteSet(Steps(t))' /\ Cardinality(Steps(t))' <= MaxSteps
      /\ Cardinality(Steps(t))' = IF type = "step_started" THEN Cardinality(Steps(t)) + 1
                                  ELSE Cardinality(Steps(t))
  <2>1. IsFiniteSet(Steps(t)) /\ Cardinality(Steps(t)) \in Nat /\ Cardinality(Steps(t)) <= MaxSteps
    BY FS_CardinalityType DEF ResearchInv
  <2>2. CASE type = "step_started"
    <3>1. Steps(t)' = Steps(t) \cup {n + 1} /\ n + 1 \notin Steps(t)
      BY <1>1, <1>2, <2>2 DEF Steps
    <3>2. /\ IsFiniteSet(Steps(t) \cup {n + 1})
          /\ Cardinality(Steps(t) \cup {n + 1}) = Cardinality(Steps(t)) + 1
      <4> HIDE DEF n
      <4>1. QED BY <2>1, <3>1, FS_AddElement
    <3>3. QED BY <2>1, <2>2, <3>1, <3>2, RuntimeAssumption
  <2>3. CASE type # "step_started"
    BY <1>1, <2>1, <2>3 DEF Steps
  <2>4. QED BY <2>2, <2>3
<1>4. ASSUME NEW i \in At(t, {"follow_up"})'
      PROVE  \E j \in At(t, {"source_completed"})' : j < i /\ \A k \in Steps(t)' : k < j \/ i < k
  <2>1. CASE i \in At(t, {"follow_up"})
    <3>1. PICK j \in At(t, {"source_completed"}) : j < i /\ \A k \in Steps(t) : k < j \/ i < k
      BY <2>1 DEF ResearchInv
    <3>2. j \in At(t, {"source_completed"})'
      BY <1>1, <3>1
    <3>3. \A k \in Steps(t)' : k \in Steps(t) \/ k = n + 1
      BY <1>1 DEF Steps
    <3>4. i \in 1..n
      BY <1>2, <2>1
    <3>5. i < n + 1
      BY <1>1, <3>4
    <3>6. QED BY <3>1, <3>2, <3>3, <3>5
  <2>2. CASE i \notin At(t, {"follow_up"})
    <3>1. type = "follow_up" /\ i = n + 1
      BY <1>1, <1>4, <2>2
    <3>2. PICK j \in At(t, {"source_completed"}) : \A k \in Steps(t) : k < j
      BY <3>1
    <3>3. At(t, {"source_completed"})' = At(t, {"source_completed"}) /\ Steps(t)' = Steps(t)
      BY <1>1, <3>1 DEF Steps
    <3>4. j \in 1..n
      BY <1>2
    <3>5. j < i
      BY <1>1, <3>1, <3>4
    <3>6. QED BY <3>2, <3>3, <3>5
  <2>3. QED BY <2>1, <2>2
<1>5. ASSUME NEW i \in At(t, {"synthesis"})', NEW j \in At(t, ResearchEvent)' PROVE j <= i
  <2>1. i = n + 1
    BY <1>1
  <2>2. j \in 1..n \/ j = n + 1
    BY <1>1, <1>2
  <2>3. QED BY <1>1, <2>1, <2>2
<1>6. At(t, {"completed"})' = {}
  BY <1>1, <1>e
<1>7. QED BY <1>1, <1>2, <1>3, <1>4, <1>5, <1>6

(* The worker of a research task keeps its count.                           *)
LEMMA ResearchStepKeeps ==
  ASSUME StoreTypeOK, RuntimeTypeOK, ClaimInv, NEW t \in Task, ResearchInv(t), CanvasInv(t),
         SettlesOnce(t), NEW via \in Via, OnlyVia(t, via), ResearchStep(<<t, via>>)
  PROVE  ResearchInv(t)'
<1> DEFINE w == <<t, via>>
           n == Len(timeline[t])
<1>w. w \in Worker /\ w[1] = t
  BY WorkerParts
<1> HIDE DEF w
<1>p. pc[w] \in Researching /\ pc'[w] \in Researching \cup {"completing"}
  BY <1>w DEF ResearchStep, Resolve, SkipUnready, SearchOnce, PlanResearch, StartStep, w,
              SearchSource, SettleForOnePass, FollowUp, Synthesize, Resolved, Searched,
              Researching, Goto, RuntimeTypeOK
<1>r. Researching \cup {"publishing", "completing"} = Running
  BY DEF Researching, Running
<1>o. \A v \in Via \ {via} : pc'[<<t, v>>] \notin Running
  BY <1>p, <1>r DEF OnlyVia, ClaimInv, w
<1>q. \A v \in Via \ {via} : LoopInv(t, <<t, v>>)'
  BY <1>o, <1>r DEF LoopInv, Researching
<1>k. UNCHANGED <<status, kind>>
  BY DEF ResearchStep, Resolve, SkipUnready, SearchOnce, PlanResearch, StartStep, storeVars,
         SearchSource, SettleForOnePass, FollowUp, Synthesize, AppendEvent
<1>s. status[t] # "completed"
  BY <1>p, <1>r DEF CanvasInv, HasRunner, w
<1>c. At(t, {"completed"}) = {}
  <2> SUFFICES ASSUME NEW i \in At(t, {"completed"}) PROVE FALSE
    OBVIOUS
  <2>1. i \in At(t, TerminalEvent) /\ timeline[t][i] = "completed"
    BY DEF At, TerminalEvent
  <2>2. QED BY <1>s, <2>1 DEF SettlesOnce
<1>i. LoopInv(t, w)
  BY DEF ResearchInv, w
<1>y. At(t, {"synthesis"}) = {} /\ kind[t] \in ResearchKind
  BY <1>i, <1>p DEF LoopInv
<1>t. run[w] \in RunType /\ run \in [Worker -> RunType] /\ pc \in [Worker -> PC] /\ MaxSteps \in Nat
  BY <1>w, RuntimeAssumption DEF RuntimeTypeOK
<1>f. IsFiniteSet(Steps(t)) /\ Cardinality(Steps(t)) \in Nat
  BY FS_CardinalityType DEF ResearchInv
<1>z. Cardinality({}) = 0
  BY FS_EmptySet
<1>x. ASSUME NEW type \in ResearchEvent, AppendEvent(t, type),
             type = "follow_up" =>
               \E j \in At(t, {"source_completed"}) : \A k \in Steps(t) : k < j,
             type = "step_started" => Cardinality(Steps(t)) < MaxSteps,
             LoopInv(t, w)'
      PROVE  ResearchInv(t)'
  <2>1. \A v \in Via : LoopInv(t, <<t, v>>)'
    BY <1>q, <1>x DEF w
  <2>2. QED BY <1>c, <1>k, <1>s, <1>x, <1>y, <2>1, ResearchAppends DEF ResearchInv
<1>n. ASSUME UNCHANGED storeVars, LoopInv(t, w)' PROVE ResearchInv(t)'
  <2>1. \A v \in Via : LoopInv(t, <<t, v>>)'
    BY <1>n, <1>q DEF w
  <2>2. \A types : At(t, types)' = At(t, types)
    BY <1>n DEF At, storeVars
  <2>3. QED BY <1>k, <1>n, <2>1, <2>2 DEF ResearchInv, Steps
(* What an event does to the places the worker's count is about.            *)
<1>a. ASSUME NEW type \in ResearchEvent, AppendEvent(t, type),
             type = "follow_up" =>
               \E j \in At(t, {"source_completed"}) : \A k \in Steps(t) : k < j,
             type = "step_started" => Cardinality(Steps(t)) < MaxSteps
      PROVE  /\ n \in Nat /\ Steps(t) \subseteq 1..n
             /\ At(t, {"synthesis"})' = IF type = "synthesis" THEN {n + 1} ELSE {}
             /\ At(t, {"source_completed"})' =
                  IF type = "source_completed" THEN At(t, {"source_completed"}) \cup {n + 1}
                  ELSE At(t, {"source_completed"})
             /\ Steps(t)' = IF type = "step_started" THEN Steps(t) \cup {n + 1} ELSE Steps(t)
             /\ Cardinality(Steps(t))' = IF type = "step_started"
                                         THEN Cardinality(Steps(t)) + 1
                                         ELSE Cardinality(Steps(t))
  <2>1. /\ n \in Nat /\ \A types : At(t, types) \subseteq 1..n
        /\ \A types : At(t, types)' = IF type \in types THEN At(t, types) \cup {n + 1}
                                      ELSE At(t, types)
        /\ Cardinality(Steps(t))' = IF type = "step_started" THEN Cardinality(Steps(t)) + 1
                                    ELSE Cardinality(Steps(t))
    BY <1>a, <1>c, <1>y, ResearchAppends
  <2>2. Steps(t) \subseteq 1..n
    BY <2>1 DEF Steps
  <2>3. Steps(t)' = IF type = "step_started" THEN Steps(t) \cup {n + 1} ELSE Steps(t)
    BY <2>1 DEF Steps
  <2>4. QED BY <1>y, <2>1, <2>2, <2>3
<1>e. {"sources_resolved", "source_skipped", "plan_created", "step_started",
       "source_completed", "follow_up", "synthesis"} \subseteq ResearchEvent
  BY DEF ResearchEvent
<1> HIDE DEF n
<1>1. CASE Resolve(w)
  <2>1. AppendEvent(t, "sources_resolved")
    BY <1>1, <1>w DEF Resolve
  <2>2. pc[w] = "resolving" /\ pc'[w] = "skipping"
    BY <1>1, <1>t, <1>w DEF Resolve, Goto
  <2>3. run'[w].step = 1 /\ run'[w].hits = 0 /\ run'[w].total = 0
    BY <1>1, <1>t, <1>w DEF Resolve, SetRun, NoRun
  <2>4. LoopInv(t, w)'
    BY <1>a, <1>e, <1>i, <1>k, <1>y, <2>1, <2>2, <2>3 DEF LoopInv, Researching
  <2>5. QED BY <1>e, <1>x, <2>1, <2>4
<1>2. CASE SkipUnready(w)
  <2>1. AppendEvent(t, "source_skipped")
    BY <1>2, <1>w DEF SkipUnready
  <2>2. pc[w] = "skipping" /\ pc'[w] = "skipping"
    BY <1>2 DEF SkipUnready
  <2>3. run'[w].step = run[w].step /\ run'[w].hits = run[w].hits /\ run'[w].total = run[w].total
    BY <1>2, <1>t, <1>w DEF SkipUnready, SetRun, RunType
  <2>4. LoopInv(t, w)'
    BY <1>a, <1>e, <1>i, <1>k, <1>y, <2>1, <2>2, <2>3 DEF LoopInv, Researching
  <2>5. QED BY <1>e, <1>x, <2>1, <2>4
<1>3. CASE SearchOnce(w)
  <2>1. UNCHANGED storeVars /\ UNCHANGED timeline
    BY <1>3 DEF SearchOnce, storeVars
  <2>2. pc[w] = "skipping" /\ pc'[w] = "searching"
    BY <1>3, <1>t, <1>w DEF SearchOnce, Resolved, Goto
  <2>3. run'[w].engine = "legacy" /\ run'[w].hits = 0 /\ run'[w].total = 0
    BY <1>3, <1>i, <1>t, <1>w, <2>2 DEF SearchOnce, SetRun, LoopInv, RunType
  <2>4. \A types : At(t, types)' = At(t, types)
    BY <2>1 DEF At
  <2>5. LoopInv(t, w)'
    BY <1>k, <1>y, <2>2, <2>3, <2>4 DEF LoopInv, Researching
  <2>6. QED BY <1>n, <2>1, <2>5
<1>4. CASE PlanResearch(w)
  <2>1. AppendEvent(t, "plan_created")
    BY <1>4, <1>w DEF PlanResearch
  <2>2. pc[w] = "skipping" /\ pc'[w] = "stepping"
    BY <1>4, <1>t, <1>w DEF PlanResearch, Resolved, Goto
  <2>3. /\ run'[w].engine = "langgraph" /\ run'[w].step = 1 /\ run'[w].steps \in 1 .. MaxSteps
        /\ run'[w].total = 0
    BY <1>4, <1>i, <1>t, <1>w, <2>2 DEF PlanResearch, SetRun, LoopInv, RunType
  <2>4. Cardinality(Steps(t))' = 0
    BY <1>a, <1>e, <1>i, <1>z, <2>1, <2>2 DEF LoopInv
  <2>5. LoopInv(t, w)'
    BY <1>a, <1>e, <1>k, <1>t, <1>y, <2>1, <2>2, <2>3, <2>4 DEF LoopInv, Researching
  <2>6. QED BY <1>e, <1>x, <2>1, <2>5
<1>5. CASE StartStep(w)
  <2>1. AppendEvent(t, "step_started")
    BY <1>5, <1>w DEF StartStep
  <2>2. pc[w] = "stepping" /\ pc'[w] = "searching"
    BY <1>5, <1>t, <1>w DEF StartStep, Goto
  <2>3. /\ run'[w].engine = run[w].engine /\ run'[w].step = run[w].step
        /\ run'[w].steps = run[w].steps
        /\ run'[w].hits = 0 /\ run'[w].total = run[w].total
    BY <1>5, <1>t, <1>w DEF StartStep, SetRun, RunType
  <2>4. /\ run[w].step \in 1 .. run[w].steps /\ run[w].steps \in 0 .. MaxSteps
        /\ Cardinality(Steps(t)) + 1 = run[w].step
    BY <1>i, <1>t, <2>2 DEF LoopInv, RunType
  <2>5. Cardinality(Steps(t)) < MaxSteps
    BY <1>f, <1>t, <2>4
  <2>6. Cardinality(Steps(t))' = run[w].step
    BY <1>a, <1>e, <2>1, <2>4, <2>5
  <2>7. At(t, {"source_completed"})' = At(t, {"source_completed"}) /\ At(t, {"synthesis"})' = {}
    BY <1>a, <1>e, <2>1, <2>5
  <2>8. LoopInv(t, w)'
    BY <1>i, <1>k, <1>y, <2>2, <2>3, <2>4, <2>6, <2>7 DEF LoopInv, Researching
  <2>9. QED BY <1>e, <1>x, <2>1, <2>5, <2>8
<1>6. CASE SearchSource(w)
  <2>1. pc[w] = "searching" /\ pc'[w] = "searching"
    BY <1>6 DEF SearchSource
  <2>2. PICK s \in run[w].left :
         \/ /\ AppendEvent(t, "source_completed")
            /\ \E m \in Found :
                 SetRun(w, [run[w] EXCEPT !.left = @ \ {s}, !.hits = @ + 1,
                                          !.total = @ + 1, !.cites = @ + m])
         \/ /\ AppendEvent(t, "source_skipped")
            /\ SetRun(w, [run[w] EXCEPT !.left = @ \ {s}])
    BY <1>6, <1>w DEF SearchSource
  <2>3. /\ run'[w].engine = run[w].engine /\ run'[w].step = run[w].step
        /\ run'[w].steps = run[w].steps
    <3>1. ASSUME NEW m, SetRun(w, [run[w] EXCEPT !.left = @ \ {s}, !.hits = @ + 1,
                                                 !.total = @ + 1, !.cites = @ + m])
          PROVE  /\ run'[w].engine = run[w].engine /\ run'[w].step = run[w].step
                 /\ run'[w].steps = run[w].steps
      BY <1>t, <1>w, <3>1 DEF SetRun, RunType
    <3>2. ASSUME SetRun(w, [run[w] EXCEPT !.left = @ \ {s}])
          PROVE  /\ run'[w].engine = run[w].engine /\ run'[w].step = run[w].step
                 /\ run'[w].steps = run[w].steps
      BY <1>t, <1>w, <3>2 DEF SetRun, RunType
    <3>3. QED BY <2>2, <3>1, <3>2
  <2>4. CASE AppendEvent(t, "source_completed")
    <3>1. /\ n \in Nat /\ Steps(t) \subseteq 1..n /\ Steps(t)' = Steps(t)
          /\ n + 1 \in At(t, {"source_completed"})' /\ At(t, {"synthesis"})' = {}
          /\ Cardinality(Steps(t))' = Cardinality(Steps(t))
      BY <1>a, <1>e, <2>4
    <3>2. \A k \in Steps(t)' : k < n + 1
      BY <3>1
    <3>3. LoopInv(t, w)'
      BY <1>i, <1>k, <1>y, <2>1, <2>3, <3>1, <3>2 DEF LoopInv, Researching
    <3>4. QED BY <1>e, <1>x, <2>4, <3>3
  <2>5. CASE AppendEvent(t, "source_skipped") /\ SetRun(w, [run[w] EXCEPT !.left = @ \ {s}])
    <3>1. run'[w].hits = run[w].hits /\ run'[w].total = run[w].total
      BY <1>t, <1>w, <2>5 DEF SetRun, RunType
    <3>2. /\ Steps(t)' = Steps(t) /\ At(t, {"source_completed"})' = At(t, {"source_completed"})
          /\ At(t, {"synthesis"})' = {} /\ Cardinality(Steps(t))' = Cardinality(Steps(t))
      BY <1>a, <1>e, <2>5
    <3>3. LoopInv(t, w)'
      BY <1>i, <1>k, <1>y, <2>1, <2>3, <3>1, <3>2 DEF LoopInv, Researching
    <3>4. QED BY <1>e, <1>x, <2>5, <3>3
  <2>6. QED BY <2>2, <2>4, <2>5
<1>7. CASE SettleForOnePass(w)
  <2>1. UNCHANGED storeVars /\ UNCHANGED <<timeline, run>>
    BY <1>7 DEF SettleForOnePass, storeVars
  <2>2. pc[w] = "searching" /\ pc'[w] = "completing" /\ run[w].total > 0
    BY <1>7, <1>t, <1>w DEF SettleForOnePass, Searched, Goto
  <2>3. \A types : At(t, types)' = At(t, types)
    BY <2>1 DEF At
  <2>4. LoopInv(t, w)'
    BY <1>i, <2>2, <2>3 DEF LoopInv, Researching
  <2>5. QED BY <1>n, <2>1, <2>4
<1>8. CASE FollowUp(w)
  <2>1. AppendEvent(t, "follow_up")
    BY <1>8, <1>w DEF FollowUp
  <2>2. pc[w] = "searching" /\ pc'[w] = "stepping" /\ run[w].engine = "langgraph"
    BY <1>8, <1>t, <1>w DEF FollowUp, Searched, Goto
  <2>3. run[w].hits > 0 /\ run[w].total > 0 /\ run[w].step < run[w].steps
    BY <1>8 DEF FollowUp, Searched, ShouldContinue
  <2>4. /\ run'[w].engine = run[w].engine /\ run'[w].step = run[w].step + 1
        /\ run'[w].steps = run[w].steps
        /\ run'[w].hits = run[w].hits /\ run'[w].total = run[w].total
    BY <1>8, <1>t, <1>w DEF FollowUp, SetRun, RunType
  <2>5. /\ run[w].step \in 1 .. run[w].steps /\ run[w].steps \in 0 .. MaxSteps
        /\ Cardinality(Steps(t)) = run[w].step
        /\ \E j \in At(t, {"source_completed"}) : \A k \in Steps(t) : k < j
    BY <1>i, <1>t, <2>2, <2>3 DEF LoopInv, RunType
  <2>6. /\ Steps(t)' = Steps(t) /\ At(t, {"source_completed"})' = At(t, {"source_completed"})
        /\ At(t, {"synthesis"})' = {} /\ Cardinality(Steps(t))' = Cardinality(Steps(t))
    BY <1>a, <1>e, <2>1, <2>5
  <2>7. run[w].step + 1 \in 1 .. run[w].steps
    BY <1>t, <2>3, <2>5 DEF RunType
  <2>8. LoopInv(t, w)'
    BY <1>i, <1>k, <1>y, <2>2, <2>3, <2>4, <2>5, <2>6, <2>7 DEF LoopInv, Researching
  <2>9. QED BY <1>e, <1>x, <2>1, <2>5, <2>8
<1>9. CASE Synthesize(w)
  <2>1. AppendEvent(t, "synthesis")
    BY <1>9, <1>w DEF Synthesize
  <2>2. pc[w] = "searching" /\ pc'[w] = "completing" /\ run[w].total > 0
    BY <1>9, <1>t, <1>w DEF Synthesize, Searched, Goto
  <2>3. At(t, {"source_completed"})' # {}
    BY <1>a, <1>e, <1>i, <2>1, <2>2 DEF LoopInv
  <2>4. LoopInv(t, w)'
    BY <2>2, <2>3 DEF LoopInv, Researching
  <2>5. QED BY <1>e, <1>x, <2>1, <2>4
<1>10. QED
  BY <1>1, <1>2, <1>3, <1>4, <1>5, <1>6, <1>7, <1>8, <1>9 DEF ResearchStep, w

(* Such a step keeps the research sound.                                    *)
LEMMA LoopKeeps ==
  ASSUME StoreTypeOK, RuntimeTypeOK, ClaimInv, NEW t \in Task, ResearchInv(t), CanvasInv(t),
         UnclaimedNeverRan, SettlesOnce(t), LoopStep(t)
  PROVE  ResearchInv(t)'
<1>h. ~Claimed(t) => /\ At(t, ResearchEvent) = {}
                     /\ \A type \in ResearchEvent : At(t, {type}) = {}
                     /\ \A via \in Via : pc[<<t, via>>] \notin Running
  BY DEF UnclaimedNeverRan, NeverRan, At, RunEvent, ClaimInv, HasRunner
<1>r. Researching \cup {"publishing", "completing"} = Running /\ "done" \notin Running
  BY DEF Researching, Running
<1>l. ASSUME NEW v \in Via, pc'[<<t, v>>] \notin Running PROVE LoopInv(t, <<t, v>>)'
  BY <1>l, <1>r DEF LoopInv, Researching
<1>o. ASSUME NEW u \in Via, NEW v \in Via, u # v, pc[<<t, u>>] \in Running
      PROVE  pc[<<t, v>>] \notin Running
  BY <1>o DEF ClaimInv
<1>e. {"step_started", "source_completed", "follow_up", "synthesis"} \subseteq ResearchEvent
  BY DEF ResearchEvent
<1>q. ASSUME HistoryQuiet(t), \A v \in Via : LoopInv(t, <<t, v>>)' PROVE ResearchInv(t)'
  <2>1. /\ Steps(t)' = Steps(t)
        /\ At(t, {"source_completed"})' = At(t, {"source_completed"})
        /\ At(t, {"follow_up"})' = At(t, {"follow_up"})
        /\ At(t, {"synthesis"})' = At(t, {"synthesis"})
        /\ At(t, {"completed"})' = At(t, {"completed"})
        /\ At(t, ResearchEvent)' = At(t, ResearchEvent)
    BY <1>q, ResearchTypes DEF HistoryQuiet, Steps
  <2>2. status'[t] = "completed" =>
          status[t] = "completed" /\ (kind'[t] = kind[t] \/ status[t] = "absent")
    BY <1>q DEF HistoryQuiet
  <2>3. status'[t] = "completed" => status[t] = "completed" /\ kind'[t] = kind[t]
    BY <2>2
  <2>4. IsFiniteSet(Steps(t))' /\ Cardinality(Steps(t))' <= MaxSteps
    BY <2>1 DEF ResearchInv
  <2>5. QED BY <1>q, <2>1, <2>3, <2>4 DEF ResearchInv
<1>1. CASE HistoryQuiet(t) /\ LoopStays(t)
  <2>1. ASSUME NEW v \in Via, pc'[<<t, v>>] \in Running PROVE LoopInv(t, <<t, v>>)'
    <3>1. pc'[<<t, v>>] = pc[<<t, v>>] /\ run'[<<t, v>>] = run[<<t, v>>]
      BY <1>1, <2>1 DEF LoopStays
    <3>2. status[t] # "absent"
      BY <1>h, <2>1, <3>1 DEF Claimed
    <3>3. /\ Steps(t)' = Steps(t)
          /\ At(t, {"source_completed"})' = At(t, {"source_completed"})
          /\ At(t, {"synthesis"})' = At(t, {"synthesis"})
          /\ kind'[t] = kind[t]
      BY <1>1, <3>2, ResearchTypes DEF HistoryQuiet, Steps
    <3>4. LoopInv(t, <<t, v>>)
      BY DEF ResearchInv
    <3>5. QED BY <3>1, <3>3, <3>4 DEF LoopInv
  <2>2. QED BY <1>1, <1>l, <1>q, <2>1
<1>2. ASSUME NEW via \in Via, OnlyVia(t, via), status[t] = "queued", HistoryQuiet(t),
             pc'[<<t, via>>] = FirstStep(kind[t])
      PROVE  ResearchInv(t)'
  <2>1. \A v \in Via \ {via} : pc'[<<t, v>>] \notin Running
    BY <1>2, <1>h DEF OnlyVia, Claimed
  <2>2. kind'[t] = kind[t] /\ ~Claimed(t)
    BY <1>2 DEF HistoryQuiet, Claimed
  <2>3. Steps(t)' = {} /\ At(t, {"synthesis"})' = {}
    BY <1>2, <1>e, <1>h, <2>2, ResearchTypes DEF HistoryQuiet, Steps
  <2>4. /\ FirstStep(kind[t]) \in Researching =>
             FirstStep(kind[t]) = "resolving" /\ kind[t] \in ResearchKind
        /\ FirstStep(kind[t]) \in {"publishing", "completing"} => kind[t] \notin ResearchKind
    BY DEF FirstStep, Researching, ResearchKind
  <2>5. LoopInv(t, <<t, via>>)'
    BY <1>2, <2>2, <2>3, <2>4 DEF LoopInv, Researching
  <2>6. QED BY <1>2, <1>l, <1>q, <2>1, <2>5
<1>3. ASSUME NEW via \in Via, OnlyVia(t, via), PublishCanvas(<<t, via>>)
      PROVE  ResearchInv(t)'
  <2>p. pc[<<t, via>>] = "publishing" /\ <<t, via>> \in Worker
    BY <1>3, WorkerParts DEF PublishCanvas
  <2>1. /\ pc'[<<t, via>>] = "completing"
        /\ \A v \in Via \ {via} : pc'[<<t, v>>] \notin Running
    BY <1>3, <1>o, <1>r, <2>p DEF PublishCanvas, Goto, OnlyVia, RuntimeTypeOK
  <2>2. HistoryQuiet(t) /\ kind'[t] = kind[t]
    BY <1>3, QuietHistories DEF PublishCanvas, CreateOutput
  <2>3. kind[t] \notin ResearchKind
    BY <2>p DEF ResearchInv, LoopInv
  <2>4. LoopInv(t, <<t, via>>)'
    BY <2>1, <2>2, <2>3 DEF LoopInv, Researching
  <2>5. QED BY <1>l, <1>q, <2>1, <2>2, <2>4
<1>4. ASSUME NEW via \in Via, OnlyVia(t, via), status[t] = "running",
             Complete(<<t, via>>)
      PROVE  ResearchInv(t)'
  <2>p. pc[<<t, via>>] = "completing" /\ <<t, via>> \in Worker
    BY <1>4, WorkerParts DEF Complete
  <2>1. \A v \in Via : pc'[<<t, v>>] \notin Running
    BY <1>4, <1>o, <1>r, <2>p DEF Complete, Goto, OnlyVia, RuntimeTypeOK
  <2>2. Record(t, "completed") /\ UNCHANGED kind /\ "completed" \in EventType \ ResearchEvent
    BY <1>4 DEF Complete, MarkCompleted, MoveStatus, Completable, EventOf, EventType,
                TerminalEvent, ResearchEvent
  <2>3. /\ DOMAIN timeline[t] = 1..Len(timeline[t]) /\ Len(timeline[t]) \in Nat
        /\ \A types : At(t, types)' =
             IF "completed" \in types THEN At(t, types) \cup {Len(timeline[t]) + 1}
             ELSE At(t, types)
    BY <2>2, RecordAt
  <2>4. /\ Steps(t)' = Steps(t)
        /\ At(t, {"source_completed"})' = At(t, {"source_completed"})
        /\ At(t, {"follow_up"})' = At(t, {"follow_up"})
        /\ At(t, {"synthesis"})' = At(t, {"synthesis"})
        /\ At(t, ResearchEvent)' = At(t, ResearchEvent)
        /\ At(t, {"completed"})' = At(t, {"completed"}) \cup {Len(timeline[t]) + 1}
    BY <2>2, <2>3 DEF Steps
  <2>5. \A i \in At(t, ResearchEvent)', j \in At(t, {"completed"})' : i < j
    <3>1. \A i \in At(t, ResearchEvent) : i < Len(timeline[t]) + 1
      BY <2>3 DEF At
    <3>2. QED BY <2>4, <3>1 DEF ResearchInv
  <2>6. kind[t] \in ResearchKind => At(t, {"source_completed"}) # {}
    BY <2>p DEF ResearchInv, LoopInv
  <2>7. IsFiniteSet(Steps(t))' /\ Cardinality(Steps(t))' <= MaxSteps
    BY <2>4 DEF ResearchInv
  <2>8. \A v \in Via : LoopInv(t, <<t, v>>)'
    BY <1>l, <2>1
  <2>9. QED BY <2>2, <2>4, <2>5, <2>6, <2>7, <2>8 DEF ResearchInv
<1>5. ASSUME NEW via \in Via, OnlyVia(t, via), ResearchStep(<<t, via>>)
      PROVE  ResearchInv(t)'
  BY <1>5, ResearchStepKeeps
<1>6. QED BY <1>1, <1>2, <1>3, <1>4, <1>5 DEF LoopStep

(* At first nothing was researched.                                         *)
LEMMA ResearchInit == ASSUME Init, NEW t \in Task PROVE ResearchInv(t)
<1>1. timeline[t] = <<>> /\ status[t] = "absent"
  BY DEF Init, StoreInit
<1>2. \A types : At(t, types) = {}
  BY <1>1 DEF At
<1>3. \A via \in Via : pc[<<t, via>>] = "idle"
  BY WorkerParts DEF Init, RuntimeInit
<1>4. IsFiniteSet({}) /\ Cardinality({}) = 0
  BY FS_EmptySet
<1>5. QED
  <2>1. \A via \in Via : LoopInv(t, <<t, via>>)
    BY <1>3 DEF LoopInv, Researching
  <2>2. IsFiniteSet(Steps(t)) /\ Cardinality(Steps(t)) <= MaxSteps
    BY <1>2, <1>4, RuntimeAssumption DEF Steps
  <2>3. QED BY <1>1, <1>2, <2>1, <2>2 DEF ResearchInv

(* The research loop goes on for a reason, ends within its bound, writes    *)
(* its synthesis last, and completes the task only on evidence: whoever ran *)
(* it, whatever recovery or a canceller did to the task meanwhile.          *)
THEOREM ResearchRestsOnWhatWasFound == Spec => []ResearchIsSound
<1> DEFINE Inv == \A t \in Task : ResearchInv(t)
<1>1. Init => Inv
  BY ResearchInit
<1>2. TypeOK /\ RunInv /\ Inv /\ [Next]_vars => Inv'
  <2> SUFFICES ASSUME TypeOK, RunInv, Inv, [Next]_vars, NEW t \in Task
               PROVE  ResearchInv(t)'
    OBVIOUS
  <2>1. StoreTypeOK /\ RuntimeTypeOK
    BY DEF TypeOK
  <2>2. LoopStep(t)
    <3>1. CASE \E w \in Worker : WorkerStep(w) \/ RunDies(w)
      BY <2>1, <3>1, WorkerLoopStep DEF RunInv
    <3>2. CASE RecoveryStep \/ RecoveryFails \/ RequestStep \/ Crash \/ UNCHANGED vars
      BY <3>2, OtherLoopStep
    <3>3. QED BY <3>1, <3>2 DEF Next, RuntimeStep
  <2>3. QED BY <2>1, <2>2, LoopKeeps DEF RunInv, TimelineInv, CanvasesInv
<1>3. Spec => []Inv
  BY <1>1, <1>2, TypeCorrect, RunsInOrder, PTL DEF Spec
<1>4. Inv => ResearchIsSound
  <2> SUFFICES ASSUME Inv PROVE ResearchIsSound
    OBVIOUS
  <2>1. ResearchRestsOnEvidence
    BY DEF ResearchRestsOnEvidence, ResearchInv
  <2>2. FollowUpsAreEarned
    BY DEF FollowUpsAreEarned, ResearchInv, Occurs, Steps
  <2>3. SynthesisComesLast
    BY DEF SynthesisComesLast, ResearchInv
  <2>4. QED BY <2>1, <2>2, <2>3 DEF ResearchIsSound
<1>5. QED BY <1>3, <1>4, PTL

(* Every status change is one of the abstract lifecycle's: a task is        *)
(* claimed at most once, and settles once.                                  *)
THEOREM RefinesLifecycle == Spec => Lifecycle!Spec
<1>1. Init => Lifecycle!Init
  BY DEF Init, StoreInit, Lifecycle!Init
<1>2. TypeOK /\ ClaimInv /\ [Next]_vars => [Lifecycle!Next]_status
  <2> SUFFICES ASSUME TypeOK, ClaimInv, [Next]_vars, status' # status
               PROVE  Lifecycle!Next
    OBVIOUS
  <2>1. StatusMove
    BY StepKeeps, StoreStepMoves DEF TypeOK
  <2>2. PICK t \in Task, to \in Status :
          <<status[t], to>> \in Moves /\ status' = [status EXCEPT ![t] = to]
    BY <2>1 DEF StatusMove
  <2>3. Lifecycle!Accept(t) \/ Lifecycle!Start(t) \/ Lifecycle!Settle(t)
    BY <2>2 DEF Moves, Lifecycle!Accept, Lifecycle!Start, Lifecycle!Settle,
                Lifecycle!Complete, Lifecycle!Fail, Lifecycle!Cancel, Lifecycle!Move
  <2>4. QED BY <2>3 DEF Lifecycle!Next
<1>3. QED
  BY <1>1, <1>2, TypeCorrect, ClaimsInOrder, PTL DEF Spec, Lifecycle!Spec
=============================================================================
