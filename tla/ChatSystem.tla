------------------------------ MODULE ChatSystem ------------------------------
(***************************************************************************)
(* Chat turns on one session together with the history operations of its   *)
(* owner (backend/application/history.py), disconnects, and the process    *)
(* going down.                                                             *)
(***************************************************************************)
EXTENDS ChatStream

CONSTANTS
  Backend,    (* "sqlite" or "postgres"                                     *)
  MaxOps      (* bound: history operations of the owner                     *)

ASSUME ChatAssumption ==
  /\ Backend \in {"sqlite", "postgres"}
  /\ MaxOps \in Nat
  /\ Faults \in BOOLEAN

VARIABLES
  history,    (* what the owner is doing, between the check and the write   *)
  ops,        (* how often it did something                                 *)
  stale       (* the turns that had read their title before the owner's was *)
              (* there: before a rename, or before a turn that still knew   *)
              (* the owner's title wrote a deleted session again            *)

systemVars == <<history, ops, stale>>
allVars == <<vars, systemVars>>

HasRead == {t \in Turn : run[t].pc \in {"generating", "writing"}}
Retitled == session.title # "renamed" /\ session'.title = "renamed"
Observed == stale' = IF Retitled THEN stale \cup HasRead ELSE stale

Check(next) ==
  /\ history = "idle"
  /\ ops < MaxOps
  /\ Exists
  /\ history' = next
  /\ ops' = ops + 1
  /\ UNCHANGED <<vars, stale>>

RenameCheck == Check("renaming")
DeleteCheck == Check("deleting")

(* rename_history_session: 204, or 404 when the row is gone.                *)
Rename ==
  /\ history = "renaming"
  /\ history' = "idle"
  /\ IF Exists
     THEN RenameRow /\ stale' = stale \cup HasRead
     ELSE UNCHANGED <<session, stale>>
  /\ UNCHANGED <<visible, artifact, object, convlog, streamVars, ops>>

Delete ==
  /\ history = "deleting"
  /\ history' = "idle"
  /\ IF Exists THEN DeleteRow ELSE UNCHANGED <<session, visible, artifact>>
  /\ UNCHANGED <<object, convlog, streamVars, ops, stale>>

DeleteAll ==
  /\ history = "idle"
  /\ ops < MaxOps
  /\ ops' = ops + 1
  /\ IF Backend = "sqlite" THEN DeleteAllRows ELSE DeleteAllRowsById
  /\ UNCHANGED <<object, convlog, streamVars, history, stale>>

(* The process goes down with every turn that is under way.                 *)
Crash ==
  /\ \E t \in Turn : run[t].pc \notin {"idle", "over"}
  /\ run' = [t \in Turn |-> IF run[t].pc = "idle" THEN run[t]
                            ELSE [run[t] EXCEPT !.pc = "over", !.open = FALSE]]
  /\ history' = "idle"
  /\ UNCHANGED <<storeVars, ask, base, out, ops, stale>>

TurnNext ==
  /\ \E t \in Turn : (\E a \in Ask[t] : Begin(t, a)) \/ Step(t) \/ Disconnect(t)
  /\ Observed
  /\ UNCHANGED <<history, ops>>

Next == TurnNext \/ RenameCheck \/ Rename \/ DeleteCheck \/ Delete \/ DeleteAll \/ Crash

Init ==
  /\ StoreInit
  /\ StreamInit
  /\ history = "idle"
  /\ ops = 0
  /\ stale = {}

Spec == Init /\ [][Next]_allVars

-----------------------------------------------------------------------------
(***************************************************************************)
(* What chat turns promise to their clients and to the history.            *)
(***************************************************************************)

Over(t) == run[t].pc = "over"
Clean(t) == out[t].done /\ ~out[t].error /\ ~out[t].refused
Stored == IF Exists THEN {Messages[i] : i \in DOMAIN Messages} ELSE {}

(* Every answer, and every part of one, that a client is shown while output *)
(* is moderated has been reviewed, and no text that is stored fails the     *)
(* review: a phrase that is completed by a later token, by another phase of *)
(* the same turn or by the removal of a chart block never gets through      *)
(* (StreamingOutputBuffer, phase_emit_completion).                          *)
NothingUnsafeLeaves ==
  /\ \A t \in Turn : Passes(ask[t].mode, out[t].shown)
  /\ \A m \in Stored : Passes(ask[m.turn].mode, m.text)

(* A client that is told done, and nothing else, was shown everything the   *)
(* model said to the last token, every file and the chart, and the turn has *)
(* passed through the session (phase_emit_completion flushes, emits the     *)
(* extras and persists before done).                                        *)
DoneIsComplete ==
  \A t \in Turn : Clean(t) =>
    /\ run[t].todo = <<>>
    /\ out[t].shown = run[t].buffer.text
    /\ out[t].files = LinksIn(Strip(run[t].buffer.text))
    /\ out[t].chart = run[t].chart

(* The history holds refusals and whole answers: with a safeguard an answer *)
(* that the client walked away from, or that the model broke off, is never  *)
(* stored; without one a disconnect can store the part the client saw       *)
(* (the finally clause of ChatStreamService.stream).                        *)
StoredIsWhole ==
  \A m \in Stored :
    \/ m.text = Refusal
    \/ run[m.turn].todo = <<>> /\ m.text = Strip(run[m.turn].buffer.text)
    \/ ask[m.turn].mode = "off" /\ ~run[m.turn].open

(* Whatever fails, whoever deletes: an artifact that has a row, or that the *)
(* history links, has its bytes (persist_artifact, delete_session).         *)
BytesBehindLinks ==
  /\ artifact \subseteq object
  /\ \A m \in Stored : m.links \subseteq object

(* A title the owner has set is only lost to a refusal, or to a turn that   *)
(* had read the title of the session before it was there                    *)
(* (session_title_for_upsert).                                              *)
RenameSticks ==
  [][\A t \in Turn :
       /\ run[t].pc = "writing" /\ run'[t].pc = "finishing"
       /\ Exists /\ session.title = "renamed"
       /\ session'.title # "renamed"
       => out[t].refused \/ t \in stale]_allVars

(* A client that stays is told done, however its turn ends, unless the      *)
(* object store failed under a file of the answer.                          *)
DoneIsSaid ==
  \A t \in Turn :
    Over(t) /\ run[t].open => out[t].done \/ LinksIn(Strip(run[t].buffer.text)) # {}

(* Every turn comes to an end.                                              *)
TurnsEnd == []<>(\A t \in Turn : run[t].pc \in {"idle", "over"})

(* "messages" of GET /api/history/{session_id} show the artifacts of an     *)
(* assistant message (docs/api/API_REFERENCE.md:830): an answer whose files *)
(* were given to the client keeps them as long as it is in the session.     *)
ArtifactsStayLinked ==
  \A m \in Stored : Clean(m.turn) => m.links = {m.turn} \X out[m.turn].files

(* A turn is whole or it is not there: what a client was told done for was  *)
(* shown to it entirely, and what the history has was said to its end,      *)
(* whether the model failed, the client left or the output was refused.     *)
TurnsAreWhole == DoneIsComplete /\ StoredIsWhole /\ DoneIsSaid
=============================================================================
