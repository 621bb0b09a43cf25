------------------------------ MODULE ChatStream ------------------------------
(***************************************************************************)
(* One chat turn, the generator behind POST /api/chat                      *)
(* (backend/services/chat_stream_service.py, chat_stream_driver.py,        *)
(* chat_stream_finalize.py, chat_orchestration.py, chat_knowledge_flow.py, *)
(* session_service.py).  A turn is a request, a phase and what its client  *)
(* has been sent.  A step runs from one call that other requests can       *)
(* observe, or from one yield, to the next.                                *)
(***************************************************************************)
EXTENDS Naturals, Sequences, SequencesExt, ChatStore

CONSTANTS
  Forbidden,  (* phrases, sequences of tokens, that the safeguard refuses   *)
  Token,      (* what answers are made of                                   *)
  Ask,        (* for each turn, the requests and the answers to choose from *)
  Preamble,   (* tokens a model may say before it calls the chart tool      *)
  Faults      (* whether stores may fail                                    *)

-----------------------------------------------------------------------------
(***************************************************************************)
(* Output moderation: the policy on assistant text                         *)
(* (backend/domain/safeguard_policy.py), the modes that switch its two     *)
(* sides (services/safeguard_service.py) and StreamingOutputBuffer         *)
(* (services/chat_stream_run.py), which holds tokens back until the text   *)
(* they belong to has been reviewed.  A text is a sequence of tokens; the  *)
(* regular expressions of the policy are abstracted to Forbidden, the      *)
(* phrases that must not occur in a row.                                   *)
(***************************************************************************)
Chart == "chart"            (* a legacy :::chart block, one token            *)
Refusal == <<"refusal">>
Holdback == 1               (* _STREAM_OUTPUT_HOLDBACK_TOKENS                *)
Mode == {"off", "input_only", "output_only", "full"}

ReviewsInput(mode) == mode \in {"input_only", "full"}
ReviewsOutput(mode) == mode \in {"output_only", "full"}

Occurs(phrase, text) ==
  \E i \in 1..Len(text) :
    /\ i + Len(phrase) - 1 <= Len(text)
    /\ \A j \in 1..Len(phrase) : text[i + j - 1] = phrase[j]

Allowed(text) == \A phrase \in Forbidden : ~Occurs(phrase, text)

(* The phrases say something, and SAFEGUARD_REFUSAL_MESSAGE has none.       *)
ASSUME ModerationAssumption ==
  /\ \A phrase \in Forbidden : Len(phrase) \in Nat \ {0}
  /\ Allowed(Refusal)

Passes(mode, text) == ReviewsOutput(mode) => Allowed(text)

(* strip_chart_block.                                                       *)
Strip(text) == LET Prose(token) == token # Chart IN SelectSeq(text, Prose)

(* The buffer: everything the model said, how much of its end is held back, *)
(* and whether it was refused.  In mode off there is no safeguard and no    *)
(* holdback.                                                                *)
EmptyBuffer == [text |-> <<>>, held |-> 0, blocked |-> FALSE]
Released(buffer) == SubSeq(buffer.text, 1, Len(buffer.text) - buffer.held)

(* Mutation: every token is released at once.                               *)
HeldAfterNone(mode, buffer) == 0

HeldAfter(mode, buffer) ==
  IF mode # "off" /\ buffer.held + 1 > Holdback THEN Holdback
  ELSE IF mode # "off" THEN buffer.held + 1 ELSE 0

(* Mutation: the text before the token is reviewed.                         *)
PushUnreviewed(mode, buffer, token) ==
  LET text == Append(buffer.text, token)
  IN IF Passes(mode, buffer.text)
     THEN [text |-> text, held |-> 0, blocked |-> FALSE]
     ELSE [buffer EXCEPT !.text = text, !.held = @ + 1, !.blocked = TRUE]

(* push, called with a token that was appended to run.buffer.               *)
Push(mode, buffer, token) ==
  LET text == Append(buffer.text, token)
  IN IF Passes(mode, text)
     THEN [text |-> text, held |-> HeldAfter(mode, buffer), blocked |-> FALSE]
     ELSE [text |-> text, held |-> buffer.held + 1, blocked |-> TRUE]

(* Mutation: the tokens that are held back are dropped.                     *)
FlushDropped(buffer) == buffer

Flush(buffer) == IF buffer.blocked THEN buffer ELSE [buffer EXCEPT !.held = 0]

(* The assessment of phase_emit_completion: of the text that is stored.     *)
Accepted(mode, buffer) == ~buffer.blocked /\ Passes(mode, Strip(buffer.text))
-----------------------------------------------------------------------------
Unavailable == "unavailable"     (* web_search_unavailable_message           *)

(* What a turn may be asked: the way through the driver, whether the model  *)
(* calls tools, the safeguard mode, which part of the input is refused, and *)
(* the answer of the model.                                                 *)
Requests ==
  [path : {"plain", "search", "chart"}, native : BOOLEAN, mode : Mode,
   input : {"safe", "unsafe", "context"}, knowledge : BOOLEAN,
   reply : Seq(Token)]

ASSUME StreamAssumption ==
  /\ Preamble \cup {Unavailable} \subseteq Token
  /\ \A t \in Turn : Ask[t] \subseteq Requests /\ Ask[t] # {}

VARIABLES
  ask,        (* the request of each turn and the answer of the model to it *)
  base,       (* the messages the request brought along                     *)
  run,        (* ChatStreamRunContext and the point the generator is at     *)
  out         (* what the client of each turn was sent                      *)

streamVars == <<ask, base, run, out>>
vars == <<storeVars, streamVars>>

LlmPhases == {"answering", "planning", "searching"}

Idle == [pc |-> "idle", todo |-> <<>>, buffer |-> EmptyBuffer,
         suspended |-> FALSE, open |-> TRUE, links |-> {}, chart |-> FALSE,
         title |-> "none", created |-> {}]

Silence == [shown |-> <<>>, refused |-> FALSE, files |-> {}, chart |-> FALSE,
            error |-> FALSE, done |-> FALSE]

Become(t, state) == run' = [run EXCEPT ![t] = state]
Goto(t, next) == Become(t, [run[t] EXCEPT !.pc = next])
Send(t, sent) == out' = [out EXCEPT ![t] = sent]
Keep(t) == UNCHANGED <<storeVars, ask, base>>

(* A generator that was closed cannot yield again: it ends with a           *)
(* RuntimeError where it tries to.                                          *)
Dies(t) == Goto(t, "over") /\ UNCHANGED out

(* error, then done; the stream is over.                                    *)
EndInError(t) ==
  IF run[t].open
  THEN /\ Send(t, [out[t] EXCEPT !.error = TRUE, !.done = TRUE])
       /\ Goto(t, "over")
  ELSE Dies(t)

-----------------------------------------------------------------------------
(* The request arrives with the messages its client knows: those of the     *)
(* session, or none when the client has not loaded it.                      *)

Known == {Texts, <<>>}

Begin(t, a) ==
  /\ run[t].pc = "idle"
  /\ ask' = [ask EXCEPT ![t] = a]
  /\ \E known \in Known : base' = [base EXCEPT ![t] = known]
  /\ Goto(t, IF a.knowledge THEN "preguard" ELSE "guard")
  /\ UNCHANGED <<storeVars, out>>

(* yield_blocked_response up to its first yield.                            *)
Refuse(t) ==
  /\ Send(t, [out[t] EXCEPT !.refused = TRUE])
  /\ Goto(t, "refused")

(* stream_knowledge_chat_sse reviews the user text alone, before retrieval. *)
PreGuard(t) ==
  /\ run[t].pc = "preguard"
  /\ IF ReviewsInput(ask[t].mode) /\ ask[t].input = "unsafe"
     THEN /\ Send(t, [out[t] EXCEPT !.refused = TRUE])
          /\ Goto(t, "prerefused")
     ELSE Goto(t, "retrieving") /\ UNCHANGED out
  /\ Keep(t)

Retrieve(t) ==
  /\ run[t].pc = "retrieving"
  /\ Goto(t, "guard")
  /\ Keep(t) /\ UNCHANGED out

(* The document is not found, or the search fails.                          *)
RetrieveFails(t) ==
  /\ run[t].pc = "retrieving"
  /\ EndInError(t)
  /\ Keep(t)

FirstPhase(a) ==
  IF a.path = "chart" \/ (a.path = "search" /\ a.native) THEN "planning"
  ELSE IF a.path = "search" THEN "searching" ELSE "answering"

(* phase_input_guard reviews the user text with the system instruction and, *)
(* in a knowledge turn, the retrieved context.                              *)
InputGuard(t) ==
  /\ run[t].pc = "guard"
  /\ IF ReviewsInput(ask[t].mode) /\ ask[t].input # "safe" THEN Refuse(t)
     ELSE /\ Become(t, [run[t] EXCEPT !.pc = FirstPhase(ask[t]),
                                      !.todo = ask[t].reply])
          /\ UNCHANGED out
  /\ Keep(t)

-----------------------------------------------------------------------------
(* The model phase.                                                         *)

(* emit_content_through_buffer, then next; a refused buffer ends the phase. *)
Say(t, token, todo, next) ==
  LET mode == ask[t].mode
      after == Push(mode, run[t].buffer, token)
      fresh == Released(after) # Released(run[t].buffer)
  IN /\ Become(t, [run[t] EXCEPT !.buffer = after, !.todo = todo,
                     !.suspended = fresh,
                     !.pc = IF after.blocked THEN "settling" ELSE next])
     /\ Send(t, [out[t] EXCEPT !.shown = Released(after)])

(* A thinking chunk is sent as it comes, neither reviewed nor kept.  (One   *)
(* that follows a yield changes nothing here.)                              *)
Think(t) ==
  /\ run[t].pc \in LlmPhases \ {"searching"}
  /\ ~run[t].suspended
  /\ Become(t, [run[t] EXCEPT !.suspended = TRUE])
  /\ Keep(t) /\ UNCHANGED out

(* stream_native_chart_tool_path forwards what is said before the call;     *)
(* bound: one token.                                                        *)
PlanSays(t, token) ==
  /\ run[t].pc = "planning"
  /\ ask[t].path = "chart"
  /\ run[t].buffer = EmptyBuffer
  /\ Say(t, token, run[t].todo, "planning")
  /\ Keep(t)

(* A chart compiles; a plan that does not is skipped (no step).             *)
PlanChart(t) ==
  /\ run[t].pc = "planning"
  /\ ask[t].path = "chart"
  /\ Become(t, [run[t] EXCEPT !.pc = "answering", !.chart = TRUE,
                              !.suspended = FALSE])
  /\ Keep(t) /\ UNCHANGED out

(* No chart: the plain completion, if nothing was said.                     *)
PlanNothing(t) ==
  LET said == ask[t].path = "chart" /\ run[t].buffer # EmptyBuffer
  IN /\ run[t].pc = "planning"
     /\ Become(t, [run[t] EXCEPT !.suspended = FALSE,
                     !.todo = IF said THEN <<>> ELSE @,
                     !.pc = IF said THEN "settling"
                            ELSE IF ask[t].path = "search" THEN "searching"
                            ELSE "answering"])
     /\ Keep(t) /\ UNCHANGED out

(* Mutation: the model is asked again, with its tools, after every search.  *)
SearchAgain(t) ==
  /\ run[t].pc \in {"planning", "searching"}
  /\ ask[t].path = "search"
  /\ Become(t, [run[t] EXCEPT !.pc = "planning", !.suspended = FALSE])
  /\ Keep(t) /\ UNCHANGED out

(* The search, from the call of the model or as the fallback for it.        *)
Search(t) ==
  /\ run[t].pc \in {"planning", "searching"}
  /\ ask[t].path = "search"
  /\ Become(t, [run[t] EXCEPT !.pc = "answering", !.suspended = FALSE])
  /\ Keep(t) /\ UNCHANGED out

(* WebSearchError: the answer is that the search is unavailable.            *)
SearchFails(t) ==
  /\ run[t].pc \in {"planning", "searching"}
  /\ ask[t].path = "search"
  /\ Say(t, Unavailable, <<>>, "answering")
  /\ Keep(t)

(* The answer streams: a plain completion or the follow-up of a tool call.  *)
Answer(t) ==
  /\ run[t].pc = "answering"
  /\ run[t].todo # <<>>
  /\ Say(t, Head(run[t].todo), Tail(run[t].todo), "answering")
  /\ Keep(t)

EndAnswer(t) ==
  /\ run[t].pc = "answering"
  /\ run[t].todo = <<>>
  /\ Become(t, [run[t] EXCEPT !.pc = "settling", !.suspended = FALSE])
  /\ Keep(t) /\ UNCHANGED out

(* The model fails, at any point.                                           *)
LlmFails(t) ==
  /\ run[t].pc \in LlmPhases
  /\ Send(t, [out[t] EXCEPT !.error = TRUE])
  /\ Goto(t, "failing")
  /\ Keep(t)

(* phase_emit_completion with an error: done, and nothing is kept.          *)
FailTurn(t) ==
  /\ run[t].pc = "failing"
  /\ Send(t, [out[t] EXCEPT !.done = TRUE])
  /\ Goto(t, "over")
  /\ Keep(t)

-----------------------------------------------------------------------------
(* phase_emit_completion without an error, also of a generator that was     *)
(* closed in the model phase.                                               *)

SettleEmpty(t) ==
  /\ run[t].pc = "settling"
  /\ run[t].buffer.text = <<>>
  /\ EndInError(t)
  /\ Keep(t)

SettleAccepted(t) ==
  LET after == Flush(run[t].buffer)
      fresh == after # run[t].buffer
  IN /\ run[t].pc = "settling"
     /\ run[t].buffer.text # <<>>
     /\ Accepted(ask[t].mode, run[t].buffer)
     /\ IF fresh /\ ~run[t].open THEN Dies(t)
        ELSE /\ Become(t, [run[t] EXCEPT !.buffer = after, !.suspended = fresh,
                                         !.pc = "filing"])
             /\ Send(t, [out[t] EXCEPT !.shown = Released(after)])
     /\ Keep(t)

SettleRefused(t) ==
  /\ run[t].pc = "settling"
  /\ run[t].buffer.text # <<>>
  /\ ~Accepted(ask[t].mode, run[t].buffer)
  /\ IF run[t].open THEN Refuse(t) ELSE Dies(t)
  /\ Keep(t)

(* create_chat_artifacts_from_text: one file for each link of the answer.   *)
LinksIn(text) == {text[i] : i \in DOMAIN text} \cap Link
Unfiled(t) == LinksIn(Strip(run[t].buffer.text)) \ run[t].links

File(t, l) ==
  /\ run[t].pc = "filing"
  /\ l \in Unfiled(t)
  /\ PutAndRegister(<<t, l>>)
  /\ Become(t, [run[t] EXCEPT !.links = @ \cup {l}, !.suspended = FALSE])
  /\ UNCHANGED <<session, visible, convlog, ask, base, out>>

(* PersistenceWriteError: what was filed before stays, linked from nowhere. *)
FileUnregistered(t, l) ==
  /\ Faults
  /\ run[t].pc = "filing"
  /\ l \in Unfiled(t)
  /\ RegisterRefused(<<t, l>>)
  /\ EndInError(t)
  /\ UNCHANGED <<session, visible, convlog, ask, base>>

(* ObjectStoreError is none of the exceptions phase_emit_completion         *)
(* catches: the stream breaks off, without error and without done.          *)
FileUnwritten(t, l) ==
  /\ Faults
  /\ run[t].pc = "filing"
  /\ l \in Unfiled(t)
  /\ Dies(t)
  /\ Keep(t)

(* The artifact events and the chart_spec event.                            *)
SendExtras(t) ==
  LET extras == run[t].links # {} \/ run[t].chart
  IN /\ run[t].pc = "filing"
     /\ Unfiled(t) = {}
     /\ IF extras /\ ~run[t].open THEN Dies(t)
        ELSE /\ Become(t, [run[t] EXCEPT !.pc = "logging", !.suspended = extras])
             /\ Send(t, [out[t] EXCEPT !.files = run[t].links,
                                       !.chart = run[t].chart])
     /\ Keep(t)

-----------------------------------------------------------------------------
(* _persist_and_log_chat_result: the conversation log, whose failure is     *)
(* only logged, then persist_chat_session.                                  *)

Log(t) ==
  /\ run[t].pc \in {"logging", "refused", "prerefused"}
  /\ convlog' \in {convlog \cup {t}} \cup (IF Faults THEN {convlog} ELSE {})
  /\ Goto(t, "reading")
  /\ UNCHANGED <<session, visible, artifact, object, ask, base, out>>

(* persist_chat_session reads the row for its created_at; a refused turn    *)
(* has its title already.                                                   *)
ReadSession(t) ==
  /\ run[t].pc = "reading"
  /\ Become(t, [run[t] EXCEPT
        !.created = IF Exists THEN session.created ELSE {t},
        !.title = IF out[t].refused THEN "blocked" ELSE "none",
        !.pc = IF out[t].refused THEN "writing" ELSE "titling"])
  /\ Keep(t) /\ UNCHANGED out

(* Mutation: the title is generated on every turn.                          *)
ReadTitleAnew(t) ==
  /\ run[t].pc = "titling"
  /\ Goto(t, "generating")
  /\ Keep(t) /\ UNCHANGED out

(* session_title_for_upsert reads the row again, for its title.             *)
ReadTitle(t) ==
  /\ run[t].pc = "titling"
  /\ IF Exists
     THEN Become(t, [run[t] EXCEPT !.title = session.title, !.pc = "writing"])
     ELSE Goto(t, "generating")
  /\ Keep(t) /\ UNCHANGED out

(* A title from the model, or the fallback when it fails.                   *)
GenerateTitle(t) ==
  /\ run[t].pc = "generating"
  /\ Become(t, [run[t] EXCEPT !.title = "derived", !.pc = "writing"])
  /\ Keep(t) /\ UNCHANGED out

StoredText(t) == IF out[t].refused THEN Refusal ELSE Strip(run[t].buffer.text)
StoredLinks(t) == IF out[t].refused THEN {} ELSE {t} \X run[t].links

Write(t) ==
  /\ run[t].pc = "writing"
  /\ Upsert(run[t].title, run[t].created,
            Payload(base[t], t, StoredText(t), StoredLinks(t)))
  /\ Goto(t, "finishing")
  /\ UNCHANGED <<artifact, object, convlog, ask, base, out>>

(* Mutation: the exceptions of the store are not caught.                    *)
PersistFailsUncaught(t) ==
  /\ Faults
  /\ run[t].pc \in {"reading", "titling", "writing"}
  /\ Dies(t)
  /\ Keep(t)

(* PersistenceReadError or PersistenceWriteError.                           *)
PersistFails(t) ==
  /\ Faults
  /\ run[t].pc \in {"reading", "titling", "writing"}
  /\ EndInError(t)
  /\ Keep(t)

Finish(t) ==
  /\ run[t].pc = "finishing"
  /\ IF run[t].open
     THEN Send(t, [out[t] EXCEPT !.done = TRUE]) /\ Goto(t, "over")
     ELSE Dies(t)
  /\ Keep(t)

-----------------------------------------------------------------------------
(* The client goes away while the generator is suspended at a yield.  In    *)
(* the model phase GeneratorExit runs the finally clause of stream, with no *)
(* error; anywhere else the generator ends.                                 *)

Disconnect(t) ==
  /\ run[t].open
  /\ \/ /\ run[t].pc \in LlmPhases
        /\ run[t].suspended
        /\ Become(t, [run[t] EXCEPT !.open = FALSE, !.pc = "settling"])
     \/ /\ \/ run[t].pc \in {"refused", "prerefused", "failing"}
           \/ run[t].pc \in {"filing", "logging"} /\ run[t].suspended
        /\ Become(t, [run[t] EXCEPT !.open = FALSE, !.pc = "over"])
  /\ Keep(t) /\ UNCHANGED out

Step(t) ==
  \/ PreGuard(t) \/ Retrieve(t) \/ RetrieveFails(t) \/ InputGuard(t)
  \/ \E token \in Preamble : PlanSays(t, token)
  \/ Think(t) \/ PlanChart(t) \/ PlanNothing(t) \/ Search(t) \/ SearchFails(t)
  \/ Answer(t) \/ EndAnswer(t) \/ LlmFails(t) \/ FailTurn(t)
  \/ SettleEmpty(t) \/ SettleAccepted(t) \/ SettleRefused(t)
  \/ \E l \in Link : File(t, l) \/ FileUnregistered(t, l) \/ FileUnwritten(t, l)
  \/ SendExtras(t) \/ Log(t) \/ ReadSession(t) \/ ReadTitle(t)
  \/ GenerateTitle(t) \/ Write(t) \/ PersistFails(t) \/ Finish(t)

StreamInit ==
  /\ ask = [t \in Turn |-> CHOOSE a \in Ask[t] : TRUE]
  /\ base = [t \in Turn |-> <<>>]
  /\ run = [t \in Turn |-> Idle]
  /\ out = [t \in Turn |-> Silence]
=============================================================================
