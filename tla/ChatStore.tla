------------------------------ MODULE ChatStore -------------------------------
(***************************************************************************)
(* What chat turns leave behind (backend/services/log_service.py,          *)
(* session_service.py, session_message_codec.py, artifact_service.py): one *)
(* session row with its payload, the normalized session_messages rows, the *)
(* chat_artifacts rows, the object store behind them and the conversation  *)
(* log.  Every store call is one transaction.                              *)
(*                                                                         *)
(* A message stands for one exchange: the assistant text and the artifacts *)
(* that are linked from it.  The session belongs to one owner, and like    *)
(* every request to the default tenant (see Visibility).                   *)
(***************************************************************************)
EXTENDS Sequences, SequencesExt, FiniteSets, Naturals

CONSTANTS
  Turn,       (* the chat requests on the session                           *)
  Link        (* tokens that name a downloadable file                       *)

VARIABLES
  session,    (* the row of the session, or NoSession                       *)
  visible,    (* its session_messages rows                                  *)
  artifact,   (* chat_artifacts: <<turn, link>>, or an exported output      *)
  object,     (* the keys that hold bytes                                   *)
  convlog     (* the turns in the conversation log                          *)

storeVars == <<session, visible, artifact, object, convlog>>

Exported == <<"no turn", "an exported output">>
NoSession == [title |-> "none"]
Exists == session # NoSession

Message(t, text, links) == [turn |-> t, text |-> text, links |-> links]

(* get_session and list_sessions prefer the normalized rows to the payload. *)
Messages == IF visible = <<>> THEN session.messages ELSE visible

(* What a later request sends back: ChatMessage has no field for artifacts. *)
Texts == IF Exists THEN [i \in DOMAIN Messages |->
                           Message(Messages[i].turn, Messages[i].text, {})]
         ELSE <<>>

(* build_session_payload links the artifacts of the turn from every         *)
(* assistant message with its text.                                         *)
Payload(base, t, text, links) ==
  LET Linked(m) == IF m.text = text /\ links # {} THEN [m EXCEPT !.links = links]
                   ELSE m
  IN [i \in 1..Len(base) + 1 |-> Linked(Append(base, Message(t, text, {}))[i])]

(* _replace_session_messages.                                               *)
ReplaceMessages(messages) == visible' = messages

(* The row after INSERT ... ON CONFLICT (id) DO UPDATE: created_at of a      *)
(* present row is kept, all else replaced.                                  *)
SessionRow(title, created, messages) ==
  [title |-> title,
   created |-> IF Exists THEN session.created ELSE created,
   messages |-> messages]

(* upsert_session: the normalized rows follow in the same transaction.      *)
Upsert(title, created, messages) ==
  /\ session' = SessionRow(title, created, messages)
  /\ ReplaceMessages(messages)

(* rename_session_title.                                                    *)
RenameRow == session' = [session EXCEPT !.title = "renamed"]

(* delete_session: the artifact rows of the session go, their bytes stay.   *)
DeleteRow ==
  /\ session' = NoSession
  /\ visible' = <<>>
  /\ artifact' = artifact \cap {Exported}

(* delete_all_sessions on SQLite filters chat_artifacts by owner and tenant *)
(* like sessions, so that artifacts of no session go as well.               *)
DeleteAllRows ==
  /\ artifact' = {}
  /\ session' = NoSession
  /\ visible' = <<>>

(* On Postgres the artifacts go by the ids of the deleted sessions.         *)
DeleteAllRowsById ==
  IF Exists THEN DeleteRow
  ELSE UNCHANGED <<session, visible, artifact>>

PutBytes(a) == object' = object \cup {a}          (* put_bytes              *)
Register(a) == artifact' = artifact \cup {a}      (* create_chat_artifact   *)

(* persist_artifact: the bytes first, then the row.                         *)
PutAndRegister(a) == PutBytes(a) /\ Register(a)

(* Mutation: the row is registered before the bytes are written.            *)
RegisterRefusedKept(a) == Register(a) /\ UNCHANGED object

(* The row cannot be inserted: the bytes are deleted again, unless that     *)
(* fails too.                                                               *)
RegisterRefused(a) ==
  /\ object' \in {object, object \cup {a}}
  /\ UNCHANGED artifact

StoreInit ==
  /\ session = NoSession
  /\ visible = <<>>
  /\ artifact = {Exported}
  /\ object = {Exported}
  /\ convlog = {}
=============================================================================
