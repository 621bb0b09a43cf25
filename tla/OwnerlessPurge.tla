---------------------------- MODULE OwnerlessPurge ----------------------------
(***************************************************************************)
(* The purge of chats without an owner (tools/ops/purge_ownerless_history, *)
(* backend/services/privacy_cleanup.py) beside a server that goes on       *)
(* working: what is in the tables that name a chat.                        *)
(***************************************************************************)
EXTENDS Naturals

CONSTANTS
  Session,   \* chats
  Owner      \* what X-GOAT-Owner-Id may be, NoOwner among it

NoOwner == ""

VARIABLES
  owner,     \* the owner_id of each chat's row in sessions
  tables,    \* the tables that have rows of each chat
  purge,     \* the purge that runs, and the chats it selected
  taken,     \* history: the chats that got an owner since the last purge selected
  wronged    \* history: the chats the last purge deleted though they had an owner

purgeVars == <<owner, tables, purge, taken, wronged>>

NoPurge == [pc |-> "none", ids |-> {}]

Stored(s) == "sessions" \in tables[s]
Ownerless == {s \in Session : Stored(s) /\ owner[s] = NoOwner}

-----------------------------------------------------------------------------
(***************************************************************************)
(* The server.  A turn logs its conversation, registers its files and      *)
(* stores the chat, under the owner its request names whoever had it       *)
(* before (owner_id = excluded.owner_id); a workbench task names the chat  *)
(* it was asked for in, and its output is found by that.                   *)
(***************************************************************************)
Fill(s, names) ==
    /\ tables' = [tables EXCEPT ![s] = @ \union names]
    /\ UNCHANGED <<purge, wronged>>

LogConversation(s) == Fill(s, {"conversations"}) /\ UNCHANGED <<owner, taken>>
CreateChatArtifact(s) == Fill(s, {"chat_artifacts"}) /\ UNCHANGED <<owner, taken>>

UpsertSession(s, o) ==
    /\ Fill(s, {"sessions", "session_messages"})
    /\ owner' = [owner EXCEPT ![s] = o]
    /\ taken' = IF o = NoOwner THEN taken ELSE taken \union {s}

NameSessionInTask(s) == Fill(s, {"workbench_tasks"}) /\ UNCHANGED <<owner, taken>>
CreateWorkspaceOutput(s) ==
    /\ "workbench_tasks" \in tables[s]
    /\ Fill(s, {"workbench_workspace_outputs"})
    /\ UNCHANGED <<owner, taken>>

(* The rows of these tables that name the chats; the others stay.          *)
Empty(ids, names) ==
    tables' = [s \in Session |-> IF s \in ids THEN tables[s] \ names ELSE tables[s]]

DeleteSession(s) ==
    /\ Stored(s)
    /\ Empty({s}, {"sessions", "session_messages", "chat_artifacts"})
    /\ UNCHANGED <<owner, purge, taken, wronged>>

-----------------------------------------------------------------------------
\* Mutant: every chat is selected.
SelectStored ==
    /\ purge.pc = "none" /\ Ownerless # {}
    /\ purge' = [pc |-> "delete", ids |-> {s \in Session : Stored(s)}]
    /\ taken' = {} /\ wronged' = {}
    /\ UNCHANGED <<owner, tables>>

(* The chats are selected before the transaction begins; a dry run ends.   *)
SelectOwnerless ==
    /\ purge.pc = "none" /\ Ownerless # {}
    /\ purge' = [pc |-> "delete", ids |-> Ownerless]
    /\ taken' = {} /\ wronged' = {}
    /\ UNCHANGED <<owner, tables>>

(* One transaction, other writers wait for it (BEGIN IMMEDIATE).           *)
PurgeOwnerlessHistory ==
    /\ purge.pc = "delete"
    /\ Empty(purge.ids, {"session_messages", "chat_artifacts", "conversations", "sessions"})
    /\ wronged' = {s \in purge.ids : Stored(s) /\ owner[s] # NoOwner}
    /\ purge' = NoPurge
    /\ UNCHANGED <<owner, taken>>

PurgeDies ==
    /\ purge.pc # "none"
    /\ purge' = NoPurge
    /\ UNCHANGED <<owner, tables, taken, wronged>>

PurgeInit ==
    /\ owner = [s \in Session |-> NoOwner] /\ tables = [s \in Session |-> {}]
    /\ purge = NoPurge /\ taken = {} /\ wronged = {}

PurgeStep ==
    \/ \E s \in Session :
         \/ LogConversation(s) \/ CreateChatArtifact(s) \/ DeleteSession(s)
         \/ NameSessionInTask(s) \/ CreateWorkspaceOutput(s)
         \/ \E o \in Owner : UpsertSession(s, o)
    \/ SelectOwnerless \/ PurgeOwnerlessHistory \/ PurgeDies

(***************************************************************************)
(* OnlyOwnerlessGo.  tools/ops/purge_ownerless_history.py:16 says "Delete  *)
(* legacy ownerless sessions plus linked" rows: a chat that has an owner   *)
(* when the transaction of the purge deletes its rows is not one of them.  *)
(***************************************************************************)
OnlyOwnerlessGo == wronged = {}
=============================================================================
