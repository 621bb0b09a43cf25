------------------------------- MODULE ChatPage -------------------------------
(***************************************************************************)
(* The chat of one browser page, frontend/src/hooks: useChat (messages,    *)
(* one stream), useChatSession (the persona a chat is locked to),          *)
(* useHistory and useChatSessionHistorySync (saved chats, loaded, deleted  *)
(* and listed by requests that are answered in any order), and             *)
(* chatLocalPersistence (what a reload of the page brings back).  Of the   *)
(* server it keeps what its answers depend on: the saved turns and persona *)
(* of a chat, written when a turn ends.                                    *)
(***************************************************************************)
EXTENDS Naturals, Sequences, FiniteSets

CONSTANTS
    Chat,         \* session ids
    Persona,      \* theme and instruction, as the settings may have them
    MaxTurns,     \* bound: messages sent
    MaxRequests   \* bound: loads, deletions, refreshes and reloads

ASSUME PageAssumption == MaxTurns \in Nat /\ MaxRequests \in Nat

Turn == 1..MaxTurns

VARIABLES
    sessionId,    \* the chat on the screen, {} or a singleton
    messages,     \* one bubble for a question and its answer
    isStreaming,
    stream,       \* the turn whose events the page reads, {} or a singleton
    locked,       \* the persona of the chat on the screen, {} or a singleton
    draft,        \* the persona of the settings
    sessions,     \* the chats of the sidebar
    asked,        \* <<turn>>: the requests sent, with chat, turns and persona
    open,         \* the turns the server works on
    saved,        \* [Chat -> what the server has of it]
    mail,         \* answers of the server that are under way to the page
    requests

pageVars == <<sessionId, messages, isStreaming, stream, locked, draft, sessions, asked,
              open, saved, mail, requests>>

Unsaved == [turns |-> {}, persona |-> {}]

\* A bubble: its turn, whether its answer is awaited, and whose tokens it shows.
Question(k) == [turn |-> k, live |-> TRUE, from |-> {}]

Loaded(k) == [turn |-> k, live |-> FALSE, from |-> {k}]

\* buildHistoryMessages: every turn on the screen, as question or as answer.
HistoryMessages == UNION {{messages[i].turn} \union messages[i].from : i \in DOMAIN messages}

Request == requests < MaxRequests /\ requests' = requests + 1

Used == {asked[i].chat : i \in DOMAIN asked}

Saved == {c \in Chat : saved[c] # Unsaved}

-----------------------------------------------------------------------------
\* Mutant: the persona of the settings, whatever the chat began with.
ResolvePersonaSnapshotDraft(c) == draft

ResolvePersonaSnapshot(c) ==
    IF sessionId = {c} /\ locked # {} THEN CHOOSE p \in locked : TRUE ELSE draft

\* useChatSendMessageController: the composer sends only when nothing streams;
\* a chat without an id gets a random one, here one that nobody has used.
SendMessage(c) ==
    LET k == Len(asked) + 1 IN
    /\ ~isStreaming /\ k <= MaxTurns
    /\ IF sessionId = {} THEN c \notin Used ELSE sessionId = {c}
    /\ LET persona == ResolvePersonaSnapshot(c) IN
       /\ asked' = Append(asked, [chat |-> c, turns |-> HistoryMessages, persona |-> persona])
       /\ locked' = {persona}
    /\ sessions' = sessions \union {c}
    /\ sessionId' = {c}
    /\ messages' = Append(messages, Question(k))
    /\ isStreaming' = TRUE
    /\ stream' = {k}
    /\ open' = open \union {k}
    /\ UNCHANGED <<draft, saved, mail, requests>>

\* Mutant: the last bubble is taken for the one that awaits the answer.
ApplyStreamEventToLast(k) ==
    IF messages = <<>> THEN messages
    ELSE [messages EXCEPT ![Len(messages)].from = @ \union {k}]

\* By the id of the bubble: a chat loaded from the server has new ids.
ApplyStreamEvent(k) ==
    [i \in DOMAIN messages |->
        IF messages[i].turn = k /\ messages[i].live
        THEN [messages[i] EXCEPT !.from = @ \union {k}] ELSE messages[i]]

StreamEvent(k) ==
    /\ k \in stream \cap open
    /\ messages' = ApplyStreamEvent(k)
    /\ UNCHANGED <<sessionId, isStreaming, stream, locked, draft, sessions, asked, open,
                   saved, mail, requests>>

FinalizeStreamingMessage(k) ==
    [i \in DOMAIN messages |->
        IF messages[i].turn = k THEN [messages[i] EXCEPT !.live = FALSE] ELSE messages[i]]

\* The done event, an error, the first-event timeout or Stop, and then the
\* refresh of the sidebar.
EndStream(k) ==
    /\ k \in stream
    /\ messages' = FinalizeStreamingMessage(k)
    /\ isStreaming' = FALSE
    /\ stream' = {}
    /\ mail' = mail \union {[kind |-> "list", chats |-> Saved]}

StopStreaming(k) ==
    /\ EndStream(k)
    /\ UNCHANGED <<sessionId, locked, draft, sessions, asked, open, saved, requests>>

\* The server ends a turn and stores the chat as the request had it, with the
\* answer, or drops it (an error, a disconnect); the page, if it reads yet, is told.
ServerEnds(k) ==
    /\ k \in open
    /\ open' = open \ {k}
    /\ \/ LET a == asked[k] IN
          saved' = [saved EXCEPT ![a.chat] =
                      [turns |-> a.turns \union {k}, persona |-> {a.persona}]]
       \/ UNCHANGED saved
    /\ UNCHANGED <<sessionId, messages, isStreaming, stream, locked, draft, sessions, asked,
                   mail, requests>>

StreamCloses(k) ==
    /\ k \notin open
    /\ EndStream(k)
    /\ UNCHANGED <<sessionId, locked, draft, sessions, asked, open, saved, requests>>

-----------------------------------------------------------------------------
\* New chat.
ClearChatSession ==
    /\ sessionId' = {} /\ messages' = <<>> /\ locked' = {}

NewChat ==
    /\ sessionId # {}
    /\ ClearChatSession
    /\ UNCHANGED <<isStreaming, stream, draft, sessions, asked, open, saved, mail, requests>>

ChangeSettings(p) ==
    /\ p # draft
    /\ draft' = p
    /\ UNCHANGED <<sessionId, messages, isStreaming, stream, locked, sessions, asked, open,
                   saved, mail, requests>>

\* The server answers a load, or 404; its answer arrives later.
LoadHistorySession(c) ==
    /\ Request
    /\ c \in sessions \cap Saved
    /\ mail' = mail \union {[kind |-> "chat", chat |-> c, saved |-> saved[c]]}
    /\ UNCHANGED <<sessionId, messages, isStreaming, stream, locked, draft, sessions, asked,
                   open, saved>>

\* The turns of a chat as they were asked, one after the other.
InOrder(turns) ==
    {order \in [1..Cardinality(turns) -> turns] :
        \A i, j \in DOMAIN order : i < j => order[i] < order[j]}

HydrateHistorySession(order) == [i \in DOMAIN order |-> Loaded(order[i])]

\* A chat saved before personas were is locked to the settings of now.
HandleHistorySessionLoaded(persona) == IF persona = {} THEN {draft} ELSE persona

ChatArrives(m) ==
    /\ m \in mail /\ m.kind = "chat"
    /\ sessionId' = {m.chat}
    /\ \E order \in InOrder(m.saved.turns) : messages' = HydrateHistorySession(order)
    /\ locked' = HandleHistorySessionLoaded(m.saved.persona)
    /\ mail' = mail \ {m}
    /\ UNCHANGED <<isStreaming, stream, draft, sessions, asked, open, saved, requests>>

DeleteConversation ==
    /\ Request
    /\ \E c \in sessionId :
         /\ saved' = [saved EXCEPT ![c] = Unsaved]
         /\ mail' = mail \union {[kind |-> "deleted", chat |-> c]}
    /\ UNCHANGED <<sessionId, messages, isStreaming, stream, locked, draft, sessions, asked, open>>

\* Whatever chat is on the screen by then is cleared.
DeletedArrives(m) ==
    /\ m \in mail /\ m.kind = "deleted"
    /\ sessions' = sessions \ {m.chat}
    /\ ClearChatSession
    /\ mail' = mail \ {m}
    /\ UNCHANGED <<isStreaming, stream, draft, asked, open, saved, requests>>

RefreshHistory ==
    /\ Request
    /\ mail' = mail \union {[kind |-> "list", chats |-> Saved]}
    /\ UNCHANGED <<sessionId, messages, isStreaming, stream, locked, draft, sessions, asked,
                   open, saved>>

ListArrives(m) ==
    /\ m \in mail /\ m.kind = "list"
    /\ sessions' = m.chats
    /\ mail' = mail \ {m}
    /\ UNCHANGED <<sessionId, messages, isStreaming, stream, locked, draft, asked, open,
                   saved, requests>>

\* What local storage has of the page: all but the bubble's awaited answer.
LoadStoredMessages ==
    [i \in DOMAIN messages |->
        IF messages[i].live THEN [messages[i] EXCEPT !.live = FALSE, !.from = {}] ELSE messages[i]]

ReloadPage ==
    /\ Request
    /\ messages' = LoadStoredMessages
    /\ isStreaming' = FALSE
    /\ stream' = {}
    /\ sessions' = {}
    /\ mail' = {[kind |-> "list", chats |-> Saved]}
    /\ UNCHANGED <<sessionId, locked, draft, asked, open, saved>>

-----------------------------------------------------------------------------
PageInit ==
    /\ sessionId = {} /\ messages = <<>> /\ isStreaming = FALSE /\ stream = {}
    /\ locked = {} /\ draft \in Persona
    /\ sessions = {} /\ asked = <<>> /\ open = {}
    /\ saved = [c \in Chat |-> Unsaved]
    /\ mail = {} /\ requests = 0

Arrival(m) == ChatArrives(m) \/ DeletedArrives(m) \/ ListArrives(m)

PageStep ==
    \/ \E c \in Chat : SendMessage(c) \/ LoadHistorySession(c)
    \/ \E k \in Turn : StreamEvent(k) \/ StopStreaming(k) \/ ServerEnds(k) \/ StreamCloses(k)
    \/ \E p \in Persona : ChangeSettings(p)
    \/ \E m \in mail : Arrival(m)
    \/ NewChat \/ DeleteConversation \/ RefreshHistory \/ ReloadPage
=============================================================================
