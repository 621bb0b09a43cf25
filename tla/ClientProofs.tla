---------------------------- MODULE ClientProofs ----------------------------
(***************************************************************************)
(* Machine-checked proofs about the programs around the server: the        *)
(* desktop shell, for any number of startup attempts; the chats of a page; *)
(* the log of the sandbox panel; and the output of a provider's run.       *)
(***************************************************************************)
EXTENDS ClientSystem, TLAPS, FiniteSetTheorems, SequenceTheorems

(***************************************************************************)
(* Why there is one sidecar: only the backend of the current attempt can   *)
(* be loose, one the shell did not have killed; none is when the next      *)
(* attempt begins, and once an attempt has been stored the slot knows      *)
(* whatever is loose, so that stopping it stops everything there is.  The  *)
(* slot is empty until then, and OnWindowDestroyed, which may empty it at  *)
(* any time, has what was in it killed.                                    *)
(***************************************************************************)
StarterPC == {"check", "probe", "spawn", "store", "wait", "stop", "failed", "announce",
              "reveal", "done"}

Loose == Backends \ stopped

ProcsOk ==
  /\ sidecar \in [Try -> {"none", "running", "ended", "told"}]
  /\ server \in [Try -> {"none", "starting", "serving", "dead"}]
  /\ \A a \in Try : Runs(a) => sidecar[a] = "running" \/ a \in stopped

ShellInv ==
  /\ starter \in [pc : StarterPC, try : Try]
  /\ ProcsOk
  /\ slot \subseteq {starter.try}
  /\ Loose \subseteq {starter.try}
  /\ starter.pc \in {"check", "probe", "spawn", "store", "failed"} => slot = {}
  /\ starter.pc # "store" => Loose \subseteq slot

(* Stopping takes what was stored out of the slot, and it is loose no more. *)
LEMMA StopLeaves ==
  ASSUME ProcsOk, slot \subseteq Try, StopActiveBackendProcess
  PROVE  ProcsOk' /\ slot' = {} /\ Loose' \subseteq Loose \ slot
<1>1. PICK killed \in SUBSET {a \in slot : sidecar[a] = "running"} :
        sidecar' = [a \in Try |-> IF a \in killed THEN "ended" ELSE sidecar[a]]
  BY DEF StopActiveBackendProcess
<1>2. slot' = {} /\ stopped' = stopped \union slot /\ server' = server
  BY DEF StopActiveBackendProcess
<1>3. ProcsOk'
  BY <1>1, <1>2 DEF ProcsOk, Runs
<1>4. Loose' \subseteq Loose \ slot
  BY <1>1, <1>2 DEF Loose, Backends, Runs
<1> QED BY <1>2, <1>3, <1>4

LEMMA SlotIsATry == ShellInv => slot \subseteq Try /\ starter.try \in Try
BY DEF ShellInv

(* The steps of the startup thread keep the invariant.                      *)
LEMMA StartupKeeps ==
  ASSUME ShellInv, Startup
  PROVE  ShellInv'
<1>t. ASSUME NEW pc \in StarterPC, StepTo(pc)
      PROVE  /\ starter' \in [pc : StarterPC, try : Try]
             /\ starter'.pc = pc
             /\ starter'.try = starter.try
  BY <1>t DEF ShellInv, StepTo
<1>a. UNCHANGED procs => Loose' = Loose /\ ProcsOk'
  BY DEF Loose, Backends, Runs, ProcsOk, procs, ShellInv
<1> USE DEF ShellInv, At, StarterPC
<1>1. CASE CheckShutdown
  <2>1. CASE StopActiveBackendProcess /\ StepTo("done")
    <3>1. ProcsOk' /\ slot' = {} /\ Loose' \subseteq Loose \ slot
      BY <2>1, StopLeaves, SlotIsATry
    <3>2. Loose \subseteq slot
      BY <1>1 DEF CheckShutdown
    <3>3. QED BY <2>1, <3>1, <3>2, <1>t
  <2>2. CASE StepTo("probe") /\ UNCHANGED <<slot, procs>>
    BY <1>1, <2>2, <1>t, <1>a DEF CheckShutdown
  <2>3. QED BY <1>1, <2>1, <2>2 DEF CheckShutdown
<1>2. CASE ResolveBackendLaunchDisposition
  <2>1. PICK pc \in {"announce", "spawn"} : StepTo(pc)
    BY <1>2 DEF ResolveBackendLaunchDisposition
  <2>2. QED BY <1>2, <2>1, <1>t, <1>a DEF ResolveBackendLaunchDisposition
<1>3. CASE SpawnBackend
  <2>1. CASE StepTo("failed") /\ UNCHANGED sidecar
    BY <1>3, <2>1, <1>t, <1>a DEF SpawnBackend, procs
  <2>2. CASE sidecar' = [sidecar EXCEPT ![starter.try] = "running"] /\ StepTo("store")
    <3>1. UNCHANGED <<server, stopped, slot>>
      BY <1>3 DEF SpawnBackend
    <3>2. ProcsOk' /\ Loose' \subseteq Loose \cup {starter.try}
      BY <2>2, <3>1 DEF Loose, Backends, Runs, ProcsOk
    <3>3. QED BY <1>3, <2>2, <3>1, <3>2, <1>t DEF SpawnBackend
  <2>3. QED BY <1>3, <2>1, <2>2 DEF SpawnBackend
<1>4. CASE StoreBackendProcess
  BY <1>4, <1>t, <1>a DEF StoreBackendProcess
<1>5. CASE WaitForBackendStartup
  <2>1. PICK pc \in {"announce", "stop"} : StepTo(pc)
    BY <1>5 DEF WaitForBackendStartup
  <2>2. QED BY <1>5, <2>1, <1>t, <1>a DEF WaitForBackendStartup
<1>6. CASE StopAttempt
  <2>1. Loose' = {} /\ slot' = {} /\ ProcsOk'
    BY <1>6, StopLeaves, SlotIsATry DEF StopAttempt
  <2>2. QED BY <1>6, <2>1, <1>t DEF StopAttempt
<1>7. CASE NextAttempt
  <2>1. Loose' = {} /\ slot' = {} /\ ProcsOk'
    BY <1>7, <1>a DEF NextAttempt
  <2>2. CASE UNCHANGED starter
    BY <2>1, <2>2
  <2>3. CASE starter.try # Attempts /\ starter' = [pc |-> "check", try |-> starter.try + 1]
    <3>1. starter.try + 1 \in Try
      BY <2>3, AttemptsAssumption DEF AttemptsAssumption, Try
    <3>2. QED BY <2>1, <2>3, <3>1
  <2>4. QED BY <1>7, <2>2, <2>3 DEF NextAttempt
<1>8. CASE Announce
  BY <1>8, <1>t, <1>a DEF Announce
<1>9. CASE RevealMainWindow
  BY <1>9, <1>t, <1>a DEF RevealMainWindow
<1>10. QED
  BY <1>1, <1>2, <1>3, <1>4, <1>5, <1>6, <1>7, <1>8, <1>9 DEF Startup

(* So do the sidecars, their event tasks, the window and a second launch.   *)
LEMMA SurroundingsKeep ==
  ASSUME ShellInv, Surroundings
  PROVE  ShellInv'
<1>q. ASSUME UNCHANGED <<starter, slot>>, ProcsOk', Loose' \subseteq Loose
      PROVE  ShellInv'
  BY <1>q DEF ShellInv
<1>1. ASSUME UNCHANGED <<starter, slot, sidecar, server, stopped>> PROVE ShellInv'
  BY <1>1, <1>q DEF ShellInv, ProcsOk, Runs, Loose, Backends
<1>2. ASSUME NEW a \in Try, StartServer(a) \/ Serve(a) \/ ServerExits(a) PROVE ShellInv'
  <2>1. UNCHANGED <<starter, slot, sidecar, stopped>>
    BY <1>2 DEF StartServer, Serve, ServerExits
  <2>2. PICK s \in {"starting", "serving", "dead"} : server' = [server EXCEPT ![a] = s]
    BY <1>2 DEF StartServer, Serve, ServerExits
  <2>3. s # "dead" => sidecar[a] = "running" \/ Runs(a)
    BY <1>2, <2>2 DEF StartServer, Serve, ServerExits, Runs, ShellInv, ProcsOk
  <2>4. ProcsOk' /\ Loose' \subseteq Loose
    BY <2>1, <2>2, <2>3 DEF ShellInv, ProcsOk, Runs, Loose, Backends
  <2>5. QED BY <2>1, <2>4, <1>q
<1>3. ASSUME NEW a \in Try, SidecarExits(a) \/ TerminatedArrives(a) PROVE ShellInv'
  <2>1. UNCHANGED <<starter, slot, server, stopped>>
    BY <1>3 DEF SidecarExits, TerminatedArrives, ReadFlags
  <2>2. PICK s \in {"ended", "told"} : sidecar' = [sidecar EXCEPT ![a] = s]
    BY <1>3 DEF SidecarExits, TerminatedArrives
  <2>3. ~Runs(a) \/ sidecar[a] # "running"
    BY <1>3 DEF SidecarExits, TerminatedArrives
  <2>4. ProcsOk' /\ Loose' \subseteq Loose
    BY <2>1, <2>2, <2>3 DEF ShellInv, ProcsOk, Runs, Loose, Backends
  <2>5. QED BY <2>1, <2>4, <1>q
<1>4. CASE \/ ExistingExits \/ SecondLaunch \/ LoopEnds
           \/ \E a \in Try : ErrorArrives(a) \/ ActOnEvent(a)
  BY <1>1, <1>4 DEF ExistingExits, SecondLaunch, LoopEnds, ErrorArrives, ReadFlags, ActOnEvent, procs
<1>5. CASE OnWindowDestroyed
  BY <1>5, StopLeaves, SlotIsATry DEF OnWindowDestroyed, ShellInv
<1>6. QED BY <1>2, <1>3, <1>4, <1>5 DEF Surroundings

(* Every step of the clients keeps the invariant: those of the page, the    *)
(* panel and the provider do not touch the shell.                           *)
LEMMA StepKeeps == ShellInv /\ [Next]_vars => ShellInv'
<1> SUFFICES ASSUME ShellInv, [Next]_vars PROVE ShellInv'
  OBVIOUS
<1>1. CASE UNCHANGED shellVars
  BY <1>1 DEF shellVars, procs, ShellInv, ProcsOk, Loose, Backends, Runs
<1>2. CASE InShell /\ (Startup \/ Surroundings)
  BY <1>2, StartupKeeps, SurroundingsKeep
<1>3. QED BY <1>1, <1>2 DEF Next, InPage, InPanel, InProvider, vars

LEMMA InitKeeps == Init => ShellInv
<1>1. 1 \in Try
  BY AttemptsAssumption DEF AttemptsAssumption, Try
<1>2. ShellInit => ShellInv
  BY <1>1 DEF ShellInit, ShellInv, StarterPC, ProcsOk, Loose, Backends, Runs
<1>3. QED BY <1>2 DEF Init

LEMMA SlotKnowsTheSidecar == Spec => []ShellInv
<1>1. QED BY InitKeeps, StepKeeps, PTL DEF Spec

(***************************************************************************)
(* OneSidecarAtATime.  For any number of attempts, and however they fail,  *)
(* time out, leave a server behind or are overtaken by the closing window: *)
(* of all backends there is at most one the shell did not have killed, and *)
(* the shell has its child, or is about to store it.                       *)
(***************************************************************************)
THEOREM OneSidecarAtATime == Spec => []OneSidecar
<1>1. ShellInv => OneSidecar
  <2> SUFFICES ASSUME ShellInv PROVE OneSidecar
    OBVIOUS
  <2>1. \A a, b \in Loose : a = b
    BY DEF ShellInv
  <2>2. Loose \subseteq IF starter.pc = "store" THEN slot \union {starter.try} ELSE slot
    BY DEF ShellInv
  <2> QED BY <2>1, <2>2 DEF OneSidecar, Loose
<1>2. QED BY <1>1, SlotKnowsTheSidecar, PTL
-----------------------------------------------------------------------------
(***************************************************************************)
(* The chats of a page.  What the page shows, what the server has saved    *)
(* and every answer under way is of one chat, and goes with the persona    *)
(* that chat was asked with.                                               *)
(***************************************************************************)
LEMMA OthersLeaveThePage == Next => PageStep \/ UNCHANGED pageVars
BY DEF Next, InShell, InPage, InPanel, InProvider

Requests == [chat : Chat, turns : SUBSET Nat, persona : Persona]

Bubbles == [turn : Nat, live : BOOLEAN, from : SUBSET Nat]

\* The turns that were asked in chat c, of all that were asked, as.
TurnsOf(as, c) == {k \in DOMAIN as : as[k].chat = c}

\* A chat that was asked, with turns and a persona of its own.
Belongs(as, c, turns, persona) ==
  /\ turns \subseteq TurnsOf(as, c) /\ TurnsOf(as, c) # {}
  /\ \A k \in TurnsOf(as, c) : persona = {as[k].persona}

SavedOk(as, c, s) == s # Unsaved => Belongs(as, c, s.turns, s.persona)

MailOk(as, m) ==
  m.kind = "chat" => m.chat \in Chat /\ Belongs(as, m.chat, m.saved.turns, m.saved.persona)

\* A bubble never shows the answer to another turn.
BubblesOk(msgs) == msgs \in Seq(Bubbles) /\ \A i \in DOMAIN msgs : msgs[i].from \subseteq {msgs[i].turn}

TurnsIn(msgs) == {msgs[i].turn : i \in DOMAIN msgs}

ScreenOk(as, ids, msgs, persona) ==
  \/ ids = {} /\ msgs = <<>>
  \/ \E c \in Chat : ids = {c} /\ Belongs(as, c, TurnsIn(msgs), persona)

AskedOk(as) ==
  /\ as \in Seq(Requests)
  /\ \A k \in DOMAIN as : as[k].turns \subseteq TurnsOf(as, as[k].chat)
  /\ \A j, k \in DOMAIN as : as[j].chat = as[k].chat => as[j].persona = as[k].persona

PageInv ==
  /\ AskedOk(asked)
  /\ BubblesOk(messages)
  /\ ScreenOk(asked, sessionId, messages, locked)
  /\ DOMAIN saved = Chat /\ \A c \in Chat : SavedOk(asked, c, saved[c])
  /\ \A m \in mail : MailOk(asked, m)
  /\ open \subseteq DOMAIN asked
  /\ draft \in Persona

LEMMA PageInvInit == PageInit => PageInv
BY DEF PageInit, PageInv, AskedOk, BubblesOk, ScreenOk, SavedOk, MailOk

\* The history of a request is what the bubbles were asked.
LEMMA HistoryIsTurns == ASSUME BubblesOk(messages) PROVE HistoryMessages = TurnsIn(messages)
BY DEF BubblesOk, HistoryMessages, TurnsIn

\* What stays as it was when nothing is asked.
LEMMA NothingAsked ==
  ASSUME PageInv, UNCHANGED <<asked, saved>>, BubblesOk(messages'), draft' \in Persona,
         open' \subseteq open, ScreenOk(asked, sessionId', messages', locked'),
         \A m \in mail' : MailOk(asked, m)
  PROVE  PageInv'
BY DEF PageInv

LEMMA SendKept ==
  ASSUME PageInv, NEW c \in Chat, SendMessage(c)
  PROVE  PageInv'
<1> DEFINE k == Len(asked) + 1
           p == ResolvePersonaSnapshot(c)
           r == [chat |-> c, turns |-> HistoryMessages, persona |-> p]
           as == Append(asked, r)
           turns == HistoryMessages
<1>1. asked' = as /\ sessionId' = {c} /\ locked' = {p} /\ messages' = Append(messages, Question(k))
      /\ open' = open \union {k} /\ UNCHANGED <<draft, saved, mail>>
  BY DEF SendMessage
<1>2. turns = TurnsIn(messages)
  BY HistoryIsTurns DEF PageInv
<1>3. turns \subseteq TurnsOf(asked, c) /\ p \in Persona
      /\ \A i \in TurnsOf(asked, c) : asked[i].persona = p
  <2>1. CASE sessionId = {}
    <3>1. TurnsOf(asked, c) = {}
      BY <2>1 DEF SendMessage, Used, TurnsOf
    <3>2. messages = <<>>
      BY <2>1 DEF PageInv, ScreenOk
    <3>3. p = draft
      BY <2>1 DEF ResolvePersonaSnapshot
    <3> QED BY <3>1, <3>2, <3>3, <1>2 DEF TurnsIn, PageInv
  <2>2. CASE sessionId # {}
    <3>1. sessionId = {c} /\ Belongs(asked, c, turns, locked)
      BY <2>2, <1>2 DEF SendMessage, PageInv, ScreenOk
    <3>2. PICK i \in TurnsOf(asked, c) : locked = {asked[i].persona}
      BY <3>1 DEF Belongs
    <3>3. p = asked[i].persona
      BY <3>1, <3>2 DEF ResolvePersonaSnapshot
    <3>4. asked[i].persona \in Persona
      <4>1. i \in DOMAIN asked /\ asked \in Seq(Requests)
        BY <3>2 DEF PageInv, AskedOk, TurnsOf
      <4>2. asked[i] \in Requests
        BY <4>1
      <4> QED BY <4>2 DEF Requests
    <3> QED BY <3>1, <3>2, <3>3, <3>4 DEF Belongs
  <2> QED BY <2>1, <2>2
<1>4. Len(asked) \in Nat /\ k \in Nat /\ DOMAIN asked = 1..Len(asked) /\ asked \in Seq(Requests)
  BY DEF PageInv, AskedOk
<1>5. r \in Requests /\ r.chat = c /\ r.persona = p /\ r.turns = turns
  BY <1>3, <1>4 DEF Requests, TurnsOf
<1> HIDE DEF r, p, turns
<1>6. /\ as \in Seq(Requests) /\ DOMAIN as = DOMAIN asked \union {k} /\ k \notin DOMAIN asked
      /\ as[k] = r /\ \A i \in DOMAIN asked : as[i] = asked[i]
  BY <1>4, <1>5
<1> HIDE DEF as, k
<1>7. /\ TurnsOf(as, c) = TurnsOf(asked, c) \union {k}
      /\ \A d \in Chat \ {c} : TurnsOf(as, d) = TurnsOf(asked, d)
  BY <1>5, <1>6 DEF TurnsOf
<1>8. ASSUME NEW d \in Chat, NEW ts, NEW q, Belongs(asked, d, ts, q)
      PROVE  Belongs(as, d, ts, q)
  <2>1. CASE d = c
    <3>1. q = {p} /\ ts \subseteq TurnsOf(asked, c)
      BY <2>1, <1>3, <1>8 DEF Belongs
    <3>2. ASSUME NEW i \in TurnsOf(as, c) PROVE as[i].persona = p
      <4>1. CASE i = k
        BY <4>1, <1>5, <1>6
      <4>2. CASE i \in TurnsOf(asked, c)
        BY <4>2, <1>3, <1>6 DEF TurnsOf
      <4> QED BY <4>1, <4>2, <1>7
    <3> QED BY <2>1, <3>1, <3>2, <1>7 DEF Belongs
  <2>2. CASE d # c
    BY <2>2, <1>6, <1>7, <1>8 DEF Belongs, TurnsOf
  <2> QED BY <2>1, <2>2
<1>9. AskedOk(as)
  <2>1. ASSUME NEW i \in DOMAIN as PROVE as[i].turns \subseteq TurnsOf(as, as[i].chat)
    <3>1. CASE i = k
      BY <3>1, <1>3, <1>5, <1>6, <1>7
    <3>2. CASE i # k
      <4>0. i \in DOMAIN asked /\ as[i] = asked[i]
        BY <3>2, <1>6
      <4>1. asked[i] \in Requests
        BY <4>0, <1>4
      <4>2. asked[i].turns \subseteq TurnsOf(asked, asked[i].chat) /\ asked[i].chat \in Chat
        BY <4>0, <4>1 DEF PageInv, AskedOk, Requests
      <4> QED BY <4>0, <4>2, <1>7
    <3> QED BY <3>1, <3>2
  <2>2. ASSUME NEW i \in DOMAIN as, NEW j \in DOMAIN as, as[i].chat = as[j].chat
        PROVE  as[i].persona = as[j].persona
    <3>1. CASE i \in DOMAIN asked /\ j \in DOMAIN asked
      BY <3>1, <2>2, <1>6 DEF PageInv, AskedOk
    <3>2. CASE i = k \/ j = k
      BY <3>2, <2>2, <1>3, <1>5, <1>6 DEF TurnsOf
    <3> QED BY <3>1, <3>2, <1>6
  <2> QED BY <2>1, <2>2, <1>6 DEF AskedOk
<1>10. BubblesOk(messages') /\ TurnsIn(messages') = turns \union {k}
  <2> DEFINE b == Question(k)
             n == Len(messages)
             after == Append(messages, b)
  <2>1. b \in Bubbles /\ b.turn = k /\ b.from = {}
    BY <1>4 DEF Question, Bubbles
  <2>2. messages \in Seq(Bubbles) /\ n \in Nat /\ DOMAIN messages = 1..n
    BY DEF PageInv, BubblesOk
  <2> HIDE DEF b
  <2>3. /\ after \in Seq(Bubbles) /\ DOMAIN after = DOMAIN messages \union {n + 1}
        /\ after[n + 1] = b /\ \A i \in DOMAIN messages : after[i] = messages[i]
    BY <2>1, <2>2
  <2>4. messages' = after
    BY <1>1 DEF b
  <2> HIDE DEF after, n
  <2>5. \A i \in DOMAIN after : after[i].from \subseteq {after[i].turn}
    BY <2>1, <2>3 DEF PageInv, BubblesOk
  <2>6. TurnsIn(after) = TurnsIn(messages) \union {k}
    BY <2>1, <2>3 DEF TurnsIn
  <2> QED BY <2>3, <2>4, <2>5, <2>6, <1>2 DEF BubblesOk, turns
<1>11. Belongs(as, c, turns \union {k}, {p})
  BY <1>3, <1>5, <1>6, <1>7 DEF Belongs, TurnsOf
<1>12. ScreenOk(as, sessionId', messages', locked')
  BY <1>1, <1>10, <1>11 DEF ScreenOk, p
<1>13. \A d \in Chat : SavedOk(as, d, saved[d])
  BY <1>8 DEF PageInv, SavedOk
<1>14. \A m \in mail : MailOk(as, m)
  BY <1>8 DEF PageInv, MailOk
<1>15. open' \subseteq DOMAIN as
  BY <1>1, <1>6 DEF PageInv, k
<1>16. asked' = as
  BY <1>1 DEF as, r, p
<1> QED BY <1>1, <1>9, <1>10, <1>12, <1>13, <1>14, <1>15, <1>16 DEF PageInv

\* What a stream does to the bubbles moves no answer to another turn.
LEMMA StreamKept ==
  ASSUME PageInv, NEW k \in Turn, StreamEvent(k) \/ StopStreaming(k) \/ StreamCloses(k)
  PROVE  PageInv'
<1>1. BubblesOk(messages') /\ TurnsIn(messages') = TurnsIn(messages)
  <2>1. /\ messages \in Seq(Bubbles) /\ k \in Nat
        /\ \A i \in DOMAIN messages : messages[i].from \subseteq {messages[i].turn}
    BY DEF PageInv, BubblesOk, Turn
  <2>2. CASE messages' = ApplyStreamEvent(k)
    <3>1. \A i \in DOMAIN messages : /\ messages'[i] \in Bubbles /\ messages'[i].turn = messages[i].turn
                                     /\ messages'[i].from \subseteq {messages[i].turn}
      <4> TAKE i \in DOMAIN messages
      <4>1. messages[i] \in Bubbles
        BY <2>1
      <4>2. messages'[i] = IF messages[i].turn = k /\ messages[i].live
                           THEN [messages[i] EXCEPT !.from = @ \union {k}] ELSE messages[i]
        BY <2>2 DEF ApplyStreamEvent
      <4> QED BY <4>1, <4>2, <2>1 DEF Bubbles
    <3>2. DOMAIN messages' = DOMAIN messages /\ messages' \in Seq(Bubbles)
      BY <2>1, <2>2, <3>1 DEF ApplyStreamEvent
    <3> QED BY <3>1, <3>2 DEF BubblesOk, TurnsIn
  <2>3. CASE messages' = FinalizeStreamingMessage(k)
    <3>1. \A i \in DOMAIN messages : /\ messages'[i] \in Bubbles /\ messages'[i].turn = messages[i].turn
                                     /\ messages'[i].from \subseteq {messages[i].turn}
      <4> TAKE i \in DOMAIN messages
      <4>1. messages[i] \in Bubbles
        BY <2>1
      <4>2. messages'[i] = IF messages[i].turn = k THEN [messages[i] EXCEPT !.live = FALSE]
                           ELSE messages[i]
        BY <2>3 DEF FinalizeStreamingMessage
      <4> QED BY <4>1, <4>2, <2>1 DEF Bubbles
    <3>2. DOMAIN messages' = DOMAIN messages /\ messages' \in Seq(Bubbles)
      BY <2>1, <2>3, <3>1 DEF FinalizeStreamingMessage
    <3> QED BY <3>1, <3>2 DEF BubblesOk, TurnsIn
  <2> QED BY <2>2, <2>3 DEF StreamEvent, StopStreaming, StreamCloses, EndStream
<1>2. UNCHANGED <<asked, saved, sessionId, locked, draft, open>>
  BY DEF StreamEvent, StopStreaming, StreamCloses
<1>3. messages = <<>> => messages' = <<>>
  BY DEF StreamEvent, StopStreaming, StreamCloses, EndStream, ApplyStreamEvent, FinalizeStreamingMessage
<1>4. ScreenOk(asked, sessionId', messages', locked')
  BY <1>1, <1>2, <1>3 DEF PageInv, ScreenOk
<1>5. \A m \in mail' : MailOk(asked, m)
  BY DEF StreamEvent, StopStreaming, StreamCloses, EndStream, PageInv, MailOk
<1> QED BY <1>1, <1>2, <1>4, <1>5, NothingAsked DEF PageInv
LEMMA ServerKept ==
  ASSUME PageInv, NEW k \in Turn, ServerEnds(k)
  PROVE  PageInv'
<1> DEFINE a == asked[k]
           after == [turns |-> a.turns \union {k}, persona |-> {a.persona}]
<1>1. k \in DOMAIN asked /\ asked \in Seq(Requests)
  BY DEF ServerEnds, PageInv, AskedOk
<1>2. a \in Requests
  BY <1>1
<1>3. a.chat \in Chat
  BY <1>2 DEF Requests
<1>4. Belongs(asked, a.chat, after.turns, after.persona)
  BY <1>1 DEF PageInv, AskedOk, Belongs, TurnsOf
<1>5. /\ UNCHANGED <<sessionId, messages, locked, draft, asked, mail>> /\ open' \subseteq open
      /\ saved' = [saved EXCEPT ![a.chat] = after] \/ saved' = saved
  BY DEF ServerEnds
<1> HIDE DEF a, after
<1>6. DOMAIN saved' = Chat /\ \A c \in Chat : SavedOk(asked, c, saved'[c])
  BY <1>3, <1>4, <1>5 DEF PageInv, SavedOk
<1> QED BY <1>5, <1>6 DEF PageInv

\* A chat that was loaded shows the turns the server had of it.
LEMMA ArrivalKept ==
  ASSUME PageInv, NEW m \in mail, Arrival(m)
  PROVE  PageInv'
<1>1. UNCHANGED <<asked, saved, draft, open>> /\ mail' \subseteq mail
  BY DEF Arrival, ChatArrives, DeletedArrives, ListArrives
<1>2. BubblesOk(messages') /\ ScreenOk(asked, sessionId', messages', locked')
  <2>1. CASE ChatArrives(m)
    <3> DEFINE turns == m.saved.turns
               persona == m.saved.persona
    <3>1. m.chat \in Chat /\ Belongs(asked, m.chat, turns, persona)
      BY <2>1 DEF ChatArrives, PageInv, MailOk
    <3>2. PICK order \in InOrder(turns) : messages' = HydrateHistorySession(order)
      BY <2>1 DEF ChatArrives
    <3> DEFINE n == Cardinality(turns)
    <3>3. order \in [1..n -> turns]
      BY <3>2 DEF InOrder
    <3>4. turns \subseteq DOMAIN asked /\ asked \in Seq(Requests)
      BY <3>1 DEF Belongs, TurnsOf, PageInv, AskedOk
    <3>5. turns \subseteq Nat /\ IsFiniteSet(turns)
      <4>1. Len(asked) \in Nat /\ DOMAIN asked = 1..Len(asked)
        BY <3>4
      <4>2. IsFiniteSet(1..Len(asked))
        BY <4>1, FS_Interval
      <4> QED BY <3>4, <4>1, <4>2, FS_Subset
    <3>6. n \in Nat
      BY <3>5, FS_CardinalityType
    <3> HIDE DEF n, turns
    <3>7. \A i \in 1..n : messages'[i] = Loaded(order[i]) /\ order[i] \in turns
      BY <3>2, <3>3 DEF HydrateHistorySession
    <3>8. DOMAIN messages' = 1..n /\ messages' = [i \in 1..n |-> Loaded(order[i])]
      BY <3>2, <3>3 DEF HydrateHistorySession
    <3>9. \A i \in 1..n : Loaded(order[i]) \in Bubbles
      BY <3>5, <3>7 DEF Loaded, Bubbles
    <3>10. messages' \in Seq(Bubbles)
      BY <3>6, <3>8, <3>9
    <3>11. TurnsIn(messages') \subseteq turns /\ BubblesOk(messages')
      BY <3>7, <3>8, <3>10 DEF TurnsIn, BubblesOk, Loaded
    <3>12. sessionId' = {m.chat} /\ locked' = persona
      <4>1. persona # {}
        BY <3>1 DEF Belongs
      <4> QED BY <2>1, <4>1 DEF ChatArrives, HandleHistorySessionLoaded
    <3> QED BY <3>1, <3>11, <3>12 DEF ScreenOk, Belongs
  <2>2. CASE DeletedArrives(m)
    BY <2>2 DEF DeletedArrives, ClearChatSession, BubblesOk, ScreenOk
  <2>3. CASE ListArrives(m)
    BY <2>3 DEF ListArrives, PageInv
  <2> QED BY <2>1, <2>2, <2>3 DEF Arrival
<1>3. \A l \in mail' : MailOk(asked, l)
  BY <1>1 DEF PageInv
<1> QED BY <1>1, <1>2, <1>3, NothingAsked DEF PageInv

LEMMA LoadKept ==
  ASSUME PageInv, NEW c \in Chat, LoadHistorySession(c)
  PROVE  PageInv'
<1> DEFINE m == [kind |-> "chat", chat |-> c, saved |-> saved[c]]
<1>1. mail' = mail \union {m} /\ saved[c] # Unsaved
      /\ UNCHANGED <<sessionId, messages, locked, draft, asked, open, saved>>
  BY DEF LoadHistorySession, Saved
<1>2. MailOk(asked, m)
  BY <1>1 DEF PageInv, SavedOk, MailOk
<1> HIDE DEF m
<1> QED BY <1>1, <1>2, NothingAsked DEF PageInv

\* The rest of what a user does.
LEMMA UserKept ==
  ASSUME PageInv,
         NewChat \/ DeleteConversation \/ RefreshHistory \/ ReloadPage
         \/ \E p \in Persona : ChangeSettings(p)
  PROVE  PageInv'
<1>1. CASE NewChat
  BY <1>1, NothingAsked DEF NewChat, ClearChatSession, PageInv, BubblesOk, ScreenOk
<1>2. CASE DeleteConversation
  <2>1. PICK c \in sessionId : saved' = [saved EXCEPT ![c] = Unsaved]
                               /\ mail' = mail \union {[kind |-> "deleted", chat |-> c]}
    BY <1>2 DEF DeleteConversation
  <2>2. DOMAIN saved' = Chat /\ \A d \in Chat : SavedOk(asked, d, saved'[d])
    BY <2>1 DEF PageInv, SavedOk
  <2>3. \A m \in mail' : MailOk(asked, m)
    BY <2>1 DEF PageInv, MailOk
  <2>4. UNCHANGED <<sessionId, messages, locked, draft, asked, open>>
    BY <1>2 DEF DeleteConversation
  <2> QED BY <2>2, <2>3, <2>4 DEF PageInv
<1>3. CASE RefreshHistory
  <2>1. \A m \in mail' : MailOk(asked, m)
    BY <1>3 DEF RefreshHistory, PageInv, MailOk
  <2> QED BY <1>3, <2>1, NothingAsked DEF RefreshHistory, PageInv
<1>4. CASE ReloadPage
  <2>1. \A m \in mail' : MailOk(asked, m)
    BY <1>4 DEF ReloadPage, PageInv, MailOk
  <2>2. messages' = LoadStoredMessages /\ UNCHANGED <<sessionId, locked, draft, asked, open, saved>>
    BY <1>4 DEF ReloadPage
  <2>3. messages \in Seq(Bubbles) /\ \A i \in DOMAIN messages : messages[i].from \subseteq {messages[i].turn}
    BY DEF PageInv, BubblesOk
  <2>4. \A i \in DOMAIN messages : /\ messages'[i] \in Bubbles /\ messages'[i].turn = messages[i].turn
                                   /\ messages'[i].from \subseteq {messages[i].turn}
    <3> TAKE i \in DOMAIN messages
    <3>1. messages[i] \in Bubbles
      BY <2>3
    <3>2. messages'[i] = IF messages[i].live THEN [messages[i] EXCEPT !.live = FALSE, !.from = {}]
                         ELSE messages[i]
      BY <2>2 DEF LoadStoredMessages
    <3> QED BY <2>3, <3>1, <3>2 DEF Bubbles
  <2>5. DOMAIN messages' = DOMAIN messages /\ messages' \in Seq(Bubbles)
    <3> DEFINE n == Len(messages)
    <3>1. n \in Nat /\ DOMAIN messages = 1..n
      BY <2>3
    <3>2. DOMAIN messages' = 1..n /\ messages' = [i \in 1..n |-> messages'[i]]
      BY <2>2, <3>1 DEF LoadStoredMessages
    <3>3. \A i \in 1..n : messages'[i] \in Bubbles
      BY <2>4, <3>1
    <3> HIDE DEF n
    <3> QED BY <3>1, <3>2, <3>3
  <2>6. BubblesOk(messages') /\ TurnsIn(messages') = TurnsIn(messages)
    BY <2>4, <2>5 DEF BubblesOk, TurnsIn
  <2>7. messages = <<>> => messages' = <<>>
    BY <2>2 DEF LoadStoredMessages
  <2>8. ScreenOk(asked, sessionId', messages', locked')
    BY <2>2, <2>6, <2>7 DEF PageInv, ScreenOk
  <2> QED BY <2>1, <2>2, <2>6, <2>8, NothingAsked DEF PageInv
<1>5. CASE \E p \in Persona : ChangeSettings(p)
  BY <1>5, NothingAsked DEF ChangeSettings, PageInv
<1> QED BY <1>1, <1>2, <1>3, <1>4, <1>5

LEMMA PageInvHolds == Spec => []PageInv
<1>1. Init => PageInv
  BY PageInvInit DEF Init
<1>2. PageInv /\ [Next]_vars => PageInv'
  <2>1. PageInv /\ PageStep => PageInv'
    BY SendKept, StreamKept, ServerKept, ArrivalKept, LoadKept, UserKept DEF PageStep
  <2>2. PageInv /\ UNCHANGED pageVars => PageInv'
    BY DEF pageVars, PageInv
  <2>3. UNCHANGED vars => UNCHANGED pageVars
    BY DEF vars
  <2> QED BY <2>1, <2>2, <2>3, OthersLeaveThePage
<1> QED BY <1>1, <1>2, PTL DEF Spec

(***************************************************************************)
(* ChatsNeverMix.  For any chats, personas, messages and requests: what is *)
(* asked in a chat rests on turns of that chat and on its persona, however *)
(* answers of the server overtake one another.                             *)
(***************************************************************************)
THEOREM ChatsNeverMix == Spec => []ChatsStayApart
<1>1. ASSUME PageInv PROVE ChatsStayApart
  <2>1. ASSUME NEW k \in HistoryMessages PROVE sessionId = {asked[k].chat}
    <3>1. k \in TurnsIn(messages)
      BY <1>1, HistoryIsTurns DEF PageInv
    <3>2. messages # <<>>
      BY <3>1 DEF TurnsIn
    <3> QED BY <1>1, <3>1, <3>2 DEF PageInv, ScreenOk, Belongs, TurnsOf
  <2>2. \A k \in DOMAIN asked : \A j \in asked[k].turns : asked[j].chat = asked[k].chat
    BY <1>1 DEF PageInv, AskedOk, TurnsOf
  <2> QED BY <1>1, <2>1, <2>2 DEF PageInv, AskedOk, ChatsStayApart, RequestsAreOneChat, PersonaSticks
<1> QED BY <1>1, PageInvHolds, PTL

-----------------------------------------------------------------------------
(***************************************************************************)
(* The log on the panel.  There is one run it can be of: the one whose     *)
(* POST is awaited, with nothing shown yet, or whose stream is open.       *)
(***************************************************************************)
LEMMA OthersLeaveThePanel == Next => WatchStep \/ UNCHANGED panelVars
BY DEF Next, InShell, InPage, InPanel, InProvider

LinesOf(log, x) ==
  log \in Seq(Execution \X Nat) /\ \A i \in DOMAIN log : log[i] = <<x, i>>

PanelInv ==
  /\ lines = <<>> \/ \E x \in Execution : LinesOf(lines, x) /\ logStream \union posted \subseteq {x}
  /\ logStream \union posted \subseteq Execution
  /\ \A x, y \in logStream \union posted : x = y
  /\ posted # {} => lines = <<>> /\ logStream = {}

LEMMA PanelInvInit == PanelInit => PanelInv
BY DEF PanelInit, PanelInv

LEMMA PanelKept ==
  ASSUME PanelInv, WatchStep
  PROVE  PanelInv'
<1>1. ASSUME NEW x \in Execution, RunCodeSandbox(x) PROVE PanelInv'
  BY <1>1 DEF RunCodeSandbox, StopMonitoring, PanelInv
<1>2. ASSUME NEW x \in Execution, RunAnswered(x) PROVE PanelInv'
  BY <1>2 DEF RunAnswered, PanelInv
<1>3. ASSUME NEW x \in Execution, LogEvent(x) PROVE PanelInv'
  <2> DEFINE n == Len(lines)
  <2>0. lines \in Seq(Execution \X Nat)
    <3>1. CASE lines = <<>>
      BY <3>1
    <3>2. CASE lines # <<>>
      BY <3>2 DEF PanelInv, LinesOf
    <3> QED BY <3>1, <3>2
  <2>1. lines \in Seq(Execution \X Nat) /\ n \in Nat /\ DOMAIN lines = 1..n
    BY <2>0
  <2>2. \A i \in DOMAIN lines : lines[i] = <<x, i>>
    BY <1>3 DEF LogEvent, PanelInv, LinesOf
  <2>3. lines' = Append(lines, <<x, n + 1>>) /\ x \in logStream /\ UNCHANGED <<logStream, posted>>
    BY <1>3 DEF LogEvent, Cursor
  <2> HIDE DEF n
  <2>4. <<x, n + 1>> \in Execution \X Nat
    BY <2>1
  <2>5. lines' \in Seq(Execution \X Nat)
    BY <2>1, <2>3, <2>4
  <2>6. DOMAIN lines' = 1..(n + 1) /\ lines'[n + 1] = <<x, n + 1>>
        /\ \A i \in 1..n : lines'[i] = lines[i]
    BY <2>1, <2>3, <2>4 DEF n
  <2>7. LinesOf(lines', x)
    BY <2>1, <2>2, <2>5, <2>6 DEF LinesOf
  <2> QED BY <2>3, <2>7 DEF PanelInv
<1>4. ASSUME NEW x \in Execution,
             RunRefused(x) \/ StreamBreaks(x) \/ StatusEvent(x) \/ DoneEvent(x) \/ PollTick(x) \/ Proceed(x)
      PROVE  PanelInv'
  BY <1>4 DEF RunRefused, StreamBreaks, StatusEvent, DoneEvent, PollTick, Proceed, PanelInv
<1>5. ASSUME NEW r \in answers, RefreshSandboxExecution(r) PROVE PanelInv'
  BY <1>5 DEF RefreshSandboxExecution, StopMonitoring, PanelInv
<1>6. CASE ClosePanel
  BY <1>6 DEF ClosePanel, StopMonitoring, PanelInv
<1> QED BY <1>1, <1>2, <1>3, <1>4, <1>5, <1>6 DEF WatchStep, PanelStep

LEMMA PanelInvHolds == Spec => []PanelInv
<1>1. Init => PanelInv
  BY PanelInvInit DEF Init
<1>2. PanelInv /\ [Next]_vars => PanelInv'
  <2>1. PanelInv /\ UNCHANGED panelVars => PanelInv'
    BY DEF panelVars, PanelInv
  <2>2. UNCHANGED vars => UNCHANGED panelVars
    BY DEF vars
  <2> QED BY <2>1, <2>2, PanelKept, OthersLeaveThePanel
<1> QED BY <1>1, <1>2, PTL DEF Spec

LEMMA PanelShowsOneRun == PanelInv => LogIsOfOneRun
<1> SUFFICES ASSUME PanelInv, lines # <<>> PROVE LogIsOfOneRun
  BY DEF LogIsOfOneRun
<1>1. PICK x \in Execution : LinesOf(lines, x) /\ logStream \union posted \subseteq {x}
  BY DEF PanelInv
<1>2. 1 \in DOMAIN lines
  BY <1>1 DEF LinesOf
<1>3. lines[1][1] = x
  BY <1>1, <1>2 DEF LinesOf
<1> QED BY <1>1, <1>3 DEF LogIsOfOneRun, LinesOf

-----------------------------------------------------------------------------
(***************************************************************************)
(* The output of a run.  A pump that is done has put everything into the   *)
(* queue, and a program that ended writes nothing more; what is handed on  *)
(* last is the queue, after the pump unless a second did not suffice it.   *)
(***************************************************************************)
LEMMA OthersLeaveTheProvider ==
  Next => (\E x \in Exec : ProviderStep(x)) \/ UNCHANGED providerVars
BY DEF Next, InShell, InPage, InPanel, InProvider

Left == {"join", "late", "whole", "gone", "gone_late"}

\* One run, of its program, its pump and the loop that watches it.
RunOk(prov, prog, wrote, queue, pmp, lp, gave, why, stat) ==
  /\ prov \in {"docker", "localhost"}
  /\ lp \in {"idle", "stdin", "drain", "poll"} \union Left
  /\ stat \in {"absent", "queued"} => lp = "idle"
  /\ lp \in {"idle", "stdin"} => pmp = "none" /\ stat # "completed"
  /\ lp \notin {"idle", "stdin", "gone"} => pmp \in {"on", "broken", "silent", "done"}
  /\ pmp = "silent" => prov = "docker"
  /\ pmp = "done" => prog # "running" /\ queue = wrote
  /\ lp \in Left /\ why = "exit" => prog # "running" /\ (prov = "localhost" => pmp # "on")
  /\ lp = "whole" => pmp # "on" /\ gave = queue
  /\ lp = "late" => ~(why = "exit" /\ prov = "localhost")
  /\ stat = "completed" =>
       \/ lp = "gone" /\ pmp # "on" /\ prog # "running" /\ (gave = wrote \/ pmp = "silent")
       \/ lp = "gone_late" /\ prov = "docker"

RunOf(x) ==
  RunOk(provider[x], program[x], written[x], queued[x], pump[x], loop[x], emitted[x],
        verdict[x], status[x])

ProviderInv ==
  /\ DOMAIN provider = Exec /\ DOMAIN program = Exec /\ DOMAIN written = Exec
  /\ DOMAIN queued = Exec /\ DOMAIN pump = Exec /\ DOMAIN loop = Exec
  /\ DOMAIN emitted = Exec /\ DOMAIN verdict = Exec /\ DOMAIN status = Exec
  /\ \A x \in Exec : RunOf(x)

LEMMA ProviderInvInit == ProviderInit => ProviderInv
BY DEF ProviderInit, ProviderInv, RunOf, RunOk, Left

LEMMA ProviderKept ==
  ASSUME ProviderInv, NEW x \in Exec, ProviderStep(x)
  PROVE  ProviderInv'
<1> USE DEF ProviderInv
<1>1. \A y \in Exec \ {x} :
        /\ provider'[y] = provider[y] /\ program'[y] = program[y] /\ written'[y] = written[y]
        /\ queued'[y] = queued[y] /\ pump'[y] = pump[y] /\ loop'[y] = loop[y]
        /\ emitted'[y] = emitted[y] /\ verdict'[y] = verdict[y] /\ status'[y] = status[y]
  BY DEF ProviderStep, RunnerStep, Enqueue, RunStream, StartsLoop, WriteStdin, RunStreamRaises, output,
         ProgramWrites, ProgramExits, PumpLogs, PumpEnds, PumpBreaks, RequestCancel, DeadlinePasses, DrainLogQueue, Poll, Leave, Kill, TimesOut,
         FinalDrain, SandboxProviderResult, Loop
<1>2. /\ DOMAIN provider' = Exec /\ DOMAIN program' = Exec /\ DOMAIN written' = Exec
      /\ DOMAIN queued' = Exec /\ DOMAIN pump' = Exec /\ DOMAIN loop' = Exec
      /\ DOMAIN emitted' = Exec /\ DOMAIN verdict' = Exec /\ DOMAIN status' = Exec
  BY DEF ProviderStep, RunnerStep, Enqueue, RunStream, StartsLoop, WriteStdin, RunStreamRaises, output,
         ProgramWrites, ProgramExits, PumpLogs, PumpEnds, PumpBreaks, RequestCancel, DeadlinePasses, DrainLogQueue, Poll, Leave, Kill, TimesOut,
         FinalDrain, SandboxProviderResult, Loop
<1>3. RunOf(x)
  OBVIOUS
<1>4. RunOf(x)'
  <2>1. CASE Enqueue(x)
    BY <2>1, <1>3 DEF Enqueue, output, RunOf, RunOk, Left
  <2>2. CASE RunStream(x)
    BY <2>2, <1>3 DEF RunStream, StartsLoop, Loop, output, RunOf, RunOk, Left
  <2>3. CASE WriteStdin(x)
    BY <2>3, <1>3 DEF WriteStdin, StartsLoop, Loop, output, RunOf, RunOk, Left
  <2>4. CASE RunStreamRaises(x)
    <3>1. status'[x] \in {"cancelled", "failed"} /\ program'[x] = (IF program[x] = "running" THEN "killed" ELSE program[x])
          /\ UNCHANGED <<provider, written, queued, emitted, pump, verdict>>
      BY <2>4 DEF RunStreamRaises, output
    <3>2. \/ status[x] = "queued" /\ loop' = loop
          \/ provider[x] = "docker" /\ loop[x] = "poll" /\ loop'[x] = "gone"
          \/ Exited(x) /\ loop[x] = "stdin" /\ loop'[x] = "gone"
          \/ loop[x] \in {"late", "whole"} /\ loop'[x] = "gone"
      BY <2>4 DEF RunStreamRaises, Loop
    <3> QED BY <3>1, <3>2, <1>3 DEF RunOf, RunOk, Left
  <2>5. CASE ProgramWrites(x)
    BY <2>5, <1>3 DEF ProgramWrites, RunOf, RunOk, Left
  <2>6. CASE ProgramExits(x)
    BY <2>6, <1>3 DEF ProgramExits, output, RunOf, RunOk, Left
  <2>7. CASE PumpLogs(x)
    BY <2>7, <1>3 DEF PumpLogs, RunOf, RunOk, Left
  <2>8. CASE PumpEnds(x) \/ PumpBreaks(x)
    BY <2>8, <1>3 DEF PumpEnds, PumpBreaks, output, Exited, RunOf, RunOk, Left
  <2>9. CASE RequestCancel(x) \/ DeadlinePasses(x)
    BY <2>9, <1>3 DEF RequestCancel, DeadlinePasses, output, RunOf
  <2>10. CASE DrainLogQueue(x)
    BY <2>10, <1>3 DEF DrainLogQueue, Loop, RunOf, RunOk, Left
  <2>11. CASE Poll(x)
    BY <2>11, <1>3 DEF Poll, Leave, Kill, TimesOut, ExitSeen, Exited, Finished, Loop, output,
                      RunOf, RunOk, Left
  <2>12. CASE FinalDrain(x)
    BY <2>12, <1>3 DEF FinalDrain, Loop, RunOf, RunOk, Left
  <2>13. CASE SandboxProviderResult(x)
    BY <2>13, <1>3 DEF SandboxProviderResult, Outcome, output, RunOf, RunOk, Left
  <2> QED BY <2>1, <2>2, <2>3, <2>4, <2>5, <2>6, <2>7, <2>8, <2>9, <2>10, <2>11, <2>12, <2>13
          DEF ProviderStep, RunnerStep
<1> QED BY <1>1, <1>2, <1>4 DEF RunOf

LEMMA ProviderInvHolds == Spec => []ProviderInv
<1>1. Init => ProviderInv
  BY ProviderInvInit DEF Init
<1>2. ProviderInv /\ [Next]_vars => ProviderInv'
  <2>1. ProviderInv /\ UNCHANGED providerVars => ProviderInv'
    BY DEF providerVars, output, ProviderInv, RunOf
  <2>2. UNCHANGED vars => UNCHANGED providerVars
    BY DEF vars
  <2> QED BY <2>1, <2>2, ProviderKept, OthersLeaveTheProvider
<1> QED BY <1>1, <1>2, PTL DEF Spec

(***************************************************************************)
(* LogsComeWhole.  For any executions and chunks: the panel shows the log  *)
(* of one run, in order.  And a run that completed has handed on all that  *)
(* its program wrote, chunk by chunk, except of a container whose pump was *)
(* not done within the second it is given or broke off untold; a chunk is  *)
(* not as it was written only where a read cut a character.                *)
(***************************************************************************)
THEOREM LogsComeWhole == Spec => []LogsAreWhole
<1>1. ASSUME ProviderInv PROVE OutputIsWhole
  <2> SUFFICES ASSUME NEW x \in Exec, status[x] = "completed", emitted[x] = written[x]
               PROVE  /\ DOMAIN LogText(x) = 1..written[x]
                      /\ \A i \in 1..written[x] : LogText(x)[i] = "as written" \/ CutAt(x, i)
    BY <1>1 DEF ProviderInv, RunOf, RunOk, OutputIsWhole
  <2> QED BY DEF LogText
<1> QED BY <1>1, PanelShowsOneRun, PanelInvHolds, ProviderInvHolds, PTL DEF LogsAreWhole
=============================================================================
