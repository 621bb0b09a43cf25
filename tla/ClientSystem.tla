----------------------------- MODULE ClientSystem -----------------------------
(***************************************************************************)
(* The programs around the server: the desktop shell that starts it, the   *)
(* chat and the sandbox panel of the page, and the provider that runs a    *)
(* sandboxed program.  They share no state, so that a behaviour follows    *)
(* one of them.                                                            *)
(***************************************************************************)
EXTENDS DesktopShell, ChatPage, SandboxPanel, SandboxProvider

VARIABLE part   \* the program that is followed

vars == <<part, shellVars, pageVars, panelVars, providerVars>>

Init ==
    /\ part \in {"shell", "page", "panel", "provider"}
    /\ ShellInit /\ PageInit /\ PanelInit /\ ProviderInit
    /\ part # "shell" => existing = "none"
    /\ part # "page" => draft = CHOOSE p \in Persona : TRUE
    /\ part # "provider" => \A x \in Exec : provider[x] = "docker"

InShell == part = "shell" /\ UNCHANGED <<part, pageVars, panelVars, providerVars>>
InPage == part = "page" /\ UNCHANGED <<part, shellVars, panelVars, providerVars>>
InPanel == part = "panel" /\ UNCHANGED <<part, shellVars, pageVars, providerVars>>
InProvider == part = "provider" /\ UNCHANGED <<part, shellVars, pageVars, panelVars>>

Next ==
    \/ InShell /\ (Startup \/ Surroundings)
    \/ InPage /\ PageStep
    \/ InPanel /\ WatchStep
    \/ InProvider /\ \E x \in Exec : ProviderStep(x)

Spec == Init /\ [][Next]_vars

(***************************************************************************)
(* The startup thread and the event tasks of the shell run on; the server  *)
(* ends the executions it works on, and what has arrived at the panel is   *)
(* handled; the loop of a provider runs on and its clock reaches the       *)
(* deadline.  That a sidecar ended is sure to be told once its server has  *)
(* let go of its output.  The program itself, what it reads and writes,    *)
(* and every user are free.                                                *)
(***************************************************************************)
ShellFairness ==
    /\ WF_vars(InShell /\ Startup)
    /\ WF_vars(InShell /\ LoopEnds)
    /\ \A a \in Try : /\ WF_vars(InShell /\ ~Runs(a) /\ TerminatedArrives(a))
                      /\ WF_vars(InShell /\ ActOnEvent(a))

Handled ==
    \/ \E x \in Execution : PanelStep(x)
    \/ \E r \in answers : RefreshSandboxExecution(r)

PanelFairness ==
    WF_vars(InPanel /\ \E x \in Execution : Proceed(x)) /\ WF_vars(InPanel /\ Handled)

ProviderFairness ==
    \A x \in Exec : /\ WF_vars(InProvider /\ RunnerStep(x))
                    /\ WF_vars(InProvider /\ DeadlinePasses(x))

FairSpec == Spec /\ ShellFairness /\ PanelFairness /\ ProviderFairness

-----------------------------------------------------------------------------
(***************************************************************************)
(* What the shell, the page, the panel and the providers must keep to.     *)
(***************************************************************************)

(***************************************************************************)
(* OneSidecar.  However startup attempts fail, time out, race the end of   *)
(* their sidecars and the closing of the window, the shell starts none     *)
(* beside one it did not have killed, and of one that it did not have      *)
(* killed it keeps the child, or is about to.  A kill ends the spawned     *)
(* process at best: its server may go on, with the port and the database,  *)
(* beside the next attempt's.                                              *)
(***************************************************************************)
Backends == {a \in Try : sidecar[a] = "running" \/ Runs(a)}

OneSidecar ==
    /\ \A a, b \in Backends \ stopped : a = b
    /\ Backends \ stopped \subseteq
         IF starter.pc = "store" THEN slot \union {starter.try} ELSE slot

(***************************************************************************)
(* ShellSettles.  The startup ends.  And a shell that is ready, and that   *)
(* nobody closes, ends with a sidecar and its server, unless the event     *)
(* task read the flags for that end before the shell was ready: then it    *)
(* stays, as it does when a backend it reused ends.                        *)
(***************************************************************************)
ShellSettles ==
    /\ part = "shell" ~> starter.pc = "done" \/ process # "running"
    /\ (/\ part = "shell" /\ ready /\ ~shutdown
        /\ \E a \in Try : sidecar[a] = "ended" /\ ~Runs(a)) ~> process # "running"

(***************************************************************************)
(* FailsClosed.  What docs/operations/OPERATIONS.md:170 says: "packaged    *)
(* desktop startup still fails closed instead of revealing the main window *)
(* on a broken backend".  A shell whose window was revealed for a sidecar  *)
(* that has ended ends.                                                    *)
(***************************************************************************)
FailsClosed ==
    (/\ part = "shell" /\ starter.pc = "done" /\ window = "shown"
     /\ \E a \in slot : sidecar[a] \in {"ended", "told"} /\ ~Runs(a)) ~> process # "running"

(***************************************************************************)
(* RequestsAreOneChat.  The screen, and so the history of every request,   *)
(* holds turns of one chat only, though chats are switched, loaded,        *)
(* deleted and reloaded while an answer streams, and answers of the server *)
(* arrive in any order.                                                    *)
(***************************************************************************)
RequestsAreOneChat ==
    /\ \A k \in HistoryMessages : sessionId = {asked[k].chat}
    /\ \A k \in DOMAIN asked : \A j \in asked[k].turns : asked[j].chat = asked[k].chat

(***************************************************************************)
(* PersonaSticks.  A chat goes on with the persona it began with, whatever *)
(* the settings are changed to and wherever it was loaded from.            *)
(***************************************************************************)
PersonaSticks ==
    \A j, k \in DOMAIN asked :
        asked[j].chat = asked[k].chat => asked[j].persona = asked[k].persona

(***************************************************************************)
(* LogIsOfOneRun.  The live log of the panel is a prefix of the log of one *)
(* run, in order and without repetition, and of the run that is streamed.  *)
(***************************************************************************)
LogIsOfOneRun ==
    /\ \A i \in DOMAIN lines : lines[i] = <<lines[1][1], i>>
    /\ lines # <<>> => logStream \union posted \subseteq {lines[1][1]}

(***************************************************************************)
(* WatchEnds.  A run that is watched is shown at its end, over a stream    *)
(* that breaks and polls answered in any order, unless the user left it,   *)
(* began the next run or was refused it: API_REFERENCE.md:1197 has clients *)
(* fall back to polling when the stream disconnects.                       *)
(***************************************************************************)
Watching == part = "panel" /\ logStream \union poll # {}

EndShown == \E r \in result : r.exec \in last /\ r.status \in Terminal

WatchEnds == Watching ~> EndShown \/ posted # {} \/ result = {} \/ left = "user"

(***************************************************************************)
(* PanelSettles.  That is so but for one case: the answer to a poll of the *)
(* run before comes late, says that that one ended, and with it the panel  *)
(* stops watching this one.                                                *)
(***************************************************************************)
PanelSettles == Watching ~> EndShown \/ posted # {} \/ result = {} \/ left # "no"

(***************************************************************************)
(* OutputIsWhole.  A run that is reported completed has all the program    *)
(* wrote in its log, each chunk as it was written unless a read cut a      *)
(* character there.  Of a container it does not if the log pump did not    *)
(* end within the second it is given, or broke off with something else     *)
(* than a DockerException.                                                 *)
(***************************************************************************)
OutputIsWhole ==
    \A x \in Exec : status[x] = "completed" =>
        \/ /\ DOMAIN LogText(x) = 1..written[x]
           /\ \A i \in 1..written[x] : LogText(x)[i] = "as written" \/ CutAt(x, i)
        \/ provider[x] = "docker" /\ (loop[x] = "gone_late" \/ pump[x] = "silent")

(***************************************************************************)
(* RunsEnd.  A run a worker took up ends, whatever the program, its pump   *)
(* and its children do, since the deadline is looked at in every round;    *)
(* but not one of the localhost provider whose input the program does not  *)
(* read: it is written before the first round and has no deadline.         *)
(***************************************************************************)
RunsEnd ==
    \A x \in Exec :
        (part = "provider" /\ status[x] \in {"queued", "running"})
          ~> status[x] \in Terminal \/ loop[x] = "stdin"

(***************************************************************************)
(* ChatsStayApart.  What is asked in a chat rests on turns of that chat    *)
(* and on its persona.                                                     *)
(***************************************************************************)
ChatsStayApart == RequestsAreOneChat /\ PersonaSticks

(***************************************************************************)
(* LogsAreWhole.  A log is the log of one run, whole from the program to   *)
(* the row, as far as OutputIsWhole says, and in order from the row to the *)
(* screen.                                                                 *)
(***************************************************************************)
LogsAreWhole == LogIsOfOneRun /\ OutputIsWhole

(***************************************************************************)
(* WatchedRunsEnd.  A run ends at its provider, and whoever watches it     *)
(* comes to see its end, but for what RunsEnd and PanelSettles except.     *)
(***************************************************************************)
WatchedRunsEnd == PanelSettles /\ RunsEnd
=============================================================================
