----------------------------- MODULE ServerSystem -----------------------------
(***************************************************************************)
(* What the server answers: chat turns (ChatSystem), and the requests for  *)
(* stored resources (AccessSystem).  They share no state here, so that a   *)
(* behaviour follows one of them.                                          *)
(***************************************************************************)
EXTENDS ChatSystem, AccessSystem

VARIABLE part   \* what is followed

serverVars == <<part, allVars, accessVars>>

InChat == part = "chat" /\ UNCHANGED <<part, accessVars>>
InAccess == part = "access" /\ UNCHANGED <<part, allVars>>

OneOf(S) == CHOOSE x \in S : TRUE

ServerInit ==
    /\ part \in {"chat", "access"}
    /\ Init /\ AccessInit
    /\ part = "chat" => /\ settings = OneOf(Deployments)
                        /\ row = OneOf(Histories)
                        /\ budget = OneOf(Budgets)

ServerNext ==
    \/ InChat /\ Next
    \/ InAccess /\ AccessNext

ServerSpec == ServerInit /\ [][ServerNext]_serverVars
=============================================================================
