----------------------------- MODULE SessionArgoMC -----------------------------
(* Where one actor goes on while another is at a prompt or a request: the     *)
(* session of the Kickstart panel, and the commands of Argo CD.  They share   *)
(* no state, so a behaviour is one of one of them, which "opened" names.      *)
EXTENDS KickstartSessionMC, ArgoCDMC

VARIABLE opened
sessionArgoVars == <<opened, sessionVars, argoVars>>

SessionArgoInit ==
    /\ opened \in {"session", "argocd"}
    /\ SessionInit /\ ArgoInit
    \* where what is not opened starts does not matter
    /\ opened = "session" =>
           file = NoValue /\ installed = {} /\ \E c \in Commands : commandKind[c] = "create"

SessionArgoNext ==
    \/ opened = "session" /\ SessionNext /\ UNCHANGED <<opened, argoVars>>
    \/ opened = "argocd" /\ ArgoNext /\ UNCHANGED <<opened, sessionVars>>

SessionArgoSpec == SessionArgoInit /\ [][SessionArgoNext]_sessionArgoVars
=============================================================================
