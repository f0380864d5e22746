------------------------------- MODULE SettlingMC -------------------------------
(* What must settle though prompts and messages come in any order: the Azure  *)
(* sign-in, and the session of the Kickstart panel.  They share no state, so  *)
(* a behaviour is one of one of them, which "opened" names.                   *)
(*                                                                            *)
(* For the sign-in, an account with both tenants, one with the second only,   *)
(* and one with none.                                                         *)
EXTENDS AzureSession, KickstartSessionMC, TLC

CONSTANTS wide, narrow, blind, t1, t2

TwoJobs == {1, 2}
MixedSees == wide :> {t1, t2} @@ narrow :> {t2} @@ blind :> {}

VARIABLE opened
settlingVars == <<opened, signInVars, sessionVars>>

\* Where the sign-in is not what is opened, nobody has started one.
NoSignIn ==
    /\ status = "SignedOut" /\ tenants = {} /\ selected = Nil /\ handling = TRUE /\ ready = TRUE
    /\ job = [j \in Jobs |-> Idle] /\ account = Nil /\ events = 0

SettlingInit ==
    /\ opened \in {"sign-in", "session"}
    /\ IF opened = "sign-in" THEN SignInInit ELSE NoSignIn
    /\ SessionInit

SettlingNext ==
    \/ opened = "sign-in" /\ SignInNext /\ UNCHANGED <<opened, sessionVars>>
    \/ opened = "session" /\ SessionNext /\ UNCHANGED <<opened, signInVars>>

\* The steps that the fairness of one part is about are enabled in its behaviours alone.
SettlingSpec ==
    SettlingInit /\ [][SettlingNext]_settlingVars /\ SignInFairness /\ SessionFairness
=============================================================================
