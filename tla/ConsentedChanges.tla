---------------------------- MODULE ConsentedChanges ----------------------------
(***************************************************************************)
(* What a command of the extension that changes something for the user     *)
(* promises, whatever its steps: it makes a change only of a kind the user *)
(* agreed to, it makes none once it has ended, and it says that it is      *)
(* complete only when each change it was to make is made, was reported as  *)
(* not made, or proved not to be needed.                                   *)
(***************************************************************************)
CONSTANTS
    Commands, \* the runs of such commands
    Changes,  \* what they may change
    KindOf    \* change -> the agreement it needs

VARIABLES
    agreed,   \* command -> the kinds of change agreed to
    made,     \* command -> the changes made
    excused,  \* command -> those reported as not made, or found not to be needed
    outcome   \* command -> "open", "complete" or "stopped"

Init ==
    /\ agreed = [c \in Commands |-> {}] /\ made = [c \in Commands |-> {}]
    /\ excused \in [Commands -> SUBSET Changes]
    /\ outcome = [c \in Commands |-> "open"]

\* A command asks, changes or reports something.
Work(c) ==
    /\ outcome[c] = "open" /\ UNCHANGED outcome
    /\ agreed[c] \subseteq agreed'[c] /\ made[c] \subseteq made'[c]
    /\ excused[c] \subseteq excused'[c]
    /\ \A e \in made'[c] \ made[c] : KindOf[e] \in agreed[c]

\* It ends, with its last change; complete, if there is nothing that it owes.
End(c) ==
    /\ outcome[c] = "open" /\ outcome'[c] \in {"complete", "stopped"}
    /\ agreed'[c] = agreed[c] /\ made[c] \subseteq made'[c]
    /\ excused[c] \subseteq excused'[c]
    /\ \A e \in made'[c] \ made[c] : KindOf[e] \in agreed[c]
    /\ outcome'[c] = "complete" => Changes \subseteq made'[c] \cup excused'[c]

Others(c) ==
    \A d \in Commands \ {c} :
        /\ agreed'[d] = agreed[d] /\ made'[d] = made[d]
        /\ excused'[d] = excused[d] /\ outcome'[d] = outcome[d]

Next == \E c \in Commands : (Work(c) \/ End(c)) /\ Others(c)

Spec == Init /\ [][Next]_<<agreed, made, excused, outcome>>
=============================================================================
