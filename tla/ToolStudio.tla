----------------------------- MODULE ToolStudio -----------------------------
(***************************************************************************)
(* What the workbench is to its user, without renders, effects, buttons or *)
(* handlers: a tool is chosen, prepared and run, one thing at a time, and  *)
(* the result of a run is shown until another run or another choice.       *)
(*                                                                         *)
(* Two liberties are part of the promise.  Preparing goes on for the tool  *)
(* it was begun for, even if another is chosen meanwhile.  And once a tool *)
(* was prepared in the place of another, the one it replaces may still be  *)
(* run for a moment.                                                       *)
(***************************************************************************)
CONSTANTS Tools,   \* what can be chosen
          Inputs,  \* texts that can be converted
          Null

VARIABLES chosen,     \* the tool the user is working with
          usable,     \* the tools that Run may use
          preparing,  \* the tool being prepared
          running,    \* the run under way: for which choice, tool and text
          shown       \* the run whose result is on display

vars == <<chosen, usable, preparing, running, shown>>

Init ==
    /\ chosen = Null
    /\ usable = {}
    /\ preparing = Null
    /\ running = Null
    /\ shown = Null

\* The catalog comes, and its first tool is chosen for the user.
Offer(tool) ==
    /\ chosen = Null
    /\ chosen' = tool
    /\ UNCHANGED <<usable, preparing, running, shown>>

Choose(tool) ==
    /\ running = Null
    /\ chosen' = tool
    /\ usable' = {}
    /\ shown' = Null
    /\ UNCHANGED <<preparing, running>>

Prepare ==
    /\ chosen # Null
    /\ preparing = Null
    /\ preparing' = chosen
    /\ UNCHANGED <<chosen, usable, running, shown>>

\* The tool becomes usable, beside what was usable or instead of it.
Prepared ==
    /\ preparing # Null
    /\ preparing' = Null
    /\ preparing \in usable'
    /\ usable' \subseteq usable \cup {preparing}
    /\ UNCHANGED <<chosen, running, shown>>

PrepareFails ==
    /\ preparing # Null
    /\ preparing' = Null
    /\ UNCHANGED <<chosen, usable, running, shown>>

\* A replaced tool can no longer be run; the last one always can.
Forget ==
    /\ usable' \subseteq usable
    /\ usable' # {}
    /\ UNCHANGED <<chosen, preparing, running, shown>>

Run(tool, text) ==
    /\ running = Null
    /\ tool \in usable
    /\ running' = [choice |-> chosen, tool |-> tool, text |-> text]
    /\ shown' = Null
    /\ UNCHANGED <<chosen, usable, preparing>>

Finish ==
    /\ running # Null
    /\ shown' = running
    /\ running' = Null
    /\ UNCHANGED <<chosen, usable, preparing>>

Fail ==
    /\ running # Null
    /\ running' = Null
    /\ UNCHANGED <<chosen, usable, preparing, shown>>

Next ==
    \/ \E tool \in Tools : Offer(tool) \/ Choose(tool)
    \/ Prepare \/ Prepared \/ PrepareFails \/ Forget
    \/ \E tool \in Tools, text \in Inputs : Run(tool, text)
    \/ Finish \/ Fail

\* What was begun ends, one way or the other.
Settles ==
    /\ preparing # Null ~> preparing = Null
    /\ running # Null ~> running = Null

Spec == Init /\ [][Next]_vars
=============================================================================
