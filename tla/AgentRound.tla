----------------------------- MODULE AgentRound -----------------------------
(***************************************************************************)
(* The two halves of a round of the agent loop: the call of the model and  *)
(* the call of a tool.  They share no state but the call that passes from  *)
(* one to the other, so a behaviour is of one of them.                     *)
(***************************************************************************)
EXTENDS ToolCalls, ModelTurn

VARIABLE half

vars == <<toolVars, modelVars, half>>

Init ==
    /\ ToolInit /\ ModelInit
    /\ \/ half = "model" /\ agent = [url |-> None, tools |-> FALSE, local |-> FALSE]
       \/ half = "tool" /\ history = <<>>

Next ==
    \/ half = "model" /\ ModelNext /\ UNCHANGED <<toolVars, half>>
    \/ half = "tool" /\ ToolNext /\ UNCHANGED <<modelVars, half>>

FairSpec == Init /\ [][Next]_vars /\ (half = "tool" => ToolFairness)
=============================================================================
