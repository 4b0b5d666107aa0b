---------------------------- MODULE MCAgentRound ----------------------------
(* The instance of AgentRound for TLC *)
EXTENDS AgentRound

CONSTANT c1

Named(provider) ==
    [slash |-> TRUE, provider |-> provider, model |-> TRUE, registered |-> TRUE, key |-> TRUE]

(* One model of each provider, by an alias where it has one, and one for   *)
(* which there is no key                                                   *)
MCModels == {Named(p) : p \in {"gpt", "claude", "gemini", "fixture", "echo"}}
            \cup {[Named("openai") EXCEPT !.key = FALSE]}

(* Text; text and a call in two fragments; and two calls, the second       *)
(* without arguments and of a tool that is not registered                  *)
MCSayings ==
    {[text |-> 1, calls |-> <<>>], [text |-> 1, calls |-> <<[name |-> 1, parts |-> 2]>>],
     [text |-> 0, calls |-> <<[name |-> 1, parts |-> 1], [name |-> 3, parts |-> 0]>>]}

(* A new session, and one with a call of an older release *)
MCOldRows ==
    {<<>>,
     <<UserRow, CallsRow(<<[swift |-> 900, id |-> 5, name |-> 2]>>),
       ToolRow([swift |-> 900, id |-> 5, name |-> NoId])>>}
=============================================================================
