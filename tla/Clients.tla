------------------------------ MODULE Clients ------------------------------
(***************************************************************************)
(* A session's stream with the client that shows it: the React chat client *)
(* or the playground's feed.                                               *)
(***************************************************************************)
EXTENDS ChatClient, PlaygroundFeed

VARIABLE who

vars == <<streamVars, clientVars, feedVars, who>>

Init == StreamInit /\ ClientInit /\ FeedInit /\ who \in {"chat", "feed"}

Next ==
    \/ StreamNext /\ UNCHANGED <<clientVars, feedVars, who>>
    \/ who = "chat" /\ ClientNext /\ UNCHANGED <<feedVars, who>>
    \/ who = "feed" /\ FeedNext /\ UNCHANGED <<clientVars, who>>

Spec == Init /\ [][Next]_vars
=============================================================================
