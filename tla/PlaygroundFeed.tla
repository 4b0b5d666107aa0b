--------------------------- MODULE PlaygroundFeed ---------------------------
(***************************************************************************)
(* The playground frontend's session controller (session.ts): its feed of  *)
(* raw events over the sockets it opens, drops and recovers, and the tool  *)
(* calls App.tsx derives from the feed on every change.                    *)
(***************************************************************************)
EXTENDS SessionStream, SequencesExt

CONSTANTS MaxSockets,     \* bound: sockets the controller opens
          MaxFeedSends    \* bound: messages the visitor sends

ASSUME FeedAssumption == {MaxSockets, MaxFeedSends} \subseteq Nat

VARIABLES
    opened,    \* every socket ever opened: is it live, where does it read
    current,   \* the index of `socket', 0 for null
    status,    \* what the page shows
    feed,      \* the log: events in their order of arrival
    feedSends

feedVars == <<opened, current, status, feed, feedSends>>

FeedInit == opened = <<>> /\ current = 0 /\ status = "disconnected" /\ feed = <<>> /\ feedSends = 0

-----------------------------------------------------------------------------
(* deriveToolCalls *)

CallIndex(views, c) == {i \in 1 .. Len(views) : views[i].call = c}

(* Mutant: a started event always starts the view over. *)
SeeCallAgain(views, e) ==
    IF e.type = "tool_call_started"
    THEN SelectSeq(views, LAMBDA v : v.call # e.call) \o <<[call |-> e.call, status |-> "started"]>>
    ELSE IF e.type = "tool_call_completed"
    THEN [i \in 1 .. Len(views) |-> IF views[i].call = e.call
                                    THEN [views[i] EXCEPT !.status = "completed"] ELSE views[i]]
    ELSE views

SeeCall(views, e) ==
    CASE e.type = "tool_call_started" /\ CallIndex(views, e.call) = {} ->
            Append(views, [call |-> e.call, status |-> "started"])
      [] e.type = "tool_call_completed" /\ CallIndex(views, e.call) = {} ->
            Append(views, [call |-> e.call, status |-> "completed"])
      [] e.type = "tool_call_completed" /\ CallIndex(views, e.call) # {} ->
            [i \in 1 .. Len(views) |-> IF views[i].call = e.call
                                       THEN [views[i] EXCEPT !.status = "completed"] ELSE views[i]]
      [] OTHER -> views

DeriveToolCalls(events) ==
    LET views[n \in 0 .. Len(events)] == IF n = 0 THEN <<>> ELSE SeeCall(views[n - 1], events[n])
    IN views[Len(events)]

-----------------------------------------------------------------------------
(* attach, at construction and from recover, which App offers at any time *)
Recover ==
    /\ Len(opened) < MaxSockets
    /\ opened' = Append(opened, [live |-> TRUE, open |-> FALSE, cursor |-> Joined])
    /\ current' = Len(opened) + 1
    /\ status' = "connecting"
    /\ UNCHANGED <<streamVars, feed, feedSends>>

(* onopen is not tied to the current socket. *)
FeedOnOpen(i) ==
    /\ opened[i].live /\ ~opened[i].open
    /\ opened' = [opened EXCEPT ![i].open = TRUE, ![i].cursor = Joined]
    /\ status' = "connected"
    /\ UNCHANGED <<streamVars, current, feed, feedSends>>

(* handleFrame: only a ChatEvent is logged. *)
FeedOnMessage(i) ==
    LET event == EventAt(opened[i].cursor) IN
    /\ opened[i].live /\ opened[i].open /\ Available(opened[i].cursor)
    /\ feed' = IF event.type = "error" THEN feed ELSE Append(feed, event)
    /\ opened' = [opened EXCEPT ![i].cursor = Advance(opened[i].cursor)]
    /\ UNCHANGED <<streamVars, current, status, feedSends>>

(* onclose; until then a dropped socket still delivers. *)
FeedOnClose(i) ==
    /\ opened[i].live
    /\ opened' = [opened EXCEPT ![i].live = FALSE]
    /\ status' = IF current = i THEN "disconnected" ELSE status
    /\ UNCHANGED <<streamVars, current, feed, feedSends>>

DropSocket ==
    /\ current # 0
    /\ current' = 0
    /\ status' = "disconnected"
    /\ UNCHANGED <<streamVars, opened, feed, feedSends>>

(* The form's button asks for a connected status; the failure button does not,
   and a send on a socket that is not open goes nowhere. *)
FeedSend ==
    /\ feedSends < MaxFeedSends
    /\ feedSends' = feedSends + 1
    /\ inbox' = IF current # 0 /\ opened[current].live /\ opened[current].open
                THEN inbox + 1 ELSE inbox
    /\ UNCHANGED <<log, run, phase, openCall, buffer, unanswered, opened, current, status, feed>>

FeedNext ==
    \/ Recover \/ DropSocket \/ FeedSend
    \/ \E i \in 1 .. Len(opened) : FeedOnOpen(i) \/ FeedOnMessage(i) \/ FeedOnClose(i)

-----------------------------------------------------------------------------
(* Properties *)

(* A replay never shows a finished tool call as running again, and a call  *)
(* keeps its place.                                                        *)
CallsNeverReopen ==
    [][LET before == DeriveToolCalls(feed)
           after == DeriveToolCalls(feed') IN
       /\ Len(after) >= Len(before)
       /\ \A i \in 1 .. Len(before) :
             /\ after[i].call = before[i].call
             /\ before[i].status = "completed" => after[i].status = "completed"]_feed
=============================================================================
