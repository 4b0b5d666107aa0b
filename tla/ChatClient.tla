----------------------------- MODULE ChatClient -----------------------------
(***************************************************************************)
(* The React chat client: createChatSession (client.ts) with its socket,   *)
(* reconnection and outbound queue, and useAgentChat with chatReducer      *)
(* (state.ts), on a SessionStream.                                         *)
(***************************************************************************)
EXTENDS SessionStream, SequencesExt

CONSTANTS MaxRetries,
          MaxSends,       \* bound: messages the user sends
          MaxDrops        \* bound: connections the network breaks

ASSUME ChatAssumption == {MaxRetries, MaxSends, MaxDrops} \subseteq Nat

VARIABLES
    sockets,   \* live sockets: "connecting" or "open", and where each reads
    timers,    \* armed retry timers
    retryCount,
    closed,    \* intentionalClose
    queue,     \* messageQueue
    given, sent,  \* history: messages given to sendMessage, put on a socket
    messages, streaming,   \* the reducer's state
    drops

clientVars == <<sockets, timers, retryCount, closed, queue, given, sent, messages, streaming,
                drops>>

ClientInit ==
    /\ sockets = <<>> /\ timers = 1 /\ retryCount = 0 /\ closed = FALSE
    /\ queue = <<>> /\ given = 0 /\ sent = <<>>
    /\ messages = <<>> /\ streaming = FALSE
    /\ drops = 0

-----------------------------------------------------------------------------
(* chatReducer *)

Map(f(_)) == [i \in 1 .. Len(messages) |-> f(messages[i])]

Message(role, id, status) == [role |-> role, id |-> id, text |-> 0, status |-> status, calls |-> <<>>]

SendUser(n) == /\ messages' = Append(messages, Message("user", <<n, "local">>, "pending"))
               /\ streaming' = TRUE

MessageStarted(e) ==
    /\ messages' = Append(Map(LAMBDA m : IF m.role = "user" /\ m.status = "pending"
                                         THEN [m EXCEPT !.status = "complete"] ELSE m),
                          Message("assistant", e.id, "streaming"))
    /\ streaming' = TRUE

Token(e) ==
    /\ messages' = Map(LAMBDA m : IF m.id = e.id /\ m.status = "streaming"
                                  THEN [m EXCEPT !.text = @ + 1] ELSE m)
    /\ UNCHANGED streaming

ToolCallStarted(e) ==
    /\ messages' = Map(LAMBDA m : IF m.role = "assistant" /\ m.status = "streaming"
                                  THEN [m EXCEPT !.calls = Append(@, [id |-> e.call, status |-> "started"])]
                                  ELSE m)
    /\ UNCHANGED streaming

ToolCallCompleted(e) ==
    /\ messages' = Map(LAMBDA m : [m EXCEPT !.calls = [i \in 1 .. Len(m.calls) |->
                         IF m.calls[i].id = e.call THEN [m.calls[i] EXCEPT !.status = "completed"]
                         ELSE m.calls[i]]])
    /\ UNCHANGED streaming

MessageCompleted(e) ==
    /\ messages' = Map(LAMBDA m : IF m.id = e.id THEN [m EXCEPT !.status = "complete"] ELSE m)
    /\ streaming' = FALSE

(* Mutant: a failed run leaves the indicator on. *)
RunFailedStreams(e) ==
    /\ messages' = Map(LAMBDA m : IF m.status = "streaming" THEN [m EXCEPT !.status = "complete"] ELSE m)
    /\ UNCHANGED streaming

RunFailed(e) ==
    /\ messages' = Map(LAMBDA m : IF m.status = "streaming" THEN [m EXCEPT !.status = "complete"] ELSE m)
    /\ streaming' = FALSE

ChatReducer(e) ==
    CASE e.type = "message_started"     -> MessageStarted(e)
      [] e.type = "token"               -> Token(e)
      [] e.type = "tool_call_started"   -> ToolCallStarted(e)
      [] e.type = "tool_call_completed" -> ToolCallCompleted(e)
      [] e.type = "message_completed"   -> MessageCompleted(e)
      [] e.type = "run_failed"          -> RunFailed(e)
      [] e.type = "error"               -> UNCHANGED <<messages, streaming>>

-----------------------------------------------------------------------------
(* The socket *)

(* connect, called at construction and by the retry timer *)
Connect ==
    /\ timers > 0 /\ ~closed
    /\ timers' = timers - 1
    /\ sockets' = Append(sockets, [state |-> "connecting", cursor |-> Joined])
    /\ UNCHANGED <<streamVars, retryCount, closed, queue, given, sent, messages, streaming, drops>>

(* onopen: the queue is flushed in order.  The gateway joins the socket to  *)
(* the session in the same step: what the client sends before that waits   *)
(* in preAuthBuffer as it would in the queue.  The end of a run is missed  *)
(* if the indicator is on with nothing under way, or if the run whose      *)
(* replay this is has told of it.                                          *)
OnOpen(i) ==
    /\ sockets[i].state = "connecting"
    /\ sockets' = [sockets EXCEPT ![i] = [state |-> "open", cursor |-> Joined]]
    /\ retryCount' = 0
    /\ queue' = <<>> /\ sent' = sent \o queue
    /\ inbox' = inbox + Len(queue)
    /\ unanswered' = \/ unanswered \/ phase = "draining"
                     \/ streaming /\ inbox' = 0 /\ ~Answering
    /\ UNCHANGED <<log, run, phase, openCall, buffer, timers, closed, given, messages, streaming,
                   drops>>

(* scheduleReconnect *)
Rescheduled == IF retryCount < MaxRetries /\ ~closed THEN 1 ELSE 0

(* Mutant: an error schedules a reconnection of its own. *)
OnErrorReconnects(i) ==
    /\ sockets[i].state # "failed" /\ drops < MaxDrops
    /\ sockets' = [sockets EXCEPT ![i].state = "failed"]
    /\ timers' = timers + Rescheduled
    /\ retryCount' = retryCount + Rescheduled
    /\ drops' = drops + 1
    /\ UNCHANGED <<streamVars, closed, queue, given, sent, messages, streaming>>

(* The connection breaks, perhaps with frames on their way: onerror leaves *)
(* everything to the close event that follows.                             *)
OnError(i) ==
    /\ sockets[i].state # "failed" /\ drops < MaxDrops
    /\ sockets' = [sockets EXCEPT ![i].state = "failed"]
    /\ drops' = drops + 1
    /\ inbox' \in 0 .. inbox
    /\ UNCHANGED <<log, run, phase, openCall, buffer, unanswered, timers, retryCount, closed, queue,
                   given, sent, messages, streaming>>

OnClose(i) ==
    /\ sockets[i].state = "failed"
    /\ sockets' = RemoveAt(sockets, i)
    /\ timers' = timers + Rescheduled
    /\ retryCount' = retryCount + Rescheduled
    /\ UNCHANGED <<streamVars, closed, queue, given, sent, messages, streaming, drops>>

(* onmessage: what is no ChatEvent goes to onError instead of the reducer. *)
OnMessage(i) ==
    LET cursor == sockets[i].cursor IN
    /\ sockets[i].state = "open" /\ Available(cursor)
    /\ ChatReducer(EventAt(cursor))
    /\ unanswered' = (unanswered \/ EventAt(cursor).type = "error")
    /\ sockets' = [sockets EXCEPT ![i].cursor = Advance(cursor)]
    /\ UNCHANGED <<log, run, phase, openCall, buffer, inbox, timers, retryCount, closed, queue, given,
                   sent, drops>>

(* send: the reducer first, then the socket if it is open, else the queue *)
Send ==
    /\ given < MaxSends /\ ~closed
    /\ given' = given + 1
    /\ SendUser(given + 1)
    /\ unanswered' = FALSE
    /\ IF \E i \in 1 .. Len(sockets) : sockets[i].state = "open"
       THEN sent' = Append(sent, given + 1) /\ inbox' = inbox + 1 /\ UNCHANGED queue
       ELSE queue' = Append(queue, given + 1) /\ UNCHANGED <<sent, inbox>>
    /\ UNCHANGED <<log, run, phase, openCall, buffer, sockets, timers, retryCount, closed, drops>>

Disconnect ==
    /\ ~closed
    /\ closed' = TRUE /\ timers' = 0 /\ sockets' = <<>>
    /\ UNCHANGED <<streamVars, retryCount, queue, given, sent, messages, streaming, drops>>

SocketStep == \E i \in 1 .. Len(sockets) : OnOpen(i) \/ OnError(i) \/ OnClose(i) \/ OnMessage(i)

ClientNext == Connect \/ SocketStep \/ Send \/ Disconnect

-----------------------------------------------------------------------------
(* Properties *)

(* The client never holds two connections, nor one and an armed timer:     *)
(* otherwise every event would be reduced twice.                           *)
OneConnection == Len(sockets) + timers <= 1

(* While a connection is open, the first or a later one that joined in the *)
(* middle of a run and got all, part or none of its replay, the streaming  *)
(* indicator is on only while an answer can still come.  What no event     *)
(* tells the client of is excepted (unanswered): a message that was        *)
(* refused when its session no longer streamed, whose run could not be set *)
(* up, or whose run ended while the client was away.                       *)
IndicatorEnds ==
    \A i \in 1 .. Len(sockets) :
        sockets[i].state = "open" /\ streaming /\ ~unanswered =>
            inbox > 0 \/ Answering \/ Available(sockets[i].cursor)

(* packages/react state.test.ts, "appends text to the streaming assistant  *)
(* message": what a run streamed is shown once the run has completed.      *)
StreamedTextIsShown ==
    \A i \in 1 .. Len(sockets) :
        drops = 0 /\ (\E k, n \in 1 .. sockets[i].cursor.next - 1 :
                         /\ log[k].type = "token" /\ log[n].type = "message_completed"
                         /\ log[k].run = log[n].run) =>
            \E j \in 1 .. Len(messages) : messages[j].role = "assistant" /\ messages[j].text > 0
=============================================================================
