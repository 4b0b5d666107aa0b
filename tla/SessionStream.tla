--------------------------- MODULE SessionStream ---------------------------
(***************************************************************************)
(* What a client sees of one session through one gateway process: the      *)
(* frames broadcast to the session in their order (log), and the part of   *)
(* them that the replay buffer holds for a new connection.                 *)
(*                                                                         *)
(* The buffer is an interval of the log.  It holds the beginning of the    *)
(* active run as long as it is below its limit, but every send_message     *)
(* that is refused empties it, and it then starts again at the next event. *)
(* Frames for the sender alone (a refusal, a setup that failed) are errors *)
(* no client reduces, and are left out of the log.                         *)
(***************************************************************************)
EXTENDS Integers, Sequences

CONSTANTS MaxReplay,    \* maxReplayBufferSize
          MaxRuns,      \* bound: messages the gateway takes
          MaxEvents     \* bound: tokens and tool calls start below this length of the log

ASSUME StreamAssumption == {MaxReplay, MaxRuns, MaxEvents} \subseteq Nat

VARIABLES
    log,        \* the frames broadcast to the session's connections
    run,        \* the latest run
    phase,      \* who holds the session lock, and how far that run is
    openCall,   \* the tool call between its two events, 0 for none
    buffer,     \* replayBuffers: an interval of the log
    inbox,      \* send_message frames on their way to the gateway
    unanswered  \* history: since the user last wrote, a message was refused or
                \* failed in a way no event tells of, or a run's end was missed

streamVars == <<log, run, phase, openCall, buffer, inbox, unanswered>>

NoBuffer == [from |-> 1, to |-> 0]

StreamInit ==
    /\ log = <<>> /\ run = 0 /\ phase = "idle" /\ openCall = 0
    /\ buffer = NoBuffer /\ inbox = 0 /\ unanswered = FALSE

(* Will the session's lock holder still broadcast its terminal event? *)
Answering == phase \in {"setup", "active"}

-----------------------------------------------------------------------------
(* A connection reads what the buffer held when it joined (next up to      *)
(* until), then what is broadcast after that (from live on).               *)

Joined == [next |-> IF buffer = NoBuffer THEN Len(log) + 1 ELSE buffer.from,
           until |-> buffer.to, live |-> Len(log) + 1]

Available(cursor) == cursor.next <= Len(log)

EventAt(cursor) == log[cursor.next]

Advance(cursor) == [cursor EXCEPT !.next = IF @ = cursor.until THEN cursor.live ELSE @ + 1]

-----------------------------------------------------------------------------
(* handleSendMessage starts a run: one at a time, over every entry point.  *)
TakeMessage ==
    /\ inbox > 0 /\ phase = "idle" /\ run < MaxRuns
    /\ inbox' = inbox - 1
    /\ run' = run + 1 /\ phase' = "setup"
    /\ UNCHANGED <<log, openCall, buffer, unanswered>>

(* A run holds the lock: RUN_IN_PROGRESS to the sender, and the buffer of  *)
(* the run goes with it.                                                   *)
RefuseMessage ==
    /\ inbox > 0 /\ phase # "idle"
    /\ inbox' = inbox - 1
    /\ buffer' = NoBuffer
    /\ unanswered' = (unanswered \/ ~Answering)
    /\ UNCHANGED <<log, run, phase, openCall>>

(* start rejects before the first event: RUNTIME_ERROR to the sender *)
RejectStart ==
    /\ phase = "setup"
    /\ phase' = "idle" /\ buffer' = NoBuffer
    /\ unanswered' = TRUE
    /\ UNCHANGED <<log, run, openCall, inbox>>

(* start without onEvent, for POST /runs: the run holds the lock and       *)
(* broadcasts nothing.                                                     *)
RestRun ==
    /\ phase = "idle" /\ phase' = "rest"
    /\ UNCHANGED <<log, run, openCall, buffer, inbox, unanswered>>

RestRunEnds ==
    /\ phase = "rest" /\ phase' = "idle"
    /\ UNCHANGED <<log, run, openCall, buffer, inbox, unanswered>>

(* The ids loop.ts puts on a run's events: message_started carries the id  *)
(* of the user's message, tokens and message_completed the assistant's.    *)
IdOf(type) == IF type = "message_started" THEN <<run, "user">> ELSE <<run, "assistant">>

Frame(type, call) == [type |-> type, run |-> run, id |-> IdOf(type), call |-> call]

(* The buffer with the frame at place n of the log *)
Buffered(n) ==
    CASE buffer = NoBuffer /\ MaxReplay > 0           -> [from |-> n, to |-> n]
      [] buffer # NoBuffer /\ n - buffer.from < MaxReplay -> [buffer EXCEPT !.to = n]
      [] OTHER                                        -> buffer

(* onEvent: buffer and broadcast *)
OnEvent(type, call) ==
    /\ log' = Append(log, Frame(type, call))
    /\ buffer' = Buffered(Len(log) + 1)
    /\ UNCHANGED <<run, inbox, unanswered>>

EmitStarted ==
    /\ phase = "setup" /\ phase' = "active"
    /\ OnEvent("message_started", 0)
    /\ UNCHANGED openCall

EmitToken ==
    /\ phase = "active" /\ openCall = 0 /\ Len(log) < MaxEvents
    /\ OnEvent("token", 0)
    /\ UNCHANGED <<phase, openCall>>

EmitCallStarted ==
    /\ phase = "active" /\ openCall = 0 /\ Len(log) < MaxEvents
    /\ openCall' = Len(log) + 1
    /\ OnEvent("tool_call_started", Len(log) + 1)
    /\ UNCHANGED phase

EmitCallCompleted ==
    /\ phase = "active" /\ openCall # 0
    /\ openCall' = 0
    /\ OnEvent("tool_call_completed", openCall)
    /\ UNCHANGED phase

(* A run may fail in the middle of a call; it completes only between calls. *)
EmitEnd(type) ==
    /\ phase = "active" /\ phase' = "draining"
    /\ type = "message_completed" => openCall = 0
    /\ openCall' = 0
    /\ OnEvent(type, 0)

(* The error that run_failed carries does not serialise: onEvent throws,   *)
(* and once the run has drained every connection gets an error frame.      *)
EmitUnsendable ==
    /\ phase = "active" /\ phase' = "idle"
    /\ openCall' = 0 /\ buffer' = NoBuffer
    /\ log' = Append(log, Frame("error", 0))
    /\ UNCHANGED <<run, inbox, unanswered>>

(* The lock is released and start returns. *)
Drain ==
    /\ phase = "draining" /\ phase' = "idle"
    /\ buffer' = NoBuffer
    /\ UNCHANGED <<log, run, openCall, inbox, unanswered>>

StreamNext ==
    \/ TakeMessage \/ RefuseMessage \/ RejectStart \/ RestRun \/ RestRunEnds
    \/ EmitStarted \/ EmitToken \/ EmitCallStarted \/ EmitCallCompleted
    \/ \E type \in {"message_completed", "run_failed"} : EmitEnd(type)
    \/ EmitUnsendable \/ Drain
=============================================================================
