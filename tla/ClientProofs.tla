---------------------------- MODULE ClientProofs ----------------------------
(***************************************************************************)
(* What the two clients of a session promise, for any number of runs,      *)
(* events, messages, sockets, retries and broken connections, and any      *)
(* limit of the replay buffer: the chat client keeps to one connection,    *)
(* its streaming indicator goes out, and what the user writes is put on    *)
(* the wire in order; no tool call in the playground's feed reopens.       *)
(*                                                                         *)
(* The indicator rests on two facts.  While no run is active, the last    *)
(* frame of the log ends a run (StreamInv).  And a connection that    *)
(* waits for an answer, or has frames to read, then still has the end of a *)
(* run before it (IndicatorInv, Ahead), wherever its replay started and    *)
(* stopped: its broadcasts go on from the moment it joined.                *)
(***************************************************************************)
EXTENDS Clients, SequenceTheorems, WellFoundedInduction, TLAPS

Endings == {"message_completed", "run_failed", "error"}
EventTypes == {"message_started", "token", "tool_call_started", "tool_call_completed"} \cup Endings
Event == [type : EventTypes, run : Nat, id : Nat \X {"user", "assistant"}, call : Nat]
Cursor == [next : Nat \ {0}, until : Nat, live : Nat \ {0}]
Socket == [state : {"connecting", "open", "failed"}, cursor : Cursor]
FeedSocket == [live : BOOLEAN, open : BOOLEAN, cursor : Cursor]

-----------------------------------------------------------------------------
(* The inductive invariant *)

(* The buffer is a stretch of the log, and there is one only while a run   *)
(* is being streamed; only a run that has begun has not ended.             *)
StreamInv ==
    /\ log \in Seq(Event) /\ run \in Nat /\ inbox \in Nat /\ openCall \in Nat
    /\ phase \in {"idle", "setup", "active", "draining", "rest"}
    /\ unanswered \in BOOLEAN
    /\ buffer \in [from : Nat \ {0}, to : Nat]
    /\ buffer # NoBuffer => buffer.from <= buffer.to /\ buffer.to <= Len(log)
    /\ phase \in {"idle", "rest"} => buffer = NoBuffer
    /\ phase # "active" /\ Len(log) > 0 => log[Len(log)].type \in Endings

(* A cursor is in its replay, or past it and not beyond what may come. *)
CursorOK(c, n) == /\ c.live <= n + 1
                  /\ c.next <= c.until => c.until <= n
                  /\ c.next > c.until => c.next <= n + 1

(* The end of a run is still to be read. *)
Ahead(c, s) == IF c.next <= c.until THEN c.live <= Len(s) \/ s[c.until].type \in Endings
               ELSE c.next <= Len(s)

ClientType ==
    /\ sockets \in Seq(Socket) /\ timers \in Nat
    /\ closed \in BOOLEAN /\ streaming \in BOOLEAN
    /\ queue \in Seq(Nat)

SocketsInv ==
    /\ OneConnection
    /\ \A i \in 1 .. Len(sockets) : CursorOK(sockets[i].cursor, Len(log))

Connected == Len(sockets) = 1 /\ sockets[1].state = "open"

(* A session that will broadcast nothing more of what it was sent *)
Quiet == ~unanswered /\ ~Answering /\ inbox = 0

IndicatorInv ==
    /\ who = "feed" => Len(sockets) = 0
    /\ Connected /\ Quiet /\ (streaming \/ Available(sockets[1].cursor)) =>
          Ahead(sockets[1].cursor, log)

FeedInv == opened \in Seq(FeedSocket) /\ feed \in Seq(Event)

(* Every message the user gave is on the wire or waits in the queue, in    *)
(* the order it was given and once: createChatSession's queue neither      *)
(* reorders, repeats nor loses what sendMessage took.                      *)
SentInOrder == sent \o queue = [k \in 1 .. given |-> k]

(* The queue of an open socket has been flushed. *)
OrderInv ==
    /\ given \in Nat /\ sent \in Seq(Nat)
    /\ Connected => queue = <<>>
    /\ SentInOrder

ChatInv == StreamInv /\ ClientType /\ SocketsInv /\ IndicatorInv

IInv == ChatInv /\ OrderInv /\ FeedInv

-----------------------------------------------------------------------------
(* Facts about cursors *)

(* A new connection reads from a place a cursor may be at; when there is   *)
(* no buffer there is nothing for it to read yet.                          *)
LEMMA JoinedIsCursor ==
    ASSUME StreamInv
    PROVE  /\ Joined \in Cursor /\ CursorOK(Joined, Len(log))
           /\ buffer = NoBuffer => ~Available(Joined)
<1>1. Len(log) \in Nat /\ buffer \in [from : Nat \ {0}, to : Nat]
  BY DEF StreamInv
<1>2. CASE buffer = NoBuffer
  <2>1. Joined.next = Len(log) + 1 /\ Joined.until = 0 /\ Joined.live = Len(log) + 1
    BY <1>2 DEF Joined, NoBuffer
  <2> QED BY <1>1, <1>2, <2>1 DEF Joined, Cursor, CursorOK, Available
<1>3. CASE buffer # NoBuffer
  <2>1. /\ Joined.next = buffer.from /\ Joined.until = buffer.to /\ Joined.live = Len(log) + 1
        /\ buffer.from <= buffer.to /\ buffer.to <= Len(log)
    BY <1>3 DEF Joined, StreamInv
  <2> QED BY <1>1, <1>3, <2>1 DEF Joined, Cursor, CursorOK
<1> QED BY <1>2, <1>3

(* What is under a cursor is a frame of the log. *)
LEMMA EventIs ==
    ASSUME StreamInv, NEW c \in Cursor, Available(c)
    PROVE  EventAt(c) \in Event /\ c.next \in 1 .. Len(log)
<1>1. c.next \in 1 .. Len(log)
  BY DEF StreamInv, Cursor, Available
<1> QED BY <1>1, ElementOfSeq DEF StreamInv, EventAt

(* Reading on keeps a cursor where it may be, *)
LEMMA AdvanceIs ==
    ASSUME StreamInv, NEW c \in Cursor, Available(c)
    PROVE  /\ Advance(c) \in Cursor
           /\ CursorOK(c, Len(log)) => CursorOK(Advance(c), Len(log))
<1>1. /\ c.next \in Nat \ {0} /\ c.until \in Nat /\ c.live \in Nat \ {0} /\ Len(log) \in Nat
      /\ c.next <= Len(log)
  BY DEF Cursor, StreamInv, Available
<1>2. /\ Advance(c).until = c.until /\ Advance(c).live = c.live
      /\ Advance(c).next = IF c.next = c.until THEN c.live ELSE c.next + 1
      /\ Advance(c) \in Cursor
  BY <1>1 DEF Advance, Cursor
<1>3. ASSUME CursorOK(c, Len(log)) PROVE CursorOK(Advance(c), Len(log))
  BY <1>1, <1>2, <1>3 DEF CursorOK
<1> QED BY <1>2, <1>3

(* and a run's end before it, unless that end is what was read. *)
LEMMA StillAhead ==
    ASSUME StreamInv, ~Answering, NEW c \in Cursor, CursorOK(c, Len(log)), Available(c), Ahead(c, log),
           EventAt(c).type \notin Endings \/ Available(Advance(c))
    PROVE  Ahead(Advance(c), log)
<1>1. /\ c.next \in Nat \ {0} /\ c.until \in Nat /\ c.live \in Nat \ {0} /\ Len(log) \in Nat
      /\ c.next <= Len(log)
  BY DEF Cursor, StreamInv, Available
<1>2. /\ Advance(c).until = c.until /\ Advance(c).live = c.live
      /\ Advance(c).next = IF c.next = c.until THEN c.live ELSE c.next + 1
  BY <1>1 DEF Advance, Cursor
<1>3. log[Len(log)].type \in Endings
  BY <1>1 DEF StreamInv, Answering
<1>4. EventAt(c).type = log[c.next].type
  BY DEF EventAt
<1>5. CASE c.next < c.until
  BY <1>1, <1>2, <1>5 DEF Ahead
<1>6. CASE c.next = c.until
  <2>1. Advance(c).next = c.live
    BY <1>2, <1>6
  <2>2. c.live <= Len(log)
    BY <1>1, <1>4, <1>6, <2>1 DEF Ahead, Available
  <2>3. CASE c.live <= c.until
    BY <1>2, <2>1, <2>2, <2>3 DEF Ahead
  <2>4. CASE ~(c.live <= c.until)
    BY <1>2, <2>1, <2>2, <2>4 DEF Ahead
  <2> QED BY <2>3, <2>4
<1>7. CASE c.next > c.until
  <2>1. Advance(c).next = c.next + 1
    BY <1>1, <1>2, <1>7
  <2>2. c.next # Len(log) \/ Available(Advance(c))
    BY <1>3, <1>4
  <2>3. c.next + 1 <= Len(log)
    BY <1>1, <2>1, <2>2 DEF Available
  <2> QED BY <1>1, <1>2, <1>7, <2>1, <2>3 DEF Ahead
<1> QED BY <1>1, <1>5, <1>6, <1>7

-----------------------------------------------------------------------------
(* The session's own steps *)

(* A frame more at the end of the log *)
LEMMA LogGrows ==
    ASSUME StreamInv, NEW e \in Event, log' = Append(log, e)
    PROVE  /\ log' \in Seq(Event) /\ Len(log') = Len(log) + 1 /\ Len(log) \in Nat
           /\ log'[Len(log')] = e
           /\ \A k \in 1 .. Len(log) : log'[k] = log[k]
BY AppendProperties DEF StreamInv

LEMMA FrameIs ==
    ASSUME StreamInv, NEW type \in EventTypes, NEW call \in Nat
    PROVE  Frame(type, call) \in Event /\ Frame(type, call).type = type
BY DEF StreamInv, Frame, IdOf, Event

(* The buffer with a frame more is still a stretch of the log. *)
LEMMA BufferedIs ==
    ASSUME StreamInv
    PROVE  /\ Buffered(Len(log) + 1) \in [from : Nat \ {0}, to : Nat]
           /\ Buffered(Len(log) + 1) # NoBuffer =>
                 /\ Buffered(Len(log) + 1).from <= Buffered(Len(log) + 1).to
                 /\ Buffered(Len(log) + 1).to <= Len(log) + 1
<1> DEFINE n == Len(log) + 1
<1>1. /\ Len(log) \in Nat /\ buffer \in [from : Nat \ {0}, to : Nat]
      /\ buffer # NoBuffer => buffer.from <= buffer.to /\ buffer.to <= Len(log)
  BY DEF StreamInv
<1>2. \/ Buffered(n) = [from |-> n, to |-> n]
      \/ buffer # NoBuffer /\ Buffered(n) = [buffer EXCEPT !.to = n]
      \/ Buffered(n) = buffer
  BY DEF Buffered
<1>3. n \in Nat \ {0} /\ n > Len(log)
  BY <1>1
<1>4. CASE Buffered(n) = [from |-> n, to |-> n]
  BY <1>3, <1>4
<1>5. CASE buffer # NoBuffer /\ Buffered(n) = [buffer EXCEPT !.to = n]
  BY <1>1, <1>3, <1>5
<1>6. CASE Buffered(n) = buffer
  BY <1>1, <1>3, <1>6
<1> QED BY <1>2, <1>4, <1>5, <1>6

(* onEvent in a run that goes on or ends *)
LEMMA OnEventKeeps ==
    ASSUME StreamInv, NEW type \in EventTypes, NEW call \in Nat, OnEvent(type, call),
           openCall' \in Nat,
           phase' = "active" \/ (phase' = "draining" /\ type \in Endings)
    PROVE  StreamInv' /\ \E e \in Event : log' = Append(log, e)
<1> DEFINE e == Frame(type, call)
<1>1. e \in Event /\ e.type = type
  BY FrameIs
<1>2. /\ log' = Append(log, e) /\ buffer' = Buffered(Len(log) + 1)
      /\ run' = run /\ inbox' = inbox /\ unanswered' = unanswered
  BY DEF OnEvent
<1>3. /\ log' \in Seq(Event) /\ Len(log') = Len(log) + 1 /\ log'[Len(log')] = e
  BY <1>1, <1>2, LogGrows
<1> HIDE DEF e
<1>4. /\ buffer' \in [from : Nat \ {0}, to : Nat]
      /\ buffer' # NoBuffer => buffer'.from <= buffer'.to /\ buffer'.to <= Len(log')
  BY <1>2, <1>3, BufferedIs
<1>5. phase' # "active" => log'[Len(log')].type \in Endings
  BY <1>1, <1>3
<1>6. NoBuffer' = NoBuffer
  BY DEF NoBuffer
<1>7. StreamInv'
  BY <1>2, <1>3, <1>4, <1>5, <1>6 DEF StreamInv
<1> QED BY <1>1, <1>2, <1>7

(* A step that leaves the log alone, and empties the buffer or leaves it too *)
LEMMA LogStays ==
    ASSUME StreamInv, log' = log, run' \in Nat, inbox' \in Nat, openCall' = openCall,
           unanswered' \in BOOLEAN,
           phase' \in {"idle", "setup", "active", "draining", "rest"},
           buffer' = NoBuffer \/ (buffer' = buffer /\ (phase' \in {"idle", "rest"} => buffer = NoBuffer)),
           phase' = "active" => phase = "active", phase = "active" => phase' = "active"
    PROVE  StreamInv'
<1>1. NoBuffer' = NoBuffer /\ NoBuffer \in [from : Nat \ {0}, to : Nat]
  BY DEF NoBuffer
<1>2. /\ buffer' \in [from : Nat \ {0}, to : Nat]
      /\ buffer' # NoBuffer => buffer'.from <= buffer'.to /\ buffer'.to <= Len(log')
      /\ phase' \in {"idle", "rest"} => buffer' = NoBuffer
  BY <1>1 DEF StreamInv
<1>3. phase' # "active" /\ Len(log') > 0 => log'[Len(log')].type \in Endings
  BY DEF StreamInv
<1> QED BY <1>1, <1>2, <1>3 DEF StreamInv

LEMMA StreamSteps ==
    ASSUME StreamInv, StreamNext
    PROVE  /\ StreamInv'
           /\ log' = log \/ \E e \in Event : log' = Append(log, e)
           /\ Quiet' => Quiet \/ \E e \in Event : log' = Append(log, e)
<1>0. NoBuffer = NoBuffer' /\ {0} \subseteq Nat
  BY DEF NoBuffer
<1>1. CASE TakeMessage
  <2>1. /\ run' = run + 1 /\ phase' = "setup" /\ inbox' = inbox - 1 /\ inbox > 0 /\ phase = "idle"
        /\ log' = log /\ openCall' = openCall /\ buffer' = buffer /\ unanswered' = unanswered
    BY <1>1 DEF TakeMessage
  <2>2. run' \in Nat /\ inbox' \in Nat /\ unanswered' \in BOOLEAN
    BY <2>1 DEF StreamInv
  <2> QED BY <2>1, <2>2, LogStays DEF Quiet, Answering
<1>2. CASE RefuseMessage
  <2>1. /\ inbox' = inbox - 1 /\ inbox > 0 /\ buffer' = NoBuffer
        /\ unanswered' = (unanswered \/ ~Answering)
        /\ log' = log /\ run' = run /\ phase' = phase /\ openCall' = openCall
    BY <1>2 DEF RefuseMessage
  <2>2. run' \in Nat /\ inbox' \in Nat
    BY <2>1 DEF StreamInv
  <2>3. Answering' = Answering /\ unanswered' \in BOOLEAN
    BY <2>1 DEF Answering, StreamInv
  <2>4. ~Quiet'
    BY <2>1, <2>3 DEF Quiet
  <2>5. StreamInv'
    BY <2>1, <2>2, <2>3, LogStays DEF StreamInv
  <2> QED BY <2>1, <2>4, <2>5
<1>3. CASE RejectStart
  <2>1. /\ phase = "setup" /\ phase' = "idle" /\ buffer' = NoBuffer /\ unanswered' = TRUE
        /\ log' = log /\ run' = run /\ openCall' = openCall /\ inbox' = inbox
    BY <1>3 DEF RejectStart
  <2>2. run' \in Nat /\ inbox' \in Nat
    BY <2>1 DEF StreamInv
  <2> QED BY <2>1, <2>2, LogStays DEF Quiet
<1>4. CASE RestRun \/ RestRunEnds \/ Drain
  <2>1. /\ phase \in {"idle", "rest", "draining"} /\ phase' \in {"idle", "rest"}
        /\ buffer' = NoBuffer
        /\ log' = log /\ run' = run /\ openCall' = openCall /\ inbox' = inbox
        /\ unanswered' = unanswered
    BY <1>4 DEF RestRun, RestRunEnds, Drain, StreamInv
  <2>2. run' \in Nat /\ inbox' \in Nat /\ unanswered' \in BOOLEAN
    BY <2>1 DEF StreamInv
  <2>3. StreamInv'
    BY <2>1, <2>2, LogStays
  <2>4. ~Answering
    BY <2>1 DEF Answering
  <2> QED BY <2>1, <2>3, <2>4 DEF Quiet
<1>5. CASE EmitStarted \/ EmitToken
  <2>1. PICK type \in {"message_started", "token"} :
            OnEvent(type, 0) /\ phase' = "active" /\ openCall' = openCall
    BY <1>5 DEF EmitStarted, EmitToken
  <2>2. type \in EventTypes /\ openCall' \in Nat
    BY <2>1 DEF EventTypes, StreamInv
  <2> QED BY <1>0, <2>1, <2>2, OnEventKeeps
<1>6. CASE EmitCallStarted
  <2>1. /\ OnEvent("tool_call_started", Len(log) + 1) /\ phase' = "active"
        /\ openCall' = Len(log) + 1
    BY <1>6 DEF EmitCallStarted
  <2>2. "tool_call_started" \in EventTypes /\ Len(log) + 1 \in Nat
    BY DEF EventTypes, StreamInv
  <2> QED BY <2>1, <2>2, OnEventKeeps
<1>7. CASE EmitCallCompleted
  <2>1. OnEvent("tool_call_completed", openCall) /\ phase' = "active" /\ openCall' = 0
    BY <1>7 DEF EmitCallCompleted
  <2>2. "tool_call_completed" \in EventTypes /\ openCall \in Nat
    BY DEF EventTypes, StreamInv
  <2> QED BY <1>0, <2>1, <2>2, OnEventKeeps
<1>8. ASSUME NEW type \in {"message_completed", "run_failed"}, EmitEnd(type)
      PROVE  StreamInv' /\ \E e \in Event : log' = Append(log, e)
  <2>1. OnEvent(type, 0) /\ phase' = "draining" /\ openCall' = 0
    BY <1>8 DEF EmitEnd
  <2>2. type \in EventTypes /\ type \in Endings
    BY DEF EventTypes, Endings
  <2> QED BY <1>0, <2>1, <2>2, OnEventKeeps
<1>9. CASE EmitUnsendable
  <2> DEFINE e == Frame("error", 0)
  <2>1. /\ log' = Append(log, e) /\ phase' = "idle" /\ buffer' = NoBuffer /\ openCall' = 0
        /\ run' = run /\ inbox' = inbox /\ unanswered' = unanswered
    BY <1>9 DEF EmitUnsendable
  <2>2. e \in Event /\ e.type \in Endings
    BY <1>0, FrameIs DEF EventTypes, Endings
  <2> HIDE DEF e
  <2>3. log' \in Seq(Event) /\ log'[Len(log')] = e
    BY <2>1, <2>2, LogGrows
  <2>4. NoBuffer \in [from : Nat \ {0}, to : Nat]
    BY DEF NoBuffer
  <2>5. StreamInv'
    BY <1>0, <2>1, <2>2, <2>3, <2>4 DEF StreamInv
  <2> QED BY <2>1, <2>2, <2>5
<1> QED BY <1>1, <1>2, <1>3, <1>4, <1>5, <1>6, <1>7, <1>8, <1>9 DEF StreamNext

(* What a client does to the session: it puts frames on the wire, and a    *)
(* broken connection may lose them.                                        *)
Reached == /\ log' = log /\ run' = run /\ phase' = phase /\ openCall' = openCall
           /\ buffer' = buffer
           /\ inbox' \in Nat /\ unanswered' \in BOOLEAN

LEMMA ReachedKeeps ==
    ASSUME StreamInv, Reached
    PROVE  StreamInv' /\ Answering' = Answering
BY DEF StreamInv, Reached, NoBuffer, Answering

-----------------------------------------------------------------------------
(* The chat client's connection *)

(* A step at a socket is one at the only socket. *)
LEMMA TheSocket ==
    ASSUME ClientType, SocketsInv, NEW i \in 1 .. Len(sockets)
    PROVE  /\ i = 1 /\ timers = 0 /\ Len(sockets) = 1
           /\ sockets[1] \in Socket
           /\ sockets[1].cursor \in Cursor
           /\ CursorOK(sockets[1].cursor, Len(log))
<1>1. sockets \in Seq(Socket) /\ timers \in Nat /\ Len(sockets) + timers <= 1 /\ Len(sockets) \in Nat
  BY DEF ClientType, SocketsInv, OneConnection
<1>2. i = 1 /\ timers = 0 /\ Len(sockets) = 1
  <2>1. PICK n \in Nat : n = Len(sockets)
    BY <1>1
  <2>2. n + timers <= 1 /\ i \in 1 .. n /\ timers \in Nat
    BY <1>1, <2>1
  <2>3. i = 1 /\ timers = 0 /\ n = 1
    BY <2>2
  <2> QED BY <2>1, <2>3
<1>3. sockets[1] \in Socket
  BY <1>1, <1>2, ElementOfSeq
<1>4. sockets[1].cursor \in Cursor
  BY <1>3 DEF Socket
<1> QED BY <1>2, <1>3, <1>4 DEF SocketsInv

(* A step that puts x for the only socket *)
LEMMA SocketBecomes ==
    ASSUME ClientType, SocketsInv, NEW i \in 1 .. Len(sockets), NEW x \in Socket,
           CursorOK(x.cursor, Len(log)),
           sockets' = [sockets EXCEPT ![i] = x], timers' = timers, log' = log
    PROVE  /\ sockets' \in Seq(Socket) /\ Len(sockets') = 1 /\ sockets'[1] = x
           /\ SocketsInv'
<1>1. i = 1 /\ timers = 0 /\ Len(sockets) = 1
  BY TheSocket
<1>2. sockets \in Seq(Socket)
  BY DEF ClientType
<1>3. /\ [sockets EXCEPT ![i] = x] \in Seq(Socket)
      /\ Len([sockets EXCEPT ![i] = x]) = Len(sockets)
      /\ [sockets EXCEPT ![i] = x][i] = x
  BY <1>2, ExceptSeq
<1>4. sockets' \in Seq(Socket) /\ Len(sockets') = 1 /\ sockets'[1] = x
  BY <1>1, <1>3
<1>5. \A k \in 1 .. Len(sockets') : CursorOK(sockets'[k].cursor, Len(log'))
  <2>1. \A k \in 1 .. Len(sockets') : sockets'[k] = x
    BY ONLY <1>4
  <2> QED BY <2>1
<1> QED BY <1>1, <1>4, <1>5 DEF SocketsInv, OneConnection

(* A step that only looks at the sockets *)
LEMMA SocketsStay ==
    ASSUME SocketsInv, sockets' = sockets, timers' = timers, log' = log
    PROVE  SocketsInv'
BY DEF SocketsInv, OneConnection

(* Connected is about the only socket there is. *)
LEMMA ConnectedIs ==
    ASSUME ClientType, SocketsInv, NEW i \in 1 .. Len(sockets), sockets[i].state = "open"
    PROVE  Connected
BY TheSocket DEF Connected

-----------------------------------------------------------------------------
(* What each step of the chat client keeps *)

(* A step after which no socket is open *)
LEMMA NotConnected ==
    ASSUME who = "chat", who' = who, ~Connected'
    PROVE  IndicatorInv'
BY DEF IndicatorInv

LEMMA ConnectKeeps ==
    ASSUME ChatInv, who = "chat", Connect, who' = who
    PROVE  ChatInv'
<1> DEFINE x == [state |-> "connecting", cursor |-> Joined]
<1>1. /\ timers > 0 /\ ~closed /\ timers' = timers - 1 /\ sockets' = Append(sockets, x)
      /\ Reached
      /\ queue' = queue /\ closed' = closed /\ streaming' = streaming
  BY DEF Connect, streamVars, Reached, ChatInv, StreamInv
<1>2. x \in Socket /\ CursorOK(x.cursor, Len(log))
  BY JoinedIsCursor DEF Socket, ChatInv
<1>3. sockets \in Seq(Socket) /\ timers = 1 /\ Len(sockets) = 0
  BY <1>1 DEF ChatInv, ClientType, SocketsInv, OneConnection
<1>4. sockets' \in Seq(Socket) /\ Len(sockets') = 1 /\ sockets'[1] = x
  BY <1>1, <1>2, <1>3, AppendProperties
<1>5. StreamInv'
  BY <1>1, ReachedKeeps DEF ChatInv
<1>6. ClientType'
  BY <1>1, <1>3, <1>4 DEF ClientType, ChatInv
<1>7. SocketsInv'
  BY <1>1, <1>2, <1>3, <1>4 DEF SocketsInv, OneConnection, Reached
<1>8. sockets'[1].state = "connecting"
  BY <1>4
<1>9. IndicatorInv'
  BY <1>8, NotConnected DEF Connected
<1> QED BY <1>5, <1>6, <1>7, <1>9 DEF ChatInv

(* The only place where the indicator and the log part: what was missed is *)
(* then unanswered, and otherwise there is nothing to read.                *)
LEMMA OnOpenKeeps ==
    ASSUME ChatInv, who = "chat", NEW i \in 1 .. Len(sockets), OnOpen(i), who' = who
    PROVE  ChatInv'
<1> DEFINE x == [state |-> "open", cursor |-> Joined]
<1>1. /\ sockets' = [sockets EXCEPT ![i] = x]
      /\ queue' = <<>> /\ inbox' = inbox + Len(queue)
      /\ unanswered' = (unanswered \/ phase = "draining" \/ (streaming /\ inbox' = 0 /\ ~Answering))
      /\ timers' = timers /\ closed' = closed /\ streaming' = streaming
  BY DEF OnOpen
<1>2. Len(queue) \in Nat /\ inbox \in Nat /\ unanswered' \in BOOLEAN
  BY <1>1 DEF ChatInv, ClientType, StreamInv
<1>3. Reached
  BY <1>1, <1>2 DEF OnOpen, Reached
<1>4. x \in Socket /\ CursorOK(x.cursor, Len(log))
  BY JoinedIsCursor DEF Socket, ChatInv
<1>5. sockets' \in Seq(Socket) /\ Len(sockets') = 1 /\ sockets'[1] = x /\ SocketsInv'
  BY <1>1, <1>3, <1>4, SocketBecomes DEF ChatInv, Reached
<1>6. StreamInv' /\ Answering' = Answering
  BY <1>3, ReachedKeeps DEF ChatInv
<1>7. ClientType'
  BY <1>1, <1>5, EmptySeq DEF ClientType, ChatInv
<1>8. IndicatorInv'
  <2>1. SUFFICES ASSUME Quiet', streaming' \/ Available(sockets[1].cursor)' PROVE FALSE
    BY DEF IndicatorInv
  <2>2. phase # "draining" /\ ~Answering /\ ~streaming
    BY <1>1, <1>6, <2>1 DEF Quiet
  <2>3. buffer = NoBuffer
    BY <2>2 DEF ChatInv, StreamInv, Answering
  <2>4. ~Available(Joined)
    BY <2>3, JoinedIsCursor DEF ChatInv
  <2>5. sockets'[1].cursor = Joined /\ log' = log
    BY <1>3, <1>5 DEF Reached
  <2>6. ~Available(sockets[1].cursor)'
    BY <2>4, <2>5 DEF Available
  <2> QED BY <1>1, <2>1, <2>2, <2>6
<1> QED BY <1>5, <1>6, <1>7, <1>8 DEF ChatInv

LEMMA OnErrorKeeps ==
    ASSUME ChatInv, who = "chat", NEW i \in 1 .. Len(sockets), OnError(i), who' = who
    PROVE  ChatInv'
<1> DEFINE x == [sockets[i] EXCEPT !.state = "failed"]
<1>1. /\ sockets' = [sockets EXCEPT ![i] = x]
      /\ queue' = queue /\ inbox' \in 0 .. inbox
      /\ timers' = timers /\ closed' = closed /\ streaming' = streaming
  BY DEF OnError
<1>2. Reached
  BY <1>1 DEF OnError, Reached, ChatInv, StreamInv
<1>3. x \in Socket /\ CursorOK(x.cursor, Len(log)) /\ x.state = "failed"
  BY TheSocket DEF Socket, ChatInv
<1> HIDE DEF x
<1>4. sockets' \in Seq(Socket) /\ SocketsInv' /\ sockets'[1] = x
  BY <1>1, <1>2, <1>3, SocketBecomes DEF ChatInv, Reached
<1>5. StreamInv'
  BY <1>2, ReachedKeeps DEF ChatInv
<1>6. ClientType'
  BY <1>1, <1>4 DEF ClientType, ChatInv
<1>7. IndicatorInv'
  BY <1>3, <1>4, NotConnected DEF Connected
<1> QED BY <1>4, <1>5, <1>6, <1>7 DEF ChatInv

LEMMA OnCloseKeeps ==
    ASSUME ChatInv, who = "chat", NEW i \in 1 .. Len(sockets), OnClose(i), who' = who
    PROVE  ChatInv'
<1>1. /\ sockets[i].state = "failed" /\ sockets' = RemoveAt(sockets, i)
      /\ timers' = timers + Rescheduled /\ Reached
      /\ queue' = queue /\ closed' = closed /\ streaming' = streaming
  BY DEF OnClose, streamVars, Reached, ChatInv, StreamInv
<1>2. i = 1 /\ timers = 0 /\ Len(sockets) = 1
  BY TheSocket DEF ChatInv
<1>3. SubSeq(sockets, 1, 0) = <<>> /\ SubSeq(sockets, 2, 1) = <<>>
  BY SubSeqEmpty
<1>4. sockets' = <<>> \o <<>>
  BY <1>1, <1>2, <1>3 DEF RemoveAt
<1>5. sockets' = <<>>
  BY <1>4
<1>6. timers' \in 0 .. 1
  BY <1>1, <1>2 DEF Rescheduled
<1>7. Len(sockets') = 0
  BY <1>5
<1>8. SocketsInv'
  <2>1. OneConnection'
    <3>1. PICK n \in 0 .. 1 : n = timers'
      BY <1>6
    <3>2. 0 + n <= 1
      OBVIOUS
    <3> QED BY <1>7, <3>1, <3>2 DEF OneConnection
  <2>2. \A k \in 1 .. Len(sockets') : CursorOK(sockets'[k].cursor, Len(log'))
    BY <1>7
  <2> QED BY <2>1, <2>2 DEF SocketsInv
<1>9. StreamInv'
  BY <1>1, ReachedKeeps DEF ChatInv
<1>10. ClientType'
  BY <1>1, <1>5, <1>6, EmptySeq DEF ClientType, ChatInv
<1>11. IndicatorInv'
  BY <1>7, NotConnected DEF Connected
<1> QED BY <1>8, <1>9, <1>10, <1>11 DEF ChatInv

(* What the reducer does to the indicator: the end of a run puts it out.   *)
LEMMA ReducerIs ==
    ASSUME NEW e, e.type \in EventTypes, ChatReducer(e), streaming \in BOOLEAN
    PROVE  /\ streaming' \in BOOLEAN
           /\ e.type \in Endings => e.type = "error" \/ streaming' = FALSE
<1>1. CASE e.type = "message_started"
  BY <1>1 DEF ChatReducer, MessageStarted, Endings
<1>2. CASE e.type = "token"
  BY <1>2 DEF ChatReducer, Token, Endings
<1>3. CASE e.type = "tool_call_started"
  BY <1>3 DEF ChatReducer, ToolCallStarted, Endings
<1>4. CASE e.type = "tool_call_completed"
  BY <1>4 DEF ChatReducer, ToolCallCompleted, Endings
<1>5. CASE e.type = "message_completed"
  BY <1>5 DEF ChatReducer, MessageCompleted
<1>6. CASE e.type = "run_failed"
  BY <1>6 DEF ChatReducer, RunFailed
<1>7. CASE e.type = "error"
  BY <1>7 DEF ChatReducer
<1> QED BY <1>1, <1>2, <1>3, <1>4, <1>5, <1>6, <1>7 DEF EventTypes, Endings

LEMMA OnMessageKeeps ==
    ASSUME ChatInv, who = "chat", NEW i \in 1 .. Len(sockets), OnMessage(i), who' = who
    PROVE  ChatInv'
<1> DEFINE c == sockets[i].cursor
<1> DEFINE x == [sockets[i] EXCEPT !.cursor = Advance(c)]
<1>1. /\ sockets[i].state = "open" /\ Available(c) /\ ChatReducer(EventAt(c))
      /\ sockets' = [sockets EXCEPT ![i] = x] /\ inbox' = inbox
      /\ unanswered' = (unanswered \/ EventAt(c).type = "error")
      /\ log' = log /\ run' = run /\ phase' = phase /\ openCall' = openCall /\ buffer' = buffer
      /\ timers' = timers /\ queue' = queue /\ closed' = closed
  BY DEF OnMessage
<1>2. Reached
  BY <1>1 DEF Reached, ChatInv, StreamInv
<1>3. i = 1 /\ sockets[i] \in Socket /\ c \in Cursor /\ StreamInv /\ CursorOK(c, Len(log))
  BY TheSocket DEF ChatInv
<1>4. Advance(c) \in Cursor /\ CursorOK(Advance(c), Len(log))
  BY <1>1, <1>3, AdvanceIs
<1>5. x \in Socket /\ CursorOK(x.cursor, Len(log)) /\ x.cursor = Advance(c)
  BY <1>1, <1>3, <1>4 DEF Socket
<1>6. EventAt(c).type \in EventTypes
  BY <1>1, <1>3, EventIs DEF Event
<1>7. /\ streaming' \in BOOLEAN
      /\ EventAt(c).type \in Endings => EventAt(c).type = "error" \/ streaming' = FALSE
  BY <1>1, <1>6, ReducerIs DEF ChatInv, ClientType
<1>8. Connected /\ c = sockets[1].cursor
  BY <1>1, <1>3, ConnectedIs DEF ChatInv
<1> HIDE DEF c, x
<1>9. sockets' \in Seq(Socket) /\ Len(sockets') = 1 /\ sockets'[1] = x /\ SocketsInv'
  BY <1>1, <1>5, SocketBecomes DEF ChatInv
<1>10. StreamInv' /\ Answering' = Answering
  BY <1>2, <1>3, ReachedKeeps
<1>11. ClientType'
  BY <1>1, <1>7, <1>9 DEF ClientType, ChatInv
<1>12. IndicatorInv'
  <2>1. sockets'[1].cursor = Advance(c)
    BY <1>5, <1>9
  <2>2. Available(sockets[1].cursor)' <=> Available(Advance(c))
    BY <1>1, <2>1 DEF Available
  <2>3. SUFFICES ASSUME Quiet', streaming' \/ Available(Advance(c)) PROVE Ahead(Advance(c), log)
    BY <1>1, <2>1, <2>2 DEF IndicatorInv
  <2>4. Quiet /\ EventAt(c).type # "error"
    BY <1>1, <1>10, <2>3 DEF Quiet
  <2>5. Ahead(c, log)
    BY <1>1, <1>8, <2>4 DEF ChatInv, IndicatorInv
  <2>6. EventAt(c).type \notin Endings \/ Available(Advance(c))
    BY <1>7, <2>3, <2>4
  <2> QED BY <1>1, <1>3, <2>4, <2>5, <2>6, StillAhead DEF Quiet
<1> QED BY <1>9, <1>10, <1>11, <1>12 DEF ChatInv

LEMMA SendKeeps ==
    ASSUME ChatInv, who = "chat", Send, who' = who, given \in Nat
    PROVE  ChatInv'
<1>1. /\ sockets' = sockets /\ timers' = timers /\ closed' = closed
      /\ streaming' = TRUE /\ unanswered' = FALSE
      /\ log' = log /\ run' = run /\ phase' = phase /\ openCall' = openCall /\ buffer' = buffer
  BY DEF Send, SendUser
<1>2. queue \in Seq(Nat) /\ inbox \in Nat /\ given + 1 \in Nat
  BY DEF ChatInv, ClientType, StreamInv
<1>3. CASE \E i \in 1 .. Len(sockets) : sockets[i].state = "open"
  <2>1. inbox' = inbox + 1 /\ queue' = queue
    BY <1>3 DEF Send
  <2>2. inbox' \in Nat /\ inbox' # 0
    BY <1>2, <2>1
  <2>a. Reached
    BY <1>1, <2>2 DEF Reached
  <2>3. StreamInv' /\ ClientType' /\ SocketsInv'
    BY <1>1, <2>1, <2>a, ReachedKeeps, SocketsStay DEF ChatInv, ClientType
  <2>4. IndicatorInv'
    BY <1>1, <2>2 DEF ChatInv, IndicatorInv, Quiet
  <2> QED BY <2>3, <2>4 DEF ChatInv
<1>4. CASE ~\E i \in 1 .. Len(sockets) : sockets[i].state = "open"
  <2>1. inbox' = inbox /\ queue' = Append(queue, given + 1)
    BY <1>4 DEF Send
  <2>2. queue' \in Seq(Nat)
    BY <1>2, <2>1, AppendProperties
  <2>3. Reached
    BY <1>1, <1>2, <2>1 DEF Reached
  <2>4. StreamInv' /\ ClientType' /\ SocketsInv'
    BY <1>1, <2>2, <2>3, ReachedKeeps, SocketsStay DEF ChatInv, ClientType
  <2>5. ~Connected'
    BY <1>1, <1>4 DEF Connected
  <2> QED BY <2>4, <2>5, NotConnected DEF ChatInv
<1> QED BY <1>3, <1>4

LEMMA DisconnectKeeps ==
    ASSUME ChatInv, who = "chat", Disconnect, who' = who
    PROVE  ChatInv'
<1>1. /\ closed' = TRUE /\ timers' = 0 /\ sockets' = <<>> /\ Reached
      /\ queue' = queue /\ streaming' = streaming
  BY DEF Disconnect, streamVars, Reached, ChatInv, StreamInv
<1>2. Len(sockets') = 0 /\ sockets' \in Seq(Socket)
  BY <1>1, EmptySeq
<1>3. SocketsInv'
  BY <1>1, <1>2 DEF SocketsInv, OneConnection
<1>4. StreamInv' /\ ClientType'
  BY <1>1, <1>2, ReachedKeeps DEF ChatInv, ClientType
<1>5. IndicatorInv'
  BY <1>2, NotConnected DEF Connected
<1> QED BY <1>3, <1>4, <1>5 DEF ChatInv

LEMMA ChatKeeps ==
    ASSUME ChatInv, given \in Nat, who = "chat", ClientNext, who' = who
    PROVE  ChatInv'
BY ConnectKeeps, OnOpenKeeps, OnErrorKeeps, OnCloseKeeps, OnMessageKeeps, SendKeeps, DisconnectKeeps
   DEF ClientNext, SocketStep

-----------------------------------------------------------------------------
(* What the session's steps and the other client leave of it *)

(* A step of the session is seen by an open connection as a longer log. *)
LEMMA StreamKeepsChat ==
    ASSUME ChatInv, StreamNext, UNCHANGED clientVars, who' = who, who \in {"chat", "feed"}
    PROVE  ChatInv'
<1>1. /\ StreamInv'
      /\ log' = log \/ \E e \in Event : log' = Append(log, e)
      /\ Quiet' => Quiet \/ \E e \in Event : log' = Append(log, e)
  BY StreamSteps DEF ChatInv
<1>2. sockets' = sockets /\ timers' = timers /\ streaming' = streaming
  BY DEF clientVars
<1>3. ClientType'
  BY DEF ChatInv, ClientType, clientVars
<1>4. /\ Len(log) \in Nat /\ Len(log') \in Nat /\ Len(log') >= Len(log)
      /\ (\E e \in Event : log' = Append(log, e)) => Len(log') = Len(log) + 1
  BY <1>1, LogGrows DEF ChatInv, StreamInv
<1>5. SocketsInv'
  <2>1. OneConnection'
    BY <1>2 DEF ChatInv, SocketsInv, OneConnection
  <2>2. ASSUME NEW i \in 1 .. Len(sockets) PROVE CursorOK(sockets[i].cursor, Len(log'))
    <3>1. sockets[1].cursor \in Cursor /\ CursorOK(sockets[1].cursor, Len(log)) /\ i = 1
      BY TheSocket DEF ChatInv
    <3> QED BY <1>4, <3>1 DEF CursorOK, Cursor
  <2> QED BY <1>2, <2>1, <2>2 DEF SocketsInv
<1>6. IndicatorInv'
  <2> DEFINE c == sockets[1].cursor
  <2>1. SUFFICES ASSUME Connected, Quiet', streaming \/ Available(sockets[1].cursor)'
                 PROVE  Ahead(c, log')
    BY <1>2 DEF ChatInv, IndicatorInv, Connected
  <2>2. c \in Cursor /\ CursorOK(c, Len(log))
    BY <2>1, TheSocket DEF Connected, ChatInv
  <2> HIDE DEF c
  <2>3. CASE \E e \in Event : log' = Append(log, e)
    <3>1. Len(log') = Len(log) + 1
      BY <1>4, <2>3
    <3> QED BY <1>4, <2>2, <3>1 DEF CursorOK, Ahead, Cursor
  <2>4. CASE log' = log /\ Quiet
    <3>1. Available(sockets[1].cursor)' <=> Available(c)
      BY <1>2, <2>4 DEF Available, c
    <3>2. Ahead(c, log)
      BY <2>1, <2>4, <3>1 DEF ChatInv, IndicatorInv, c
    <3> QED BY <2>4, <3>2
  <2> QED BY <1>1, <2>1, <2>3, <2>4
<1> QED BY <1>1, <1>3, <1>5, <1>6 DEF ChatInv

(* The visitor of the playground has no chat client open. *)
LEMMA FeedKeepsChat ==
    ASSUME ChatInv, who = "feed", Reached, UNCHANGED clientVars, who' = who
    PROVE  ChatInv'
<1>1. StreamInv'
  BY ReachedKeeps DEF ChatInv
<1>2. sockets' = sockets /\ timers' = timers /\ log' = log
  BY DEF clientVars, Reached
<1>3. ClientType' /\ SocketsInv'
  BY <1>2, SocketsStay DEF ChatInv, ClientType, clientVars
<1>4. Len(sockets') = 0
  BY <1>2 DEF ChatInv, IndicatorInv
<1>5. IndicatorInv'
  BY <1>4 DEF IndicatorInv, Connected
<1> QED BY <1>1, <1>3, <1>5 DEF ChatInv

-----------------------------------------------------------------------------
(* What the user wrote *)

(* The numbers up to n, and one more *)
Numbers(n) == [k \in 1 .. n |-> k]

LEMMA OneMore ==
    ASSUME NEW n \in Nat
    PROVE  Append(Numbers(n), n + 1) = Numbers(n + 1)
<1>1. Numbers(n) \in Seq(Nat) /\ Len(Numbers(n)) = n
  BY DEF Numbers
<1>2. Numbers(n + 1) \in Seq(Nat) /\ Len(Numbers(n + 1)) = n + 1
  BY DEF Numbers
<1>3. /\ Append(Numbers(n), n + 1) \in Seq(Nat) /\ Len(Append(Numbers(n), n + 1)) = n + 1
      /\ \A k \in 1 .. n : Append(Numbers(n), n + 1)[k] = Numbers(n)[k]
      /\ Append(Numbers(n), n + 1)[n + 1] = n + 1
  BY <1>1, AppendProperties
<1>4. \A k \in 1 .. n + 1 : Append(Numbers(n), n + 1)[k] = Numbers(n + 1)[k]
  BY <1>3 DEF Numbers
<1> QED BY <1>2, <1>3, <1>4, SeqEqual

(* One more at the end of the second of two sequences is one at the end. *)
LEMMA AppendedLast ==
    ASSUME NEW S, NEW s \in Seq(S), NEW t \in Seq(S), NEW x \in S
    PROVE  s \o Append(t, x) = Append(s \o t, x)
<1>1. Append(t, x) = t \o <<x>> /\ <<x>> \in Seq(S)
  BY AppendIsConcat
<1>2. s \o t \in Seq(S)
  BY ConcatProperties
<1>3. Append(s \o t, x) = (s \o t) \o <<x>>
  BY <1>2, AppendIsConcat
<1>4. (s \o t) \o <<x>> = s \o (t \o <<x>>)
  BY <1>1, ConcatAssociative
<1> QED BY <1>1, <1>3, <1>4

(* A step of the chat client other than OnOpen and Send opens no socket.   *)
LEMMA OrderFrame ==
    ASSUME OrderInv, given' = given, sent' = sent, queue' = queue, Connected' => Connected
    PROVE  OrderInv'
BY DEF OrderInv, SentInOrder

LEMMA OrderKeeps ==
    ASSUME ChatInv, OrderInv, ClientNext
    PROVE  OrderInv'
<1>0. queue \in Seq(Nat) /\ sent \in Seq(Nat) /\ given \in Nat /\ sent \o queue = Numbers(given)
  BY DEF ChatInv, ClientType, OrderInv, SentInOrder, Numbers
<1>1. CASE Connect
  <2>1. given' = given /\ sent' = sent /\ queue' = queue
    BY <1>1 DEF Connect
  <2>2. ~Connected'
    <3> DEFINE x == [state |-> "connecting", cursor |-> Joined]
    <3>1. sockets' = Append(sockets, x) /\ timers > 0
      BY <1>1 DEF Connect
    <3>2. sockets \in Seq(Socket) /\ Len(sockets) = 0
      BY <3>1 DEF ChatInv, ClientType, SocketsInv, OneConnection
    <3>3. x \in Socket
      BY JoinedIsCursor DEF Socket, ChatInv
    <3>4. sockets'[1] = x
      BY <3>1, <3>2, <3>3, AppendProperties
    <3> QED BY <3>4 DEF Connected
  <2> QED BY <2>1, <2>2, OrderFrame
<1>2. ASSUME NEW i \in 1 .. Len(sockets), OnOpen(i) PROVE OrderInv'
  <2>1. queue' = <<>> /\ sent' = sent \o queue /\ given' = given
    BY <1>2 DEF OnOpen
  <2>2. sent' \in Seq(Nat)
    BY <1>0, <2>1, ConcatProperties
  <2>3. sent' \o queue' = Numbers(given')
    BY <1>0, <2>1, <2>2, ConcatEmptySeq
  <2> QED BY <1>0, <2>1, <2>2, <2>3 DEF OrderInv, SentInOrder, Numbers
<1>3. ASSUME NEW i \in 1 .. Len(sockets), OnError(i) PROVE OrderInv'
  <2>1. given' = given /\ sent' = sent /\ queue' = queue
        /\ sockets' = [sockets EXCEPT ![i].state = "failed"]
    BY <1>3 DEF OnError
  <2>2. i = 1 /\ sockets[1] \in Socket /\ sockets \in Seq(Socket)
    BY TheSocket DEF ChatInv, ClientType
  <2>3. ~Connected'
    BY <2>1, <2>2 DEF Connected, Socket
  <2> QED BY <2>1, <2>3, OrderFrame
<1>4. ASSUME NEW i \in 1 .. Len(sockets), OnClose(i) PROVE OrderInv'
  <2>1. given' = given /\ sent' = sent /\ queue' = queue /\ sockets' = RemoveAt(sockets, i)
    BY <1>4 DEF OnClose
  <2>2. i = 1 /\ Len(sockets) = 1
    BY TheSocket DEF ChatInv
  <2>3. SubSeq(sockets, 1, 0) = <<>> /\ SubSeq(sockets, 2, 1) = <<>>
    BY SubSeqEmpty
  <2>4. sockets' = <<>> \o <<>>
    BY <2>1, <2>2, <2>3 DEF RemoveAt
  <2>5. Len(sockets') = 0
    BY <2>4
  <2> QED BY <2>1, <2>5, OrderFrame DEF Connected
<1>5. ASSUME NEW i \in 1 .. Len(sockets), OnMessage(i) PROVE OrderInv'
  <2>1. given' = given /\ sent' = sent /\ queue' = queue /\ sockets[i].state = "open"
    BY <1>5 DEF OnMessage
  <2>2. Connected
    BY <2>1, ConnectedIs DEF ChatInv
  <2> QED BY <2>1, <2>2, OrderFrame
<1>6. CASE Send
  <2>1. given' = given + 1 /\ sockets' = sockets
    BY <1>6 DEF Send
  <2>2. CASE \E i \in 1 .. Len(sockets) : sockets[i].state = "open"
    <3>1. sent' = Append(sent, given + 1) /\ queue' = queue
      BY <1>6, <2>2 DEF Send
    <3>2. queue = <<>>
      BY <2>2, ConnectedIs DEF ChatInv, OrderInv
    <3>3. sent = Numbers(given)
      BY <1>0, <3>2, ConcatEmptySeq
    <3>4. sent' = Numbers(given') /\ sent' \in Seq(Nat)
      <4>1. given + 1 \in Nat
        BY <1>0
      <4>2. sent' \in Seq(Nat)
        BY <1>0, <3>1, <4>1, AppendProperties
      <4> QED BY <1>0, <2>1, <3>1, <3>3, <4>2, OneMore
    <3>5. sent' \o queue' = Numbers(given')
      BY <3>1, <3>2, <3>4, ConcatEmptySeq
    <3> QED BY <1>0, <2>1, <3>1, <3>2, <3>4, <3>5 DEF OrderInv, SentInOrder, Numbers
  <2>3. CASE ~\E i \in 1 .. Len(sockets) : sockets[i].state = "open"
    <3>1. queue' = Append(queue, given + 1) /\ sent' = sent
      BY <1>6, <2>3 DEF Send
    <3>2. ~Connected'
      BY <2>1, <2>3 DEF Connected
    <3>3. sent' \o queue' = Append(sent \o queue, given + 1)
      <4>1. given + 1 \in Nat
        BY <1>0
      <4>2. sent \o Append(queue, given + 1) = Append(sent \o queue, given + 1)
        BY <1>0, <4>1, AppendedLast
      <4> QED BY <3>1, <4>2
    <3>4. sent' \o queue' = Numbers(given')
      BY <1>0, <2>1, <3>3, OneMore
    <3>5. given' \in Nat /\ sent' \in Seq(Nat)
      BY <1>0, <2>1, <3>1
    <3>6. SentInOrder'
      BY <3>4 DEF SentInOrder, Numbers
    <3> QED BY <3>2, <3>5, <3>6 DEF OrderInv
  <2> QED BY <2>2, <2>3
<1>7. CASE Disconnect
  <2>1. given' = given /\ sent' = sent /\ queue' = queue /\ sockets' = <<>>
    BY <1>7 DEF Disconnect
  <2>2. Len(sockets') = 0
    BY <2>1
  <2> QED BY <2>1, <2>2, OrderFrame DEF Connected
<1> QED BY <1>1, <1>2, <1>3, <1>4, <1>5, <1>6, <1>7 DEF ClientNext, SocketStep

-----------------------------------------------------------------------------
(* The playground's feed *)

LEMMA FeedKeeps ==
    ASSUME StreamInv, FeedInv, FeedNext
    PROVE  Reached /\ FeedInv'
<1>0. opened \in Seq(FeedSocket) /\ feed \in Seq(Event)
  BY DEF FeedInv
<1>1. CASE Recover
  <2> DEFINE x == [live |-> TRUE, open |-> FALSE, cursor |-> Joined]
  <2>1. opened' = Append(opened, x) /\ feed' = feed /\ UNCHANGED streamVars
    BY <1>1 DEF Recover
  <2>2. Reached
    BY <2>1 DEF Reached, streamVars, StreamInv
  <2>3. x \in FeedSocket
    BY JoinedIsCursor DEF FeedSocket
  <2>4. opened' \in Seq(FeedSocket)
    BY <1>0, <2>1, <2>3, AppendProperties
  <2> QED BY <1>0, <2>1, <2>2, <2>4 DEF FeedInv
<1>2. ASSUME NEW i \in 1 .. Len(opened), FeedOnOpen(i) PROVE Reached /\ FeedInv'
  <2> DEFINE x == [opened[i] EXCEPT !.open = TRUE, !.cursor = Joined]
  <2>1. opened' = [opened EXCEPT ![i] = x] /\ feed' = feed /\ UNCHANGED streamVars
    BY <1>0, <1>2 DEF FeedOnOpen
  <2>2. Reached
    BY <2>1 DEF Reached, streamVars, StreamInv
  <2>3. opened[i] \in FeedSocket
    BY <1>0, ElementOfSeq
  <2>4. x \in FeedSocket
    BY <2>3, JoinedIsCursor DEF FeedSocket
  <2> HIDE DEF x
  <2>5. opened' \in Seq(FeedSocket)
    BY <1>0, <2>1, <2>4, ExceptSeq
  <2> QED BY <1>0, <2>1, <2>2, <2>5 DEF FeedInv
<1>3. ASSUME NEW i \in 1 .. Len(opened), FeedOnMessage(i) PROVE Reached /\ FeedInv'
  <2> DEFINE c == opened[i].cursor
  <2> DEFINE x == [opened[i] EXCEPT !.cursor = Advance(c)]
  <2>1. /\ opened' = [opened EXCEPT ![i] = x]
        /\ feed' = feed \/ feed' = Append(feed, EventAt(c))
        /\ Available(c) /\ UNCHANGED streamVars
    BY <1>3 DEF FeedOnMessage
  <2>2. Reached
    BY <2>1 DEF Reached, streamVars, StreamInv
  <2>3. opened[i] \in FeedSocket
    BY <1>0, ElementOfSeq
  <2>4. c \in Cursor
    BY <2>3 DEF FeedSocket
  <2>5. EventAt(c) \in Event /\ Advance(c) \in Cursor
    BY <2>1, <2>4, EventIs, AdvanceIs
  <2>6. x \in FeedSocket
    BY <2>3, <2>5 DEF FeedSocket
  <2> HIDE DEF c, x
  <2>7. opened' \in Seq(FeedSocket)
    BY <1>0, <2>1, <2>6, ExceptSeq
  <2>8. feed' \in Seq(Event)
    BY <1>0, <2>1, <2>5, AppendProperties
  <2> QED BY <2>2, <2>7, <2>8 DEF FeedInv
<1>4. ASSUME NEW i \in 1 .. Len(opened), FeedOnClose(i) PROVE Reached /\ FeedInv'
  <2> DEFINE x == [opened[i] EXCEPT !.live = FALSE]
  <2>1. opened' = [opened EXCEPT ![i] = x] /\ feed' = feed /\ UNCHANGED streamVars
    BY <1>4 DEF FeedOnClose
  <2>2. Reached
    BY <2>1 DEF Reached, streamVars, StreamInv
  <2>3. opened[i] \in FeedSocket
    BY <1>0, ElementOfSeq
  <2>4. x \in FeedSocket
    BY <2>3 DEF FeedSocket
  <2> HIDE DEF x
  <2>5. opened' \in Seq(FeedSocket)
    BY <1>0, <2>1, <2>4, ExceptSeq
  <2> QED BY <1>0, <2>1, <2>2, <2>5 DEF FeedInv
<1>5. ASSUME DropSocket \/ FeedSend PROVE Reached /\ FeedInv'
  BY <1>0, <1>5 DEF DropSocket, FeedSend, streamVars, Reached, StreamInv, FeedInv
<1> QED BY <1>1, <1>2, <1>3, <1>4, <1>5 DEF FeedNext

-----------------------------------------------------------------------------
(* The theorems *)

LEMMA InitHolds == Init => IInv
<1> SUFFICES ASSUME Init PROVE IInv
  OBVIOUS
<1>1. /\ log = <<>> /\ run = 0 /\ phase = "idle" /\ openCall = 0 /\ inbox = 0
      /\ unanswered = FALSE /\ buffer = NoBuffer
  BY DEF Init, StreamInit
<1>2. log \in Seq(Event) /\ Len(log) = 0 /\ NoBuffer \in [from : Nat \ {0}, to : Nat]
  BY <1>1, EmptySeq DEF NoBuffer
<1>a. unanswered \in BOOLEAN /\ 0 \in Nat
  BY <1>1
<1>3. StreamInv
  BY <1>1, <1>2, <1>a DEF StreamInv
<1>4. /\ sockets = <<>> /\ timers = 1 /\ closed = FALSE /\ streaming = FALSE
      /\ queue = <<>> /\ sent = <<>> /\ given = 0
      /\ opened = <<>> /\ feed = <<>>
  BY DEF Init, ClientInit, FeedInit
<1>5. Len(sockets) = 0
  BY <1>4
<1>6. ClientType
  BY <1>4, EmptySeq DEF ClientType
<1>7. SocketsInv
  BY <1>4, <1>5 DEF SocketsInv, OneConnection
<1>8. IndicatorInv
  BY <1>5 DEF IndicatorInv, Connected
<1>9. OrderInv
  BY <1>4 DEF OrderInv, SentInOrder
<1>10. FeedInv
  BY <1>4, EmptySeq DEF FeedInv
<1> QED BY <1>3, <1>6, <1>7, <1>8, <1>9, <1>10 DEF IInv, ChatInv

LEMMA NextHolds ==
    ASSUME IInv, who \in {"chat", "feed"}, [Next]_vars
    PROVE  IInv' /\ who' \in {"chat", "feed"}
<1>1. CASE StreamNext /\ UNCHANGED <<clientVars, feedVars, who>>
  <2>1. ChatInv'
    BY <1>1, StreamKeepsChat DEF IInv
  <2>2. OrderInv'
    <3>1. given' = given /\ sent' = sent /\ queue' = queue /\ sockets' = sockets
      BY <1>1 DEF clientVars
    <3> QED BY <3>1, OrderFrame DEF IInv, Connected
  <2>3. FeedInv'
    BY <1>1 DEF IInv, FeedInv, feedVars
  <2> QED BY <1>1, <2>1, <2>2, <2>3 DEF IInv
<1>2. CASE who = "chat" /\ ClientNext /\ UNCHANGED <<feedVars, who>>
  <2>1. ChatInv'
    BY <1>2, ChatKeeps DEF IInv, OrderInv
  <2>2. OrderInv'
    BY <1>2, OrderKeeps DEF IInv
  <2>3. FeedInv'
    BY <1>2 DEF IInv, FeedInv, feedVars
  <2> QED BY <1>2, <2>1, <2>2, <2>3 DEF IInv
<1>3. CASE who = "feed" /\ FeedNext /\ UNCHANGED <<clientVars, who>>
  <2>1. Reached /\ FeedInv'
    BY <1>3, FeedKeeps DEF IInv, ChatInv
  <2>2. ChatInv'
    BY <1>3, <2>1, FeedKeepsChat DEF IInv
  <2>3. OrderInv'
    <3>1. given' = given /\ sent' = sent /\ queue' = queue /\ sockets' = sockets
      BY <1>3 DEF clientVars
    <3> QED BY <3>1, OrderFrame DEF IInv, Connected
  <2> QED BY <1>3, <2>1, <2>2, <2>3 DEF IInv
<1>4. CASE UNCHANGED vars
  BY <1>4 DEF vars, streamVars, clientVars, feedVars, IInv, ChatInv, StreamInv, NoBuffer, Answering,
     ClientType, SocketsInv, OneConnection, IndicatorInv, Quiet, Connected, Available, OrderInv,
     SentInOrder, FeedInv
<1> QED BY <1>1, <1>2, <1>3, <1>4 DEF Next

LEMMA InvariantHolds == Spec => []IInv
<1> DEFINE J == IInv /\ who \in {"chat", "feed"}
<1>1. Init => J
  BY InitHolds DEF Init
<1>2. J /\ [Next]_vars => J'
  BY NextHolds
<1> QED BY <1>1, <1>2, PTL DEF Spec

(* createChatSession never has two connections, nor one and an armed retry *)
(* timer, for any number of retries, breaks and disconnections.            *)
THEOREM OneConnectionHolds == Spec => []OneConnection
<1>1. IInv => OneConnection
  BY DEF IInv, ChatInv, SocketsInv
<1> QED BY <1>1, InvariantHolds, PTL

(* On any open connection, the first or a later one, and for any replay it *)
(* got (limited, emptied by a refused message, none): chatReducer's        *)
(* indicator is on only while an answer can still come, except for what no *)
(* event tells the client of.                                              *)
THEOREM IndicatorEndsHolds == Spec => []IndicatorEnds
<1>1. ASSUME IInv PROVE IndicatorEnds
  <2>1. SUFFICES ASSUME NEW i \in 1 .. Len(sockets), sockets[i].state = "open", streaming, ~unanswered,
                        inbox = 0, ~Answering
                 PROVE  Available(sockets[i].cursor)
    BY <1>1 DEF IndicatorEnds, IInv, ChatInv, StreamInv
  <2> DEFINE c == sockets[1].cursor
  <2>2. i = 1 /\ c \in Cursor /\ CursorOK(c, Len(log)) /\ Connected /\ Len(log) \in Nat
    BY <1>1, <2>1, TheSocket, ConnectedIs DEF IInv, ChatInv, StreamInv
  <2>3. Ahead(c, log)
    BY <1>1, <2>1, <2>2 DEF IInv, ChatInv, IndicatorInv, Quiet
  <2> HIDE DEF c
  <2>4. Available(c)
    BY <2>2, <2>3 DEF Ahead, CursorOK, Cursor, Available
  <2> QED BY <2>2, <2>4 DEF c
<1> QED BY <1>1, InvariantHolds, PTL

(* What the user gave to sendMessage goes to the wire in order and once,   *)
(* across any number of reconnections: the queue is flushed before a       *)
(* message can overtake it.                                                *)
THEOREM SentInOrderHolds == Spec => []SentInOrder
<1>1. IInv => SentInOrder
  BY DEF IInv, OrderInv
<1> QED BY <1>1, InvariantHolds, PTL

-----------------------------------------------------------------------------
(* deriveToolCalls goes through the events one after the other: what it    *)
(* makes of one event more is what it made of the ones before, with that   *)
(* event seen.  Induction is by a least counterexample.                    *)

Less == {p \in Nat \X Nat : p[1] < p[2]}

LEMMA LeastNumber ==
    ASSUME NEW T, T \subseteq Nat, T # {}
    PROVE  \E x \in T : \A y \in T : x <= y
<1>1. IsWellFoundedOn(Less, Nat)
  BY NatLessThanWellFounded DEF OpToRel, Less
<1>2. PICK x \in T : \A y \in T : ~(<<y, x>> \in Less)
  BY <1>1, WFMin
<1>3. \A y \in T : ~(y < x)
  BY <1>2 DEF Less
<1> QED BY <1>3

View == [call : Nat, status : {"started", "completed"}]

IsViews(views, events, count) ==
    views = [n \in 0 .. count |-> IF n = 0 THEN <<>> ELSE SeeCall(views[n - 1], events[n])]

Views(events) == CHOOSE views : IsViews(views, events, Len(events))

LEMMA DeriveIsViews ==
    ASSUME NEW events
    PROVE  DeriveToolCalls(events) = Views(events)[Len(events)]
BY DEF DeriveToolCalls, Views, IsViews

LEMMA IsViewsByStep ==
    ASSUME NEW views, NEW events, NEW count \in Nat
    PROVE  IsViews(views, events, count) <=>
              /\ DOMAIN views = 0 .. count /\ views = [n \in 0 .. count |-> views[n]]
              /\ views[0] = <<>>
              /\ \A n \in 1 .. count : views[n] = SeeCall(views[n - 1], events[n])
<1> DEFINE Body(n) == IF n = 0 THEN <<>> ELSE SeeCall(views[n - 1], events[n])
<1>1. Body(0) = <<>> /\ \A n \in 1 .. count : Body(n) = SeeCall(views[n - 1], events[n])
  OBVIOUS
<1>2. IsViews(views, events, count) <=> views = [n \in 0 .. count |-> Body(n)]
  BY DEF IsViews
<1> HIDE DEF Body
<1> DEFINE dom == 0 .. count
           later == 1 .. count
<1>3. 0 \in dom /\ dom = {0} \cup later
  OBVIOUS
<1> HIDE DEF dom, later
<1>4. ASSUME views = [n \in dom |-> Body(n)]
      PROVE  /\ DOMAIN views = dom /\ views = [n \in dom |-> views[n]]
             /\ views[0] = Body(0) /\ \A n \in later : views[n] = Body(n)
  BY <1>3, <1>4
<1>5. ASSUME DOMAIN views = dom, views = [n \in dom |-> views[n]], views[0] = Body(0),
             \A n \in later : views[n] = Body(n)
      PROVE  views = [n \in dom |-> Body(n)]
  <2>1. \A n \in dom : views[n] = Body(n)
    BY <1>3, <1>5
  <2> QED BY <1>5, <2>1
<1> QED BY <1>1, <1>2, <1>4, <1>5 DEF dom, later

LEMMA ViewsExist ==
    ASSUME NEW events, NEW count \in Nat
    PROVE  \E views : IsViews(views, events, count)
<1> DEFINE T == {c \in Nat : ~\E views : IsViews(views, events, c)}
<1>1. ASSUME T # {} PROVE FALSE
  <2>0. T \subseteq Nat
    OBVIOUS
  <2>1. PICK c \in T : \A j \in T : c <= j
    <3> HIDE DEF T
    <3> QED BY <1>1, <2>0, LeastNumber
  <2>2. CASE c = 0
    <3> DEFINE one == [n \in 0 .. 0 |-> <<>>]
    <3>1. DOMAIN one = 0 .. 0 /\ one = [n \in 0 .. 0 |-> one[n]] /\ one[0] = <<>>
      OBVIOUS
    <3> HIDE DEF one
    <3>2. \A n \in 1 .. 0 : one[n] = SeeCall(one[n - 1], events[n])
      OBVIOUS
    <3>3. IsViews(one, events, 0)
      BY ONLY 0 \in Nat, <3>1, <3>2, IsViewsByStep
    <3> QED BY <2>1, <2>2, <3>3
  <2>3. CASE c # 0
    <3>0. c \in Nat /\ c - 1 \in Nat
      BY <2>1, <2>3
    <3>1. c - 1 \notin T
      BY <2>1, <3>0
    <3>2. PICK f : IsViews(f, events, c - 1)
      BY <3>0, <3>1
    <3>a. f[0] = <<>> /\ \A n \in 1 .. (c - 1) : f[n] = SeeCall(f[n - 1], events[n])
      BY <3>0, <3>2, IsViewsByStep
    <3> DEFINE g == [n \in 0 .. c |-> IF n = c THEN SeeCall(f[c - 1], events[c]) ELSE f[n]]
    <3>3. DOMAIN g = 0 .. c /\ g = [n \in 0 .. c |-> g[n]]
      OBVIOUS
    <3>4. \A n \in 0 .. (c - 1) : g[n] = f[n]
      BY <3>0
    <3>5. g[c] = SeeCall(f[c - 1], events[c])
      BY <3>0
    <3> HIDE DEF g
    <3>6. g[0] = <<>>
      BY <3>0, <3>a, <3>4
    <3>7. ASSUME NEW n \in 1 .. c PROVE g[n] = SeeCall(g[n - 1], events[n])
      <4>0. n - 1 \in 0 .. (c - 1)
        BY <3>0
      <4>1. CASE n = c
        BY <3>4, <3>5, <4>0, <4>1
      <4>2. CASE n # c
        <5>1. n \in 1 .. (c - 1) /\ n \in 0 .. (c - 1)
          BY <3>0, <4>2
        <5>2. g[n - 1] = f[n - 1] /\ g[n] = f[n]
          BY <3>4, <4>0, <5>1
        <5> QED BY <3>a, <5>1, <5>2
      <4> QED BY <4>1, <4>2
    <3>8. IsViews(g, events, c)
      BY <3>0, <3>3, <3>6, <3>7, IsViewsByStep
    <3> QED BY <2>1, <3>8
  <2> QED BY <2>2, <2>3
<1> QED BY <1>1

LEMMA ViewsDef ==
    ASSUME NEW events, Len(events) \in Nat
    PROVE  /\ Views(events)[0] = <<>>
           /\ \A n \in 1 .. Len(events) : Views(events)[n] = SeeCall(Views(events)[n - 1], events[n])
<1>1. IsViews(Views(events), events, Len(events))
  BY ViewsExist DEF Views
<1> QED BY <1>1, IsViewsByStep

(* The views before an event do not depend on it. *)
LEMMA ViewsPrefix ==
    ASSUME NEW events \in Seq(Event), NEW e \in Event, NEW n \in 0 .. Len(events)
    PROVE  Views(Append(events, e))[n] = Views(events)[n]
<1> DEFINE more == Append(events, e)
           f == Views(events)
           g == Views(more)
           T == {k \in 0 .. Len(events) : g[k] # f[k]}
<1>1. PICK m \in Nat : m = Len(events) /\ Len(more) = m + 1 /\ \A k \in 1 .. m : more[k] = events[k]
  BY AppendProperties
<1>2. f[0] = <<>> /\ \A k \in 1 .. m : f[k] = SeeCall(f[k - 1], events[k])
  BY <1>1, ViewsDef
<1>3. g[0] = <<>> /\ \A k \in 1 .. (m + 1) : g[k] = SeeCall(g[k - 1], more[k])
  <2> HIDE DEF more
  <2>1. Len(more) \in Nat /\ Len(more) = m + 1
    BY <1>1
  <2> QED BY <2>1, ViewsDef
<1> HIDE DEF more, f, g
<1>4. ASSUME T # {} PROVE FALSE
  <2>0. T \subseteq Nat
    BY <1>1
  <2>1. PICK k \in T : \A j \in T : k <= j
    <3> HIDE DEF T
    <3> QED BY <1>4, <2>0, LeastNumber
  <2>2. k \in 0 .. m /\ k # 0 /\ g[k] # f[k]
    BY <1>1, <1>2, <1>3, <2>1
  <2>3. k \in 1 .. m /\ k \in 1 .. (m + 1) /\ k - 1 \in 0 .. m /\ ~(k <= k - 1)
    BY <2>2
  <2>4. g[k - 1] = f[k - 1]
    BY <1>1, <2>1, <2>3
  <2> QED BY <1>1, <1>2, <1>3, <2>2, <2>3, <2>4
<1> QED BY <1>4 DEF more, f, g

LEMMA DeriveAppend ==
    ASSUME NEW events \in Seq(Event), NEW e \in Event
    PROVE  DeriveToolCalls(Append(events, e)) = SeeCall(DeriveToolCalls(events), e)
<1> DEFINE more == Append(events, e)
<1>1. PICK m \in Nat : m = Len(events) /\ Len(more) = m + 1 /\ more[m + 1] = e
  BY AppendProperties
<1>2. Views(more)[m + 1] = SeeCall(Views(more)[m], more[m + 1])
  <2>1. m + 1 \in 1 .. (m + 1) /\ (m + 1) - 1 = m /\ m + 1 \in Nat
    OBVIOUS
  <2> HIDE DEF more
  <2>2. Len(more) \in Nat
    BY <1>1, <2>1
  <2>3. \A n \in 1 .. (m + 1) : Views(more)[n] = SeeCall(Views(more)[n - 1], more[n])
    BY <1>1, <2>2, ViewsDef
  <2> QED BY <2>1, <2>3
<1>3. Views(more)[m] = Views(events)[m]
  BY <1>1, ViewsPrefix
<1> HIDE DEF more
<1>4. DeriveToolCalls(more) = Views(more)[m + 1] /\ DeriveToolCalls(events) = Views(events)[m]
  BY <1>1, DeriveIsViews
<1> QED BY <1>1, <1>2, <1>3, <1>4 DEF more

LEMMA SeeCallIs ==
    ASSUME NEW views \in Seq(View), NEW e \in Event
    PROVE  /\ SeeCall(views, e) \in Seq(View)
           /\ Len(SeeCall(views, e)) >= Len(views)
           /\ \A i \in 1 .. Len(views) :
                 /\ SeeCall(views, e)[i].call = views[i].call
                 /\ views[i].status = "completed" => SeeCall(views, e)[i].status = "completed"
<1>1. PICK m \in Nat : m = Len(views) /\ \A i \in 1 .. m : views[i] \in View
  BY ElementOfSeq
<1>2. ASSUME NEW v \in View, SeeCall(views, e) = Append(views, v)
      PROVE  /\ SeeCall(views, e) \in Seq(View) /\ Len(SeeCall(views, e)) = m + 1
             /\ \A i \in 1 .. m : SeeCall(views, e)[i] = views[i]
  BY <1>1, <1>2, AppendProperties
<1>3. CASE SeeCall(views, e) = views
  BY <1>1, <1>3
<1>4. CASE \E v \in View : SeeCall(views, e) = Append(views, v)
  BY <1>1, <1>2, <1>4
<1> DEFINE Done(i) == IF views[i].call = e.call THEN [views[i] EXCEPT !.status = "completed"]
                      ELSE views[i]
<1>5. CASE SeeCall(views, e) = [i \in 1 .. Len(views) |-> Done(i)]
  <2>1. \A i \in 1 .. m : /\ Done(i) \in View /\ Done(i).call = views[i].call
                          /\ views[i].status = "completed" => Done(i).status = "completed"
    BY <1>1 DEF View
  <2> HIDE DEF Done
  <2>2. SeeCall(views, e) \in Seq(View) /\ Len(SeeCall(views, e)) = m
    BY <1>1, <1>5, <2>1
  <2>3. \A i \in 1 .. m : SeeCall(views, e)[i] = Done(i)
    BY <1>1, <1>5
  <2> QED BY <1>1, <2>1, <2>2, <2>3
<1>6. e.call \in Nat
  BY DEF Event
<1>7. \/ SeeCall(views, e) = views
      \/ SeeCall(views, e) = Append(views, [call |-> e.call, status |-> "started"])
      \/ SeeCall(views, e) = Append(views, [call |-> e.call, status |-> "completed"])
      \/ SeeCall(views, e) = [i \in 1 .. Len(views) |-> Done(i)]
  BY DEF SeeCall
<1>8. /\ [call |-> e.call, status |-> "started"] \in View
      /\ [call |-> e.call, status |-> "completed"] \in View
  BY <1>6 DEF View
<1> QED BY <1>3, <1>4, <1>5, <1>7, <1>8

LEMMA DeriveType ==
    ASSUME NEW events \in Seq(Event)
    PROVE  DeriveToolCalls(events) \in Seq(View)
<1> DEFINE f == Views(events)
           T == {k \in 0 .. Len(events) : f[k] \notin Seq(View)}
<1>1. PICK m \in Nat : m = Len(events) /\ \A k \in 1 .. m : events[k] \in Event
  BY ElementOfSeq
<1>2. f[0] = <<>> /\ \A k \in 1 .. m : f[k] = SeeCall(f[k - 1], events[k])
  BY <1>1, ViewsDef
<1>3. ASSUME T # {} PROVE FALSE
  <2> HIDE DEF f
  <2>0. T \subseteq Nat
    BY <1>1
  <2>1. PICK k \in T : \A j \in T : k <= j
    <3> HIDE DEF T
    <3> QED BY <1>3, <2>0, LeastNumber
  <2>2. k \in 0 .. m /\ f[k] \notin Seq(View) /\ k # 0
    BY <1>1, <1>2, <2>1, EmptySeq
  <2>3. k \in 1 .. m /\ k - 1 \in 0 .. m /\ ~(k <= k - 1)
    BY <2>2
  <2>4. f[k - 1] \in Seq(View)
    BY <1>1, <2>1, <2>3
  <2> QED BY <1>1, <1>2, <2>2, <2>3, <2>4, SeeCallIs
<1>4. m \in 0 .. Len(events)
  BY <1>1
<1> QED BY <1>1, <1>3, <1>4, DeriveIsViews

LEMMA FeedGrows ==
    ASSUME IInv, [Next]_vars, IInv'
    PROVE  feed' = feed \/ \E e \in Event : feed' = Append(feed, e)
<1>1. feed \in Seq(Event) /\ feed' \in Seq(Event)
  BY DEF IInv, FeedInv
<1>2. feed' = feed \/ \E e : feed' = Append(feed, e)
  BY DEF Next, FeedNext, Recover, DropSocket, FeedSend, FeedOnOpen, FeedOnMessage, FeedOnClose, vars,
         feedVars
<1>3. ASSUME NEW e, feed' = Append(feed, e) PROVE e \in Event
  <2>1. PICK m \in Nat : m = Len(feed)
    BY <1>1
  <2>2. Len(feed') = m + 1 /\ feed'[m + 1] = e
    BY <1>1, <1>3, <2>1
  <2> QED BY <1>1, <2>2, ElementOfSeq
<1> QED BY <1>2, <1>3

(* App.tsx derives the tool calls anew from the whole feed on every event: *)
(* whatever was dropped, recovered and replayed, a call that was shown     *)
(* stays where it was, and one that was shown as finished stays finished.  *)
THEOREM CallsNeverReopenHolds == Spec => CallsNeverReopen
<1> DEFINE Kept == LET before == DeriveToolCalls(feed)
                       after == DeriveToolCalls(feed') IN
                   /\ Len(after) >= Len(before)
                   /\ \A i \in 1 .. Len(before) :
                         /\ after[i].call = before[i].call
                         /\ before[i].status = "completed" => after[i].status = "completed"
<1>1. ASSUME IInv, [Next]_vars, IInv' PROVE [Kept]_feed
  <2>1. feed \in Seq(Event)
    BY <1>1 DEF IInv, FeedInv
  <2>2. ASSUME NEW e \in Event, feed' = Append(feed, e) PROVE Kept
    <3>1. DeriveToolCalls(feed') = SeeCall(DeriveToolCalls(feed), e)
      BY <2>1, <2>2, DeriveAppend
    <3> QED BY <2>1, <3>1, DeriveType, SeeCallIs
  <2> QED BY <1>1, <2>2, FeedGrows
<1> QED BY <1>1, InvariantHolds, PTL DEF Spec, CallsNeverReopen
=============================================================================
