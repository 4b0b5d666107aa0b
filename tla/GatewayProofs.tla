---------------------------- MODULE GatewayProofs ----------------------------
(***************************************************************************)
(* Theorems about the gateway, for any sockets, runs, events and replay    *)
(* limit, with Redis and without.                                          *)
(*                                                                         *)
(* The argument: with respect to runs, buffer and deliveries a step has    *)
(* one of a few shapes (StepShape).  A socket is quiet or joins (replay);  *)
(* meanwhile a run starts, a send is refused or nothing happens; or a run  *)
(* emits an event or ends.  The invariants are inductive over the shapes.  *)
(***************************************************************************)
EXTENDS Gateway, SequenceTheorems, TLAPS

Wires  == {"none", "open", "closing", "closed"}
Routes == {"none", "auth", "acquire", "serving", "rejected", "failed", "released"}
Phases == {"idle", "setup", "live", "ended"}
Commands == [cmd : {"subscribe", "unsubscribe"}, socket : Sockets]

Subscribes(i) == i \in 1 .. Len(commands) /\ commands[i].cmd = "subscribe"

(* Each subscribe on its way has a socket of its own that waits for it. *)
Queued ==
    /\ \A i \in 1 .. Len(commands) : Subscribes(i) => route[commands[i].socket] = "acquire"
    /\ \A i, j \in 1 .. Len(commands) :
          Subscribes(i) /\ Subscribes(j) /\ commands[i].socket = commands[j].socket => i = j

GatewayType ==
    /\ wire \in [Sockets -> Wires]
    /\ route \in [Sockets -> Routes]
    /\ connected \subseteq Sockets
    /\ run \in [Runs -> Phases]
    /\ emitted \in [Runs -> 0 .. MaxEvents]
    /\ buffer \in [run : Runs \cup {None}, events : Seq(ChatEvents)]
    /\ received \in [Sockets -> Seq(ChatEvents)]
    /\ refused \subseteq Runs
    /\ redisActive \in BOOLEAN /\ refCount \in Nat
    /\ \A w \in Sockets : wire[w] = "none" => route[w] = "none"
    /\ commands \in Seq(Commands)
    /\ Queued

USE GatewayAssumption

-----------------------------------------------------------------------------
(* The shapes *)

(* A socket that was never registered *)
Fresh(w) == route[w] \in {"none", "auth", "rejected"}

Starts(r) == /\ Active = {} /\ run[r] = "idle" /\ run' = [run EXCEPT ![r] = "setup"]
             /\ UNCHANGED <<emitted, buffer, refused>>
Refuses == /\ buffer' = NoBuffer /\ refused' = refused \cup Active
           /\ UNCHANGED <<run, emitted>>
Rests == UNCHANGED <<run, emitted, buffer, refused>>
Handled == (\E r \in Runs : Starts(r)) \/ Refuses \/ Rests

(* Sockets come and go, and nobody is sent an event. *)
Sways == /\ wire' \in [Sockets -> Wires] /\ route' \in [Sockets -> Routes]
         /\ connected' \subseteq Sockets
         /\ \A w \in Sockets : wire'[w] = "open" => wire[w] = "open" \/ (Fresh(w) /\ Fresh(w)')
         /\ \A w \in Sockets : wire'[w] = "none" => wire[w] = "none" /\ route'[w] = route[w]
Quiet == /\ Sways /\ connected' \subseteq connected /\ received' = received
         /\ \A w \in Sockets : Fresh(w)' => Fresh(w)
Joins(w) == /\ route[w] = "auth" /\ route' \in [Sockets -> Routes] /\ wire' = wire
            /\ ~Fresh(w)' /\ \A v \in Sockets : Fresh(v)' => Fresh(v)
            /\ \A v \in Sockets \ {w} : route'[v] = route[v]
            /\ connected' \subseteq connected \cup {w}
            /\ received' = [received EXCEPT ![w] = IF wire[w] = "open" THEN @ \o buffer.events
                                                   ELSE @]

Emits(r) ==
    LET e == <<r, emitted[r] + 1>> IN
    /\ r \in Active /\ emitted[r] < MaxEvents
    /\ run' = [run EXCEPT ![r] = "live"]
    /\ emitted' = [emitted EXCEPT ![r] = @ + 1]
    /\ buffer' = Keep(r, e)
    /\ Broadcast(e)
    /\ UNCHANGED <<wire, route, refused>>
Ends(r) == /\ r \in Active /\ run' = [run EXCEPT ![r] = "ended"]
           /\ buffer' = NoBuffer
           /\ UNCHANGED <<emitted, refused>>

Shape == \/ Quiet /\ Handled
         \/ (\E w \in Sockets : Joins(w)) /\ Handled
         \/ \E r \in Runs : Emits(r)
         \/ Quiet /\ \E r \in Runs : Ends(r)

LEMMA FrameShape ==
    ASSUME NEW w, NEW f, NEW conn \in SUBSET Sockets, HandleFrame(w, f, conn)
    PROVE  Handled /\ connected' \subseteq conn
BY DEF HandleFrame, HandleSend, HandleCancel, Handled, Starts, Refuses, Rests, Reachable, runVars

(* A step of the subscriber connection or of a socket, apart from joining *)
LEMMA SocketShape ==
    ASSUME GatewayType, NEW w \in Sockets,
           \/ Connect(w) \/ AuthFails(w) \/ (\E f \in Frames : BufferFrame(w, f))
           \/ Drop(w) \/ SocketError(w) \/ HeartbeatKills(w) \/ CloseEvent(w)
    PROVE  Quiet /\ Rests
<1> USE DEF GatewayType, Quiet, Sways, Rests, Fresh, runVars, Wires, Routes
<1>1. CASE Connect(w)
  BY <1>1 DEF Connect
<1>2. CASE AuthFails(w)
  BY <1>2 DEF AuthFails, Reject
<1>3. CASE \E f \in Frames : BufferFrame(w, f)
  BY <1>3 DEF BufferFrame
<1>4. CASE Drop(w)
  BY <1>4 DEF Drop
<1>5. CASE SocketError(w)
  BY <1>5 DEF SocketError
<1>6. CASE HeartbeatKills(w)
  BY <1>6 DEF HeartbeatKills
<1>7. CASE CloseEvent(w)
  <2>1. CASE route[w] = "serving"
    BY <1>7, <2>1 DEF CloseEvent
  <2>2. CASE route[w] # "serving"
    BY <1>7, <2>2 DEF CloseEvent
  <2>3. QED
    BY <2>1, <2>2
<1>8. QED
  BY <1>1, <1>2, <1>3, <1>4, <1>5, <1>6, <1>7

LEMMA InboundShape ==
    ASSUME GatewayType, NEW w \in Sockets, NEW f \in Frames, Inbound(w, f)
    PROVE  Quiet /\ Handled
<1>1. Handled /\ connected' \subseteq connected
  BY FrameShape DEF Inbound, GatewayType
<1>2. QED
  BY <1>1 DEF Inbound, Quiet, Sways, Fresh, GatewayType, socketVars

LEMMA ServeShape ==
    ASSUME GatewayType, NEW w \in Sockets, NEW conn \in SUBSET Sockets, Serve(w, conn)
    PROVE  /\ Handled /\ connected' \subseteq conn
           /\ route' = [route EXCEPT ![w] = "serving"]
BY FrameShape DEF Serve

LEMMA AuthenticatedShape ==
    ASSUME GatewayType, NEW w \in Sockets, Authenticated(w)
    PROVE  Joins(w) /\ Handled
<1> DEFINE conn == IF buffer.events = <<>> THEN connected \cup {w}
                   ELSE Reachable(connected \cup {w}, w)
<1>1. conn \subseteq connected \cup {w} /\ conn \in SUBSET Sockets
  BY DEF Reachable, GatewayType
<1>2. Acquire(w, conn) /\ route[w] = "auth" /\ wire' = wire
      /\ received' = [received EXCEPT ![w] = IF wire[w] = "open" THEN @ \o buffer.events ELSE @]
  BY DEF Authenticated
<1> HIDE DEF conn
<1>3. /\ Handled /\ connected' \subseteq conn
      /\ \/ route' = [route EXCEPT ![w] = "serving"]
         \/ route' = [route EXCEPT ![w] = "acquire"]
  <2>1. CASE Serve(w, conn)
    BY <1>1, <2>1, ServeShape
  <2>2. CASE ~Serve(w, conn)
    BY <1>2, <2>2 DEF Acquire, Handled, Rests, runVars
  <2>3. QED
    BY <2>1, <2>2
<1>4. QED
  BY <1>1, <1>2, <1>3 DEF Joins, Fresh, GatewayType, Routes

LEMMA HeadWaits ==
    ASSUME GatewayType, commands # <<>>, Head(commands).cmd = "subscribe"
    PROVE  /\ Len(commands) \in Nat \ {0} /\ Head(commands) = commands[1]
           /\ Head(commands).socket \in Sockets
           /\ route[Head(commands).socket] = "acquire"
<1>1. /\ Len(commands) \in Nat \ {0} /\ Head(commands) = commands[1] /\ commands[1] \in Commands
  BY DEF GatewayType
<1>2. QED
  BY <1>1 DEF GatewayType, Queued, Subscribes, Commands

LEMMA ReplyShape ==
    ASSUME GatewayType, SubscribeReply \/ SubscribeFails \/ UnsubscribeReply
    PROVE  Quiet /\ Handled
<1>1. CASE UnsubscribeReply
  BY <1>1 DEF UnsubscribeReply, GatewayType, Quiet, Sways, Fresh, Handled, Rests, socketVars, runVars
<1>2. CASE SubscribeReply \/ SubscribeFails
  <2>1. PICK w \in Sockets : w = Head(commands).socket /\ wire[w] # "none"
    BY <1>2, HeadWaits DEF SubscribeReply, SubscribeFails, GatewayType
  <2>2. CASE SubscribeReply
    <3>1. Serve(w, connected) /\ wire' = wire /\ received' = received
      BY <2>1, <2>2 DEF SubscribeReply
    <3>2. /\ Handled /\ connected' \subseteq connected
          /\ route' = [route EXCEPT ![w] = "serving"]
      BY <3>1, ServeShape DEF GatewayType
    <3>3. QED
      BY <2>1, <3>1, <3>2 DEF Quiet, Sways, Fresh, GatewayType, Routes
  <2>3. CASE SubscribeFails
    <3>1. /\ route' = [route EXCEPT ![w] = "failed"]
          /\ wire' = [wire EXCEPT ![w] = IF @ = "open" THEN "closing" ELSE @]
          /\ UNCHANGED <<connected, received>> /\ Rests
      BY <2>1, <2>3 DEF SubscribeFails, Reject, Rests, runVars
    <3>2. QED
      BY <2>1, <3>1 DEF Quiet, Sways, Fresh, Handled, GatewayType, Routes, Wires
  <2>4. QED
    BY <1>2, <2>2, <2>3
<1>3. QED
  BY <1>1, <1>2

LEMMA RunShape ==
    ASSUME GatewayType, NEW r \in Runs, RunEmits(r) \/ RunEnds(r) \/ RunRejects(r)
    PROVE  Emits(r) \/ (Quiet /\ Ends(r))
<1>1. CASE RunEmits(r)
  BY <1>1 DEF RunEmits, Emits, Active, socketVars
<1>2. CASE RunEnds(r)
  BY <1>2 DEF RunEnds, Ends, Active, Quiet, Sways, Fresh, GatewayType, socketVars
<1>3. CASE RunRejects(r)
  BY <1>3 DEF RunRejects, Ends, Active, Quiet, Sways, Fresh, Reachable, GatewayType, socketVars
<1>4. QED
  BY <1>1, <1>2, <1>3

LEMMA StepShape == ASSUME GatewayType, [Next]_vars PROVE Shape
<1>1. CASE \E w \in Sockets :
             \/ Connect(w) \/ AuthFails(w) \/ (\E f \in Frames : BufferFrame(w, f))
             \/ Drop(w) \/ SocketError(w) \/ HeartbeatKills(w) \/ CloseEvent(w)
  BY <1>1, SocketShape DEF Shape, Handled
<1>2. CASE \E w \in Sockets : \E f \in Frames : Inbound(w, f)
  BY <1>2, InboundShape DEF Shape
<1>3. CASE \E w \in Sockets : Authenticated(w)
  BY <1>3, AuthenticatedShape DEF Shape
<1>4. CASE SubscribeReply \/ SubscribeFails \/ UnsubscribeReply
  BY <1>4, ReplyShape DEF Shape
<1>5. CASE \E e \in ChatEvents : Echo(e)
  <2>1. UNCHANGED <<socketVars, connected, received, runVars, buffer, refused>>
    BY <1>5 DEF Echo, Forward
  <2>2. Quiet /\ Rests
    BY <2>1 DEF Quiet, Sways, Fresh, Rests, GatewayType, socketVars, runVars
  <2>3. QED
    BY <2>2 DEF Shape, Handled
<1>6. CASE \E r \in Runs : RunEmits(r) \/ RunEnds(r) \/ RunRejects(r)
  BY <1>6, RunShape DEF Shape
<1>7. CASE UNCHANGED vars
  BY <1>7 DEF vars, Shape, Handled, Rests, Quiet, Sways, Fresh, GatewayType, socketVars, runVars
<1>8. QED
  BY <1>1, <1>2, <1>3, <1>4, <1>5, <1>6, <1>7 DEF Next

-----------------------------------------------------------------------------
(* The channel *)

Asks(w) == /\ refCount = 0 /\ refCount' = 1
           /\ commands' = Append(commands, [cmd |-> "subscribe", socket |-> w])
           /\ subscribed' = subscribed
Counts == /\ refCount > 0 /\ refCount' = refCount + 1 /\ UNCHANGED <<commands, subscribed>>
LetsGo(w) == Release(w) /\ subscribed' = subscribed
Answers == /\ commands # <<>> /\ commands' = Tail(commands) /\ refCount' = refCount
           /\ subscribed' = (Head(commands).cmd = "subscribe")
Fails == /\ commands # <<>> /\ Head(commands).cmd = "subscribe"
         /\ commands' = Tail(commands) /\ UNCHANGED <<refCount, subscribed>>
         /\ \E w \in Sockets : route'[w] = "failed"

Channel == /\ redisActive' = redisActive
           /\ \A w \in Sockets : route[w] = "failed" => route'[w] = "failed"
           /\ \/ UNCHANGED <<refCount, commands, subscribed>>
              \/ \E w \in Sockets : Asks(w)
              \/ Counts
              \/ \E w \in Sockets : LetsGo(w)
              \/ Answers \/ Fails

QueueType == refCount' \in Nat /\ commands' \in Seq(Commands) /\ Queued'

LEMMA CommandSockets ==
    ASSUME GatewayType
    PROVE  /\ Len(commands) \in Nat
           /\ \A i \in 1 .. Len(commands) : commands[i] \in Commands /\ commands[i].socket \in Sockets
<1>1. commands \in Seq(Commands)
  BY DEF GatewayType
<1>2. Len(commands) \in Nat /\ \A i \in 1 .. Len(commands) : commands[i] \in Commands
  BY <1>1, ElementOfSeq, LenProperties
<1>3. QED
  BY <1>2 DEF Commands

LEMMA AppendCommand ==
    ASSUME GatewayType, NEW c \in Commands, commands' = Append(commands, c)
    PROVE  /\ commands' \in Seq(Commands) /\ Len(commands') = Len(commands) + 1
           /\ commands'[Len(commands) + 1] = c
           /\ \A i \in 1 .. Len(commands) : commands'[i] = commands[i]
BY DEF GatewayType

LEMMA StillQueued ==
    ASSUME GatewayType, UNCHANGED commands, refCount' \in Nat,
           \A v \in Sockets : route[v] = "acquire" => route'[v] = "acquire"
    PROVE  QueueType
<1>1. Queued /\ commands' \in Seq(Commands)
  BY DEF GatewayType
<1>2. Queued'
  BY <1>1, CommandSockets DEF Queued, Subscribes
<1>3. QED
  BY <1>1, <1>2 DEF QueueType

(* A command that is added is an unsubscribe or the subscribe of a socket  *)
(* that now waits for it.                                                  *)
LEMMA AddQueued ==
    ASSUME GatewayType, NEW c \in Commands, commands' = Append(commands, c), refCount' \in Nat,
           \A v \in Sockets : route[v] = "acquire" => route'[v] = "acquire",
           c.cmd = "subscribe" => route[c.socket] # "acquire" /\ route'[c.socket] = "acquire"
    PROVE  QueueType
<1>1. Queued
  BY DEF GatewayType
<1>2. \A i \in 1 .. Len(commands) : Subscribes(i)' <=> Subscribes(i)
  BY AppendCommand, CommandSockets DEF Subscribes
<1>3. \A i \in 1 .. Len(commands') : i \in 1 .. Len(commands) \/ i = Len(commands) + 1
  BY AppendCommand, CommandSockets
<1>4. \A i : i = Len(commands) + 1 /\ Subscribes(i)' => c.cmd = "subscribe" /\ commands'[i] = c
  BY AppendCommand, CommandSockets DEF Subscribes
<1>5. ASSUME NEW i \in 1 .. Len(commands'), Subscribes(i)'
      PROVE  route'[commands'[i].socket] = "acquire"
  <2>1. CASE i \in 1 .. Len(commands)
    BY <1>1, <1>2, <1>5, <2>1, AppendCommand, CommandSockets DEF Queued
  <2>2. CASE i = Len(commands) + 1
    BY <1>4, <1>5, <2>2, AppendCommand
  <2>3. QED
    BY <1>3, <2>1, <2>2
<1>6. \A i \in 1 .. Len(commands) : Subscribes(i) /\ c.cmd = "subscribe" => commands[i].socket # c.socket
  BY <1>1 DEF Queued
<1>7. ASSUME NEW i \in 1 .. Len(commands'), NEW j \in 1 .. Len(commands'),
             Subscribes(i)', Subscribes(j)', commands'[i].socket = commands'[j].socket
      PROVE  i = j
  <2>1. CASE i \in 1 .. Len(commands) /\ j \in 1 .. Len(commands)
    <3>1. Subscribes(i) /\ Subscribes(j) /\ commands[i].socket = commands[j].socket
      BY <1>2, <1>7, <2>1, AppendCommand
    <3>2. QED
      BY <1>1, <2>1, <3>1 DEF Queued
  <2>2. CASE i \in 1 .. Len(commands) /\ j = Len(commands) + 1
    BY <1>2, <1>4, <1>6, <1>7, <2>2, AppendCommand
  <2>3. CASE j \in 1 .. Len(commands) /\ i = Len(commands) + 1
    BY <1>2, <1>4, <1>6, <1>7, <2>3, AppendCommand
  <2>4. QED
    BY <1>3, <2>1, <2>2, <2>3
<1>8. QED
  BY <1>5, <1>7, AppendCommand DEF QueueType, Queued

LEMMA ReplyQueued ==
    ASSUME GatewayType, commands # <<>>, commands' = Tail(commands), refCount' = refCount,
           \/ route' = route
           \/ Head(commands).cmd = "subscribe"
              /\ \E l : route' = [route EXCEPT ![Head(commands).socket] = l]
    PROVE  QueueType
<1>1. /\ Len(commands) \in Nat \ {0} /\ Head(commands) = commands[1]
      /\ Tail(commands) \in Seq(Commands) /\ Len(Tail(commands)) = Len(commands) - 1
      /\ \A i \in 1 .. Len(commands) - 1 : Tail(commands)[i] = commands[i + 1]
      /\ \A i \in 1 .. Len(commands) : commands[i] \in Commands
  BY DEF GatewayType
<1>2. \A i \in 1 .. Len(commands') : Subscribes(i)' => Subscribes(i + 1) /\ i + 1 \in 1 .. Len(commands)
  BY <1>1 DEF Subscribes
<1>3. \A i \in 1 .. Len(commands') : Subscribes(i)' => route'[commands'[i].socket] = "acquire"
  <2>1. SUFFICES ASSUME NEW i \in 1 .. Len(commands'), Subscribes(i)'
                 PROVE  route'[commands'[i].socket] = "acquire"
    OBVIOUS
  <2>2. Subscribes(i + 1) /\ i + 1 \in 1 .. Len(commands) /\ commands'[i] = commands[i + 1]
    BY <1>1, <1>2, <2>1
  <2>3. commands[i + 1].socket \in Sockets /\ route[commands[i + 1].socket] = "acquire"
    BY <1>1, <2>2 DEF GatewayType, Queued, Commands
  <2>4. Head(commands).cmd = "subscribe" => commands[i + 1].socket # Head(commands).socket
    BY <1>1, <2>2 DEF GatewayType, Queued, Subscribes
  <2>5. QED
    BY <1>1, <2>2, <2>3, <2>4 DEF GatewayType
<1>4. \A i, j \in 1 .. Len(commands') :
          Subscribes(i)' /\ Subscribes(j)' /\ commands'[i].socket = commands'[j].socket => i = j
  BY <1>1, <1>2 DEF GatewayType, Queued
<1>5. QED
  BY <1>1, <1>3, <1>4 DEF QueueType, GatewayType, Queued

LEMMA ServeChannel ==
    ASSUME GatewayType, NEW w \in Sockets, NEW conn, Serve(w, conn)
    PROVE  route' = [route EXCEPT ![w] = "serving"]
BY DEF Serve

LEMMA AuthenticatedChannel ==
    ASSUME GatewayType, NEW w \in Sockets, Authenticated(w)
    PROVE  Channel /\ QueueType
<1> DEFINE conn == IF buffer.events = <<>> THEN connected \cup {w}
                   ELSE Reachable(connected \cup {w}, w)
<1>1. Acquire(w, conn) /\ route[w] = "auth" /\ UNCHANGED <<redisActive, subscribed>>
  BY DEF Authenticated
<1> HIDE DEF conn
<1>2. CASE Serve(w, conn) /\ commands' = commands
           /\ (refCount' = refCount \/ (refCount > 0 /\ refCount' = refCount + 1))
  <2>1. route' = [route EXCEPT ![w] = "serving"] /\ refCount' \in Nat
    BY <1>2, ServeChannel DEF GatewayType
  <2>2. QueueType
    BY <1>1, <1>2, <2>1, StillQueued DEF GatewayType
  <2>3. Channel
    BY <1>1, <1>2, <2>1 DEF Channel, Counts, GatewayType
  <2>4. QED
    BY <2>2, <2>3
<1>3. CASE Asks(w) /\ route' = [route EXCEPT ![w] = "acquire"]
  <2> DEFINE c == [cmd |-> "subscribe", socket |-> w]
  <2>1. c \in Commands /\ commands' = Append(commands, c) /\ refCount' \in Nat
    BY <1>3 DEF Asks, Commands
  <2>2. QueueType
    BY <1>1, <1>3, <2>1, AddQueued DEF GatewayType
  <2>3. QED
    BY <1>1, <1>3, <2>2 DEF Channel, GatewayType
<1>4. CASE redisActive /\ refCount = 0
  BY <1>1, <1>3, <1>4 DEF Acquire, Asks
<1>5. CASE redisActive /\ refCount # 0
  <2>1. Serve(w, conn) /\ refCount > 0 /\ refCount' = refCount + 1 /\ UNCHANGED commands
    BY <1>1, <1>5, Zenon DEF Acquire
  <2>2. QED
    BY <1>2, <2>1
<1>6. CASE ~redisActive
  <2>1. Serve(w, conn) /\ refCount' = refCount /\ commands' = commands
    BY <1>1, <1>6, Zenon DEF Acquire
  <2>2. QED
    BY <1>2, <2>1
<1>7. QED
  BY <1>4, <1>5, <1>6

LEMMA ReplyChannel ==
    ASSUME GatewayType, SubscribeReply \/ SubscribeFails \/ UnsubscribeReply
    PROVE  Channel /\ QueueType
<1>1. CASE UnsubscribeReply
  <2>1. QueueType
    BY <1>1, ReplyQueued DEF UnsubscribeReply, socketVars
  <2>2. Channel
    BY <1>1 DEF UnsubscribeReply, Channel, Answers, socketVars
  <2>3. QED
    BY <2>1, <2>2
<1>2. CASE SubscribeReply
  <2>1. PICK w \in Sockets : w = Head(commands).socket /\ route[w] = "acquire"
    BY <1>2, HeadWaits DEF SubscribeReply
  <2>2. route' = [route EXCEPT ![w] = "serving"]
    BY <1>2, <2>1, ServeChannel DEF SubscribeReply
  <2>3. QueueType
    BY <1>2, <2>1, <2>2, ReplyQueued DEF SubscribeReply
  <2>4. Channel
    BY <1>2, <2>1, <2>2 DEF SubscribeReply, Channel, Answers, GatewayType
  <2>5. QED
    BY <2>3, <2>4
<1>3. CASE SubscribeFails
  <2>1. PICK w \in Sockets : w = Head(commands).socket /\ route[w] = "acquire"
    BY <1>3, HeadWaits DEF SubscribeFails
  <2>2. route' = [route EXCEPT ![w] = "failed"]
    BY <1>3, <2>1 DEF SubscribeFails, Reject
  <2>3. QueueType
    BY <1>3, <2>1, <2>2, ReplyQueued DEF SubscribeFails
  <2>4. Channel
    BY <1>3, <2>1, <2>2 DEF SubscribeFails, Channel, Fails, GatewayType
  <2>5. QED
    BY <2>3, <2>4
<1>4. QED
  BY <1>1, <1>2, <1>3

LEMMA CloseChannel ==
    ASSUME GatewayType, NEW w \in Sockets, CloseEvent(w)
    PROVE  Channel /\ QueueType
<1>1. /\ redisActive' = redisActive /\ subscribed' = subscribed
      /\ route' = route \/ (route[w] = "serving" /\ route' = [route EXCEPT ![w] = "released"])
      /\ Release(w) \/ UNCHANGED <<refCount, commands>>
  BY DEF CloseEvent
<1>2. \A v \in Sockets : route[v] \in {"acquire", "failed"} => route'[v] = route[v]
  BY <1>1 DEF GatewayType
<1>3. Channel
  BY <1>1, <1>2 DEF Channel, LetsGo
<1>4. CASE UNCHANGED commands
  <2>1. refCount' \in Nat
    BY <1>1 DEF Release, GatewayType
  <2>2. QED
    BY <1>2, <1>3, <1>4, <2>1, StillQueued
<1>5. CASE ~(UNCHANGED commands)
  <2> DEFINE c == [cmd |-> "unsubscribe", socket |-> w]
  <2>1. c \in Commands /\ commands' = Append(commands, c) /\ refCount' \in Nat
    BY <1>1, <1>5 DEF Release, Commands, GatewayType
  <2>2. QED
    BY <1>2, <1>3, <2>1, AddQueued
<1>6. QED
  BY <1>4, <1>5

LEMMA StepChannel == ASSUME GatewayType, [Next]_vars PROVE Channel /\ QueueType
<1>1. CASE \E w \in Sockets : Authenticated(w)
  BY <1>1, AuthenticatedChannel
<1>2. CASE SubscribeReply \/ SubscribeFails \/ UnsubscribeReply
  BY <1>2, ReplyChannel
<1>3. CASE \E w \in Sockets : CloseEvent(w)
  BY <1>3, CloseChannel
<1>4. CASE UNCHANGED redisVars /\ \A v \in Sockets :
             route[v] \in {"acquire", "failed"} => route'[v] = route[v]
  <2>1. refCount' \in Nat /\ UNCHANGED <<redisActive, refCount, commands, subscribed>>
    BY <1>4 DEF redisVars, GatewayType
  <2>2. QED
    BY <1>4, <2>1, StillQueued DEF Channel
<1>5. CASE \E w \in Sockets : \/ Connect(w) \/ AuthFails(w)
             \/ (\E f \in Frames : BufferFrame(w, f) \/ Inbound(w, f))
             \/ Drop(w) \/ SocketError(w) \/ HeartbeatKills(w)
  <2>1. UNCHANGED redisVars
    BY <1>5 DEF Connect, AuthFails, BufferFrame, Inbound, Drop, SocketError, HeartbeatKills
  <2>2. \A v \in Sockets : route[v] \in {"acquire", "failed"} => route'[v] = route[v]
    BY <1>5 DEF Connect, AuthFails, BufferFrame, Inbound, Drop, SocketError, HeartbeatKills,
               Reject, socketVars, GatewayType
  <2>3. QED
    BY <1>4, <2>1, <2>2
<1>6. CASE \/ \E e \in ChatEvents : Echo(e)
           \/ \E r \in Runs : RunEmits(r) \/ RunEnds(r) \/ RunRejects(r)
           \/ UNCHANGED vars
  <2>1. UNCHANGED <<redisVars, route>>
    BY <1>6 DEF Echo, RunEmits, RunEnds, RunRejects, vars, socketVars
  <2>2. QED
    BY <1>4, <2>1
<1>7. QED
  BY <1>1, <1>2, <1>3, <1>5, <1>6 DEF Next

LEMMA GatewayTypeStep == ASSUME GatewayType, [Next]_vars PROVE GatewayType'
<1>1. QueueType /\ redisActive' \in BOOLEAN
  BY StepChannel DEF Channel, GatewayType
<1>2. ASSUME Quiet
      PROVE  /\ wire' \in [Sockets -> Wires] /\ route' \in [Sockets -> Routes]
             /\ connected' \subseteq Sockets /\ received' \in [Sockets -> Seq(ChatEvents)]
             /\ \A w \in Sockets : wire'[w] = "none" => route'[w] = "none"
  BY <1>2 DEF Quiet, Sways, GatewayType
<1>3. ASSUME NEW w \in Sockets, Joins(w)
      PROVE  /\ wire' \in [Sockets -> Wires] /\ route' \in [Sockets -> Routes]
             /\ connected' \subseteq Sockets /\ received' \in [Sockets -> Seq(ChatEvents)]
             /\ \A v \in Sockets : wire'[v] = "none" => route'[v] = "none"
  <2>1. received[w] \o buffer.events \in Seq(ChatEvents)
    BY ConcatProperties DEF GatewayType
  <2>2. received' \in [Sockets -> Seq(ChatEvents)]
    BY <1>3, <2>1 DEF Joins, GatewayType
  <2>3. QED
    BY <1>3, <2>2 DEF Joins, GatewayType
<1>4. ASSUME Handled
      PROVE  /\ run' \in [Runs -> Phases] /\ emitted' \in [Runs -> 0 .. MaxEvents]
             /\ buffer' \in [run : Runs \cup {None}, events : Seq(ChatEvents)]
             /\ refused' \subseteq Runs
  <2>1. NoBuffer \in [run : Runs \cup {None}, events : Seq(ChatEvents)] /\ Active \subseteq Runs
    BY DEF NoBuffer, Active
  <2>2. CASE Refuses \/ Rests
    BY <2>1, <2>2 DEF Refuses, Rests, GatewayType
  <2>3. CASE \E r \in Runs : Starts(r)
    BY <2>3 DEF Starts, Phases, GatewayType
  <2>4. QED
    BY <1>4, <2>2, <2>3 DEF Handled
<1>5. ASSUME NEW r \in Runs, Ends(r)
      PROVE  /\ run' \in [Runs -> Phases] /\ emitted' \in [Runs -> 0 .. MaxEvents]
             /\ buffer' \in [run : Runs \cup {None}, events : Seq(ChatEvents)]
             /\ refused' \subseteq Runs
  BY <1>5 DEF Ends, NoBuffer, Phases, GatewayType
<1>6. ASSUME NEW r \in Runs, Emits(r)
      PROVE  GatewayType'
  <2> DEFINE e == <<r, emitted[r] + 1>>
             kept == IF buffer.run = r THEN buffer.events ELSE <<>>
  <2>1. e \in ChatEvents
    BY <1>6 DEF Emits, ChatEvents, GatewayType
  <2>2. kept \in Seq(ChatEvents)
    BY DEF GatewayType
  <2> HIDE DEF e, kept
  <2>3. Append(kept, e) \in Seq(ChatEvents)
    BY <2>1, <2>2
  <2>4. buffer' = [run |-> r, events |-> IF Len(kept) < MaxReplay THEN Append(kept, e) ELSE kept]
    BY <1>6 DEF Emits, Keep, kept, e
  <2>5. buffer' \in [run : Runs \cup {None}, events : Seq(ChatEvents)]
    BY <2>2, <2>3, <2>4
  <2>6. \A w \in Sockets : Append(received[w], e) \in Seq(ChatEvents)
    BY <2>1 DEF GatewayType
  <2>7. /\ received' = [w \in Sockets |-> IF w \in connected /\ wire[w] = "open"
                                         THEN Append(received[w], e) ELSE received[w]]
        /\ connected' = {w \in connected : wire[w] = "open"}
    BY <1>6 DEF Emits, Broadcast, e
  <2>8. received' \in [Sockets -> Seq(ChatEvents)] /\ connected' \subseteq Sockets
    BY <2>6, <2>7 DEF GatewayType
  <2>9. run' \in [Runs -> Phases] /\ emitted' \in [Runs -> 0 .. MaxEvents]
    BY <1>6 DEF Emits, Phases, GatewayType
  <2>10. QED
    BY <1>1, <1>6, <2>5, <2>8, <2>9 DEF Emits, QueueType, GatewayType
<1>7. CASE (Quiet \/ \E w \in Sockets : Joins(w)) /\ (Handled \/ \E r \in Runs : Ends(r))
  BY <1>1, <1>2, <1>3, <1>4, <1>5, <1>7 DEF QueueType, GatewayType
<1>8. QED
  BY <1>6, <1>7, StepShape DEF Shape

-----------------------------------------------------------------------------
(* The subscription *)

(* The sockets that hold the channel and the last command on its way agree, *)
(* whichever way the channel moves.                                        *)
LEMMA SubscriptionStep ==
    ASSUME GatewayType, SubscriptionFollowsSockets, Channel
    PROVE  SubscriptionFollowsSockets'
<1>1. Len(commands) \in Nat /\ commands \in Seq(Commands) /\ refCount \in Nat
  BY CommandSockets DEF GatewayType
<1>2. CASE UNCHANGED <<refCount, commands, subscribed>> \/ Counts
  <2>1. Settled' = Settled
    BY <1>2 DEF Settled, Counts
  <2>2. QED
    BY <1>1, <1>2, <2>1 DEF SubscriptionFollowsSockets, Counts, Channel
<1>3. ASSUME NEW c \in Commands, commands' = Append(commands, c)
      PROVE  Settled' <=> c.cmd = "subscribe"
  <2>1. /\ Len(commands') = Len(commands) + 1 /\ commands'[Len(commands) + 1] = c
        /\ commands' # <<>>
    BY <1>1, <1>3
  <2>2. QED
    BY <2>1 DEF Settled
<1>4. CASE \E w \in Sockets : Asks(w)
  <2>1. PICK w \in Sockets : Asks(w)
    BY <1>4
  <2>2. [cmd |-> "subscribe", socket |-> w] \in Commands
    BY DEF Commands
  <2>3. Settled'
    BY <1>3, <2>1, <2>2 DEF Asks
  <2>4. QED
    BY <2>1, <2>3 DEF SubscriptionFollowsSockets, Asks
<1>5. CASE \E w \in Sockets : LetsGo(w)
  <2>1. PICK w \in Sockets : LetsGo(w)
    BY <1>5
  <2>2. CASE refCount = 1
    <3>1. [cmd |-> "unsubscribe", socket |-> w] \in Commands
      BY DEF Commands
    <3>2. ~Settled' /\ refCount' = 0
      BY <1>3, <2>1, <2>2, <3>1 DEF LetsGo, Release
    <3>3. QED
      BY <3>2 DEF SubscriptionFollowsSockets
  <2>3. CASE refCount # 1
    <3>1. Settled' = Settled /\ (refCount > 0 <=> refCount' > 0)
      BY <1>1, <2>1, <2>3 DEF LetsGo, Release, Settled
    <3>2. QED
      BY <3>1 DEF SubscriptionFollowsSockets, Channel
  <2>4. QED
    BY <2>2, <2>3
<1>6. CASE Answers \/ Fails
  <2>1. /\ commands # <<>> /\ commands' = Tail(commands) /\ refCount' = refCount
    BY <1>6 DEF Answers, Fails
  <2>2. /\ Len(commands) \in Nat \ {0} /\ Head(commands) = commands[1]
        /\ Len(Tail(commands)) = Len(commands) - 1
        /\ \A i \in 1 .. Len(commands) - 1 : Tail(commands)[i] = commands[i + 1]
        /\ Tail(commands) \in Seq(Commands)
    BY <1>1, <2>1
  <2>3. Tail(commands) = <<>> <=> Len(commands) = 1
    <3>1. \A s \in Seq(Commands) : s = <<>> <=> Len(s) = 0
      BY EmptySeq
    <3>2. Tail(commands) = <<>> <=> Len(Tail(commands)) = 0
      BY <2>2, <3>1, Zenon
    <3>3. QED
      BY <2>2, <3>2
  <2>4. CASE Len(commands) # 1
    <3>1. Settled' = Settled
      BY <2>1, <2>2, <2>3, <2>4 DEF Settled
    <3>2. QED
      BY <2>1, <3>1 DEF SubscriptionFollowsSockets, Channel
  <2>5. CASE Len(commands) = 1
    <3>1. Settled = (commands[1].cmd = "subscribe") /\ Settled' = subscribed'
      BY <2>1, <2>2, <2>3, <2>5 DEF Settled
    <3>2. CASE Answers
      <4>1. Settled' = Settled
        BY <2>2, <3>1, <3>2 DEF Answers
      <4>2. QED
        BY <2>1, <4>1 DEF SubscriptionFollowsSockets, Channel
    <3>3. CASE Fails
      BY <2>1, <2>2, <3>1, <3>3 DEF Fails, SubscriptionFollowsSockets, Channel
    <3>4. QED
      BY <1>6, <3>2, <3>3
  <2>6. QED
    BY <2>4, <2>5
<1>7. QED
  BY <1>2, <1>4, <1>5, <1>6 DEF Channel

-----------------------------------------------------------------------------
(* Runs, buffer and deliveries *)

(* start() keeps to one run at a time, and a run streams from its first    *)
(* event on.                                                               *)
RunsInv ==
    /\ \A q, r \in Active : q = r
    /\ \A r \in Runs : run[r] \in {"idle", "setup"} => emitted[r] = 0

(* The buffer is the live run's; unless a send was refused, it holds the   *)
(* run's first events up to the limit.                                     *)
BufferInv ==
    LET b == buffer.run  ev == buffer.events IN
    /\ b = None => ev = <<>>
    /\ b # None =>
          /\ run[b] = "live"
          /\ Len(ev) <= emitted[b]
          /\ \A i \in 1 .. Len(ev) : ev[i][1] = b /\ ev[i][2] <= emitted[b]
          /\ \A i, j \in 1 .. Len(ev) : i < j => ev[i][2] < ev[j][2]
          /\ b \notin refused =>
                /\ \A i \in 1 .. Len(ev) : ev[i][2] = i
                /\ \A n \in 1 .. emitted[b] : n <= MaxReplay => n <= Len(ev)
    /\ \A r \in Runs : run[r] = "live" /\ r \notin refused => b = r

Sent(w, r, n) == \E i \in 1 .. Len(received[w]) : received[w][i] = <<r, n>>

(* A socket that is not registered yet was sent nothing; nobody was sent   *)
(* what was not emitted; and a connected socket is up to date.             *)
SentInv ==
    /\ \A w \in Sockets : Fresh(w) => received[w] = <<>> /\ w \notin connected
    /\ \A w \in Sockets : \A i \in 1 .. Len(received[w]) :
          received[w][i][2] <= emitted[received[w][i][1]]
    /\ \A w \in connected, r \in Active \ refused :
          wire[w] = "open" =>
              \A n \in 1 .. emitted[r] : n <= MaxReplay => Sent(w, r, n)

DeliveryInv == RunsInv /\ BufferInv /\ SentInv /\ DeliveredInOrder /\ ReplayCompletes

LEMMA EventParts ==
    /\ \A e \in ChatEvents : e[1] \in Runs /\ e[2] \in 1 .. MaxEvents /\ e = <<e[1], e[2]>>
    /\ \A s \in Seq(ChatEvents) : Len(s) \in Nat /\ \A i \in 1 .. Len(s) : s[i] \in ChatEvents
BY DEF ChatEvents

(* What is owed to the connected sockets only grows with an event. *)
LEMMA Owed ==
    ASSUME GatewayType, RunsInv, Handled \/ \E r \in Runs : Ends(r)
    PROVE  /\ emitted' = emitted /\ refused \subseteq refused' /\ RunsInv'
           /\ \A r \in Active' \ refused' : emitted[r] = 0 \/ r \in Active \ refused
<1> USE DEF GatewayType, RunsInv, Active, Phases
<1>1. CASE \E r \in Runs : Starts(r)
  BY <1>1 DEF Starts
<1>2. CASE Refuses
  BY <1>2 DEF Refuses
<1>3. CASE Rests
  BY <1>3 DEF Rests
<1>4. CASE \E r \in Runs : Ends(r)
  BY <1>4 DEF Ends
<1>5. QED
  BY <1>1, <1>2, <1>3, <1>4 DEF Handled

LEMMA EmitsRuns ==
    ASSUME GatewayType, RunsInv, NEW r \in Runs, Emits(r)
    PROVE  RunsInv' /\ Active' = Active /\ Active = {r}
<1>1. Active' = Active /\ Active = {r}
  BY DEF Emits, RunsInv, Active, GatewayType
<1>2. QED
  BY <1>1 DEF Emits, RunsInv, Active, GatewayType, Phases

LEMMA EmptyBuffer ==
    ASSUME buffer' = NoBuffer, \A r \in Runs : run'[r] = "live" => r \in refused'
    PROVE  BufferInv'
BY DEF BufferInv, NoBuffer

LEMMA HandledBuffer ==
    ASSUME GatewayType, RunsInv, BufferInv, Handled
    PROVE  BufferInv'
<1>1. CASE \E r \in Runs : Starts(r)
  <2>1. PICK r \in Runs : Starts(r)
    BY <1>1
  <2>2. \A q \in Runs : run'[q] = "live" <=> run[q] = "live"
    BY <2>1 DEF Starts, GatewayType
  <2>3. buffer.run # None => run'[buffer.run] = "live"
    BY <2>2 DEF BufferInv, GatewayType
  <2>4. UNCHANGED <<emitted, buffer, refused>>
    BY <2>1 DEF Starts
  <2>5. QED
    BY <2>2, <2>3, <2>4 DEF BufferInv
<1>2. CASE Refuses
  <2>1. \A r \in Runs : run'[r] = "live" => r \in refused'
    BY <1>2 DEF Refuses, Active
  <2>2. QED
    BY <1>2, <2>1, EmptyBuffer DEF Refuses
<1>3. CASE Rests
  BY <1>3 DEF Rests, BufferInv
<1>4. QED
  BY <1>1, <1>2, <1>3 DEF Handled

LEMMA EndsBuffer ==
    ASSUME GatewayType, RunsInv, BufferInv, NEW r \in Runs, Ends(r)
    PROVE  BufferInv'
<1>1. \A q \in Runs : run'[q] # "live"
  BY DEF Ends, RunsInv, Active, GatewayType
<1>2. QED
  BY <1>1, EmptyBuffer DEF Ends

LEMMA EmitsBuffer ==
    ASSUME GatewayType, RunsInv, BufferInv, NEW r \in Runs, Emits(r)
    PROVE  BufferInv'
<1> DEFINE e == <<r, emitted[r] + 1>>
           kept == IF buffer.run = r THEN buffer.events ELSE <<>>
           ev == IF Len(kept) < MaxReplay THEN Append(kept, e) ELSE kept
<1>1. /\ r \in Active /\ emitted[r] \in Nat
      /\ run' = [run EXCEPT ![r] = "live"] /\ emitted' = [emitted EXCEPT ![r] = @ + 1]
      /\ refused' = refused /\ buffer' = [run |-> r, events |-> ev]
  BY DEF Emits, Keep, GatewayType
<1>2. e \in ChatEvents /\ e[1] = r /\ e[2] = emitted[r] + 1
  BY DEF Emits, ChatEvents, GatewayType
<1>3. kept \in Seq(ChatEvents)
  BY DEF GatewayType
<1>4. /\ Len(kept) <= emitted[r]
      /\ \A i \in 1 .. Len(kept) : kept[i][1] = r /\ kept[i][2] <= emitted[r]
      /\ \A i, j \in 1 .. Len(kept) : i < j => kept[i][2] < kept[j][2]
  <2>1. CASE buffer.run = r
    BY <2>1 DEF BufferInv
  <2>2. CASE buffer.run # r
    BY <1>1, <2>2
  <2>3. QED
    BY <2>1, <2>2
<1>5. ASSUME r \notin refused
      PROVE  /\ \A i \in 1 .. Len(kept) : kept[i][2] = i
             /\ \A n \in 1 .. emitted[r] : n <= MaxReplay => n <= Len(kept)
  <2>1. CASE buffer.run = r
    BY <1>5, <2>1 DEF BufferInv
  <2>2. CASE buffer.run # r
    <3>1. run[r] = "setup"
      BY <1>1, <1>5, <2>2 DEF BufferInv, Active
    <3>2. emitted[r] = 0
      BY <3>1 DEF RunsInv
    <3>3. QED
      BY <2>2, <3>2
  <2>3. QED
    BY <2>1, <2>2
<1> HIDE DEF kept
<1>6. \A i \in 1 .. Len(kept) : kept[i] \in ChatEvents /\ kept[i][2] \in Nat
  BY <1>3, EventParts
<1> HIDE DEF e
<1>7. /\ ev \in Seq(ChatEvents) /\ Len(kept) \in Nat
      /\ Len(kept) < MaxReplay => /\ Len(ev) = Len(kept) + 1 /\ ev[Len(kept) + 1] = e
                                  /\ \A i \in 1 .. Len(kept) : ev[i] = kept[i]
      /\ ~(Len(kept) < MaxReplay) => ev = kept
  BY <1>2, <1>3
<1> HIDE DEF ev
<1>8. CASE Len(kept) < MaxReplay
  <2>1. \A i \in 1 .. Len(ev) : i \in 1 .. Len(kept) \/ i = Len(kept) + 1
    BY <1>7, <1>8
  <2>2. Len(ev) <= emitted[r] + 1
    BY <1>1, <1>4, <1>7, <1>8
  <2>3. \A i \in 1 .. Len(ev) : ev[i][1] = r /\ ev[i][2] <= emitted[r] + 1
    BY <1>1, <1>2, <1>4, <1>6, <1>7, <1>8, <2>1
  <2>4. \A i, j \in 1 .. Len(ev) : i < j => ev[i][2] < ev[j][2]
    BY <1>1, <1>2, <1>4, <1>6, <1>7, <1>8, <2>1
  <2>5. ASSUME r \notin refused
        PROVE  /\ \A i \in 1 .. Len(ev) : ev[i][2] = i
               /\ \A n \in 1 .. emitted[r] + 1 : n <= MaxReplay => n <= Len(ev)
    <3>1. \A n \in 1 .. emitted[r] : n <= MaxReplay => n <= Len(kept)
      BY <1>5, <2>5
    <3>2. MaxReplay \in Nat \ {0} /\ MaxReplay > Len(kept)
      BY <1>7, <1>8
    <3>3. emitted[r] < MaxReplay
      BY <1>1, <1>7, <3>1, <3>2
    <3>4. emitted[r] # 0 => emitted[r] <= Len(kept)
      BY <1>1, <3>1, <3>3
    <3>5. Len(kept) = emitted[r]
      BY <1>1, <1>4, <1>7, <3>4
    <3>6. \A i \in 1 .. Len(kept) : kept[i][2] = i
      BY <1>5, <2>5
    <3>7. \A i \in 1 .. Len(ev) : ev[i][2] = i
      BY <1>1, <1>2, <1>7, <1>8, <2>1, <3>5, <3>6
    <3>8. QED
      BY <1>1, <1>7, <1>8, <3>5, <3>7
  <2>6. QED
    BY <1>1, <2>2, <2>3, <2>4, <2>5, EmitsRuns DEF BufferInv, GatewayType, Active
<1>9. CASE ~(Len(kept) < MaxReplay)
  <2>1. ev = kept
    BY <1>7, <1>9
  <2>2. Len(ev) <= emitted[r] + 1
    BY <1>1, <1>4, <1>7, <2>1
  <2>3. \A i \in 1 .. Len(ev) : ev[i][1] = r /\ ev[i][2] <= emitted[r] + 1
    BY <1>1, <1>4, <1>6, <2>1
  <2>4. \A i, j \in 1 .. Len(ev) : i < j => ev[i][2] < ev[j][2]
    BY <1>4, <2>1
  <2>5. ASSUME r \notin refused
        PROVE  /\ \A i \in 1 .. Len(ev) : ev[i][2] = i
               /\ \A n \in 1 .. emitted[r] + 1 : n <= MaxReplay => n <= Len(ev)
    BY <1>1, <1>5, <1>7, <1>9, <2>1, <2>5
  <2>6. QED
    BY <1>1, <2>2, <2>3, <2>4, <2>5, EmitsRuns DEF BufferInv, GatewayType, Active
<1>10. QED
  BY <1>8, <1>9

LEMMA QuietSent ==
    ASSUME GatewayType, DeliveryInv, Quiet, Handled \/ \E r \in Runs : Ends(r)
    PROVE  SentInv' /\ DeliveredInOrder' /\ ReplayCompletes'
<1>1. /\ emitted' = emitted /\ refused \subseteq refused' /\ received' = received
      /\ \A r \in Active' \ refused' : emitted[r] = 0 \/ r \in Active \ refused
  BY Owed DEF DeliveryInv, Quiet
<1>2. \A w \in Sockets : Fresh(w)' => received'[w] = <<>> /\ w \notin connected'
  BY <1>1 DEF DeliveryInv, SentInv, Quiet
<1>3. \A w \in Sockets : \A i \in 1 .. Len(received'[w]) :
          received'[w][i][2] <= emitted'[received'[w][i][1]]
  BY <1>1 DEF DeliveryInv, SentInv
<1>4. ASSUME NEW w \in connected', NEW r \in Active' \ refused', wire'[w] = "open",
             NEW n \in 1 .. emitted'[r], n <= MaxReplay
      PROVE  Sent(w, r, n)'
  <2>1. w \in connected /\ wire[w] = "open"
    BY <1>4 DEF Quiet, Sways, DeliveryInv, SentInv, GatewayType
  <2>2. r \in Active \ refused /\ n \in 1 .. emitted[r]
    BY <1>1
  <2>3. Sent(w, r, n)
    BY <1>4, <2>1, <2>2 DEF DeliveryInv, SentInv
  <2>4. QED
    BY <1>1, <2>3 DEF Sent
<1>5. SentInv'
  BY <1>2, <1>3, <1>4 DEF SentInv
<1>6. DeliveredInOrder'
  BY <1>1 DEF DeliveryInv, DeliveredInOrder
<1>7. ReplayCompletes'
  BY <1>1 DEF DeliveryInv, ReplayCompletes, Gapless
<1>8. QED
  BY <1>5, <1>6, <1>7

(* What the joining socket w has been sent is the buffer, if anything. *)
LEMMA JoinsSent ==
    ASSUME GatewayType, DeliveryInv, NEW w \in Sockets, Joins(w), Handled
    PROVE  SentInv' /\ DeliveredInOrder' /\ ReplayCompletes'
<1>1. /\ emitted' = emitted /\ refused \subseteq refused' /\ wire' = wire
      /\ \A r \in Active' \ refused' : emitted[r] = 0 \/ r \in Active \ refused
  BY Owed DEF DeliveryInv, Joins
<1> DEFINE ev == buffer.events
           b == buffer.run
<1>2. /\ received'[w] = IF wire[w] = "open" THEN ev ELSE <<>>
      /\ \A v \in Sockets \ {w} : received'[v] = received[v]
  <2>1. received[w] = <<>> /\ <<>> \o ev = ev
    BY DEF Joins, Fresh, DeliveryInv, SentInv, GatewayType
  <2>2. QED
    BY <2>1 DEF Joins, GatewayType
<1>3. /\ ev \in Seq(ChatEvents) /\ b \in Runs \cup {None}
      /\ Len(ev) \in Nat /\ \A i \in 1 .. Len(ev) : ev[i] \in ChatEvents
  BY EventParts DEF GatewayType
<1>4. b = None => ev = <<>>
  BY DEF DeliveryInv, BufferInv
<1>5. b # None =>
          /\ \A i \in 1 .. Len(ev) : ev[i][1] = b /\ ev[i][2] <= emitted[b]
          /\ \A i, j \in 1 .. Len(ev) : i < j => ev[i][2] < ev[j][2]
          /\ b \notin refused =>
                /\ \A i \in 1 .. Len(ev) : ev[i][2] = i
                /\ \A n \in 1 .. emitted[b] : n <= MaxReplay => n <= Len(ev)
  BY DEF DeliveryInv, BufferInv
<1>6. \A r \in Active \ refused : emitted[r] # 0 => b = r
  BY DEF DeliveryInv, BufferInv, RunsInv, Active
<1> HIDE DEF ev, b
<1>7. \A i \in 1 .. Len(ev) : b # None /\ ev[i] = <<b, ev[i][2]>>
  BY <1>3, <1>4, <1>5, EventParts
<1>8. SentInv'
  <2>1. \A v \in Sockets : Fresh(v)' => received'[v] = <<>> /\ v \notin connected'
    BY <1>2 DEF DeliveryInv, SentInv, Joins
  <2>2. \A v \in Sockets : \A i \in 1 .. Len(received'[v]) :
            received'[v][i][2] <= emitted'[received'[v][i][1]]
    <3>1. \A i \in 1 .. Len(received'[w]) : received'[w][i][2] <= emitted'[received'[w][i][1]]
      BY <1>1, <1>2, <1>5, <1>7
    <3>2. QED
      BY <1>1, <1>2, <3>1 DEF DeliveryInv, SentInv
  <2>3. ASSUME NEW v \in connected', NEW r \in Active' \ refused', wire'[v] = "open",
               NEW n \in 1 .. emitted'[r], n <= MaxReplay
        PROVE  Sent(v, r, n)'
    <3>1. r \in Active \ refused /\ n \in 1 .. emitted[r] /\ emitted[r] # 0 /\ r \in Runs
      BY <1>1 DEF GatewayType, Active
    <3>2. CASE v = w
      <4>1. b = r /\ b # None /\ b \notin refused
        BY <1>6, <3>1
      <4>2. n \in 1 .. Len(ev) /\ ev[n] = <<r, n>>
        BY <1>3, <1>5, <1>7, <2>3, <3>1, <4>1 DEF GatewayType
      <4>3. received'[w] = ev
        BY <1>1, <1>2, <2>3, <3>2
      <4>4. QED
        BY <3>2, <4>2, <4>3 DEF Sent
    <3>3. CASE v # w
      <4>1. v \in connected /\ wire[v] = "open" /\ received'[v] = received[v]
        BY <1>1, <1>2, <2>3, <3>3 DEF Joins, GatewayType
      <4>2. Sent(v, r, n)
        BY <2>3, <3>1, <4>1 DEF DeliveryInv, SentInv
      <4>3. QED
        BY <4>1, <4>2 DEF Sent
    <3>4. QED
      BY <3>2, <3>3
  <2>4. QED
    BY <2>1, <2>2, <2>3 DEF SentInv
<1>9. DeliveredInOrder'
  <2>1. \A v \in Sockets : received'[v] = received[v] \/ received'[v] \in {ev, <<>>}
    BY <1>2
  <2>2. \A i, j \in DOMAIN ev : i < j => ev[i][2] < ev[j][2]
    BY <1>3, <1>5, <1>7
  <2>3. QED
    BY <2>1, <2>2 DEF DeliveryInv, DeliveredInOrder
<1>10. ReplayCompletes'
  <2>1. SUFFICES ASSUME NEW v \in Sockets, NEW r \in Runs, r \notin refused',
                        NEW i \in DOMAIN received'[v], received'[v][i][1] = r,
                        NEW n \in 1 .. received'[v][i][2], n <= MaxReplay
                 PROVE  \E j \in 1 .. i : received'[v][j] = <<r, n>>
    BY DEF ReplayCompletes, Gapless
  <2>2. CASE received'[v] = received[v]
    BY <1>1, <2>1, <2>2 DEF DeliveryInv, ReplayCompletes, Gapless
  <2>3. CASE received'[v] = ev
    <3>1. i \in 1 .. Len(ev) /\ b = r /\ b # None /\ b \notin refused
      BY <1>1, <1>3, <1>5, <1>7, <2>1, <2>3
    <3>2. n \in 1 .. i /\ n \in 1 .. Len(ev)
      BY <1>3, <1>5, <2>1, <2>3, <3>1
    <3>3. ev[n] = <<r, n>>
      BY <1>5, <1>7, <3>1, <3>2
    <3>4. QED
      BY <2>3, <3>2, <3>3
  <2>4. CASE received'[v] = <<>>
    BY <2>1, <2>4
  <2>5. QED
    BY <1>2, <2>2, <2>3, <2>4
<1>11. QED
  BY <1>8, <1>9, <1>10

LEMMA EmitsSent ==
    ASSUME GatewayType, DeliveryInv, NEW r \in Runs, Emits(r)
    PROVE  SentInv' /\ DeliveredInOrder' /\ ReplayCompletes'
<1> DEFINE e == <<r, emitted[r] + 1>>
           Hears(v) == v \in connected /\ wire[v] = "open"
<1>1. /\ emitted' = [emitted EXCEPT ![r] = @ + 1] /\ UNCHANGED <<wire, route, refused>>
      /\ connected' = {v \in connected : wire[v] = "open"}
      /\ received' = [v \in Sockets |-> IF Hears(v) THEN Append(received[v], e) ELSE received[v]]
  BY DEF Emits, Broadcast
<1>2. e \in ChatEvents /\ e[1] = r /\ e[2] = emitted[r] + 1 /\ emitted[r] \in Nat
  BY DEF Emits, ChatEvents, GatewayType
<1>3. Active' = Active /\ Active = {r}
  BY EmitsRuns DEF DeliveryInv
<1> HIDE DEF e
<1>4. \A v \in Sockets :
          /\ received[v] \in Seq(ChatEvents) /\ Len(received[v]) \in Nat
          /\ \A i \in 1 .. Len(received[v]) : received[v][i] \in ChatEvents
                                              /\ received[v][i][1] \in Runs
                                              /\ received[v][i][2] \in Nat
                                              /\ received[v][i][2] <= emitted[received[v][i][1]]
  BY EventParts DEF GatewayType, DeliveryInv, SentInv
<1>5. ASSUME NEW v \in Sockets, Hears(v)
      PROVE  /\ Len(received'[v]) = Len(received[v]) + 1
             /\ received'[v][Len(received[v]) + 1] = e
             /\ \A i \in 1 .. Len(received[v]) : received'[v][i] = received[v][i]
             /\ DOMAIN received'[v] = 1 .. Len(received[v]) + 1
  BY <1>1, <1>2, <1>4, <1>5
<1>6. \A v \in Sockets : ~Hears(v) => received'[v] = received[v]
  BY <1>1
<1> HIDE DEF Hears
<1>7. \A q \in Runs : emitted[q] \in Nat /\ emitted'[q] \in Nat /\ emitted[q] <= emitted'[q]
                      /\ emitted'[q] = IF q = r THEN emitted[r] + 1 ELSE emitted[q]
  BY <1>1 DEF GatewayType
<1>8. SentInv'
  <2>1. \A v \in Sockets : Fresh(v)' => received'[v] = <<>> /\ v \notin connected'
    BY <1>1 DEF DeliveryInv, SentInv, Fresh, Hears
  <2>2. ASSUME NEW v \in Sockets, NEW i \in 1 .. Len(received'[v])
        PROVE  received'[v][i][2] <= emitted'[received'[v][i][1]]
    <3>1. CASE ~Hears(v) \/ i \in 1 .. Len(received[v])
      <4>1. i \in 1 .. Len(received[v]) /\ received'[v][i] = received[v][i]
        BY <1>5, <1>6, <2>2, <3>1
      <4>2. QED
        BY <1>4, <1>7, <4>1
    <3>2. CASE Hears(v) /\ i = Len(received[v]) + 1
      BY <1>2, <1>5, <1>7, <3>2
    <3>3. QED
      BY <1>4, <1>5, <2>2, <3>1, <3>2
  <2>3. ASSUME NEW v \in connected', NEW q \in Active' \ refused', wire'[v] = "open",
               NEW n \in 1 .. emitted'[q], n <= MaxReplay
        PROVE  Sent(v, q, n)'
    <3>1. q = r /\ v \in Sockets /\ Hears(v) /\ q \in Active \ refused /\ v \in connected
          /\ wire[v] = "open"
      BY <1>1, <1>3, <2>3 DEF Hears, GatewayType
    <3>2. CASE n \in 1 .. emitted[r]
      <4>1. Sent(v, q, n)
        BY <2>3, <3>1, <3>2 DEF DeliveryInv, SentInv
      <4>2. QED
        BY <1>4, <1>5, <3>1, <4>1 DEF Sent
    <3>3. CASE n = emitted[r] + 1
      <4>1. e = <<q, n>>
        BY <3>1, <3>3 DEF e
      <4>2. Len(received[v]) + 1 \in 1 .. Len(received'[v])
        BY <1>4, <1>5, <3>1
      <4>3. QED
        BY <1>5, <3>1, <4>1, <4>2 DEF Sent
    <3>4. QED
      BY <1>7, <2>3, <3>1, <3>2, <3>3
  <2>4. QED
    BY <2>1, <2>2, <2>3 DEF SentInv
<1>9. DeliveredInOrder'
  <2>1. SUFFICES ASSUME NEW v \in Sockets, NEW i \in DOMAIN received'[v],
                        NEW j \in DOMAIN received'[v], i < j,
                        received'[v][i][1] = received'[v][j][1]
                 PROVE  received'[v][i][2] < received'[v][j][2]
    BY DEF DeliveredInOrder
  <2>2. CASE ~Hears(v)
    BY <1>6, <2>1, <2>2 DEF DeliveryInv, DeliveredInOrder
  <2>3. CASE Hears(v) /\ j # Len(received[v]) + 1
    <3>1. i \in DOMAIN received[v] /\ j \in DOMAIN received[v]
          /\ received'[v][i] = received[v][i] /\ received'[v][j] = received[v][j]
      BY <1>4, <1>5, <2>1, <2>3
    <3>2. QED
      BY <2>1, <3>1 DEF DeliveryInv, DeliveredInOrder
  <2>4. CASE Hears(v) /\ j = Len(received[v]) + 1
    <3>1. i \in 1 .. Len(received[v]) /\ received'[v][i] = received[v][i] /\ received'[v][j] = e
      BY <1>4, <1>5, <2>1, <2>4
    <3>2. QED
      BY <1>2, <1>4, <2>1, <3>1
  <2>5. QED
    BY <2>2, <2>3, <2>4
<1>10. ReplayCompletes'
  <2>1. SUFFICES ASSUME NEW v \in Sockets, NEW q \in Runs, q \notin refused',
                        NEW i \in DOMAIN received'[v], received'[v][i][1] = q,
                        NEW n \in 1 .. received'[v][i][2], n <= MaxReplay
                 PROVE  \E j \in 1 .. i : received'[v][j] = <<q, n>>
    BY DEF ReplayCompletes, Gapless
  <2>2. CASE ~Hears(v) \/ i # Len(received[v]) + 1
    <3>1. i \in DOMAIN received[v] /\ i \in 1 .. Len(received[v])
          /\ received'[v][i] = received[v][i]
      BY <1>4, <1>5, <1>6, <2>1, <2>2
    <3>2. PICK j \in 1 .. i : received[v][j] = <<q, n>>
      <4>1. Gapless(v, q) /\ received[v][i][1] = q /\ n \in 1 .. received[v][i][2]
        BY <1>1, <2>1, <3>1 DEF DeliveryInv, ReplayCompletes
      <4>2. QED
        BY <2>1, <3>1, <4>1, Zenon DEF Gapless
    <3>3. received'[v][j] = received[v][j]
      BY <1>4, <1>5, <1>6, <3>1
    <3>4. QED
      BY <3>2, <3>3
  <2>3. CASE Hears(v) /\ i = Len(received[v]) + 1
    <3>1. q = r /\ n \in 1 .. emitted[r] + 1 /\ r \notin refused
      BY <1>1, <1>2, <1>5, <2>1, <2>3
    <3>2. CASE n = emitted[r] + 1
      <4>1. e = <<q, n>>
        BY <3>1, <3>2 DEF e
      <4>2. i \in 1 .. i /\ received'[v][i] = e
        BY <1>4, <1>5, <2>3
      <4>3. QED
        BY <4>1, <4>2
    <3>3. CASE n \in 1 .. emitted[r]
      <4>1. Sent(v, r, n)
        BY <1>3, <2>1, <2>3, <3>1, <3>3 DEF DeliveryInv, SentInv, Hears
      <4>2. PICK j \in 1 .. Len(received[v]) : received[v][j] = <<r, n>>
        BY <4>1 DEF Sent
      <4>3. j \in 1 .. i /\ received'[v][j] = <<r, n>>
        BY <1>4, <1>5, <2>3, <4>2
      <4>4. QED
        BY <3>1, <4>3
    <3>4. QED
      BY <1>2, <3>1, <3>2, <3>3
  <2>4. QED
    BY <2>2, <2>3
<1>11. QED
  BY <1>8, <1>9, <1>10

-----------------------------------------------------------------------------
(* The theorems *)

GatewayInv == GatewayType /\ SubscriptionFollowsSockets /\ DeliveryInv

LEMMA GatewayInit == Init => GatewayInv
<1>1. SUFFICES ASSUME Init PROVE GatewayInv
  OBVIOUS
<1>2. GatewayType
  <2>1. Queued /\ commands \in Seq(Commands)
    BY <1>1 DEF Init, Queued, Subscribes
  <2>2. buffer \in [run : Runs \cup {None}, events : Seq(ChatEvents)]
    BY <1>1 DEF Init, NoBuffer
  <2>3. QED
    BY <1>1, <2>1, <2>2 DEF Init, GatewayType, Wires, Routes, Phases
<1>3. SubscriptionFollowsSockets
  BY <1>1 DEF Init, SubscriptionFollowsSockets, Settled
<1>4. RunsInv /\ BufferInv
  BY <1>1 DEF Init, RunsInv, BufferInv, Active, NoBuffer
<1>5. SentInv /\ DeliveredInOrder /\ ReplayCompletes
  BY <1>1 DEF Init, SentInv, DeliveredInOrder, ReplayCompletes, Gapless
<1>6. QED
  BY <1>2, <1>3, <1>4, <1>5 DEF GatewayInv, DeliveryInv

LEMMA GatewayStep == GatewayInv /\ [Next]_vars => GatewayInv'
<1>1. SUFFICES ASSUME GatewayInv, [Next]_vars PROVE GatewayInv'
  OBVIOUS
<1>2. GatewayType /\ DeliveryInv /\ RunsInv /\ BufferInv /\ Shape /\ GatewayType'
  BY <1>1, StepShape, GatewayTypeStep DEF GatewayInv, DeliveryInv
<1>3. SubscriptionFollowsSockets'
  BY <1>1, StepChannel, SubscriptionStep DEF GatewayInv
<1>4. CASE Quiet /\ (Handled \/ \E r \in Runs : Ends(r))
  BY <1>2, <1>3, <1>4, QuietSent, Owed, HandledBuffer, EndsBuffer DEF GatewayInv, DeliveryInv
<1>5. CASE (\E w \in Sockets : Joins(w)) /\ Handled
  BY <1>2, <1>3, <1>5, JoinsSent, Owed, HandledBuffer DEF GatewayInv, DeliveryInv
<1>6. CASE \E r \in Runs : Emits(r)
  BY <1>2, <1>3, <1>6, EmitsSent, EmitsRuns, EmitsBuffer DEF GatewayInv, DeliveryInv
<1>7. QED
  BY <1>2, <1>4, <1>5, <1>6 DEF Shape

LEMMA GatewayAlways == Spec => []GatewayInv
<1>1. QED
  BY GatewayInit, GatewayStep, PTL DEF Spec

(* No socket is sent an event of a run twice or out of order, whatever     *)
(* joins, drops, refused sends and echoes of Redis come between.           *)
THEOREM DeliveredInOrderHolds == Spec => []DeliveredInOrder
<1>1. GatewayInv => DeliveredInOrder
  BY DEF GatewayInv, DeliveryInv
<1>2. QED
  BY <1>1, GatewayAlways, PTL

(* A socket that joins or rejoins a run gets all of it that fits into the  *)
(* replay buffer, unless a send was refused meanwhile.                     *)
THEOREM ReplayCompletesHolds == Spec => []ReplayCompletes
<1>1. GatewayInv => ReplayCompletes
  BY DEF GatewayInv, DeliveryInv
<1>2. QED
  BY <1>1, GatewayAlways, PTL

(* handleCancel, which finds the run through the replay buffer, finds the  *)
(* live run and never a finished one, unless a refused send dropped it.    *)
THEOREM CancelFindsRunHolds == Spec => []CancelFindsRun
<1>1. GatewayInv => CancelFindsRun
  BY DEF GatewayInv, DeliveryInv, BufferInv, CancelFindsRun, Active
<1>2. QED
  BY <1>1, GatewayAlways, PTL

(* Once Redis has answered its commands the channel is subscribed exactly  *)
(* while sockets hold it, for any number of overlapping acquires and       *)
(* releases; only a failed subscribe leaves holders without it.            *)
THEOREM SubscriptionFollowsSocketsHolds == Spec => []SubscriptionFollowsSockets
<1>1. GatewayInv => SubscriptionFollowsSockets
  BY DEF GatewayInv
<1>2. QED
  BY <1>1, GatewayAlways, PTL

=============================================================================
