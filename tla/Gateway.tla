------------------------------ MODULE Gateway ------------------------------
(***************************************************************************)
(* The gateway (packages/gateway) for one session: the /v1/stream route,   *)
(* the ConnectionManager, the ChannelRegistry over Redis, the heartbeat's  *)
(* grip on a socket and the SessionBridge with its replay buffer.          *)
(*                                                                         *)
(* Every map of the gateway is keyed by session and no handler looks at    *)
(* two sessions, so one session is modelled.  An action is the code        *)
(* between two awaits that wait for something.  The run execution service  *)
(* is seen through the two calls the bridge makes: start, which refuses    *)
(* while a run is in flight, emits events and settles, and requestCancel.  *)
(* Runs started over REST pass the bridge by and are left out.             *)
(***************************************************************************)
EXTENDS Integers, Sequences, FiniteSets

CONSTANTS Sockets,
          Runs,             \* bound: run ids start() may still mint
          None,
          MaxEvents,        \* bound: events a run emits
          MaxReplay         \* maxReplayBufferSize

ASSUME GatewayAssumption ==
    /\ IsFiniteSet(Sockets)
    /\ None \notin Runs
    /\ MaxEvents \in Nat \ {0}
    /\ MaxReplay \in Nat

VARIABLES
    wire,        \* readyState of each socket; "closed" once its close event fired
    route,       \* where the stream route stands for each socket; it ends in
                 \* "rejected" without a valid token, "failed" without a channel,
                 \* "released" when the close handler ran
    preAuth,     \* the frame waiting in preAuthBuffer (bound: one), or "none"
    connected,   \* ConnectionManager.sessions
    monitored,   \* HeartbeatManager.sockets
    redisActive, \* the configuration: redisEnabled and a url
    refCount,    \* ChannelRegistry.refs: 0 when there is no entry
    commands,    \* commands on the subscriber connection Redis has not answered
    subscribed,  \* Redis: the channel is subscribed
    echoes,      \* own publishes on their way back through the subscription
    run,         \* each run as start() sees it
    sender,      \* the socket whose send_message started the run
    emitted,     \* events a run emitted so far
    buffer,      \* replayBuffers: the run it belongs to and its events
    received,    \* the events each socket was sent, in order
    cancelled,   \* runs requestCancel was called for
    refused      \* history: runs during which a send was refused

socketVars == <<wire, route, preAuth, monitored>>
redisVars  == <<redisActive, refCount, commands, subscribed>>
runVars    == <<run, sender, emitted>>
vars == <<socketVars, connected, redisVars, echoes, runVars, buffer, received,
          cancelled, refused>>

Frames   == {"send", "cancel"}
ChatEvents == Runs \X (1 .. MaxEvents)
NoBuffer == [run |-> None, events |-> <<>>]
Active   == {r \in Runs : run[r] \in {"setup", "live"}}

TypeOK ==
    /\ wire \in [Sockets -> {"none", "open", "closing", "closed"}]
    /\ route \in [Sockets -> {"none", "auth", "acquire", "serving", "rejected", "failed",
                          "released"}]
    /\ preAuth \in [Sockets -> {"none"} \cup Frames]
    /\ connected \subseteq Sockets
    /\ monitored \subseteq Sockets
    /\ refCount \in 0 .. Cardinality(Sockets)
    /\ commands \in Seq([cmd : {"subscribe", "unsubscribe"}, socket : Sockets])
    /\ redisActive \in BOOLEAN /\ subscribed \in BOOLEAN
    /\ echoes \subseteq ChatEvents
    /\ run \in [Runs -> {"idle", "setup", "live", "ended"}]
    /\ sender \in [Runs -> Sockets \cup {None}]
    /\ emitted \in [Runs -> 0 .. MaxEvents]
    /\ buffer \in [run : Runs \cup {None}, events : Seq(ChatEvents)]
    /\ Len(buffer.events) <= MaxReplay
    /\ received \in [Sockets -> Seq(ChatEvents)]
    /\ cancelled \subseteq Runs
    /\ refused \subseteq Runs

Init ==
    /\ wire = [w \in Sockets |-> "none"]
    /\ route = [w \in Sockets |-> "none"]
    /\ preAuth = [w \in Sockets |-> "none"]
    /\ connected = {}
    /\ monitored = {}
    /\ refCount = 0
    /\ commands = <<>>
    /\ redisActive \in BOOLEAN
    /\ subscribed = FALSE
    /\ echoes = {}
    /\ run = [r \in Runs |-> "idle"]
    /\ sender = [r \in Runs |-> None]
    /\ emitted = [r \in Runs |-> 0]
    /\ buffer = NoBuffer
    /\ received = [w \in Sockets |-> <<>>]
    /\ cancelled = {}
    /\ refused = {}

-----------------------------------------------------------------------------
(* ConnectionManager *)

(* safeSend drops a socket that is not open. *)
Reachable(conn, w) == IF wire[w] = "open" THEN conn ELSE conn \ {w}

(* broadcast of one event to every connected socket *)
Broadcast(e) ==
    /\ received' = [w \in Sockets |-> IF w \in connected /\ wire[w] = "open"
                                      THEN Append(received[w], e) ELSE received[w]]
    /\ connected' = {w \in connected : wire[w] = "open"}

-----------------------------------------------------------------------------
(* SessionBridge: what a frame does.  Each takes the connections as the    *)
(* earlier part of the handler left them.                                  *)

(* handleSendMessage up to its first await: start() takes the session, or  *)
(* refuses; the refusal deletes the session's replay buffer and tells the  *)
(* sender only.                                                            *)
HandleSend(w, conn) ==
    \/ /\ Active = {}
       /\ \E r \in Runs :
             /\ run[r] = "idle"
             /\ run' = [run EXCEPT ![r] = "setup"]
             /\ sender' = [sender EXCEPT ![r] = w]
       /\ connected' = conn
       /\ UNCHANGED <<emitted, buffer, cancelled, refused>>
    \/ /\ Active # {}
       /\ buffer' = NoBuffer
       /\ connected' = Reachable(conn, w)
       /\ refused' = refused \cup Active
       /\ UNCHANGED <<runVars, cancelled>>

(* handleCancel finds the run through the replay buffer. *)
HandleCancel(conn) ==
    /\ connected' = conn
    /\ cancelled' = IF buffer.run # None THEN cancelled \cup {buffer.run} ELSE cancelled
    /\ UNCHANGED <<runVars, buffer, refused>>

(* handleInbound *)
HandleFrame(w, f, conn) ==
    \/ f = "send" /\ HandleSend(w, conn)
    \/ f = "cancel" /\ HandleCancel(conn)
    \/ /\ f = "none"
       /\ connected' = conn
       /\ UNCHANGED <<runVars, buffer, cancelled, refused>>

-----------------------------------------------------------------------------
(* The stream route *)

(* A socket with a token opens; its message listener is installed at once. *)
Connect(w) ==
    /\ wire[w] = "none"
    /\ wire' = [wire EXCEPT ![w] = "open"]
    /\ route' = [route EXCEPT ![w] = "auth"]
    /\ UNCHANGED <<preAuth, connected, monitored, redisVars, echoes, runVars, buffer,
                   received, cancelled, refused>>

(* A frame before the handler is installed waits in preAuthBuffer. *)
BufferFrame(w, f) ==
    /\ wire[w] = "open"
    /\ route[w] \in {"auth", "acquire"}
    /\ preAuth[w] = "none"
    /\ preAuth' = [preAuth EXCEPT ![w] = f]
    /\ UNCHANGED <<wire, route, connected, monitored, redisVars, echoes, runVars, buffer,
                   received, cancelled, refused>>

(* A frame on a served socket. *)
Inbound(w, f) ==
    /\ wire[w] = "open"
    /\ route[w] = "serving"
    /\ HandleFrame(w, f, connected)
    /\ UNCHANGED <<socketVars, redisVars, echoes, received>>

(* Install the handlers and flush the waiting frame. *)
Serve(w, conn) ==
    /\ route' = [route EXCEPT ![w] = "serving"]
    /\ preAuth' = [preAuth EXCEPT ![w] = "none"]
    /\ HandleFrame(w, preAuth[w], conn)

(* The catch of the route: the socket is closed, nothing is unregistered.  *)
Reject(w, label) ==
    /\ route' = [route EXCEPT ![w] = label]
    /\ preAuth' = [preAuth EXCEPT ![w] = "none"]
    /\ wire' = [wire EXCEPT ![w] = IF @ = "open" THEN "closing" ELSE @]

AuthFails(w) ==
    /\ route[w] = "auth"
    /\ Reject(w, "rejected")
    /\ UNCHANGED <<connected, monitored, redisVars, echoes, runVars, buffer, received,
                   cancelled, refused>>

(* channels.acquire: the first socket subscribes and waits, later ones     *)
(* only count; without Redis there is nothing to wait for.                 *)
Acquire(w, conn) ==
    \/ /\ redisActive /\ refCount = 0
       /\ refCount' = 1
       /\ commands' = Append(commands, [cmd |-> "subscribe", socket |-> w])
       /\ route' = [route EXCEPT ![w] = "acquire"]
       /\ connected' = conn
       /\ UNCHANGED <<preAuth, runVars, buffer, cancelled, refused>>
    \/ /\ redisActive /\ refCount > 0
       /\ refCount' = refCount + 1
       /\ Serve(w, conn)
       /\ UNCHANGED commands
    \/ /\ ~redisActive
       /\ Serve(w, conn)
       /\ UNCHANGED <<refCount, commands>>

(* Mutant: a replay empties the buffer. *)
AuthenticatedDrains(w) ==
    /\ route[w] = "auth"
    /\ preAuth[w] = "none"
    /\ ~redisActive
    /\ monitored' = monitored \cup {w}
    /\ received' = [received EXCEPT ![w] =
                      IF wire[w] = "open" THEN @ \o buffer.events ELSE @]
    /\ connected' = IF buffer.events = <<>> THEN connected \cup {w}
                    ELSE Reachable(connected \cup {w}, w)
    /\ buffer' = NoBuffer
    /\ route' = [route EXCEPT ![w] = "serving"]
    /\ UNCHANGED <<wire, preAuth, redisVars, echoes, runVars, cancelled, refused>>

(* The token is valid: register, replay, acquire the channel. *)
Authenticated(w) ==
    /\ route[w] = "auth"
    /\ monitored' = monitored \cup {w}
    /\ received' = [received EXCEPT ![w] =
                      IF wire[w] = "open" THEN @ \o buffer.events ELSE @]
    /\ LET conn == connected \cup {w} IN
          Acquire(w, IF buffer.events = <<>> THEN conn ELSE Reachable(conn, w))
    /\ UNCHANGED <<wire, redisActive, subscribed, echoes>>

-----------------------------------------------------------------------------
(* Redis answers the commands of the subscriber connection in order. *)

SubscribeReply ==
    /\ commands # <<>> /\ Head(commands).cmd = "subscribe"
    /\ commands' = Tail(commands)
    /\ subscribed' = TRUE
    /\ Serve(Head(commands).socket, connected)
    /\ UNCHANGED <<redisActive, wire, monitored, refCount, echoes, received>>

(* The rejection of acquire ends in the route's catch. *)
SubscribeFails ==
    /\ commands # <<>> /\ Head(commands).cmd = "subscribe"
    /\ commands' = Tail(commands)
    /\ Reject(Head(commands).socket, "failed")
    /\ UNCHANGED <<connected, monitored, refCount, redisActive, subscribed, echoes, runVars, buffer,
                   received, cancelled, refused>>

UnsubscribeReply ==
    /\ commands # <<>> /\ Head(commands).cmd = "unsubscribe"
    /\ commands' = Tail(commands)
    /\ subscribed' = FALSE
    /\ UNCHANGED <<redisActive, socketVars, connected, refCount, echoes, runVars, buffer, received,
                   cancelled, refused>>

(* Mutant: forward does not look at the origin. *)
ForwardEverything(own, e) == Broadcast(e)

(* forward drops what this instance published itself. *)
Forward(own, e) == IF own THEN UNCHANGED <<connected, received>> ELSE Broadcast(e)

(* A message of the subscription arrives. *)
Echo(e) ==
    /\ e \in echoes
    /\ echoes' = echoes \ {e}
    /\ Forward(TRUE, e)
    /\ UNCHANGED <<socketVars, redisVars, runVars, buffer, cancelled, refused>>

-----------------------------------------------------------------------------
(* Sockets go away *)

(* The peer or the network ends the connection; no event has fired yet. *)
Drop(w) ==
    /\ wire[w] = "open"
    /\ wire' = [wire EXCEPT ![w] = "closing"]
    /\ UNCHANGED <<route, preAuth, connected, monitored, redisVars, echoes, runVars, buffer,
                   received, cancelled, refused>>

(* The error event of a served socket; its close event follows. *)
SocketError(w) ==
    /\ wire[w] = "closing"
    /\ route[w] = "serving"
    /\ w \in connected \cup monitored
    /\ connected' = connected \ {w}
    /\ monitored' = monitored \ {w}
    /\ UNCHANGED <<wire, route, preAuth, redisVars, echoes, runVars, buffer, received,
                   cancelled, refused>>

(* The heartbeat gives a socket up: detach and terminate. *)
HeartbeatKills(w) ==
    /\ w \in monitored
    /\ monitored' = monitored \ {w}
    /\ wire' = [wire EXCEPT ![w] = IF @ = "open" THEN "closing" ELSE @]
    /\ UNCHANGED <<route, preAuth, connected, redisVars, echoes, runVars, buffer, received,
                   cancelled, refused>>

(* Mutant: every close tears the channel down. *)
ReleaseTearsDown(w) ==
    /\ refCount' = IF refCount > 0 THEN refCount - 1 ELSE 0
    /\ commands' = IF refCount > 0
                   THEN Append(commands, [cmd |-> "unsubscribe", socket |-> w]) ELSE commands

(* channels.release: the last socket unsubscribes. *)
Release(w) ==
    /\ refCount' = IF refCount > 0 THEN refCount - 1 ELSE 0
    /\ commands' = IF refCount = 1
                   THEN Append(commands, [cmd |-> "unsubscribe", socket |-> w]) ELSE commands

(* The close event.  Before the route has installed its close handler the  *)
(* event passes unheard.                                                   *)
CloseEvent(w) ==
    /\ wire[w] = "closing"
    /\ wire' = [wire EXCEPT ![w] = "closed"]
    /\ IF route[w] = "serving"
       THEN /\ route' = [route EXCEPT ![w] = "released"]
            /\ connected' = connected \ {w}
            /\ monitored' = monitored \ {w}
            /\ IF redisActive THEN Release(w) ELSE UNCHANGED <<refCount, commands>>
       ELSE UNCHANGED <<route, connected, monitored, refCount, commands>>
    /\ UNCHANGED <<preAuth, redisActive, subscribed, echoes, runVars, buffer, received, cancelled,
                   refused>>

-----------------------------------------------------------------------------
(* The run, as the bridge sees it through start() *)

(* Mutant: every event starts a new buffer. *)
KeepLast(r, e) == [run |-> r, events |-> IF MaxReplay > 0 THEN <<e>> ELSE <<>>]

(* The replay buffer with an event of run r added, up to its limit. *)
Keep(r, e) ==
    LET kept == IF buffer.run = r THEN buffer.events ELSE <<>> IN
    [run |-> r, events |-> IF Len(kept) < MaxReplay THEN Append(kept, e) ELSE kept]

(* onEvent: buffer, broadcast, publish.  Redis hands a publish to the      *)
(* subscribers it has at that moment.                                      *)
RunEmits(r) ==
    /\ run[r] \in {"setup", "live"}
    /\ emitted[r] < MaxEvents
    /\ run' = [run EXCEPT ![r] = "live"]
    /\ emitted' = [emitted EXCEPT ![r] = @ + 1]
    /\ LET e == <<r, emitted[r] + 1>> IN
          /\ buffer' = Keep(r, e)
          /\ Broadcast(e)
          /\ echoes' = IF subscribed THEN echoes \cup {e} ELSE echoes
    /\ UNCHANGED <<socketVars, redisVars, sender, cancelled, refused>>

(* start() resolves once the run has drained. *)
RunEnds(r) ==
    /\ run[r] \in {"setup", "live"}
    /\ run' = [run EXCEPT ![r] = "ended"]
    /\ buffer' = NoBuffer
    /\ UNCHANGED <<socketVars, connected, redisVars, echoes, sender, emitted, received,
                   cancelled, refused>>

(* start() rejects: before any event the sender alone is told, later every *)
(* connected socket.                                                       *)
RunRejects(r) ==
    /\ run[r] \in {"setup", "live"}
    /\ run' = [run EXCEPT ![r] = "ended"]
    /\ buffer' = NoBuffer
    /\ connected' = IF run[r] = "setup" THEN Reachable(connected, sender[r])
                    ELSE {w \in connected : wire[w] = "open"}
    /\ UNCHANGED <<socketVars, redisVars, echoes, sender, emitted, received, cancelled,
                   refused>>

-----------------------------------------------------------------------------
Next ==
    \/ \E w \in Sockets :
          \/ Connect(w) \/ AuthFails(w) \/ Authenticated(w)
          \/ \E f \in Frames : BufferFrame(w, f) \/ Inbound(w, f)
          \/ Drop(w) \/ SocketError(w) \/ HeartbeatKills(w) \/ CloseEvent(w)
    \/ SubscribeReply \/ SubscribeFails \/ UnsubscribeReply
    \/ \E e \in ChatEvents : Echo(e)
    \/ \E r \in Runs : RunEmits(r) \/ RunEnds(r) \/ RunRejects(r)

Spec == Init /\ [][Next]_vars

-----------------------------------------------------------------------------
(* Properties *)

(* No socket is sent an event of a run twice or out of order: replay, live *)
(* broadcast and the Redis echo never overlap (fanout.test.ts, SC-06).     *)
DeliveredInOrder ==
    \A w \in Sockets : \A i, j \in DOMAIN received[w] :
        i < j /\ received[w][i][1] = received[w][j][1]
        => received[w][i][2] < received[w][j][2]

(* What a socket was sent of a run has no hole that fits into the buffer. *)
Gapless(w, r) ==
    \A i \in DOMAIN received[w] : received[w][i][1] = r =>
        \A n \in 1 .. received[w][i][2] : n <= MaxReplay =>
            \E j \in 1 .. i : received[w][j] = <<r, n>>

(* A socket that joins or rejoins during a run gets all of the run that    *)
(* fits into the buffer, provided no send was refused meanwhile            *)
(* (session-bridge.ts replayEvents).                                       *)
ReplayCompletes ==
    \A w \in Sockets, r \in Runs : r \notin refused => Gapless(w, r)

(* A socket that joins during a run gets all of it that fits the buffer,   *)
(* whatever the other sockets do (plugin.ts 209, a reconnecting client     *)
(* replays buffered events).                                               *)
ReplayAlwaysCompletes ==
    \A w \in Sockets, r \in Runs : Gapless(w, r)

(* A cancel reaches the run in flight and no other: the replay buffer that *)
(* names it is never a finished run's, and is that of a run that has       *)
(* streamed, unless a refused send dropped it.                             *)
CancelFindsRun ==
    /\ buffer.run # None => run[buffer.run] = "live"
    /\ \A r \in Active : run[r] = "live" /\ r \notin refused => buffer.run = r

(* The state of the subscription once Redis has answered every command. *)
Settled == IF commands = <<>> THEN subscribed
           ELSE commands[Len(commands)].cmd = "subscribe"

(* Once Redis has answered, the channel is subscribed exactly while some   *)
(* socket holds it, however acquires and releases overlap with commands    *)
(* still on the way; only a failed subscribe leaves holders without one.   *)
SubscriptionFollowsSockets ==
    redisActive =>
        /\ Settled => refCount > 0
        /\ refCount > 0 /\ (\A w \in Sockets : route[w] # "failed") => Settled

=============================================================================
