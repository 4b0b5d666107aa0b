----------------------------- MODULE Heartbeat -----------------------------
(***************************************************************************)
(* The gateway's HeartbeatManager for one socket, with time.               *)
(*                                                                         *)
(* Sockets do not influence each other here, so one is modelled.  Time     *)
(* passes in units; a timer that is due fires before time passes on.  The  *)
(* peer may answer a ping at any moment or never.  The hard timeout runs   *)
(* out as part of the unit that brings it to its end.                      *)
(***************************************************************************)
EXTENDS Integers, TLAPS

CONSTANTS Timeout,   \* timeoutMs, in units
          NoTimer

ASSUME HeartbeatAssumption == Timeout \in Nat /\ Timeout >= 2 /\ NoTimer \notin Int

Interval == Timeout \div 2

VARIABLES
    monitored,  \* the socket has an entry in the manager's map
    wire,       \* "open", "terminated" by the manager, or "closed" otherwise
    alive,      \* entry.alive
    pingIn,     \* time until the interval timer fires
    killIn,     \* time until the oldest pending hard timeout fires, or NoTimer
    silence     \* how long the oldest unanswered ping has waited, or NoTimer

vars == <<monitored, wire, alive, pingIn, killIn, silence>>

TypeOK ==
    /\ monitored \in BOOLEAN
    /\ wire \in {"open", "terminated", "closed"}
    /\ alive \in BOOLEAN
    /\ pingIn \in 0 .. Interval
    /\ killIn \in 1 .. Timeout \cup {NoTimer}
    /\ silence \in 0 .. Timeout \cup {NoTimer}

(* attach *)
Init ==
    /\ monitored = TRUE
    /\ wire = "open"
    /\ alive = TRUE
    /\ pingIn = Interval
    /\ killIn = NoTimer
    /\ silence = NoTimer

-----------------------------------------------------------------------------
(* detach: both timers are cleared *)
Detach ==
    /\ monitored' = FALSE
    /\ killIn' = NoTimer

(* terminate, on a socket that may have closed already *)
Terminate == wire' = IF wire = "open" THEN "terminated" ELSE wire

(* Mutant: the interval callback passes over a socket that is not open. *)
SendPingSkipsClosed ==
    /\ monitored /\ pingIn = 0
    /\ pingIn' = Interval
    /\ \/ /\ wire = "open" /\ ~alive
          /\ Detach /\ Terminate
          /\ UNCHANGED <<alive, silence>>
       \/ /\ wire = "open" /\ alive
          /\ alive' = FALSE
          /\ killIn' = IF killIn = NoTimer THEN Timeout ELSE killIn
          /\ silence' = IF silence = NoTimer THEN 0 ELSE silence
          /\ UNCHANGED <<monitored, wire>>
       \/ /\ wire # "open"
          /\ UNCHANGED <<monitored, wire, alive, killIn, silence>>

(* sendPing: no pong since the last ping ends the socket.  A ping on a     *)
(* socket that is not open is not sent.                                    *)
SendPing ==
    /\ monitored /\ pingIn = 0
    /\ pingIn' = Interval
    /\ \/ /\ ~alive
          /\ Detach /\ Terminate
          /\ UNCHANGED <<alive, silence>>
       \/ /\ alive
          /\ alive' = FALSE
          /\ killIn' = IF killIn = NoTimer THEN Timeout ELSE killIn
          /\ silence' = IF silence = NoTimer /\ wire = "open" THEN 0 ELSE silence
          /\ UNCHANGED <<monitored, wire>>

(* Mutant: a pong is noticed too late to count. *)
PongIgnored ==
    /\ wire = "open" /\ silence # NoTimer
    /\ killIn' = NoTimer
    /\ silence' = NoTimer
    /\ UNCHANGED <<monitored, wire, pingIn, alive>>

(* The pong listener. *)
Pong ==
    /\ wire = "open" /\ silence # NoTimer
    /\ alive' = TRUE
    /\ killIn' = NoTimer
    /\ silence' = NoTimer
    /\ UNCHANGED <<monitored, wire, pingIn>>

(* The connection ends and the route's close handler detaches. *)
Close ==
    /\ wire = "open"
    /\ wire' = "closed"
    /\ Detach
    /\ UNCHANGED <<alive, pingIn, silence>>

(* The connection ends while the route still waits for its channel, before *)
(* it has installed the close handler.                                     *)
CloseUnheard ==
    /\ wire = "open"
    /\ wire' = "closed"
    /\ UNCHANGED <<monitored, alive, pingIn, killIn, silence>>

(* The callback of the hard timeout: still no pong ends the socket. *)
HardTimeout ==
    IF alive THEN killIn' = NoTimer /\ UNCHANGED <<monitored, wire>>
    ELSE Detach /\ Terminate

(* One unit of time passes; it matters only while the timers run.  A hard  *)
(* timeout that runs out with this unit fires.                             *)
Tick ==
    /\ monitored
    /\ pingIn > 0
    /\ pingIn' = pingIn - 1
    /\ silence' = IF silence = NoTimer \/ wire # "open" THEN silence ELSE silence + 1
    /\ IF killIn = 1 THEN HardTimeout
       ELSE /\ killIn' = IF killIn = NoTimer THEN NoTimer ELSE killIn - 1
            /\ UNCHANGED <<monitored, wire>>
    /\ UNCHANGED alive

Next == SendPing \/ Pong \/ Close \/ CloseUnheard \/ Tick

Spec == Init /\ [][Next]_vars

(* Time passes and the event loop runs timers that are due. *)
FairSpec == Spec /\ WF_vars(Tick) /\ WF_vars(SendPing)

-----------------------------------------------------------------------------
(* Properties *)

(* A peer that answers every ping before the next one is due is never      *)
(* terminated, whatever the timing of its pongs (heartbeat.ts sendPing).   *)
PromptPeerSurvives ==
    wire = "terminated" => silence # NoTimer /\ silence >= Interval

(* A silent peer does not stay connected longer than one interval past the *)
(* ping it left unanswered.                                                *)
SilenceIsBounded == wire = "open" /\ silence # NoTimer => silence <= Interval

(* The hard timeout never runs out: the interval timer is always due       *)
(* before it, and a pong or that tick clears it, so the callback           *)
(* (heartbeat.ts 93-98) never ends a socket.                               *)
HardTimeoutNeverDue == killIn # NoTimer => killIn > pingIn

(* The timers of a socket that is gone stop, also when its close passed    *)
(* unheard: the unanswered ping detaches it.                               *)
TimersStop == wire # "open" ~> ~monitored

-----------------------------------------------------------------------------
(* Proofs *)

(* What relates the timers: an open socket is alive exactly while no ping  *)
(* waits, and both clocks run from the moment that ping was sent.          *)
ClockInv ==
    /\ wire = "open" => monitored /\ (alive <=> silence = NoTimer)
    /\ wire = "open" /\ silence # NoTimer => silence + pingIn = Interval
    /\ killIn # NoTimer => ~alive /\ killIn = Timeout - Interval + pingIn
    /\ wire = "terminated" => ~monitored /\ silence = Interval

IInv == TypeOK /\ ClockInv

(* The interval is positive and leaves room for the hard timeout. *)
LEMMA IntervalBounds == Interval \in Nat /\ 1 <= Interval /\ Interval < Timeout
BY HeartbeatAssumption DEF Interval

LEMMA IInvInit == Init => IInv
BY HeartbeatAssumption, IntervalBounds DEF Init, IInv, TypeOK, ClockInv

LEMMA IInvStep == IInv /\ [Next]_vars => IInv'
<1> SUFFICES ASSUME IInv, [Next]_vars PROVE IInv'
  OBVIOUS
<1> USE HeartbeatAssumption, IntervalBounds DEF IInv, TypeOK, ClockInv
<1>1. CASE SendPing
  <2>1. CASE ~alive
    <3>1. /\ monitored /\ monitored' = FALSE
          /\ wire' = IF wire = "open" THEN "terminated" ELSE wire
          /\ pingIn = 0 /\ pingIn' = Interval
          /\ killIn' = NoTimer
          /\ alive' = alive /\ silence' = silence
      BY <1>1, <2>1 DEF SendPing, Detach, Terminate
    <3>2. TypeOK'
      <4>1. monitored' \in BOOLEAN /\ alive' \in BOOLEAN
        BY <3>1, Zenon
      <4>2. wire' \in {"open", "terminated", "closed"} /\ pingIn' \in 0 .. Interval
        BY <3>1
      <4>3. killIn' \in 1 .. Timeout \cup {NoTimer} /\ silence' \in 0 .. Timeout \cup {NoTimer}
        BY <3>1
      <4> QED BY <4>1, <4>2, <4>3
    <3>3. ClockInv'
      BY <2>1, <3>1
    <3> QED BY <3>2, <3>3
  <2>2. CASE alive
    <3>1. /\ monitored /\ monitored' = monitored /\ wire' = wire
          /\ pingIn' = Interval
          /\ alive' = FALSE
          /\ killIn' = Timeout
          /\ silence' = IF silence = NoTimer /\ wire = "open" THEN 0 ELSE silence
      BY <1>1, <2>2 DEF SendPing
    <3>2. TypeOK'
      <4>1. monitored' \in BOOLEAN /\ alive' \in BOOLEAN
        BY <3>1, Zenon
      <4>2. wire' \in {"open", "terminated", "closed"} /\ pingIn' \in 0 .. Interval
        BY <3>1
      <4>3. killIn' \in 1 .. Timeout \cup {NoTimer} /\ silence' \in 0 .. Timeout \cup {NoTimer}
        BY <3>1
      <4> QED BY <4>1, <4>2, <4>3
    <3>3. ClockInv'
      BY <2>2, <3>1
    <3> QED BY <3>2, <3>3
  <2> QED BY <2>1, <2>2
<1>2. CASE Pong
  BY <1>2 DEF Pong
<1>3. CASE Close
  BY <1>3 DEF Close, Detach
<1>4. CASE CloseUnheard
  BY <1>4 DEF CloseUnheard
<1>5. CASE Tick
  <2>1. killIn # 1
    BY <1>5 DEF Tick
  <2>2. /\ monitored' = monitored /\ wire' = wire /\ alive' = alive
        /\ pingIn > 0 /\ pingIn' = pingIn - 1
        /\ killIn' = IF killIn = NoTimer THEN NoTimer ELSE killIn - 1
        /\ silence' = IF silence = NoTimer \/ wire # "open" THEN silence ELSE silence + 1
    BY <1>5, <2>1 DEF Tick
  <2>3. TypeOK'
    <3>1. monitored' \in BOOLEAN /\ alive' \in BOOLEAN
      BY <2>2, Zenon
    <3>2. wire' \in {"open", "terminated", "closed"} /\ pingIn' \in 0 .. Interval
      BY <2>2
    <3>3. killIn' \in 1 .. Timeout \cup {NoTimer}
      BY <2>1, <2>2
    <3>4. silence' \in 0 .. Timeout \cup {NoTimer}
      BY <2>2
    <3> QED BY <3>1, <3>2, <3>3, <3>4
  <2>4. ClockInv'
    BY <2>2
  <2> QED BY <2>3, <2>4
<1>6. CASE UNCHANGED vars
  BY <1>6 DEF vars
<1> QED BY <1>1, <1>2, <1>3, <1>4, <1>5, <1>6 DEF Next

(* For every timeout: a prompt peer is never cut off, a silent one is      *)
(* bounded, and the hard timeout of sendPing is dead code.                 *)
THEOREM HeartbeatSafe ==
    Spec => [](PromptPeerSurvives /\ SilenceIsBounded /\ HardTimeoutNeverDue)
<1>1. IInv => PromptPeerSurvives /\ SilenceIsBounded /\ HardTimeoutNeverDue
  BY HeartbeatAssumption, IntervalBounds
     DEF IInv, TypeOK, ClockInv, PromptPeerSurvives, SilenceIsBounded, HardTimeoutNeverDue
<1> QED BY <1>1, IInvInit, IInvStep, PTL DEF Spec
=============================================================================
