------------------------------ MODULE Mediator ------------------------------
(***************************************************************************)
(* The playground's mediator (apps/playground/backend mediator.ts) over    *)
(* its SpendLedger: guests, their browser sockets, the upstream socket     *)
(* behind each of them and the runs of a guest's session.                  *)
(*                                                                         *)
(* One Node process: code between two awaits is one action.  Clocks are    *)
(* abstracted to what the code asks of them: whether a guest's time to     *)
(* live has passed, how old a reservation is, what the sliding window of a *)
(* rate limiter (RateLimit) answers.  The runtime is seen through the frames it sends  *)
(* to every upstream socket of the session.                                *)
(***************************************************************************)
EXTENDS SpendLedger, Sequences

CONSTANTS Guests, Sockets,    \* bounds: guests minted, sockets opened
          MaxFrames,          \* bound: frames the browsers send
          MessagesPerSession,
          TokensPerSession,
          FrameTokens,        \* what a token frame is estimated at
          Outcomes,           \* statuses getRun may confirm
          SettleAttempts,     \* SETTLE_CONFIRM_ATTEMPTS
          MayRestart

ASSUME MediatorAssumption ==
    /\ None \notin Guests \cup Reservations
    /\ IsFiniteSet(Sockets)
    /\ {SettleAttempts, FrameTokens} \subseteq Nat \ {0}
    /\ Outcomes \subseteq TerminalStatus \ {"abandoned"}
    /\ MayRestart \in BOOLEAN

VARIABLES
    today,     \* utcDay(now())
    guest,     \* guests: "none" before the mint, "live", "expired" past the TTL
    sent,      \* guest.messagesSent
    tokens,    \* guest.estOutputTokens
    pending,   \* guest.pendingReservationIds
    byRun,     \* reservationByRun, over all guests
    seenRuns,
    breached,  \* guests whose tokenCapBreached is set
    cancels,   \* runs cancelRun was called for, in order
    socket,    \* each browser socket: its guest, inbound chain and upstream
    observed,  \* how far a socket has read the events of a run
    calls,     \* ledger and control calls on their way, nobody waits for them
    stage,     \* how far a run has got: 1 message_started, 2 token, 3 terminal
    session,   \* the guest whose session a run belongs to
    restarted, frames,
    forwarded  \* history: messages sent upstream

guestVars == <<guest, sent, tokens, pending, breached>>
runVars   == <<byRun, seenRuns, cancels, observed, calls>>
worldVars == <<stage, session>>
mediatorVars == <<today, guestVars, runVars, worldVars, socket, restarted, frames, forwarded>>
vars == <<ledgerVars, mediatorVars>>

NoSocket == [guest |-> None, open |-> FALSE, upstream |-> "closed", inbox |-> 0,
             phase |-> "idle", day |-> 0, row |-> None, out |-> 0,
             toGateway |-> 0]

Init ==
    /\ LedgerInit
    /\ today = 0
    /\ guest = [g \in Guests |-> "none"]
    /\ sent = [g \in Guests |-> 0]
    /\ tokens = [g \in Guests |-> 0]
    /\ pending = [g \in Guests |-> <<>>]
    /\ byRun = [r \in Runs |-> None]
    /\ seenRuns = {}
    /\ breached = {}
    /\ cancels = <<>>
    /\ socket = [s \in Sockets |-> NoSocket]
    /\ observed = [s \in Sockets |-> [r \in Runs |-> 0]]
    /\ calls = {}
    /\ stage = [r \in Runs |-> 0]
    /\ session = [r \in Runs |-> None]
    /\ restarted = FALSE
    /\ frames = 0
    /\ forwarded = 0

-----------------------------------------------------------------------------
(* Sessions and sockets *)

(* POST /playground/session, when the address's limiter allows it *)
MintGuest(g) ==
    /\ guest[g] = "none"
    /\ guest' = [guest EXCEPT ![g] = "live"]
    /\ UNCHANGED <<ledgerVars, today, sent, tokens, pending, breached, runVars,
                   worldVars, socket, restarted, frames, forwarded>>

(* A browser attaches: the mediator opens an upstream socket, to which the *)
(* gateway replays the session's active run from its beginning.            *)
Attach(s, g) ==
    /\ socket[s] = NoSocket
    /\ guest[g] = "live"
    /\ socket' = [socket EXCEPT ![s] = [NoSocket EXCEPT !.guest = g, !.open = TRUE,
                                                        !.upstream = "connecting"]]
    /\ observed' = [observed EXCEPT ![s] = [r \in Runs |->
                      IF session[r] = g /\ stage[r] < 3 THEN 0 ELSE stage[r]]]
    /\ UNCHANGED <<ledgerVars, today, guestVars, byRun, seenRuns, cancels, calls,
                   worldVars, restarted, frames, forwarded>>

(* The first pong, or the end of the ping budget: flush the outbound queue. *)
UpstreamReady(s) ==
    /\ socket[s].open /\ socket[s].upstream = "connecting"
    /\ socket' = [socket EXCEPT ![s].upstream = "ready",
                                ![s].toGateway = @ + socket[s].out, ![s].out = 0]
    /\ UNCHANGED <<ledgerVars, today, guestVars, runVars, worldVars, restarted,
                   frames, forwarded>>

(* The browser goes away and upstream.close() is called.  Frames already   *)
(* in the inbound chain are still handled, and until the upstream socket   *)
(* is closed its events are still observed.                                *)
Detach(s) ==
    /\ socket[s].open
    /\ socket' = [socket EXCEPT ![s].open = FALSE]
    /\ UNCHANGED <<ledgerVars, today, guestVars, runVars, worldVars, restarted,
                   frames, forwarded>>

(* The upstream socket closes, for the mediator or by the gateway: nothing *)
(* reopens it, and what is queued for it stays queued.  How far it had     *)
(* read no longer matters.                                                 *)
UpstreamCloses(s) ==
    /\ socket[s].upstream # "closed"
    /\ socket' = [socket EXCEPT ![s].upstream = "closed"]
    /\ observed' = [observed EXCEPT ![s] = [r \in Runs |-> 0]]
    /\ UNCHANGED <<ledgerVars, today, guestVars, byRun, seenRuns, cancels, calls, worldVars,
                   restarted, frames, forwarded>>

(* A frame joins the socket's inbound chain.  Its content is chosen when   *)
(* it is handled.                                                          *)
Frame(s) ==
    /\ socket[s].open /\ frames < MaxFrames
    /\ socket' = [socket EXCEPT ![s].inbox = @ + 1]
    /\ frames' = frames + 1
    /\ UNCHANGED <<ledgerVars, today, guestVars, runVars, worldVars, restarted,
                   forwarded>>

-----------------------------------------------------------------------------
(* handleInbound *)

(* The checks in their order; the refusal a frame meets, or "none".  A     *)
(* "fast" frame is one the guest's rate limiter refuses.                   *)
Refusal(g, f) ==
    IF f = "bad" THEN "bad_frame"
    ELSE IF guest[g] # "live" THEN "session_expired"
    ELSE IF f = "fast" THEN "rate_limit_session"
    ELSE IF f = "long" \/ sent[g] >= MessagesPerSession THEN "message_cap"
    ELSE IF tokens[g] >= TokensPerSession THEN "token_cap"
    ELSE "none"

(* Mutant: the day is reserved after the message was sent. *)
HandleInboundSendsFirst(s, f) ==
    LET g == socket[s].guest
        why == Refusal(g, f) IN
    /\ socket[s].phase = "idle" /\ socket[s].inbox > 0
    /\ why = "none"
    /\ socket' = [socket EXCEPT ![s].inbox = @ - 1, ![s].phase = "reserving",
                                ![s].day = today, ![s].toGateway = @ + 1]
    /\ forwarded' = forwarded + 1
    /\ UNCHANGED <<ledgerVars, today, guest, sent, tokens, pending, breached,
                   runVars, worldVars, restarted, frames>>

(* handleInbound up to the await of ledger.reserve *)
HandleInbound(s, f) ==
    LET g == socket[s].guest
        why == Refusal(g, f) IN
    /\ socket[s].phase = "idle" /\ socket[s].inbox > 0
    /\ socket' = [socket EXCEPT
                    ![s].inbox = @ - 1,
                    ![s].open = @ /\ why # "session_expired",
                    ![s].phase = IF why = "none" THEN "reserving" ELSE "idle",
                    ![s].day = IF why = "none" THEN today ELSE @]
    /\ UNCHANGED <<ledgerVars, today, guest, sent, tokens, pending, breached,
                   runVars, worldVars, restarted, frames, forwarded>>

(* The transaction of reserve commits. *)
ReserveCommits(s, x) ==
    /\ socket[s].phase = "reserving"
    /\ Reserve(x, socket[s].day)
    /\ socket' = [socket EXCEPT ![s].phase = "reserved", ![s].day = 0, ![s].row = x]
    /\ UNCHANGED <<today, guestVars, runVars, worldVars, restarted, frames, forwarded>>

(* The ceiling refuses. *)
ReserveRefused(s) ==
    /\ socket[s].phase = "reserving" /\ ~FitsUnderCeiling(socket[s].day)
    /\ socket' = [socket EXCEPT ![s].phase = "idle", ![s].day = 0]
    /\ UNCHANGED <<ledgerVars, today, guestVars, runVars, worldVars, restarted,
                   frames, forwarded>>

(* What a new process knows: the ledger and the runtime stay. *)
ProcessRestarts ==
    /\ MayRestart /\ ~restarted
    /\ restarted' = TRUE
    /\ guest' = [g \in Guests |-> IF guest[g] = "none" THEN "none" ELSE "expired"]
    /\ pending' = [g \in Guests |-> <<>>]
    /\ byRun' = [r \in Runs |-> None]
    /\ socket' = [s \in Sockets |-> [socket[s] EXCEPT !.open = FALSE, !.upstream = "closed",
                    !.inbox = 0, !.phase = "idle", !.day = 0, !.row = None, !.out = 0]]
    /\ calls' = {}
    /\ observed' = [s \in Sockets |-> [r \in Runs |-> 0]]
    /\ UNCHANGED <<ledgerVars, today, sent, tokens, breached, seenRuns, cancels, worldVars,
                   frames, forwarded>>

(* The call rejects, before its commit or, the answer lost, after it.  The *)
(* next link of the inbound chain swallows the rejection; without a next   *)
(* frame nobody handles it and Node ends the process.                      *)
ReserveRejects(s) ==
    /\ socket[s].phase \in {"reserving", "reserved"}
    /\ \/ /\ socket[s].inbox > 0
          /\ socket' = [socket EXCEPT ![s].phase = "idle", ![s].day = 0, ![s].row = None]
          /\ UNCHANGED <<ledgerVars, today, guestVars, runVars, worldVars, restarted,
                         frames, forwarded>>
       \/ socket[s].inbox = 0 /\ ProcessRestarts

(* The rest of handleInbound: count, remember the reservation, forward.  A *)
(* frame sent on a closing upstream socket is lost.                        *)
Forward(s) ==
    LET g == socket[s].guest IN
    /\ socket[s].phase = "reserved"
    /\ pending' = [pending EXCEPT ![g] = Append(@, socket[s].row)]
    /\ sent' = [sent EXCEPT ![g] = @ + 1]
    /\ socket' = [socket EXCEPT ![s].phase = "idle", ![s].row = None,
                    ![s].toGateway = IF socket[s].upstream = "ready" /\ socket[s].open
                                     THEN @ + 1 ELSE @,
                    ![s].out = IF socket[s].upstream = "ready" THEN @ ELSE @ + 1]
    /\ forwarded' = forwarded + 1
    /\ UNCHANGED <<ledgerVars, today, guest, tokens, breached, runVars,
                   worldVars, restarted, frames>>

-----------------------------------------------------------------------------
(* The runtime *)

(* The gateway takes a send_message: it starts a run unless one is active, *)
(* and answers with an error frame otherwise, which the mediator drops.    *)
GatewayTakes(s) ==
    LET g == socket[s].guest
        active == {r \in Runs : session[r] = g /\ stage[r] < 3} IN
    /\ socket[s].toGateway > 0
    /\ socket' = [socket EXCEPT ![s].toGateway = @ - 1]
    /\ \/ /\ active = {}
          /\ \E r \in Runs : /\ session[r] = None
                             /\ session' = [session EXCEPT ![r] = g]
       \/ active # {} /\ UNCHANGED session
    /\ UNCHANGED <<ledgerVars, today, guestVars, runVars, stage, restarted,
                   frames, forwarded>>

(* A run emits message_started, a token frame and its terminal event. *)
RunEmits(r) ==
    /\ session[r] # None /\ stage[r] < 3
    /\ stage' = [stage EXCEPT ![r] = @ + 1]
    /\ UNCHANGED <<ledgerVars, today, guestVars, runVars, session, socket,
                   restarted, frames, forwarded>>

-----------------------------------------------------------------------------
(* observeChatEvent: a socket reads the next event of a run. *)

(* Mutant: a replayed message_started takes the next reservation. *)
SeeStartedAgain(g, r) ==
    IF pending[g] # <<>>
    THEN /\ seenRuns' = seenRuns \cup {r}
         /\ pending' = [pending EXCEPT ![g] = Tail(@)]
         /\ byRun' = [byRun EXCEPT ![r] = Head(pending[g])]
         /\ calls' = calls \cup {[op |-> "attach", row |-> Head(pending[g]), run |-> r, left |-> 0]}
    ELSE UNCHANGED <<seenRuns, pending, byRun, calls>>

(* message_started: the first sight of a run takes the oldest reservation  *)
(* that has no run.                                                        *)
SeeStarted(g, r) ==
    IF r \notin seenRuns
    THEN /\ seenRuns' = seenRuns \cup {r}
         /\ IF pending[g] = <<>> THEN UNCHANGED <<pending, byRun, calls>>
            ELSE /\ pending' = [pending EXCEPT ![g] = Tail(@)]
                 /\ byRun' = [byRun EXCEPT ![r] = Head(pending[g])]
                 /\ calls' = calls \cup
                      {[op |-> "attach", row |-> Head(pending[g]), run |-> r, left |-> 0]}
    ELSE UNCHANGED <<seenRuns, pending, byRun, calls>>

(* token: the first crossing of the cap cancels the run. *)
SeeToken(g, r) ==
    LET crossing == tokens[g] + FrameTokens > TokensPerSession /\ g \notin breached IN
    /\ tokens' = [tokens EXCEPT ![g] = @ + FrameTokens]
    /\ breached' = IF crossing THEN breached \cup {g} ELSE breached
    /\ cancels' = IF crossing THEN Append(cancels, r) ELSE cancels

(* terminal event: the first one starts the settlement. *)
SeeTerminal(r) ==
    /\ calls' = IF byRun[r] = None THEN calls
                ELSE calls \cup {[op |-> "settle", row |-> byRun[r], run |-> r,
                                  left |-> SettleAttempts]}
    /\ byRun' = [byRun EXCEPT ![r] = None]

Observe(s, r) ==
    LET g == socket[s].guest IN
    /\ socket[s].upstream # "closed" /\ session[r] = g /\ observed[s][r] < stage[r]
    /\ observed' = [observed EXCEPT ![s][r] = @ + 1]
    /\ \/ /\ observed[s][r] = 0 /\ SeeStarted(g, r)
          /\ UNCHANGED <<tokens, breached, cancels>>
       \/ /\ observed[s][r] = 1 /\ SeeToken(g, r)
          /\ UNCHANGED <<seenRuns, pending, byRun, calls>>
       \/ /\ observed[s][r] = 2 /\ SeeTerminal(r)
          /\ UNCHANGED <<seenRuns, pending, tokens, breached, cancels>>
    /\ UNCHANGED <<ledgerVars, today, guest, sent, worldVars, socket,
                   restarted, frames, forwarded>>

-----------------------------------------------------------------------------
(* Calls nobody waits for; each may fail, and is then only logged. *)

CallFails(c) ==
    /\ c \in calls
    /\ calls' = calls \ {c}
    /\ UNCHANGED <<ledgerVars, today, guestVars, byRun, seenRuns, cancels, observed,
                   worldVars, socket, restarted, frames, forwarded>>

AttachLands(c) ==
    /\ c \in calls /\ c.op = "attach"
    /\ calls' = calls \ {c}
    /\ AttachRun(c.row, c.run)
    /\ UNCHANGED <<today, guestVars, byRun, seenRuns, cancels, observed, worldVars,
                   socket, restarted, frames, forwarded>>

(* settleRun: getRun still says running; try again or leave it to the sweep. *)
NotTerminalYet(c) ==
    /\ c \in calls /\ c.op = "settle"
    /\ calls' = IF c.left > 1 THEN (calls \ {c}) \cup {[c EXCEPT !.left = @ - 1]}
                ELSE calls \ {c}
    /\ UNCHANGED <<ledgerVars, today, guestVars, byRun, seenRuns, cancels, observed,
                   worldVars, socket, restarted, frames, forwarded>>

SettleLands(c, t) ==
    /\ c \in calls /\ c.op = "settle"
    /\ calls' = calls \ {c}
    /\ Settle(c.row, t)
    /\ UNCHANGED <<today, guestVars, byRun, seenRuns, cancels, observed, worldVars,
                   socket, restarted, frames, forwarded>>

-----------------------------------------------------------------------------
(* Timers *)

(* The interval's sweep, when its ledger call succeeds; a failed one is    *)
(* only logged.                                                            *)
Sweep == SweepAbandoned /\ UNCHANGED mediatorVars

(* A guest's TTL passes.  The eviction that follows one TTL later forgets  *)
(* a guest that every check refuses already.                               *)
GuestAges(g) ==
    /\ guest[g] = "live"
    /\ guest' = [guest EXCEPT ![g] = "expired"]
    /\ UNCHANGED <<ledgerVars, today, sent, tokens, pending, breached, runVars, worldVars,
                   socket, restarted, frames, forwarded>>

NextDay ==
    /\ today < LastDay
    /\ today' = today + 1
    /\ UNCHANGED <<ledgerVars, guestVars, runVars, worldVars, socket, restarted,
                   frames, forwarded>>

Restart == ProcessRestarts

Next ==
    \/ \E g \in Guests : MintGuest(g) \/ GuestAges(g) \/ \E s \in Sockets : Attach(s, g)
    \/ \E s \in Sockets :
          \/ UpstreamReady(s) \/ UpstreamCloses(s) \/ Detach(s)
          \/ Frame(s)
          \/ \E f \in {"send", "long", "bad", "fast"} : HandleInbound(s, f)
          \/ \E x \in Reservations : ReserveCommits(s, x)
          \/ ReserveRefused(s) \/ ReserveRejects(s) \/ Forward(s) \/ GatewayTakes(s)
          \/ \E r \in Runs : Observe(s, r)
    \/ \E r \in Runs : RunEmits(r)
    \/ \E c \in calls :
          \/ CallFails(c) \/ AttachLands(c) \/ NotTerminalYet(c)
          \/ \E t \in Outcomes : SettleLands(c, t)
    \/ Sweep \/ NextDay \/ Restart
    \/ \E x \in Reservations : (Age(x) \/ CleanUp(x)) /\ UNCHANGED mediatorVars

Spec == Init /\ [][Next]_vars

-----------------------------------------------------------------------------
(* Properties *)

(* Every message that went upstream had its own reservation accepted       *)
(* first (mediator.ts, step 5), whatever failed in between.                *)
EveryForwardIsReserved ==
    forwarded <= Cardinality({x \in Reservations : status[x] # "none"})

(* A reservation waits for at most one run and is held for at most one,    *)
(* and no run is charged to two of them, however often the gateway         *)
(* replays message_started to the sockets of a guest.                      *)
OneRunPerReservation ==
    /\ \A g, h \in Guests : \A i \in DOMAIN pending[g], j \in DOMAIN pending[h] :
          pending[g][i] = pending[h][j] => g = h /\ i = j
    /\ \A g \in Guests : \A i \in DOMAIN pending[g] : \A r \in Runs : byRun[r] # pending[g][i]
    /\ \A q, r \in Runs : byRun[q] # None /\ byRun[q] = byRun[r] => q = r
    /\ \A x, y \in Reservations : runOf[x] # None /\ runOf[x] = runOf[y] => x = y

=============================================================================
