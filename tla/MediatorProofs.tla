--------------------------- MODULE MediatorProofs ---------------------------
(***************************************************************************)
(* Theorems about the spend ledger under the mediator, for any guests,     *)
(* sockets, runs, days, amounts, ceiling, lost calls and restarts.         *)
(*                                                                         *)
(* The argument: a step has one of three shapes (StepShape).  Rows move on *)
(* and no socket takes up a reservation; or one socket takes up a row that *)
(* is charged in the same step; or a socket that holds one sends its       *)
(* message.  The day totals are inductive over these shapes, and so is     *)
(* Covered: the messages sent and the sockets that hold a reservation are  *)
(* together at most the rows accepted.                                     *)
(***************************************************************************)
EXTENDS Mediator, FiniteSetTheorems, SequenceTheorems, TLAPS

Phases == {"idle", "reserving", "reserved"}
Fields == {"guest", "open", "upstream", "inbox", "phase", "day", "row", "out", "toGateway"}

(* What the arguments need to know of the types *)
SpendType ==
    /\ status \in [Reservations -> {"none", "reserved", "overdue", "settled", "deleted"}]
    /\ dayOf \in [Reservations -> Days]
    /\ total \in [Days -> Nat]
    /\ today \in Days
    /\ DOMAIN socket = Sockets
    /\ \A s \in Sockets : /\ DOMAIN socket[s] = Fields
                           /\ socket[s].phase \in Phases
                           /\ socket[s].day \in Days
    /\ forwarded \in Nat

USE LedgerAssumption, MediatorAssumption

LEMMA FirstDay == 0 \in Days
BY DEF Days

-----------------------------------------------------------------------------
(* The ledger *)

Charge(x, d) == /\ status[x] = "none" /\ total[d] + Amount <= Ceiling
                /\ status' = [status EXCEPT ![x] = "reserved"]
                /\ dayOf' = [dayOf EXCEPT ![x] = d]
                /\ total' = [total EXCEPT ![d] = @ + Amount]
                /\ outcome' = outcome

(* A row moves on: never back to "none", nor out of "deleted", and out of  *)
(* "settled" only by deletion.                                             *)
Moves == /\ status' \in [Reservations -> {"none", "reserved", "overdue", "settled", "deleted"}]
         /\ \A x \in Reservations :
               /\ status[x] = "none" <=> status'[x] = "none"
               /\ status[x] = "deleted" => status'[x] = "deleted"
               /\ status[x] = "settled" => \/ status'[x] = "settled" /\ outcome'[x] = outcome[x]
                                           \/ status'[x] = "deleted"
         /\ dayOf' = dayOf /\ total' = total

LEMMA StillMoves == ASSUME SpendType, UNCHANGED <<status, dayOf, outcome, total>> PROVE Moves
BY DEF SpendType, Moves

LEMMA SettleMoves == ASSUME SpendType, NEW x, NEW t, Settle(x, t) PROVE Moves
BY DEF SpendType, Moves, Settle, Open

LEMMA SweepMoves == ASSUME SpendType, SweepAbandoned PROVE Moves
BY DEF SpendType, Moves, SweepAbandoned

LEMMA CleanUpMoves == ASSUME SpendType, NEW x \in Reservations, CleanUp(x) PROVE Moves
BY DEF SpendType, Moves, CleanUp

LEMMA AgeMoves == ASSUME SpendType, NEW x \in Reservations, Age(x) PROVE Moves
BY DEF SpendType, Moves, Age

-----------------------------------------------------------------------------
(* The sockets: nobody takes up a reservation, or one socket s takes up x, *)
(* or one that holds a reservation sends its message.                      *)
Reserved(s) == socket[s].phase = "reserved"
Quiet == /\ forwarded' = forwarded
         /\ \A s \in Sockets : Reserved(s)' => Reserved(s) /\ socket'[s].row = socket[s].row
TakesUp(s, x) == /\ ~Reserved(s) /\ Charge(x, socket[s].day)
                 /\ forwarded' = forwarded
                 /\ \A t \in Sockets : Reserved(t)' <=> Reserved(t) \/ t = s
                 /\ \A t \in Sockets : socket'[t].row = IF t = s THEN x ELSE socket[t].row
Sends(s) == /\ Reserved(s) /\ forwarded' = forwarded + 1
            /\ \A t \in Sockets : Reserved(t)' <=> Reserved(t) /\ t # s
            /\ \A t \in Sockets : t # s => socket'[t].row = socket[t].row

Shape == \/ Moves /\ Quiet
         \/ \E s \in Sockets, x \in Reservations : TakesUp(s, x)
         \/ Moves /\ \E s \in Sockets : Sends(s)

Typed == /\ today' \in Days /\ forwarded' \in Nat
         /\ DOMAIN socket' = Sockets
         /\ \A s \in Sockets : /\ DOMAIN socket'[s] = Fields
                                /\ socket'[s].phase \in Phases
                                /\ socket'[s].day \in Days

(* A step that leaves the ledger and the sockets alone *)
LEMMA Aside ==
    ASSUME SpendType, UNCHANGED <<ledgerVars, socket, forwarded>>, today' \in Days
    PROVE  Moves /\ Quiet /\ Typed
BY StillMoves DEF Typed, SpendType, Quiet, Reserved, ledgerVars

LEMMA SocketSteps ==
    ASSUME SpendType, NEW s \in Sockets,
           \/ \E g \in Guests : Attach(s, g)
           \/ UpstreamReady(s) \/ UpstreamCloses(s) \/ Detach(s) \/ Frame(s)
           \/ \E f \in {"send", "long", "bad", "fast"} : HandleInbound(s, f)
           \/ ReserveRefused(s) \/ GatewayTakes(s)
    PROVE  Moves /\ Quiet /\ Typed
<1> USE DEF SpendType, Typed, Quiet, Reserved, Phases, Fields
<1>1. CASE \E g \in Guests : Attach(s, g)
  <2>1. Moves
    BY <1>1, StillMoves DEF Attach, ledgerVars
  <2>2. PICK g \in Guests : Attach(s, g)
    BY <1>1
  <2>3. Quiet
    BY <2>2 DEF Attach, NoSocket
  <2>4. Typed
    BY <2>2 DEF Attach, NoSocket
  <2>5. QED
    BY <2>1, <2>3, <2>4
<1>2. CASE UpstreamReady(s)
  <2>1. Moves
    BY <1>2, StillMoves DEF UpstreamReady, ledgerVars
  <2>2. QED
    BY <1>2, <2>1 DEF UpstreamReady
<1>3. CASE UpstreamCloses(s)
  <2>1. Moves
    BY <1>3, StillMoves DEF UpstreamCloses, ledgerVars
  <2>2. QED
    BY <1>3, <2>1 DEF UpstreamCloses
<1>4. CASE Detach(s)
  <2>1. Moves
    BY <1>4, StillMoves DEF Detach, ledgerVars
  <2>2. QED
    BY <1>4, <2>1 DEF Detach
<1>5. CASE Frame(s)
  <2>1. Moves
    BY <1>5, StillMoves DEF Frame, ledgerVars
  <2>2. QED
    BY <1>5, <2>1 DEF Frame
<1>6. CASE \E f \in {"send", "long", "bad", "fast"} : HandleInbound(s, f)
  <2>1. Moves
    BY <1>6, StillMoves DEF HandleInbound, ledgerVars
  <2>2. PICK f : HandleInbound(s, f)
    BY <1>6
  <2>3. Quiet
    BY <2>2 DEF HandleInbound
  <2>4. Typed
    BY <2>2 DEF HandleInbound
  <2>5. QED
    BY <2>1, <2>3, <2>4
<1>7. CASE ReserveRefused(s)
  <2>1. Moves
    BY <1>7, StillMoves DEF ReserveRefused, ledgerVars
  <2>2. QED
    BY <1>7, <2>1, FirstDay DEF ReserveRefused
<1>8. CASE GatewayTakes(s)
  <2>1. Moves
    BY <1>8, StillMoves DEF GatewayTakes, ledgerVars
  <2>2. QED
    BY <1>8, <2>1 DEF GatewayTakes
<1>9. QED
  BY <1>1, <1>2, <1>3, <1>4, <1>5, <1>6, <1>7, <1>8

LEMMA RestartStep == ASSUME SpendType, ProcessRestarts PROVE Moves /\ Quiet /\ Typed
<1>1. Moves
  BY StillMoves DEF ProcessRestarts, ledgerVars
<1>2. Quiet
  BY DEF SpendType, ProcessRestarts, Quiet, Reserved, Fields
<1>3. Typed
  BY FirstDay DEF SpendType, ProcessRestarts, Typed, Fields, Phases
<1>4. QED
  BY <1>1, <1>2, <1>3

LEMMA RejectStep == ASSUME SpendType, NEW s \in Sockets, ReserveRejects(s) PROVE Moves /\ Quiet /\ Typed
<1>1. CASE ProcessRestarts
  BY <1>1, RestartStep
<1>2. CASE ~ProcessRestarts
  <2>1. /\ socket' = [socket EXCEPT ![s].phase = "idle", ![s].day = 0, ![s].row = None]
        /\ UNCHANGED <<ledgerVars, today, forwarded>>
    BY <1>2 DEF ReserveRejects
  <2>2. Moves
    BY <2>1, StillMoves DEF ledgerVars
  <2>3. Quiet
    BY <2>1 DEF SpendType, Quiet, Reserved, Fields
  <2>4. Typed
    BY <2>1, FirstDay DEF SpendType, Typed, Fields, Phases
  <2>5. QED
    BY <2>2, <2>3, <2>4
<1>3. QED
  BY <1>1, <1>2

LEMMA CommitStep ==
    ASSUME SpendType, NEW s \in Sockets, NEW x \in Reservations, ReserveCommits(s, x)
    PROVE  TakesUp(s, x) /\ Typed
<1>1. Charge(x, socket[s].day)
  BY DEF ReserveCommits, Reserve, FitsUnderCeiling, Charge
<1>2. TakesUp(s, x)
  BY <1>1 DEF SpendType, ReserveCommits, TakesUp, Reserved, Fields
<1>3. Typed
  BY FirstDay DEF SpendType, ReserveCommits, Typed, Fields, Phases
<1>4. QED
  BY <1>2, <1>3

LEMMA ForwardStep ==
    ASSUME SpendType, NEW s \in Sockets, Forward(s)
    PROVE  Moves /\ Sends(s) /\ Typed
<1>1. Moves
  BY StillMoves DEF Forward, ledgerVars
<1>2. Sends(s)
  BY DEF SpendType, Forward, Sends, Reserved, Fields
<1>3. Typed
  BY DEF SpendType, Forward, Typed, Fields, Phases
<1>4. QED
  BY <1>1, <1>2, <1>3

(* A step of the ledger alone *)
LEMMA LedgerOnly ==
    ASSUME SpendType, Moves, UNCHANGED <<socket, forwarded, today>>
    PROVE  Moves /\ Quiet /\ Typed
BY DEF SpendType, Quiet, Reserved, Typed

(* Every step but the two that reserve and that send a message *)
LEMMA QuietStep ==
    ASSUME SpendType, [Next]_vars,
           ~\E s \in Sockets : \E x \in Reservations : ReserveCommits(s, x),
           ~\E s \in Sockets : Forward(s)
    PROVE  Moves /\ Quiet /\ Typed
<1> USE DEF mediatorVars, guestVars, runVars, worldVars
<1>1. CASE \E g \in Guests : MintGuest(g) \/ GuestAges(g)
  BY <1>1, Aside DEF MintGuest, GuestAges, SpendType
<1>2. CASE \E g \in Guests : \E s \in Sockets : Attach(s, g)
  BY <1>2, SocketSteps
<1>3. CASE \E s \in Sockets :
             \/ UpstreamReady(s) \/ UpstreamCloses(s) \/ Detach(s) \/ Frame(s)
             \/ \E f \in {"send", "long", "bad", "fast"} : HandleInbound(s, f)
             \/ ReserveRefused(s) \/ GatewayTakes(s)
  BY <1>3, SocketSteps
<1>4. CASE \E s \in Sockets : ReserveRejects(s)
  BY <1>4, RejectStep
<1>5. CASE \E s \in Sockets : \E r \in Runs : Observe(s, r)
  <2>1. UNCHANGED <<ledgerVars, socket, forwarded, today>>
    BY <1>5 DEF Observe
  <2>2. QED
    BY <2>1, Aside DEF SpendType
<1>6. CASE \E r \in Runs : RunEmits(r)
  BY <1>6, Aside DEF RunEmits, SpendType
<1>7. CASE \E c \in calls : CallFails(c) \/ NotTerminalYet(c)
  BY <1>7, Aside DEF CallFails, NotTerminalYet, SpendType
<1>8. CASE \E c \in calls : AttachLands(c)
  <2>1. UNCHANGED <<status, dayOf, outcome, total>> /\ UNCHANGED <<socket, forwarded, today>>
    BY <1>8 DEF AttachLands, AttachRun
  <2>2. QED
    BY <2>1, StillMoves, LedgerOnly
<1>9. CASE \E c \in calls : \E t \in Outcomes : SettleLands(c, t)
  BY <1>9, SettleMoves, LedgerOnly DEF SettleLands
<1>10. CASE Sweep
  BY <1>10, SweepMoves, LedgerOnly DEF Sweep
<1>11. CASE NextDay
  <2>1. today' \in Days
    BY <1>11 DEF NextDay, SpendType, Days
  <2>2. QED
    BY <1>11, <2>1, Aside DEF NextDay
<1>12. CASE Restart
  BY <1>12, RestartStep DEF Restart
<1>13. CASE \E x \in Reservations : (Age(x) \/ CleanUp(x)) /\ UNCHANGED mediatorVars
  BY <1>13, AgeMoves, CleanUpMoves, LedgerOnly
<1>14. CASE UNCHANGED vars
  BY <1>14, Aside DEF vars, SpendType
<1>15. QED
  BY <1>1, <1>2, <1>3, <1>4, <1>5, <1>6, <1>7, <1>8, <1>9, <1>10, <1>11, <1>12, <1>13,
     <1>14 DEF Next

LEMMA StepShape == ASSUME SpendType, [Next]_vars PROVE Shape /\ Typed
<1>1. CASE \E s \in Sockets : \E x \in Reservations : ReserveCommits(s, x)
  BY <1>1, CommitStep DEF Shape
<1>2. CASE \E s \in Sockets : Forward(s)
  BY <1>2, ForwardStep DEF Shape
<1>3. QED
  BY <1>1, <1>2, QuietStep DEF Shape

-----------------------------------------------------------------------------
(* An upstream socket is some guest's. *)

Attended == \A s \in Sockets : socket[s].upstream # "closed" => socket[s].guest \in Guests

LEMMA AttendedSteps ==
    ASSUME SpendType, Attended, NEW s \in Sockets,
           \/ \E g \in Guests : Attach(s, g)
           \/ UpstreamReady(s) \/ UpstreamCloses(s) \/ Detach(s) \/ Frame(s)
           \/ \E f \in {"send", "long", "bad", "fast"} : HandleInbound(s, f)
           \/ \E x \in Reservations : ReserveCommits(s, x)
           \/ ReserveRefused(s) \/ Forward(s) \/ GatewayTakes(s)
    PROVE  Attended'
<1> USE DEF SpendType, Attended, Fields
<1>1. CASE \E g \in Guests : Attach(s, g)
  <2>1. PICK g \in Guests : Attach(s, g)
    BY <1>1
  <2>2. socket'[s].guest = g /\ \A t \in Sockets \ {s} : socket'[t] = socket[t]
    BY <2>1 DEF Attach, NoSocket
  <2>3. QED
    BY <2>2
<1>2. CASE UpstreamReady(s)
  BY <1>2 DEF UpstreamReady
<1>3. CASE UpstreamCloses(s)
  BY <1>3 DEF UpstreamCloses
<1>4. CASE Detach(s) \/ Frame(s)
  BY <1>4 DEF Detach, Frame
<1>5. CASE \E f \in {"send", "long", "bad", "fast"} : HandleInbound(s, f)
  <2>1. PICK f : HandleInbound(s, f)
    BY <1>5
  <2>2. QED
    BY <2>1 DEF HandleInbound
<1>6. CASE \E x \in Reservations : ReserveCommits(s, x)
  <2>1. PICK x \in Reservations : ReserveCommits(s, x)
    BY <1>6
  <2>2. socket' = [socket EXCEPT ![s].phase = "reserved", ![s].day = 0, ![s].row = x]
    BY <2>1 DEF ReserveCommits
  <2>3. QED
    BY <2>2
<1>7. CASE ReserveRefused(s)
  BY <1>7 DEF ReserveRefused
<1>8. CASE Forward(s)
  BY <1>8 DEF Forward
<1>9. CASE GatewayTakes(s)
  BY <1>9 DEF GatewayTakes
<1>10. QED
  BY <1>1, <1>2, <1>3, <1>4, <1>5, <1>6, <1>7, <1>8, <1>9

LEMMA AttendedStep == ASSUME SpendType, Attended, [Next]_vars PROVE Attended'
<1>1. CASE \E s \in Sockets :
             \/ \E g \in Guests : Attach(s, g)
             \/ UpstreamReady(s) \/ UpstreamCloses(s) \/ Detach(s) \/ Frame(s)
             \/ \E f \in {"send", "long", "bad", "fast"} : HandleInbound(s, f)
             \/ \E x \in Reservations : ReserveCommits(s, x)
             \/ ReserveRefused(s) \/ Forward(s) \/ GatewayTakes(s)
  BY <1>1, AttendedSteps
<1>2. CASE ProcessRestarts
  BY <1>2 DEF ProcessRestarts, Attended, SpendType, Fields
<1>3. CASE UNCHANGED socket
  BY <1>3 DEF Attended
<1>4. CASE \E s \in Sockets : ReserveRejects(s)
  <2>1. PICK s \in Sockets : ReserveRejects(s)
    BY <1>4
  <2>2. CASE socket' = [socket EXCEPT ![s].phase = "idle", ![s].day = 0, ![s].row = None]
    BY <2>2 DEF Attended, SpendType, Fields
  <2>3. QED
    BY <1>2, <2>1, <2>2 DEF ReserveRejects
<1>5. QED
  BY <1>1, <1>2, <1>3, <1>4 DEF Next, MintGuest, GuestAges, Observe, RunEmits, CallFails,
     AttachLands, NotTerminalYet, SettleLands, Sweep, NextDay, Restart, vars, mediatorVars

-----------------------------------------------------------------------------
(* What the shapes do to the rows *)

Rows == {x \in Reservations : status[x] # "none"}
Holders == {s \in Sockets : Reserved(s)}

LEMMA Finite ==
    /\ IsFiniteSet(Rows) /\ Cardinality(Rows) \in Nat
    /\ IsFiniteSet(Holders) /\ Cardinality(Holders) \in Nat
    /\ \A d : IsFiniteSet(Accepted(d)) /\ Cardinality(Accepted(d)) \in Nat
<1>1. Rows \subseteq Reservations /\ Holders \subseteq Sockets
      /\ \A d : Accepted(d) \subseteq Reservations
  BY DEF Rows, Holders, Accepted
<1>2. QED
  BY <1>1, FS_Subset, FS_CardinalityType

LEMMA MovesKeepRows ==
    ASSUME SpendType, Moves
    PROVE  Rows' = Rows /\ \A d : Accepted(d)' = Accepted(d)
BY DEF Moves, Rows, Accepted

LEMMA ChargeAddsRow ==
    ASSUME SpendType, NEW x \in Reservations, NEW d \in Days, Charge(x, d)
    PROVE  /\ x \notin Rows /\ Rows' = Rows \cup {x}
           /\ x \notin Accepted(d) /\ Accepted(d)' = Accepted(d) \cup {x}
           /\ \A e \in Days \ {d} : Accepted(e)' = Accepted(e)
<1>1. /\ \A y \in Reservations : y # x => status'[y] = status[y] /\ dayOf'[y] = dayOf[y]
      /\ status[x] = "none" /\ status'[x] = "reserved" /\ dayOf'[x] = d
  BY DEF Charge, SpendType
<1>2. QED
  BY <1>1 DEF Rows, Accepted

LEMMA SpendTypeStep == ASSUME SpendType, Shape, Typed PROVE SpendType'
<1>1. CASE Moves
  BY <1>1 DEF Moves, SpendType, Typed
<1>2. CASE \E s \in Sockets, x \in Reservations : TakesUp(s, x)
  BY <1>2 DEF TakesUp, Charge, SpendType, Typed
<1>3. QED
  BY <1>1, <1>2 DEF Shape

-----------------------------------------------------------------------------
(* The invariant *)

Covered == forwarded + Cardinality(Holders) <= Cardinality(Rows)
IInv == SpendType /\ TotalIsAccepted /\ Covered

LEMMA TotalStep == ASSUME SpendType, TotalIsAccepted, Shape PROVE TotalIsAccepted'
<1>1. CASE Moves
  BY <1>1, MovesKeepRows DEF Moves, TotalIsAccepted
<1>2. CASE \E s \in Sockets, x \in Reservations : TakesUp(s, x)
  <2>1. PICK s \in Sockets, x \in Reservations : TakesUp(s, x)
    BY <1>2
  <2>2. PICK d \in Days : Charge(x, d)
    BY <2>1 DEF TakesUp, SpendType
  <2>3. Cardinality(Accepted(d)') = Cardinality(Accepted(d)) + 1
    BY <2>2, ChargeAddsRow, Finite, FS_AddElement
  <2>4. /\ total'[d] = total[d] + Amount /\ total'[d] <= Ceiling
        /\ \A e \in Days \ {d} : total'[e] = total[e]
    BY <2>2 DEF Charge, SpendType
  <2>5. total'[d] = Amount * Cardinality(Accepted(d)')
    <3>1. total[d] = Amount * Cardinality(Accepted(d))
      BY <2>2 DEF TotalIsAccepted
    <3> DEFINE n == Cardinality(Accepted(d))
    <3>2. n \in Nat
      BY Finite
    <3> HIDE DEF n
    <3>3. Amount * (n + 1) = Amount * n + Amount
      BY <3>2
    <3>4. QED
      BY <2>3, <2>4, <3>1, <3>3 DEF n
  <2>6. SUFFICES ASSUME NEW e \in Days
                 PROVE  total'[e] = Amount * Cardinality(Accepted(e)') /\ total'[e] <= Ceiling
    BY DEF TotalIsAccepted
  <2>7. CASE e = d
    BY <2>4, <2>5, <2>7
  <2>8. CASE e # d
    BY <2>2, <2>4, <2>8, ChargeAddsRow DEF TotalIsAccepted
  <2>9. QED
    BY <2>7, <2>8
<1>3. QED
  BY <1>1, <1>2 DEF Shape

LEMMA CoveredStep == ASSUME SpendType, SpendType', Covered, Shape PROVE Covered'
<1>1. /\ IsFiniteSet(Holders) /\ Cardinality(Holders) \in Nat
      /\ IsFiniteSet(Rows) /\ Cardinality(Rows) \in Nat
      /\ forwarded \in Nat
  BY Finite DEF SpendType
<1>2. CASE Moves /\ Quiet
  <2>1. Rows' = Rows
    BY <1>2, MovesKeepRows
  <2>2. Holders' \subseteq Holders /\ forwarded' = forwarded
    BY <1>2 DEF Quiet, Holders
  <2>3. Cardinality(Holders') \in Nat /\ Cardinality(Holders') <= Cardinality(Holders)
    BY <1>1, <2>2, FS_Subset, FS_CardinalityType
  <2>4. QED
    BY <1>1, <2>1, <2>2, <2>3 DEF Covered
<1>3. CASE \E s \in Sockets, x \in Reservations : TakesUp(s, x)
  <2>1. PICK s \in Sockets, x \in Reservations : TakesUp(s, x)
    BY <1>3
  <2>2. Cardinality(Rows') = Cardinality(Rows) + 1
    <3>1. PICK d \in Days : Charge(x, d)
      BY <2>1 DEF TakesUp, SpendType
    <3>2. QED
      BY <1>1, <3>1, ChargeAddsRow, FS_AddElement
  <2>3. Holders' = Holders \cup {s} /\ s \notin Holders /\ forwarded' = forwarded
    BY <2>1 DEF TakesUp, Holders
  <2>4. Cardinality(Holders') = Cardinality(Holders) + 1
    BY <1>1, <2>3, FS_AddElement
  <2>5. QED
    BY <1>1, <2>2, <2>3, <2>4 DEF Covered
<1>4. CASE Moves /\ \E s \in Sockets : Sends(s)
  <2>1. PICK s \in Sockets : Sends(s)
    BY <1>4
  <2>2. Rows' = Rows
    BY <1>4, MovesKeepRows
  <2>3. Holders' = Holders \ {s} /\ s \in Holders /\ forwarded' = forwarded + 1
    BY <2>1 DEF Sends, Holders
  <2>4. Cardinality(Holders') = Cardinality(Holders) - 1
    BY <1>1, <2>3, FS_RemoveElement
  <2>5. QED
    BY <1>1, <2>2, <2>3, <2>4 DEF Covered
<1>5. QED
  BY <1>2, <1>3, <1>4 DEF Shape

LEMMA InitIInv == Init => IInv
<1>1. SUFFICES ASSUME Init PROVE IInv
  OBVIOUS
<1>2. SpendType
  BY <1>1 DEF Init, LedgerInit, SpendType, NoSocket, Fields, Phases, Days
<1>3. Rows = {} /\ Holders = {} /\ \A d : Accepted(d) = {}
  BY <1>1 DEF Init, LedgerInit, Rows, Holders, Reserved, NoSocket, Accepted
<1>4. Covered
  BY <1>1, <1>3, FS_EmptySet DEF Init, Covered
<1>5. TotalIsAccepted
  <2>1. \A d \in Days : total[d] = 0 /\ Cardinality(Accepted(d)) = 0
    BY <1>1, <1>3, FS_EmptySet DEF Init, LedgerInit
  <2>2. Amount * 0 = 0 /\ 0 <= Ceiling
    OBVIOUS
  <2>3. QED
    BY <2>1, <2>2 DEF TotalIsAccepted
<1>6. QED
  BY <1>2, <1>4, <1>5 DEF IInv

LEMMA NextIInv == IInv /\ [Next]_vars => IInv'
BY StepShape, SpendTypeStep, TotalStep, CoveredStep DEF IInv

(* The inductive invariant holds throughout: the strengthening the next    *)
(* two theorems rest on.                                                   *)
THEOREM SpendInvariant == Spec => []IInv
BY InitIInv, NextIInv, PTL DEF Spec

(* The day's total is exactly what reserve accepted that day and stays     *)
(* under the ceiling, whatever sockets, settlements, sweeps, retention     *)
(* jobs, lost calls and restarts do (playground-spend-repo.ts reserve).    *)
THEOREM LedgerExact == Spec => []TotalIsAccepted
<1>1. IInv => TotalIsAccepted
  BY DEF IInv
<1>2. QED
  BY <1>1, SpendInvariant, PTL

(* Every message the mediator sent upstream had a reservation of its own   *)
(* accepted first (mediator.ts handleInbound, step 5).                     *)
THEOREM ForwardsReserved == Spec => []EveryForwardIsReserved
<1>1. IInv => EveryForwardIsReserved
  <2>1. SUFFICES ASSUME IInv PROVE EveryForwardIsReserved
    OBVIOUS
  <2>2. Cardinality(Rows) \in Nat /\ Cardinality(Holders) \in Nat /\ forwarded \in Nat
    BY <2>1, Finite DEF IInv, SpendType
  <2>3. forwarded <= Cardinality(Rows)
    BY <2>1, <2>2 DEF IInv, Covered
  <2>4. QED
    BY <2>3 DEF EveryForwardIsReserved, Rows
<1>2. QED
  BY <1>1, SpendInvariant, PTL

(* A settled row keeps its outcome and day until the retention job takes   *)
(* it, and a deleted one never comes back: settle and sweepAbandoned may   *)
(* come in either order, twice or late.                                    *)
THEOREM SettledStays == Spec => SettledIsFinal
<1> DEFINE Final == \A x \in Reservations :
      /\ status[x] = "settled" => \/ status'[x] = "settled" /\ outcome'[x] = outcome[x]
                                 \/ status'[x] = "deleted"
      /\ status[x] = "deleted" => status'[x] = "deleted"
      /\ status[x] # "none" => dayOf'[x] = dayOf[x]
<1>1. ASSUME IInv, [Next]_vars PROVE [Final]_ledgerVars
  <2>1. Shape /\ SpendType
    BY <1>1, StepShape DEF IInv
  <2>2. CASE Moves
    BY <2>2 DEF Moves
  <2>3. CASE \E s \in Sockets, x \in Reservations : TakesUp(s, x)
    <3>1. PICK s \in Sockets, x \in Reservations : TakesUp(s, x)
      BY <2>3
    <3>2. /\ \A y \in Reservations : y # x =>
                 status'[y] = status[y] /\ dayOf'[y] = dayOf[y] /\ outcome'[y] = outcome[y]
          /\ status[x] = "none"
      BY <2>1, <3>1 DEF TakesUp, Charge, SpendType
    <3>3. QED
      BY <3>2
  <2>4. QED
    BY <2>1, <2>2, <2>3 DEF Shape
<1>2. QED
  BY <1>1, SpendInvariant, PTL DEF Spec, SettledIsFinal

-----------------------------------------------------------------------------
(* Which run a reservation is for *)

Calls == [op : {"attach", "settle"}, row : Reservations, run : Runs, left : Nat]

(* A row taken up is in one place: with the socket that reserved it, in    *)
(* the queue of one guest, or with one run.                                *)
RowsType == /\ pending \in [Guests -> Seq(Reservations)]
            /\ byRun \in [Runs -> Reservations \cup {None}]
HeldInv ==
    /\ \A s \in Sockets : Reserved(s) => socket[s].row \in Rows
    /\ \A s, t \in Sockets :
          Reserved(s) /\ Reserved(t) /\ socket[s].row = socket[t].row => s = t
QueuedInv ==
    /\ \A g \in Guests : \A i \in 1 .. Len(pending[g]) :
          /\ pending[g][i] \in Rows
          /\ \A s \in Sockets : Reserved(s) => socket[s].row # pending[g][i]
          /\ \A r \in Runs : byRun[r] # pending[g][i]
    /\ \A g, h \in Guests : \A i \in 1 .. Len(pending[g]), j \in 1 .. Len(pending[h]) :
          pending[g][i] = pending[h][j] => g = h /\ i = j
TakenInv ==
    /\ \A r \in Runs : byRun[r] # None =>
          /\ byRun[r] \in Rows
          /\ \A s \in Sockets : Reserved(s) => socket[s].row # byRun[r]
    /\ \A q, r \in Runs : byRun[q] # None /\ byRun[q] = byRun[r] => q = r
RowsInv == RowsType /\ HeldInv /\ QueuedInv /\ TakenInv

(* A run that was seen started is attached to one row at most, by the      *)
(* attach calls on their way and those that landed.                        *)
AttachInv ==
    /\ runOf \in [Reservations -> Runs \cup {None}]
    /\ calls \subseteq Calls
    /\ \A x \in Reservations : runOf[x] # None => runOf[x] \in seenRuns
    /\ \A c \in calls : c.op = "attach" =>
          /\ c.run \in seenRuns
          /\ \A y \in Reservations : runOf[y] = c.run => y = c.row
    /\ \A c, d \in calls : c.op = "attach" /\ d.op = "attach" /\ c.run = d.run => c.row = d.row
    /\ \A x, y \in Reservations : runOf[x] # None /\ runOf[x] = runOf[y] => x = y

TiesInv == Attended /\ RowsInv /\ AttachInv

(* Ties are dropped: a run ends, a call is lost, a process restarts, a row *)
(* is deleted.                                                             *)
Frees == /\ pending' \in [Guests -> Seq(Reservations)]
         /\ \A g \in Guests : pending'[g] = pending[g] \/ pending'[g] = <<>>
         /\ byRun' \in [Runs -> Reservations \cup {None}]
         /\ \A r \in Runs : byRun'[r] = byRun[r] \/ byRun'[r] = None
Lapses == /\ Frees
          /\ seenRuns \subseteq seenRuns'
          /\ calls' \subseteq Calls
          /\ \A c \in calls' : c.op = "attach" => c \in calls
          /\ runOf' \in [Reservations -> Runs \cup {None}]
          /\ \A x \in Reservations : runOf'[x] = runOf[x] \/ runOf'[x] = None
Queues(s) == /\ pending' = [pending EXCEPT ![socket[s].guest] = Append(@, socket[s].row)]
             /\ UNCHANGED <<byRun, seenRuns, calls, runOf>>
Takes(g, r) == /\ r \notin seenRuns /\ pending[g] # <<>>
               /\ seenRuns' = seenRuns \cup {r}
               /\ pending' = [pending EXCEPT ![g] = Tail(@)]
               /\ byRun' = [byRun EXCEPT ![r] = Head(pending[g])]
               /\ calls' = calls \cup
                    {[op |-> "attach", row |-> Head(pending[g]), run |-> r, left |-> 0]}
               /\ runOf' = runOf
Lands(c) == /\ c \in calls /\ c.op = "attach" /\ calls' = calls \ {c}
            /\ runOf' = runOf \/ runOf' = [runOf EXCEPT ![c.row] = c.run]
            /\ UNCHANGED <<pending, byRun, seenRuns>>

Ties == Lapses \/ (\E g \in Guests, r \in Runs : Takes(g, r)) \/ \E c \in calls : Lands(c)

LEMMA SameLapses ==
    ASSUME TiesInv, UNCHANGED <<pending, byRun, seenRuns, calls, runOf>>
    PROVE  Lapses
BY DEF TiesInv, RowsInv, RowsType, AttachInv, Lapses, Frees

LEMMA ObserveTies ==
    ASSUME TiesInv, NEW s \in Sockets, NEW r \in Runs, Observe(s, r)
    PROVE  Ties
<1> DEFINE g == socket[s].guest
<1>1. g \in Guests /\ runOf' = runOf
  BY DEF Observe, TiesInv, Attended, ledgerVars
<1>2. CASE SeeStarted(g, r)
  <2>1. CASE r \notin seenRuns /\ pending[g] # <<>>
    <3>1. Takes(g, r)
      BY <1>1, <1>2, <2>1 DEF SeeStarted, Takes
    <3>2. QED
      BY <1>1, <3>1 DEF Ties
  <2>2. CASE ~(r \notin seenRuns /\ pending[g] # <<>>)
    BY <1>1, <1>2, <2>2 DEF SeeStarted, Ties, Lapses, Frees, TiesInv, RowsInv, RowsType, AttachInv
  <2>3. QED
    BY <2>1, <2>2
<1>3. CASE UNCHANGED <<seenRuns, pending, byRun, calls>>
  BY <1>1, <1>3, SameLapses DEF Ties
<1>4. CASE SeeTerminal(r) /\ UNCHANGED <<seenRuns, pending>>
  <2>1. byRun[r] # None =>
          [op |-> "settle", row |-> byRun[r], run |-> r, left |-> SettleAttempts] \in Calls
    BY DEF TiesInv, RowsInv, RowsType, Calls
  <2>2. QED
    BY <1>1, <1>4, <2>1 DEF SeeTerminal, Ties, Lapses, Frees, TiesInv, RowsInv, RowsType, AttachInv
<1>5. QED
  BY <1>2, <1>3, <1>4 DEF Observe

LEMMA CallTies ==
    ASSUME TiesInv, NEW c \in calls,
           CallFails(c) \/ NotTerminalYet(c) \/ AttachLands(c) \/ \E t \in Outcomes : SettleLands(c, t)
    PROVE  Ties
<1>1. c \in Calls
  BY DEF TiesInv, AttachInv
<1>2. CASE CallFails(c) \/ \E t \in Outcomes : SettleLands(c, t)
  <2>1. calls' = calls \ {c} /\ UNCHANGED <<pending, byRun, seenRuns, runOf>>
    BY <1>2 DEF CallFails, SettleLands, Settle, ledgerVars, guestVars
  <2>2. QED
    BY <2>1 DEF Ties, Lapses, Frees, TiesInv, RowsInv, RowsType, AttachInv
<1>3. CASE NotTerminalYet(c)
  <2> DEFINE d == [c EXCEPT !.left = @ - 1]
  <2>1. c.left > 1 => d \in Calls /\ d.op = "settle"
    BY <1>1, <1>3 DEF NotTerminalYet, Calls
  <2>2. /\ calls' = IF c.left > 1 THEN (calls \ {c}) \cup {d} ELSE calls \ {c}
        /\ UNCHANGED <<pending, byRun, seenRuns, runOf>>
    BY <1>3 DEF NotTerminalYet, ledgerVars, guestVars
  <2> HIDE DEF d
  <2>3. QED
    BY <2>1, <2>2 DEF Ties, Lapses, Frees, TiesInv, RowsInv, RowsType, AttachInv
<1>4. CASE AttachLands(c)
  BY <1>4 DEF AttachLands, AttachRun, Ties, Lands, guestVars
<1>5. QED
  BY <1>2, <1>3, <1>4

LEMMA StepTies ==
    ASSUME TiesInv, [Next]_vars, ~\E s \in Sockets : Forward(s)
    PROVE  Ties
<1> USE DEF mediatorVars, guestVars, runVars, ledgerVars
<1>1. CASE \E s \in Sockets : \E r \in Runs : Observe(s, r)
  BY <1>1, ObserveTies
<1>2. CASE \E c \in calls :
             CallFails(c) \/ NotTerminalYet(c) \/ AttachLands(c) \/ \E t \in Outcomes : SettleLands(c, t)
  BY <1>2, CallTies
<1>3. CASE UNCHANGED <<pending, byRun, seenRuns, calls, runOf>>
  BY <1>3, SameLapses DEF Ties
<1>4. CASE \E x \in Reservations : CleanUp(x) /\ UNCHANGED mediatorVars
  BY <1>4 DEF CleanUp, Ties, Lapses, Frees, TiesInv, RowsInv, RowsType, AttachInv
<1>5. CASE ProcessRestarts
  <2>1. /\ pending' = [g \in Guests |-> <<>>] /\ byRun' = [r \in Runs |-> None]
        /\ calls' = {} /\ UNCHANGED <<seenRuns, runOf>>
    BY <1>5 DEF ProcessRestarts
  <2>2. pending' \in [Guests -> Seq(Reservations)] /\ byRun' \in [Runs -> Reservations \cup {None}]
    BY <2>1
  <2>3. QED
    BY <2>1, <2>2 DEF Ties, Lapses, Frees, TiesInv, AttachInv
<1>6. CASE \E s \in Sockets : ReserveRejects(s)
  BY <1>3, <1>5, <1>6 DEF ReserveRejects
<1>7. CASE \E s \in Sockets : \E x \in Reservations : ReserveCommits(s, x)
  BY <1>3, <1>7 DEF ReserveCommits, Reserve
<1>8. CASE \/ Sweep \/ NextDay \/ UNCHANGED vars
           \/ \E x \in Reservations : Age(x) /\ UNCHANGED mediatorVars
  BY <1>3, <1>8 DEF Sweep, SweepAbandoned, NextDay, Age, vars
<1>9. CASE \/ \E g \in Guests : MintGuest(g) \/ GuestAges(g) \/ \E s \in Sockets : Attach(s, g)
           \/ \E r \in Runs : RunEmits(r)
           \/ \E s \in Sockets :
                 \/ UpstreamReady(s) \/ UpstreamCloses(s) \/ Detach(s) \/ Frame(s)
                 \/ \E f \in {"send", "long", "bad", "fast"} : HandleInbound(s, f)
                 \/ ReserveRefused(s) \/ GatewayTakes(s)
  <2>1. UNCHANGED <<pending, byRun, seenRuns, calls, runOf>>
    BY <1>9 DEF MintGuest, GuestAges, Attach, RunEmits, UpstreamReady, UpstreamCloses, Detach,
                Frame, HandleInbound, ReserveRefused, GatewayTakes
  <2>2. QED
    BY <1>3, <2>1
<1>10. QED
  BY <1>1, <1>2, <1>4, <1>5, <1>6, <1>7, <1>8, <1>9 DEF Next, Restart

LEMMA FreesRows ==
    ASSUME RowsInv, Frees, Rows' = Rows, Quiet
    PROVE  RowsInv'
<1>1. \A g \in Guests : \A i \in 1 .. Len(pending'[g]) :
          i \in 1 .. Len(pending[g]) /\ pending'[g][i] = pending[g][i]
  BY DEF Frees
<1>2. \A r \in Runs : byRun'[r] # None => byRun'[r] = byRun[r]
  BY DEF Frees
<1>3. \A s \in Sockets : Reserved(s)' => Reserved(s) /\ socket'[s].row = socket[s].row
  BY DEF Quiet
<1>4. \A g \in Guests : \A i \in 1 .. Len(pending'[g]) :
          /\ pending'[g][i] \in Rows' /\ pending'[g][i] # None
          /\ \A s \in Sockets : Reserved(s)' => socket'[s].row # pending'[g][i]
          /\ \A r \in Runs : byRun'[r] # pending'[g][i]
  <2>1. \A g \in Guests : \A i \in 1 .. Len(pending[g]) : pending[g][i] # None
    BY DEF RowsInv, QueuedInv, Rows
  <2>2. QED
    BY <1>1, <1>2, <1>3, <2>1 DEF RowsInv, QueuedInv
<1>5. QueuedInv'
  BY <1>1, <1>4 DEF RowsInv, QueuedInv
<1>6. HeldInv' /\ TakenInv'
  BY <1>2, <1>3 DEF RowsInv, HeldInv, TakenInv
<1>7. QED
  BY <1>5, <1>6 DEF RowsInv, RowsType, Frees

LEMMA TakesUpRows ==
    ASSUME SpendType, RowsInv, Frees, NEW s \in Sockets, NEW x \in Reservations, TakesUp(s, x)
    PROVE  RowsInv'
<1>1. x \notin Rows /\ Rows' = Rows \cup {x}
  BY ChargeAddsRow DEF TakesUp, SpendType
<1>2. \A g \in Guests : \A i \in 1 .. Len(pending'[g]) :
          i \in 1 .. Len(pending[g]) /\ pending'[g][i] = pending[g][i]
  BY DEF Frees
<1>3. \A r \in Runs : byRun'[r] # None => byRun'[r] = byRun[r]
  BY DEF Frees
<1>4. \A t \in Sockets : Reserved(t)' => \/ Reserved(t) /\ socket'[t].row = socket[t].row
                                         \/ t = s /\ socket'[t].row = x
  BY DEF TakesUp
<1>5. \A g \in Guests : \A i \in 1 .. Len(pending'[g]) :
          /\ pending'[g][i] \in Rows /\ pending'[g][i] # None
          /\ \A t \in Sockets : Reserved(t)' => socket'[t].row # pending'[g][i]
          /\ \A r \in Runs : byRun'[r] # pending'[g][i]
  <2>1. \A g \in Guests : \A i \in 1 .. Len(pending[g]) : pending[g][i] # None
    BY DEF RowsInv, QueuedInv, Rows
  <2>2. QED
    BY <1>1, <1>2, <1>3, <1>4, <2>1 DEF RowsInv, QueuedInv
<1>6. HeldInv' /\ TakenInv'
  BY <1>1, <1>3, <1>4 DEF RowsInv, HeldInv, TakenInv
<1>7. QueuedInv'
  BY <1>1, <1>2, <1>5 DEF RowsInv, QueuedInv
<1>8. QED
  BY <1>6, <1>7 DEF RowsInv, RowsType, Frees

LEMMA SendsRows ==
    ASSUME RowsInv, Rows' = Rows, NEW s \in Sockets, Sends(s), Queues(s)
    PROVE  RowsInv'
<1> DEFINE x == socket[s].row
           k == socket[s].guest
<1>1. /\ x \in Rows /\ x \in Reservations /\ x # None
      /\ \A t \in Sockets : Reserved(t) /\ socket[t].row = x => t = s
      /\ \A r \in Runs : byRun[r] # x
      /\ \A g \in Guests : \A i \in 1 .. Len(pending[g]) : pending[g][i] # x
  BY DEF RowsInv, HeldInv, QueuedInv, TakenInv, Rows, Sends
<1>2. \A t \in Sockets : Reserved(t)' => Reserved(t) /\ t # s /\ socket'[t].row = socket[t].row
  BY DEF Sends
<1>3. /\ pending' \in [Guests -> Seq(Reservations)]
      /\ \A g \in Guests : /\ g # k => pending'[g] = pending[g]
                           /\ g = k => pending'[g] = Append(pending[g], x)
  <2>1. /\ pending \in [Guests -> Seq(Reservations)]
        /\ pending' = [pending EXCEPT ![k] = Append(pending[k], x)]
    BY DEF RowsInv, RowsType, Queues
  <2>2. k \in Guests => Append(pending[k], x) \in Seq(Reservations)
    BY <1>1, <2>1
  <2> HIDE DEF x, k
  <2>3. QED
    BY <2>1, <2>2
<1>4. byRun' = byRun
  BY DEF Queues
<1>5. \A g \in Guests : Len(pending[g]) \in Nat
  BY DEF RowsInv, RowsType
<1> HIDE DEF x, k
<1>6. \A g \in Guests : \A i \in 1 .. Len(pending'[g]) :
          \/ i \in 1 .. Len(pending[g]) /\ pending'[g][i] = pending[g][i]
          \/ g = k /\ i = Len(pending[g]) + 1 /\ pending'[g][i] = x
  <2>1. SUFFICES ASSUME NEW g \in Guests, NEW i \in 1 .. Len(pending'[g])
                 PROVE  \/ i \in 1 .. Len(pending[g]) /\ pending'[g][i] = pending[g][i]
                        \/ g = k /\ i = Len(pending[g]) + 1 /\ pending'[g][i] = x
    OBVIOUS
  <2>2. pending[g] \in Seq(Reservations)
    BY DEF RowsInv, RowsType
  <2>3. CASE g = k
    <3>1. /\ Len(Append(pending[g], x)) = Len(pending[g]) + 1 /\ Len(pending[g]) \in Nat
          /\ Append(pending[g], x)[Len(pending[g]) + 1] = x
          /\ \A j \in 1 .. Len(pending[g]) : Append(pending[g], x)[j] = pending[g][j]
      BY <1>1, <2>2
    <3>2. QED
      BY <1>3, <2>1, <2>3, <3>1
  <2>4. QED
    BY <1>3, <2>1, <2>3
<1>7. \A g \in Guests : \A i \in 1 .. Len(pending'[g]) :
          /\ pending'[g][i] \in Rows
          /\ \A t \in Sockets : Reserved(t)' => socket'[t].row # pending'[g][i]
          /\ \A r \in Runs : byRun[r] # pending'[g][i]
  <2>1. SUFFICES ASSUME NEW g \in Guests, NEW i \in 1 .. Len(pending'[g])
                 PROVE  /\ pending'[g][i] \in Rows
                        /\ \A t \in Sockets : Reserved(t)' => socket'[t].row # pending'[g][i]
                        /\ \A r \in Runs : byRun[r] # pending'[g][i]
    OBVIOUS
  <2>2. CASE i \in 1 .. Len(pending[g]) /\ pending'[g][i] = pending[g][i]
    BY <1>2, <2>2 DEF RowsInv, QueuedInv
  <2>3. CASE pending'[g][i] = x
    BY <1>1, <1>2, <2>3 DEF x
  <2>4. QED
    BY <1>6, <2>2, <2>3
<1>8. \A g, h \in Guests : \A i \in 1 .. Len(pending'[g]), j \in 1 .. Len(pending'[h]) :
          pending'[g][i] = pending'[h][j] => g = h /\ i = j
  <2>1. SUFFICES ASSUME NEW g \in Guests, NEW h \in Guests, NEW i \in 1 .. Len(pending'[g]),
                        NEW j \in 1 .. Len(pending'[h]), pending'[g][i] = pending'[h][j]
                 PROVE  g = h /\ i = j
    OBVIOUS
  <2>2. /\ \/ i \in 1 .. Len(pending[g]) /\ pending'[g][i] = pending[g][i]
           \/ g = k /\ i = Len(pending[g]) + 1 /\ pending'[g][i] = x
        /\ \/ j \in 1 .. Len(pending[h]) /\ pending'[h][j] = pending[h][j]
           \/ h = k /\ j = Len(pending[h]) + 1 /\ pending'[h][j] = x
    BY <1>6
  <2>3. /\ i \in 1 .. Len(pending[g]) => pending[g][i] # x
        /\ j \in 1 .. Len(pending[h]) => pending[h][j] # x
    BY <1>1
  <2>4. i \in 1 .. Len(pending[g]) /\ j \in 1 .. Len(pending[h]) /\ pending[g][i] = pending[h][j]
        => g = h /\ i = j
    BY DEF RowsInv, QueuedInv
  <2>5. QED
    BY <2>1, <2>2, <2>3, <2>4, Zenon
<1>9. HeldInv' /\ TakenInv'
  BY <1>2, <1>4 DEF RowsInv, HeldInv, TakenInv
<1>10. QED
  BY <1>3, <1>4, <1>7, <1>8, <1>9 DEF RowsInv, RowsType, QueuedInv

LEMMA TakesRows ==
    ASSUME RowsInv, Rows' = Rows, Quiet, NEW k \in Guests, NEW q \in Runs, Takes(k, q)
    PROVE  RowsInv'
<1> DEFINE x == Head(pending[k])
<1>1. pending \in [Guests -> Seq(Reservations)] /\ pending[k] \in Seq(Reservations)
  BY DEF RowsInv, RowsType
<1>2. /\ Len(pending[k]) \in Nat \ {0} /\ x = pending[k][1] /\ Tail(pending[k]) \in Seq(Reservations)
      /\ Len(Tail(pending[k])) = Len(pending[k]) - 1
      /\ \A i \in 1 .. Len(pending[k]) - 1 : Tail(pending[k])[i] = pending[k][i + 1]
  BY <1>1 DEF Takes
<1>3. /\ x \in Rows /\ x \in Reservations
      /\ \A t \in Sockets : Reserved(t) => socket[t].row # x
      /\ \A r \in Runs : byRun[r] # x
      /\ \A g \in Guests : \A i \in 1 .. Len(pending[g]) : pending[g][i] = x => g = k /\ i = 1
  BY <1>2 DEF RowsInv, QueuedInv, Rows
<1>4. /\ pending' \in [Guests -> Seq(Reservations)]
      /\ pending'[k] = Tail(pending[k]) /\ \A g \in Guests \ {k} : pending'[g] = pending[g]
      /\ byRun' = [byRun EXCEPT ![q] = x]
  BY <1>1, <1>2 DEF Takes
<1> HIDE DEF x
<1>5. \A g \in Guests : \A i \in 1 .. Len(pending'[g]) :
          \/ g = k /\ i + 1 \in 1 .. Len(pending[k]) /\ i + 1 # 1 /\ pending'[g][i] = pending[k][i + 1]
          \/ g # k /\ i \in 1 .. Len(pending[g]) /\ pending'[g][i] = pending[g][i]
  <2>1. SUFFICES ASSUME NEW g \in Guests, NEW i \in 1 .. Len(pending'[g]), g = k
                 PROVE  i + 1 \in 1 .. Len(pending[k]) /\ i + 1 # 1
                        /\ Tail(pending[k])[i] = pending[k][i + 1]
    BY <1>4
  <2>2. i \in 1 .. Len(pending[k]) - 1
    BY <1>2, <1>4, <2>1
  <2>3. QED
    BY <1>2, <2>2
<1>6. \A g \in Guests : \A i \in 1 .. Len(pending'[g]) : i \in Nat
  BY <1>4
<1>7. byRun' \in [Runs -> Reservations \cup {None}]
      /\ byRun'[q] = x /\ \A r \in Runs \ {q} : byRun'[r] = byRun[r]
  BY <1>3, <1>4 DEF RowsInv, RowsType
<1>8. \A t \in Sockets : Reserved(t)' => Reserved(t) /\ socket'[t].row = socket[t].row
  BY DEF Quiet
<1>9. \A g \in Guests : \A i \in 1 .. Len(pending'[g]) :
          /\ pending'[g][i] \in Rows
          /\ \A t \in Sockets : Reserved(t)' => socket'[t].row # pending'[g][i]
          /\ \A r \in Runs : byRun'[r] # pending'[g][i]
  <2>1. SUFFICES ASSUME NEW g \in Guests, NEW i \in 1 .. Len(pending'[g])
                 PROVE  /\ pending'[g][i] \in Rows
                        /\ \A t \in Sockets : Reserved(t)' => socket'[t].row # pending'[g][i]
                        /\ \A r \in Runs : byRun'[r] # pending'[g][i]
    OBVIOUS
  <2>2. PICK j \in 1 .. Len(pending[g]) : pending'[g][i] = pending[g][j] /\ (g = k => j # 1)
    BY <1>5
  <2>3. pending[g][j] # x
    BY <1>3, <2>2
  <2>4. QED
    BY <1>7, <1>8, <2>2, <2>3 DEF RowsInv, QueuedInv
<1>10. \A g, h \in Guests : \A i \in 1 .. Len(pending'[g]), j \in 1 .. Len(pending'[h]) :
          pending'[g][i] = pending'[h][j] => g = h /\ i = j
  <2>1. SUFFICES ASSUME NEW g \in Guests, NEW h \in Guests, NEW i \in 1 .. Len(pending'[g]),
                        NEW j \in 1 .. Len(pending'[h]), pending'[g][i] = pending'[h][j]
                 PROVE  g = h /\ i = j
    OBVIOUS
  <2>2. CASE g = k /\ h = k
    <3>1. i + 1 = j + 1
      <4>1. /\ i + 1 \in 1 .. Len(pending[k]) /\ j + 1 \in 1 .. Len(pending[k])
            /\ pending[k][i + 1] = pending[k][j + 1]
        BY <1>5, <2>1, <2>2
      <4>2. QED
        BY <4>1, Zenon DEF RowsInv, QueuedInv
    <3>2. QED
      BY <1>6, <2>2, <3>1
  <2>3. CASE ~(g = k /\ h = k)
    BY <1>5, <2>1, <2>3 DEF RowsInv, QueuedInv
  <2>4. QED
    BY <2>2, <2>3
<1>11. HeldInv' /\ TakenInv'
  BY <1>3, <1>7, <1>8 DEF RowsInv, HeldInv, TakenInv
<1>12. QED
  BY <1>4, <1>7, <1>9, <1>10, <1>11 DEF RowsInv, RowsType, QueuedInv

LEMMA AttachStep ==
    ASSUME TiesInv, Ties \/ \E s \in Sockets : Queues(s)
    PROVE  AttachInv'
<1>1. AttachInv
  BY DEF TiesInv
<1>2. CASE Lapses
  <2>1. \A x \in Reservations : runOf'[x] # None => runOf'[x] = runOf[x]
    BY <1>2 DEF Lapses
  <2>2. QED
    BY <1>1, <1>2, <2>1 DEF AttachInv, Lapses, Calls
<1>3. CASE \E g \in Guests, r \in Runs : Takes(g, r)
  <2>1. PICK g \in Guests, r \in Runs : Takes(g, r)
    BY <1>3
  <2>2. PICK x \in Reservations : x = Head(pending[g])
    BY <2>1 DEF Takes, TiesInv, RowsInv, RowsType
  <2> DEFINE c == [op |-> "attach", row |-> x, run |-> r, left |-> 0]
  <2>3. c \in Calls /\ c.op = "attach" /\ c.run = r /\ c.row = x
    BY DEF Calls
  <2>4. /\ r \notin seenRuns /\ seenRuns' = seenRuns \cup {r} /\ runOf' = runOf
        /\ calls' = calls \cup {c}
    BY <2>1, <2>2 DEF Takes
  <2> HIDE DEF c
  <2>5. QED
    BY <1>1, <2>3, <2>4 DEF AttachInv
<1>4. CASE \E c \in calls : Lands(c)
  <2>1. PICK c \in calls : Lands(c)
    BY <1>4
  <2>2. c \in Calls /\ c.row \in Reservations /\ c.run \in Runs /\ c.op = "attach"
    BY <1>1, <2>1 DEF AttachInv, Calls, Lands
  <2>3. /\ calls' = calls \ {c} /\ seenRuns' = seenRuns
        /\ \A y \in Reservations : runOf'[y] = runOf[y] \/ (y = c.row /\ runOf'[y] = c.run)
        /\ runOf' \in [Reservations -> Runs \cup {None}]
    BY <1>1, <2>1, <2>2 DEF Lands, AttachInv
  <2>4. QED
    BY <1>1, <2>2, <2>3 DEF AttachInv
<1>5. CASE \E s \in Sockets : Queues(s)
  BY <1>1, <1>5 DEF Queues, AttachInv
<1>6. QED
  BY <1>2, <1>3, <1>4, <1>5 DEF Ties

LEMMA TiesStep == ASSUME SpendType, TiesInv, [Next]_vars PROVE TiesInv'
<1>1. Attended' /\ RowsInv
  BY AttendedStep DEF TiesInv
<1>2. CASE \E s \in Sockets : Forward(s)
  <2>1. PICK s \in Sockets : Forward(s)
    BY <1>2
  <2>2. Sends(s) /\ Queues(s) /\ Rows' = Rows
    BY <2>1, ForwardStep, MovesKeepRows DEF Forward, Queues, ledgerVars, runVars
  <2>3. QED
    BY <1>1, <2>2, SendsRows, AttachStep DEF TiesInv
<1>3. CASE ~\E s \in Sockets : Forward(s)
  <2>1. Ties /\ AttachInv'
    BY <1>3, StepTies, AttachStep
  <2>2. CASE \E s \in Sockets : \E x \in Reservations : ReserveCommits(s, x)
    <3>1. PICK s \in Sockets, x \in Reservations : ReserveCommits(s, x)
      BY <2>2
    <3>2. TakesUp(s, x) /\ Frees
      BY <1>1, <3>1, CommitStep DEF ReserveCommits, Frees, RowsInv, RowsType, guestVars, runVars
    <3>3. QED
      BY <1>1, <2>1, <3>2, TakesUpRows DEF TiesInv
  <2>3. CASE ~\E s \in Sockets : \E x \in Reservations : ReserveCommits(s, x)
    <3>1. Quiet /\ Rows' = Rows
      BY <1>3, <2>3, QuietStep, MovesKeepRows
    <3>2. CASE Frees
      BY <1>1, <2>1, <3>1, <3>2, FreesRows DEF TiesInv
    <3>3. CASE \E g \in Guests, r \in Runs : Takes(g, r)
      BY <1>1, <2>1, <3>1, <3>3, TakesRows DEF TiesInv
    <3>4. CASE \E c \in calls : Lands(c)
      BY <1>1, <3>2, <3>4 DEF Lands, Frees, RowsInv, RowsType
    <3>5. QED
      BY <2>1, <3>2, <3>3, <3>4 DEF Ties, Lapses
  <2>4. QED
    BY <2>2, <2>3
<1>4. QED
  BY <1>2, <1>3

LEMMA TiesInit == Init => TiesInv
<1>1. SUFFICES ASSUME Init PROVE TiesInv
  OBVIOUS
<1>2. Attended
  BY <1>1 DEF Init, Attended, NoSocket
<1>3. RowsInv
  BY <1>1 DEF Init, LedgerInit, RowsInv, RowsType, HeldInv, QueuedInv, TakenInv, Reserved,
              NoSocket
<1>4. AttachInv
  BY <1>1 DEF Init, LedgerInit, AttachInv
<1>5. QED
  BY <1>2, <1>3, <1>4 DEF TiesInv

(* A reservation waits for at most one run and is held for at most one,    *)
(* and no run is charged to two rows, for any guests, sockets and replays  *)
(* of message_started, lost attach calls and restarts                      *)
(* (mediator.ts observeChatEvent).                                         *)
THEOREM RunsPaidOnce == Spec => []OneRunPerReservation
<1>1. TiesInv => OneRunPerReservation
  <2>1. SUFFICES ASSUME TiesInv PROVE OneRunPerReservation
    OBVIOUS
  <2>2. \A g \in Guests : DOMAIN pending[g] = 1 .. Len(pending[g])
    BY <2>1 DEF TiesInv, RowsInv, RowsType
  <2>3. QED
    BY <2>1, <2>2 DEF TiesInv, RowsInv, QueuedInv, TakenInv, AttachInv, OneRunPerReservation
<1>2. IInv /\ TiesInv /\ [Next]_vars => TiesInv'
  BY TiesStep DEF IInv
<1>3. QED
  BY <1>1, <1>2, TiesInit, SpendInvariant, PTL DEF Spec

=============================================================================
