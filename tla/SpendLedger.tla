---------------------------- MODULE SpendLedger ----------------------------
(***************************************************************************)
(* The playground's spend ledger (packages/db playground-spend-repo.ts)    *)
(* with the retention job, as Postgres executes them: each operation is    *)
(* one transaction or one statement.  Amounts are the one reservation the  *)
(* mediator's configuration derives.                                       *)
(***************************************************************************)
EXTENDS Integers, FiniteSets

CONSTANTS Reservations,   \* bound: reservation ids that may still be minted
          Runs,           \* bound: run ids of the playground's sessions
          LastDay,        \* bound: days that pass
          Amount,         \* reservationMicroUsd
          Ceiling,        \* dailyCeilingMicroUsd
          None

ASSUME LedgerAssumption ==
    /\ IsFiniteSet(Reservations)
    /\ None \notin Runs
    /\ LastDay \in Nat
    /\ Amount \in Nat \ {0}
    /\ Ceiling \in Nat

Days == 0 .. LastDay
TerminalStatus == {"completed", "failed", "cancelled", "timed_out", "abandoned"}

VARIABLES
    status,    \* each reservation row: "none" before the insert, "reserved", then
               \* "overdue" once older than abandonedAfterMs, "settled", "deleted"
               \* after the retention job took it
    dayOf,     \* the day a row is charged to
    runOf,     \* run_id, None while not attached
    outcome,   \* terminal_status, "none" while not settled
    total      \* playground_spend_days.reserved_total_micro_usd

ledgerVars == <<status, dayOf, runOf, outcome, total>>

LedgerTypeOK ==
    /\ status \in [Reservations -> {"none", "reserved", "overdue", "settled",
                                  "deleted"}]
    /\ dayOf \in [Reservations -> Days]
    /\ runOf \in [Reservations -> Runs \cup {None}]
    /\ outcome \in [Reservations -> TerminalStatus \cup {"none"}]
    /\ total \in [Days -> 0 .. Ceiling]

LedgerInit ==
    /\ status = [x \in Reservations |-> "none"]
    /\ dayOf = [x \in Reservations |-> 0]
    /\ runOf = [x \in Reservations |-> None]
    /\ outcome = [x \in Reservations |-> "none"]
    /\ total = [d \in Days |-> 0]

-----------------------------------------------------------------------------
(* The rows whose status column says reserved *)
Open == {x \in Reservations : status[x] \in {"reserved", "overdue"}}

(* The conditional UPDATE of the day row. *)
FitsUnderCeiling(d) == total[d] + Amount <= Ceiling

(* Mutant: a crash between two statements leaves the row without its       *)
(* charge.                                                                 *)
ReserveInTwoSteps(x, d) ==
    /\ status[x] = "none"
    /\ FitsUnderCeiling(d)
    /\ status' = [status EXCEPT ![x] = "reserved"]
    /\ dayOf' = [dayOf EXCEPT ![x] = d]
    /\ \/ total' = [total EXCEPT ![d] = @ + Amount]
       \/ UNCHANGED total
    /\ UNCHANGED <<runOf, outcome>>

(* reserve, accepted: the charge and the row in one transaction *)
Reserve(x, d) ==
    /\ status[x] = "none"
    /\ FitsUnderCeiling(d)
    /\ status' = [status EXCEPT ![x] = "reserved"]
    /\ dayOf' = [dayOf EXCEPT ![x] = d]
    /\ total' = [total EXCEPT ![d] = @ + Amount]
    /\ UNCHANGED <<runOf, outcome>>

(* attachRun: only a row without a run takes one *)
AttachRun(x, r) ==
    /\ runOf' = IF status[x] \in {"reserved", "overdue", "settled"} /\ runOf[x] = None
                THEN [runOf EXCEPT ![x] = r] ELSE runOf
    /\ UNCHANGED <<status, dayOf, outcome, total>>

(* Mutant: a settle does not look at the status. *)
SettleUnguarded(x, t) ==
    /\ status' = [status EXCEPT ![x] = "settled"]
    /\ outcome' = [outcome EXCEPT ![x] = t]
    /\ UNCHANGED <<dayOf, runOf, total>>

(* settle: guarded on the status; the day's total stands *)
Settle(x, t) ==
    /\ status' = IF x \in Open THEN [status EXCEPT ![x] = "settled"] ELSE status
    /\ outcome' = IF x \in Open THEN [outcome EXCEPT ![x] = t] ELSE outcome
    /\ UNCHANGED <<dayOf, runOf, total>>

(* sweepAbandoned: one UPDATE over every old row that is still reserved *)
SweepAbandoned ==
    LET abandoned == {x \in Reservations : status[x] = "overdue"} IN
    /\ status' = [x \in Reservations |-> IF x \in abandoned THEN "settled" ELSE status[x]]
    /\ outcome' = [x \in Reservations |-> IF x \in abandoned THEN "abandoned" ELSE outcome[x]]
    /\ UNCHANGED <<dayOf, runOf, total>>

(* The retention job deletes settled rows past the audit window, never the *)
(* day totals.                                                             *)
CleanUp(x) ==
    /\ status[x] = "settled"
    /\ status' = [status EXCEPT ![x] = "deleted"]
    /\ runOf' = [runOf EXCEPT ![x] = None]
    /\ outcome' = [outcome EXCEPT ![x] = "none"]
    /\ UNCHANGED <<dayOf, total>>

(* abandonedAfterMs passes for a row. *)
Age(x) ==
    /\ status[x] = "reserved"
    /\ status' = [status EXCEPT ![x] = "overdue"]
    /\ UNCHANGED <<dayOf, runOf, outcome, total>>

LedgerNext ==
    \/ \E x \in Reservations :
          \/ \E d \in Days : Reserve(x, d)
          \/ \E r \in Runs : AttachRun(x, r)
          \/ \E t \in TerminalStatus : Settle(x, t)
          \/ Age(x) \/ CleanUp(x)
    \/ SweepAbandoned

LedgerSpec == LedgerInit /\ [][LedgerNext]_ledgerVars

-----------------------------------------------------------------------------
(* Properties *)

(* The reservations ever accepted for a day *)
Accepted(d) == {x \in Reservations : status[x] # "none" /\ dayOf[x] = d}

(* The day's total is exactly what was accepted that day, deleted rows     *)
(* included, and never passes the ceiling: no settle, sweep or cleanup     *)
(* gives money back and no crash charges without a row.                    *)
TotalIsAccepted ==
    \A d \in Days : /\ total[d] = Amount * Cardinality(Accepted(d))
                    /\ total[d] <= Ceiling

(* A settled reservation keeps its outcome and its day until it is         *)
(* deleted, whichever of settle and sweep came second, and a deleted one   *)
(* never comes back.                                                       *)
SettledIsFinal ==
    [][\A x \in Reservations :
          /\ status[x] = "settled" => \/ status'[x] = "settled" /\ outcome'[x] = outcome[x]
                                     \/ status'[x] = "deleted"
          /\ status[x] = "deleted" => status'[x] = "deleted"
          /\ status[x] # "none" => dayOf'[x] = dayOf[x]]_ledgerVars
=============================================================================
