---------------------------- MODULE MCMediator ----------------------------
(* Instances of Mediator for TLC *)
EXTENDS Mediator, TLC
CONSTANTS x1, x2, r1, r2, g1, s1, s2
Symmetry == Permutations(Reservations) \cup Permutations(Sockets) \cup Permutations(Runs)

(* Two instances in one: a single run with everything that may go wrong,   *)
(* and two runs of live guests in one process, over rows of their time.    *)
TwoRunsOrTrouble ==
    \/ \E r \in Runs : session[r] = None
    \/ /\ ~restarted /\ \A g \in Guests : guest[g] = "live"
       /\ \A x \in Reservations : status[x] \in {"none", "reserved", "settled"}
       /\ \A s \in Sockets : socket[s].guest # None => socket[s].open
=============================================================================
