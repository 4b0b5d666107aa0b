----------------------------- MODULE MCGateway -----------------------------
(* Instances of Gateway for TLC.  Sockets and runs are interchangeable.    *)
EXTENDS Gateway, TLC

SocketSymmetry == Permutations(Sockets)
RunSymmetry    == Permutations(Runs)
Interchangeable == SocketSymmetry \cup RunSymmetry

(* Two instances in one: three sockets around one run, and two around two  *)
(* runs of a server without Redis.                                         *)
ThreeSocketsOrTwoRuns ==
    \/ \E r \in Runs : run[r] = "idle"
    \/ ~redisActive /\ \E w \in Sockets : wire[w] = "none"
=============================================================================
