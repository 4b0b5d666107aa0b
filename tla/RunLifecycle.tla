---------------------------- MODULE RunLifecycle ----------------------------
(***************************************************************************)
(* What the run execution service promises about a run, whatever the loop  *)
(* does inside it: a run owns its session while it is in flight, its row   *)
(* is created once, by the owner, and leaves `running` at most once, again *)
(* only while its run still owns the session.                              *)
(*                                                                         *)
(* This is the abstract specification; RunExecution implements it.         *)
(***************************************************************************)
CONSTANTS Runs,       \* run ids, one per call of start()
          Sessions,   \* session ids
          None,       \* "no owner"
          SessionOf   \* the session each start() call names

VARIABLES owner,      \* owner[s]: the run in flight on session s, or None
          row         \* row[r]: the status column of the run row, or "absent"

lifecycleVars == <<owner, row>>

Terminal == {"completed", "failed", "cancelled", "timed_out"}
RunStatus == {"running"} \cup Terminal

Owns(r) == owner[SessionOf[r]] = r

LifecycleInit ==
    /\ owner = [s \in Sessions |-> None]
    /\ row = [r \in Runs |-> "absent"]

(* A start takes a free session. *)
Acquire(r) ==
    /\ owner[SessionOf[r]] = None
    /\ owner' = [owner EXCEPT ![SessionOf[r]] = r]
    /\ UNCHANGED row

(* The owner inserts its row. *)
Create(r) ==
    /\ Owns(r)
    /\ row[r] = "absent"
    /\ row' = [row EXCEPT ![r] = "running"]
    /\ UNCHANGED owner

(* The owner moves its row to a terminal status. *)
Finish(r, st) ==
    /\ Owns(r)
    /\ row[r] = "running"
    /\ row' = [row EXCEPT ![r] = st]
    /\ UNCHANGED owner

(* The owner gives the session back, in the same step in which it creates  *)
(* its row and gets an error back, or lands its last terminal write.       *)
Release(r) ==
    /\ Owns(r)
    /\ owner' = [owner EXCEPT ![SessionOf[r]] = None]
    /\ \/ UNCHANGED row
       \/ row[r] = "absent" /\ row' = [row EXCEPT ![r] = "running"]
       \/ row[r] = "running" /\ row' = [row EXCEPT ![r] = "cancelled"]

(* The process restarts: every owner is gone, every row stays.             *)
Restart ==
    /\ owner' = [s \in Sessions |-> None]
    /\ UNCHANGED row

LifecycleNext ==
    \/ Restart
    \/ \E r \in Runs : \/ Acquire(r)
                       \/ Create(r)
                       \/ \E st \in Terminal : Finish(r, st)
                       \/ Release(r)

LifecycleSpec == LifecycleInit /\ [][LifecycleNext]_lifecycleVars
=============================================================================
