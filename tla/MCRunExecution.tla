--------------------------- MODULE MCRunExecution ---------------------------
(* Constants of the TLC runs of RunExecution. *)
EXTENDS RunExecution

(* Every run is started on the same session. *)
OneSession == [r \in Runs |-> CHOOSE s \in Sessions : TRUE]

AllDeadlines == {"model", "tool", "total"}

(* Calls that may reject without effect; the best-effort writes that close *)
(* a run are kept reliable in the runs that check the records they write.  *)
LostDuringSetup == {"prereqs", "createRun", "createUser"}
LostInLoop == {"history", "saveCalls", "createCall", "recordCall", "toolMessage",
               "saveText", "complete", "maxFail"}
LostAtExit == {"finalize", "closeCalls", "saveTrace", "driveCancel"}
LostAnywhere == LostDuringSetup \cup {"recheck"} \cup LostInLoop \cup LostAtExit

(* Writes that may reject after they took effect. *)
UnackedWrites == {"createRun", "recordCall", "complete", "maxFail", "finalize"}
=============================================================================
