--------------------------- MODULE MCControlPlane ---------------------------
(***************************************************************************)
(* Two workspaces with their owners and keys; the first has an agent with  *)
(* a session, a run and a trace.  A third principal has no user row yet.   *)
(***************************************************************************)
EXTENDS ControlPlane, TLC

CONSTANTS p1, p2

MCWorld ==
    [users |-> (-11 :> "ann" @@ -12 :> "bob"), workspaces |-> {-21, -22},
     members |-> {<<-11, -21>>, <<-12, -22>>},
     keys |-> (-31 :> [ws |-> -21, by |-> -11, revokedBy |-> None]
               @@ -32 :> [ws |-> -22, by |-> -12, revokedBy |-> None]),
     agents |-> (-41 :> [ws |-> -21, name |-> "helper", url |-> None]),
     sessions |-> (-51 :> [agent |-> -41, status |-> "active"]), runs |-> (-61 :> -51),
     traces |-> (-71 :> -61)]

MCAppKey == -31

(* Two requests of any kind and a failing query; two apps; an app and a     *)
(* request and a failing query                                             *)
MCBudgets == {[requests |-> 2, failures |-> 1, apps |-> {}],
              [requests |-> 0, failures |-> 1, apps |-> {p1, p2}],
              [requests |-> 1, failures |-> 0, apps |-> {p1}]}
=============================================================================
