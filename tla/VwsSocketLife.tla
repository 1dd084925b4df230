--------------------------- MODULE VwsSocketLife ---------------------------
(***************************************************************************)
(* What a server connection promises the listener that serves it: its      *)
(* socket closes once and for good, Connection.Start returns only after    *)
(* that, and does return then.  VwsConnection implements this, and every   *)
(* handler of VwsListener relies on it at the call of Start.               *)
(***************************************************************************)
VARIABLES sock,     \* "open", "closed"
          returned  \* Start has returned

vars == <<sock, returned>>

Init == sock = "open" /\ returned = FALSE

Close ==
  /\ sock = "open"
  /\ sock' = "closed"
  /\ UNCHANGED returned

Return ==
  /\ sock = "closed" /\ ~returned
  /\ returned' = TRUE
  /\ UNCHANGED sock

Next == Close \/ Return

Spec == Init /\ [][Next]_vars

(* Fairness of Return, stated without ENABLED. *)
FairSpec == Spec /\ (sock = "closed" ~> returned)
=============================================================================
