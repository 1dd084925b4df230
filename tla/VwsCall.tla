------------------------------ MODULE VwsCall ------------------------------
(***************************************************************************)
(* What a call of the client (Subscribe, Unsubscribe, UnsubscribeAll,      *)
(* Publish, PublishSync) promises whoever makes it: it ends at most once;  *)
(* the server decides on it at most once; and a call that ends with an     *)
(* answer ends with what the server decided on this very call, whatever    *)
(* happens to connections, contexts and other calls meanwhile.             *)
(***************************************************************************)
CONSTANT Requests

VARIABLES outcome, \* per call: "none", or how it has ended: "ok", "refused"
                   \* (answered), "sent" (a Publish), "failed", "panicked"
          verdict  \* per call: "none", or what the server did: "ok", "refused"

vars == <<outcome, verdict>>

Init ==
  /\ outcome = [r \in Requests |-> "none"]
  /\ verdict = [r \in Requests |-> "none"]

Decide(r) ==
  /\ verdict[r] = "none"
  /\ \E v \in {"ok", "refused"} : verdict' = [verdict EXCEPT ![r] = v]
  /\ UNCHANGED outcome

End(r) ==
  /\ outcome[r] = "none"
  /\ \E o \in {"sent", "failed", "panicked", verdict[r]} \ {"none"} :
       outcome' = [outcome EXCEPT ![r] = o]
  /\ UNCHANGED verdict

Next == \E r \in Requests : Decide(r) \/ End(r)

Spec == Init /\ [][Next]_vars
=============================================================================
