-------------------------- MODULE MCVwsConnection --------------------------
(* A TLC instance of VwsConnection: two topics, one of them an initial     *)
(* subscription that clients may not name, and an event on each, one with  *)
(* headers and one without.                                                *)
EXTENDS VwsConnection

CONSTANTS ticker, alert, trace

MCTopics == {ticker, alert}
MCInitialTopics == {ticker}
MCAllowed == {alert}

(* The only events when the server makes no subscription of its own. *)
MCClientEvents == {[topic |-> alert, headers |-> trace]}
MCEvents == MCClientEvents \cup {[topic |-> ticker, headers |-> Absent]}
=============================================================================
