--------------------------- MODULE MCVwsBuilders ---------------------------
(* Model checking of what the two builders configure, of listeners         *)
(* (VwsHandling) and of clients (VwsDial).  They share nothing, so that    *)
(* their interleavings add nothing: each takes its steps while the other   *)
(* is in its initial state.                                                *)
(* The listeners': a topic with the prefix and one without, the predefined *)
(* authorization functions, chains whose second function sees what the     *)
(* first has made of the event, one that drops in a chain.                 *)
EXTENDS VwsHandling, VwsDial, TLC

A == <<"a">>
B == <<"b">>
MCTopics == {<<>>, A, B}
MCPrefixes == {<<>>, A}

Rename == [t \in MCTopics |-> IF t = A THEN Pass(B) ELSE Pass(t)]

MCPolicies ==
  {<<AllowAllEvents>>, <<Rename, AllowTopicPrefix(A)>>,
   <<AllowTopicPattern({A}), Rename, DropAllEvents, DenyAllEvents>>}
MCPipelines == {[t \in MCTopics |-> IF t = B THEN Dropped ELSE Rename[t]]}
MCInitial == {{B}}

Symmetry == Permutations(Buses) \cup Permutations(Clients)

-----------------------------------------------------------------------------
BothInit == Init /\ DialInit

BothNext ==
  \/ DialInit /\ Next /\ UNCHANGED dialVars
  \/ Init /\ DialNext /\ UNCHANGED vars

BothSpec == BothInit /\ [][BothNext]_<<vars, dialVars>>
=============================================================================
