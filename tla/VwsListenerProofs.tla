------------------------- MODULE VwsListenerProofs -------------------------
(***************************************************************************)
(* Theorems about VwsListener for every finite set of requests and every   *)
(* set of callers.  IInv is inductive: the lemmas below show each of its   *)
(* parts preserved by the actions of a request's goroutine, of a caller of *)
(* Shutdown and of the closing goroutines.                                 *)
(***************************************************************************)
EXTENDS VwsListener, FiniteSetTheorems, TLAPS

(* Everything a caller of Shutdown does leaves the requests alone, and     *)
(* everything a request does leaves the callers alone: the two families of *)
(* actions.                                                                *)
HandlerAction(h) ==
  \/ Accept(h) \/ AcceptFails(h) \/ ConnectionEnds(h) \/ ServeHTTP(h)

CallerAction(s) == CallShutdown(s) \/ ReturnCtxErr(s) \/ Shutdown(s)

LEMMA NextCases ==
  Next <=> \/ \E h \in Handlers : HandlerAction(h) \/ ShutdownClose(h)
           \/ \E s \in Callers : CallerAction(s)
BY Zenon DEF Next, Environment, HandlerAction, CallerAction

LEMMA CountIsNat ==
  ASSUME NEW S, S \subseteq Handlers
  PROVE  Cardinality(S) \in Nat
BY HandlersAssumption, FS_Subset, FS_CardinalityType

(* Type correctness. *)
LEMMA TypePreserved ==
  ASSUME TypeOK, [Next]_vars
  PROVE  TypeOK'
<1>1. ASSUME NEW h \in Handlers, HandlerAction(h)
      PROVE  TypeOK'
  <2>1. connections' \subseteq Handlers
    BY <1>1 DEF TypeOK, HandlerAction, ServeHTTP, Accept, AcceptFails, ConnectionEnds,
       Reject, PassCheck, Track, RecordTracked, StartReturns, Untrack, RecordUntracked
  <2>2. Cardinality(connections') \in Nat
    BY <2>1, CountIsNat
  <2> QED
    BY <1>1, <2>1, <2>2 DEF TypeOK, HandlerAction, ServeHTTP, Accept, AcceptFails,
       ConnectionEnds, Reject, PassCheck, Track, RecordTracked, StartReturns, Untrack,
       RecordUntracked, HandlerStep, HandlerPC, shutdownVars
<1>2. ASSUME NEW h \in Handlers, ShutdownClose(h)
      PROVE  TypeOK'
  BY <1>2 DEF TypeOK, ShutdownClose
<1>3. ASSUME NEW s \in Callers, CallerAction(s)
      PROVE  TypeOK'
  BY <1>3 DEF TypeOK, CallerAction, CallShutdown, ReturnCtxErr, Shutdown, CloseShutdown,
     TakeSnapshot, SpawnCloses, SkipOnce, ReturnNil, CallerStep, CallerPC, handlerVars
<1>4. CASE UNCHANGED vars
  BY <1>4 DEF TypeOK, vars, handlerVars, shutdownVars
<1> QED
  BY <1>1, <1>2, <1>3, <1>4, NextCases

(* A request's goroutine preserves the invariant: it leaves Shutdown's     *)
(* state alone, tracks itself only when it is a racer or no snapshot has   *)
(* been taken, and never reopens a socket.                                 *)
LEMMA HandlerPreserves ==
  ASSUME IInv, NEW h \in Handlers, HandlerAction(h), TypeOK'
  PROVE  IInv'
<1> USE DEF IInv, TypeOK, HandlerInv, Tracked, HandlerStep, shutdownVars
<1>1. UNCHANGED shutdownVars
  BY DEF HandlerAction, ServeHTTP, Accept, AcceptFails, ConnectionEnds, Reject,
     PassCheck, Track, RecordTracked, StartReturns, Untrack, RecordUntracked
<1>2. HandlerInv'
  BY DEF HandlerAction, ServeHTTP, Accept, AcceptFails, ConnectionEnds, Reject,
     PassCheck, Track, RecordTracked, StartReturns, Untrack, RecordUntracked, HandlerPC
<1>3. OnceInv'
  BY <1>1 DEF OnceInv
<1>4. SnapshotTaken' <=> SnapshotTaken
  BY <1>1 DEF SnapshotTaken
<1>5. SnapshotInv'
  <2>1. CASE Accept(h) \/ AcceptFails(h) \/ ConnectionEnds(h) \/ Reject(h)
    BY <1>1, <1>4, <2>1 DEF SnapshotInv, Accept, AcceptFails, ConnectionEnds, Reject
  <2>2. CASE PassCheck(h)
    BY <1>1, <1>4, <2>2 DEF SnapshotInv, PassCheck
  <2>3. CASE Track(h)
    <3>1. SnapshotTaken => shutdown
      BY DEF SnapshotTaken, OnceInv
    <3>2. h \notin snapshot
      BY <2>3 DEF Track, SnapshotInv
    <3> QED
      BY <1>1, <1>4, <2>3, <3>1, <3>2 DEF SnapshotInv, Track
  <2>4. CASE RecordTracked(h) \/ StartReturns(h)
    BY <1>1, <1>4, <2>4 DEF SnapshotInv, RecordTracked, StartReturns
  <2>5. CASE Untrack(h) \/ RecordUntracked(h)
    BY <1>1, <1>4, <2>5 DEF SnapshotInv, Untrack, RecordUntracked
  <2> QED
    BY <2>1, <2>2, <2>3, <2>4, <2>5 DEF HandlerAction, ServeHTTP
<1>6. DrainInv'
  <2>1. connections' \subseteq connections \/ (h \notin snapshot /\ connections' = connections \cup {h})
    BY DEF SnapshotInv, HandlerAction, ServeHTTP, Accept, AcceptFails, ConnectionEnds,
       Reject, PassCheck, Track, RecordTracked, StartReturns, Untrack, RecordUntracked
  <2> QED
    BY <1>1, <2>1 DEF DrainInv
<1> QED
  BY <1>2, <1>3, <1>5, <1>6

(* A closing goroutine only closes a socket it was started for. *)
LEMMA ShutdownClosePreserves ==
  ASSUME IInv, NEW h \in Handlers, ShutdownClose(h), TypeOK'
  PROVE  IInv'
<1> USE DEF IInv, TypeOK, ShutdownClose
<1>1. HandlerInv'
  BY DEF HandlerInv, Tracked, SnapshotInv
<1>2. OnceInv'
  BY DEF OnceInv
<1>3. SnapshotInv'
  BY DEF SnapshotInv, SnapshotTaken
<1>4. DrainInv'
  BY DEF DrainInv
<1> QED
  BY <1>1, <1>2, <1>3, <1>4

(* A caller of Shutdown: one step per action. *)
LEMMA CallerPreserves ==
  ASSUME IInv, NEW s \in Callers, CallerAction(s), TypeOK'
  PROVE  IInv'
<1> USE DEF IInv, TypeOK, CallerStep, handlerVars
<1>1. HandlerInv'
  BY DEF HandlerInv, Tracked, CallerAction, CallShutdown, ReturnCtxErr, Shutdown,
     CloseShutdown, TakeSnapshot, SpawnCloses, SkipOnce, ReturnNil
<1>2. OnceInv'
  BY DEF OnceInv, CallerAction, CallShutdown, ReturnCtxErr, Shutdown, CloseShutdown,
     TakeSnapshot, SpawnCloses, SkipOnce, ReturnNil, CallerPC
<1>3. SnapshotInv' /\ DrainInv'
  <2>1. CASE CloseShutdown(s)
    BY <2>1 DEF CloseShutdown, SnapshotInv, SnapshotTaken, DrainInv, OnceInv, HandlerInv, Tracked
  <2>2. CASE TakeSnapshot(s)
    BY <2>2 DEF TakeSnapshot, SnapshotInv, SnapshotTaken, DrainInv, OnceInv, HandlerInv, Tracked
  <2>3. CASE SpawnCloses(s)
    BY <2>3 DEF SpawnCloses, SnapshotInv, SnapshotTaken, DrainInv, OnceInv
  <2>4. CASE SkipOnce(s) \/ CallShutdown(s) \/ ReturnCtxErr(s) \/ ReturnNil(s)
    BY <2>4 DEF SkipOnce, CallShutdown, ReturnCtxErr, ReturnNil, SnapshotInv,
       SnapshotTaken, DrainInv, OnceInv
  <2> QED
    BY <2>1, <2>2, <2>3, <2>4 DEF CallerAction, Shutdown
<1> QED
  BY <1>1, <1>2, <1>3

LEMMA InitIInv == Init => IInv
<1> SUFFICES ASSUME Init PROVE IInv
  OBVIOUS
<1>1. TypeOK
  BY DEF Init, TypeOK, HandlerPC, CallerPC
<1>2. HandlerInv /\ OnceInv /\ SnapshotInv /\ DrainInv
  BY DEF Init, HandlerInv, Tracked, OnceInv, SnapshotInv, SnapshotTaken, DrainInv
<1> QED
  BY <1>1, <1>2 DEF IInv

LEMMA NextIInv == IInv /\ [Next]_vars => IInv'
<1> SUFFICES ASSUME IInv, [Next]_vars PROVE IInv'
  OBVIOUS
<1>1. TypeOK'
  BY TypePreserved DEF IInv
<1>2. CASE UNCHANGED vars
  BY <1>1, <1>2 DEF IInv, HandlerInv, Tracked, OnceInv, SnapshotInv, SnapshotTaken,
     DrainInv, vars, handlerVars, shutdownVars
<1> QED
  BY <1>1, <1>2, NextCases, HandlerPreserves, ShutdownClosePreserves, CallerPreserves

(* The invariant of the listener. *)
THEOREM Invariant == Spec => []IInv
BY InitIInv, NextIInv, PTL DEF Spec

(* Every variable keeps its type. *)
THEOREM TypeCorrect == Spec => []TypeOK
<1>1. IInv => TypeOK
  BY DEF IInv
<1> QED
  BY <1>1, Invariant, PTL

(* Only requests caught between the shutdown check and their tracking when *)
(* the channel was closed can escape the snapshot.                         *)
THEOREM Stragglers == Spec => []StragglersAreRacers
<1>1. IInv => StragglersAreRacers
  BY DEF IInv, SnapshotInv, SnapshotTaken, StragglersAreRacers
<1> QED
  BY <1>1, Invariant, PTL

(* Whoever returns from Shutdown, every connection of the snapshot is told *)
(* to close by then.                                                       *)
THEOREM Signalled == Spec => []ReturnMeansSignalled
<1>1. IInv => ReturnMeansSignalled
  BY DEF IInv, OnceInv, SnapshotInv, ReturnMeansSignalled
<1> QED
  BY <1>1, Invariant, PTL

(* A nil result means that every connection of the snapshot is gone. *)
THEOREM Drained == Spec => []NilMeansDrained
<1>1. ASSUME IInv PROVE NilMeansDrained
  <2> SUFFICES ASSUME NEW s \in Callers, spc[s] = "nil", NEW h \in snapshot
               PROVE  h \notin connections /\ sock[h] = "closed"
    BY DEF NilMeansDrained
  <2>1. h \in Handlers /\ h \notin connections /\ sock[h] # "none"
    BY <1>1 DEF IInv, TypeOK, DrainInv, SnapshotInv
  <2>2. pc[h] \in {"gaugeDown", "returned"}
    BY <1>1, <2>1 DEF IInv, SnapshotInv, HandlerInv, Tracked
  <2> QED
    BY <1>1, <2>1, <2>2 DEF IInv, TypeOK, HandlerInv
<1> QED
  BY <1>1, Invariant, PTL

-----------------------------------------------------------------------------
(* A request refused once is refused for good: being before the check (or  *)
(* turned away) with the channel closed is stable.                         *)
TurnedAway(h) == shutdown /\ pc[h] \in {"idle", "check", "returned", "refused"}

LEMMA TurnedAwayStable ==
  ASSUME NEW h \in Handlers
  PROVE  IInv /\ TurnedAway(h) /\ [Next]_vars => TurnedAway(h)'
<1> SUFFICES ASSUME IInv, TurnedAway(h), [Next]_vars PROVE TurnedAway(h)'
  OBVIOUS
<1> USE DEF IInv, TypeOK, TurnedAway
<1>1. ASSUME NEW g \in Handlers, HandlerAction(g) PROVE TurnedAway(h)'
  BY <1>1 DEF HandlerAction, ServeHTTP, Accept, AcceptFails, ConnectionEnds, Reject,
     PassCheck, Track, RecordTracked, StartReturns, Untrack, RecordUntracked,
     HandlerStep, shutdownVars
<1>2. ASSUME NEW g \in Handlers, ShutdownClose(g) PROVE TurnedAway(h)'
  BY <1>2 DEF ShutdownClose
<1>3. ASSUME NEW s \in Callers, CallerAction(s) PROVE TurnedAway(h)'
  BY <1>3 DEF CallerAction, CallShutdown, ReturnCtxErr, Shutdown, CloseShutdown,
     TakeSnapshot, SpawnCloses, SkipOnce, ReturnNil, handlerVars
<1>4. CASE UNCHANGED vars
  BY <1>4 DEF vars, handlerVars, shutdownVars
<1> QED
  BY <1>1, <1>2, <1>3, <1>4, NextCases

(* A request that has not passed the check when the channel is closed is   *)
(* never tracked.                                                          *)
THEOREM NeverAdmittedLate == Spec => NoLateAdmission
<1> SUFFICES ASSUME NEW h \in Handlers
             PROVE  Spec => [](shutdown /\ pc[h] \in {"idle", "check"} => [](h \notin connections))
  BY DEF NoLateAdmission
<1>1. shutdown /\ pc[h] \in {"idle", "check"} => TurnedAway(h)
  BY DEF TurnedAway
<1>2. IInv /\ TurnedAway(h) => h \notin connections
  BY DEF IInv, HandlerInv, Tracked, TurnedAway
<1>3. IInv /\ TurnedAway(h) /\ [Next]_vars => TurnedAway(h)'
  BY TurnedAwayStable
<1> QED
  BY <1>1, <1>2, <1>3, Invariant, PTL DEF Spec

-----------------------------------------------------------------------------
(* How far the two findings reach *)

(* When a caller of Shutdown has returned nil, only racers are tracked. *)
OnlyRacersLeft == (\E s \in Callers : spc[s] = "nil") => connections \subseteq racers

(* A nil result leaves nothing but requests that were caught between the   *)
(* shutdown check and their tracking (listener.go, Shutdown and ServeHTTP):*)
(* NilMeansNoConnections fails for them alone.                             *)
THEOREM NilLeavesRacersOnly == Spec => []OnlyRacersLeft
<1>1. IInv => OnlyRacersLeft
  BY DEF IInv, TypeOK, OnceInv, SnapshotInv, SnapshotTaken, DrainInv, OnlyRacersLeft
<1> QED
  BY <1>1, Invariant, PTL

(* The handlers between a critical section of ServeHTTP and the recording  *)
(* of what they counted in it; no two of them overlap.                     *)
Recording(h) == pc[h] \in {"gaugeUp", "gaugeDown"}
RecordingsApart == \A g, h \in Handlers : Recording(g) /\ Recording(h) => g = h

(* What is about to be recorded, or has been, is the number of connections.*)
CountInv ==
  /\ \A h \in Handlers : Recording(h) => connCount[h] = ConnectionCount
  /\ (\A h \in Handlers : ~Recording(h)) => gauge = ConnectionCount

LEMMA CountPreserved ==
  ASSUME TypeOK, CountInv, RecordingsApart, RecordingsApart', [Next]_vars
  PROVE  CountInv'
<1> USE DEF TypeOK, CountInv, RecordingsApart, Recording, HandlerStep, ConnectionCount
<1>1. ASSUME NEW h \in Handlers, Track(h) \/ Untrack(h) PROVE CountInv'
  <2>1. Recording(h)' /\ connCount'[h] = Cardinality(connections')
    BY <1>1 DEF Track, Untrack
  <2>2. \A g \in Handlers : Recording(g)' => g = h
    BY <2>1
  <2> QED
    BY <2>1, <2>2
<1>2. ASSUME NEW h \in Handlers, RecordTracked(h) \/ RecordUntracked(h) PROVE CountInv'
  <2>1. Recording(h) /\ ~Recording(h)' /\ gauge' = connCount[h] /\ UNCHANGED connections
    BY <1>2 DEF RecordTracked, RecordUntracked
  <2>2. \A g \in Handlers : ~Recording(g)'
    BY <1>2, <2>1 DEF RecordTracked, RecordUntracked
  <2> QED
    BY <2>1, <2>2
<1>3. ASSUME NEW h \in Handlers,
             Accept(h) \/ AcceptFails(h) \/ ConnectionEnds(h) \/ Reject(h) \/ PassCheck(h)
             \/ StartReturns(h) \/ ShutdownClose(h)
      PROVE  CountInv'
  <2>1. UNCHANGED <<connections, connCount, gauge>> /\ \A g \in Handlers : Recording(g)' <=> Recording(g)
    BY <1>3 DEF Accept, AcceptFails, ConnectionEnds, Reject, PassCheck, StartReturns, ShutdownClose
  <2> QED
    BY <2>1
<1>4. ASSUME (\E s \in Callers : CallerAction(s)) \/ UNCHANGED vars PROVE CountInv'
  <2>1. UNCHANGED handlerVars
    BY <1>4 DEF CallerAction, CallShutdown, ReturnCtxErr, Shutdown, CloseShutdown,
       TakeSnapshot, SpawnCloses, SkipOnce, ReturnNil, vars
  <2> QED
    BY <2>1 DEF handlerVars
<1> QED
  BY <1>1, <1>2, <1>3, <1>4, NextCases DEF HandlerAction, ServeHTTP

(* The gauge is right whenever no two handlers record at the same time     *)
(* (listener.go, ServeHTTP): that the recording is outside the critical    *)
(* section is all that GaugeSettles fails of.                              *)
THEOREM GaugeRightApart == Spec /\ []RecordingsApart => []GaugeSettles
<1>1. Init => CountInv
  BY FS_EmptySet DEF Init, CountInv, Recording, ConnectionCount
<1>2. IInv /\ CountInv /\ RecordingsApart /\ RecordingsApart' /\ [Next]_vars => CountInv'
  BY CountPreserved DEF IInv
<1>3. CountInv => GaugeSettles
  BY DEF CountInv, GaugeSettles, Recording
<1> QED
  BY <1>1, <1>2, <1>3, Invariant, PTL DEF Spec

-----------------------------------------------------------------------------
(* Every Shutdown returns *)

(* Some caller runs the once's function while it is running. *)
RunnerInv == once = "running" => \E s \in Callers : spc[s] \in {"snapshot", "spawn"}

(* How a caller of Shutdown moves. *)
LEMMA CallerMoves ==
  ASSUME TypeOK, NEW s \in Callers, [Next]_vars
  PROVE  \/ ~Shutdown(s) /\ spc'[s] = spc[s]
         \/ spc[s] = "idle" /\ spc'[s] = "do"
         \/ spc[s] = "do" /\ spc'[s] = "snapshot" /\ once = "idle"
         \/ spc[s] = "do" /\ spc'[s] = "wait" /\ once = "done"
         \/ spc[s] = "snapshot" /\ spc'[s] = "spawn"
         \/ spc[s] = "spawn" /\ spc'[s] = "wait" /\ once' = "done"
         \/ spc[s] = "wait" /\ spc'[s] \in {"nil", "ctxErr"}
<1> USE DEF TypeOK, CallerStep
<1>1. ASSUME Shutdown(s)
      PROVE  \/ spc[s] = "do" /\ spc'[s] = "snapshot" /\ once = "idle"
             \/ spc[s] = "do" /\ spc'[s] = "wait" /\ once = "done"
             \/ spc[s] = "snapshot" /\ spc'[s] = "spawn"
             \/ spc[s] = "spawn" /\ spc'[s] = "wait" /\ once' = "done"
             \/ spc[s] = "wait" /\ spc'[s] \in {"nil", "ctxErr"}
  BY <1>1 DEF Shutdown, CloseShutdown, TakeSnapshot, SpawnCloses, SkipOnce, ReturnNil
<1>2. CASE \E h \in Handlers : HandlerAction(h) \/ ShutdownClose(h)
  <2>1. UNCHANGED spc
    BY <1>2 DEF HandlerAction, ServeHTTP, Accept, AcceptFails, ConnectionEnds, Reject, PassCheck,
       Track, RecordTracked, StartReturns, Untrack, RecordUntracked, ShutdownClose, shutdownVars
  <2> QED
    BY <1>1, <2>1
<1>3. ASSUME NEW r \in Callers, r # s, CallerAction(r) PROVE spc'[s] = spc[s]
  BY <1>3 DEF CallerAction, CallShutdown, ReturnCtxErr, Shutdown, CloseShutdown,
     TakeSnapshot, SpawnCloses, SkipOnce, ReturnNil
<1>4. CASE CallShutdown(s) \/ ReturnCtxErr(s)
  BY <1>1, <1>4 DEF CallShutdown, ReturnCtxErr
<1>5. CASE UNCHANGED vars
  BY <1>1, <1>5 DEF vars, shutdownVars
<1> QED
  BY <1>1, <1>2, <1>3, <1>4, <1>5, NextCases DEF CallerAction

LEMMA OnceMoves ==
  ASSUME IInv, [Next]_vars
  PROVE  /\ once' = once \/ (once = "idle" /\ once' = "running") \/ (once = "running" /\ once' = "done")
         /\ once' = "running" /\ once # "running"
              => \E s \in Callers : spc'[s] = "snapshot"
<1> USE DEF IInv, TypeOK, OnceInv, CallerStep
<1>1. CASE \E h \in Handlers : HandlerAction(h) \/ ShutdownClose(h)
  BY <1>1 DEF HandlerAction, ServeHTTP, Accept, AcceptFails, ConnectionEnds, Reject, PassCheck,
     Track, RecordTracked, StartReturns, Untrack, RecordUntracked, ShutdownClose, shutdownVars
<1>2. ASSUME NEW s \in Callers, CallerAction(s)
      PROVE  \/ once' = once
             \/ once = "idle" /\ once' = "running" /\ spc'[s] = "snapshot"
             \/ once = "running" /\ once' = "done"
  BY <1>2 DEF CallerAction, CallShutdown, ReturnCtxErr, Shutdown, CloseShutdown,
     TakeSnapshot, SpawnCloses, SkipOnce, ReturnNil
<1>3. CASE UNCHANGED vars
  BY <1>3 DEF vars, shutdownVars
<1> QED
  BY <1>1, <1>2, <1>3, NextCases

LEMMA RunnerInvariance == Spec => []RunnerInv
<1>1. Init => RunnerInv
  BY DEF Init, RunnerInv
<1>2. ASSUME IInv, RunnerInv, [Next]_vars PROVE RunnerInv'
  <2>1. CASE once' = "running" /\ once = "running"
    <3>1. PICK s \in Callers : spc[s] \in {"snapshot", "spawn"}
      BY <1>2, <2>1 DEF RunnerInv
    <3>2. spc'[s] \in {"snapshot", "spawn"}
      BY <1>2, <2>1, <3>1, CallerMoves DEF IInv
    <3> QED
      BY <3>2 DEF RunnerInv
  <2> QED
    BY <1>2, <2>1, OnceMoves DEF RunnerInv
<1> QED
  BY <1>1, <1>2, Invariant, PTL DEF Spec

(* A connection that a handler has, or is about to have, in the map. *)
Present(h) == pc[h] \in {"track", "gaugeUp", "serving", "untrack"}

(* No step reopens a socket. *)
LEMMA ClosedStaysClosed ==
  ASSUME IInv, [Next]_vars, NEW h \in Handlers, sock[h] = "closed"
  PROVE  sock'[h] = "closed"
<1> USE DEF IInv, TypeOK, HandlerStep
<1>1. ASSUME NEW g \in Handlers, HandlerAction(g) \/ ShutdownClose(g)
      PROVE  sock'[h] = "closed"
  BY <1>1 DEF HandlerAction, ServeHTTP, Accept, AcceptFails, ConnectionEnds, Reject, PassCheck,
     Track, RecordTracked, StartReturns, Untrack, RecordUntracked, ShutdownClose, HandlerInv
<1>2. ASSUME (\E s \in Callers : CallerAction(s)) \/ UNCHANGED vars
      PROVE  sock'[h] = "closed"
  BY <1>2 DEF CallerAction, CallShutdown, ReturnCtxErr, Shutdown, CloseShutdown, TakeSnapshot,
     SpawnCloses, SkipOnce, ReturnNil, handlerVars, vars
<1> QED
  BY <1>1, <1>2, NextCases

(* How a handler moves once the channel is closed: it leaves, and nobody   *)
(* follows it in. *)
LEMMA HandlerMoves ==
  ASSUME IInv, shutdown, NEW h \in Handlers, [Next]_vars
  PROVE  /\ \/ ~ServeHTTP(h) /\ Present(h) /\ pc'[h] = pc[h]
            \/ pc[h] = "track" /\ pc'[h] = "gaugeUp"
            \/ pc[h] = "gaugeUp" /\ pc'[h] = "serving"
            \/ pc[h] = "serving" /\ pc'[h] = "untrack"
            \/ ~Present(h)'
         /\ ~Present(h) => ~Present(h)'
         /\ sock[h] = "closed" => sock'[h] = "closed"
<1> USE DEF IInv, TypeOK, HandlerStep, Present
<1>1. sock[h] = "closed" => sock'[h] = "closed"
  BY ClosedStaysClosed
<1>2. CASE ServeHTTP(h)
  BY <1>1, <1>2 DEF ServeHTTP, Reject, PassCheck, Track, RecordTracked, StartReturns, Untrack,
     RecordUntracked, HandlerPC
<1>3. CASE Accept(h) \/ AcceptFails(h)
  BY <1>1, <1>3 DEF Accept, AcceptFails
<1>4. ASSUME UNCHANGED <<pc[h]>>, ~ServeHTTP(h)
      PROVE  /\ (Present(h) /\ pc'[h] = pc[h]) \/ ~Present(h)'
             /\ ~Present(h) => ~Present(h)'
  BY <1>4
<1>5. ASSUME ConnectionEnds(h) \/ (\E g \in Handlers : ShutdownClose(g))
             \/ (\E s \in Callers : CallerAction(s)) \/ UNCHANGED vars
      PROVE  UNCHANGED <<pc[h]>>
  BY <1>5 DEF ConnectionEnds, ShutdownClose, CallerAction, CallShutdown, ReturnCtxErr, Shutdown,
     CloseShutdown, TakeSnapshot, SpawnCloses, SkipOnce, ReturnNil, vars, handlerVars
<1>6. ASSUME NEW g \in Handlers, g # h, HandlerAction(g) PROVE UNCHANGED <<pc[h]>>
  BY <1>6 DEF HandlerAction, ServeHTTP, Accept, AcceptFails, ConnectionEnds, Reject, PassCheck,
     Track, RecordTracked, StartReturns, Untrack, RecordUntracked
<1> QED
  BY <1>1, <1>2, <1>3, <1>4, <1>5, <1>6, NextCases DEF HandlerAction

(* What the fairness says of one goroutine. *)
FairCaller(s) == WF_vars(Shutdown(s))
FairHandler(h) == WF_vars(ServeHTTP(h))
FairCloser(h) == WF_vars(ShutdownClose(h))
FairHandlers(h) == WF_vars(ServeHTTP(h)) /\ WF_vars(ShutdownClose(h))

LEMMA EveryCallerIsFair == Fairness => \A s \in Callers : FairCaller(s)
BY PTL DEF Fairness, FairCaller

LEMMA EveryHandlerIsFair == Fairness => \A h \in Handlers : FairHandler(h) /\ FairCloser(h)
<1>1. Fairness => \A h \in Handlers : FairHandlers(h)
  BY PTL DEF Fairness, FairHandlers
<1>2. ASSUME NEW h \in Handlers PROVE FairHandlers(h) => FairHandler(h) /\ FairCloser(h)
  BY PTL DEF FairHandlers, FairHandler, FairCloser
<1> QED
  BY <1>1, <1>2

(* Which of the actions under fairness are enabled where, as the guards    *)
(* say: a caller of Shutdown waits only for the once's function and then   *)
(* for the map to empty, a handler past its accept only for its socket to  *)
(* close, and a closing goroutine for nobody.  The provers know nothing of *)
(* ENABLED, so the theorem below takes this as a hypothesis; it follows    *)
(* from the definitions of the actions and IInv.                           *)
EnabledAsGuarded ==
  /\ \A s \in Callers :
       \/ spc[s] = "do" /\ once # "running"
       \/ spc[s] \in {"snapshot", "spawn"}
       \/ spc[s] = "wait" /\ connections = {}
       => ENABLED <<Shutdown(s)>>_vars
  /\ \A h \in closing : ENABLED <<ShutdownClose(h)>>_vars
  /\ \A h \in Handlers :
       \/ pc[h] \in {"check", "track", "gaugeUp", "untrack", "gaugeDown"}
       \/ pc[h] = "serving" /\ sock[h] = "closed"
       => ENABLED <<ServeHTTP(h)>>_vars

(* What holds at every moment of a fair behaviour. *)
Watched ==
  /\ []IInv /\ []RunnerInv /\ [][Next]_vars
  /\ []EnabledAsGuarded /\ []Fairness

OnceDone == once = "done"
OnceWillBeDone == <>OnceDone
RunsOnce(s) == spc[s] \in {"snapshot", "spawn"}

(* The caller that runs the once's function completes it. *)
LEMMA RunnerCompletes ==
  ASSUME NEW s \in Callers
  PROVE  Watched => (RunsOnce(s) => OnceWillBeDone)
<1> DEFINE Snapshots == spc[s] = "snapshot"
           Spawns == spc[s] = "spawn"
           Goal == OnceDone
           CanGo == ENABLED <<Shutdown(s)>>_vars
<1>1. RunsOnce(s) <=> Snapshots \/ Spawns
  BY DEF RunsOnce
<1>2. ASSUME IInv, [Next]_vars
      PROVE  /\ Snapshots => Snapshots' \/ Spawns'
             /\ Spawns => Spawns' \/ Goal'
             /\ Shutdown(s) => /\ Snapshots => Spawns'
                               /\ Spawns => Goal'
  BY <1>2, CallerMoves DEF IInv, OnceDone
<1>3. EnabledAsGuarded => (Snapshots \/ Spawns => CanGo)
  BY DEF EnabledAsGuarded
<1>4. Fairness => FairCaller(s)
  BY EveryCallerIsFair
<1>5. FairCaller(s) <=> ([]<>~CanGo \/ []<><<Shutdown(s)>>_vars)
  BY PTL DEF FairCaller, CanGo
<1> QED
  <2>1. Goal <=> OnceDone
    OBVIOUS
  <2> HIDE DEF Snapshots, Spawns, Goal, CanGo
  <2> QED
    BY <1>1, <1>2, <1>3, <1>4, <1>5, <2>1, PTL DEF Watched, OnceWillBeDone

(* A caller at the once waits for its function, or runs it, and comes to   *)
(* its poll, after which the once is done for good.                        *)
AtOnce(s) == spc[s] \in {"do", "snapshot", "spawn"}
Polls(s) == spc[s] = "wait" /\ OnceDone

LEMMA CallerPolls ==
  ASSUME NEW s \in Callers
  PROVE  Watched => (AtOnce(s) ~> Polls(s))
<1> DEFINE First == spc[s] = "do" /\ once = "idle"
           Waits == spc[s] = "do" /\ once = "running"
           Skips == spc[s] = "do" /\ once = "done"
           Snapshots == spc[s] = "snapshot"
           Spawns == spc[s] = "spawn"
           Running == once = "running"
           Done == OnceDone
           Premise == AtOnce(s)
           Goal == Polls(s)
           CanGo == ENABLED <<Shutdown(s)>>_vars
<1>1. IInv => (Premise => First \/ Waits \/ Skips \/ Snapshots \/ Spawns)
  BY DEF IInv, TypeOK, AtOnce
<1>2. ASSUME IInv, [Next]_vars
      PROVE  /\ First => First' \/ Waits' \/ Snapshots'
             /\ Waits => Waits' \/ Skips'
             /\ Skips => Skips' \/ Goal'
             /\ Snapshots => Snapshots' \/ Spawns'
             /\ Spawns => Spawns' \/ Goal'
             /\ Shutdown(s) => /\ First => Snapshots'
                               /\ Skips => Goal'
                               /\ Snapshots => Spawns'
                               /\ Spawns => Goal'
  <2>1. IInv'
    BY <1>2, NextIInv
  <2>2. spc'[s] = "wait" => Goal'
    BY <2>1 DEF IInv, OnceInv, Polls, OnceDone
  <2>3. \/ once' = once
        \/ once = "idle" /\ once' = "running"
        \/ once = "running" /\ once' = "done"
    BY <1>2, OnceMoves
  <2>5. TypeOK
    BY <1>2 DEF IInv
  <2>6. CASE First
    BY <1>2, <2>2, <2>3, <2>5, <2>6, CallerMoves DEF Polls, OnceDone
  <2>7. CASE Waits
    BY <1>2, <2>1, <2>2, <2>3, <2>5, <2>7, CallerMoves DEF Polls, OnceDone
  <2>8. CASE Skips
    BY <1>2, <2>2, <2>3, <2>5, <2>8, CallerMoves
  <2>9. CASE Snapshots \/ Spawns
    BY <1>2, <2>2, <2>5, <2>9, CallerMoves
  <2> QED
    BY <2>6, <2>7, <2>8, <2>9
<1>3. EnabledAsGuarded => (First \/ Skips \/ Snapshots \/ Spawns => CanGo)
  BY DEF EnabledAsGuarded
<1>4. Watched => (Running => OnceWillBeDone)
  <2>1. Watched => RunnerInv
    BY PTL DEF Watched
  <2> QED
    BY <2>1, RunnerCompletes DEF RunnerInv, RunsOnce
<1>5. (Waits => Running) /\ (Waits => ~Done)
  BY DEF OnceDone
<1>6. Fairness => FairCaller(s)
  BY EveryCallerIsFair
<1>7. FairCaller(s) <=> ([]<>~CanGo \/ []<><<Shutdown(s)>>_vars)
  BY PTL DEF FairCaller, CanGo
<1> QED
  <2>1. (Premise <=> AtOnce(s)) /\ (Goal <=> Polls(s)) /\ (Done <=> OnceDone)
    OBVIOUS
  <2> HIDE DEF First, Waits, Skips, Snapshots, Spawns, Running, Done, Premise, Goal, CanGo
  <2> QED
    BY <1>1, <1>2, <1>3, <1>4, <1>5, <1>6, <1>7, <2>1, PTL DEF Watched, OnceWillBeDone

-----------------------------------------------------------------------------
(* Every connection leaves, when the racers' sockets have closed. *)

RacersClosed == \A h \in racers : sock[h] = "closed"

WatchedDrain == Watched /\ []RacersClosed

(* The connection of h is present after the once; its socket has closed.   *)
Leaving(h) == OnceDone /\ Present(h)
SocketClosed(h) == OnceDone /\ sock[h] = "closed"
Absent(h) == OnceDone /\ ~Present(h)

(* Its closing goroutine closes the socket, if nobody else does. *)
LEMMA SocketCloses ==
  ASSUME NEW h \in Handlers
  PROVE  WatchedDrain => (Leaving(h) ~> SocketClosed(h))
<1> DEFINE Here == Leaving(h)
           Told == OnceDone /\ h \in closing
           Goal == SocketClosed(h)
           CanGo == ENABLED <<ShutdownClose(h)>>_vars
<1>1. IInv /\ RacersClosed => (Here => Told \/ Goal)
  BY DEF IInv, SnapshotInv, SnapshotTaken, OnceInv, HandlerInv, Tracked, TypeOK, RacersClosed,
     Leaving, SocketClosed, OnceDone, Present
<1>2. ASSUME IInv, Told, [Next]_vars PROVE Told' \/ Goal'
  <2>1. IInv' /\ once' = "done"
    BY <1>2, NextIInv, OnceMoves DEF OnceDone
  <2>2. snapshot' = snapshot
    <3>1. \A s \in Callers : ~TakeSnapshot(s)
      BY <1>2 DEF TakeSnapshot, CallerStep, IInv, OnceInv, OnceDone
    <3> QED
      BY <1>2, <3>1, NextCases DEF HandlerAction, ServeHTTP, Accept, AcceptFails, ConnectionEnds,
         Reject, PassCheck, Track, RecordTracked, StartReturns, Untrack, RecordUntracked,
         ShutdownClose, CallerAction, CallShutdown, ReturnCtxErr, Shutdown, CloseShutdown,
         SpawnCloses, SkipOnce, ReturnNil, vars, shutdownVars
  <2> QED
    BY <1>2, <2>1, <2>2 DEF IInv, SnapshotInv, SocketClosed, OnceDone
<1>3. ASSUME IInv, Told, <<ShutdownClose(h)>>_vars PROVE Goal'
  BY <1>3 DEF ShutdownClose, IInv, TypeOK, SocketClosed, OnceDone
<1>4. EnabledAsGuarded => (Told => CanGo)
  BY DEF EnabledAsGuarded
<1>5. Fairness => FairCloser(h)
  BY EveryHandlerIsFair
<1>6. FairCloser(h) <=> ([]<>~CanGo \/ []<><<ShutdownClose(h)>>_vars)
  BY PTL DEF FairCloser, CanGo
<1> QED
  <2>1. (Here <=> Leaving(h)) /\ (Goal <=> SocketClosed(h))
    OBVIOUS
  <2> HIDE DEF Here, Told, Goal, CanGo
  <2> QED
    BY <1>1, <1>2, <1>3, <1>4, <1>5, <1>6, <2>1, PTL DEF Watched, WatchedDrain

(* Then Start returns, and the handler untracks the connection. *)
LEMMA HandlerLeaves ==
  ASSUME NEW h \in Handlers
  PROVE  WatchedDrain => (Leaving(h) ~> Absent(h))
<1> DEFINE At(place) == OnceDone /\ sock[h] = "closed" /\ pc[h] = place
           Tracks == At("track")
           Records == At("gaugeUp")
           Serves == At("serving")
           Untracks == At("untrack")
           Here == Leaving(h)
           Closed == SocketClosed(h)
           Goal == Absent(h)
           CanGo == ENABLED <<ServeHTTP(h)>>_vars
<1>1. Closed => Tracks \/ Records \/ Serves \/ Untracks \/ Goal
  BY DEF SocketClosed, Absent, Present
<1>2. ASSUME IInv, [Next]_vars
      PROVE  /\ Here => Here' \/ Goal'
             /\ Tracks => Tracks' \/ Records' \/ Goal'
             /\ Records => Records' \/ Serves' \/ Goal'
             /\ Serves => Serves' \/ Untracks' \/ Goal'
             /\ Untracks => Untracks' \/ Goal'
             /\ ServeHTTP(h) => /\ Tracks => Records' \/ Goal'
                                /\ Records => Serves' \/ Goal'
                                /\ Serves => Untracks' \/ Goal'
                                /\ Untracks => Goal'
  <2>1. OnceDone => OnceDone' /\ shutdown
    BY <1>2, OnceMoves DEF IInv, OnceInv, OnceDone
  <2> QED
    BY <1>2, <2>1, HandlerMoves DEF Leaving, Absent, Present
<1>3. EnabledAsGuarded => (Tracks \/ Records \/ Serves \/ Untracks => CanGo)
  BY DEF EnabledAsGuarded
<1>4. WatchedDrain => (Leaving(h) ~> SocketClosed(h))
  BY SocketCloses
<1>5. Fairness => FairHandler(h)
  BY EveryHandlerIsFair
<1>6. FairHandler(h) <=> ([]<>~CanGo \/ []<><<ServeHTTP(h)>>_vars)
  BY PTL DEF FairHandler, CanGo
<1> QED
  <2>1. (Here <=> Leaving(h)) /\ (Closed <=> SocketClosed(h)) /\ (Goal <=> Absent(h))
    OBVIOUS
  <2> HIDE DEF Tracks, Records, Serves, Untracks, Here, Closed, Goal, CanGo
  <2> QED
    BY <1>1, <1>2, <1>3, <1>4, <1>5, <1>6, <2>1, PTL DEF Watched, WatchedDrain

(* One by one they are all gone, however many they are: nobody joins them. *)
PresentOnes == {h \in Handlers : Present(h)}
Left(n) == OnceDone /\ Cardinality(PresentOnes) = n
FewerLeft(n) == OnceDone /\ Cardinality(PresentOnes) < n
NobodyLeft == OnceDone /\ PresentOnes = {}
Empties(n) == FewerLeft(n) ~> NobodyLeft
WillEmpty(d, n) == \A m \in Nat : m = n => Empties(m)
OneOfLeft(n, h) == Left(n) /\ Present(h)
OneWillLeave(n) == <>FewerLeft(n)
WillBeEmpty == <>NobodyLeft

OverConnections == INSTANCE TemporalInduction WITH P <- WillEmpty

LEMMA PresentAreFinite ==
  /\ PresentOnes \subseteq Handlers /\ IsFiniteSet(PresentOnes)
  /\ Cardinality(PresentOnes) \in Nat
  /\ Cardinality(PresentOnes) = 0 => PresentOnes = {}
<1>1. PresentOnes \subseteq Handlers
  BY DEF PresentOnes
<1>2. IsFiniteSet(PresentOnes)
  BY <1>1, HandlersAssumption, FS_Subset
<1> QED
  BY <1>1, <1>2, FS_CardinalityType, FS_EmptySet

LEMMA NobodyJoins ==
  ASSUME IInv, OnceDone, [Next]_vars
  PROVE  OnceDone' /\ PresentOnes' \subseteq PresentOnes
<1>1. OnceDone' /\ shutdown
  BY OnceMoves DEF IInv, OnceInv, OnceDone
<1>2. \A h \in Handlers : Present(h)' => Present(h)
  BY <1>1, HandlerMoves
<1> QED
  BY <1>1, <1>2 DEF PresentOnes

LEMMA OneLeaves ==
  ASSUME NEW n \in Nat, NEW h \in Handlers
  PROVE  WatchedDrain => (OneOfLeft(n, h) => OneWillLeave(n))
<1> DEFINE Here == OneOfLeft(n, h)
           Goal == FewerLeft(n)
           Leaves == Leaving(h)
           Gone == Absent(h)
<1>1. Here => Leaves
  BY DEF OneOfLeft, Left, Leaving
<1>2. ASSUME IInv, Here, [Next]_vars PROVE Here' \/ Goal'
  <2>1. OnceDone' /\ PresentOnes' \subseteq PresentOnes /\ h \in PresentOnes
    BY <1>2, NobodyJoins DEF OneOfLeft, Left, PresentOnes
  <2>2. CASE PresentOnes' = PresentOnes
    BY <1>2, <2>1, <2>2 DEF OneOfLeft, Left, PresentOnes
  <2>3. CASE PresentOnes' # PresentOnes
    <3>1. /\ Cardinality(PresentOnes') <= Cardinality(PresentOnes)
          /\ Cardinality(PresentOnes') # Cardinality(PresentOnes)
      BY <2>1, <2>3, PresentAreFinite, FS_Subset
    <3>2. Cardinality(PresentOnes) \in Nat /\ Cardinality(PresentOnes') \in Nat
      BY <2>1, PresentAreFinite, FS_Subset, FS_CardinalityType
    <3> QED
      BY <1>2, <2>1, <3>1, <3>2 DEF FewerLeft, OneOfLeft, Left
  <2> QED
    BY <2>2, <2>3
<1>3. Here => ~Gone
  BY DEF OneOfLeft, Left, Absent
<1>4. WatchedDrain => (Leaving(h) ~> Absent(h))
  BY HandlerLeaves
<1> QED
  <2>1. (Here <=> OneOfLeft(n, h)) /\ (Goal <=> FewerLeft(n)) /\ (Leaves <=> Leaving(h))
        /\ (Gone <=> Absent(h))
    OBVIOUS
  <2> HIDE DEF Here, Goal, Leaves, Gone
  <2> QED
    BY <1>1, <1>2, <1>3, <1>4, <2>1, PTL DEF Watched, WatchedDrain, OneWillLeave

LEMMA ConnectionsDrain ==
  ASSUME NEW k \in Nat
  PROVE  WatchedDrain => Empties(k)
<1>1. WatchedDrain => WillEmpty(0, 0)
  <2> DEFINE Fewer == FewerLeft(0)
  <2>1. ~Fewer
    BY PresentAreFinite DEF FewerLeft
  <2>2. Empties(0) <=> (Fewer ~> NobodyLeft)
    BY DEF Empties
  <2>3. WatchedDrain => Empties(0)
    <3> HIDE DEF Fewer
    <3> QED
      BY <2>1, <2>2, PTL
  <2> QED
    BY <2>3 DEF WillEmpty
<1>2. ASSUME NEW n \in Nat
      PROVE  WatchedDrain => (Empties(n) => Empties(n + 1))
  <2> DEFINE Some == FewerLeft(n + 1)
             Exactly == Left(n)
             Fewer == FewerLeft(n)
             Soon == OneWillLeave(n)
  <2>1. Some => Exactly \/ Fewer
    BY PresentAreFinite DEF FewerLeft, Left
  <2>2. WatchedDrain => (Exactly => NobodyLeft \/ Soon)
    <3>1. Exactly => NobodyLeft \/ \E h \in Handlers : OneOfLeft(n, h)
      BY DEF Left, NobodyLeft, OneOfLeft, PresentOnes
    <3> HIDE DEF Exactly
    <3> QED
      BY <3>1, OneLeaves
  <2>3. (Empties(n) <=> (Fewer ~> NobodyLeft)) /\ (Empties(n + 1) <=> (Some ~> NobodyLeft))
    BY DEF Empties
  <2>4. Soon <=> <>Fewer
    BY DEF OneWillLeave
  <2> HIDE DEF Some, Exactly, Fewer, Soon
  <2> QED
    BY <2>1, <2>2, <2>3, <2>4, PTL DEF Watched, WatchedDrain
<1>3. WatchedDrain => \A m \in Nat : WillEmpty(0, m) => WillEmpty(0, m + 1)
  BY <1>2 DEF WillEmpty
<1> QED
  BY <1>1, <1>3, OverConnections!Induction DEF WillEmpty

LEMMA EverybodyLeaves == WatchedDrain => (OnceDone ~> NobodyLeft)
<1>1. ASSUME NEW n \in Nat
      PROVE  WatchedDrain => (FewerLeft(n) => WillBeEmpty)
  <2>1. WatchedDrain => Empties(n)
    BY ConnectionsDrain
  <2>2. Empties(n) <=> (FewerLeft(n) ~> NobodyLeft)
    BY DEF Empties
  <2> QED
    BY <2>1, <2>2, PTL DEF WillBeEmpty
<1>2. OnceDone => \E n \in Nat : FewerLeft(n)
  <2> SUFFICES ASSUME OnceDone PROVE \E n \in Nat : FewerLeft(n)
    OBVIOUS
  <2>1. /\ Cardinality(PresentOnes) + 1 \in Nat
        /\ Cardinality(PresentOnes) < Cardinality(PresentOnes) + 1
    BY PresentAreFinite
  <2> QED
    BY <2>1 DEF FewerLeft
<1>3. WatchedDrain => (OnceDone => WillBeEmpty)
  BY <1>1, <1>2
<1> QED
  BY <1>3, PTL DEF Watched, WatchedDrain, WillBeEmpty

(* A caller that polls sees the empty map in the end. *)
Returned(s) == spc[s] \in {"nil", "ctxErr"}

LEMMA PollEnds ==
  ASSUME NEW s \in Callers
  PROVE  WatchedDrain => (Polls(s) ~> Returned(s))
<1> DEFINE Waits == Polls(s)
           Done == OnceDone
           Empty == NobodyLeft
           Goal == Returned(s)
           CanGo == ENABLED <<Shutdown(s)>>_vars
<1>1. Waits => Done
  BY DEF Polls
<1>2. ASSUME IInv, [Next]_vars
      PROVE  /\ Waits => Waits' \/ Goal'
             /\ Empty => Empty'
             /\ Waits /\ Shutdown(s) => Goal'
  <2>1. Waits => Waits' \/ Goal'
    BY <1>2, CallerMoves, NobodyJoins DEF IInv, Polls, Returned
  <2>2. Empty => Empty'
    BY <1>2, NobodyJoins DEF NobodyLeft
  <2>3. Waits /\ Shutdown(s) => Goal'
    BY <1>2, CallerMoves DEF IInv, Polls, Returned
  <2> QED
    BY <2>1, <2>2, <2>3
<1>3. IInv /\ EnabledAsGuarded => (Waits /\ Empty => CanGo)
  BY DEF EnabledAsGuarded, IInv, TypeOK, HandlerInv, Tracked, Polls, NobodyLeft, PresentOnes, Present
<1>4. WatchedDrain => (Done ~> Empty)
  BY EverybodyLeaves
<1>5. Fairness => FairCaller(s)
  BY EveryCallerIsFair
<1>6. FairCaller(s) <=> ([]<>~CanGo \/ []<><<Shutdown(s)>>_vars)
  BY PTL DEF FairCaller, CanGo
<1> QED
  <2>1. (Waits <=> Polls(s)) /\ (Goal <=> Returned(s))
    OBVIOUS
  <2> HIDE DEF Waits, Done, Empty, Goal, CanGo
  <2> QED
    BY <1>1, <1>2, <1>3, <1>4, <1>5, <1>6, <2>1, PTL DEF Watched, WatchedDrain

(* Every call of Shutdown returns (listener.go, Shutdown), for any number  *)
(* of connections and callers, unless a connection that was caught between *)
(* the shutdown check and its tracking stays open: nobody waits in a       *)
(* circle, and no request joins while the others leave.                    *)
THEOREM ShutdownsReturn == Spec /\ []Fairness /\ []EnabledAsGuarded => ShutdownCompletes
<1> DEFINE Assumed == Spec /\ []Fairness /\ []EnabledAsGuarded
<1> SUFFICES ASSUME NEW s \in Callers
             PROVE  Assumed =>
                      (<>[](\A h \in racers : sock[h] = "closed")
                         => (spc[s] = "do" ~> spc[s] \in {"nil", "ctxErr"}))
  BY DEF ShutdownCompletes
<1> DEFINE Do == spc[s] = "do"
           Enters == AtOnce(s)
           Waits == Polls(s)
           Goal == Returned(s)
           Closed == RacersClosed
<1>1. Assumed => Watched
  BY Invariant, RunnerInvariance, PTL DEF Watched, Spec
<1>2. Do => Enters
  BY DEF AtOnce
<1>3. ASSUME IInv, [Next]_vars
      PROVE  /\ Enters => Enters' \/ Waits'
             /\ Waits => Waits' \/ Goal'
  <2>1. IInv'
    BY <1>3, NextIInv
  <2>2. spc'[s] = "wait" => Waits'
    BY <2>1 DEF IInv, OnceInv, Polls, OnceDone
  <2> QED
    BY <1>3, <2>2, CallerMoves DEF IInv, AtOnce, Polls, Returned
<1>4. Watched => (AtOnce(s) ~> Polls(s))
  BY CallerPolls
<1>5. WatchedDrain => (Polls(s) ~> Returned(s))
  BY PollEnds
<1> QED
  <2>1. (Enters <=> AtOnce(s)) /\ (Waits <=> Polls(s)) /\ (Goal <=> Returned(s))
    OBVIOUS
  <2>2. (Goal <=> spc[s] \in {"nil", "ctxErr"}) /\ (Closed <=> RacersClosed)
        /\ (Closed <=> \A h \in racers : sock[h] = "closed")
    BY DEF Returned, RacersClosed
  <2> HIDE DEF Do, Enters, Waits, Goal, Closed
  <2>3. Watched => (<>[]Closed => (Do ~> Goal))
    BY <1>2, <1>3, <1>4, <1>5, <2>1, <2>2, PTL DEF Watched, WatchedDrain
  <2>4. Do <=> spc[s] = "do"
    BY DEF Do
  <2> QED
    BY <1>1, <2>2, <2>3, <2>4, PTL

=============================================================================
