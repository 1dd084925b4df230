------------------------ MODULE VwsConnectionProofs ------------------------
(***************************************************************************)
(* Theorems about VwsConnection for all topics, events, queue sizes and    *)
(* controllers.  Each lemma takes one part of IInv through the steps of    *)
(* the reader, of the worker, of the cleanup and of the environment.       *)
(***************************************************************************)
EXTENDS VwsConnection, SequenceTheorems, FiniteSetTheorems, TLAPS

(* Only the two kinds of frames that name a topic carry one. *)
LEMMA RequestTopic ==
  ASSUME NEW r \in Requests \cup {NoRequest}, r.kind \in {"subscribe", "unsubscribe"}
  PROVE  r.topic \in Topics
BY DEF Requests, NoRequest

LEMMA TypePreserved ==
  ASSUME TypeOK, [Next]_vars
  PROVE  TypeOK'
<1> USE ConnectionAssumption DEF TypeOK, ReaderStep, WorkerStep, CleanupStep
<1>1. CASE Reader
  <2>1. CASE \E t \in InitialTopics : InitialSubscribe(t)
    BY <2>1 DEF InitialSubscribe, workerVars, cleanupVars, sharedVars
  <2>2. CASE EnterReader \/ ReadFails \/ StartReturns
    BY <2>2 DEF EnterReader, ReadFails, StartReturns, workerVars, cleanupVars, sharedVars
  <2>3. CASE HandleEvent \/ HandleOther \/ HandleUnsubscribeAll
    BY <2>3 DEF HandleEvent, HandleOther, HandleUnsubscribeAll, workerVars, cleanupVars, sharedVars
  <2>4. CASE HandleSubscribe \/ HandleUnsubscribe
    BY <2>4 DEF HandleSubscribe, HandleUnsubscribe, Requests, NoRequest, workerVars,
      cleanupVars, sharedVars
  <2>5. CASE Respond
    <3>1. acked' \subseteq Topics
      BY <2>5, RequestTopic DEF Respond
    <3> QED
      BY <2>5, <3>1 DEF Respond, workerVars, cleanupVars, sharedVars
  <2>6. CASE RespondFails
    BY <2>6 DEF RespondFails, workerVars, cleanupVars, sharedVars
  <2> QED
    BY <1>1, <2>1, <2>2, <2>3, <2>4, <2>5, <2>6 DEF Reader, HandleRequest
<1>2. CASE Worker
  <2>1. CASE TakeEvent
    <3>1. event' \in Events /\ queue' \in Seq(Events) /\ Len(queue') <= QueueSize
      BY <2>1 DEF TakeEvent
    <3>2. event'.topic \in Topics /\ event'.headers \in Headers
      BY <3>1, ConnectionAssumption DEF Headers
    <3>3. eventMsg' \in [t : Topics \cup {Absent}, h : Headers]
      <4>1. Absent \in Headers
        BY DEF Headers
      <4> QED
        BY <2>1, <3>2, <4>1 DEF TakeEvent
    <3> QED
      BY <2>1, <3>1, <3>3 DEF TakeEvent, readerVars, cleanupVars
  <2>2. CASE SendEvent
    BY <2>2 DEF SendEvent, readerVars, cleanupVars, sharedVars
  <2>3. CASE SendEventFails
    BY <2>3 DEF SendEventFails, readerVars, cleanupVars, sharedVars
  <2>4. CASE PingAnswered
    BY <2>4 DEF PingAnswered, readerVars, cleanupVars, sharedVars
  <2>5. CASE PingFails
    BY <2>5 DEF PingFails, readerVars, cleanupVars, sharedVars
  <2>6. CASE WorkerStops
    BY <2>6 DEF WorkerStops, readerVars, cleanupVars, sharedVars
  <2> QED
    BY <1>2, <2>1, <2>2, <2>3, <2>4, <2>5, <2>6 DEF Worker
<1>3. CASE Cleanup
  <2>1. CASE \E who \in {"reader", "goroutine"} : BeginCleanup(who)
    BY <2>1 DEF BeginCleanup, readerVars, workerVars, sharedVars
  <2>2. CASE CleanupUnsubscribe
    BY <2>2 DEF CleanupUnsubscribe, readerVars, workerVars, sharedVars
  <2>3. CASE CleanupCloseAsync
    BY <2>3 DEF CleanupCloseAsync, readerVars, workerVars, sharedVars
  <2>4. CASE CleanupWorkerStopped
    BY <2>4 DEF CleanupWorkerStopped, readerVars, workerVars, sharedVars
  <2>5. CASE CleanupCloseConn
    BY <2>5 DEF CleanupCloseConn, readerVars, workerVars, sharedVars
  <2> QED
    BY <1>3, <2>1, <2>2, <2>3, <2>4, <2>5 DEF Cleanup
<1>4. CASE Environment
  <2>1. CASE \E r \in Requests : ReadRequest(r)
    BY <2>1 DEF ReadRequest, workerVars, cleanupVars, sharedVars
  <2>2. CASE Tick
    BY <2>2 DEF Tick, readerVars, cleanupVars, sharedVars
  <2>3. CASE ShutdownClose
    BY <2>3 DEF ShutdownClose, readerVars, workerVars, cleanupVars, sharedVars
  <2>4. CASE PeerGone
    BY <2>4 DEF PeerGone, readerVars, workerVars, cleanupVars, sharedVars
  <2>5. CASE ContextEnds
    BY <2>5 DEF ContextEnds, readerVars, workerVars, cleanupVars, sharedVars
  <2>6. CASE \E e \in Events : BusPublish(e)
    BY <2>6 DEF BusPublish, readerVars, workerVars, cleanupVars, sharedVars
  <2> QED
    BY <1>4, <2>1, <2>2, <2>3, <2>4, <2>5, <2>6 DEF Environment
<1>5. CASE UNCHANGED vars
  BY <1>5 DEF vars, readerVars, workerVars, cleanupVars, sharedVars
<1> QED
  BY <1>1, <1>2, <1>3, <1>4, <1>5 DEF Next

(* The step of a worker, of the environment other than a new request, or   *)
(* none at all leaves the reader and the bus alone.                        *)
LEMMA ReaderUntouched ==
  ASSUME Worker \/ UNCHANGED vars
         \/ (Environment /\ ~ \E r \in Requests : ReadRequest(r))
  PROVE  UNCHANGED <<readerVars, cleaner, unsubResult, cpc, asyncClosed, subs>>
BY DEF Worker, TakeEvent, SendEvent, SendEventFails, PingAnswered, PingFails, WorkerStops,
   Environment, Tick, ShutdownClose, PeerGone, ContextEnds, BusPublish, vars, cleanupVars,
   sharedVars

LEMMA RequestPreserved ==
  ASSUME TypeOK, RequestInv, [Next]_vars
  PROVE  RequestInv'
<1> USE ConnectionAssumption DEF TypeOK, RequestInv, AckedSubsActive, ReaderStep, NoRequest
<1>1. CASE Reader
  <2>1. CASE \E t \in InitialTopics : InitialSubscribe(t)
    BY <2>1 DEF InitialSubscribe, cleanupVars, sharedVars
  <2>2. CASE EnterReader \/ ReadFails \/ StartReturns
    BY <2>2 DEF EnterReader, ReadFails, StartReturns, cleanupVars, sharedVars
  <2>3. CASE HandleEvent \/ HandleOther
    BY <2>3 DEF HandleEvent, HandleOther, cleanupVars, sharedVars
  <2>4. CASE HandleSubscribe
    BY <2>4 DEF HandleSubscribe, cleanupVars, sharedVars
  <2>5. CASE HandleUnsubscribe \/ HandleUnsubscribeAll
    BY <2>5 DEF HandleUnsubscribe, HandleUnsubscribeAll, cleanupVars, sharedVars
  <2>6. CASE Respond \/ RespondFails
    BY <2>6 DEF Respond, RespondFails, cleanupVars, sharedVars
  <2> QED
    BY <1>1, <2>1, <2>2, <2>3, <2>4, <2>5, <2>6 DEF Reader, HandleRequest
<1>2. CASE Cleanup
  BY <1>2 DEF Cleanup, BeginCleanup, CleanupUnsubscribe, CleanupCloseAsync,
     CleanupWorkerStopped, CleanupCloseConn, CleanupStep, readerVars, sharedVars
<1>3. ASSUME NEW r \in Requests, ReadRequest(r) PROVE RequestInv'
  BY <1>3 DEF ReadRequest, Requests, cleanupVars, sharedVars
<1>4. CASE Worker \/ UNCHANGED vars
           \/ (Environment /\ ~ \E r \in Requests : ReadRequest(r))
  BY <1>4, ReaderUntouched DEF readerVars, sharedVars
<1> QED
  BY <1>1, <1>2, <1>3, <1>4 DEF Next

LEMMA CleanupPreserved ==
  ASSUME TypeOK, CleanupInv, [Next]_vars
  PROVE  CleanupInv'
<1> USE DEF TypeOK, CleanupInv
<1>1. CASE Reader
  BY <1>1 DEF Reader, InitialSubscribe, EnterReader, ReadFails, StartReturns, HandleRequest,
     HandleEvent, HandleOther, HandleSubscribe, HandleUnsubscribe, HandleUnsubscribeAll,
     Respond, RespondFails, ReaderStep, workerVars, cleanupVars, sharedVars
<1>2. CASE Worker
  BY <1>2 DEF Worker, TakeEvent, SendEvent, SendEventFails, PingAnswered, PingFails,
     WorkerStops, WorkerStep, readerVars, cleanupVars, sharedVars
<1>3. CASE Cleanup
  BY <1>3 DEF Cleanup, BeginCleanup, CleanupUnsubscribe, CleanupCloseAsync,
     CleanupWorkerStopped, CleanupCloseConn, CleanupStep, readerVars, workerVars, sharedVars
<1>4. CASE Environment
  BY <1>4 DEF Environment, ReadRequest, Tick, ShutdownClose, PeerGone, ContextEnds, BusPublish,
     ReaderStep, WorkerStep, readerVars, workerVars, cleanupVars, sharedVars
<1>5. CASE UNCHANGED vars
  BY <1>5 DEF vars, readerVars, workerVars, cleanupVars, sharedVars
<1> QED
  BY <1>1, <1>2, <1>3, <1>4, <1>5 DEF Next

LEMMA CleanerPreserved ==
  ASSUME TypeOK, CleanerInv, [Next]_vars
  PROVE  CleanerInv'
<1> USE DEF TypeOK, CleanerInv, ReaderStep
<1>1. CASE Reader
  BY <1>1 DEF Reader, InitialSubscribe, EnterReader, ReadFails, StartReturns, HandleRequest,
     HandleEvent, HandleOther, HandleSubscribe, HandleUnsubscribe, HandleUnsubscribeAll,
     Respond, RespondFails, cleanupVars, sharedVars
<1>2. CASE Cleanup
  BY <1>2 DEF Cleanup, BeginCleanup, CleanupUnsubscribe, CleanupCloseAsync,
     CleanupWorkerStopped, CleanupCloseConn, CleanupStep, readerVars, sharedVars
<1>3. ASSUME NEW r \in Requests, ReadRequest(r) PROVE CleanerInv'
  BY <1>3 DEF ReadRequest, cleanupVars, sharedVars
<1>4. CASE Worker \/ UNCHANGED vars
           \/ (Environment /\ ~ \E r \in Requests : ReadRequest(r))
  BY <1>4, ReaderUntouched DEF readerVars, sharedVars
<1> QED
  BY <1>1, <1>2, <1>3, <1>4 DEF Next

(* The invariant of a connection. *)
THEOREM Invariant == Spec => []IInv
<1>1. Init => IInv
  <2> SUFFICES ASSUME Init PROVE IInv
    OBVIOUS
  <2>1. TypeOK
    <3>1. queue \in Seq(Events) /\ Len(queue) <= QueueSize
      BY ConnectionAssumption DEF Init
    <3>2. eventMsg \in [t : Topics \cup {Absent}, h : Headers]
      BY DEF Init, Headers
    <3>3. asyncClosed \in BOOLEAN /\ spawned \in BOOLEAN /\ ctxDone \in BOOLEAN
      BY DEF Init
    <3> QED
      BY <3>1, <3>2, <3>3 DEF Init, TypeOK
  <2>2. RequestInv /\ CleanupInv /\ CleanerInv
    BY DEF Init, RequestInv, AckedSubsActive, CleanupInv, CleanerInv
  <2> QED
    BY <2>1, <2>2 DEF IInv
<1>2. IInv /\ [Next]_vars => IInv'
  BY TypePreserved, RequestPreserved, CleanupPreserved, CleanerPreserved
     DEF IInv
<1> QED
  BY <1>1, <1>2, PTL DEF Spec

(* Every variable keeps its type; in particular the queue its bound. *)
THEOREM TypeCorrect == Spec => []TypeOK
<1>1. IInv => TypeOK
  BY DEF IInv
<1> QED
  BY <1>1, Invariant, PTL

(* What the client has an ACK for, the bus holds. *)
THEOREM AcknowledgedSubscriptions == Spec => []AckedSubsActive
<1>1. IInv => AckedSubsActive
  BY DEF IInv, RequestInv
<1> QED
  BY <1>1, Invariant, PTL

(* The socket is closed by the cleanup only after the queue is drained. *)
THEOREM Drained == Spec => []DrainedBeforeClose
<1>1. IInv => DrainedBeforeClose
  BY DEF IInv, CleanupInv, DrainedBeforeClose
<1> QED
  BY <1>1, Invariant, PTL

(* The return of Start means that the connection is over. *)
THEOREM Returned == Spec => []ReturnedMeansClean
<1>1. IInv => ReturnedMeansClean
  BY DEF IInv, CleanupInv, ReturnedMeansClean
<1> QED
  BY <1>1, Invariant, PTL

(* A reader that cleans up leaks no subscription. *)
THEOREM NoLeak == Spec => []NoLeakWhenReaderCleans
<1>1. IInv => NoLeakWhenReaderCleans
  BY DEF IInv, CleanerInv, CleanupInv, NoLeakWhenReaderCleans
<1> QED
  BY <1>1, Invariant, PTL

(* Every step of the connection is a step of VwsSocketLife or leaves the   *)
(* socket and the return of Start as they are: only the cleanup's end,     *)
(* which comes after its close of the socket, lets Start return.           *)
LEMMA LifeStep ==
  ASSUME IInv, [Next]_vars
  PROVE  [Life!Next]_(Life!vars)
<1> USE DEF Life!Next, Life!Close, Life!Return, Life!vars, IInv, TypeOK
<1>1. CASE Reader
  <2>1. CASE StartReturns
    BY <2>1 DEF StartReturns, ReaderStep, CleanupInv, sharedVars
  <2>2. CASE RespondFails
    BY <2>2 DEF RespondFails, ReaderStep
  <2>3. ASSUME EnterReader \/ ReadFails \/ Respond \/ \E t \in InitialTopics : InitialSubscribe(t)
        PROVE  UNCHANGED <<sock, rpc = "returned">>
    BY <2>3 DEF EnterReader, ReadFails, Respond, InitialSubscribe, ReaderStep, sharedVars
  <2>4. ASSUME HandleRequest
        PROVE  UNCHANGED <<sock, rpc = "returned">>
    BY <2>4 DEF HandleRequest, HandleEvent, HandleSubscribe, HandleUnsubscribe,
       HandleUnsubscribeAll, HandleOther, ReaderStep, sharedVars
  <2> QED
    BY <1>1, <2>1, <2>2, <2>3, <2>4 DEF Reader
<1>2. CASE Worker
  BY <1>2 DEF Worker, TakeEvent, SendEvent, SendEventFails, PingAnswered, PingFails,
     WorkerStops, WorkerStep, readerVars, sharedVars
<1>3. CASE Cleanup
  BY <1>3 DEF Cleanup, BeginCleanup, CleanupUnsubscribe, CleanupCloseAsync,
     CleanupWorkerStopped, CleanupCloseConn, CleanupStep, readerVars, sharedVars
<1>4. CASE Environment
  BY <1>4 DEF Environment, ReadRequest, Tick, ShutdownClose, PeerGone, ContextEnds,
     BusPublish, ReaderStep, WorkerStep, readerVars, sharedVars
<1>5. CASE UNCHANGED vars
  BY <1>5 DEF vars, readerVars, sharedVars
<1> QED
  BY <1>1, <1>2, <1>3, <1>4, <1>5 DEF Next

(* The connection implements the life its listener relies on: the socket   *)
(* never opens again, and Start returns after it has closed.               *)
THEOREM ConnectionImplementsLife == Spec => Life!Spec
<1>1. Init => Life!Init
  BY DEF Init, Life!Init
<1>2. IInv /\ [Next]_vars => [Life!Next]_(Life!vars)
  BY LifeStep
<1> QED
  BY <1>1, <1>2, Invariant, PTL DEF Spec, Life!Spec

-----------------------------------------------------------------------------
(* A connection ends *)

(* The socket or the context has ended, for good. *)
Down == sock = "closed" \/ ctxDone

LEMMA DownForGood ==
  ASSUME IInv, Down, [Next]_vars
  PROVE  Down'
<1>1. ctxDone => ctxDone'
  BY DEF Next, Reader, InitialSubscribe, EnterReader, ReadFails, StartReturns, HandleRequest,
     HandleEvent, HandleOther, HandleSubscribe, HandleUnsubscribe, HandleUnsubscribeAll,
     Respond, RespondFails, Worker, TakeEvent, SendEvent, SendEventFails, PingAnswered, PingFails,
     WorkerStops, Cleanup, BeginCleanup, CleanupUnsubscribe, CleanupCloseAsync,
     CleanupWorkerStopped, CleanupCloseConn, Environment, ReadRequest, Tick, ShutdownClose,
     PeerGone, ContextEnds, BusPublish, vars, sharedVars
<1>2. sock = "closed" => sock' = "closed"
  BY LifeStep DEF Life!Next, Life!Close, Life!Return, Life!vars
<1> QED
  BY <1>1, <1>2 DEF Down

(* How the reader of a connection that is down moves: towards the cleanup, *)
(* and nobody else moves it. *)
LEMMA ReaderMoves ==
  ASSUME IInv, [Next]_vars
  PROVE  /\ \/ ~Reader /\ UNCHANGED <<rpc, todo>>
            \/ rpc = "init" /\ rpc' = "init" /\ \E t \in todo : todo' = todo \ {t}
            \/ rpc = "init" /\ rpc' = "read"
            \/ rpc = "read" /\ rpc' = "cleanup"
            \/ rpc = "handle" /\ rpc' \in {"respond", "read"}
            \/ rpc = "respond" /\ rpc' = "read"
            \/ rpc = "cleanup" /\ rpc' = "returned" /\ cpc = "done"
            \/ rpc = "read" /\ ~Down /\ ~Reader
         /\ rpc = "init" /\ rpc' = "read" => todo = {}
<1> USE DEF ReaderStep, Down
<1>1. CASE Reader
  BY <1>1 DEF Reader, InitialSubscribe, EnterReader, ReadFails, StartReturns, HandleRequest,
     HandleEvent, HandleOther, HandleSubscribe, HandleUnsubscribe, HandleUnsubscribeAll,
     Respond, RespondFails
<1>2. ASSUME ~Reader, UNCHANGED <<rpc, todo>> PROVE rpc = "init" => rpc' # "read"
  BY <1>2
<1>3. CASE Worker
  <2>1. UNCHANGED <<rpc, todo>>
    BY <1>3 DEF Worker, TakeEvent, SendEvent, SendEventFails, PingAnswered, PingFails,
       WorkerStops, readerVars
  <2> QED
    BY <1>1, <1>2, <2>1
<1>4. CASE Cleanup
  <2>1. UNCHANGED <<rpc, todo>>
    BY <1>4 DEF Cleanup, BeginCleanup, CleanupUnsubscribe, CleanupCloseAsync,
       CleanupWorkerStopped, CleanupCloseConn, readerVars
  <2> QED
    BY <1>1, <1>2, <2>1
<1>5. CASE UNCHANGED vars
  BY <1>1, <1>2, <1>5 DEF vars, readerVars
<1>6. CASE Environment
  <2>1. CASE \E r \in Requests : ReadRequest(r)
    BY <1>1, <2>1 DEF ReadRequest, IInv, TypeOK
  <2>2. CASE ~ \E r \in Requests : ReadRequest(r)
    <3>1. UNCHANGED <<rpc, todo>>
      BY <1>6, <2>2 DEF Environment, Tick, ShutdownClose, PeerGone, ContextEnds,
         BusPublish, readerVars
    <3> QED
      BY <1>1, <1>2, <3>1
  <2> QED
    BY <2>1, <2>2
<1> QED
  BY <1>1, <1>3, <1>4, <1>5, <1>6 DEF Next

(* How the cleanup moves, and that nobody else moves it. *)
LEMMA CleanupMoves ==
  ASSUME IInv, [Next]_vars
  PROVE  \/ ~Cleanup /\ cpc' = cpc
         \/ cpc = "idle" /\ cpc' = "unsubscribe"
         \/ cpc = "unsubscribe" /\ cpc' = "closeAsync"
         \/ cpc = "closeAsync" /\ cpc' = "waitWorker"
         \/ cpc = "waitWorker" /\ wpc = "stopped" /\ cpc' = "closeConn"
         \/ cpc = "closeConn" /\ cpc' = "done"
<1> USE DEF CleanupStep
<1>1. CASE Cleanup
  BY <1>1 DEF Cleanup, BeginCleanup, CleanupUnsubscribe, CleanupCloseAsync,
     CleanupWorkerStopped, CleanupCloseConn
<1>2. CASE ~Cleanup
  BY <1>2 DEF Next, Reader, InitialSubscribe, EnterReader, ReadFails, StartReturns, HandleRequest,
     HandleEvent, HandleOther, HandleSubscribe, HandleUnsubscribe, HandleUnsubscribeAll,
     Respond, RespondFails, Worker, TakeEvent, SendEvent, SendEventFails, PingAnswered, PingFails,
     WorkerStops, Environment, ReadRequest, Tick, ShutdownClose, PeerGone, ContextEnds,
     BusPublish, vars, cleanupVars
<1> QED
  BY <1>1, <1>2

(* How the worker of a closed subscriber moves: each event it takes leaves *)
(* fewer in the queue, to which nobody adds, and it stops in the end.      *)
LEMMA WorkerMoves ==
  ASSUME IInv, asyncClosed, [Next]_vars
  PROVE  \/ ~Worker /\ UNCHANGED <<wpc, queue>>
         \/ wpc \in {"event", "ping"} /\ wpc' = "idle" /\ queue' = queue
         \/ wpc = "idle" /\ wpc' = "event" /\ queue # <<>> /\ Len(queue') = Len(queue) - 1
         \/ wpc = "idle" /\ wpc' = "stopped" /\ queue = <<>>
<1> USE DEF WorkerStep, IInv, TypeOK
<1>1. CASE TakeEvent
  <2>1. queue # <<>> /\ queue \in Seq(Events) /\ queue' = Tail(queue)
    BY <1>1 DEF TakeEvent
  <2>2. Len(queue') = Len(queue) - 1
    BY <2>1, HeadTailProperties
  <2> QED
    BY <1>1, <2>1, <2>2 DEF TakeEvent
<1>2. CASE Worker /\ ~TakeEvent
  BY <1>2 DEF Worker, SendEvent, SendEventFails, PingAnswered, PingFails, WorkerStops, sharedVars
<1>3. CASE ~Worker
  BY <1>3 DEF Next, Reader, InitialSubscribe, EnterReader, ReadFails, StartReturns, HandleRequest,
     HandleEvent, HandleOther, HandleSubscribe, HandleUnsubscribe, HandleUnsubscribeAll,
     Respond, RespondFails, Cleanup, BeginCleanup, CleanupUnsubscribe, CleanupCloseAsync,
     CleanupWorkerStopped, CleanupCloseConn, Environment, ReadRequest, Tick, ShutdownClose,
     PeerGone, ContextEnds, BusPublish, vars, workerVars, sharedVars
<1> QED
  BY <1>1, <1>2, <1>3

LEMMA SpawnedForGood ==
  ASSUME spawned, [Next]_vars
  PROVE  spawned'
BY DEF Next, Reader, InitialSubscribe, EnterReader, ReadFails, StartReturns, HandleRequest,
   HandleEvent, HandleOther, HandleSubscribe, HandleUnsubscribe, HandleUnsubscribeAll,
   Respond, RespondFails, Worker, TakeEvent, SendEvent, SendEventFails, PingAnswered, PingFails,
   WorkerStops, Cleanup, BeginCleanup, CleanupUnsubscribe, CleanupCloseAsync,
   CleanupWorkerStopped, CleanupCloseConn, Environment, ReadRequest, Tick, ShutdownClose,
   PeerGone, ContextEnds, BusPublish, vars, sharedVars

(* The goroutines' next steps are possible. *)
ReaderCanGo == ENABLED <<Reader>>_vars
WorkerCanGo == ENABLED <<Worker>>_vars
CleanupCanGo == ENABLED <<Cleanup>>_vars

(* What fairness says of each of them: it takes a step again and again, or *)
(* again and again it cannot. *)
LEMMA WhatFairnessSays ==
  Fairness <=> /\ []<>~ReaderCanGo \/ []<><<Reader>>_vars
               /\ []<>~WorkerCanGo \/ []<><<Worker>>_vars
               /\ []<>~CleanupCanGo \/ []<><<Cleanup>>_vars
BY PTL DEF Fairness, ReaderCanGo, WorkerCanGo, CleanupCanGo

(* Where the three actions under fairness are enabled, as the guards say:  *)
(* the reader waits only for the client, while its socket is open, or for  *)
(* the cleanup; the worker only for an event while its subscriber is open; *)
(* a cleanup that is due only for the worker.  The provers know nothing of *)
(* ENABLED, so the theorems below take this as a hypothesis; it follows    *)
(* from the definitions of the actions and IInv.                           *)
EnabledAsGuarded ==
  /\ rpc # "returned" => \/ ReaderCanGo
                         \/ rpc = "read" /\ sock = "open" /\ ~ctxDone
                         \/ rpc = "cleanup" /\ cpc # "done"
  /\ wpc # "stopped" => \/ WorkerCanGo
                        \/ wpc = "idle" /\ queue = <<>> /\ ~asyncClosed
  /\ cpc # "done" /\ (cpc # "idle" \/ spawned \/ rpc = "cleanup")
       => CleanupCanGo \/ (cpc = "waitWorker" /\ wpc # "stopped")

(* What holds at every moment of a fair behaviour. *)
Watched == []IInv /\ [][Next]_vars /\ []EnabledAsGuarded /\ []Fairness

LEMMA FairIsWatched == FairSpec /\ []EnabledAsGuarded => Watched
BY Invariant, WhatFairnessSays, PTL DEF FairSpec, Spec, Watched

-----------------------------------------------------------------------------
(* The reader of a connection that is down leaves its loop, however many   *)
(* initial subscriptions it has still to make.                             *)
Subscribing(n) == Down /\ rpc = "init" /\ Cardinality(todo) = n
FewerSubscriptions(n) == Down /\ rpc = "init" /\ Cardinality(todo) < n
Subscribed == Down /\ rpc = "read"
Subscribes(n) == FewerSubscriptions(n) ~> Subscribed
WillSubscribe(d, n) == \A m \in Nat : m = n => Subscribes(m)

OverTopics == INSTANCE TemporalInduction WITH P <- WillSubscribe

LEMMA TodoIsFinite ==
  ASSUME TypeOK
  PROVE  /\ Cardinality(todo) \in Nat
         /\ \A t \in todo : Cardinality(todo \ {t}) = Cardinality(todo) - 1
<1>1. IsFiniteSet(todo)
  BY ConnectionAssumption, FS_Subset DEF TypeOK
<1> QED
  BY <1>1, FS_CardinalityType, FS_RemoveElement

LEMMA OneSubscriptionLess ==
  ASSUME NEW n \in Nat
  PROVE  Watched => (Subscribing(n) ~> Subscribed \/ FewerSubscriptions(n))
<1> DEFINE Here == Subscribing(n)
           There == Subscribed \/ FewerSubscriptions(n)
<1>1. ASSUME IInv, Here, [Next]_vars
      PROVE  /\ Here' \/ There'
             /\ Reader => There'
  <2>1. Down'
    BY <1>1, DownForGood DEF Subscribing
  <2>2. rpc = "init" /\ Cardinality(todo) = n
    BY <1>1 DEF Subscribing
  <2>3. CASE ~Reader /\ UNCHANGED <<rpc, todo>>
    BY <2>1, <2>2, <2>3 DEF Subscribing
  <2>4. CASE rpc' = "init" /\ \E t \in todo : todo' = todo \ {t}
    <3>1. Cardinality(todo') < n
      BY <1>1, <2>2, <2>4, TodoIsFinite DEF IInv
    <3> QED
      BY <2>1, <2>4, <3>1 DEF FewerSubscriptions
  <2>5. CASE rpc' = "read"
    BY <2>1, <2>5 DEF Subscribed
  <2> QED
    BY <1>1, <2>2, <2>3, <2>4, <2>5, ReaderMoves
<1>2. EnabledAsGuarded => (Here => ReaderCanGo)
  BY DEF EnabledAsGuarded, ReaderCanGo, Subscribing
<1> QED
  <2>1. (Here <=> Subscribing(n)) /\ (There <=> Subscribed \/ FewerSubscriptions(n))
    OBVIOUS
  <2> HIDE DEF Here, There
  <2> QED
    BY <1>1, <1>2, <2>1, WhatFairnessSays, PTL DEF Watched

LEMMA SubscribingEnds ==
  ASSUME NEW k \in Nat
  PROVE  Watched => Subscribes(k)
<1>1. Watched => WillSubscribe(0, 0)
  <2> DEFINE Fewer == FewerSubscriptions(0)
  <2>1. IInv => ~Fewer
    BY TodoIsFinite DEF IInv, FewerSubscriptions
  <2>2. Subscribes(0) <=> (Fewer ~> Subscribed)
    BY DEF Subscribes
  <2>3. Watched => Subscribes(0)
    <3> HIDE DEF Fewer
    <3> QED
      BY <2>1, <2>2, PTL DEF Watched
  <2> QED
    BY <2>3 DEF WillSubscribe
<1>2. ASSUME NEW n \in Nat
      PROVE  Watched => (Subscribes(n) => Subscribes(n + 1))
  <2> DEFINE Some == FewerSubscriptions(n + 1)
             Exactly == Subscribing(n)
             Fewer == FewerSubscriptions(n)
  <2>1. IInv => (Some => Exactly \/ Fewer)
    BY TodoIsFinite DEF IInv, FewerSubscriptions, Subscribing
  <2>2. Watched => (Subscribing(n) ~> Subscribed \/ FewerSubscriptions(n))
    BY OneSubscriptionLess
  <2>3. (Subscribes(n) <=> (Fewer ~> Subscribed)) /\ (Subscribes(n + 1) <=> (Some ~> Subscribed))
    BY DEF Subscribes
  <2>4. (Exactly <=> Subscribing(n)) /\ (Fewer <=> FewerSubscriptions(n))
    OBVIOUS
  <2> HIDE DEF Some, Exactly, Fewer
  <2> QED
    BY <2>1, <2>2, <2>3, <2>4, PTL DEF Watched
<1>3. Watched => \A m \in Nat : WillSubscribe(0, m) => WillSubscribe(0, m + 1)
  BY <1>2 DEF WillSubscribe
<1> QED
  BY <1>1, <1>3, OverTopics!Induction DEF WillSubscribe

(* The reader has left its loop for good. *)
LeftLoop == rpc \in {"cleanup", "returned"}

LEMMA ReaderLeaves == Watched => (Down ~> LeftLoop)
<1> DEFINE Starts == Down /\ rpc = "init"
           Reads == Down /\ rpc = "read"
           Handles == Down /\ rpc = "handle"
           Responds == Down /\ rpc = "respond"
           Goal == LeftLoop
           Premise == Down
           Soon == <>Subscribed
<1>1. IInv => (Premise => Starts \/ Reads \/ Handles \/ Responds \/ Goal)
  BY DEF IInv, TypeOK, LeftLoop
<1>2. ASSUME IInv, [Next]_vars
      PROVE  /\ Reads => Reads' \/ Goal'
             /\ Handles => Handles' \/ Responds' \/ Reads'
             /\ Responds => Responds' \/ Reads'
             /\ Reader => /\ Reads => Goal'
                          /\ Handles => Responds' \/ Reads'
                          /\ Responds => Reads'
  BY <1>2, DownForGood, ReaderMoves DEF LeftLoop
<1>3. EnabledAsGuarded => (Reads \/ Handles \/ Responds => ReaderCanGo)
  BY DEF EnabledAsGuarded, ReaderCanGo, Down
<1>4. Watched => (Starts => Soon)
  <2>1. ASSUME NEW n \in Nat
        PROVE  Watched => (FewerSubscriptions(n) => Soon)
    <3>1. Watched => Subscribes(n)
      BY SubscribingEnds
    <3>2. Subscribes(n) <=> (FewerSubscriptions(n) ~> Subscribed)
      BY DEF Subscribes
    <3> QED
      BY <3>1, <3>2, PTL
  <2>2. IInv => (Starts => \E n \in Nat : FewerSubscriptions(n))
    <3> SUFFICES ASSUME IInv, Starts PROVE \E n \in Nat : FewerSubscriptions(n)
      OBVIOUS
    <3>1. Cardinality(todo) + 1 \in Nat /\ Cardinality(todo) < Cardinality(todo) + 1
      BY TodoIsFinite DEF IInv
    <3> QED
      BY <3>1 DEF FewerSubscriptions
  <2>3. Watched => IInv
    BY PTL DEF Watched
  <2> HIDE DEF Soon, Starts
  <2> QED
    BY <2>1, <2>2, <2>3
<1> QED
  <2>1. Subscribed <=> Reads
    BY DEF Subscribed
  <2>2. Soon <=> <>Subscribed
    OBVIOUS
  <2>3. (Goal <=> LeftLoop) /\ (Premise <=> Down)
    OBVIOUS
  <2> HIDE DEF Starts, Reads, Handles, Responds, Goal, Premise, Soon
  <2> QED
    BY <1>1, <1>2, <1>3, <1>4, <2>1, <2>2, <2>3, WhatFairnessSays, PTL DEF Watched

-----------------------------------------------------------------------------
(* The worker that a cleanup waits for stops, however many events are      *)
(* still in the queue.                                                     *)
AtWork == cpc = "waitWorker" /\ wpc # "stopped"
Queued(n) == AtWork /\ Len(queue) = n
FewerQueued(n) == AtWork /\ Len(queue) < n
Stopped == cpc = "waitWorker" /\ wpc = "stopped"
Stops(n) == FewerQueued(n) ~> Stopped
WillStop(d, n) == \A m \in Nat : m = n => Stops(m)

OverEvents == INSTANCE TemporalInduction WITH P <- WillStop

LEMMA OneEventLess ==
  ASSUME NEW n \in Nat
  PROVE  Watched => (Queued(n) ~> Stopped \/ FewerQueued(n))
<1> DEFINE Busy == Queued(n) /\ wpc \in {"event", "ping"}
           Idle == Queued(n) /\ wpc = "idle"
           Here == Queued(n)
           There == Stopped \/ FewerQueued(n)
<1>1. IInv => (Here => Busy \/ Idle)
  BY DEF IInv, TypeOK, Queued, AtWork
<1>2. ASSUME IInv, [Next]_vars
      PROVE  /\ Busy => Busy' \/ Idle'
             /\ Idle => Idle' \/ There'
             /\ Worker => /\ Busy => Idle'
                          /\ Idle => There'
  <2>1. AtWork => cpc' = "waitWorker" /\ asyncClosed
    BY <1>2, CleanupMoves DEF AtWork, IInv, CleanupInv
  <2>2. ASSUME AtWork
        PROVE  \/ ~Worker /\ UNCHANGED <<wpc, queue>>
               \/ wpc \in {"event", "ping"} /\ wpc' = "idle" /\ queue' = queue
               \/ wpc = "idle" /\ wpc' = "event" /\ Len(queue') = Len(queue) - 1
               \/ wpc = "idle" /\ wpc' = "stopped"
    BY <1>2, <2>1, <2>2, WorkerMoves
  <2>3. Len(queue) \in Nat
    BY <1>2 DEF IInv, TypeOK
  <2> QED
    BY <2>1, <2>2, <2>3 DEF Queued, FewerQueued, Stopped, AtWork
<1>3. IInv /\ EnabledAsGuarded => (Here => WorkerCanGo)
  BY DEF EnabledAsGuarded, WorkerCanGo, Queued, AtWork, IInv, CleanupInv
<1> QED
  <2>1. (Here <=> Queued(n)) /\ (There <=> Stopped \/ FewerQueued(n)) /\ (Busy \/ Idle => Here)
    OBVIOUS
  <2> HIDE DEF Here, There, Busy, Idle
  <2> QED
    BY <1>1, <1>2, <1>3, <2>1, WhatFairnessSays, PTL DEF Watched

LEMMA QueueDrains ==
  ASSUME NEW k \in Nat
  PROVE  Watched => Stops(k)
<1>1. IInv => Len(queue) \in Nat
  BY DEF IInv, TypeOK
<1>2. Watched => WillStop(0, 0)
  <2> DEFINE Fewer == FewerQueued(0)
  <2>1. IInv => ~Fewer
    BY <1>1 DEF FewerQueued
  <2>2. Stops(0) <=> (Fewer ~> Stopped)
    BY DEF Stops
  <2>3. Watched => Stops(0)
    <3> HIDE DEF Fewer
    <3> QED
      BY <2>1, <2>2, PTL DEF Watched
  <2> QED
    BY <2>3 DEF WillStop
<1>3. ASSUME NEW n \in Nat
      PROVE  Watched => (Stops(n) => Stops(n + 1))
  <2> DEFINE Some == FewerQueued(n + 1)
             Exactly == Queued(n)
             Fewer == FewerQueued(n)
  <2>1. IInv => (Some => Exactly \/ Fewer)
    BY <1>1 DEF FewerQueued, Queued
  <2>2. Watched => (Queued(n) ~> Stopped \/ FewerQueued(n))
    BY OneEventLess
  <2>3. (Stops(n) <=> (Fewer ~> Stopped)) /\ (Stops(n + 1) <=> (Some ~> Stopped))
    BY DEF Stops
  <2>4. (Exactly <=> Queued(n)) /\ (Fewer <=> FewerQueued(n))
    OBVIOUS
  <2> HIDE DEF Some, Exactly, Fewer
  <2> QED
    BY <2>1, <2>2, <2>3, <2>4, PTL DEF Watched
<1>4. Watched => \A m \in Nat : WillStop(0, m) => WillStop(0, m + 1)
  BY <1>3 DEF WillStop
<1> QED
  BY <1>2, <1>4, OverEvents!Induction DEF WillStop

LEMMA WorkerStopsInTheEnd == Watched => (AtWork ~> Stopped)
<1> DEFINE Soon == <>Stopped
<1>1. ASSUME NEW n \in Nat
      PROVE  Watched => (FewerQueued(n) => Soon)
  <2>1. Watched => Stops(n)
    BY QueueDrains
  <2>2. Stops(n) <=> (FewerQueued(n) ~> Stopped)
    BY DEF Stops
  <2> QED
    BY <2>1, <2>2, PTL
<1>2. IInv => (AtWork => \E n \in Nat : FewerQueued(n))
  <2> SUFFICES ASSUME IInv, AtWork PROVE \E n \in Nat : FewerQueued(n)
    OBVIOUS
  <2>1. Len(queue) + 1 \in Nat /\ Len(queue) < Len(queue) + 1
    BY DEF IInv, TypeOK
  <2> QED
    BY <2>1 DEF FewerQueued
<1>3. Watched => IInv
  BY PTL DEF Watched
<1>4. Watched => (AtWork => Soon)
  <2> HIDE DEF Soon
  <2> QED
    BY <1>1, <1>2, <1>3
<1> QED
  BY <1>4, PTL DEF Watched

-----------------------------------------------------------------------------
(* A cleanup that has begun is completed: it waits only for the worker. *)
LEMMA CleanupCompletes == Watched => (cpc # "idle" ~> cpc = "done")
<1> DEFINE Unsubscribes == cpc = "unsubscribe"
           Closes == cpc = "closeAsync"
           Waits == cpc = "waitWorker"
           ClosesConn == cpc = "closeConn"
           Goal == cpc = "done"
           Begun == cpc # "idle"
<1>1. IInv => (Begun => Unsubscribes \/ Closes \/ Waits \/ ClosesConn \/ Goal)
  BY DEF IInv, TypeOK
<1>2. ASSUME IInv, [Next]_vars
      PROVE  /\ Unsubscribes => Unsubscribes' \/ Closes'
             /\ Closes => Closes' \/ Waits'
             /\ Waits => Waits' \/ ClosesConn'
             /\ Stopped => Stopped' \/ ClosesConn'
             /\ ClosesConn => ClosesConn' \/ Goal'
             /\ Cleanup => /\ Unsubscribes => Closes'
                           /\ Closes => Waits'
                           /\ Stopped => ClosesConn'
                           /\ ClosesConn => Goal'
  <2>1. Stopped => wpc' = "stopped"
    BY <1>2, WorkerMoves DEF Stopped, IInv, CleanupInv
  <2> QED
    BY <1>2, <2>1, CleanupMoves DEF Stopped
<1>3. EnabledAsGuarded => (Unsubscribes \/ Closes \/ Stopped \/ ClosesConn => CleanupCanGo)
  BY DEF EnabledAsGuarded, CleanupCanGo, Stopped
<1>4. Waits => AtWork \/ Stopped
  BY DEF AtWork, Stopped
<1>5. Watched => (AtWork ~> Stopped)
  BY WorkerStopsInTheEnd
<1> QED
  <2> HIDE DEF Unsubscribes, Closes, Waits, ClosesConn, Goal, Begun
  <2>1. Watched => (Begun ~> Goal)
    BY <1>1, <1>2, <1>3, <1>4, <1>5, WhatFairnessSays, PTL DEF Watched
  <2> QED
    BY <2>1 DEF Begun, Goal

(* A connection that is down, or has started a cleanup, begins it. *)
LEMMA CleanupBegins == Watched => (spawned \/ Down ~> cpc # "idle")
<1> DEFINE Due == cpc = "idle" /\ (spawned \/ rpc = "cleanup")
           Begun == cpc # "idle"
           Trigger == spawned \/ Down
           IsDown == Down
           Left == LeftLoop
<1>1. IInv => (Trigger => IsDown \/ Due \/ Begun)
  OBVIOUS
<1>2. IInv => (Left => Due \/ Begun)
  BY DEF IInv, CleanupInv, LeftLoop
<1>3. ASSUME IInv, Due, [Next]_vars
      PROVE  /\ Due' \/ Begun'
             /\ Cleanup => Begun'
  BY <1>3, SpawnedForGood, ReaderMoves, CleanupMoves
<1>4. EnabledAsGuarded => (Due => CleanupCanGo)
  BY DEF EnabledAsGuarded, CleanupCanGo
<1>5. Watched => (IsDown ~> Left)
  BY ReaderLeaves
<1> QED
  <2>1. (Trigger <=> spawned \/ Down) /\ (Begun <=> cpc # "idle")
    OBVIOUS
  <2> HIDE DEF Due, Begun, Trigger, IsDown, Left
  <2> QED
    BY <1>1, <1>2, <1>3, <1>4, <1>5, <2>1, WhatFairnessSays, PTL DEF Watched

(* Start returns after the cleanup. *)
LEMMA StartReturnsInTheEnd == Watched => (cpc = "done" ~> rpc = "returned")
<1> DEFINE Done == cpc = "done"
           IsDown == Down
           Left == LeftLoop
           Waits == cpc = "done" /\ rpc = "cleanup"
           Goal == rpc = "returned"
<1>1. IInv => (Done => IsDown)
  BY DEF IInv, CleanupInv, Down
<1>2. ASSUME IInv, [Next]_vars
      PROVE  /\ Done => Done'
             /\ Waits => Waits' \/ Goal'
             /\ Reader /\ Waits => Goal'
  BY <1>2, CleanupMoves, ReaderMoves
<1>3. Done /\ Left => Waits \/ Goal
  BY DEF LeftLoop
<1>4. EnabledAsGuarded => (Waits => ReaderCanGo)
  BY DEF EnabledAsGuarded, ReaderCanGo
<1>5. Watched => (IsDown ~> Left)
  BY ReaderLeaves
<1> QED
  <2>1. (Done <=> cpc = "done") /\ (Goal <=> rpc = "returned")
    OBVIOUS
  <2> HIDE DEF Done, IsDown, Left, Waits, Goal
  <2> QED
    BY <1>1, <1>2, <1>3, <1>4, <1>5, <2>1, WhatFairnessSays, PTL DEF Watched

(* A failed write, a closed socket or an ended context ends the connection *)
(* (connection.go, PassThrough, messageReader and cleanup), however many   *)
(* subscriptions are still to be made and events to be written, whatever   *)
(* the client, the bus, the ticker and the listener do meanwhile.          *)
THEOREM FailuresEndConnection == FairSpec /\ []EnabledAsGuarded => FailureEndsConnection
<1> DEFINE Trigger == spawned \/ sock = "closed" \/ ctxDone
           Begun == cpc # "idle"
           Done == cpc = "done"
           Goal == rpc = "returned"
<1>1. Watched => (Trigger ~> Begun)
  <2>1. Trigger <=> spawned \/ Down
    BY DEF Down
  <2> HIDE DEF Trigger
  <2> QED
    BY <2>1, CleanupBegins, PTL
<1>2. Watched => (Begun ~> Done)
  BY CleanupCompletes
<1>3. Watched => (Done ~> Goal)
  BY StartReturnsInTheEnd
<1>4. FailureEndsConnection <=> (Trigger ~> Goal)
  BY DEF FailureEndsConnection
<1> HIDE DEF Trigger, Begun, Done, Goal
<1> QED
  BY <1>1, <1>2, <1>3, <1>4, FairIsWatched, PTL

(* The connection keeps its whole promise to the listener: its socket      *)
(* closes for good, Start returns only after that, and does return.        *)
THEOREM ConnectionKeepsItsPromise == FairSpec /\ []EnabledAsGuarded => ImplementsLife
<1> DEFINE Closed == sock = "closed"
           Trigger == spawned \/ sock = "closed" \/ ctxDone
           Goal == rpc = "returned"
<1>1. Closed => Trigger
  OBVIOUS
<1>2. FailureEndsConnection <=> (Trigger ~> Goal)
  BY DEF FailureEndsConnection
<1>3. ImplementsLife <=> Life!Spec /\ (Closed ~> Goal)
  BY DEF ImplementsLife, Life!FairSpec
<1>4. FairSpec => Spec
  BY DEF FairSpec
<1> HIDE DEF Closed, Trigger, Goal
<1> QED
  BY <1>1, <1>2, <1>3, <1>4, FailuresEndConnection, ConnectionImplementsLife, PTL

=============================================================================
