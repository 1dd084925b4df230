--------------------------- MODULE VwsConnection ---------------------------
(***************************************************************************)
(* One server connection (src/server/connection.go) from newConnection to  *)
(* the return of Start, and the goroutines that share it:                  *)
(*                                                                         *)
(*   - the reader, which is ServeHTTP's goroutine inside Start: it makes   *)
(*     the initial subscriptions, reads and handles the client's frames    *)
(*     one at a time, answers them itself, and cleans up;                  *)
(*   - the worker of the AsyncQueueingSubscriber, which takes events from  *)
(*     a bounded queue and writes them, and pings the client on its ticks; *)
(*   - the goroutines "go c.cleanup()" of every failed write;              *)
(*   - the listener's goroutine running shutdownClose.                     *)
(*                                                                         *)
(* The event bus, the AsyncQueueingSubscriber and the WebSocket library    *)
(* are external: they are what the calls of this file expect of them.  A   *)
(* call on the bus may fail; the bus appends an event to the queue of a    *)
(* subscribed connection unless the queue is full or closed; Close of the  *)
(* subscriber returns when its worker has drained the queue and stopped; a *)
(* write fails on a closed socket and may fail on an open one, and then    *)
(* closes it (a timeout) or not (a payload that cannot be marshalled).     *)
(***************************************************************************)
EXTENDS Naturals, Sequences, FiniteSets

CONSTANTS Topics,
          InitialTopics,  \* config.initialSubscriptions
          Allowed,        \* topics the subscription controller lets clients name
          Events,         \* the events on the bus: [topic, headers]
          Absent,         \* a key that is not in the map, headers a message has not
          QueueSize       \* config.queueSize

ASSUME ConnectionAssumption ==
  /\ InitialTopics \subseteq Topics /\ IsFiniteSet(InitialTopics)
  /\ Allowed \subseteq Topics
  /\ \A e \in Events : e.topic \in Topics
  /\ QueueSize \in Nat \ {0}

VARIABLES
  rpc,        \* the reader: "init", "read", "handle", "respond", "cleanup", "returned"
  todo,       \* initial subscriptions not made yet
  request,    \* the client frame in hand
  answer,     \* the kind of the answer to it: "ack" (err = nil) or "nack"
  wpc,        \* the worker: "idle", "event", "ping", "stopped"
  queue,      \* events waiting for the worker
  event,      \* the event the worker is forwarding
  eventMsg,   \* c.eventMsg, reused for every event
  asyncClosed,\* asyncSubscriber.Close has been called
  spawned,    \* some "go c.cleanup()" has been started
  cpc,        \* cleanupOnce and the step its function is at
  subs,       \* what the bus has for this connection's asyncSubscriber
  sock,       \* the WebSocket: "open", "closed"
  ctxDone,    \* the request's context has ended
  acked,      \* history: subscriptions the client has an ACK for and has not
              \* asked to end
  cleaner,    \* history: who runs the cleanup: "none", "reader", "goroutine"
  unsubResult \* history: the cleanup's UnsubscribeAll: "none", "ok", "failed"

readerVars == <<rpc, todo, request, answer, acked>>
workerVars == <<wpc, event, eventMsg>>
cleanupVars == <<cpc, asyncClosed, cleaner, unsubResult>>
sharedVars == <<queue, spawned, subs, sock, ctxDone>>
vars == <<readerVars, workerVars, cleanupVars, sharedVars>>

-----------------------------------------------------------------------------
(* vws.WireMessage as a client sends it: what the handler distinguishes.   *)
(* "other" is any kind the switch does not know, "malformed" a frame that  *)
(* is not JSON.                                                            *)
Requests ==
       [kind : {"event"}, id : BOOLEAN]
  \cup [kind : {"subscribe", "unsubscribe"}, topic : Topics]
  \cup [kind : {"unsubscribeAll", "ack", "other", "malformed"}]

NoRequest == [kind |-> "none"]

NoEvent == [topic |-> Absent, headers |-> Absent]

Headers == {e.headers : e \in Events} \cup {Absent}

ReaderStep(from, to) == rpc = from /\ rpc' = to
WorkerStep(from, to) == wpc = from /\ wpc' = to
CleanupStep(from, to) == cpc = from /\ cpc' = to

(* newConnection, and Start up to its first subscription. *)
Init ==
  /\ rpc = "init"
  /\ todo = InitialTopics
  /\ request = NoRequest
  /\ answer = "ack"
  /\ wpc = "idle"
  /\ queue = <<>>
  /\ event = NoEvent
  /\ eventMsg = [t |-> Absent, h |-> Absent]
  /\ asyncClosed = FALSE
  /\ spawned = FALSE
  /\ cpc = "idle"
  /\ subs = {}
  /\ sock = "open"
  /\ ctxDone = FALSE
  /\ acked = {}
  /\ cleaner = "none"
  /\ unsubResult = "none"

-----------------------------------------------------------------------------
(* The reader: Start and messageReader *)

(* One turn of Start's loop; an error is logged and the topic skipped. *)
InitialSubscribe(t) ==
  /\ rpc = "init" /\ t \in todo
  /\ todo' = todo \ {t}
  /\ subs' \in {subs, subs \cup {t}}
  /\ UNCHANGED <<rpc, request, answer, acked, workerVars, cleanupVars, queue, spawned,
                 sock, ctxDone>>

EnterReader ==
  /\ todo = {}
  /\ ReaderStep("init", "read")
  /\ UNCHANGED <<todo, request, answer, acked, workerVars, cleanupVars, sharedVars>>

(* conn.Read returns a frame.  An empty frame is ignored: no step. *)
ReadRequest(r) ==
  /\ sock = "open" /\ ~ctxDone
  /\ ReaderStep("read", "handle")
  /\ request' = r
  /\ acked' = CASE r.kind = "unsubscribe" -> acked \ {r.topic}
                [] r.kind = "unsubscribeAll" -> {}
                [] OTHER -> acked
  /\ UNCHANGED <<todo, answer, workerVars, cleanupVars, sharedVars>>

(* The context has ended, or conn.Read fails on the closed socket. *)
ReadFails ==
  /\ sock = "closed" \/ ctxDone
  /\ ReaderStep("read", "cleanup")
  /\ UNCHANGED <<todo, request, answer, acked, workerVars, cleanupVars, sharedVars>>

(* handleRequest for an event: the authorization, the transforms and the   *)
(* publishing decide err; an event without an id is never answered.        *)
HandleEvent ==
  /\ rpc = "handle" /\ request.kind = "event"
  /\ answer' \in {"ack", "nack"}
  /\ rpc' = IF request.id THEN "respond" ELSE "read"
  /\ UNCHANGED <<todo, request, acked, workerVars, cleanupVars, sharedVars>>

(* mutant: the answer reports success whatever the controller returned. *)
HandleSubscribeIgnoresError ==
  /\ request.kind = "subscribe"
  /\ ReaderStep("handle", "respond")
  /\ answer' = "ack"
  /\ subs' \in {subs, subs \cup (Allowed \cap {request.topic})}
  /\ UNCHANGED <<todo, request, acked, workerVars, cleanupVars, queue, spawned, sock,
                 ctxDone>>
(* The controller refuses the topic, or asks the bus, which may fail. *)
HandleSubscribe ==
  /\ request.kind = "subscribe"
  /\ ReaderStep("handle", "respond")
  /\ answer' \in IF request.topic \in Allowed THEN {"ack", "nack"} ELSE {"nack"}
  /\ subs' = IF answer' = "ack" THEN subs \cup {request.topic} ELSE subs
  /\ UNCHANGED <<todo, request, acked, workerVars, cleanupVars, queue, spawned, sock,
                 ctxDone>>

HandleUnsubscribe ==
  /\ request.kind = "unsubscribe"
  /\ ReaderStep("handle", "respond")
  /\ answer' \in IF request.topic \in Allowed THEN {"ack", "nack"} ELSE {"nack"}
  /\ subs' = IF answer' = "ack" THEN subs \ {request.topic} ELSE subs
  /\ UNCHANGED <<todo, request, acked, workerVars, cleanupVars, queue, spawned, sock,
                 ctxDone>>

HandleUnsubscribeAll ==
  /\ request.kind = "unsubscribeAll"
  /\ ReaderStep("handle", "respond")
  /\ answer' \in {"ack", "nack"}
  /\ subs' = IF answer' = "ack" THEN {} ELSE subs
  /\ UNCHANGED <<todo, request, acked, workerVars, cleanupVars, queue, spawned, sock,
                 ctxDone>>

(* An ACK is acknowledged; an unknown kind or a malformed frame is refused. *)
HandleOther ==
  /\ request.kind \in {"ack", "other", "malformed"}
  /\ ReaderStep("handle", "respond")
  /\ answer' = IF request.kind = "ack" THEN "ack" ELSE "nack"
  /\ UNCHANGED <<todo, request, acked, workerVars, cleanupVars, sharedVars>>

(* respondToRequest or sendErrorResponse through PassThrough: the write    *)
(* succeeds.                                                               *)
Respond ==
  /\ sock = "open" /\ ~ctxDone
  /\ ReaderStep("respond", "read")
  /\ acked' = IF answer = "ack" /\ request.kind = "subscribe" THEN acked \cup {request.topic}
                                                  ELSE acked
  /\ request' = NoRequest
  /\ UNCHANGED <<todo, answer, workerVars, cleanupVars, sharedVars>>

(* The write fails: PassThrough starts a cleanup, and the reader goes on.  *)
RespondFails ==
  /\ ReaderStep("respond", "read")
  /\ spawned' = TRUE
  /\ sock' \in {sock, "closed"}
  /\ request' = NoRequest
  /\ UNCHANGED <<todo, answer, acked, workerVars, cleanupVars, queue, subs, ctxDone>>

(* mutant: an atomic flag instead of the once, which does not wait for the *)
(* cleanup another goroutine has begun.                                    *)
StartReturnsAtOnce ==
  /\ cpc # "idle"
  /\ ReaderStep("cleanup", "returned")
  /\ UNCHANGED <<todo, request, answer, acked, workerVars, cleanupVars, sharedVars>>
(* cleanupOnce.Do returns to the reader when the cleanup is complete,      *)
(* whoever ran it.                                                         *)
StartReturns ==
  /\ cpc = "done"
  /\ ReaderStep("cleanup", "returned")
  /\ UNCHANGED <<todo, request, answer, acked, workerVars, cleanupVars, sharedVars>>

-----------------------------------------------------------------------------
(* The worker: OnEvent and PassThrough of a tick *)

(* OnEvent fills the reused map: "h" is set when the event has headers and *)
(* deleted when it has none.                                               *)
TakeEvent ==
  /\ queue # <<>>
  /\ WorkerStep("idle", "event")
  /\ event' = Head(queue)
  /\ queue' = Tail(queue)
  /\ \/ /\ event'.headers # Absent
        /\ eventMsg' = [eventMsg EXCEPT !.t = event'.topic, !.h = event'.headers]
     \/ /\ event'.headers = Absent
        /\ eventMsg' = [eventMsg EXCEPT !.t = event'.topic, !.h = Absent]
  /\ UNCHANGED <<readerVars, cleanupVars, spawned, subs, sock, ctxDone>>

(* sendPacket writes the event. *)
SendEvent ==
  /\ sock = "open"
  /\ WorkerStep("event", "idle")
  /\ UNCHANGED <<readerVars, event, eventMsg, cleanupVars, sharedVars>>

(* sendPacket fails to marshal or to write: a cleanup is started. *)
SendEventFails ==
  /\ WorkerStep("event", "idle")
  /\ spawned' = TRUE
  /\ sock' \in {sock, "closed"}
  /\ UNCHANGED <<readerVars, event, eventMsg, cleanupVars, queue, subs, ctxDone>>

(* A tick of the AsyncQueueingSubscriber: PassThrough, then handleTick. *)
Tick ==
  /\ ~asyncClosed
  /\ WorkerStep("idle", "ping")
  /\ UNCHANGED <<readerVars, event, eventMsg, cleanupVars, sharedVars>>

(* The pong is read by the reader's conn.Read, so the reader must be there. *)
PingAnswered ==
  /\ sock = "open" /\ rpc = "read"
  /\ WorkerStep("ping", "idle")
  /\ UNCHANGED <<readerVars, event, eventMsg, cleanupVars, sharedVars>>

(* The ping cannot be written, or no pong arrives within the timeout. *)
PingFails ==
  /\ WorkerStep("ping", "idle")
  /\ spawned' = TRUE
  /\ sock' \in {sock, "closed"}
  /\ UNCHANGED <<readerVars, event, eventMsg, cleanupVars, queue, subs, ctxDone>>

(* The worker of a closed subscriber has processed the remaining messages. *)
WorkerStops ==
  /\ asyncClosed /\ queue = <<>>
  /\ WorkerStep("idle", "stopped")
  /\ UNCHANGED <<readerVars, event, eventMsg, cleanupVars, sharedVars>>

-----------------------------------------------------------------------------
(* cleanup *)

(* The reader, or a goroutine of a failed write, is the first in the once. *)
BeginCleanup(who) ==
  /\ \/ who = "reader" /\ rpc = "cleanup"
     \/ who = "goroutine" /\ spawned
  /\ CleanupStep("idle", "unsubscribe")
  /\ cleaner' = who
  /\ UNCHANGED <<readerVars, workerVars, asyncClosed, unsubResult, sharedVars>>

(* mutant: only what the client has asked for is unsubscribed, not the     *)
(* server's initial subscriptions.                                         *)
CleanupUnsubscribeAcked ==
  /\ CleanupStep("unsubscribe", "closeAsync")
  /\ unsubResult' \in {"ok", "failed"}
  /\ subs' = IF unsubResult' = "ok" THEN subs \ acked ELSE subs
  /\ UNCHANGED <<readerVars, workerVars, asyncClosed, cleaner, queue, spawned, sock, ctxDone>>
(* eventBus.UnsubscribeAll; its error is logged and the cleanup goes on. *)
CleanupUnsubscribe ==
  /\ CleanupStep("unsubscribe", "closeAsync")
  /\ unsubResult' \in {"ok", "failed"}
  /\ subs' = IF unsubResult' = "ok" THEN {} ELSE subs
  /\ UNCHANGED <<readerVars, workerVars, asyncClosed, cleaner, queue, spawned, sock, ctxDone>>

(* mutant: the subscriber's queue is left open, and with it the worker. *)
CleanupForgetsAsync ==
  /\ CleanupStep("closeAsync", "closeConn")
  /\ asyncClosed' = TRUE
  /\ UNCHANGED <<readerVars, workerVars, cleaner, unsubResult, sharedVars>>
(* asyncSubscriber.Close stops the queue and then waits for the worker. *)
CleanupCloseAsync ==
  /\ CleanupStep("closeAsync", "waitWorker")
  /\ asyncClosed' = TRUE
  /\ UNCHANGED <<readerVars, workerVars, cleaner, unsubResult, sharedVars>>

CleanupWorkerStopped ==
  /\ wpc = "stopped"
  /\ CleanupStep("waitWorker", "closeConn")
  /\ UNCHANGED <<readerVars, workerVars, asyncClosed, cleaner, unsubResult, sharedVars>>

(* mutant: the socket is left to the listener. *)
CleanupLeavesConn ==
  /\ CleanupStep("closeConn", "done")
  /\ UNCHANGED <<readerVars, workerVars, asyncClosed, cleaner, unsubResult, sharedVars>>
(* conn.Close: the reader's conn.Read fails from now on. *)
CleanupCloseConn ==
  /\ CleanupStep("closeConn", "done")
  /\ sock' = "closed"
  /\ UNCHANGED <<readerVars, workerVars, asyncClosed, cleaner, unsubResult, queue,
                 spawned, subs, ctxDone>>

-----------------------------------------------------------------------------
(* The listener, the client and the bus *)

(* shutdownClose, called by Listener.Shutdown. *)
ShutdownClose ==
  /\ sock' = "closed"
  /\ UNCHANGED <<readerVars, workerVars, cleanupVars, queue, spawned, subs, ctxDone>>

(* The client closes, or the network fails, or a frame exceeds the limit. *)
PeerGone ==
  /\ sock = "open"
  /\ sock' = "closed"
  /\ UNCHANGED <<readerVars, workerVars, cleanupVars, queue, spawned, subs, ctxDone>>

ContextEnds ==
  /\ ctxDone' = TRUE
  /\ UNCHANGED <<readerVars, workerVars, cleanupVars, queue, spawned, subs, sock>>

(* The bus calls OnEvent of the asyncSubscriber, which appends to the      *)
(* queue; when the queue is full or closed the event is dropped: no step.  *)
BusPublish(e) ==
  /\ e.topic \in subs
  /\ ~asyncClosed
  /\ Len(queue) < QueueSize
  /\ queue' = Append(queue, e)
  /\ UNCHANGED <<readerVars, workerVars, cleanupVars, spawned, subs, sock, ctxDone>>

-----------------------------------------------------------------------------
HandleRequest ==
  \/ HandleEvent \/ HandleSubscribe \/ HandleUnsubscribe \/ HandleUnsubscribeAll
  \/ HandleOther

Reader ==
  \/ \E t \in InitialTopics : InitialSubscribe(t)
  \/ EnterReader \/ ReadFails \/ HandleRequest \/ Respond \/ RespondFails
  \/ StartReturns

Worker ==
  \/ TakeEvent \/ SendEvent \/ SendEventFails \/ PingAnswered \/ PingFails
  \/ WorkerStops

Cleanup ==
  \/ \E who \in {"reader", "goroutine"} : BeginCleanup(who)
  \/ CleanupUnsubscribe \/ CleanupCloseAsync \/ CleanupWorkerStopped
  \/ CleanupCloseConn

Environment ==
  \/ \E r \in Requests : ReadRequest(r)
  \/ Tick \/ ShutdownClose \/ PeerGone \/ ContextEnds
  \/ \E e \in Events : BusPublish(e)

Next == Reader \/ Worker \/ Cleanup \/ Environment

(* The goroutines of the connection are scheduled, the bus answers their   *)
(* calls and the write timeout bounds their writes.  Nothing is assumed of *)
(* the client, the ticker, the publishers and the listener.                *)
Fairness == WF_vars(Reader) /\ WF_vars(Worker) /\ WF_vars(Cleanup)

Spec == Init /\ [][Next]_vars
FairSpec == Spec /\ Fairness

-----------------------------------------------------------------------------
TypeOK ==
  /\ rpc \in {"init", "read", "handle", "respond", "cleanup", "returned"}
  /\ todo \subseteq InitialTopics
  /\ request \in Requests \cup {NoRequest}
  /\ answer \in {"ack", "nack"}
  /\ wpc \in {"idle", "event", "ping", "stopped"}
  /\ queue \in Seq(Events) /\ Len(queue) <= QueueSize
  /\ event \in Events \cup {NoEvent}
  /\ eventMsg \in [t : Topics \cup {Absent}, h : Headers]
  /\ asyncClosed \in BOOLEAN
  /\ spawned \in BOOLEAN
  /\ cpc \in {"idle", "unsubscribe", "closeAsync", "waitWorker", "closeConn", "done"}
  /\ subs \subseteq Topics
  /\ sock \in {"open", "closed"}
  /\ ctxDone \in BOOLEAN
  /\ acked \subseteq Topics
  /\ cleaner \in {"none", "reader", "goroutine"}
  /\ unsubResult \in {"none", "ok", "failed"}

-----------------------------------------------------------------------------
(* As long as no cleanup has reached the bus, the client has an ACK only   *)
(* for subscriptions the bus holds, whatever was refused, failed or        *)
(* removed in between.                                                     *)
AckedSubsActive == cpc \in {"idle", "unsubscribe"} => acked \subseteq subs

(* The cleanup never closes a socket before the worker has had its chance  *)
(* to write what was queued.                                               *)
DrainedBeforeClose ==
  cpc \in {"closeConn", "done"} => asyncClosed /\ wpc = "stopped" /\ queue = <<>>

(* When Start returns, and ServeHTTP takes the connection out of the       *)
(* listener's map, nothing of the connection is still running or open,     *)
(* whoever cleaned up.                                                     *)
ReturnedMeansClean ==
  rpc = "returned" => cpc = "done" /\ sock = "closed" /\ wpc = "stopped" /\ queue = <<>>

(* A connection whose cleanup is run by its reader leaves nothing on the   *)
(* bus (unless the bus itself refused).                                    *)
NoLeakWhenReaderCleans ==
  rpc = "returned" /\ cleaner = "reader" /\ unsubResult = "ok" => subs = {}

(* A failed write, a closed socket or an ended context brings the whole    *)
(* connection down: no goroutine waits for another one in a circle, and a  *)
(* ping is given up though the reader that would read its pong is busy.    *)
FailureEndsConnection == spawned \/ sock = "closed" \/ ctxDone ~> rpc = "returned"

(* The connection is what the listener takes it for: VwsSocketLife, with   *)
(* its promise that Start returns once the socket is closed.               *)
Life == INSTANCE VwsSocketLife WITH returned <- rpc = "returned"

ImplementsLife == Life!FairSpec

-----------------------------------------------------------------------------
(* The inductive invariant behind the four invariants above.               *)

(* The reader's request in hand: a subscription about to be acknowledged   *)
(* is on the bus, and one about to be ended is no longer claimed.          *)
RequestInv ==
  /\ rpc \in {"handle", "respond"} => request # NoRequest
  /\ rpc = "handle" /\ request.kind = "unsubscribe" => request.topic \notin acked
  /\ rpc = "handle" /\ request.kind = "unsubscribeAll" => acked = {}
  /\ rpc = "respond" /\ request.kind = "subscribe" /\ answer = "ack"
       /\ cpc \in {"idle", "unsubscribe"}
       => request.topic \in subs
  /\ AckedSubsActive

(* The steps of the cleanup and what each leaves behind. *)
CleanupInv ==
  /\ asyncClosed <=> cpc \in {"waitWorker", "closeConn", "done"}
  /\ wpc = "stopped" => asyncClosed /\ queue = <<>>
  /\ cpc \in {"closeConn", "done"} => wpc = "stopped"
  /\ cpc = "done" => sock = "closed"
  /\ rpc = "returned" => cpc = "done"

(* A reader that cleans up makes no more subscriptions. *)
CleanerInv ==
  /\ cpc = "idle" <=> cleaner = "none"
  /\ cpc = "idle" => unsubResult = "none"
  /\ cleaner = "reader" => rpc \in {"cleanup", "returned"}
  /\ cleaner = "reader" /\ unsubResult = "ok" => subs = {}

IInv ==
  /\ TypeOK
  /\ RequestInv
  /\ CleanupInv
  /\ CleanerInv

-----------------------------------------------------------------------------
(* connection.go:300: "Trigger cleanup to remove this connection and its   *)
(* subscriptions": no subscription outlives the connection, whoever runs   *)
(* the cleanup.                                                            *)
NoLeakedSubscription == rpc = "returned" /\ unsubResult = "ok" => subs = {}
=============================================================================
