---------------------------- MODULE VwsListener ----------------------------
(***************************************************************************)
(* The connection tracking and the graceful shutdown of the WebSocket      *)
(* listener (src/server/listener.go).                                      *)
(*                                                                         *)
(* Every HTTP request is served by a goroutine of its own running          *)
(* ServeHTTP: it accepts the WebSocket, looks at the shutdown channel,     *)
(* tracks the connection, records the gauge, runs Connection.Start until   *)
(* the connection ends, untracks it and records the gauge again.           *)
(* Shutdown may be called by several goroutines; a sync.Once makes one of  *)
(* them close the channel, take a snapshot of the tracked connections and  *)
(* start one closing goroutine per connection, and every caller then polls *)
(* the tracking map until it is empty or its context ends.                 *)
(*                                                                         *)
(* A connection has the identity of the request that created it.  What a   *)
(* Connection does between Start and its return is the subject of          *)
(* VwsConnection; here it is the state of its socket, which is closed      *)
(* whenever Start returns.                                                 *)
(***************************************************************************)
EXTENDS Naturals, FiniteSets

CONSTANTS Handlers,     \* the HTTP requests, one ServeHTTP goroutine each
          Callers       \* the goroutines that call Shutdown

ASSUME HandlersAssumption == IsFiniteSet(Handlers)

VARIABLES
  shutdown,     \* the channel l.shutdown is closed
  once,         \* l.shutdownOnce: "idle", "running", "done"
  connections,  \* l.connections, by request
  snapshot,     \* the connections Shutdown copied under the read lock
  closing,      \* connections whose "go conn.shutdownClose" has not run yet
  gauge,        \* the last value given to RecordConnectionActive
  pc,           \* where each ServeHTTP goroutine is
  sock,         \* its WebSocket: "none", "open", "closed"
  connCount,    \* its local variable connCount
  spc,          \* where each caller of Shutdown is
  racers        \* history: past the shutdown check but untracked when the
                \* shutdown channel was closed

handlerVars == <<connections, gauge, pc, sock, connCount>>
shutdownVars == <<shutdown, once, snapshot, closing, spc, racers>>
vars == <<handlerVars, shutdownVars>>

-----------------------------------------------------------------------------
HandlerPC == {"idle", "check", "track", "gaugeUp", "serving", "untrack",
              "gaugeDown", "returned", "refused"}
CallerPC == {"idle", "do", "snapshot", "spawn", "wait", "nil", "ctxErr"}

(* The map as its mutex shows it: entries exist from the tracking to the   *)
(* untracking critical section.                                            *)
Tracked(h) == pc[h] \in {"gaugeUp", "serving", "untrack"}

ConnectionCount == Cardinality(connections)

Init ==
  /\ shutdown = FALSE
  /\ once = "idle"
  /\ connections = {}
  /\ snapshot = {}
  /\ closing = {}
  /\ gauge = 0
  /\ pc = [h \in Handlers |-> "idle"]
  /\ sock = [h \in Handlers |-> "none"]
  /\ connCount = [h \in Handlers |-> 0]
  /\ spc = [s \in Callers |-> "idle"]
  /\ racers = {}

HandlerStep(h, from, to) ==
  /\ pc[h] = from
  /\ pc' = [pc EXCEPT ![h] = to]

CallerStep(s, from, to) ==
  /\ spc[s] = from
  /\ spc' = [spc EXCEPT ![s] = to]

-----------------------------------------------------------------------------
(* ServeHTTP *)

(* websocket.Accept succeeds. *)
Accept(h) ==
  /\ HandlerStep(h, "idle", "check")
  /\ sock' = [sock EXCEPT ![h] = "open"]
  /\ UNCHANGED <<connections, gauge, connCount, shutdownVars>>

(* websocket.Accept fails: the handler returns without a connection. *)
AcceptFails(h) ==
  /\ HandlerStep(h, "idle", "refused")
  /\ UNCHANGED <<connections, gauge, connCount, sock, shutdownVars>>

(* The shutdown channel is closed: refuse with StatusServiceRestart. *)
Reject(h) ==
  /\ shutdown
  /\ HandlerStep(h, "check", "refused")
  /\ sock' = [sock EXCEPT ![h] = "closed"]
  /\ UNCHANGED <<connections, gauge, connCount, shutdownVars>>

(* mutant: the select on the shutdown channel is dropped. *)
PassCheckAlways(h) ==
  /\ HandlerStep(h, "check", "track")
  /\ UNCHANGED <<connections, gauge, connCount, sock, shutdownVars>>
(* The select takes its default case. *)
PassCheck(h) ==
  /\ ~shutdown
  /\ HandlerStep(h, "check", "track")
  /\ UNCHANGED <<connections, gauge, connCount, sock, shutdownVars>>

(* newConnection, then the first critical section of ServeHTTP. *)
Track(h) ==
  /\ HandlerStep(h, "track", "gaugeUp")
  /\ connections' = connections \cup {h}
  /\ connCount' = [connCount EXCEPT ![h] = Cardinality(connections')]
  /\ UNCHANGED <<gauge, sock, shutdownVars>>

(* RecordConnectionStart and RecordConnectionActive, outside the lock. *)
RecordTracked(h) ==
  /\ HandlerStep(h, "gaugeUp", "serving")
  /\ gauge' = connCount[h]
  /\ UNCHANGED <<connections, connCount, sock, shutdownVars>>

(* Connection.Start returns: its reader has ended and cleanup is complete, *)
(* hence the socket is closed, once and for good: what VwsSocketLife        *)
(* promises and VwsConnection implements.                                  *)
StartReturns(h) ==
  /\ sock[h] = "closed"
  /\ HandlerStep(h, "serving", "untrack")
  /\ UNCHANGED <<connections, gauge, connCount, sock, shutdownVars>>

(* The second critical section of ServeHTTP. *)
Untrack(h) ==
  /\ HandlerStep(h, "untrack", "gaugeDown")
  /\ connections' = connections \ {h}
  /\ connCount' = [connCount EXCEPT ![h] = Cardinality(connections')]
  /\ UNCHANGED <<gauge, sock, shutdownVars>>

RecordUntracked(h) ==
  /\ HandlerStep(h, "gaugeDown", "returned")
  /\ gauge' = connCount[h]
  /\ UNCHANGED <<connections, connCount, sock, shutdownVars>>

(* The socket ends for a reason of its own: the peer closes or vanishes,   *)
(* the request's context ends, or a failed write starts the connection's   *)
(* cleanup.                                                                *)
ConnectionEnds(h) ==
  /\ sock[h] = "open"
  /\ sock' = [sock EXCEPT ![h] = "closed"]
  /\ UNCHANGED <<connections, gauge, connCount, pc, shutdownVars>>

-----------------------------------------------------------------------------
(* Shutdown *)

CallShutdown(s) ==
  /\ CallerStep(s, "idle", "do")
  /\ UNCHANGED <<handlerVars, shutdown, once, snapshot, closing, racers>>

(* The winner of shutdownOnce closes the shutdown channel. *)
CloseShutdown(s) ==
  /\ once = "idle"
  /\ CallerStep(s, "do", "snapshot")
  /\ once' = "running"
  /\ shutdown' = TRUE
  /\ racers' = {h \in Handlers : pc[h] = "track"}
  /\ UNCHANGED <<handlerVars, snapshot, closing>>

(* mutant: the snapshot misses a connection whose handler is between the   *)
(* tracking and Connection.Start.                                          *)
TakeSnapshotOfServing(s) ==
  /\ CallerStep(s, "snapshot", "spawn")
  /\ snapshot' = {h \in connections : pc[h] # "gaugeUp"}
  /\ UNCHANGED <<handlerVars, shutdown, once, closing, racers>>
(* The copy of the map under the read lock. *)
TakeSnapshot(s) ==
  /\ CallerStep(s, "snapshot", "spawn")
  /\ snapshot' = connections
  /\ UNCHANGED <<handlerVars, shutdown, once, closing, racers>>

(* mutant: only one closing goroutine is started (the early return is      *)
(* taken for one connection too).                                          *)
SpawnClosesOffByOne(s) ==
  /\ CallerStep(s, "spawn", "wait")
  /\ closing' = IF Cardinality(snapshot) <= 1 THEN {} ELSE snapshot
  /\ once' = "done"
  /\ UNCHANGED <<handlerVars, shutdown, snapshot, racers>>
(* One goroutine per connection of the snapshot, none when it is empty;    *)
(* the once's function returns.                                            *)
SpawnCloses(s) ==
  /\ CallerStep(s, "spawn", "wait")
  /\ closing' = snapshot
  /\ once' = "done"
  /\ UNCHANGED <<handlerVars, shutdown, snapshot, racers>>

(* mutant: a flag instead of a sync.Once, which does not wait. *)
SkipOnceWithoutWaiting(s) ==
  /\ once # "idle"
  /\ CallerStep(s, "do", "wait")
  /\ UNCHANGED <<handlerVars, shutdown, once, snapshot, closing, racers>>
(* Every other caller waits in Do until the winner's function has returned. *)
SkipOnce(s) ==
  /\ once = "done"
  /\ CallerStep(s, "do", "wait")
  /\ UNCHANGED <<handlerVars, shutdown, once, snapshot, closing, racers>>

(* The closing goroutine of connection h: Connection.shutdownClose. *)
ShutdownClose(h) ==
  /\ h \in closing
  /\ closing' = closing \ {h}
  /\ sock' = [sock EXCEPT ![h] = "closed"]
  /\ UNCHANGED <<connections, gauge, pc, connCount, shutdown, once, snapshot,
                 spc, racers>>

(* mutant: the poll compares with the wrong count. *)
ReturnNilTooEarly(s) ==
  /\ ConnectionCount <= 1
  /\ CallerStep(s, "wait", "nil")
  /\ UNCHANGED <<handlerVars, shutdown, once, snapshot, closing, racers>>
(* A tick of the poll finds no tracked connection. *)
ReturnNil(s) ==
  /\ connections = {}
  /\ CallerStep(s, "wait", "nil")
  /\ UNCHANGED <<handlerVars, shutdown, once, snapshot, closing, racers>>

(* The caller's context ends, with or without connections left. *)
ReturnCtxErr(s) ==
  /\ CallerStep(s, "wait", "ctxErr")
  /\ UNCHANGED <<handlerVars, shutdown, once, snapshot, closing, racers>>

-----------------------------------------------------------------------------
ServeHTTP(h) ==
  \/ Reject(h) \/ PassCheck(h) \/ Track(h) \/ RecordTracked(h)
  \/ StartReturns(h) \/ Untrack(h) \/ RecordUntracked(h)

Shutdown(s) ==
  \/ CloseShutdown(s) \/ TakeSnapshot(s) \/ SpawnCloses(s) \/ SkipOnce(s)
  \/ ReturnNil(s)

(* What the program does not decide. *)
Environment ==
  \/ \E h \in Handlers : Accept(h) \/ AcceptFails(h) \/ ConnectionEnds(h)
  \/ \E s \in Callers : CallShutdown(s) \/ ReturnCtxErr(s)

Next ==
  \/ \E h \in Handlers : ServeHTTP(h) \/ ShutdownClose(h)
  \/ \E s \in Callers : Shutdown(s)
  \/ Environment

(* The scheduler runs every goroutine that can take a step.  Nothing is    *)
(* assumed of peers, of new requests or of the callers' contexts.          *)
Fairness ==
  /\ \A h \in Handlers : WF_vars(ServeHTTP(h)) /\ WF_vars(ShutdownClose(h))
  /\ \A s \in Callers : WF_vars(Shutdown(s))

Spec == Init /\ [][Next]_vars
FairSpec == Spec /\ Fairness

-----------------------------------------------------------------------------
TypeOK ==
  /\ shutdown \in BOOLEAN
  /\ once \in {"idle", "running", "done"}
  /\ connections \subseteq Handlers
  /\ snapshot \subseteq Handlers
  /\ closing \subseteq Handlers
  /\ gauge \in Nat
  /\ pc \in [Handlers -> HandlerPC]
  /\ sock \in [Handlers -> {"none", "open", "closed"}]
  /\ connCount \in [Handlers -> Nat]
  /\ spc \in [Callers -> CallerPC]
  /\ racers \subseteq Handlers
-----------------------------------------------------------------------------
(* Once Shutdown's once is done, the only connections it has not told to   *)
(* close are those of requests that had passed the shutdown check and not  *)
(* yet reached the tracking map at the instant the channel was closed      *)
(* (ServeHTTP's check and its tracking are not atomic).                    *)
StragglersAreRacers == once = "done" => connections \ snapshot \subseteq racers

(* A request that has not passed the check when the channel is closed is   *)
(* never tracked, however long its handler takes.                          *)
NoLateAdmission ==
  \A h \in Handlers :
    [](shutdown /\ pc[h] \in {"idle", "check"} => [](h \notin connections))

(* No caller of Shutdown returns, not even with its context's error or as  *)
(* the loser of the once, before every connection of the snapshot has its  *)
(* closing goroutine or is closed already.                                 *)
ReturnMeansSignalled ==
  \A s \in Callers :
    spc[s] \in {"nil", "ctxErr"} =>
      /\ once = "done"
      /\ \A h \in snapshot : h \in closing \/ sock[h] = "closed"

(* When a caller of Shutdown has returned nil, every connection that was   *)
(* being served when the shutdown began is untracked and closed, for good. *)
NilMeansDrained ==
  \A s \in Callers :
    spc[s] = "nil" => \A h \in snapshot : h \notin connections /\ sock[h] = "closed"

(* Every call of Shutdown returns, without help from the peers, unless a   *)
(* racer's connection stays open.                                          *)
ShutdownCompletes ==
  <>[](\A h \in racers : sock[h] = "closed")
    => \A s \in Callers : spc[s] = "do" ~> spc[s] \in {"nil", "ctxErr"}

-----------------------------------------------------------------------------
(* The inductive invariant behind the three invariants above.              *)

(* The map holds exactly the requests between their two critical sections, *)
(* and a socket is as open as its handler's place allows.                  *)
HandlerInv ==
  \A h \in Handlers :
    /\ h \in connections <=> Tracked(h)
    /\ pc[h] = "idle" => sock[h] = "none"
    /\ sock[h] = "none" => pc[h] \in {"idle", "refused"}
    /\ sock[h] = "open" => pc[h] \in {"check", "track", "gaugeUp", "serving"}

(* One caller runs the once's function, and nobody is past it before it    *)
(* has returned.                                                           *)
OnceInv ==
  /\ shutdown <=> once # "idle"
  /\ \A s \in Callers :
       /\ spc[s] \in {"snapshot", "spawn"} => once = "running"
       /\ spc[s] \in {"wait", "nil", "ctxErr"} => once = "done"
  /\ \A r, s \in Callers :
       spc[r] \in {"snapshot", "spawn"} /\ spc[s] \in {"snapshot", "spawn"} => r = s

(* The snapshot exists from TakeSnapshot on. *)
SnapshotTaken ==
  once = "done" \/ \E s \in Callers : spc[s] = "spawn"

(* What is tracked and not in the snapshot was between check and tracking  *)
(* when the channel was closed; what is in the snapshot was tracked, and   *)
(* is told to close.                                                       *)
SnapshotInv ==
  /\ shutdown => \A h \in Handlers : pc[h] = "track" => h \in racers
  /\ SnapshotTaken => connections \ snapshot \subseteq racers
  /\ ~SnapshotTaken => snapshot = {}
  /\ \A h \in snapshot :
       /\ pc[h] \in {"gaugeUp", "serving", "untrack", "gaugeDown", "returned"}
       /\ sock[h] # "none"
       /\ once = "done" => h \in closing \/ sock[h] = "closed"
  /\ closing \subseteq snapshot

(* A caller that has returned nil has seen every connection of the         *)
(* snapshot leave the map.                                                 *)
DrainInv ==
  \A s \in Callers : spc[s] = "nil" => snapshot \cap connections = {}

IInv ==
  /\ TypeOK
  /\ HandlerInv
  /\ OnceInv
  /\ SnapshotInv
  /\ DrainInv

-----------------------------------------------------------------------------
(* What the code's comments promise and the code does not keep.            *)

(* listener.go:135, of Shutdown: "This method blocks until all connections *)
(* are closed or the context is cancelled."                                *)
NilMeansNoConnections == (\E s \in Callers : spc[s] = "nil") => connections = {}

(* metrics.go:58, of websocket.active_connections: "Current number of active  *)
(* WebSocket connections": once every handler has returned, the gauge      *)
(* shows the number of tracked connections.                                *)
GaugeSettles ==
  (\A h \in Handlers : pc[h] \in {"idle", "returned", "refused"}) => gauge = ConnectionCount
=============================================================================
