----------------------------- MODULE VwsClient -----------------------------
(***************************************************************************)
(* The life cycle of the client (src/client/client.go): Connect,           *)
(* Disconnect, the cleanup they share with the two message loops, and the  *)
(* loops' ends.                                                            *)
(*                                                                         *)
(* Every Connect makes a new generation of the client's objects: a context *)
(* with its cancel function, a done channel and, when the dial succeeds, a *)
(* WebSocket and two goroutines, readLoop and writeLoop.  The fields of    *)
(* the Client that hold them are plain variables which the loops read      *)
(* again in every turn, and which the next Connect replaces.  A field is   *)
(* the number of the generation whose object it holds, 0 for nil.          *)
(*                                                                         *)
(* The flags started and stopping are set with compare-and-swap.  The      *)
(* cleanup runs on the goroutine of a Disconnect, or on a goroutine which  *)
(* a loop starts when its read or write fails.                             *)
(*                                                                         *)
(* Requests, answers and events are the subject of a module of their own;  *)
(* here a read or a write succeeds or fails.  The WebSocket library is     *)
(* external: a read or write fails on a socket that is not open and when   *)
(* its context has ended; the error carries a close status when the server *)
(* sent a close frame, none when the network failed, and either of the two *)
(* after a local Close.                                                    *)
(***************************************************************************)
EXTENDS Naturals, FiniteSets

CONSTANTS Callers,  \* the goroutines that call Connect and Disconnect
          MaxGen    \* bound: how many times Connect may win its CAS

Gens == 1 .. MaxGen

(* The goroutines that run a cleanup: callers, and one per loop. *)
ReadCleaner(g) == <<"read", g>>
WriteCleaner(g) == <<"write", g>>
Cleaners == Callers \cup {ReadCleaner(g) : g \in Gens} \cup {WriteCleaner(g) : g \in Gens}

ASSUME ClientAssumption ==
  /\ MaxGen \in Nat
  /\ \A g \in Gens : ReadCleaner(g) \notin Callers /\ WriteCleaner(g) \notin Callers

VARIABLES
  started, stopping, \* the two atomic flags
  fCtx, fDone,       \* the fields ctx (with cancel) and done
  conn,              \* the field conn, under mu
  gen,               \* the last generation a Connect has begun
  ctx,               \* per generation: the context is "live" or "cancelled"
  done,              \* per generation: how often the channel has been closed
  sock,              \* per generation: "none", "open", "closed" (by us),
                     \* "peerClosed" (close frame), "broken" (network)
  pc, my, dialCtx,   \* callers: place in Connect, its generation, the
                     \* context the dial is derived from
  rpc, rConn, rCtx, rDone, \* readLoop: place and local copies
  wpc, wConn, wCtx,  \* writeLoop: place and local copies
  kpc, kDone,        \* cleanups: place, and the done channel waited for
  overlap            \* history: a Connect and an older connection's cleanup
                     \* or writeLoop have been at work at the same time

flagVars == <<started, stopping>>
fieldVars == <<fCtx, fDone, conn>>
linkVars == <<ctx, done, sock>>
sharedVars == <<flagVars, fieldVars, linkVars, overlap>>
dialVars == <<my, dialCtx, gen>>
callerVars == <<pc, dialVars>>
readLocals == <<rConn, rCtx, rDone>>
readVars == <<rpc, readLocals>>
writeVars == <<wpc, wConn, wCtx>>
loopVars == <<readVars, writeVars>>
cleanVars == <<kpc, kDone>>
vars == <<sharedVars, callerVars, loopVars, cleanVars>>

-----------------------------------------------------------------------------
Init ==
  /\ started = 0 /\ stopping = 0
  /\ fCtx = 0 /\ fDone = 0 /\ conn = 0 /\ gen = 0
  /\ ctx = [g \in Gens |-> "live"]
  /\ done = [g \in Gens |-> 0]
  /\ sock = [g \in Gens |-> "none"]
  /\ pc = [p \in Callers |-> "idle"]
  /\ my = [p \in Callers |-> 0]
  /\ dialCtx = [p \in Callers |-> 0]
  /\ rpc = [g \in Gens |-> "none"]
  /\ rConn = [g \in Gens |-> 0] /\ rCtx = [g \in Gens |-> 0] /\ rDone = [g \in Gens |-> 0]
  /\ wpc = [g \in Gens |-> "none"]
  /\ wConn = [g \in Gens |-> 0] /\ wCtx = [g \in Gens |-> 0]
  /\ kpc = [t \in Cleaners |-> "none"]
  /\ kDone = [t \in Cleaners |-> 0]
  /\ overlap = FALSE

Cancelled(g) == ctx[g] = "cancelled"

Connecting(p) == pc[p] \notin {"idle", "disconnect"}

(* Between winning stopping and giving it back. *)
Stopping(t) == kpc[t] \in {"close", "cancel", "load", "wait", "resetStarted", "resetStopping"}

(* A writeLoop is running, or a cleanup may still touch the client's fields. *)
LeftoverAtWork ==
  \/ \E g \in Gens : wpc[g] \notin {"none", "ended"}
  \/ \E t \in Cleaners : Stopping(t) /\ kpc[t] # "resetStopping"

(* func (c *Client) IsConnected *)
IsConnected == started = 1 /\ conn # 0

CallerStep(p, from, to) == pc[p] = from /\ pc' = [pc EXCEPT ![p] = to]
ReadStep(g, from, to) == rpc[g] = from /\ rpc' = [rpc EXCEPT ![g] = to]
WriteStep(g, from, to) == wpc[g] = from /\ wpc' = [wpc EXCEPT ![g] = to]
CleanStep(t, from, to) == kpc[t] = from /\ kpc' = [kpc EXCEPT ![t] = to]

-----------------------------------------------------------------------------
(* Connect *)

(* The CAS on started.  A Connect that loses it returns an error: no step. *)
BeginConnect(p) ==
  /\ gen < MaxGen
  /\ started = 0
  /\ started' = 1
  /\ CallerStep(p, "idle", "setCtx")
  /\ gen' = gen + 1
  /\ my' = [my EXCEPT ![p] = gen']
  /\ overlap' = (overlap \/ LeftoverAtWork \/ \E q \in Callers : Connecting(q))
  /\ UNCHANGED <<stopping, fieldVars, linkVars, dialCtx, loopVars, cleanVars>>

(* c.ctx, c.cancel = context.WithCancel(ctx) *)
SetCtx(p) ==
  /\ CallerStep(p, "setCtx", "setDone")
  /\ fCtx' = my[p]
  /\ UNCHANGED <<flagVars, fDone, conn, linkVars, overlap, dialVars, loopVars, kpc, kDone>>

(* c.done, with c.writeChannel and c.pendingReqs, which are replaced here. *)
SetDone(p) ==
  /\ CallerStep(p, "setDone", "setup")
  /\ fDone' = my[p]
  /\ UNCHANGED <<flagVars, fCtx, conn, linkVars, overlap, dialVars, loopVars, kpc, kDone>>

(* The URL does not parse or the authorization provider fails. *)
SetupFails(p) ==
  /\ CallerStep(p, "setup", "idle")
  /\ started' = 0
  /\ UNCHANGED <<stopping, fieldVars, linkVars, overlap, dialVars, loopVars, kpc, kDone>>

(* The dial's context is derived from the field c.ctx. *)
Setup(p) ==
  /\ CallerStep(p, "setup", "dial")
  /\ dialCtx' = [dialCtx EXCEPT ![p] = fCtx]
  /\ UNCHANGED <<sharedVars, my, gen, loopVars, cleanVars>>

DialFails(p) ==
  /\ CallerStep(p, "dial", "idle")
  /\ started' = 0
  /\ dialCtx' = [dialCtx EXCEPT ![p] = 0]
  /\ UNCHANGED <<stopping, fieldVars, linkVars, overlap, my, gen, loopVars, cleanVars>>

DialSucceeds(p) ==
  /\ CallerStep(p, "dial", "setConn")
  /\ ~Cancelled(dialCtx[p])
  /\ sock' = [sock EXCEPT ![my[p]] = "open"]
  /\ dialCtx' = [dialCtx EXCEPT ![p] = 0]
  /\ UNCHANGED <<flagVars, fieldVars, ctx, done, overlap, my, gen, loopVars, cleanVars>>

(* c.conn = conn, then the monitor's OnConnect. *)
SetConn(p) ==
  /\ CallerStep(p, "setConn", "spawn")
  /\ conn' = my[p]
  /\ UNCHANGED <<flagVars, fCtx, fDone, linkVars, overlap, dialVars, loopVars, kpc, kDone>>

SpawnLoops(p) ==
  /\ CallerStep(p, "spawn", "idle")
  /\ rpc' = [rpc EXCEPT ![my[p]] = "defer"]
  /\ wpc' = [wpc EXCEPT ![my[p]] = "getConn"]
  /\ UNCHANGED <<sharedVars, dialVars, readLocals, wConn, wCtx, cleanVars>>

-----------------------------------------------------------------------------
(* Disconnect and cleanupWithStatus *)

(* The CAS on stopping.  A Disconnect that loses it returns nil: no step. *)
BeginDisconnect(p) ==
  /\ stopping = 0
  /\ stopping' = 1
  /\ CallerStep(p, "idle", "disconnect")
  /\ kpc' = [kpc EXCEPT ![p] = "close"]
  /\ overlap' = (overlap \/ \E q \in Callers : Connecting(q))
  /\ UNCHANGED <<started, fieldVars, linkVars, dialVars, loopVars, kDone>>

(* c.conn.Close and c.conn = nil, under mu. *)
CloseConn(t) ==
  /\ CleanStep(t, "close", "cancel")
  /\ sock' = [g \in Gens |-> IF g = conn /\ sock[g] = "open" THEN "closed" ELSE sock[g]]
  /\ conn' = 0
  /\ UNCHANGED <<flagVars, fCtx, fDone, ctx, done, overlap, callerVars, loopVars, kDone>>

(* c.cancel(), if there is one. *)
CancelCtx(t) ==
  /\ CleanStep(t, "cancel", "load")
  /\ ctx' = [g \in Gens |-> IF g = fCtx THEN "cancelled" ELSE ctx[g]]
  /\ UNCHANGED <<flagVars, fieldVars, done, sock, overlap, callerVars, loopVars, kDone>>

(* Read the field c.done; nil is not waited for. *)
LoadDone(t) ==
  /\ CleanStep(t, "load", IF fDone = 0 THEN "resetStarted" ELSE "wait")
  /\ kDone' = [kDone EXCEPT ![t] = fDone]
  /\ UNCHANGED <<sharedVars, callerVars, loopVars>>

(* mutant: the cleanup does not wait. *)
WaitDoneNot(t) ==
  /\ CleanStep(t, "wait", "resetStarted")
  /\ UNCHANGED <<sharedVars, callerVars, loopVars, kDone>>
(* <-c.done, which only a readLoop closes. *)
WaitDone(t) ==
  /\ kDone[t] # 0
  /\ done[kDone[t]] > 0
  /\ CleanStep(t, "wait", "resetStarted")
  /\ UNCHANGED <<sharedVars, callerVars, loopVars, kDone>>

(* mutant: the flag is decremented, not stored. *)
ResetStartedByDecrement(t) ==
  /\ CleanStep(t, "resetStarted", "resetStopping")
  /\ started' = started - 1
  /\ kDone' = [kDone EXCEPT ![t] = 0]
  /\ UNCHANGED <<stopping, fieldVars, linkVars, overlap, callerVars, loopVars>>
ResetStarted(t) ==
  /\ CleanStep(t, "resetStarted", "resetStopping")
  /\ started' = 0
  /\ kDone' = [kDone EXCEPT ![t] = 0]
  /\ UNCHANGED <<stopping, fieldVars, linkVars, overlap, callerVars, loopVars>>

ResetStopping(t) ==
  /\ CleanStep(t, "resetStopping", "notify")
  /\ stopping' = 0
  /\ UNCHANGED <<started, fieldVars, linkVars, overlap, callerVars, loopVars, kDone>>

(* The monitor's OnDisconnect; then Disconnect or the goroutine returns. *)
NotifyDisconnect(t) ==
  /\ CleanStep(t, "notify", "none")
  /\ pc' = [p \in Callers |-> IF p = t THEN "idle" ELSE pc[p]]
  /\ UNCHANGED <<sharedVars, dialVars, loopVars, kDone>>

-----------------------------------------------------------------------------
(* readLoop *)

(* "defer close(c.done)" reads the field when the goroutine starts. *)
ReadDefer(g) ==
  /\ ReadStep(g, "defer", "getConn")
  /\ rDone' = [rDone EXCEPT ![g] = fDone]
  /\ UNCHANGED <<sharedVars, callerVars, rConn, rCtx, writeVars, cleanVars>>

ReadGetConn(g) ==
  /\ ReadStep(g, "getConn", IF conn = 0 THEN "closeDone" ELSE "top")
  /\ rConn' = [rConn EXCEPT ![g] = conn]
  /\ UNCHANGED <<sharedVars, callerVars, rCtx, rDone, writeVars, cleanVars>>

(* The select on c.ctx.Done(), and the context of the Read. *)
ReadTop(g) ==
  /\ ReadStep(g, "top", IF Cancelled(fCtx) THEN "closeDone" ELSE "reading")
  /\ rCtx' = [rCtx EXCEPT ![g] = fCtx]
  /\ UNCHANGED <<sharedVars, callerVars, rConn, rDone, writeVars, cleanVars>>

(* A message arrives and handleMessage runs. *)
ReadMessage(g) ==
  /\ ReadStep(g, "reading", "top")
  /\ sock[rConn[g]] = "open"
  /\ UNCHANGED <<sharedVars, callerVars, readLocals, writeVars, kpc, kDone>>

(* An error with a close status: the loop ends and tells nobody. *)
ReadSeesClose(g) ==
  /\ ReadStep(g, "reading", "closeDone")
  /\ sock[rConn[g]] \in {"closed", "peerClosed"}
  /\ UNCHANGED <<sharedVars, callerVars, readLocals, writeVars, kpc, kDone>>

(* Any other error. *)
ReadFails(g) ==
  /\ ReadStep(g, "reading", "failed")
  /\ sock[rConn[g]] \in {"closed", "broken"} \/ Cancelled(rCtx[g])
  /\ UNCHANGED <<sharedVars, callerVars, readLocals, writeVars, kpc, kDone>>

(* c.ctx.Err() tells an expected failure from an unexpected one. *)
ReadJudge(g) ==
  /\ ReadStep(g, "failed", IF Cancelled(fCtx) THEN "closeDone" ELSE "notify")
  /\ UNCHANGED <<sharedVars, callerVars, readLocals, writeVars, kpc, kDone>>

(* mutant: the failure is noticed and not acted upon. *)
ReadNotifiesNobody(g) ==
  /\ ReadStep(g, "notify", "closeDone")
  /\ UNCHANGED <<sharedVars, callerVars, readLocals, writeVars, kpc, kDone>>
(* notifyDisconnectError: the winner of stopping starts a cleanup. *)
ReadNotify(g) ==
  /\ ReadStep(g, "notify", "closeDone")
  /\ stopping' = 1
  /\ kpc' = IF stopping = 0 THEN [kpc EXCEPT ![ReadCleaner(g)] = "close"] ELSE kpc
  /\ overlap' = (overlap \/ (stopping = 0 /\ \E q \in Callers : Connecting(q)))
  /\ UNCHANGED <<started, fieldVars, linkVars, callerVars, readLocals, wpc, wConn, wCtx,
                 kDone>>

(* mutant: the cleanup runs on the goroutine of the loop, before its       *)
(* deferred close.                                                         *)
ReadCloseDoneAfterCleanup(g) ==
  /\ rDone[g] # 0
  /\ kpc[ReadCleaner(g)] = "none"
  /\ ReadStep(g, "closeDone", "ended")
  /\ done' = [done EXCEPT ![rDone[g]] = done[rDone[g]] + 1]
  /\ rConn' = [rConn EXCEPT ![g] = 0]
  /\ rCtx' = [rCtx EXCEPT ![g] = 0]
  /\ rDone' = [rDone EXCEPT ![g] = 0]
  /\ UNCHANGED <<flagVars, fieldVars, ctx, sock, overlap, callerVars, writeVars, kpc, kDone>>
(* The deferred close(done); to close it a second time is a panic, which   *)
(* ends the process: the steps after that stand for nothing.               *)
ReadCloseDone(g) ==
  /\ rDone[g] # 0
  /\ ReadStep(g, "closeDone", "ended")
  /\ done' = [done EXCEPT ![rDone[g]] = done[rDone[g]] + 1]
  /\ rConn' = [rConn EXCEPT ![g] = 0]
  /\ rCtx' = [rCtx EXCEPT ![g] = 0]
  /\ rDone' = [rDone EXCEPT ![g] = 0]
  /\ UNCHANGED <<flagVars, fieldVars, ctx, sock, overlap, callerVars, writeVars, kpc, kDone>>

-----------------------------------------------------------------------------
(* writeLoop *)

WriteGetConn(g) ==
  /\ WriteStep(g, "getConn", IF conn = 0 THEN "ended" ELSE "top")
  /\ wConn' = [wConn EXCEPT ![g] = conn]
  /\ UNCHANGED <<sharedVars, callerVars, readVars, wCtx, cleanVars>>

(* The select evaluates the fields c.ctx and c.writeChannel and blocks. *)
WriteTop(g) ==
  /\ WriteStep(g, "top", "select")
  /\ wCtx' = [wCtx EXCEPT ![g] = fCtx]
  /\ UNCHANGED <<sharedVars, callerVars, readVars, wConn, cleanVars>>

WriteCancelled(g) ==
  /\ WriteStep(g, "select", "ended")
  /\ Cancelled(wCtx[g])
  /\ UNCHANGED <<sharedVars, callerVars, readVars, wConn, wCtx, cleanVars>>

(* A message is taken from the channel; the Write reads c.ctx again. *)
WriteTakes(g) ==
  /\ WriteStep(g, "select", "writing")
  /\ wCtx' = [wCtx EXCEPT ![g] = fCtx]
  /\ UNCHANGED <<sharedVars, callerVars, readVars, wConn, cleanVars>>

WriteSucceeds(g) ==
  /\ WriteStep(g, "writing", "top")
  /\ sock[wConn[g]] = "open" /\ ~Cancelled(wCtx[g])
  /\ UNCHANGED <<sharedVars, callerVars, readVars, wConn, wCtx, cleanVars>>

WriteSeesClose(g) ==
  /\ WriteStep(g, "writing", "ended")
  /\ sock[wConn[g]] \in {"closed", "peerClosed"}
  /\ UNCHANGED <<sharedVars, callerVars, readVars, wConn, wCtx, cleanVars>>

WriteFails(g) ==
  /\ WriteStep(g, "writing", "failed")
  /\ sock[wConn[g]] \in {"closed", "broken"} \/ Cancelled(wCtx[g])
  /\ UNCHANGED <<sharedVars, callerVars, readVars, wConn, wCtx, cleanVars>>

WriteJudge(g) ==
  /\ WriteStep(g, "failed", IF Cancelled(fCtx) THEN "ended" ELSE "notify")
  /\ UNCHANGED <<sharedVars, callerVars, readVars, wConn, wCtx, cleanVars>>

(* mutant: the flag is stored, not compared and swapped. *)
WriteNotifyWithoutCAS(g) ==
  /\ WriteStep(g, "notify", "ended")
  /\ stopping' = 1
  /\ kpc' = [kpc EXCEPT ![WriteCleaner(g)] = "close"]
  /\ overlap' = (overlap \/ \E q \in Callers : Connecting(q))
  /\ UNCHANGED <<started, fieldVars, linkVars, callerVars, readVars, wConn, wCtx, kDone>>
(* notifyDisconnectError *)
WriteNotify(g) ==
  /\ WriteStep(g, "notify", "ended")
  /\ stopping' = 1
  /\ kpc' = IF stopping = 0 THEN [kpc EXCEPT ![WriteCleaner(g)] = "close"] ELSE kpc
  /\ overlap' = (overlap \/ (stopping = 0 /\ \E q \in Callers : Connecting(q)))
  /\ UNCHANGED <<started, fieldVars, linkVars, callerVars, readVars, wConn, wCtx, kDone>>

-----------------------------------------------------------------------------
(* The server, the network, and the context given to Connect *)

SocketEnds(g) ==
  /\ sock[g] = "open"
  /\ \E how \in {"peerClosed", "broken"} : sock' = [sock EXCEPT ![g] = how]
  /\ UNCHANGED <<flagVars, fieldVars, ctx, done, overlap, callerVars, loopVars, kpc, kDone>>

CallerCancels(g) ==
  /\ g <= gen /\ ctx[g] = "live"
  /\ ctx' = [ctx EXCEPT ![g] = "cancelled"]
  /\ UNCHANGED <<flagVars, fieldVars, done, sock, overlap, callerVars, loopVars, kpc, kDone>>

-----------------------------------------------------------------------------
Connect(p) ==
  \/ SetCtx(p) \/ SetDone(p) \/ SetupFails(p) \/ Setup(p) \/ DialFails(p)
  \/ DialSucceeds(p) \/ SetConn(p) \/ SpawnLoops(p)

Cleanup(t) ==
  \/ CloseConn(t) \/ CancelCtx(t) \/ LoadDone(t) \/ WaitDone(t)
  \/ ResetStarted(t) \/ ResetStopping(t) \/ NotifyDisconnect(t)

ReadLoop(g) ==
  \/ ReadDefer(g) \/ ReadGetConn(g) \/ ReadTop(g) \/ ReadSeesClose(g)
  \/ ReadFails(g) \/ ReadJudge(g) \/ ReadNotify(g) \/ ReadCloseDone(g)

WriteLoop(g) ==
  \/ WriteGetConn(g) \/ WriteTop(g) \/ WriteCancelled(g) \/ WriteSucceeds(g)
  \/ WriteSeesClose(g) \/ WriteFails(g) \/ WriteJudge(g) \/ WriteNotify(g)

Environment ==
  \/ \E p \in Callers : BeginConnect(p) \/ BeginDisconnect(p)
  \/ \E g \in Gens :
       SocketEnds(g) \/ CallerCancels(g) \/ ReadMessage(g) \/ WriteTakes(g)

Next ==
  \/ \E p \in Callers : Connect(p)
  \/ \E t \in Cleaners : Cleanup(t)
  \/ \E g \in Gens : ReadLoop(g) \/ WriteLoop(g)
  \/ Environment

(* Every goroutine that can take a step takes one in the end, a dial ends  *)
(* within its timeout, and reads and writes end when their socket or their *)
(* context does.  Messages need not arrive, and nobody need call.          *)
Fairness ==
  /\ \A p \in Callers : WF_vars(Connect(p))
  /\ \A t \in Cleaners : WF_vars(Cleanup(t))
  /\ \A g \in Gens : WF_vars(ReadLoop(g)) /\ WF_vars(WriteLoop(g))

Spec == Init /\ [][Next]_vars
FairSpec == Spec /\ Fairness

-----------------------------------------------------------------------------
CallerPC == {"idle", "disconnect", "setCtx", "setDone", "setup", "dial", "setConn", "spawn"}
CleanPC == {"none", "close", "cancel", "load", "wait", "resetStarted", "resetStopping",
            "notify"}
ReadPC == {"none", "defer", "getConn", "top", "reading", "failed", "notify", "closeDone",
           "ended"}
WritePC == {"none", "getConn", "top", "select", "writing", "failed", "notify", "ended"}

FieldTypes ==
  /\ started \in {0, 1} /\ stopping \in {0, 1} /\ overlap \in BOOLEAN
  /\ {fCtx, fDone, conn, gen} \subseteq 0 .. MaxGen
  /\ ctx \in [Gens -> {"live", "cancelled"}]
  /\ done \in [Gens -> Nat]
  /\ sock \in [Gens -> {"none", "open", "closed", "peerClosed", "broken"}]

CallerTypes ==
  /\ pc \in [Callers -> CallerPC]
  /\ my \in [Callers -> 0 .. MaxGen] /\ dialCtx \in [Callers -> 0 .. MaxGen]

LoopTypes ==
  /\ rpc \in [Gens -> ReadPC] /\ wpc \in [Gens -> WritePC]
  /\ rConn \in [Gens -> 0 .. MaxGen] /\ rCtx \in [Gens -> 0 .. MaxGen]
  /\ rDone \in [Gens -> 0 .. MaxGen]
  /\ wConn \in [Gens -> 0 .. MaxGen] /\ wCtx \in [Gens -> 0 .. MaxGen]

CleanTypes == kpc \in [Cleaners -> CleanPC] /\ kDone \in [Cleaners -> 0 .. MaxGen]

TypeOK == FieldTypes /\ CallerTypes /\ LoopTypes /\ CleanTypes

(* stopping is held by exactly one cleanup at a time, whichever goroutines *)
(* call Disconnect and whichever loops fail.                               *)
CleanupOwnership ==
  /\ stopping = 1 <=> \E t \in Cleaners : Stopping(t)
  /\ \A t, u \in Cleaners : Stopping(t) /\ Stopping(u) => t = u

(* When a cleanup resets started, every readLoop has ended: no message is  *)
(* handled after Disconnect has returned, and none by two loops.  This     *)
(* holds as long as no Connect has met an older connection's cleanup or    *)
(* writeLoop, and not without that: see DoneClosedOnce below.              *)
ReadersEndFirst ==
  ~overlap =>
    \A t \in Cleaners : kpc[t] = "resetStarted" =>
      \A g \in Gens : rpc[g] \in {"none", "ended"}

-----------------------------------------------------------------------------
(* What ReadersEndFirst and the ends of cleanups rest on: as long as no    *)
(* Connect has met an older connection's leftovers,                        *)

AtWork(t) == Stopping(t) /\ kpc[t] # "resetStopping"

Quiet(g) == rpc[g] \in {"none", "ended"}

NoOpenSocket == conn = 0 /\ \A g \in Gens : sock[g] # "open"

(* -- one Connect at a time is under way, when nobody cleans up or reads;  *)
ConnectInv ==
  \A p \in Callers : Connecting(p) =>
    /\ my[p] = gen /\ gen \in Gens /\ started = 1
    /\ \A q \in Callers : Connecting(q) => q = p
    /\ \A t \in Cleaners : ~AtWork(t)
    /\ \A g \in Gens : Quiet(g)
    /\ rpc[gen] = "none" /\ done[gen] = 0
    /\ pc[p] \in {"setup", "dial", "setConn", "spawn"} => fDone = gen
    /\ pc[p] # "spawn" => conn = 0

(* -- a readLoop that runs belongs to the last Connect and will close the  *)
(* channel of that Connect, which is still open;                           *)
ReaderInv ==
  \A g \in Gens :
    /\ g > gen => rpc[g] = "none"
    /\ ~Quiet(g) => g = gen /\ fDone = g /\ started = 1
    /\ ~Quiet(g) /\ rpc[g] # "defer" => rDone[g] = g
    /\ done[g] \in {0, 1} /\ (done[g] = 1 => rpc[g] = "ended")

(* -- the field conn has the open socket, or Connect is about to set it;   *)
SocketInv ==
  \A g \in Gens : sock[g] = "open" =>
    \/ g = conn
    \/ \E p \in Callers : pc[p] = "setConn" /\ g = my[p]

(* -- a cleanup has closed the socket, waits for the channel in the field, *)
(* and has seen the readLoop end when it resets started;                   *)
CleanInv ==
  \A t \in Cleaners :
    /\ AtWork(t) /\ kpc[t] # "close" => NoOpenSocket
    /\ kpc[t] = "wait" => kDone[t] = fDone
    /\ kpc[t] = "resetStarted" => \A g \in Gens : Quiet(g)

(* -- a client that is not started is at rest.                             *)
StoppedInv ==
  started = 0 =>
    /\ NoOpenSocket
    /\ \A g \in Gens : Quiet(g)
    /\ \A p \in Callers : ~Connecting(p)

LifeInv == ConnectInv /\ ReaderInv /\ SocketInv /\ CleanInv /\ StoppedInv

(* A caller that cleans up is in its Disconnect.                           *)
CallerInv == \A p \in Callers : kpc[p] # "none" => pc[p] = "disconnect"

IInv == TypeOK /\ CallerInv /\ (~overlap => LifeInv)

-----------------------------------------------------------------------------
(* The done channel a cleanup will wait for belongs to a Connect that      *)
(* failed: no readLoop will close it.                                      *)
OrphanDone == fDone # 0 /\ rpc[fDone] = "none" /\ \A p \in Callers : ~Connecting(p)

(* Every cleanup, of a Disconnect or of a failing loop, comes to its end   *)
(* when the last Connect succeeded: the loops it waits for do not wait for *)
(* it.                                                                     *)
CleanupCompletes == stopping = 1 /\ ~OrphanDone ~> stopping = 0 \/ overlap

(* A cleanup that waits for its done channel, which is still open. *)
AwaitsReader(t) == kpc[t] = "wait" /\ done[kDone[t]] = 0

(* A cleanup and the loops never wait for each other in a circle           *)
(* (client.go:216, "to avoid deadlock"): a cleanup always has a step to    *)
(* take, or the readLoop has whose channel it waits for; and so has a loop *)
(* that has failed and is about to start one.                              *)
CleanupUnblocked ==
  /\ \A t \in Cleaners : Stopping(t) /\ ~AwaitsReader(t) => ENABLED <<Cleanup(t)>>_vars
  /\ \A t \in Cleaners, g \in Gens :
       AwaitsReader(t) /\ kDone[t] = g /\ ~OrphanDone /\ ~overlap => ENABLED <<ReadLoop(g)>>_vars
  /\ \A g \in Gens : rpc[g] = "notify" => ENABLED <<ReadLoop(g)>>_vars

(* A readLoop that fails while nobody is stopping the client brings its    *)
(* connection down.  While somebody is, it need not: started is reset      *)
(* before stopping, and the readLoop may be that of a Connect in between.  *)
ErrorTearsDown ==
  \A g \in Gens : rpc[g] = "notify" /\ stopping = 0 ~> conn # g

-----------------------------------------------------------------------------
(* What comments and tests promise and the code does not keep.             *)

(* client_test.go:453: "Disconnect before ever connecting should be safe": *)
(* a Disconnect of a client that has never been connected returns, also    *)
(* when a Connect has been tried and has failed.                           *)
DisconnectReturns ==
  \A p \in Callers :
    kpc[p] = "close" /\ (\A g \in Gens : sock[g] = "none") ~> pc[p] = "idle"

(* client.go:159, of IsConnected: it "reports whether the client currently *)
(* holds a live WebSocket connection": it does not stay true after the     *)
(* server has closed the connection (while the context is live).           *)
ServerCloseIsSeen ==
  \A g \in Gens : conn = g /\ sock[g] = "peerClosed" ~> ~IsConnected \/ Cancelled(g)

(* client/README.md:338: "Connection state is protected with proper        *)
(* locking": no two readLoops close the same done channel, which is a      *)
(* panic, whoever calls Connect and Disconnect.                            *)
DoneClosedOnce == \A g \in Gens : done[g] <= 1
=============================================================================
