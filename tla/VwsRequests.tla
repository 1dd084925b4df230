---------------------------- MODULE VwsRequests ----------------------------
(***************************************************************************)
(* The calls of the client that talk to the server (src/client/client.go): *)
(* Subscribe, Unsubscribe, UnsubscribeAll and PublishSync ask and wait for *)
(* an ACK or a NACK; Publish only queues a message.  A call runs on a      *)
(* goroutine of the program, or inside a callback of the client: the       *)
(* subscriber's OnEvent, on readLoop, and the monitor's OnConnect, inside  *)
(* Connect.                                                                *)
(*                                                                         *)
(* Connects are numbered as in VwsClient, which has the Disconnects that   *)
(* overlap a Connect: here one of the two is at work at a time, and lpc is *)
(* the place in it.  ctx and writeChannel hold the number of the Connect   *)
(* that set them, 0 for nil; calls and loops read them when the code does. *)
(* Nobody keeps a pendingReqs that was replaced.                           *)
(* What a call sends is named by the call.  The server decides on a        *)
(* message once, answers it when it has an id, and may never do either.    *)
(***************************************************************************)
EXTENDS Naturals, FiniteSets

CONSTANTS Callers,          \* calls made by goroutines of the program
          Inner,            \* calls made inside a callback
          WriteChannelSize, \* capacity of the write channel
          MaxGen            \* bound: how many times Connect is called

ASSUME RequestsAssumption ==
  /\ Callers \cap Inner = {}
  /\ WriteChannelSize \in Nat /\ MaxGen \in Nat

Requests == Callers \cup Inner
Gens == 1 .. MaxGen

VARIABLES
  started, fCtx, fChan, \* the fields started, ctx, writeChannel
  locked,              \* pendingMu is held by a call that has panicked
  mapMade, pending, messageID, \* pendingReqs is not nil; its entries <<id, call>>
  lpc, gen, ctx, sock, \* place in Connect or cleanup, the last Connect; per
                       \* Connect: context "live" or "cancelled"; socket
  rpc, wpc, wCtx, wChan, \* readLoop; writeLoop and the fields its select read
  chan, net, answers,  \* per Connect: messages in the channel, on the way to
                       \* the server; answers <<id, verdict>> on the way back
  pc, host,            \* per call: its place; the callback it is made in
  id, sel,             \* its message id; the fields its select has read
  own, resp,           \* its context has ended; what is in its response channel
  result, verdict      \* how it has ended; what the server did (VwsCall)

fieldVars == <<started, fCtx, fChan, mapMade, locked>>
lifeVars == <<lpc, gen, ctx, sock>>
writeVars == <<wpc, wCtx, wChan>>
wireVars == <<chan, net, answers>>
mapVars == <<pending, messageID, id, resp>>
endVars == <<result, verdict>>
callVars == <<pc, host, sel, own>>
vars == <<fieldVars, lifeVars, rpc, writeVars, wireVars, mapVars, endVars, callVars>>

Init ==
  /\ started = 0 /\ fCtx = 0 /\ fChan = 0 /\ mapMade = FALSE /\ locked = FALSE
  /\ lpc = "idle" /\ gen = 0 /\ messageID = 0
  /\ ctx = [g \in Gens |-> "live"] /\ sock = [g \in Gens |-> "none"]
  /\ rpc = [g \in Gens |-> "none"] /\ wpc = [g \in Gens |-> "none"]
  /\ wCtx = [g \in Gens |-> 0] /\ wChan = [g \in Gens |-> 0]
  /\ chan = [g \in Gens |-> {}] /\ net = [g \in Gens |-> {}]
  /\ pending = {} /\ answers = [g \in Gens |-> {}]
  /\ pc = [r \in Requests |-> "idle"] /\ host = [r \in Requests |-> "none"]
  /\ id = [r \in Requests |-> 0] /\ own = [r \in Requests |-> FALSE]
  /\ sel = [r \in Requests |-> [ctx |-> 0, chan |-> 0]]
  /\ resp = [r \in Requests |-> "none"] /\ result = [r \in Requests |-> "none"]
  /\ verdict = [r \in Requests |-> "none"]

Cancelled(g) == g \in Gens /\ ctx[g] = "cancelled"

(* The callback is still in one of its calls. *)
Busy(callback) == \E r \in Inner : host[r] = callback /\ pc[r] # "done"

(* A send on the write channel c does not block; on nil it does. *)
HasRoom(c) == IF c = 0 THEN FALSE ELSE Cardinality(chan[c]) < WriteChannelSize

(* The socket g closes; what is on the way is lost. *)
Closes(g) ==
  /\ sock' = [sock EXCEPT ![g] = "closed"]
  /\ net' = [net EXCEPT ![g] = {}] /\ answers' = [answers EXCEPT ![g] = {}]

LifeStep(from, to) == lpc = from /\ lpc' = to

-----------------------------------------------------------------------------
(* Connect and cleanup, in the order of their assignments *)

BeginConnect ==
  /\ gen < MaxGen /\ started = 0
  /\ LifeStep("idle", "setCtx")
  /\ started' = 1 /\ gen' = gen + 1
  /\ UNCHANGED <<fCtx, fChan, mapMade, locked, ctx, sock, rpc, writeVars, wireVars, mapVars,
                 endVars, callVars>>

SetCtx ==
  /\ LifeStep("setCtx", "setChan")
  /\ fCtx' = gen
  /\ UNCHANGED <<started, fChan, mapMade, locked, gen, ctx, sock, rpc, writeVars, wireVars,
                 mapVars, endVars, callVars>>

SetChan ==
  /\ LifeStep("setChan", "setPend")
  /\ fChan' = gen
  /\ UNCHANGED <<started, fCtx, mapMade, locked, gen, ctx, sock, rpc, writeVars, wireVars,
                 mapVars, endVars, callVars>>

(* The assignment waits for the lock. *)
SetPend ==
  /\ ~locked
  /\ LifeStep("setPend", "dial")
  /\ mapMade' = TRUE /\ pending' = {}
  /\ UNCHANGED <<started, fCtx, fChan, locked, gen, ctx, sock, rpc, writeVars, wireVars,
                 messageID, id, resp, endVars, callVars>>

(* Any of Connect's errors: started is reset, the fields stay. *)
DialFails ==
  /\ LifeStep("dial", "idle")
  /\ started' = 0
  /\ UNCHANGED <<fCtx, fChan, mapMade, locked, gen, ctx, sock, rpc, writeVars, wireVars,
                 mapVars, endVars, callVars>>

(* The monitor's OnConnect is running from here on. *)
DialSucceeds ==
  /\ LifeStep("dial", "onConnect")
  /\ ~Cancelled(fCtx)
  /\ sock' = [sock EXCEPT ![gen] = "open"]
  /\ UNCHANGED <<fieldVars, gen, ctx, rpc, writeVars, wireVars, mapVars, endVars, callVars>>

(* mutant: the monitor is told after the loops are started. *)
SpawnLoopsBeforeOnConnect ==
  /\ lpc = "onConnect" /\ rpc[gen] = "none"
  /\ rpc' = [rpc EXCEPT ![gen] = "top"]
  /\ wpc' = [wpc EXCEPT ![gen] = "top"]
  /\ UNCHANGED <<fieldVars, lifeVars, wCtx, wChan, wireVars, mapVars, endVars, callVars>>
SpawnLoops ==
  /\ ~Busy("onConnect")
  /\ LifeStep("onConnect", "idle")
  /\ rpc' = [rpc EXCEPT ![gen] = "top"]
  /\ wpc' = [wpc EXCEPT ![gen] = "top"]
  /\ UNCHANGED <<fieldVars, gen, ctx, sock, wCtx, wChan, wireVars, mapVars, endVars, callVars>>

(* A Disconnect, or the goroutine of a loop that failed. *)
CloseConn ==
  /\ LifeStep("idle", "cancel")
  /\ IF gen \in Gens /\ sock[gen] = "open" THEN Closes(gen) ELSE UNCHANGED <<sock, net, answers>>
  /\ UNCHANGED <<fieldVars, gen, ctx, rpc, writeVars, chan, mapVars, endVars, callVars>>

(* mutant: the context is left to whoever gave it to Connect. *)
CancelCtxNot ==
  /\ LifeStep("cancel", "wait")
  /\ UNCHANGED <<fieldVars, gen, ctx, sock, rpc, writeVars, wireVars, mapVars, endVars, callVars>>
CancelCtx ==
  /\ LifeStep("cancel", "wait")
  /\ ctx' = [g \in Gens |-> IF g = fCtx THEN "cancelled" ELSE ctx[g]]
  /\ UNCHANGED <<fieldVars, gen, sock, rpc, writeVars, wireVars, mapVars, endVars, callVars>>

(* mutant: the map is dropped with the connection. *)
ResetStateClearsMap ==
  /\ fCtx \in Gens => rpc[fCtx] = "ended"
  /\ LifeStep("wait", "idle")
  /\ started' = 0 /\ mapMade' = FALSE
  /\ UNCHANGED <<fCtx, fChan, locked, gen, ctx, sock, rpc, writeVars, wireVars, mapVars,
                 endVars, callVars>>
(* done is closed when readLoop returns; nil is not waited for. *)
ResetState ==
  /\ fCtx \in Gens => rpc[fCtx] = "ended"
  /\ LifeStep("wait", "idle")
  /\ started' = 0
  /\ UNCHANGED <<fCtx, fChan, mapMade, locked, gen, ctx, sock, rpc, writeVars, wireVars,
                 mapVars, endVars, callVars>>

-----------------------------------------------------------------------------
(* readLoop, with handleMessage *)

(* The context is found cancelled, or the read fails. *)
ReadEnds(g) ==
  /\ rpc[g] = "top"
  /\ sock[g] # "open" \/ Cancelled(fCtx)
  /\ rpc' = [rpc EXCEPT ![g] = "ended"]
  /\ UNCHANGED <<fieldVars, lifeVars, writeVars, wireVars, mapVars, endVars, callVars>>

(* mutant: an answer goes to whichever call has waited longest. *)
HandleResponseInOrder(g, i, v) ==
  /\ rpc[g] = "top" /\ sock[g] = "open"
  /\ <<i, v>> \in answers[g]
  /\ answers' = [answers EXCEPT ![g] = @ \ {<<i, v>>}]
  /\ LET entry == {e \in pending : \A f \in pending : e[1] <= f[1]}
     IN  /\ pending' = pending \ entry
         /\ resp' = [r \in Requests |-> IF <<id[r], r>> \in entry /\ resp[r] = "none"
                                        THEN v ELSE resp[r]]
  /\ UNCHANGED <<fieldVars, lifeVars, rpc, writeVars, chan, net, messageID, id, endVars, callVars>>
(* mutant: the response channel has no buffer. *)
HandleResponseUnbuffered(g, i, v) ==
  /\ rpc[g] = "top" /\ sock[g] = "open"
  /\ <<i, v>> \in answers[g]
  /\ answers' = [answers EXCEPT ![g] = @ \ {<<i, v>>}]
  /\ LET entry == {e \in pending : e[1] = i}
     IN  /\ pending' = pending \ entry
         /\ resp' = [r \in Requests |-> IF <<i, r>> \in entry /\ pc[r] = "waiting"
                                        THEN v ELSE resp[r]]
  /\ UNCHANGED <<fieldVars, lifeVars, rpc, writeVars, chan, net, messageID, id, endVars, callVars>>
(* handleResponse: the id's entry, if there is one, is taken out of the    *)
(* map, and its channel gets the answer unless it is full.                 *)
HandleResponse(g, i, v) ==
  /\ rpc[g] = "top" /\ sock[g] = "open" /\ ~locked
  /\ <<i, v>> \in answers[g]
  /\ answers' = [answers EXCEPT ![g] = @ \ {<<i, v>>}]
  /\ LET entry == {e \in pending : e[1] = i}
     IN  /\ pending' = pending \ entry
         /\ resp' = [r \in Requests |-> IF <<i, r>> \in entry /\ resp[r] = "none"
                                        THEN v ELSE resp[r]]
  /\ UNCHANGED <<fieldVars, lifeVars, rpc, writeVars, chan, net, messageID, id, endVars, callVars>>

(* handleEvent: the subscriber's OnEvent runs on this goroutine.  One that *)
(* makes no call only delays readLoop, and is no step.                     *)
HandleEvent(g) ==
  /\ rpc[g] = "top" /\ sock[g] = "open"
  /\ \E r \in Inner : pc[r] = "idle"
  /\ rpc' = [rpc EXCEPT ![g] = "onEvent"]
  /\ UNCHANGED <<fieldVars, lifeVars, writeVars, wireVars, mapVars, endVars, callVars>>

EventHandled(g) ==
  /\ rpc[g] = "onEvent" /\ ~Busy("onEvent")
  /\ rpc' = [rpc EXCEPT ![g] = "top"]
  /\ UNCHANGED <<fieldVars, lifeVars, writeVars, wireVars, mapVars, endVars, callVars>>

-----------------------------------------------------------------------------
(* writeLoop *)

(* The select evaluates the fields ctx and writeChannel, and blocks. *)
WriteTop(g) ==
  /\ wpc[g] = "top"
  /\ wpc' = [wpc EXCEPT ![g] = "select"]
  /\ wCtx' = [wCtx EXCEPT ![g] = fCtx]
  /\ wChan' = [wChan EXCEPT ![g] = fChan]
  /\ UNCHANGED <<fieldVars, lifeVars, rpc, wireVars, mapVars, endVars, callVars>>

WriteEnds(g) ==
  /\ wpc' = [wpc EXCEPT ![g] = "ended"]
  /\ wCtx' = [wCtx EXCEPT ![g] = 0] /\ wChan' = [wChan EXCEPT ![g] = 0]

WriteCancelled(g) ==
  /\ wpc[g] = "select" /\ Cancelled(wCtx[g])
  /\ WriteEnds(g)
  /\ UNCHANGED <<fieldVars, lifeVars, rpc, wireVars, mapVars, endVars, callVars>>

(* A message is taken from the channel and written to this loop's socket. *)
WriteSucceeds(g, r) ==
  /\ wpc[g] = "select" /\ r \in chan[wChan[g]]
  /\ sock[g] = "open" /\ ~Cancelled(fCtx)
  /\ chan' = [chan EXCEPT ![wChan[g]] = @ \ {r}]
  /\ net' = [net EXCEPT ![g] = @ \cup {r}]
  /\ wpc' = [wpc EXCEPT ![g] = "top"]
  /\ UNCHANGED <<fieldVars, lifeVars, rpc, wCtx, wChan, answers, mapVars, endVars, callVars>>

(* The message is lost with the loop. *)
WriteFails(g, r) ==
  /\ wpc[g] = "select" /\ r \in chan[wChan[g]]
  /\ sock[g] # "open" \/ Cancelled(fCtx)
  /\ chan' = [chan EXCEPT ![wChan[g]] = @ \ {r}]
  /\ WriteEnds(g)
  /\ UNCHANGED <<fieldVars, lifeVars, rpc, net, answers, mapVars, endVars, callVars>>

-----------------------------------------------------------------------------
(* The calls *)

CallStep(r, from, to) == pc[r] = from /\ pc' = [pc EXCEPT ![r] = to]

(* The call returns with result o, or panics. *)
EndsWith(r, o) ==
  /\ pc' = [pc EXCEPT ![r] = "done"]
  /\ result' = [result EXCEPT ![r] = o]
  /\ sel' = [sel EXCEPT ![r] = [ctx |-> 0, chan |-> 0]]
  /\ host' = [host EXCEPT ![r] = "none"] /\ own' = [own EXCEPT ![r] = FALSE]
  /\ UNCHANGED verdict

(* cleanupPendingRequest, on the map that is in the field now *)
DropEntry(r) == ~locked /\ pending' = {e \in pending : e[1] # id[r]}

(* Where a call may be made: on its own goroutine, or in a callback. *)
MayBegin(r, where) ==
  \/ where = "none" /\ r \in Callers
  \/ /\ r \in Inner /\ ~Busy(where)
     /\ \/ where = "onConnect" /\ lpc = "onConnect"
        \/ where = "onEvent" /\ \E g \in Gens : rpc[g] = "onEvent"

(* The client is not started: the call fails at once. *)
RefuseCall(r) ==
  /\ pc[r] = "idle" /\ r \in Callers
  /\ started = 0
  /\ EndsWith(r, "failed")
  /\ UNCHANGED <<fieldVars, lifeVars, rpc, writeVars, wireVars, mapVars>>

(* Subscribe, Unsubscribe, UnsubscribeAll, PublishSync up to sendMessage. *)
Ask(r, where) ==
  /\ MayBegin(r, where) /\ started = 1
  /\ CallStep(r, "idle", "register")
  /\ messageID' = messageID + 1
  /\ id' = [id EXCEPT ![r] = messageID']
  /\ host' = [host EXCEPT ![r] = where]
  /\ UNCHANGED <<fieldVars, lifeVars, rpc, writeVars, wireVars, pending, resp, endVars, sel, own>>

(* Publish, which sendMessageNoResponse ends at once: the message cannot be *)
(* marshalled, or is in the channel, or the context has ended, or the      *)
(* channel is full.                                                        *)
Publish(r, where) ==
  /\ MayBegin(r, where) /\ started = 1
  /\ pc[r] = "idle"
  /\ \/ /\ EndsWith(r, "failed")
        /\ UNCHANGED chan
     \/ /\ fCtx # 0 /\ HasRoom(fChan)
        /\ chan' = [chan EXCEPT ![fChan] = @ \cup {r}]
        /\ EndsWith(r, "sent")
  /\ UNCHANGED <<fieldVars, lifeVars, rpc, writeVars, net, answers, mapVars>>

(* Publish evaluates Done of a context that is nil. *)
PublishPanics(r, where) ==
  /\ MayBegin(r, where) /\ started = 1 /\ fCtx = 0
  /\ pc[r] = "idle"
  /\ EndsWith(r, "panicked")
  /\ UNCHANGED <<fieldVars, lifeVars, rpc, writeVars, wireVars, mapVars>>

Register(r) ==
  /\ mapMade /\ ~locked
  /\ CallStep(r, "register", "send")
  /\ pending' = pending \cup {<<id[r], r>>}
  /\ UNCHANGED <<fieldVars, lifeVars, rpc, writeVars, wireVars, messageID, id, resp, endVars,
                 host, sel, own>>

(* An assignment to an entry of a nil map, between Lock and Unlock: where  *)
(* the caller recovers from the panic, the lock stays taken.               *)
RegisterPanics(r) ==
  /\ ~mapMade /\ ~locked /\ pc[r] = "register"
  /\ locked' = TRUE
  /\ EndsWith(r, "panicked")
  /\ UNCHANGED <<started, fCtx, fChan, mapMade, lifeVars, rpc, writeVars, wireVars, mapVars>>

MarshalFails(r) ==
  /\ pc[r] = "send"
  /\ DropEntry(r) /\ EndsWith(r, "failed")
  /\ UNCHANGED <<fieldVars, lifeVars, rpc, writeVars, wireVars, messageID, id, resp>>

(* The first select evaluates the fields writeChannel and ctx. *)
EnterSend(r) ==
  /\ CallStep(r, "send", "sending")
  /\ sel' = [sel EXCEPT ![r] = [ctx |-> fCtx, chan |-> fChan]]
  /\ UNCHANGED <<fieldVars, lifeVars, rpc, writeVars, wireVars, mapVars, endVars, host, own>>

(* mutant: the channel has no capacity of its own. *)
EnqueueOverfills(r) ==
  /\ CallStep(r, "sending", "wait")
  /\ sel[r].chan # 0
  /\ chan' = [chan EXCEPT ![sel[r].chan] = @ \cup {r}]
  /\ UNCHANGED <<fieldVars, lifeVars, rpc, writeVars, net, answers, mapVars, endVars, host,
                 sel, own>>
Enqueue(r) ==
  /\ CallStep(r, "sending", "wait")
  /\ HasRoom(sel[r].chan)
  /\ chan' = [chan EXCEPT ![sel[r].chan] = @ \cup {r}]
  /\ UNCHANGED <<fieldVars, lifeVars, rpc, writeVars, net, answers, mapVars, endVars, host,
                 sel, own>>

(* The second select evaluates ctx again. *)
EnterWait(r) ==
  /\ CallStep(r, "wait", "waiting")
  /\ sel' = [sel EXCEPT ![r] = [ctx |-> fCtx, chan |-> 0]]
  /\ UNCHANGED <<fieldVars, lifeVars, rpc, writeVars, wireVars, mapVars, endVars, host, own>>

TakeAnswer(r) ==
  /\ pc[r] = "waiting" /\ resp[r] # "none"
  /\ EndsWith(r, resp[r])
  /\ resp' = [resp EXCEPT ![r] = "none"]
  /\ UNCHANGED <<fieldVars, lifeVars, rpc, writeVars, wireVars, pending, messageID, id>>

(* mutant: only the context the client was connected with is watched. *)
GiveUpOnClientContext(r) ==
  /\ pc[r] \in {"sending", "waiting"}
  /\ Cancelled(sel[r].ctx)
  /\ DropEntry(r) /\ EndsWith(r, "failed")
  /\ UNCHANGED <<fieldVars, lifeVars, rpc, writeVars, wireVars, messageID, id, resp>>
(* mutant: the entry is left behind. *)
GiveUpWithoutCleanup(r) ==
  /\ pc[r] \in {"sending", "waiting"}
  /\ own[r] \/ Cancelled(sel[r].ctx)
  /\ EndsWith(r, "failed")
  /\ UNCHANGED <<fieldVars, lifeVars, rpc, writeVars, wireVars, mapVars>>
(* Either select: the call's context or the client's has ended. *)
GiveUp(r) ==
  /\ pc[r] \in {"sending", "waiting"}
  /\ own[r] \/ Cancelled(sel[r].ctx)
  /\ DropEntry(r) /\ EndsWith(r, "failed")
  /\ UNCHANGED <<fieldVars, lifeVars, rpc, writeVars, wireVars, messageID, id, resp>>

-----------------------------------------------------------------------------
(* The server, the network, and the contexts *)

(* The server handles a message, and answers it if it has an id. *)
Serve(g, r) ==
  /\ r \in net[g] /\ sock[g] = "open"
  /\ net' = [net EXCEPT ![g] = @ \ {r}]
  /\ \E v \in {"ok", "refused"} :
       /\ verdict' = [verdict EXCEPT ![r] = v]
       /\ answers' = IF id[r] = 0 THEN answers
                     ELSE [answers EXCEPT ![g] = @ \cup {<<id[r], v>>}]
  /\ UNCHANGED <<fieldVars, lifeVars, rpc, writeVars, chan, mapVars, result, callVars>>

PeerGone(g) ==
  /\ sock[g] = "open" /\ Closes(g)
  /\ UNCHANGED <<fieldVars, lpc, gen, ctx, rpc, writeVars, chan, mapVars, endVars, callVars>>

(* The context given to Connect. *)
ConnectContextEnds(g) ==
  /\ g <= gen /\ ctx[g] = "live"
  /\ ctx' = [ctx EXCEPT ![g] = "cancelled"]
  /\ UNCHANGED <<fieldVars, lpc, gen, sock, rpc, writeVars, wireVars, mapVars, endVars, callVars>>

(* The context given to the call, which only the selects look at. *)
OwnContextEnds(r) ==
  /\ pc[r] \notin {"idle", "done"} /\ ~own[r]
  /\ own' = [own EXCEPT ![r] = TRUE]
  /\ UNCHANGED <<fieldVars, lifeVars, rpc, writeVars, wireVars, mapVars, endVars, pc, host, sel>>

-----------------------------------------------------------------------------
LifeCycle ==
  \/ SetCtx \/ SetChan \/ SetPend \/ DialFails \/ DialSucceeds \/ SpawnLoops
  \/ CancelCtx \/ ResetState

ReadLoop(g) ==
  \/ ReadEnds(g) \/ EventHandled(g)
  \/ \E i \in 1 .. messageID, v \in {"ok", "refused"} : HandleResponse(g, i, v)

WriteLoop(g) ==
  \/ WriteTop(g) \/ WriteCancelled(g)
  \/ \E r \in Requests : WriteSucceeds(g, r) \/ WriteFails(g, r)

Call(r) ==
  \/ Register(r) \/ RegisterPanics(r) \/ MarshalFails(r) \/ EnterSend(r) \/ Enqueue(r)
  \/ EnterWait(r) \/ TakeAnswer(r) \/ GiveUp(r)

Environment ==
  \/ BeginConnect \/ CloseConn
  \/ \E r \in Requests :
       \/ RefuseCall(r) \/ OwnContextEnds(r)
       \/ \E where \in {"none", "onConnect", "onEvent"} :
            Ask(r, where) \/ Publish(r, where) \/ PublishPanics(r, where)
  \/ \E g \in Gens :
       \/ HandleEvent(g) \/ PeerGone(g) \/ ConnectContextEnds(g)
       \/ \E r \in Requests : Serve(g, r)

Next ==
  \/ LifeCycle
  \/ \E g \in Gens : ReadLoop(g) \/ WriteLoop(g)
  \/ \E r \in Requests : Call(r)
  \/ Environment

(* Goroutines that can go on do, and a dial ends within its timeout.       *)
(* Nothing is assumed of the server, the network, the callers' contexts,   *)
(* or of who calls.                                                        *)
Fairness ==
  /\ WF_vars(LifeCycle)
  /\ \A g \in Gens : WF_vars(ReadLoop(g)) /\ WF_vars(WriteLoop(g))
  /\ \A r \in Requests : WF_vars(Call(r))

Spec == Init /\ [][Next]_vars
FairSpec == Spec /\ Fairness

-----------------------------------------------------------------------------
Results == {"none", "ok", "refused", "sent", "failed", "panicked"}

LifeTypes ==
  /\ started \in {0, 1} /\ {fCtx, fChan, gen} \subseteq 0 .. MaxGen
  /\ mapMade \in BOOLEAN /\ locked \in BOOLEAN
  /\ lpc \in {"idle", "setCtx", "setChan", "setPend", "dial", "onConnect", "cancel", "wait"}
  /\ ctx \in [Gens -> {"live", "cancelled"}] /\ sock \in [Gens -> {"none", "open", "closed"}]
  /\ rpc \in [Gens -> {"none", "top", "onEvent", "ended"}]
  /\ wpc \in [Gens -> {"none", "top", "select", "ended"}]
  /\ wCtx \in [Gens -> 0 .. MaxGen] /\ wChan \in [Gens -> 0 .. MaxGen]

WireTypes ==
  /\ chan \in [Gens -> SUBSET Requests] /\ net \in [Gens -> SUBSET Requests]
  /\ answers \in [Gens -> SUBSET (Nat \X {"ok", "refused"})]
  /\ pending \subseteq Nat \X Requests /\ messageID \in Nat
  /\ id \in [Requests -> Nat] /\ resp \in [Requests -> {"none", "ok", "refused"}]

CallTypes ==
  /\ pc \in [Requests -> {"idle", "register", "send", "sending", "wait", "waiting", "done"}]
  /\ host \in [Requests -> {"none", "onConnect", "onEvent"}] /\ own \in [Requests -> BOOLEAN]
  /\ sel \in [Requests -> [ctx : 0 .. MaxGen, chan : 0 .. MaxGen]]
  /\ result \in [Requests -> Results] /\ verdict \in [Requests -> {"none", "ok", "refused"}]

TypeOK ==
  /\ LifeTypes /\ WireTypes /\ CallTypes
  /\ \A g \in Gens : Cardinality(chan[g]) <= WriteChannelSize

(* Across reconnects, late answers, abandoned calls and lost messages,     *)
(* every call does what VwsCall says: it ends once, and with an answer     *)
(* only if that is what the server decided on this very call.              *)
Calls == INSTANCE VwsCall WITH outcome <- result

ImplementsCalls == Calls!Spec

(* The map in use holds no entry of a call that has returned, and an       *)
(* entry's channel has room: readLoop never meets a call that is gone,     *)
(* and never drops an answer because it has already delivered one.         *)
EntriesAreLive ==
  \A e \in pending : pc[e[2]] \notin {"idle", "register", "done"} /\ resp[e[2]] = "none"

(* A call made in OnEvent or OnConnect is never answered: the goroutine    *)
(* that would deliver the answer is the one that waits for it.             *)
CallbacksGetNoAnswer ==
  \A r \in Inner : result[r] \notin {"ok", "refused"}

(* A call returns once its own context has ended, however full the write   *)
(* channel and whatever became of the connection, the map and the loops,   *)
(* unless a call that panicked has left the lock of the map taken.         *)
OwnContextEndsCall == \A r \in Requests : own[r] ~> pc[r] = "done" \/ locked

(* Disconnect, or the cleanup after a failure, frees a call that waits in  *)
(* OnEvent with a context that never ends, and so the readLoop it waits    *)
(* for itself.                                                             *)
CleanupFreesCallback ==
  lpc = "wait" /\ fCtx # 0 /\ rpc[fCtx] # "none" ~> lpc = "idle"

(* A call whose answer is on its way and whose entry is in the map that    *)
(* readLoop looks into returns, unless the connection ends first or the    *)
(* subscriber holds readLoop up.                                           *)
AnsweredCallReturns ==
  \A r \in Callers, g \in Gens :
    /\ <<id[r], r>> \in pending
    /\ \E v \in {"ok", "refused"} : <<id[r], v>> \in answers[g]
    ~> \/ pc[r] = "done" \/ sock[g] # "open" \/ Cancelled(g) \/ rpc[g] = "onEvent"

(* started is set before ctx and pendingReqs are: a call on another        *)
(* goroutine may meet nil in both, and then panics.  Only the first        *)
(* Connect leaves that window open; no reconnect ever does.                *)
PanicsOnlyInFirstConnect ==
  [][\A r \in Requests : result'[r] = "panicked" /\ result[r] # "panicked" =>
        gen = 1 /\ lpc \in {"setCtx", "setChan", "setPend"}]_vars

=============================================================================
