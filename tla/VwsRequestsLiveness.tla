----------------------- MODULE VwsRequestsLiveness -----------------------
(***************************************************************************)
(* What ends a call of the client, for any callers, any capacity of the    *)
(* write channel and any number of connects: the liveness properties of    *)
(* VwsRequests, from the fairness of the goroutines.                       *)
(***************************************************************************)
EXTENDS VwsRequestsProofs

(* Where the actions under fairness are enabled, as the guards say: a call *)
(* waits in a select, while neither context has ended, for room in the     *)
(* channel or for its answer; readLoop for a message on a live connection, *)
(* or for the call made in its OnEvent; Connect for the call made in its   *)
(* OnConnect; a cleanup for readLoop; and all of them for pendingMu.  The  *)
(* provers know nothing of ENABLED, so the theorems below take this as a   *)
(* hypothesis; it follows from the definitions of the actions and IInv.    *)
EnabledAsGuarded ==
  ~locked =>
    /\ \A r \in Requests : pc[r] \notin {"idle", "done"} =>
         \/ ENABLED <<Call(r)>>_vars
         \/ /\ ~own[r] /\ ~Cancelled(sel[r].ctx)
            /\ \/ pc[r] = "sending" /\ ~HasRoom(sel[r].chan)
               \/ pc[r] = "waiting" /\ resp[r] = "none"
    /\ \A g \in Gens : rpc[g] \in {"top", "onEvent"} =>
         \/ ENABLED <<ReadLoop(g)>>_vars
         \/ rpc[g] = "onEvent" /\ Busy("onEvent")
         \/ rpc[g] = "top" /\ sock[g] = "open" /\ ~Cancelled(fCtx) /\ answers[g] = {}
    /\ lpc # "idle" =>
         \/ ENABLED <<LifeCycle>>_vars
         \/ lpc = "onConnect" /\ Busy("onConnect")
         \/ lpc = "wait" /\ fCtx # 0 /\ rpc[fCtx] # "ended"

(* Nobody who is past the first use of pendingMu finds it taken for good.  *)
LEMMA LockIsFree ==
  ASSUME IInv
  PROVE  /\ \A g \in Gens : Alive(g) => ~locked
         /\ \A r \in Requests : pc[r] \in {"send", "sending", "wait", "waiting"} => ~locked
         /\ gen # 0 /\ lpc \notin Connecting => ~locked
BY DEF IInv, WindowInv, LoopsInv, Connecting, Gens

(* A call whose context has ended is at work. *)
AtWork == {"register", "send", "sending", "wait", "waiting"}

OwnInv == \A r \in Requests : own[r] => pc[r] \in AtWork

(* The steps of Connect, of the loops, the server and the network. *)
OthersStep ==
  \/ LifeCycle \/ BeginConnect \/ CloseConn \/ UNCHANGED vars
  \/ \E g \in Gens : ReadLoop(g) \/ WriteLoop(g) \/ HandleEvent(g) \/ PeerGone(g)
  \/ \E g \in Gens : ConnectContextEnds(g) \/ \E s \in Requests : Serve(g, s)

LEMMA OthersKeepCalls ==
  ASSUME OthersStep
  PROVE  UNCHANGED callVars
BY DEF OthersStep, LifeCycle, BeginConnect, SetCtx, SetChan, SetPend, DialFails, DialSucceeds,
  SpawnLoops, CloseConn, CancelCtx, ResetState, ReadLoop, ReadEnds, EventHandled,
  HandleResponse, WriteLoop, WriteTop, WriteCancelled, WriteSucceeds, WriteFails,
  HandleEvent, PeerGone, ConnectContextEnds, Serve, vars, callVars

(* Nobody but the call itself moves a call that has begun. *)
LEMMA OthersLeaveCall ==
  ASSUME CallTypes, NEW r \in Requests, pc[r] # "idle", [Next]_vars
  PROVE  \/ Call(r)
         \/ /\ pc'[r] = pc[r] /\ host'[r] = host[r]
            /\ own'[r] = own[r] \/ (own'[r] = TRUE /\ pc[r] # "done")
<1> USE DEF CallTypes, callVars
<1> DEFINE Same == pc'[r] = pc[r] /\ host'[r] = host[r] /\ own'[r] = own[r]
<1>1. ASSUME NEW s \in Requests, s # r, Call(s)
      PROVE  Same
  <2>1. CASE Register(s) \/ EnterSend(s) \/ Enqueue(s) \/ EnterWait(s)
    BY <1>1, <2>1 DEF Register, EnterSend, Enqueue, EnterWait, CallStep
  <2>2. CASE RegisterPanics(s) \/ MarshalFails(s) \/ TakeAnswer(s) \/ GiveUp(s)
    <3>1. PICK o : EndsWith(s, o)
      BY <2>2 DEF RegisterPanics, MarshalFails, TakeAnswer, GiveUp
    <3> QED
      BY <1>1, <3>1 DEF EndsWith
  <2> QED
    BY <1>1, <2>1, <2>2 DEF Call
<1>2. ASSUME NEW s \in Requests,
             RefuseCall(s) \/ \E where \in {"none", "onConnect", "onEvent"} :
               Publish(s, where) \/ PublishPanics(s, where)
      PROVE  Same
  <2>1. pc[s] = "idle" /\ \E o : EndsWith(s, o)
    BY <1>2 DEF RefuseCall, Publish, PublishPanics
  <2>2. s # r
    BY <2>1
  <2> QED
    BY <2>1, <2>2 DEF EndsWith
<1>3. ASSUME NEW s \in Requests, NEW where \in {"none", "onConnect", "onEvent"}, Ask(s, where)
      PROVE  Same
  BY <1>3 DEF Ask, CallStep
<1>4. ASSUME NEW s \in Requests, OwnContextEnds(s)
      PROVE  /\ pc'[r] = pc[r] /\ host'[r] = host[r]
             /\ own'[r] = own[r] \/ (own'[r] = TRUE /\ pc[r] # "done")
  BY <1>4 DEF OwnContextEnds
<1>5. CASE OthersStep
  <2>1. UNCHANGED callVars
    BY <1>5, OthersKeepCalls
  <2> QED
    BY <2>1
<1> QED
  BY <1>1, <1>2, <1>3, <1>4, <1>5 DEF Next, Environment, OthersStep

(* A call whose context has ended goes on from place to place, or returns. *)
LEMMA CallMoves ==
  ASSUME CallTypes, NEW r \in Requests, own[r], Call(r)
  PROVE  \/ pc[r] = "register" /\ pc'[r] = "send" /\ own'[r]
         \/ pc[r] = "send" /\ pc'[r] = "sending" /\ own'[r]
         \/ pc[r] = "sending" /\ pc'[r] = "wait" /\ own'[r]
         \/ pc[r] = "wait" /\ pc'[r] = "waiting" /\ own'[r]
         \/ pc[r] # "wait" /\ pc'[r] = "done" /\ ~own'[r]
<1> USE DEF CallTypes
<1>1. CASE Register(r) \/ EnterSend(r) \/ Enqueue(r) \/ EnterWait(r)
  BY <1>1 DEF Register, EnterSend, Enqueue, EnterWait, CallStep
<1>2. CASE RegisterPanics(r) \/ MarshalFails(r) \/ TakeAnswer(r) \/ GiveUp(r)
  <2>1. pc[r] # "wait" /\ \E o : EndsWith(r, o)
    BY <1>2 DEF RegisterPanics, MarshalFails, TakeAnswer, GiveUp
  <2> QED
    BY <2>1 DEF EndsWith
<1> QED
  BY <1>1, <1>2 DEF Call

(* A context ends while its call is at work. *)
LEMMA OwnRises ==
  ASSUME CallTypes, NEW r \in Requests, ~own[r], own'[r], [Next]_vars
  PROVE  pc'[r] \in AtWork
<1> USE DEF CallTypes, callVars
<1>1. ASSUME NEW s \in Requests, NEW o, EndsWith(s, o)
      PROVE  FALSE
  BY <1>1 DEF EndsWith
<1>2. ASSUME NEW s \in Requests,
             Call(s) \/ RefuseCall(s) \/ \E where \in {"none", "onConnect", "onEvent"} :
               Ask(s, where) \/ Publish(s, where) \/ PublishPanics(s, where)
      PROVE  FALSE
  <2>1. own' = own \/ \E o : EndsWith(s, o)
    BY <1>2 DEF Call, Register, EnterSend, Enqueue, EnterWait, RegisterPanics, MarshalFails,
      TakeAnswer, GiveUp, RefuseCall, Ask, Publish, PublishPanics
  <2> QED
    BY <1>1, <2>1
<1>3. ASSUME NEW s \in Requests, OwnContextEnds(s)
      PROVE  pc'[r] \in AtWork
  BY <1>3 DEF OwnContextEnds, AtWork
<1>4. CASE OthersStep
  <2>1. own' = own
    BY <1>4, OthersKeepCalls
  <2> QED
    BY <2>1
<1> QED
  BY <1>2, <1>3, <1>4 DEF Next, Environment, OthersStep

LEMMA OwnPreserved ==
  ASSUME CallTypes, OwnInv, [Next]_vars
  PROVE  OwnInv'
<1> SUFFICES ASSUME NEW r \in Requests, own'[r] PROVE pc'[r] \in AtWork
  BY DEF OwnInv
<1>1. CASE ~own[r]
  BY <1>1, OwnRises
<1>2. CASE own[r]
  <2>1. pc[r] \in AtWork /\ pc[r] # "idle"
    BY <1>2 DEF OwnInv, AtWork
  <2>2. CASE Call(r)
    <3>1. pc'[r] # "done"
      BY <1>2, <2>2, CallMoves
    <3> QED
      BY <1>2, <2>2, <3>1, CallMoves DEF AtWork
  <2>3. CASE pc'[r] = pc[r]
    BY <2>1, <2>3
  <2> QED
    BY <2>1, <2>2, <2>3, OthersLeaveCall
<1> QED
  BY <1>1, <1>2

LEMMA OwnInvariance == Spec => []OwnInv
<1>1. Init => OwnInv
  BY DEF Init, OwnInv
<1>2. CallTypes /\ OwnInv /\ [Next]_vars => OwnInv'
  BY OwnPreserved
<1>3. IInv => CallTypes
  BY DEF IInv, TypeOK
<1> QED
  BY <1>1, <1>2, <1>3, Invariance, PTL DEF Spec

(* What the fairness says of one call. *)
FairCall(r) == WF_vars(Call(r))

LEMMA EveryCallIsFair == Fairness => \A r \in Requests : FairCall(r)
BY PTL DEF Fairness, FairCall

(* A call whose context has ended waits for nobody but a lock that is left *)
(* taken: it returns, however many others there are and whatever the       *)
(* channel, the map and the connection are doing (client.go, sendMessage). *)
(* It needs the scheduler for this call only. *)
THEOREM EndedContextReturns == FairSpec /\ []EnabledAsGuarded => OwnContextEndsCall
<1> DEFINE Assumed == FairSpec /\ []EnabledAsGuarded
<1> SUFFICES ASSUME NEW r \in Requests
             PROVE  Assumed => (own[r] ~> pc[r] = "done" \/ locked)
  BY DEF OwnContextEndsCall
<1> DEFINE At(place) == own[r] /\ pc[r] = place
           Registers == At("register")
           Sends == At("send")
           Sending == At("sending")
           Between == At("wait")
           Waiting == At("waiting")
           Ended == own[r]
           Done == pc[r] = "done" \/ locked
           CanGo == ENABLED <<Call(r)>>_vars
<1>1. Assumed => []CallTypes /\ []OwnInv /\ [][Next]_vars
  <2>1. IInv => CallTypes
    BY DEF IInv, TypeOK
  <2> QED
    BY <2>1, Invariance, OwnInvariance, PTL DEF FairSpec, Spec
<1>2. Assumed => FairCall(r)
  BY EveryCallIsFair DEF FairSpec
<1>3. OwnInv /\ EnabledAsGuarded => (Ended => CanGo \/ Done)
  BY DEF OwnInv, EnabledAsGuarded, AtWork
<1>4. OwnInv => (Ended => Registers \/ Sends \/ Sending \/ Between \/ Waiting)
  BY DEF OwnInv, AtWork
<1>5. Registers \/ Sends \/ Sending \/ Between \/ Waiting => Ended
  OBVIOUS
<1>6. ASSUME CallTypes, [Next]_vars
      PROVE  /\ Registers => Registers' \/ Sends' \/ Done'
             /\ Sends => Sends' \/ Sending' \/ Done'
             /\ Sending => Sending' \/ Between' \/ Done'
             /\ Between => Between' \/ Waiting'
             /\ Waiting => Waiting' \/ Done'
  BY <1>6, OthersLeaveCall, CallMoves DEF CallTypes
<1>7. ASSUME CallTypes, Call(r)
      PROVE  /\ Registers => Sends' \/ Done'
             /\ Sends => Sending' \/ Done'
             /\ Sending => Between' \/ Done'
             /\ Between => Waiting'
             /\ Waiting => Done'
  BY <1>7, CallMoves
<1> QED
  <2>1. Assumed => []EnabledAsGuarded
    OBVIOUS
  <2>2. (Done <=> pc[r] = "done" \/ locked) /\ (Ended <=> own[r])
    OBVIOUS
  <2> HIDE DEF Assumed, Registers, Sends, Sending, Between, Waiting, Ended, Done, CanGo
  <2>3. FairCall(r) <=> ([]<>~CanGo \/ []<><<Call(r)>>_vars)
    BY PTL DEF FairCall, CanGo
  <2> QED
    BY <1>1, <1>2, <1>3, <1>4, <1>5, <1>6, <1>7, <2>1, <2>2, <2>3, PTL

-----------------------------------------------------------------------------
(* The one open socket is that of the last Connect, at its OnConnect or    *)
(* with a client that is connected.                                        *)
SocketInv ==
  \A g \in Gens : sock[g] = "open" =>
    g = gen /\ (lpc = "onConnect" \/ (lpc = "idle" /\ started = 1))

(* A cleanup that waits for readLoop has cancelled its context. *)
CancelInv == lpc = "wait" /\ fCtx # 0 => Cancelled(fCtx)

(* The wire of a Connect is empty before its loops are started; readLoop   *)
(* leaves no connection that is live.                                      *)
ReaderInv ==
  \A g \in Gens :
    /\ g > gen \/ (g = gen /\ lpc \in Connecting) => rpc[g] = "none"
    /\ rpc[g] = "none" => wpc[g] = "none" /\ net[g] = {} /\ answers[g] = {}
    /\ rpc[g] = "ended" => sock[g] # "open" \/ Cancelled(g)

(* A call in OnEvent watches the context that readLoop lives in. *)
HostInv ==
  \A r \in Inner :
    /\ pc[r] \in {"idle", "done"} => host[r] = "none"
    /\ host[r] = "onEvent" /\ pc[r] \in {"sending", "waiting"} => sel[r].ctx = fCtx

(* The steps of calls, and of contexts of calls. *)
CallerStep ==
  \E r \in Requests :
    \/ Call(r) \/ RefuseCall(r) \/ OwnContextEnds(r)
    \/ \E where \in {"none", "onConnect", "onEvent"} :
         Ask(r, where) \/ Publish(r, where) \/ PublishPanics(r, where)

(* They change nothing of the connection but the channels and the map. *)
LEMMA CallersKeepConnection ==
  ASSUME CallerStep
  PROVE  UNCHANGED <<started, fCtx, fChan, mapMade, lifeVars, rpc, writeVars, net, answers>>
BY DEF CallerStep, Call, Register, RegisterPanics, MarshalFails, EnterSend, Enqueue, EnterWait,
  TakeAnswer, GiveUp, RefuseCall, OwnContextEnds, Ask, Publish, PublishPanics, fieldVars, wireVars

LEMMA SocketPreserved ==
  ASSUME LifeTypes, LoopsInv, SocketInv, [Next]_vars
  PROVE  SocketInv'
<1> USE RequestsAssumption DEF LifeTypes, Gens, SocketInv, Connecting, lifeVars, fieldVars,
  LifeStep
<1>1. CASE BeginConnect
  BY <1>1 DEF BeginConnect
<1>2. CASE SetCtx \/ SetChan \/ SetPend \/ DialFails \/ CancelCtx \/ ResetState
  BY <1>2 DEF SetCtx, SetChan, SetPend, DialFails, CancelCtx, ResetState
<1>3. CASE DialSucceeds
  BY <1>3 DEF DialSucceeds, LoopsInv
<1>4. CASE SpawnLoops
  BY <1>4 DEF SpawnLoops, LoopsInv
<1>5. CASE CloseConn
  BY <1>5 DEF CloseConn, Closes
<1>6. ASSUME NEW g \in Gens, PeerGone(g) PROVE SocketInv'
  BY <1>6 DEF PeerGone, Closes
<1>7. CASE \/ CallerStep \/ UNCHANGED vars
           \/ \E g \in Gens : ReadLoop(g) \/ WriteLoop(g) \/ HandleEvent(g) \/ ConnectContextEnds(g)
           \/ \E g \in Gens, r \in Requests : Serve(g, r)
  <2>1. UNCHANGED <<started, lpc, gen, sock>>
    BY <1>7, CallersKeepConnection DEF ReadLoop, ReadEnds, EventHandled, HandleResponse, WriteLoop,
      WriteTop, WriteCancelled, WriteSucceeds, WriteFails, HandleEvent, ConnectContextEnds, Serve,
      vars
  <2> QED
    BY <2>1
<1> HIDE DEF LifeTypes, Gens, SocketInv, Connecting, lifeVars, fieldVars, LifeStep
<1> QED
  BY <1>1, <1>2, <1>3, <1>4, <1>5, <1>6, <1>7 DEF Next, LifeCycle, Environment, CallerStep

LEMMA CancelPreserved ==
  ASSUME LifeTypes, CancelInv, [Next]_vars
  PROVE  CancelInv'
<1> USE RequestsAssumption DEF LifeTypes, Gens, CancelInv, Cancelled, lifeVars, fieldVars,
  LifeStep
<1>1. CASE \/ BeginConnect \/ SetCtx \/ SetChan \/ SetPend \/ DialFails \/ DialSucceeds
           \/ SpawnLoops \/ CloseConn \/ ResetState
  <2>1. lpc' # "wait"
    BY <1>1 DEF BeginConnect, SetCtx, SetChan, SetPend, DialFails, DialSucceeds, SpawnLoops,
      CloseConn, ResetState
  <2> QED
    BY <2>1
<1>2. CASE CancelCtx
  BY <1>2 DEF CancelCtx
<1>3. ASSUME NEW g \in Gens, ConnectContextEnds(g) PROVE CancelInv'
  BY <1>3 DEF ConnectContextEnds
<1>4. CASE \/ CallerStep \/ UNCHANGED vars
           \/ \E g \in Gens : ReadLoop(g) \/ WriteLoop(g) \/ HandleEvent(g) \/ PeerGone(g)
           \/ \E g \in Gens, r \in Requests : Serve(g, r)
  <2>1. UNCHANGED <<lpc, fCtx, ctx>>
    BY <1>4, CallersKeepConnection DEF ReadLoop, ReadEnds, EventHandled, HandleResponse, WriteLoop,
      WriteTop, WriteCancelled, WriteSucceeds, WriteFails, HandleEvent, PeerGone, Serve, vars
  <2> QED
    BY <2>1
<1> HIDE DEF LifeTypes, Gens, CancelInv, Cancelled, lifeVars, fieldVars, LifeStep
<1> QED
  BY <1>1, <1>2, <1>3, <1>4 DEF Next, LifeCycle, Environment, CallerStep

(* Contexts that have ended stay so. *)
LEMMA ContextsStayEnded ==
  ASSUME LifeTypes, NEW g \in Gens, Cancelled(g), [Next]_vars
  PROVE  Cancelled(g)'
<1> USE DEF LifeTypes, Cancelled, lifeVars
<1>1. CASE CancelCtx
  BY <1>1 DEF CancelCtx
<1>2. ASSUME NEW h \in Gens, ConnectContextEnds(h) PROVE Cancelled(g)'
  BY <1>2 DEF ConnectContextEnds
<1>3. CASE \/ BeginConnect \/ SetCtx \/ SetChan \/ SetPend \/ DialFails \/ DialSucceeds
           \/ SpawnLoops \/ CloseConn \/ ResetState \/ CallerStep \/ UNCHANGED vars
           \/ \E h \in Gens : ReadLoop(h) \/ WriteLoop(h) \/ HandleEvent(h) \/ PeerGone(h)
           \/ \E h \in Gens, r \in Requests : Serve(h, r)
  <2>1. ctx' = ctx
    BY <1>3, CallersKeepConnection DEF BeginConnect, SetCtx, SetChan, SetPend, DialFails,
      DialSucceeds, SpawnLoops, CloseConn, ResetState, ReadLoop, ReadEnds, EventHandled,
      HandleResponse, WriteLoop, WriteTop, WriteCancelled, WriteSucceeds, WriteFails, HandleEvent,
      PeerGone, Serve, vars
  <2> QED
    BY <2>1
<1> QED
  BY <1>1, <1>2, <1>3 DEF Next, LifeCycle, Environment, CallerStep

LEMMA ReaderPreserved ==
  ASSUME LifeTypes, WireTypes, LoopsInv, ReaderInv, [Next]_vars
  PROVE  ReaderInv'
<1> DEFINE Kept(g) == Cancelled(g) => Cancelled(g)'
<1>a. \A g \in Gens : Kept(g)
  BY ContextsStayEnded
<1> HIDE DEF Kept
<1> USE RequestsAssumption, <1>a DEF Kept, LifeTypes, WireTypes, Gens, ReaderInv, Connecting,
  lifeVars, fieldVars, writeVars, wireVars, LifeStep
<1>1. CASE BeginConnect
  BY <1>1 DEF BeginConnect
<1>2. CASE SetCtx \/ SetChan \/ SetPend \/ DialFails \/ CancelCtx \/ ResetState
  BY <1>2 DEF SetCtx, SetChan, SetPend, DialFails, CancelCtx, ResetState
<1>3. CASE DialSucceeds
  BY <1>3 DEF DialSucceeds
<1>4. CASE SpawnLoops
  BY <1>4 DEF SpawnLoops
<1>5. CASE CloseConn
  BY <1>5 DEF CloseConn, Closes
<1>6. ASSUME NEW g \in Gens, PeerGone(g) PROVE ReaderInv'
  BY <1>6 DEF PeerGone, Closes
<1>7. ASSUME NEW g \in Gens, ConnectContextEnds(g) PROVE ReaderInv'
  BY <1>7 DEF ConnectContextEnds
<1>8. ASSUME NEW g \in Gens, ReadEnds(g) PROVE ReaderInv'
  BY <1>8 DEF ReadEnds, LoopsInv, Alive
<1>9. ASSUME NEW g \in Gens, EventHandled(g) \/ HandleEvent(g) PROVE ReaderInv'
  BY <1>9 DEF EventHandled, HandleEvent, LoopsInv, Alive
<1>10. ASSUME NEW g \in Gens, NEW i \in 1 .. messageID, NEW v \in {"ok", "refused"},
              HandleResponse(g, i, v) PROVE ReaderInv'
  BY <1>10 DEF HandleResponse
<1>11. ASSUME NEW g \in Gens, WriteTop(g) \/ WriteCancelled(g) PROVE ReaderInv'
  BY <1>11 DEF WriteTop, WriteCancelled, WriteEnds
<1>12. ASSUME NEW g \in Gens, NEW r \in Requests, WriteSucceeds(g, r) PROVE ReaderInv'
  BY <1>12 DEF WriteSucceeds
<1>13. ASSUME NEW g \in Gens, NEW r \in Requests, WriteFails(g, r) PROVE ReaderInv'
  BY <1>13 DEF WriteFails, WriteEnds
<1>14. ASSUME NEW g \in Gens, NEW r \in Requests, Serve(g, r) PROVE ReaderInv'
  <2>1. r \in net[g] /\ UNCHANGED <<lifeVars, rpc, writeVars>>
    BY <1>14 DEF Serve
  <2>2. \A h \in Gens : h # g => net'[h] = net[h] /\ answers'[h] = answers[h]
    BY <1>14 DEF Serve
  <2> QED
    BY <2>1, <2>2
<1>15. CASE CallerStep \/ UNCHANGED vars
  BY <1>15, CallersKeepConnection DEF vars
<1> HIDE <1>a DEF Kept, LifeTypes, WireTypes, Gens, ReaderInv, Connecting, lifeVars, fieldVars,
  writeVars, wireVars, LifeStep
<1> QED
  BY <1>1, <1>2, <1>3, <1>4, <1>5, <1>6, <1>7, <1>8, <1>9, <1>10, <1>11, <1>12, <1>13, <1>14, <1>15
  DEF Next, LifeCycle, ReadLoop, WriteLoop, Environment, CallerStep

LEMMA HostPreserved ==
  ASSUME LifeTypes, CallTypes, LoopsInv, CallbackInv, HostInv, [Next]_vars
  PROVE  HostInv'
<1> USE RequestsAssumption DEF CallTypes, HostInv, Requests, callVars
<1>1. CASE SetCtx
  BY <1>1 DEF SetCtx, LifeStep, LoopsInv, CallbackInv, Connecting, Alive
<1>2. CASE OthersStep /\ ~SetCtx
  <2>1. UNCHANGED callVars
    BY <1>2, OthersKeepCalls
  <2>2. fCtx' = fCtx
    BY <1>2 DEF OthersStep, LifeCycle, BeginConnect, SetChan, SetPend, DialFails, DialSucceeds,
      SpawnLoops, CloseConn, CancelCtx, ResetState, ReadLoop, ReadEnds, EventHandled,
      HandleResponse, WriteLoop, WriteTop, WriteCancelled, WriteSucceeds, WriteFails, HandleEvent,
      PeerGone, ConnectContextEnds, Serve, fieldVars, vars
  <2> QED
    BY <2>1, <2>2
<1>3. ASSUME NEW r \in Requests, NEW o, EndsWith(r, o), UNCHANGED fCtx PROVE HostInv'
  BY <1>3 DEF EndsWith
<1>4. ASSUME NEW r \in Requests,
             \/ RegisterPanics(r) \/ MarshalFails(r) \/ TakeAnswer(r) \/ GiveUp(r) \/ RefuseCall(r)
             \/ \E where \in {"none", "onConnect", "onEvent"} :
                  Publish(r, where) \/ PublishPanics(r, where)
      PROVE  HostInv'
  <2>1. (\E o : EndsWith(r, o)) /\ UNCHANGED fCtx
    BY <1>4 DEF RegisterPanics, MarshalFails, TakeAnswer, GiveUp, RefuseCall, Publish,
      PublishPanics, fieldVars
  <2> QED
    BY <2>1, <1>3
<1>5. ASSUME NEW r \in Requests, Register(r) PROVE HostInv'
  BY <1>5 DEF Register, CallStep, fieldVars
<1>6. ASSUME NEW r \in Requests, EnterSend(r) PROVE HostInv'
  BY <1>6 DEF EnterSend, CallStep, fieldVars
<1>7. ASSUME NEW r \in Requests, Enqueue(r) PROVE HostInv'
  BY <1>7 DEF Enqueue, CallStep, fieldVars
<1>8. ASSUME NEW r \in Requests, EnterWait(r) PROVE HostInv'
  BY <1>8 DEF EnterWait, CallStep, fieldVars
<1>9. ASSUME NEW r \in Requests, OwnContextEnds(r) PROVE HostInv'
  BY <1>9 DEF OwnContextEnds, fieldVars
<1>10. ASSUME NEW r \in Requests, NEW where \in {"none", "onConnect", "onEvent"}, Ask(r, where)
       PROVE  HostInv'
  BY <1>10 DEF Ask, CallStep, fieldVars
<1> HIDE DEF CallTypes, HostInv, Requests, callVars
<1> QED
  BY <1>1, <1>2, <1>4, <1>5, <1>6, <1>7, <1>8, <1>9, <1>10 DEF Next, Call, Environment, OthersStep

(* What the liveness proofs rest on, besides IInv. *)
HoldInv == SocketInv /\ CancelInv /\ ReaderInv /\ HostInv

LEMMA HoldInvariance == Spec => []HoldInv
<1>1. Init => HoldInv
  BY RequestsAssumption DEF Init, HoldInv, SocketInv, CancelInv, ReaderInv, HostInv, Requests,
    Gens, Connecting
<1>2. IInv /\ HoldInv /\ [Next]_vars => HoldInv'
  BY SocketPreserved, CancelPreserved, ReaderPreserved, HostPreserved DEF IInv, TypeOK, HoldInv
<1> QED
  BY <1>1, <1>2, Invariance, PTL DEF Spec

-----------------------------------------------------------------------------
(* A cleanup waits for readLoop, which may wait in OnEvent for a call *)

(* What every moment of a behaviour may rely on. *)
Watched ==
  []IInv /\ []HoldInv /\ [][Next]_vars /\ []Fairness /\ []EnabledAsGuarded

FairReader(g) == WF_vars(ReadLoop(g))
FairLoops(g) == WF_vars(ReadLoop(g)) /\ WF_vars(WriteLoop(g))
FairLife == WF_vars(LifeCycle)

LEMMA LoopsAreFair == Fairness => FairLife /\ \A g \in Gens : FairReader(g)
<1>1. Fairness => FairLife
  BY PTL DEF Fairness, FairLife
<1>2. Fairness => \A g \in Gens : FairLoops(g)
  BY PTL DEF Fairness, FairLoops
<1>3. ASSUME NEW g \in Gens
      PROVE  FairLoops(g) => FairReader(g)
  BY PTL DEF FairLoops, FairReader
<1> QED
  BY <1>1, <1>2, <1>3

Freeing(g) == lpc = "wait" /\ fCtx = g /\ rpc[g] # "none"
InEvent(g) == Freeing(g) /\ rpc[g] = "onEvent"
AtTop(g) == Freeing(g) /\ rpc[g] = "top"
HasEnded(g) == Freeing(g) /\ rpc[g] = "ended"
Freed == lpc = "idle"

(* Only that readLoop and that cleanup go on from there. *)
LEMMA FreeingMoves ==
  ASSUME IInv, HoldInv, NEW g \in Gens, Freeing(g), [Next]_vars
  PROVE  /\ \/ InEvent(g) /\ InEvent(g)'
            \/ InEvent(g) /\ ~Busy("onEvent") /\ AtTop(g)'
            \/ AtTop(g) /\ AtTop(g)'
            \/ AtTop(g) /\ HasEnded(g)'
            \/ HasEnded(g) /\ HasEnded(g)'
            \/ HasEnded(g) /\ Freed'
         /\ InEvent(g) /\ ReadLoop(g) => AtTop(g)'
         /\ AtTop(g) /\ ReadLoop(g) => HasEnded(g)'
         /\ LifeCycle => Freed'
<1> USE RequestsAssumption DEF Freeing, InEvent, AtTop, HasEnded, Freed, Gens, lifeVars, fieldVars
<1>0. /\ rpc \in [Gens -> {"none", "top", "onEvent", "ended"}]
      /\ sock[g] # "open" /\ \A h \in Gens : Alive(h) => h = g
  BY DEF IInv, TypeOK, LifeTypes, LoopsInv, HoldInv, SocketInv
<1>1. CASE ResetState
  BY <1>1 DEF ResetState, LifeStep
<1>2. CASE \/ BeginConnect \/ SetCtx \/ SetChan \/ SetPend \/ DialFails \/ DialSucceeds
           \/ SpawnLoops \/ CloseConn \/ CancelCtx
  BY <1>2 DEF BeginConnect, SetCtx, SetChan, SetPend, DialFails, DialSucceeds, SpawnLoops,
    CloseConn, CancelCtx, LifeStep
<1>3. ASSUME NEW h \in Gens, ReadLoop(h)
      PROVE  \/ h = g /\ InEvent(g) /\ ~Busy("onEvent") /\ AtTop(g)'
             \/ h = g /\ AtTop(g) /\ HasEnded(g)'
  <2>1. Alive(h)
    BY <1>3 DEF ReadLoop, ReadEnds, EventHandled, HandleResponse, Alive
  <2>2. CASE ReadEnds(g)
    BY <1>0, <2>1, <2>2 DEF ReadEnds
  <2>3. CASE EventHandled(g)
    BY <1>0, <2>1, <2>3 DEF EventHandled
  <2> QED
    BY <1>0, <1>3, <2>1, <2>2, <2>3 DEF ReadLoop, HandleResponse
<1>4. ASSUME NEW h \in Gens, HandleEvent(h)
      PROVE  FALSE
  BY <1>0, <1>4 DEF HandleEvent, Alive
<1>5. ASSUME \/ CallerStep \/ UNCHANGED vars
             \/ \E h \in Gens : WriteLoop(h) \/ PeerGone(h) \/ ConnectContextEnds(h)
             \/ \E h \in Gens, r \in Requests : Serve(h, r)
      PROVE  \/ InEvent(g) /\ InEvent(g)'
             \/ AtTop(g) /\ AtTop(g)'
             \/ HasEnded(g) /\ HasEnded(g)'
  <2>1. UNCHANGED <<lpc, fCtx, rpc>>
    BY <1>5, CallersKeepConnection DEF WriteLoop, WriteTop, WriteCancelled, WriteSucceeds,
      WriteFails, PeerGone, ConnectContextEnds, Serve, vars
  <2> QED
    BY <1>0, <2>1
<1>6. \/ InEvent(g) /\ InEvent(g)'
      \/ InEvent(g) /\ ~Busy("onEvent") /\ AtTop(g)'
      \/ AtTop(g) /\ AtTop(g)'
      \/ AtTop(g) /\ HasEnded(g)'
      \/ HasEnded(g) /\ HasEnded(g)'
      \/ HasEnded(g) /\ Freed'
  <2>1. CASE ResetState
    <3>1. rpc[g] = "ended"
      BY <2>1 DEF ResetState
    <3> QED
      BY <1>1, <2>1, <3>1 DEF ResetState, LifeStep
  <2> QED
    BY <1>2, <1>3, <1>4, <1>5, <2>1 DEF Next, LifeCycle, Environment, CallerStep
<1>7. LifeCycle => Freed'
  BY <1>1, <1>2 DEF LifeCycle, ResetState, LifeStep, SetCtx, SetChan, SetPend, DialFails,
    DialSucceeds, SpawnLoops, CancelCtx
<1> QED
  BY <1>3, <1>6, <1>7

(* A call goes from place to place, in the callback it is made in. *)
LEMMA CallGoesOn ==
  ASSUME CallTypes, NEW r \in Requests, Call(r)
  PROVE  \/ pc[r] = "register" /\ pc'[r] = "send" /\ host'[r] = host[r]
         \/ pc[r] = "send" /\ pc'[r] = "sending" /\ host'[r] = host[r]
         \/ pc[r] = "sending" /\ pc'[r] = "wait" /\ host'[r] = host[r]
         \/ pc[r] = "wait" /\ pc'[r] = "waiting" /\ host'[r] = host[r]
         \/ pc[r] \in {"register", "send", "sending", "waiting"} /\ pc'[r] = "done"
<1> USE DEF CallTypes
<1>1. CASE Register(r) \/ EnterSend(r) \/ Enqueue(r) \/ EnterWait(r)
  BY <1>1 DEF Register, EnterSend, Enqueue, EnterWait, CallStep
<1>2. CASE RegisterPanics(r) \/ MarshalFails(r) \/ TakeAnswer(r) \/ GiveUp(r)
  <2>1. pc[r] \in {"register", "send", "sending", "waiting"} /\ \E o : EndsWith(r, o)
    BY <1>2 DEF RegisterPanics, MarshalFails, TakeAnswer, GiveUp
  <2> QED
    BY <2>1 DEF EndsWith
<1> QED
  BY <1>1, <1>2 DEF Call

(* The calls of callbacks that have not returned; none is made twice. *)
Undone == {r \in Inner : pc[r] # "done"}

LEMMA UndoneShrinks ==
  ASSUME IsFiniteSet(Inner), CallTypes, [Next]_vars
  PROVE  /\ Cardinality(Undone) \in Nat /\ Cardinality(Undone)' \in Nat
         /\ Cardinality(Undone)' <= Cardinality(Undone)
         /\ (\E r \in Inner : pc[r] # "done" /\ pc'[r] = "done")
              => Cardinality(Undone)' < Cardinality(Undone)
<1>1. Undone' \subseteq Undone
  <2> SUFFICES ASSUME NEW r \in Inner, pc[r] = "done" PROVE pc'[r] = "done"
    BY DEF Undone
  <2> QED
    BY OthersLeaveCall, CallGoesOn DEF Requests
<1>2. IsFiniteSet(Undone)
  BY FS_Subset DEF Undone
<1>3. /\ IsFiniteSet(Undone') /\ Cardinality(Undone') <= Cardinality(Undone)
      /\ Cardinality(Undone) = Cardinality(Undone') => Undone = Undone'
  BY <1>1, <1>2, FS_Subset
<1>4. Cardinality(Undone) \in Nat /\ Cardinality(Undone') \in Nat
  BY <1>2, <1>3, FS_CardinalityType
<1>5. (\E r \in Inner : pc[r] # "done" /\ pc'[r] = "done") => Undone' # Undone
  BY DEF Undone
<1> QED
  BY <1>3, <1>4, <1>5

CallsLeft(g, n) == InEvent(g) /\ Cardinality(Undone) = n
FewerCalls(g, n) == InEvent(g) /\ Cardinality(Undone) < n
InCall(g, n, r) == CallsLeft(g, n) /\ host[r] = "onEvent" /\ pc[r] # "done"
OneReturns(g, n) == <>FewerCalls(g, n)

(* With its context cancelled, a call in OnEvent has a step to take: only  *)
(* it moves, or another one returns. *)
LEMMA InCallMoves ==
  ASSUME IsFiniteSet(Inner), IInv, HoldInv, NEW g \in Gens, NEW n \in Nat, NEW r \in Inner,
         InCall(g, n, r), [Next]_vars
  PROVE  /\ FewerCalls(g, n)' \/ (InCall(g, n, r)' /\ (pc'[r] = pc[r] \/ Call(r)))
         /\ Call(r) => \/ FewerCalls(g, n)'
                       \/ pc[r] = "register" /\ pc'[r] = "send"
                       \/ pc[r] = "send" /\ pc'[r] = "sending"
                       \/ pc[r] = "sending" /\ pc'[r] = "wait"
                       \/ pc[r] = "wait" /\ pc'[r] = "waiting"
<1> USE DEF InCall, CallsLeft, FewerCalls
<1>1. r \in Requests /\ CallTypes /\ Freeing(g) /\ Busy("onEvent") /\ pc[r] # "idle"
  BY DEF Requests, IInv, TypeOK, InEvent, Busy, HoldInv, HostInv
<1>2. InEvent(g)'
  BY <1>1, FreeingMoves DEF InEvent, AtTop, HasEnded
<1>3. /\ Cardinality(Undone)' \in Nat
      /\ Cardinality(Undone)' = n \/ Cardinality(Undone)' < n
      /\ pc'[r] = "done" => Cardinality(Undone)' < n
  BY <1>1, UndoneShrinks
<1>4. CASE Call(r)
  BY <1>1, <1>2, <1>3, <1>4, CallGoesOn
<1>5. CASE pc'[r] = pc[r] /\ host'[r] = host[r]
  <2>1. FewerCalls(g, n)' \/ (InCall(g, n, r)' /\ pc'[r] = pc[r])
    BY <1>2, <1>3, <1>5
  <2>2. ~Call(r)
    BY <1>1, <1>5, CallGoesOn
  <2> QED
    BY <2>1, <2>2
<1> QED
  BY <1>1, <1>4, <1>5, OthersLeaveCall

LEMMA InCallUnblocked ==
  ASSUME IInv, HoldInv, EnabledAsGuarded, NEW g \in Gens, NEW n \in Nat, NEW r \in Inner,
         InCall(g, n, r)
  PROVE  ENABLED <<Call(r)>>_vars
<1>1. r \in Requests /\ pc[r] \notin {"idle", "done"}
  BY DEF Requests, InCall, HoldInv, HostInv
<1>2. Cancelled(fCtx)
  BY DEF InCall, CallsLeft, InEvent, Freeing, HoldInv, CancelInv, Gens
<1>3. pc[r] \in {"sending", "waiting"} => Cancelled(sel[r].ctx)
  BY <1>2 DEF InCall, HoldInv, HostInv
<1>4. ~locked
  BY LockIsFree DEF InCall, CallsLeft, InEvent, Alive
<1> QED
  BY <1>1, <1>3, <1>4 DEF EnabledAsGuarded

LEMMA InCallReturns ==
  ASSUME IsFiniteSet(Inner), NEW g \in Gens, NEW n \in Nat, NEW r \in Inner
  PROVE  Watched => (InCall(g, n, r) => OneReturns(g, n))
<1> DEFINE Here == InCall(g, n, r)
           At(place) == InCall(g, n, r) /\ pc[r] = place
           Registers == At("register")
           Sends == At("send")
           Sending == At("sending")
           Between == At("wait")
           Waiting == At("waiting")
           Goal == FewerCalls(g, n)
           CanGo == ENABLED <<Call(r)>>_vars
<1>1. IInv /\ HoldInv /\ Here => Registers \/ Sends \/ Sending \/ Between \/ Waiting
  BY DEF InCall, IInv, TypeOK, CallTypes, HoldInv, HostInv, Requests
<1>2. ASSUME IInv, HoldInv, [Next]_vars
      PROVE  /\ Registers => Registers' \/ Sends' \/ Goal'
             /\ Sends => Sends' \/ Sending' \/ Goal'
             /\ Sending => Sending' \/ Between' \/ Goal'
             /\ Between => Between' \/ Waiting' \/ Goal'
             /\ Waiting => Waiting' \/ Goal'
             /\ Registers /\ Call(r) => Sends' \/ Goal'
             /\ Sends /\ Call(r) => Sending' \/ Goal'
             /\ Sending /\ Call(r) => Between' \/ Goal'
             /\ Between /\ Call(r) => Waiting' \/ Goal'
             /\ Waiting /\ Call(r) => Goal'
  BY <1>2, InCallMoves
<1>3. IInv /\ HoldInv /\ EnabledAsGuarded => (Here => CanGo)
  BY InCallUnblocked
<1>4. Registers \/ Sends \/ Sending \/ Between \/ Waiting => Here
  OBVIOUS
<1>5. Fairness => FairCall(r)
  BY EveryCallIsFair DEF Requests
<1>6. FairCall(r) <=> ([]<>~CanGo \/ []<><<Call(r)>>_vars)
  BY PTL DEF FairCall, CanGo
<1>7. (Here <=> InCall(g, n, r)) /\ (OneReturns(g, n) <=> <>Goal)
  BY DEF OneReturns
<1> HIDE DEF Here, Registers, Sends, Sending, Between, Waiting, Goal, CanGo
<1> QED
  BY <1>1, <1>2, <1>3, <1>4, <1>5, <1>6, <1>7, PTL DEF Watched

(* One by one the calls return that OnEvent may still make, however many   *)
(* they are, and readLoop comes back to its top. *)
LeavesEvent(g, n) == FewerCalls(g, n) ~> AtTop(g)
WillLeaveEvent(d, n) == \A m \in Nat, g \in Gens : m = n /\ g = d => LeavesEvent(g, m)
WillBeAtTop(g) == <>AtTop(g)

OverCalls == INSTANCE TemporalInduction WITH P <- WillLeaveEvent

LEMMA FewerCallsLeft ==
  ASSUME IsFiniteSet(Inner), NEW g \in Gens, NEW n \in Nat
  PROVE  Watched => (CallsLeft(g, n) ~> (FewerCalls(g, n) \/ AtTop(g)))
<1> DEFINE Left == CallsLeft(g, n)
           Fewer == FewerCalls(g, n)
           Top == AtTop(g)
           Free == ~Busy("onEvent")
           CanGo == ENABLED <<ReadLoop(g)>>_vars
           Soon == OneReturns(g, n)
<1>1. ASSUME IInv, HoldInv, [Next]_vars
      PROVE  /\ Left => Left' \/ Fewer' \/ Top'
             /\ Left /\ ReadLoop(g) => Top'
  <2>1. ASSUME Left
        PROVE  Left' \/ Fewer' \/ Top'
    <3>1. Freeing(g) /\ CallTypes
      BY <1>1, <2>1 DEF CallsLeft, InEvent, IInv, TypeOK
    <3>2. Cardinality(Undone)' \in Nat /\ Cardinality(Undone)' <= n
      BY <1>1, <2>1, <3>1, UndoneShrinks DEF CallsLeft
    <3>3. InEvent(g)' \/ Top'
      BY <1>1, <2>1, <3>1, FreeingMoves DEF CallsLeft, InEvent, AtTop, HasEnded
    <3> QED
      BY <3>2, <3>3 DEF CallsLeft, FewerCalls
  <2>2. Left /\ ReadLoop(g) => Top'
    BY <1>1, FreeingMoves DEF CallsLeft, InEvent
  <2> QED
    BY <2>1, <2>2
<1>2. IInv /\ EnabledAsGuarded => (Left /\ Free => CanGo)
  BY LockIsFree DEF EnabledAsGuarded, CallsLeft, InEvent, Alive
<1>3. Watched => (Left => Free \/ Soon)
  <2>1. Left => Free \/ \E r \in Inner : InCall(g, n, r)
    BY DEF InCall, Busy
  <2> HIDE DEF Left, Free, Soon
  <2> QED
    BY <2>1, InCallReturns DEF Soon
<1>4. Fairness => FairReader(g)
  BY LoopsAreFair
<1>5. FairReader(g) <=> ([]<>~CanGo \/ []<><<ReadLoop(g)>>_vars)
  BY PTL DEF FairReader, CanGo
<1>6. /\ Left <=> CallsLeft(g, n)
      /\ Fewer <=> FewerCalls(g, n)
      /\ Top <=> AtTop(g)
      /\ Soon <=> <>Fewer
  BY DEF OneReturns
<1> HIDE DEF Left, Fewer, Top, Free, CanGo, Soon
<1> QED
  BY <1>1, <1>2, <1>3, <1>4, <1>5, <1>6, PTL DEF Watched

LEMMA CallsDrain ==
  ASSUME IsFiniteSet(Inner), NEW g \in Gens, NEW k \in Nat
  PROVE  Watched => LeavesEvent(g, k)
<1>0. InEvent(g) => Cardinality(Undone) \in Nat
  BY FS_Subset, FS_CardinalityType DEF Undone
<1>1. Watched => WillLeaveEvent(g, 0)
  <2> DEFINE Fewer == FewerCalls(g, 0)
  <2>1. ~Fewer
    BY <1>0 DEF FewerCalls
  <2>2. LeavesEvent(g, 0) <=> (Fewer ~> AtTop(g))
    BY DEF LeavesEvent
  <2>3. Watched => LeavesEvent(g, 0)
    <3> HIDE DEF Fewer
    <3> QED
      BY <2>1, <2>2, PTL
  <2> QED
    BY <2>3 DEF WillLeaveEvent
<1>2. ASSUME NEW n \in Nat
      PROVE  Watched => (LeavesEvent(g, n) => LeavesEvent(g, n + 1))
  <2> DEFINE Some == FewerCalls(g, n + 1)
             Exactly == CallsLeft(g, n)
             Fewer == FewerCalls(g, n)
             Top == AtTop(g)
  <2>1. Some => Exactly \/ Fewer
    BY <1>0 DEF FewerCalls, CallsLeft
  <2>2. Watched => (CallsLeft(g, n) ~> (FewerCalls(g, n) \/ AtTop(g)))
    BY FewerCallsLeft
  <2>3. (LeavesEvent(g, n) <=> (Fewer ~> Top)) /\ (LeavesEvent(g, n + 1) <=> (Some ~> Top))
    BY DEF LeavesEvent
  <2>4. /\ Exactly <=> CallsLeft(g, n)
        /\ Fewer <=> FewerCalls(g, n)
        /\ Top <=> AtTop(g)
    OBVIOUS
  <2> HIDE DEF Some, Exactly, Fewer, Top
  <2> QED
    BY <2>1, <2>2, <2>3, <2>4, PTL DEF Watched
<1>3. Watched => \A m \in Nat : WillLeaveEvent(g, m) => WillLeaveEvent(g, m + 1)
  BY <1>2 DEF WillLeaveEvent
<1> QED
  BY <1>1, <1>3, OverCalls!Induction DEF WillLeaveEvent

LEMMA EventEnds ==
  ASSUME IsFiniteSet(Inner), NEW g \in Gens
  PROVE  Watched => (InEvent(g) ~> AtTop(g))
<1>1. ASSUME NEW n \in Nat
      PROVE  Watched => (FewerCalls(g, n) => WillBeAtTop(g))
  <2>1. Watched => LeavesEvent(g, n)
    BY CallsDrain
  <2>2. LeavesEvent(g, n) <=> (FewerCalls(g, n) ~> AtTop(g))
    BY DEF LeavesEvent
  <2> QED
    BY <2>1, <2>2, PTL DEF WillBeAtTop
<1>2. InEvent(g) => \E n \in Nat : FewerCalls(g, n)
  <2> SUFFICES ASSUME InEvent(g) PROVE \E n \in Nat : FewerCalls(g, n)
    OBVIOUS
  <2>1. Cardinality(Undone) \in Nat
    BY FS_Subset, FS_CardinalityType DEF Undone
  <2>2. Cardinality(Undone) + 1 \in Nat /\ Cardinality(Undone) < Cardinality(Undone) + 1
    BY <2>1
  <2> QED
    BY <2>2 DEF FewerCalls
<1>3. Watched => (InEvent(g) => WillBeAtTop(g))
  BY <1>1, <1>2
<1> QED
  BY <1>3, PTL DEF Watched, WillBeAtTop

WillBeFreed == <>Freed

(* Back at its top, readLoop finds its socket closed and ends, and the     *)
(* cleanup that waits for it goes on. *)
LEMMA CleanupGoesOn ==
  ASSUME IsFiniteSet(Inner), NEW g \in Gens
  PROVE  Watched => (Freeing(g) => WillBeFreed)
<1> DEFINE Here == Freeing(g)
           Event == InEvent(g)
           Top == AtTop(g)
           Ended == HasEnded(g)
           CanRead == ENABLED <<ReadLoop(g)>>_vars
           CanClean == ENABLED <<LifeCycle>>_vars
<1>1. IInv /\ Here => Event \/ Top \/ Ended
  BY DEF IInv, TypeOK, LifeTypes, Freeing, InEvent, AtTop, HasEnded
<1>2. ASSUME IInv, HoldInv, [Next]_vars
      PROVE  /\ Top => Top' \/ Ended'
             /\ Top /\ ReadLoop(g) => Ended'
             /\ Ended => Ended' \/ Freed'
             /\ Ended /\ LifeCycle => Freed'
  BY <1>2, FreeingMoves DEF InEvent, AtTop, HasEnded
<1>3. IInv /\ HoldInv /\ EnabledAsGuarded => (Top => CanRead) /\ (Ended => CanClean)
  <2> SUFFICES ASSUME IInv, HoldInv, EnabledAsGuarded
               PROVE  (Top => CanRead) /\ (Ended => CanClean)
    OBVIOUS
  <2>1. Top => Cancelled(fCtx)
    BY DEF AtTop, Freeing, HoldInv, CancelInv, Gens
  <2>2. Top => CanRead
    BY <2>1, LockIsFree DEF AtTop, EnabledAsGuarded, Alive
  <2>3. Ended => CanClean
    <3> SUFFICES ASSUME Ended PROVE CanClean
      OBVIOUS
    <3>1. gen # 0
      BY DEF HasEnded, Freeing, HoldInv, ReaderInv, Gens, IInv, TypeOK, LifeTypes
    <3>2. ~locked
      BY <3>1, LockIsFree DEF HasEnded, Freeing, Connecting
    <3> QED
      BY <3>2 DEF HasEnded, Freeing, EnabledAsGuarded
  <2> QED
    BY <2>2, <2>3
<1>4. Watched => (InEvent(g) ~> AtTop(g))
  BY EventEnds
<1>5. Fairness => FairReader(g) /\ FairLife
  BY LoopsAreFair
<1>6. FairReader(g) <=> ([]<>~CanRead \/ []<><<ReadLoop(g)>>_vars)
  BY PTL DEF FairReader, CanRead
<1>7. FairLife <=> ([]<>~CanClean \/ []<><<LifeCycle>>_vars)
  BY PTL DEF FairLife, CanClean
<1>8. (Here <=> Freeing(g)) /\ (Event <=> InEvent(g)) /\ (Top <=> AtTop(g))
  OBVIOUS
<1> HIDE DEF Here, Event, Top, Ended, CanRead, CanClean
<1> QED
  BY <1>1, <1>2, <1>3, <1>4, <1>5, <1>6, <1>7, <1>8, PTL DEF Watched, WillBeFreed

LEMMA AlwaysWatched == Spec /\ []Fairness /\ []EnabledAsGuarded => Watched
BY Invariance, HoldInvariance, PTL DEF Spec, Watched

(* A Disconnect, or the cleanup after a failure, is never held up for good *)
(* by a call made in OnEvent, on the readLoop that the cleanup waits for:  *)
(* the cancelled context takes the call out of its select, and the next,   *)
(* as many as OnEvent still makes (client.go, sendMessage, handleEvent).   *)
THEOREM CallbacksFreed ==
  ASSUME IsFiniteSet(Inner)
  PROVE  Spec /\ []Fairness /\ []EnabledAsGuarded => CleanupFreesCallback
<1> DEFINE Start == lpc = "wait" /\ fCtx # 0 /\ rpc[fCtx] # "none"
<1>1. IInv /\ Start => \E g \in Gens : Freeing(g)
  BY RequestsAssumption DEF IInv, TypeOK, LifeTypes, Gens, Freeing
<1>2. Watched => (IInv /\ Start => WillBeFreed)
  <2> HIDE DEF Start
  <2> QED
    BY <1>1, CleanupGoesOn
<1>3. (Start ~> Freed) => CleanupFreesCallback
  BY DEF CleanupFreesCallback, Freed
<1> HIDE DEF Start
<1>4. Watched => (Start ~> Freed)
  BY <1>2, PTL DEF Watched, WillBeFreed
<1> QED
  BY <1>3, <1>4, AlwaysWatched

-----------------------------------------------------------------------------
(* An answer on its way is delivered, and its call returns *)

(* The requests the server has still to decide on, or whose answers have   *)
(* not been read. *)
Unsettled(g) ==
  {q \in Requests : verdict[q] = "none" \/ \E v \in {"ok", "refused"} : <<id[q], v>> \in answers[g]}

OnItsWay(r, g) ==
  /\ <<id[r], r>> \in pending
  /\ \E v \in {"ok", "refused"} : <<id[r], v>> \in answers[g]
  /\ sock[g] = "open" /\ ~Cancelled(g) /\ rpc[g] # "onEvent"
Delivered(r) == resp[r] # "none" /\ pc[r] \in {"wait", "waiting"}
Over(r, g) ==
  \/ pc[r] = "done" \/ sock[g] # "open" \/ Cancelled(g) \/ rpc[g] = "onEvent"

(* The steps that take or add answers, decisions or ids. *)
LEMMA AnswersMove ==
  ASSUME WireTypes, NEW g \in Gens, [Next]_vars
  PROVE  \/ answers'[g] \subseteq answers[g] /\ UNCHANGED <<id, verdict>>
         \/ \E s \in Requests, where \in {"none", "onConnect", "onEvent"} : Ask(s, where)
         \/ \E h \in Gens, s \in Requests : Serve(h, s)
<1> USE DEF WireTypes, wireVars, mapVars, endVars
<1>1. ASSUME NEW h \in Gens, NEW i \in 1 .. messageID, NEW v \in {"ok", "refused"},
             HandleResponse(h, i, v)
      PROVE  answers'[g] \subseteq answers[g] /\ UNCHANGED <<id, verdict>>
  BY <1>1 DEF HandleResponse
<1>2. CASE CloseConn
  BY <1>2, CloseShrinks DEF CloseConn
<1>3. ASSUME NEW h \in Gens, PeerGone(h)
      PROVE  answers'[g] \subseteq answers[g] /\ UNCHANGED <<id, verdict>>
  BY <1>3 DEF PeerGone, Closes
<1>4. ASSUME CallerStep, ~ \E s \in Requests, where \in {"none", "onConnect", "onEvent"} :
               Ask(s, where)
      PROVE  answers'[g] \subseteq answers[g] /\ UNCHANGED <<id, verdict>>
  <2>1. answers' = answers
    BY <1>4, CallersKeepConnection
  <2>2. UNCHANGED <<id, verdict>>
    BY <1>4 DEF CallerStep, Call, Register, RegisterPanics, MarshalFails, EnterSend, Enqueue,
      EnterWait, TakeAnswer, GiveUp, RefuseCall, OwnContextEnds, Publish, PublishPanics, EndsWith
  <2> QED
    BY <2>1, <2>2
<1>5. CASE \/ BeginConnect \/ SetCtx \/ SetChan \/ SetPend \/ DialFails \/ DialSucceeds
           \/ SpawnLoops \/ CancelCtx \/ ResetState \/ UNCHANGED vars
           \/ \E h \in Gens : ReadEnds(h) \/ EventHandled(h) \/ WriteLoop(h) \/ HandleEvent(h)
                              \/ ConnectContextEnds(h)
  <2>1. UNCHANGED <<answers, id, verdict>>
    BY <1>5 DEF BeginConnect, SetCtx, SetChan, SetPend, DialFails, DialSucceeds, SpawnLoops,
      CancelCtx, ResetState, ReadEnds, EventHandled, WriteLoop, WriteTop, WriteCancelled,
      WriteSucceeds, WriteFails, HandleEvent, ConnectContextEnds, vars
  <2> QED
    BY <2>1
<1> QED
  BY <1>1, <1>2, <1>3, <1>4, <1>5 DEF Next, LifeCycle, ReadLoop, Environment, CallerStep

(* Decisions are made once, and so is an answer to a request. *)
LEMMA UnsettledShrinks ==
  ASSUME IInv, NEW g \in Gens, [Next]_vars
  PROVE  Unsettled(g)' \subseteq Unsettled(g)
<1> USE DEF IInv, TypeOK, WireTypes, CallTypes
<1> SUFFICES ASSUME NEW q \in Requests, verdict[q] # "none",
                    \A v \in {"ok", "refused"} : <<id[q], v>> \notin answers[g]
             PROVE  /\ verdict'[q] # "none"
                    /\ \A v \in {"ok", "refused"} : <<id'[q], v>> \notin answers'[g]
  BY DEF Unsettled
<1>1. CASE answers'[g] \subseteq answers[g] /\ UNCHANGED <<id, verdict>>
  BY <1>1
<1>2. ASSUME NEW s \in Requests, NEW where \in {"none", "onConnect", "onEvent"}, Ask(s, where)
      PROVE  /\ verdict'[q] # "none"
             /\ \A v \in {"ok", "refused"} : <<id'[q], v>> \notin answers'[g]
  <2>1. s # q
    BY <1>2 DEF Ask, CallStep, PlaceInv
  <2>2. id'[q] = id[q] /\ UNCHANGED <<answers, verdict>>
    BY <1>2, <2>1 DEF Ask, wireVars, endVars
  <2> QED
    BY <2>2
<1>3. ASSUME NEW h \in Gens, NEW s \in Requests, Serve(h, s)
      PROVE  /\ verdict'[q] # "none"
             /\ \A v \in {"ok", "refused"} : <<id'[q], v>> \notin answers'[g]
  <2>1. s # q
    BY <1>3 DEF Serve, PlaceInv
  <2>2. verdict'[q] = verdict[q] /\ id' = id
    BY <1>3, <2>1 DEF Serve, mapVars
  <2>3. \A m \in answers'[g] : m \in answers[g] \/ (id[s] # 0 /\ m[1] = id[s])
    BY <1>3 DEF Serve
  <2>4. id[s] # 0 => id[q] # id[s]
    BY <2>1 DEF IdsInv
  <2> QED
    BY <2>2, <2>3, <2>4
<1> QED
  BY <1>1, <1>2, <1>3, AnswersMove

(* An answer that is read settles the request it is for. *)
LEMMA ReadingSettles ==
  ASSUME IInv, NEW g \in Gens, NEW i \in 1 .. messageID, NEW v \in {"ok", "refused"},
         HandleResponse(g, i, v)
  PROVE  \E q \in Unsettled(g) : q \notin Unsettled(g)'
<1> USE DEF IInv, TypeOK, WireTypes, CallTypes
<1>1. <<i, v>> \in answers[g] /\ answers'[g] = answers[g] \ {<<i, v>>} /\ UNCHANGED <<id, verdict>>
  BY DEF HandleResponse, endVars
<1>2. PICK q \in Requests : id[q] = i /\ verdict[q] = v
  BY <1>1 DEF AnswersInv
<1>3. \A w \in {"ok", "refused"} : <<i, w>> \in answers[g] => w = v
  <2> SUFFICES ASSUME NEW w \in {"ok", "refused"}, <<i, w>> \in answers[g] PROVE w = v
    OBVIOUS
  <2>1. PICK s \in Requests : id[s] = i /\ verdict[s] = w
    BY DEF AnswersInv
  <2>2. s = q
    BY <1>2, <2>1 DEF IdsInv
  <2> QED
    BY <1>2, <2>1, <2>2
<1>4. q \in Unsettled(g)
  BY <1>1, <1>2 DEF Unsettled
<1>5. q \notin Unsettled(g)'
  BY <1>1, <1>2, <1>3 DEF Unsettled
<1> QED
  BY <1>4, <1>5

(* Nobody takes the entry of a call out of the map but the call, and the   *)
(* one who delivers its answer. *)
LEMMA EntryStays ==
  ASSUME IInv, HoldInv, NEW r \in Callers, NEW g \in Gens, OnItsWay(r, g), [Next]_vars
  PROVE  \/ <<id[r], r>> \in pending' /\ id'[r] = id[r]
         \/ pc'[r] = "done"
         \/ \E v \in {"ok", "refused"} : HandleResponse(g, id[r], v)
<1> USE DEF IInv, TypeOK, WireTypes, CallTypes, OnItsWay
<1>1. /\ r \in Requests /\ pc[r] \notin {"idle", "register", "done"}
      /\ \A s \in Requests : id[s] = id[r] => s = r
  <2>1. r \in Requests /\ pc[r] \notin {"idle", "register", "done"}
    BY DEF Requests, EntriesInv, EntriesAreLive
  <2>2. id[r] # 0
    BY <2>1 DEF IdsInv
  <2> QED
    BY <2>1, <2>2 DEF IdsInv
<1>2. CASE SetPend
  BY <1>2 DEF SetPend, LifeStep, HoldInv, SocketInv
<1>3. ASSUME NEW s \in Requests, NEW where \in {"none", "onConnect", "onEvent"}, Ask(s, where)
      PROVE  <<id[r], r>> \in pending' /\ id'[r] = id[r]
  BY <1>1, <1>3 DEF Ask, CallStep
<1>4. ASSUME NEW s \in Requests, MarshalFails(s) \/ GiveUp(s)
      PROVE  (<<id[r], r>> \in pending' /\ id'[r] = id[r]) \/ pc'[r] = "done"
  <2>1. DropEntry(s) /\ id' = id /\ \E o : EndsWith(s, o)
    BY <1>4 DEF MarshalFails, GiveUp
  <2>2. CASE s = r
    BY <1>1, <2>1, <2>2 DEF EndsWith
  <2>3. CASE s # r
    BY <1>1, <2>1, <2>3 DEF DropEntry
  <2> QED
    BY <2>2, <2>3
<1>5. ASSUME NEW s \in Requests,
             \/ Register(s) \/ RegisterPanics(s) \/ EnterSend(s) \/ Enqueue(s) \/ EnterWait(s)
             \/ TakeAnswer(s) \/ RefuseCall(s) \/ OwnContextEnds(s)
             \/ \E where \in {"none", "onConnect", "onEvent"} :
                  Publish(s, where) \/ PublishPanics(s, where)
      PROVE  <<id[r], r>> \in pending' /\ id'[r] = id[r]
  BY <1>5 DEF Register, RegisterPanics, EnterSend, Enqueue, EnterWait, TakeAnswer, RefuseCall,
    OwnContextEnds, Publish, PublishPanics, mapVars
<1>6. ASSUME NEW h \in Gens, NEW i \in 1 .. messageID, NEW v \in {"ok", "refused"},
             HandleResponse(h, i, v), ~ HandleResponse(g, id[r], v)
      PROVE  <<id[r], r>> \in pending' /\ id'[r] = id[r]
  <2>1. h = g
    BY <1>6 DEF HandleResponse, HoldInv, SocketInv
  <2>2. i # id[r]
    BY <1>6, <2>1
  <2> QED
    BY <1>6, <2>2 DEF HandleResponse
<1>7. CASE \/ BeginConnect \/ SetCtx \/ SetChan \/ DialFails \/ DialSucceeds
           \/ SpawnLoops \/ CloseConn \/ CancelCtx \/ ResetState \/ UNCHANGED vars
           \/ \E h \in Gens : \/ ReadEnds(h) \/ EventHandled(h) \/ WriteLoop(h) \/ HandleEvent(h)
                              \/ PeerGone(h) \/ ConnectContextEnds(h)
           \/ \E h \in Gens, s \in Requests : Serve(h, s)
  <2>1. UNCHANGED <<pending, id>>
    BY <1>7 DEF BeginConnect, SetCtx, SetChan, DialFails, DialSucceeds, SpawnLoops, CloseConn,
      CancelCtx, ResetState, ReadEnds, EventHandled, WriteLoop, WriteTop, WriteCancelled,
      WriteSucceeds, WriteFails, HandleEvent, PeerGone, ConnectContextEnds, Serve, mapVars, vars
  <2> QED
    BY <2>1
<1> QED
  BY <1>2, <1>3, <1>4, <1>5, <1>6, <1>7 DEF Next, LifeCycle, ReadLoop, Call, Environment

(* The answer goes to the call, which waits for it by now. *)
LEMMA AnswerDelivered ==
  ASSUME IInv, NEW r \in Callers, NEW g \in Gens, OnItsWay(r, g),
         NEW v \in {"ok", "refused"}, HandleResponse(g, id[r], v)
  PROVE  Delivered(r)'
<1> USE DEF IInv, TypeOK, WireTypes, CallTypes, OnItsWay
<1>1. r \in Requests /\ resp[r] = "none" /\ pc[r] \notin {"idle", "register", "done"}
  BY DEF Requests, EntriesInv, EntriesAreLive
<1>2. verdict[r] # "none"
  <2>1. PICK s \in Requests : id[s] = id[r] /\ verdict[s] = v /\ id[r] # 0
    BY DEF HandleResponse, AnswersInv
  <2>2. s = r
    BY <1>1, <2>1 DEF IdsInv
  <2> QED
    BY <2>1, <2>2
<1>3. pc[r] \in {"wait", "waiting"}
  BY <1>1, <1>2 DEF PlaceInv
<1>4. resp'[r] = v /\ pc' = pc
  BY <1>1 DEF HandleResponse, callVars
<1> QED
  BY <1>3, <1>4 DEF Delivered

(* Until then, readLoop reads other answers, and only finitely many. *)
LEMMA OnItsWayMoves ==
  ASSUME IInv, HoldInv, NEW r \in Callers, NEW g \in Gens, OnItsWay(r, g), [Next]_vars
  PROVE  /\ OnItsWay(r, g)' \/ Delivered(r)' \/ Over(r, g)'
         /\ ReadLoop(g) => \/ Delivered(r)' \/ Over(r, g)'
                           \/ \E q \in Unsettled(g) : q \notin Unsettled(g)'
<1> USE DEF IInv, TypeOK, WireTypes, CallTypes
<1>1. CASE \E v \in {"ok", "refused"} : HandleResponse(g, id[r], v)
  BY <1>1, AnswerDelivered
<1>2. CASE pc'[r] = "done"
  BY <1>2 DEF Over
<1>3. ASSUME <<id[r], r>> \in pending' /\ id'[r] = id[r],
             ~ \E v \in {"ok", "refused"} : HandleResponse(g, id[r], v)
      PROVE  OnItsWay(r, g)' \/ Over(r, g)'
  <2>1. sock'[g] # "open" \/ \E v \in {"ok", "refused"} : <<id[r], v>> \in answers'[g]
    <3>1. PICK v \in {"ok", "refused"} : <<id[r], v>> \in answers[g]
      BY DEF OnItsWay
    <3>2. CASE answers' = answers
      BY <3>1, <3>2
    <3>3. ASSUME NEW h \in Gens, NEW i \in 1 .. messageID, NEW w \in {"ok", "refused"},
                 HandleResponse(h, i, w)
          PROVE  <<id[r], v>> \in answers'[g]
      <4>1. h # g \/ <<i, w>> # <<id[r], v>>
        BY <1>3, <3>3
      <4>2. answers' = [answers EXCEPT ![h] = @ \ {<<i, w>>}]
        BY <3>3 DEF HandleResponse
      <4> QED
        BY <3>1, <4>1, <4>2
    <3>4. ASSUME NEW h \in Gens, NEW s \in Requests, Serve(h, s)
          PROVE  <<id[r], v>> \in answers'[g]
      BY <3>1, <3>4 DEF Serve
    <3>5. ASSUME NEW h \in Gens, Closes(h)
          PROVE  sock'[g] # "open" \/ <<id[r], v>> \in answers'[g]
      BY <3>1, <3>5 DEF Closes, LifeTypes
    <3>6. \/ answers' = answers
          \/ \E h \in Gens : Closes(h)
          \/ \E h \in Gens, s \in Requests : Serve(h, s)
          \/ \E h \in Gens, i \in 1 .. messageID, w \in {"ok", "refused"} : HandleResponse(h, i, w)
      <4>1. CASE CallerStep
        BY <4>1, CallersKeepConnection
      <4>2. CASE \/ BeginConnect \/ SetCtx \/ SetChan \/ SetPend \/ DialFails \/ DialSucceeds
                 \/ SpawnLoops \/ CancelCtx \/ ResetState \/ UNCHANGED vars
                 \/ \E h \in Gens : ReadEnds(h) \/ EventHandled(h) \/ WriteLoop(h) \/ HandleEvent(h)
                                    \/ ConnectContextEnds(h)
        BY <4>2 DEF BeginConnect, SetCtx, SetChan, SetPend, DialFails, DialSucceeds, SpawnLoops,
          CancelCtx, ResetState, ReadEnds, EventHandled, WriteLoop, WriteTop, WriteCancelled,
          WriteSucceeds, WriteFails, HandleEvent, ConnectContextEnds, wireVars, vars
      <4>3. CASE CloseConn \/ \E h \in Gens : PeerGone(h)
        BY <4>3 DEF CloseConn, PeerGone
      <4> QED
        BY <4>1, <4>2, <4>3 DEF Next, LifeCycle, ReadLoop, Environment, CallerStep
    <3> QED
      BY <3>2, <3>3, <3>4, <3>5, <3>6
  <2> QED
    BY <1>3, <2>1 DEF OnItsWay, Over
<1>4. ReadLoop(g) => \E i \in 1 .. messageID, v \in {"ok", "refused"} : HandleResponse(g, i, v)
  <2>1. ~ ReadEnds(g)
    BY DEF OnItsWay, ReadEnds, LoopsInv, Alive
  <2>2. ~ EventHandled(g)
    BY DEF OnItsWay, EventHandled
  <2> QED
    BY <2>1, <2>2 DEF ReadLoop
<1>5. ReadLoop(g) => \E q \in Unsettled(g) : q \notin Unsettled(g)'
  BY <1>4, ReadingSettles
<1> QED
  BY <1>1, <1>2, <1>3, <1>5, EntryStays

(* A delivered answer stays in its channel until the call takes it. *)
LEMMA DeliveredMoves ==
  ASSUME IInv, NEW r \in Requests, Delivered(r), [Next]_vars
  PROVE  /\ Delivered(r)' \/ pc'[r] = "done"
         /\ Delivered(r)' => pc'[r] = pc[r] \/ pc'[r] = "waiting"
         /\ Call(r) => (pc[r] = "wait" /\ pc'[r] = "waiting") \/ pc'[r] = "done"
<1>0. CallTypes /\ pc[r] \in {"wait", "waiting"}
  BY DEF IInv, TypeOK, Delivered
<1>1. \/ Call(r) /\ pc[r] = "wait" /\ pc'[r] = "waiting"
      \/ Call(r) /\ pc[r] = "waiting" /\ pc'[r] = "done"
      \/ ~Call(r) /\ pc'[r] = pc[r]
  BY <1>0, CallGoesOn, OthersLeaveCall
<1> USE DEF IInv, TypeOK, WireTypes, CallTypes, Delivered
<1>2. resp'[r] = resp[r] \/ pc'[r] = "done"
  <2>1. ASSUME NEW h \in Gens, NEW i \in 1 .. messageID, NEW v \in {"ok", "refused"},
               HandleResponse(h, i, v)
        PROVE  resp'[r] = resp[r]
    BY <2>1 DEF HandleResponse
  <2>2. ASSUME NEW s \in Requests, TakeAnswer(s)
        PROVE  resp'[r] = resp[r] \/ pc'[r] = "done"
    BY <2>2 DEF TakeAnswer, EndsWith
  <2>3. ASSUME NEW s \in Requests,
               \/ Register(s) \/ RegisterPanics(s) \/ MarshalFails(s) \/ EnterSend(s) \/ Enqueue(s)
               \/ EnterWait(s) \/ GiveUp(s) \/ RefuseCall(s) \/ OwnContextEnds(s)
               \/ \E where \in {"none", "onConnect", "onEvent"} :
                    Ask(s, where) \/ Publish(s, where) \/ PublishPanics(s, where)
        PROVE  resp' = resp
    BY <2>3 DEF Register, RegisterPanics, MarshalFails, EnterSend, Enqueue, EnterWait, GiveUp,
      RefuseCall, OwnContextEnds, Ask, Publish, PublishPanics, mapVars
  <2>4. CASE \/ BeginConnect \/ SetCtx \/ SetChan \/ SetPend \/ DialFails \/ DialSucceeds
             \/ SpawnLoops \/ CloseConn \/ CancelCtx \/ ResetState \/ UNCHANGED vars
             \/ \E h \in Gens : \/ ReadEnds(h) \/ EventHandled(h) \/ WriteLoop(h) \/ HandleEvent(h)
                                \/ PeerGone(h) \/ ConnectContextEnds(h)
             \/ \E h \in Gens, s \in Requests : Serve(h, s)
    BY <2>4 DEF BeginConnect, SetCtx, SetChan, SetPend, DialFails, DialSucceeds, SpawnLoops,
      CloseConn, CancelCtx, ResetState, ReadEnds, EventHandled, WriteLoop, WriteTop,
      WriteCancelled, WriteSucceeds, WriteFails, HandleEvent, PeerGone, ConnectContextEnds, Serve,
      mapVars, vars
  <2> QED
    BY <2>1, <2>2, <2>3, <2>4 DEF Next, LifeCycle, ReadLoop, Call, Environment
<1> QED
  BY <1>1, <1>2

LEMMA DeliveredReturns ==
  ASSUME NEW r \in Callers
  PROVE  Watched => (Delivered(r) ~> pc[r] = "done")
<1> DEFINE Between == Delivered(r) /\ pc[r] = "wait"
           Waiting == Delivered(r) /\ pc[r] = "waiting"
           Here == Delivered(r)
           Done == pc[r] = "done"
           CanGo == ENABLED <<Call(r)>>_vars
<1>0. r \in Requests
  BY DEF Requests
<1>1. Here => Between \/ Waiting
  BY DEF Delivered
<1>2. ASSUME IInv, [Next]_vars
      PROVE  /\ Between => Between' \/ Waiting' \/ Done'
             /\ Waiting => Waiting' \/ Done'
             /\ Between /\ Call(r) => Waiting' \/ Done'
             /\ Waiting /\ Call(r) => Done'
  BY <1>0, <1>2, DeliveredMoves
<1>3. IInv /\ EnabledAsGuarded => (Between \/ Waiting => CanGo)
  BY <1>0, LockIsFree DEF EnabledAsGuarded, Delivered
<1>4. Fairness => FairCall(r)
  BY <1>0, EveryCallIsFair
<1>5. FairCall(r) <=> ([]<>~CanGo \/ []<><<Call(r)>>_vars)
  BY PTL DEF FairCall, CanGo
<1>6. (Here <=> Delivered(r)) /\ (Done <=> pc[r] = "done")
  OBVIOUS
<1> HIDE DEF Between, Waiting, Here, Done, CanGo
<1> QED
  BY <1>1, <1>2, <1>3, <1>4, <1>5, <1>6, PTL DEF Watched

(* One by one the other answers are read, however many they are. *)
AnswersLeft(r, g, n) == OnItsWay(r, g) /\ Cardinality(Unsettled(g)) = n
FewerAnswers(r, g, n) == OnItsWay(r, g) /\ Cardinality(Unsettled(g)) < n
Arrived(r, g) == Delivered(r) \/ Over(r, g)
Arrives(r, g, n) == FewerAnswers(r, g, n) ~> Arrived(r, g)
WillArrive(d, n) ==
  \A m \in Nat, g \in Gens, r \in Callers : m = n /\ g = d => Arrives(r, g, m)
WillHaveArrived(r, g) == <>Arrived(r, g)

OverAnswers == INSTANCE TemporalInduction WITH P <- WillArrive

LEMMA UnsettledFinite ==
  ASSUME IsFiniteSet(Requests), NEW g \in Gens
  PROVE  IsFiniteSet(Unsettled(g)) /\ Cardinality(Unsettled(g)) \in Nat
BY FS_Subset, FS_CardinalityType DEF Unsettled

LEMMA FewerAnswersLeft ==
  ASSUME IsFiniteSet(Requests), NEW g \in Gens, NEW n \in Nat, NEW r \in Callers
  PROVE  Watched => (AnswersLeft(r, g, n) ~> (FewerAnswers(r, g, n) \/ Arrived(r, g)))
<1> DEFINE Left == AnswersLeft(r, g, n)
           Fewer == FewerAnswers(r, g, n)
           Goal == Arrived(r, g)
           CanGo == ENABLED <<ReadLoop(g)>>_vars
<1>1. ASSUME IInv, HoldInv, [Next]_vars
      PROVE  /\ Left => Left' \/ Fewer' \/ Goal'
             /\ Left /\ ReadLoop(g) => Fewer' \/ Goal'
  <2> SUFFICES ASSUME Left
               PROVE  /\ Left' \/ Fewer' \/ Goal'
                      /\ ReadLoop(g) => Fewer' \/ Goal'
    OBVIOUS
  <2>1. OnItsWay(r, g) /\ Cardinality(Unsettled(g)) = n
    BY DEF AnswersLeft
  <2>2. IsFiniteSet(Unsettled(g)) /\ Unsettled(g)' \subseteq Unsettled(g)
    BY <1>1, UnsettledFinite, UnsettledShrinks
  <2>3. /\ IsFiniteSet(Unsettled(g)') /\ Cardinality(Unsettled(g)') <= n
        /\ n = Cardinality(Unsettled(g)') => Unsettled(g) = Unsettled(g)'
    BY <2>1, <2>2, FS_Subset
  <2>4. Cardinality(Unsettled(g)') \in Nat
    BY <2>3, FS_CardinalityType
  <2>5. (\E q \in Unsettled(g) : q \notin Unsettled(g)') => Cardinality(Unsettled(g)') < n
    BY <2>3, <2>4
  <2>6. /\ OnItsWay(r, g)' \/ Goal'
        /\ ReadLoop(g) => Goal' \/ \E q \in Unsettled(g) : q \notin Unsettled(g)'
    BY <1>1, <2>1, OnItsWayMoves DEF Arrived
  <2>7. OnItsWay(r, g)' => Left' \/ Fewer'
    BY <2>3, <2>4 DEF AnswersLeft, FewerAnswers
  <2>8. OnItsWay(r, g)' /\ Cardinality(Unsettled(g)') < n => Fewer'
    BY DEF FewerAnswers
  <2> QED
    BY <2>5, <2>6, <2>7, <2>8
<1>2. IInv /\ HoldInv /\ EnabledAsGuarded => (Left => CanGo)
  <2> SUFFICES ASSUME IInv, HoldInv, EnabledAsGuarded, Left PROVE CanGo
    OBVIOUS
  <2>1. OnItsWay(r, g) /\ answers[g] # {}
    BY DEF AnswersLeft, OnItsWay
  <2>2. rpc[g] = "top"
    BY <2>1 DEF OnItsWay, HoldInv, ReaderInv, IInv, TypeOK, LifeTypes
  <2>3. ~(rpc[g] = "onEvent") /\ rpc[g] \in {"top", "onEvent"}
    BY <2>2
  <2> QED
    BY <2>1, <2>3, LockIsFree DEF EnabledAsGuarded, Alive
<1>3. Fairness => FairReader(g)
  BY LoopsAreFair
<1>4. FairReader(g) <=> ([]<>~CanGo \/ []<><<ReadLoop(g)>>_vars)
  BY PTL DEF FairReader, CanGo
<1>5. /\ Left <=> AnswersLeft(r, g, n)
      /\ Fewer <=> FewerAnswers(r, g, n)
      /\ Goal <=> Arrived(r, g)
  OBVIOUS
<1> HIDE DEF Left, Fewer, Goal, CanGo
<1> QED
  BY <1>1, <1>2, <1>3, <1>4, <1>5, PTL DEF Watched

LEMMA AnswersDrain ==
  ASSUME IsFiniteSet(Requests), NEW g \in Gens, NEW k \in Nat
  PROVE  Watched => \A r \in Callers : Arrives(r, g, k)
<1>1. Watched => WillArrive(g, 0)
  <2>1. ASSUME NEW r \in Callers
        PROVE  Watched => Arrives(r, g, 0)
    <3> DEFINE Fewer == FewerAnswers(r, g, 0)
    <3>1. ~Fewer
      BY UnsettledFinite DEF FewerAnswers
    <3>2. Arrives(r, g, 0) <=> (Fewer ~> Arrived(r, g))
      BY DEF Arrives
    <3> HIDE DEF Fewer
    <3> QED
      BY <3>1, <3>2, PTL
  <2> QED
    BY <2>1 DEF WillArrive
<1>2. ASSUME NEW n \in Nat, NEW r \in Callers
      PROVE  Watched => (Arrives(r, g, n) => Arrives(r, g, n + 1))
  <2> DEFINE Some == FewerAnswers(r, g, n + 1)
             Exactly == AnswersLeft(r, g, n)
             Fewer == FewerAnswers(r, g, n)
             Goal == Arrived(r, g)
  <2>1. Some => Exactly \/ Fewer
    BY UnsettledFinite DEF FewerAnswers, AnswersLeft
  <2>2. Watched => (AnswersLeft(r, g, n) ~> (FewerAnswers(r, g, n) \/ Arrived(r, g)))
    BY FewerAnswersLeft
  <2>3. (Arrives(r, g, n) <=> (Fewer ~> Goal)) /\ (Arrives(r, g, n + 1) <=> (Some ~> Goal))
    BY DEF Arrives
  <2>4. /\ Exactly <=> AnswersLeft(r, g, n)
        /\ Fewer <=> FewerAnswers(r, g, n)
        /\ Goal <=> Arrived(r, g)
    OBVIOUS
  <2> HIDE DEF Some, Exactly, Fewer, Goal
  <2> QED
    BY <2>1, <2>2, <2>3, <2>4, PTL DEF Watched
<1>3. Watched => \A m \in Nat : WillArrive(g, m) => WillArrive(g, m + 1)
  BY <1>2 DEF WillArrive
<1> QED
  BY <1>1, <1>3, OverAnswers!Induction DEF WillArrive

LEMMA AnswerArrives ==
  ASSUME IsFiniteSet(Requests), NEW r \in Callers, NEW g \in Gens
  PROVE  Watched => (OnItsWay(r, g) ~> Arrived(r, g))
<1>1. ASSUME NEW n \in Nat
      PROVE  Watched => (FewerAnswers(r, g, n) => WillHaveArrived(r, g))
  <2>1. Watched => Arrives(r, g, n)
    BY AnswersDrain
  <2>2. Arrives(r, g, n) <=> (FewerAnswers(r, g, n) ~> Arrived(r, g))
    BY DEF Arrives
  <2> QED
    BY <2>1, <2>2, PTL DEF WillHaveArrived
<1>2. OnItsWay(r, g) => \E n \in Nat : FewerAnswers(r, g, n)
  <2> SUFFICES ASSUME OnItsWay(r, g) PROVE \E n \in Nat : FewerAnswers(r, g, n)
    OBVIOUS
  <2>1. Cardinality(Unsettled(g)) \in Nat
    BY UnsettledFinite
  <2>2. /\ Cardinality(Unsettled(g)) + 1 \in Nat
        /\ Cardinality(Unsettled(g)) < Cardinality(Unsettled(g)) + 1
    BY <2>1
  <2> QED
    BY <2>2 DEF FewerAnswers
<1>3. Watched => (OnItsWay(r, g) => WillHaveArrived(r, g))
  BY <1>1, <1>2
<1> QED
  BY <1>3, PTL DEF Watched, WillHaveArrived

Sent(r, g) ==
  /\ <<id[r], r>> \in pending
  /\ \E v \in {"ok", "refused"} : <<id[r], v>> \in answers[g]
Returns(r, g) == Sent(r, g) ~> Over(r, g)

(* A call on a goroutine of the program whose answer is on its way, and    *)
(* whose entry readLoop will find, returns, unless the connection ends or  *)
(* the subscriber holds readLoop up: readLoop reads the answers before it, *)
(* finitely many as the server answers a request once, and no reconnect,   *)
(* no other call and no late answer takes the entry or the answer away     *)
(* (client.go, readLoop, handleResponse, sendMessage). *)
THEOREM AnswersReturn ==
  ASSUME IsFiniteSet(Requests)
  PROVE  Spec /\ []Fairness /\ []EnabledAsGuarded => AnsweredCallReturns
<1>1. (\A r \in Callers, g \in Gens : Returns(r, g)) => AnsweredCallReturns
  BY DEF AnsweredCallReturns, Returns, Sent, Over
<1>2. ASSUME NEW r \in Callers, NEW g \in Gens
      PROVE  Watched => Returns(r, g)
  <2> DEFINE Start == Sent(r, g)
             Way == OnItsWay(r, g)
             Here == Delivered(r)
             Done == pc[r] = "done"
             Goal == Over(r, g)
             There == Arrived(r, g)
  <2>1. Start => Way \/ Goal
    BY DEF Sent, OnItsWay, Over
  <2>2. There => Here \/ Goal
    BY DEF Arrived
  <2>3. Done => Goal
    BY DEF Over
  <2>4. Watched => (OnItsWay(r, g) ~> Arrived(r, g))
    BY AnswerArrives
  <2>5. Watched => (Delivered(r) ~> pc[r] = "done")
    BY DeliveredReturns
  <2>6. /\ Way <=> OnItsWay(r, g)
        /\ There <=> Arrived(r, g)
        /\ Here <=> Delivered(r)
        /\ Done <=> pc[r] = "done"
  OBVIOUS
  <2>7. Returns(r, g) <=> (Start ~> Goal)
    BY DEF Returns
  <2> HIDE DEF Start, Way, Here, Done, Goal, There
  <2> QED
    BY <2>1, <2>2, <2>3, <2>4, <2>5, <2>6, <2>7, PTL DEF Watched
<1> QED
  BY <1>1, <1>2, AlwaysWatched

=============================================================================
