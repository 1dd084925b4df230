------------------------ MODULE VwsRequestsProofs ------------------------
(***************************************************************************)
(* What VwsRequests promises, for any callers, any capacity of the write   *)
(* channel and any number of connects.                                     *)
(***************************************************************************)
EXTENDS VwsRequests, FiniteSetTheorems, TLAPS

Connecting == {"setCtx", "setChan", "setPend", "dial", "onConnect"}
Alive(g) == rpc[g] \in {"top", "onEvent"}

(* One readLoop at most runs, that of the last Connect; the fields that    *)
(* the loops need are set.                                                 *)
LoopsInv ==
  /\ lpc \in Connecting => gen \in Gens /\ started = 1
  /\ lpc \in {"setChan", "setPend", "dial", "onConnect"} => fCtx = gen
  /\ lpc \in {"setPend", "dial", "onConnect"} => fChan \in Gens
  /\ \A g \in Gens :
       /\ wpc[g] \in {"top", "select"} => fChan \in Gens
       /\ wpc[g] = "select" => wChan[g] \in Gens
       /\ Alive(g) => g = gen /\ g = fCtx /\ started = 1 /\ lpc \notin Connecting

(* A field is nil only before or in the first Connect; a lock that is left *)
(* taken keeps the map nil, and every call from passing it.                *)
WindowInv ==
  /\ started = 1 => gen # 0
  /\ gen = 0 => lpc \notin Connecting /\ \A r \in Requests : pc[r] \in {"idle", "done"}
  /\ fCtx = 0 => gen = 0 \/ (gen = 1 /\ lpc = "setCtx")
  /\ ~mapMade => gen = 0 \/ (gen = 1 /\ lpc \in {"setCtx", "setChan", "setPend"})
  /\ locked => ~mapMade
  /\ \A r \in Requests : pc[r] \in {"send", "sending", "wait", "waiting"} => mapMade

(* While a callback waits for one of its calls, no readLoop reads. *)
CallbackInv ==
  \A r \in Inner :
    /\ resp[r] = "none" /\ result[r] \notin {"ok", "refused"}
    /\ pc[r] \notin {"idle", "done"} =>
         \/ host[r] = "onConnect" /\ lpc = "onConnect"
         \/ host[r] = "onEvent" /\ \E g \in Gens : rpc[g] = "onEvent"

(* An id belongs to one call, and so do its entry and its answer. *)
IdsInv ==
  /\ \A r \in Requests : id[r] <= messageID /\ (pc[r] = "idle" => id[r] = 0)
  /\ \A r, s \in Requests : id[r] = id[s] /\ id[r] # 0 => r = s
  /\ \A r \in Requests : pc[r] \in {"register", "send", "sending", "wait", "waiting"} => id[r] # 0

EntriesInv ==
  /\ \A e \in pending : e[1] = id[e[2]]
  /\ \A r \in Requests : pc[r] \in {"idle", "register"} => resp[r] = "none"
  /\ EntriesAreLive

(* A message is in one place, and the server has not decided on it yet. *)
PlaceInv ==
  \A r \in Requests :
    /\ \A g, h \in Gens : r \in chan[g] \cup net[g] /\ r \in chan[h] \cup net[h] => g = h
    /\ \A g \in Gens : r \in chan[g] => r \notin net[g]
    /\ \A g \in Gens : r \in chan[g] \cup net[g] =>
         verdict[r] = "none" /\ pc[r] \notin {"idle", "register", "send", "sending"}
    /\ pc[r] \in {"idle", "register", "send", "sending"} => verdict[r] = "none"

(* An answer on its way, or delivered, is what the server decided on the   *)
(* call; a call that has not returned has no result.                       *)
AnswersInv ==
  /\ \A g \in Gens : \A m \in answers[g] :
       m[1] # 0 /\ \E r \in Requests : id[r] = m[1] /\ verdict[r] = m[2]
  /\ \A r \in Requests : resp[r] # "none" => resp[r] = verdict[r]
  /\ \A r \in Requests : pc[r] # "done" => result[r] = "none"

(* A write channel holds no more than it has room for. *)
ChanInv ==
  \A g \in Gens : IsFiniteSet(chan[g]) /\ Cardinality(chan[g]) <= WriteChannelSize

IInv ==
  /\ TypeOK /\ ChanInv /\ LoopsInv /\ WindowInv /\ CallbackInv
  /\ IdsInv /\ EntriesInv /\ PlaceInv /\ AnswersInv

-----------------------------------------------------------------------------
(* Taking from a set of bounded size, or adding where there is room,       *)
(* keeps the bound.                                                        *)
LEMMA Bounded ==
  ASSUME NEW S, IsFiniteSet(S), NEW x, Cardinality(S) <= WriteChannelSize
  PROVE  /\ IsFiniteSet(S \ {x}) /\ Cardinality(S \ {x}) <= WriteChannelSize
         /\ Cardinality(S) < WriteChannelSize =>
              IsFiniteSet(S \cup {x}) /\ Cardinality(S \cup {x}) <= WriteChannelSize
<1>1. Cardinality(S) \in Nat /\ WriteChannelSize \in Nat
  BY FS_CardinalityType, RequestsAssumption
<1>2. /\ IsFiniteSet(S \ {x})
      /\ Cardinality(S \ {x}) = IF x \in S THEN Cardinality(S) - 1 ELSE Cardinality(S)
  BY FS_RemoveElement
<1>3. /\ IsFiniteSet(S \cup {x})
      /\ Cardinality(S \cup {x}) = IF x \in S THEN Cardinality(S) ELSE Cardinality(S) + 1
  BY FS_AddElement
<1> QED
  BY <1>1, <1>2, <1>3

(* Closing a socket adds nothing to what is on the way. *)
LEMMA CloseShrinks ==
  ASSUME WireTypes, CloseConn
  PROVE  \A h \in Gens : net'[h] \subseteq net[h] /\ answers'[h] \subseteq answers[h]
<1>1. CASE net' = [net EXCEPT ![gen] = {}] /\ answers' = [answers EXCEPT ![gen] = {}]
  BY <1>1 DEF WireTypes
<1>2. CASE UNCHANGED <<net, answers>>
  BY <1>2
<1> QED
  BY <1>1, <1>2 DEF CloseConn, Closes

(* What a step that makes a call panic has to find. *)
PanicGuard ==
  \A r \in Requests : result'[r] = "panicked" /\ result[r] # "panicked" =>
    gen = 1 /\ lpc \in {"setCtx", "setChan", "setPend"}

(* Only the steps of Connect, cleanup and the loops bear on LoopsInv. *)
LEMMA LoopsPreserved ==
  ASSUME LifeTypes, LoopsInv, [Next]_vars
  PROVE  LoopsInv'
<1> USE RequestsAssumption DEF LifeTypes, Gens, LoopsInv, Connecting, Alive,
  fieldVars, lifeVars, writeVars, wireVars, mapVars, endVars, callVars
<1>1. ASSUME \/ UNCHANGED vars
             \/ \E g \in Gens : PeerGone(g) \/ ConnectContextEnds(g)
             \/ \E g \in Gens, i \in 1 .. messageID, v \in {"ok", "refused"} :
               HandleResponse(g, i, v)
             \/ \E g \in Gens, r \in Requests : Serve(g, r)
             \/ \E r \in Requests : RefuseCall(r) \/ OwnContextEnds(r) \/ Register(r)
               \/ RegisterPanics(r) \/ MarshalFails(r) \/ EnterSend(r) \/ Enqueue(r)
               \/ EnterWait(r) \/ TakeAnswer(r) \/ GiveUp(r)
             \/ \E r \in Requests, where \in {"none", "onConnect", "onEvent"} :
               Ask(r, where) \/ Publish(r, where) \/ PublishPanics(r, where)
     PROVE  LoopsInv'
  <2>1. UNCHANGED <<started, fCtx, fChan, lpc, gen, rpc, wpc, wChan>>
    BY <1>1 DEF PeerGone, Closes, ConnectContextEnds, HandleResponse, Serve,
      RefuseCall, EndsWith, OwnContextEnds, Register, CallStep, RegisterPanics,
      MarshalFails, DropEntry, EnterSend, Enqueue, HasRoom, EnterWait, TakeAnswer,
      GiveUp, Ask, Publish, PublishPanics, vars
  <2> QED
    BY <2>1
<1>2. CASE BeginConnect
  BY <1>2 DEF BeginConnect, LifeStep
<1>3. CASE SetCtx
  BY <1>3 DEF SetCtx, LifeStep
<1>4. CASE SetChan
  BY <1>4 DEF SetChan, LifeStep
<1>5. CASE SetPend
  BY <1>5 DEF SetPend, LifeStep
<1>6. CASE DialFails
  BY <1>6 DEF DialFails, LifeStep
<1>7. CASE DialSucceeds
  BY <1>7 DEF DialSucceeds, LifeStep
<1>8. CASE SpawnLoops
  BY <1>8 DEF SpawnLoops, LifeStep
<1>9. CASE CloseConn
  BY <1>9 DEF CloseConn, LifeStep, Closes
<1>10. CASE CancelCtx
  BY <1>10 DEF CancelCtx, LifeStep
<1>11. CASE ResetState
  BY <1>11 DEF ResetState, LifeStep
<1>12. ASSUME NEW g \in Gens, ReadEnds(g) PROVE LoopsInv'
  BY <1>12 DEF ReadEnds
<1>13. ASSUME NEW g \in Gens, EventHandled(g) PROVE LoopsInv'
  BY <1>13 DEF EventHandled
<1>14. ASSUME NEW g \in Gens, HandleEvent(g) PROVE LoopsInv'
  BY <1>14 DEF HandleEvent
<1>15. ASSUME NEW g \in Gens, WriteTop(g) PROVE LoopsInv'
  BY <1>15 DEF WriteTop
<1>16. ASSUME NEW g \in Gens, WriteCancelled(g) PROVE LoopsInv'
  BY <1>16 DEF WriteCancelled, WriteEnds
<1>17. ASSUME NEW g \in Gens, NEW r \in Requests, WriteSucceeds(g, r) PROVE LoopsInv'
  BY <1>17 DEF WriteSucceeds
<1>18. ASSUME NEW g \in Gens, NEW r \in Requests, WriteFails(g, r) PROVE LoopsInv'
  BY <1>18 DEF WriteFails, WriteEnds
<1> HIDE DEF LifeTypes, Gens, LoopsInv, Connecting, Alive, fieldVars, lifeVars,
  writeVars, wireVars, mapVars, endVars, callVars
<1> QED
  BY <1>1, <1>2, <1>3, <1>4, <1>5, <1>6, <1>7, <1>8, <1>9, <1>10, <1>11, <1>12,
    <1>13, <1>14, <1>15, <1>16, <1>17, <1>18 DEF Next, LifeCycle, ReadLoop,
    WriteLoop, Call, Environment

(* A message is added to a channel where there is room only. *)
LEMMA ChanPreserved ==
  ASSUME WireTypes, ChanInv, [Next]_vars
  PROVE  ChanInv'
<1> USE RequestsAssumption DEF WireTypes, Gens, ChanInv, fieldVars, lifeVars,
  writeVars, wireVars, mapVars, endVars, callVars
<1>1. ASSUME \/ BeginConnect \/ SetCtx \/ SetChan \/ SetPend \/ DialFails \/
               DialSucceeds \/ SpawnLoops \/ CloseConn \/ CancelCtx \/ ResetState \/
               UNCHANGED vars
             \/ \E g \in Gens : ReadEnds(g) \/ EventHandled(g) \/ HandleEvent(g) \/
               WriteTop(g) \/ WriteCancelled(g) \/ PeerGone(g) \/
               ConnectContextEnds(g)
             \/ \E g \in Gens, i \in 1 .. messageID, v \in {"ok", "refused"} :
               HandleResponse(g, i, v)
             \/ \E g \in Gens, r \in Requests : Serve(g, r)
             \/ \E r \in Requests : RefuseCall(r) \/ OwnContextEnds(r) \/ Register(r)
               \/ RegisterPanics(r) \/ MarshalFails(r) \/ EnterSend(r) \/
               EnterWait(r) \/ TakeAnswer(r) \/ GiveUp(r)
             \/ \E r \in Requests, where \in {"none", "onConnect", "onEvent"} :
               Ask(r, where) \/ PublishPanics(r, where)
     PROVE  ChanInv'
  <2>1. UNCHANGED chan
    BY <1>1 DEF BeginConnect, LifeStep, SetCtx, SetChan, SetPend, DialFails,
      DialSucceeds, SpawnLoops, CloseConn, Closes, CancelCtx, ResetState, ReadEnds,
      EventHandled, HandleEvent, WriteTop, WriteCancelled, WriteEnds, PeerGone,
      ConnectContextEnds, HandleResponse, Serve, RefuseCall, EndsWith,
      OwnContextEnds, Register, CallStep, RegisterPanics, MarshalFails, DropEntry,
      EnterSend, EnterWait, TakeAnswer, GiveUp, Ask, PublishPanics, vars
  <2> QED
    BY <2>1
<1>2. ASSUME NEW g \in Gens, NEW r \in Requests, WriteSucceeds(g, r) PROVE ChanInv'
  BY <1>2, Bounded DEF WriteSucceeds
<1>3. ASSUME NEW g \in Gens, NEW r \in Requests, WriteFails(g, r) PROVE ChanInv'
  BY <1>3, Bounded DEF WriteFails, WriteEnds
<1>4. ASSUME NEW r \in Requests, NEW where \in {"none", "onConnect", "onEvent"},
  Publish(r, where) PROVE ChanInv'
  <2>1. CASE HasRoom(fChan) /\ chan' = [chan EXCEPT ![fChan] = @ \cup {r}]
    BY <2>1, Bounded DEF HasRoom
  <2>2. CASE UNCHANGED chan
    BY <2>2
  <2> QED
    BY <1>4, <2>1, <2>2 DEF Publish
<1>5. ASSUME NEW r \in Requests, Enqueue(r) PROVE ChanInv'
  BY <1>5, Bounded DEF Enqueue, CallStep, HasRoom
<1> HIDE DEF WireTypes, Gens, ChanInv, fieldVars, lifeVars, writeVars, wireVars,
  mapVars, endVars, callVars
<1> QED
  BY <1>1, <1>2, <1>3, <1>4, <1>5 DEF Next, LifeCycle, ReadLoop, WriteLoop, Call,
    Environment

(* Types of the fields, of Connect and of the loops. *)
LEMMA LifeTypesPreserved ==
  ASSUME LifeTypes, [Next]_vars
  PROVE  LifeTypes'
<1> USE RequestsAssumption DEF LifeTypes, Gens, fieldVars, lifeVars, writeVars,
  wireVars, mapVars, endVars, callVars
<1>1. ASSUME \/ UNCHANGED vars
             \/ \E g \in Gens, i \in 1 .. messageID, v \in {"ok", "refused"} :
               HandleResponse(g, i, v)
             \/ \E g \in Gens, r \in Requests : Serve(g, r)
             \/ \E r \in Requests : RefuseCall(r) \/ OwnContextEnds(r) \/ Register(r)
               \/ MarshalFails(r) \/ EnterSend(r) \/ Enqueue(r)
               \/ EnterWait(r) \/ TakeAnswer(r) \/ GiveUp(r)
             \/ \E r \in Requests, where \in {"none", "onConnect", "onEvent"} :
               Ask(r, where) \/ Publish(r, where) \/ PublishPanics(r, where)
     PROVE  LifeTypes'
  <2>1. UNCHANGED <<fieldVars, lifeVars, rpc, writeVars>>
    BY <1>1 DEF HandleResponse, Serve, RefuseCall, EndsWith, OwnContextEnds,
      Register, CallStep, MarshalFails, DropEntry, EnterSend,
      Enqueue, HasRoom, EnterWait, TakeAnswer, GiveUp, Ask, Publish, PublishPanics,
      vars
  <2> QED
    BY <2>1
<1>2. CASE BeginConnect
  BY <1>2 DEF BeginConnect, LifeStep
<1>3. CASE SetCtx
  BY <1>3 DEF SetCtx, LifeStep
<1>4. CASE SetChan
  BY <1>4 DEF SetChan, LifeStep
<1>5. CASE SetPend
  BY <1>5 DEF SetPend, LifeStep
<1>6. CASE DialFails
  BY <1>6 DEF DialFails, LifeStep
<1>7. CASE DialSucceeds
  BY <1>7 DEF DialSucceeds, LifeStep
<1>8. CASE SpawnLoops
  BY <1>8 DEF SpawnLoops, LifeStep
<1>9. CASE CloseConn
  BY <1>9 DEF CloseConn, LifeStep, Closes
<1>10. CASE CancelCtx
  BY <1>10 DEF CancelCtx, LifeStep
<1>11. CASE ResetState
  BY <1>11 DEF ResetState, LifeStep
<1>12. ASSUME NEW g \in Gens, ReadEnds(g) PROVE LifeTypes'
  BY <1>12 DEF ReadEnds
<1>13. ASSUME NEW g \in Gens, EventHandled(g) PROVE LifeTypes'
  BY <1>13 DEF EventHandled
<1>14. ASSUME NEW g \in Gens, HandleEvent(g) PROVE LifeTypes'
  BY <1>14 DEF HandleEvent
<1>15. ASSUME NEW g \in Gens, WriteTop(g) PROVE LifeTypes'
  BY <1>15 DEF WriteTop
<1>16. ASSUME NEW g \in Gens, WriteCancelled(g) PROVE LifeTypes'
  BY <1>16 DEF WriteCancelled, WriteEnds
<1>17. ASSUME NEW g \in Gens, NEW r \in Requests, WriteSucceeds(g, r) PROVE
  LifeTypes'
  BY <1>17 DEF WriteSucceeds
<1>18. ASSUME NEW g \in Gens, NEW r \in Requests, WriteFails(g, r) PROVE LifeTypes'
  BY <1>18 DEF WriteFails, WriteEnds
<1>19. ASSUME NEW g \in Gens, PeerGone(g) PROVE LifeTypes'
  BY <1>19 DEF PeerGone, Closes
<1>20. ASSUME NEW g \in Gens, ConnectContextEnds(g) PROVE LifeTypes'
  BY <1>20 DEF ConnectContextEnds
<1>21. ASSUME NEW r \in Requests, RegisterPanics(r) PROVE LifeTypes'
  BY <1>21 DEF RegisterPanics
<1> HIDE DEF LifeTypes, Gens, fieldVars, lifeVars, writeVars, wireVars, mapVars,
  endVars, callVars
<1> QED
  BY <1>1, <1>2, <1>3, <1>4, <1>5, <1>6, <1>7, <1>8, <1>9, <1>10, <1>11, <1>12,
    <1>13, <1>14, <1>15, <1>16, <1>17, <1>18, <1>19, <1>20, <1>21 DEF Next, LifeCycle,
    ReadLoop, WriteLoop, Call, Environment

(* Types of the messages, the answers and the map. *)
LEMMA WireTypesPreserved ==
  ASSUME WireTypes, [Next]_vars
  PROVE  WireTypes'
<1> USE RequestsAssumption DEF WireTypes, Gens, fieldVars, lifeVars, writeVars,
  wireVars, mapVars, endVars, callVars
<1>1. ASSUME \/ BeginConnect \/ SetCtx \/ SetChan \/ DialFails \/ DialSucceeds \/
               SpawnLoops \/ CancelCtx \/ ResetState \/ UNCHANGED vars
             \/ \E g \in Gens : ReadEnds(g) \/ EventHandled(g) \/ HandleEvent(g) \/
               WriteTop(g) \/ WriteCancelled(g) \/ ConnectContextEnds(g)
             \/ \E r \in Requests : RefuseCall(r) \/ OwnContextEnds(r) \/
               RegisterPanics(r) \/ EnterSend(r) \/ EnterWait(r)
             \/ \E r \in Requests, where \in {"none", "onConnect", "onEvent"} :
               PublishPanics(r, where)
     PROVE  WireTypes'
  <2>1. UNCHANGED <<wireVars, mapVars>>
    BY <1>1 DEF BeginConnect, LifeStep, SetCtx, SetChan, DialFails, DialSucceeds,
      SpawnLoops, CancelCtx, ResetState, ReadEnds, EventHandled, HandleEvent,
      WriteTop, WriteCancelled, WriteEnds, ConnectContextEnds, RefuseCall, EndsWith,
      OwnContextEnds, RegisterPanics, EnterSend, CallStep, EnterWait, PublishPanics,
      vars
  <2> QED
    BY <2>1
<1>2. CASE SetPend
  BY <1>2 DEF SetPend, LifeStep
<1>3. CASE CloseConn
  BY <1>3 DEF CloseConn, LifeStep, Closes
<1>4. ASSUME NEW g \in Gens, PeerGone(g) PROVE WireTypes'
  BY <1>4 DEF PeerGone, Closes
<1>5. ASSUME NEW g \in Gens, NEW i \in 1 .. messageID, NEW v \in {"ok", "refused"},
  HandleResponse(g, i, v) PROVE WireTypes'
  BY <1>5 DEF HandleResponse
<1>6. ASSUME NEW g \in Gens, NEW r \in Requests, WriteSucceeds(g, r) PROVE WireTypes'
  BY <1>6 DEF WriteSucceeds
<1>7. ASSUME NEW g \in Gens, NEW r \in Requests, WriteFails(g, r) PROVE WireTypes'
  BY <1>7 DEF WriteFails, WriteEnds
<1>8. ASSUME NEW g \in Gens, NEW r \in Requests, Serve(g, r) PROVE WireTypes'
  BY <1>8 DEF Serve
<1>9. ASSUME NEW r \in Requests, NEW where \in {"none", "onConnect", "onEvent"},
  Ask(r, where) PROVE WireTypes'
  BY <1>9 DEF Ask, CallStep
<1>10. ASSUME NEW r \in Requests, NEW where \in {"none", "onConnect", "onEvent"},
  Publish(r, where) PROVE WireTypes'
  <2>1. CASE HasRoom(fChan) /\ chan' = [chan EXCEPT ![fChan] = @ \cup {r}]
    BY <1>10, <2>1 DEF Publish
  <2>2. CASE UNCHANGED chan
    BY <1>10, <2>2 DEF Publish
  <2> QED
    BY <1>10, <2>1, <2>2 DEF Publish
<1>11. ASSUME NEW r \in Requests, Register(r) PROVE WireTypes'
  BY <1>11 DEF Register, CallStep
<1>12. ASSUME NEW r \in Requests, MarshalFails(r) PROVE WireTypes'
  BY <1>12 DEF MarshalFails, EndsWith, DropEntry
<1>13. ASSUME NEW r \in Requests, Enqueue(r) PROVE WireTypes'
  BY <1>13 DEF Enqueue, CallStep, HasRoom
<1>14. ASSUME NEW r \in Requests, TakeAnswer(r) PROVE WireTypes'
  BY <1>14 DEF TakeAnswer, EndsWith
<1>15. ASSUME NEW r \in Requests, GiveUp(r) PROVE WireTypes'
  BY <1>15 DEF GiveUp, EndsWith, DropEntry
<1> HIDE DEF WireTypes, Gens, fieldVars, lifeVars, writeVars, wireVars, mapVars,
  endVars, callVars
<1> QED
  BY <1>1, <1>2, <1>3, <1>4, <1>5, <1>6, <1>7, <1>8, <1>9, <1>10, <1>11, <1>12,
    <1>13, <1>14, <1>15 DEF Next, LifeCycle, ReadLoop, WriteLoop, Call, Environment

(* Types of the calls. *)
LEMMA CallTypesPreserved ==
  ASSUME LifeTypes, WireTypes, CallTypes, [Next]_vars
  PROVE  CallTypes'
<1> USE RequestsAssumption DEF LifeTypes, WireTypes, CallTypes, Results, Gens,
  fieldVars, lifeVars, writeVars, wireVars, mapVars, endVars, callVars
<1>1. ASSUME \/ BeginConnect \/ SetCtx \/ SetChan \/ SetPend \/ DialFails \/
               DialSucceeds \/ SpawnLoops \/ CloseConn \/ CancelCtx \/ ResetState \/
               UNCHANGED vars
             \/ \E g \in Gens : ReadEnds(g) \/ EventHandled(g) \/ HandleEvent(g) \/
               WriteTop(g) \/ WriteCancelled(g) \/ PeerGone(g) \/
               ConnectContextEnds(g)
             \/ \E g \in Gens, i \in 1 .. messageID, v \in {"ok", "refused"} :
               HandleResponse(g, i, v)
             \/ \E g \in Gens, r \in Requests : WriteSucceeds(g, r) \/ WriteFails(g,
               r)
     PROVE  CallTypes'
  <2>1. UNCHANGED <<callVars, endVars>>
    BY <1>1 DEF BeginConnect, LifeStep, SetCtx, SetChan, SetPend, DialFails,
      DialSucceeds, SpawnLoops, CloseConn, Closes, CancelCtx, ResetState, ReadEnds,
      EventHandled, HandleEvent, WriteTop, WriteCancelled, WriteEnds, PeerGone,
      ConnectContextEnds, HandleResponse, WriteSucceeds, WriteFails, vars
  <2> QED
    BY <2>1
<1>2. ASSUME NEW r \in Requests, RefuseCall(r) PROVE CallTypes'
  BY <1>2 DEF RefuseCall, EndsWith
<1>3. ASSUME NEW r \in Requests, OwnContextEnds(r) PROVE CallTypes'
  BY <1>3 DEF OwnContextEnds
<1>4. ASSUME NEW r \in Requests, Register(r) PROVE CallTypes'
  BY <1>4 DEF Register, CallStep
<1>5. ASSUME NEW r \in Requests, RegisterPanics(r) PROVE CallTypes'
  BY <1>5 DEF RegisterPanics, EndsWith
<1>6. ASSUME NEW r \in Requests, MarshalFails(r) PROVE CallTypes'
  BY <1>6 DEF MarshalFails, EndsWith, DropEntry
<1>7. ASSUME NEW r \in Requests, EnterSend(r) PROVE CallTypes'
  BY <1>7 DEF EnterSend, CallStep
<1>8. ASSUME NEW r \in Requests, Enqueue(r) PROVE CallTypes'
  BY <1>8 DEF Enqueue, CallStep, HasRoom
<1>9. ASSUME NEW r \in Requests, EnterWait(r) PROVE CallTypes'
  BY <1>9 DEF EnterWait, CallStep
<1>10. ASSUME NEW r \in Requests, TakeAnswer(r) PROVE CallTypes'
  BY <1>10 DEF TakeAnswer, EndsWith
<1>11. ASSUME NEW r \in Requests, GiveUp(r) PROVE CallTypes'
  BY <1>11 DEF GiveUp, EndsWith, DropEntry
<1>12. ASSUME NEW r \in Requests, NEW where \in {"none", "onConnect", "onEvent"},
  Ask(r, where) PROVE CallTypes'
  BY <1>12 DEF Ask, CallStep
<1>13. ASSUME NEW r \in Requests, NEW where \in {"none", "onConnect", "onEvent"},
  Publish(r, where) PROVE CallTypes'
  <2>1. \E o \in {"sent", "failed"} : EndsWith(r, o)
    BY <1>13 DEF Publish
  <2> QED
    BY <2>1 DEF EndsWith
<1>14. ASSUME NEW r \in Requests, NEW where \in {"none", "onConnect", "onEvent"},
  PublishPanics(r, where) PROVE CallTypes'
  BY <1>14 DEF PublishPanics, EndsWith
<1>15. ASSUME NEW g \in Gens, NEW r \in Requests, Serve(g, r) PROVE CallTypes'
  BY <1>15 DEF Serve
<1> HIDE DEF LifeTypes, WireTypes, CallTypes, Results, Gens, fieldVars, lifeVars,
  writeVars, wireVars, mapVars, endVars, callVars
<1> QED
  BY <1>1, <1>2, <1>3, <1>4, <1>5, <1>6, <1>7, <1>8, <1>9, <1>10, <1>11, <1>12,
    <1>13, <1>14, <1>15 DEF Next, LifeCycle, ReadLoop, WriteLoop, Call, Environment

(* The fields are never nil again once the first Connect has set them. *)
LEMMA WindowPreserved ==
  ASSUME LifeTypes, CallTypes, LoopsInv, WindowInv, [Next]_vars
  PROVE  WindowInv'
<1> USE RequestsAssumption DEF LifeTypes, CallTypes, LoopsInv, WindowInv, Connecting,
  Gens, fieldVars, lifeVars, writeVars, wireVars, mapVars, endVars, callVars
<1>1. ASSUME \/ UNCHANGED vars
             \/ \E g \in Gens : ReadEnds(g) \/ EventHandled(g) \/ HandleEvent(g) \/
               WriteTop(g) \/ WriteCancelled(g) \/ PeerGone(g) \/
               ConnectContextEnds(g)
             \/ \E g \in Gens, i \in 1 .. messageID, v \in {"ok", "refused"} :
               HandleResponse(g, i, v)
             \/ \E g \in Gens, r \in Requests : WriteSucceeds(g, r) \/ WriteFails(g,
               r) \/ Serve(g, r)
             \/ \E r \in Requests : OwnContextEnds(r)
     PROVE  WindowInv'
  <2>1. UNCHANGED <<started, fCtx, mapMade, locked, lpc, gen, pc>>
    BY <1>1 DEF ReadEnds, EventHandled, HandleEvent, WriteTop, WriteCancelled,
      WriteEnds, PeerGone, Closes, ConnectContextEnds, HandleResponse, WriteSucceeds,
      WriteFails, Serve, OwnContextEnds, vars
  <2> QED
    BY <2>1
<1>2. CASE BeginConnect
  BY <1>2 DEF BeginConnect, LifeStep
<1>3. CASE SetCtx
  BY <1>3 DEF SetCtx, LifeStep
<1>4. CASE SetChan
  BY <1>4 DEF SetChan, LifeStep
<1>5. CASE SetPend
  BY <1>5 DEF SetPend, LifeStep
<1>6. CASE DialFails
  BY <1>6 DEF DialFails, LifeStep
<1>7. CASE DialSucceeds
  BY <1>7 DEF DialSucceeds, LifeStep
<1>8. CASE SpawnLoops
  BY <1>8 DEF SpawnLoops, LifeStep
<1>9. CASE CloseConn
  BY <1>9 DEF CloseConn, LifeStep, Closes
<1>10. CASE CancelCtx
  BY <1>10 DEF CancelCtx, LifeStep
<1>11. CASE ResetState
  BY <1>11 DEF ResetState, LifeStep
<1>12. ASSUME NEW r \in Requests, RefuseCall(r) PROVE WindowInv'
  BY <1>12 DEF RefuseCall, EndsWith
<1>13. ASSUME NEW r \in Requests, Register(r) PROVE WindowInv'
  BY <1>13 DEF Register, CallStep
<1>14. ASSUME NEW r \in Requests, RegisterPanics(r) PROVE WindowInv'
  BY <1>14 DEF RegisterPanics, EndsWith
<1>15. ASSUME NEW r \in Requests, MarshalFails(r) PROVE WindowInv'
  BY <1>15 DEF MarshalFails, EndsWith, DropEntry
<1>16. ASSUME NEW r \in Requests, EnterSend(r) PROVE WindowInv'
  BY <1>16 DEF EnterSend, CallStep
<1>17. ASSUME NEW r \in Requests, Enqueue(r) PROVE WindowInv'
  BY <1>17 DEF Enqueue, CallStep, HasRoom
<1>18. ASSUME NEW r \in Requests, EnterWait(r) PROVE WindowInv'
  BY <1>18 DEF EnterWait, CallStep
<1>19. ASSUME NEW r \in Requests, TakeAnswer(r) PROVE WindowInv'
  BY <1>19 DEF TakeAnswer, EndsWith
<1>20. ASSUME NEW r \in Requests, GiveUp(r) PROVE WindowInv'
  BY <1>20 DEF GiveUp, EndsWith, DropEntry
<1>21. ASSUME NEW r \in Requests, NEW where \in {"none", "onConnect", "onEvent"},
  Ask(r, where) PROVE WindowInv'
  BY <1>21 DEF Ask, CallStep
<1>22. ASSUME NEW r \in Requests, NEW where \in {"none", "onConnect", "onEvent"},
  Publish(r, where) PROVE WindowInv'
  BY <1>22 DEF Publish, EndsWith, HasRoom
<1>23. ASSUME NEW r \in Requests, NEW where \in {"none", "onConnect", "onEvent"},
  PublishPanics(r, where) PROVE WindowInv'
  BY <1>23 DEF PublishPanics, EndsWith
<1> HIDE DEF LifeTypes, CallTypes, LoopsInv, WindowInv, Connecting, Gens, fieldVars,
  lifeVars, writeVars, wireVars, mapVars, endVars, callVars
<1> QED
  BY <1>1, <1>2, <1>3, <1>4, <1>5, <1>6, <1>7, <1>8, <1>9, <1>10, <1>11, <1>12,
    <1>13, <1>14, <1>15, <1>16, <1>17, <1>18, <1>19, <1>20, <1>21, <1>22, <1>23 DEF
    Next, LifeCycle, ReadLoop, WriteLoop, Call, Environment

(* The callback that waits holds the one readLoop that could answer it. *)
LEMMA CallbackPreserved ==
  ASSUME LifeTypes, WireTypes, CallTypes, LoopsInv, EntriesInv, CallbackInv,
    [Next]_vars
  PROVE  CallbackInv'
<1> USE RequestsAssumption DEF LifeTypes, WireTypes, CallTypes, LoopsInv,
  CallbackInv, Connecting, Alive, Busy, MayBegin, Requests, Gens, fieldVars,
  lifeVars, writeVars, wireVars, mapVars, endVars, callVars
<1>1. ASSUME \/ UNCHANGED vars
             \/ \E g \in Gens : WriteTop(g) \/ WriteCancelled(g) \/ PeerGone(g) \/
               ConnectContextEnds(g)
             \/ \E g \in Gens, r \in Requests : WriteSucceeds(g, r) \/ WriteFails(g,
               r) \/ Serve(g, r)
             \/ \E r \in Requests : OwnContextEnds(r)
     PROVE  CallbackInv'
  <2>1. UNCHANGED <<resp, result, pc, host, lpc, rpc>>
    BY <1>1 DEF WriteTop, WriteCancelled, WriteEnds, PeerGone, Closes,
      ConnectContextEnds, WriteSucceeds, WriteFails, Serve, OwnContextEnds, vars
  <2> QED
    BY <2>1
<1>2. CASE BeginConnect
  BY <1>2 DEF BeginConnect, LifeStep
<1>3. CASE SetCtx
  BY <1>3 DEF SetCtx, LifeStep
<1>4. CASE SetChan
  BY <1>4 DEF SetChan, LifeStep
<1>5. CASE SetPend
  BY <1>5 DEF SetPend, LifeStep
<1>6. CASE DialFails
  BY <1>6 DEF DialFails, LifeStep
<1>7. CASE DialSucceeds
  BY <1>7 DEF DialSucceeds, LifeStep
<1>8. CASE SpawnLoops
  BY <1>8 DEF SpawnLoops, LifeStep
<1>9. CASE CloseConn
  BY <1>9 DEF CloseConn, LifeStep, Closes
<1>10. CASE CancelCtx
  BY <1>10 DEF CancelCtx, LifeStep
<1>11. CASE ResetState
  BY <1>11 DEF ResetState, LifeStep
<1>12. ASSUME NEW g \in Gens, ReadEnds(g) PROVE CallbackInv'
  BY <1>12 DEF ReadEnds
<1>13. ASSUME NEW g \in Gens, EventHandled(g) PROVE CallbackInv'
  BY <1>13 DEF EventHandled
<1>14. ASSUME NEW g \in Gens, HandleEvent(g) PROVE CallbackInv'
  BY <1>14 DEF HandleEvent
<1>15. ASSUME NEW g \in Gens, NEW i \in 1 .. messageID, NEW v \in {"ok", "refused"},
  HandleResponse(g, i, v) PROVE CallbackInv'
  <2>1. rpc[g] = "top" /\ \A h \in Gens : rpc[h] # "onEvent"
    BY <1>15 DEF HandleResponse
  <2>2. ASSUME NEW s \in Inner PROVE <<i, s>> \notin pending
    BY <2>1 DEF EntriesInv, EntriesAreLive
  <2>3. \A s \in Inner : resp'[s] = "none"
    BY <1>15, <2>2 DEF HandleResponse
  <2> QED
    BY <1>15, <2>3 DEF HandleResponse
<1>16. ASSUME NEW r \in Requests, RefuseCall(r) PROVE CallbackInv'
  BY <1>16 DEF RefuseCall, EndsWith
<1>17. ASSUME NEW r \in Requests, Register(r) PROVE CallbackInv'
  BY <1>17 DEF Register, CallStep
<1>18. ASSUME NEW r \in Requests, RegisterPanics(r) PROVE CallbackInv'
  BY <1>18 DEF RegisterPanics, EndsWith
<1>19. ASSUME NEW r \in Requests, MarshalFails(r) PROVE CallbackInv'
  BY <1>19 DEF MarshalFails, EndsWith, DropEntry
<1>20. ASSUME NEW r \in Requests, EnterSend(r) PROVE CallbackInv'
  BY <1>20 DEF EnterSend, CallStep
<1>21. ASSUME NEW r \in Requests, Enqueue(r) PROVE CallbackInv'
  BY <1>21 DEF Enqueue, CallStep, HasRoom
<1>22. ASSUME NEW r \in Requests, EnterWait(r) PROVE CallbackInv'
  BY <1>22 DEF EnterWait, CallStep
<1>23. ASSUME NEW r \in Requests, TakeAnswer(r) PROVE CallbackInv'
  BY <1>23 DEF TakeAnswer, EndsWith
<1>24. ASSUME NEW r \in Requests, GiveUp(r) PROVE CallbackInv'
  BY <1>24 DEF GiveUp, EndsWith, DropEntry
<1>25. ASSUME NEW r \in Requests, NEW where \in {"none", "onConnect", "onEvent"},
  Ask(r, where) PROVE CallbackInv'
  BY <1>25 DEF Ask, CallStep
<1>26. ASSUME NEW r \in Requests, NEW where \in {"none", "onConnect", "onEvent"},
  Publish(r, where) PROVE CallbackInv'
  <2>1. \E o \in {"sent", "failed"} : EndsWith(r, o)
    BY <1>26 DEF Publish
  <2> QED
    BY <1>26, <2>1 DEF Publish, EndsWith
<1>27. ASSUME NEW r \in Requests, NEW where \in {"none", "onConnect", "onEvent"},
  PublishPanics(r, where) PROVE CallbackInv'
  BY <1>27 DEF PublishPanics, EndsWith
<1> HIDE DEF LifeTypes, WireTypes, CallTypes, LoopsInv, CallbackInv, Connecting,
  Alive, Busy, MayBegin, Requests, Gens, fieldVars, lifeVars, writeVars, wireVars,
  mapVars, endVars, callVars
<1> QED
  BY <1>1, <1>2, <1>3, <1>4, <1>5, <1>6, <1>7, <1>8, <1>9, <1>10, <1>11, <1>12,
    <1>13, <1>14, <1>15, <1>16, <1>17, <1>18, <1>19, <1>20, <1>21, <1>22, <1>23,
    <1>24, <1>25, <1>26, <1>27 DEF Next, LifeCycle, ReadLoop, WriteLoop, Call,
    Environment

(* Every call that asks gets an id that no call had before. *)
LEMMA IdsPreserved ==
  ASSUME WireTypes, CallTypes, IdsInv, [Next]_vars
  PROVE  IdsInv'
<1> USE RequestsAssumption DEF WireTypes, CallTypes, IdsInv, fieldVars, lifeVars,
  writeVars, wireVars, mapVars, endVars, callVars
<1>1. ASSUME \/ BeginConnect \/ SetCtx \/ SetChan \/ SetPend \/ DialFails \/
               DialSucceeds \/ SpawnLoops \/ CloseConn \/ CancelCtx \/ ResetState \/
               UNCHANGED vars
             \/ \E g \in Gens : ReadEnds(g) \/ EventHandled(g) \/ HandleEvent(g) \/
               WriteTop(g) \/ WriteCancelled(g) \/ PeerGone(g) \/
               ConnectContextEnds(g)
             \/ \E g \in Gens, i \in 1 .. messageID, v \in {"ok", "refused"} :
               HandleResponse(g, i, v)
             \/ \E g \in Gens, r \in Requests : WriteSucceeds(g, r) \/ WriteFails(g,
               r) \/ Serve(g, r)
             \/ \E r \in Requests : OwnContextEnds(r)
     PROVE  IdsInv'
  <2>1. UNCHANGED <<messageID, id, pc>>
    BY <1>1 DEF BeginConnect, LifeStep, SetCtx, SetChan, SetPend, DialFails,
      DialSucceeds, SpawnLoops, CloseConn, Closes, CancelCtx, ResetState, ReadEnds,
      EventHandled, HandleEvent, WriteTop, WriteCancelled, WriteEnds, PeerGone,
      ConnectContextEnds, HandleResponse, WriteSucceeds, WriteFails, Serve,
      OwnContextEnds, vars
  <2> QED
    BY <2>1
<1>2. ASSUME NEW r \in Requests, RefuseCall(r) PROVE IdsInv'
  BY <1>2 DEF RefuseCall, EndsWith
<1>3. ASSUME NEW r \in Requests, Register(r) PROVE IdsInv'
  BY <1>3 DEF Register, CallStep
<1>4. ASSUME NEW r \in Requests, RegisterPanics(r) PROVE IdsInv'
  BY <1>4 DEF RegisterPanics, EndsWith
<1>5. ASSUME NEW r \in Requests, MarshalFails(r) PROVE IdsInv'
  BY <1>5 DEF MarshalFails, EndsWith, DropEntry
<1>6. ASSUME NEW r \in Requests, EnterSend(r) PROVE IdsInv'
  BY <1>6 DEF EnterSend, CallStep
<1>7. ASSUME NEW r \in Requests, Enqueue(r) PROVE IdsInv'
  BY <1>7 DEF Enqueue, CallStep, HasRoom
<1>8. ASSUME NEW r \in Requests, EnterWait(r) PROVE IdsInv'
  BY <1>8 DEF EnterWait, CallStep
<1>9. ASSUME NEW r \in Requests, TakeAnswer(r) PROVE IdsInv'
  BY <1>9 DEF TakeAnswer, EndsWith
<1>10. ASSUME NEW r \in Requests, GiveUp(r) PROVE IdsInv'
  BY <1>10 DEF GiveUp, EndsWith, DropEntry
<1>11. ASSUME NEW r \in Requests, NEW where \in {"none", "onConnect", "onEvent"},
  Ask(r, where) PROVE IdsInv'
  BY <1>11 DEF Ask, CallStep
<1>12. ASSUME NEW r \in Requests, NEW where \in {"none", "onConnect", "onEvent"},
  Publish(r, where) PROVE IdsInv'
  BY <1>12 DEF Publish, EndsWith, HasRoom
<1>13. ASSUME NEW r \in Requests, NEW where \in {"none", "onConnect", "onEvent"},
  PublishPanics(r, where) PROVE IdsInv'
  BY <1>13 DEF PublishPanics, EndsWith
<1> HIDE DEF WireTypes, CallTypes, IdsInv, fieldVars, lifeVars, writeVars, wireVars,
  mapVars, endVars, callVars
<1> QED
  BY <1>1, <1>2, <1>3, <1>4, <1>5, <1>6, <1>7, <1>8, <1>9, <1>10, <1>11, <1>12, <1>13
    DEF Next, LifeCycle, ReadLoop, WriteLoop, Call, Environment

(* An entry leaves the map before its call returns, and with its answer. *)
LEMMA EntriesPreserved ==
  ASSUME WireTypes, CallTypes, IdsInv, EntriesInv, [Next]_vars
  PROVE  EntriesInv'
<1> USE DEF WireTypes, CallTypes, IdsInv, EntriesInv, EntriesAreLive, fieldVars,
  lifeVars, writeVars, wireVars, mapVars, endVars, callVars
<1>1. ASSUME \/ BeginConnect \/ SetCtx \/ SetChan \/ DialFails \/ DialSucceeds \/
               SpawnLoops \/ CloseConn \/ CancelCtx \/ ResetState \/ UNCHANGED vars
             \/ \E g \in Gens : ReadEnds(g) \/ EventHandled(g) \/ HandleEvent(g) \/
               WriteTop(g) \/ WriteCancelled(g) \/ PeerGone(g) \/
               ConnectContextEnds(g)
             \/ \E g \in Gens, r \in Requests : WriteSucceeds(g, r) \/ WriteFails(g,
               r) \/ Serve(g, r)
             \/ \E r \in Requests : OwnContextEnds(r)
     PROVE  EntriesInv'
  <2>1. UNCHANGED <<pending, id, pc, resp>>
    BY <1>1 DEF BeginConnect, LifeStep, SetCtx, SetChan, DialFails, DialSucceeds,
      SpawnLoops, CloseConn, Closes, CancelCtx, ResetState, ReadEnds, EventHandled,
      HandleEvent, WriteTop, WriteCancelled, WriteEnds, PeerGone, ConnectContextEnds,
      WriteSucceeds, WriteFails, Serve, OwnContextEnds, vars
  <2> QED
    BY <2>1
<1>2. CASE SetPend
  BY <1>2 DEF SetPend, LifeStep
<1>3. ASSUME NEW g \in Gens, NEW i \in 1 .. messageID, NEW v \in {"ok", "refused"},
  HandleResponse(g, i, v) PROVE EntriesInv'
  BY <1>3 DEF HandleResponse
<1>4. ASSUME NEW r \in Requests, RefuseCall(r) PROVE EntriesInv'
  BY <1>4 DEF RefuseCall, EndsWith
<1>5. ASSUME NEW r \in Requests, Register(r) PROVE EntriesInv'
  BY <1>5 DEF Register, CallStep
<1>6. ASSUME NEW r \in Requests, RegisterPanics(r) PROVE EntriesInv'
  BY <1>6 DEF RegisterPanics, EndsWith
<1>7. ASSUME NEW r \in Requests, MarshalFails(r) PROVE EntriesInv'
  BY <1>7 DEF MarshalFails, EndsWith, DropEntry
<1>8. ASSUME NEW r \in Requests, EnterSend(r) PROVE EntriesInv'
  BY <1>8 DEF EnterSend, CallStep
<1>9. ASSUME NEW r \in Requests, Enqueue(r) PROVE EntriesInv'
  BY <1>9 DEF Enqueue, CallStep, HasRoom
<1>10. ASSUME NEW r \in Requests, EnterWait(r) PROVE EntriesInv'
  BY <1>10 DEF EnterWait, CallStep
<1>11. ASSUME NEW r \in Requests, TakeAnswer(r) PROVE EntriesInv'
  BY <1>11 DEF TakeAnswer, EndsWith
<1>12. ASSUME NEW r \in Requests, GiveUp(r) PROVE EntriesInv'
  BY <1>12 DEF GiveUp, EndsWith, DropEntry
<1>13. ASSUME NEW r \in Requests, NEW where \in {"none", "onConnect", "onEvent"},
  Ask(r, where) PROVE EntriesInv'
  BY <1>13 DEF Ask, CallStep
<1>14. ASSUME NEW r \in Requests, NEW where \in {"none", "onConnect", "onEvent"},
  Publish(r, where) PROVE EntriesInv'
  BY <1>14 DEF Publish, EndsWith, HasRoom
<1>15. ASSUME NEW r \in Requests, NEW where \in {"none", "onConnect", "onEvent"},
  PublishPanics(r, where) PROVE EntriesInv'
  BY <1>15 DEF PublishPanics, EndsWith
<1> HIDE DEF WireTypes, CallTypes, IdsInv, EntriesInv, EntriesAreLive, fieldVars,
  lifeVars, writeVars, wireVars, mapVars, endVars, callVars
<1> QED
  BY <1>1, <1>2, <1>3, <1>4, <1>5, <1>6, <1>7, <1>8, <1>9, <1>10, <1>11, <1>12,
    <1>13, <1>14, <1>15 DEF Next, LifeCycle, ReadLoop, WriteLoop, Call, Environment

(* A message moves from one place to the next. *)
LEMMA PlacePreserved ==
  ASSUME LifeTypes, WireTypes, CallTypes, LoopsInv, PlaceInv, [Next]_vars
  PROVE  PlaceInv'
<1> USE DEF LifeTypes, WireTypes, CallTypes, LoopsInv, PlaceInv, Gens, fieldVars,
  lifeVars, writeVars, wireVars, mapVars, endVars, callVars
<1>1. ASSUME \/ BeginConnect \/ SetCtx \/ SetChan \/ SetPend \/ DialFails \/
               DialSucceeds \/ SpawnLoops \/ CancelCtx \/ ResetState \/ UNCHANGED
               vars
             \/ \E g \in Gens : ReadEnds(g) \/ EventHandled(g) \/ HandleEvent(g) \/
               WriteTop(g) \/ WriteCancelled(g) \/ ConnectContextEnds(g)
             \/ \E g \in Gens, i \in 1 .. messageID, v \in {"ok", "refused"} :
               HandleResponse(g, i, v)
             \/ \E r \in Requests : OwnContextEnds(r)
     PROVE  PlaceInv'
  <2>1. UNCHANGED <<chan, net, verdict, pc>>
    BY <1>1 DEF BeginConnect, LifeStep, SetCtx, SetChan, SetPend, DialFails,
      DialSucceeds, SpawnLoops, CancelCtx, ResetState, ReadEnds, EventHandled,
      HandleEvent, WriteTop, WriteCancelled, WriteEnds, ConnectContextEnds,
      HandleResponse, OwnContextEnds, vars
  <2> QED
    BY <2>1
<1>2. CASE CloseConn
  <2>1. UNCHANGED <<chan, verdict, pc>>
    BY <1>2 DEF CloseConn
  <2>2. \A h \in Gens : net'[h] \subseteq net[h]
    BY <1>2, CloseShrinks
  <2> QED
    BY <2>1, <2>2
<1>3. ASSUME NEW g \in Gens, PeerGone(g) PROVE PlaceInv'
  BY <1>3 DEF PeerGone, Closes
<1>4. ASSUME NEW g \in Gens, NEW r \in Requests, WriteSucceeds(g, r) PROVE PlaceInv'
  <2>1. PICK c \in Gens : c = wChan[g]
    BY <1>4 DEF WriteSucceeds
  <2>2. r \in chan[c] /\ UNCHANGED <<verdict, pc>>
    BY <1>4, <2>1 DEF WriteSucceeds
  <2>3. ASSUME NEW h \in Gens PROVE r \notin net[h] /\ (r \in chan[h] => h = c)
    BY <2>2
  <2>4. chan' = [chan EXCEPT ![c] = @ \ {r}] /\ net' = [net EXCEPT ![g] = @ \cup {r}]
    BY <1>4, <2>1 DEF WriteSucceeds
  <2>5. \A h \in Gens : /\ chan'[h] = chan[h] \ {r}
                        /\ net'[h] = IF h = g THEN net[h] \cup {r} ELSE net[h]
    <3>1. ASSUME NEW h \in Gens PROVE chan'[h] = chan[h] \ {r}
      BY <2>3, <2>4
    <3>2. ASSUME NEW h \in Gens PROVE net'[h] = IF h = g THEN net[h] \cup {r} ELSE net[h]
      BY <2>4
    <3> QED
      BY <3>1, <3>2
  <2>6. verdict[r] = "none" /\ pc[r] \notin {"idle", "register", "send", "sending"}
    BY <2>2
  <2>7. ASSUME NEW s \in Requests, NEW h \in Gens
        PROVE  /\ s # r => (s \in chan'[h] <=> s \in chan[h]) /\ (s \in net'[h] <=> s \in net[h])
               /\ r \notin chan'[h] /\ (r \in net'[h] <=> h = g)
    <3>1. r \notin net[h]
      BY <2>3
    <3> HIDE DEF PlaceInv, LoopsInv, LifeTypes, CallTypes
    <3> QED
      BY <2>5, <3>1
  <2> DEFINE Once(s) ==
        /\ \A e, h \in Gens : s \in chan[e] \cup net[e] /\ s \in chan[h] \cup net[h] => e = h
        /\ \A h \in Gens : s \in chan[h] => s \notin net[h]
        /\ \A h \in Gens : s \in chan[h] \cup net[h] =>
             verdict[s] = "none" /\ pc[s] \notin {"idle", "register", "send", "sending"}
        /\ pc[s] \in {"idle", "register", "send", "sending"} => verdict[s] = "none"
  <2>8. \A s \in Requests : Once(s)
    OBVIOUS
  <2> HIDE DEF PlaceInv, LoopsInv, LifeTypes, WireTypes, CallTypes, Gens
  <2>9. ASSUME NEW s \in Requests, s # r PROVE Once(s)'
    <3>1. \A h \in Gens : (s \in chan'[h] <=> s \in chan[h]) /\ (s \in net'[h] <=> s \in net[h])
      BY <2>7, <2>9
    <3> QED
      BY <2>2, <2>8, <3>1
  <2>10. Once(r)'
    <3>1. \A h \in Gens : r \notin chan'[h] /\ (r \in net'[h] <=> h = g)
      BY <2>7
    <3> QED
      BY <2>2, <2>6, <3>1
  <2> QED
    BY <2>9, <2>10 DEF PlaceInv
<1>5. ASSUME NEW g \in Gens, NEW r \in Requests, WriteFails(g, r) PROVE PlaceInv'
  <2>1. UNCHANGED <<verdict, pc>> /\ \A h \in Gens : chan'[h] \subseteq chan[h] /\ net'[h] \subseteq net[h]
    BY <1>5 DEF WriteFails
  <2> QED
    BY <2>1
<1>6. ASSUME NEW g \in Gens, NEW r \in Requests, Serve(g, r) PROVE PlaceInv'
  BY <1>6 DEF Serve
<1>7. ASSUME NEW r \in Requests, RefuseCall(r) PROVE PlaceInv'
  BY <1>7 DEF RefuseCall, EndsWith
<1>8. ASSUME NEW r \in Requests, Register(r) PROVE PlaceInv'
  BY <1>8 DEF Register, CallStep
<1>9. ASSUME NEW r \in Requests, RegisterPanics(r) PROVE PlaceInv'
  BY <1>9 DEF RegisterPanics, EndsWith
<1>10. ASSUME NEW r \in Requests, MarshalFails(r) PROVE PlaceInv'
  BY <1>10 DEF MarshalFails, EndsWith, DropEntry
<1>11. ASSUME NEW r \in Requests, EnterSend(r) PROVE PlaceInv'
  BY <1>11 DEF EnterSend, CallStep
<1>12. ASSUME NEW r \in Requests, Enqueue(r) PROVE PlaceInv'
  BY <1>12 DEF Enqueue, CallStep, HasRoom
<1>13. ASSUME NEW r \in Requests, EnterWait(r) PROVE PlaceInv'
  BY <1>13 DEF EnterWait, CallStep
<1>14. ASSUME NEW r \in Requests, TakeAnswer(r) PROVE PlaceInv'
  BY <1>14 DEF TakeAnswer, EndsWith
<1>15. ASSUME NEW r \in Requests, GiveUp(r) PROVE PlaceInv'
  BY <1>15 DEF GiveUp, EndsWith, DropEntry
<1>16. ASSUME NEW r \in Requests, NEW where \in {"none", "onConnect", "onEvent"},
  Ask(r, where) PROVE PlaceInv'
  BY <1>16 DEF Ask, CallStep
<1>17. ASSUME NEW r \in Requests, NEW where \in {"none", "onConnect", "onEvent"},
  Publish(r, where) PROVE PlaceInv'
  <2>1. UNCHANGED <<verdict, net>> /\ pc[r] = "idle" /\ pc' = [pc EXCEPT ![r] = "done"]
    BY <1>17 DEF Publish, EndsWith
  <2>2. CASE chan' = [chan EXCEPT ![fChan] = @ \cup {r}]
    BY <2>1, <2>2
  <2>3. CASE UNCHANGED chan
    BY <2>1, <2>3
  <2> QED
    BY <1>17, <2>2, <2>3 DEF Publish
<1>18. ASSUME NEW r \in Requests, NEW where \in {"none", "onConnect", "onEvent"},
  PublishPanics(r, where) PROVE PlaceInv'
  BY <1>18 DEF PublishPanics, EndsWith
<1> HIDE DEF LifeTypes, WireTypes, CallTypes, LoopsInv, PlaceInv, Gens, fieldVars,
  lifeVars, writeVars, wireVars, mapVars, endVars, callVars
<1> QED
  BY <1>1, <1>2, <1>3, <1>4, <1>5, <1>6, <1>7, <1>8, <1>9, <1>10, <1>11, <1>12,
    <1>13, <1>14, <1>15, <1>16, <1>17, <1>18 DEF Next, LifeCycle, ReadLoop,
    WriteLoop, Call, Environment

(* An answer is given, carried and delivered for one call. *)
LEMMA AnswersPreserved ==
  ASSUME WireTypes, CallTypes, IdsInv, EntriesInv, PlaceInv, AnswersInv, [Next]_vars
  PROVE  AnswersInv'
<1> USE DEF WireTypes, CallTypes, IdsInv, EntriesInv, PlaceInv, AnswersInv, Gens,
  fieldVars, lifeVars, writeVars, wireVars, mapVars, endVars, callVars
<1>1. ASSUME \/ BeginConnect \/ SetCtx \/ SetChan \/ SetPend \/ DialFails \/
               DialSucceeds \/ SpawnLoops \/ CancelCtx \/ ResetState \/ UNCHANGED
               vars
             \/ \E g \in Gens : ReadEnds(g) \/ EventHandled(g) \/ HandleEvent(g) \/
               WriteTop(g) \/ WriteCancelled(g) \/ ConnectContextEnds(g)
             \/ \E g \in Gens, r \in Requests : WriteSucceeds(g, r) \/ WriteFails(g,
               r)
             \/ \E r \in Requests : OwnContextEnds(r)
     PROVE  AnswersInv'
  <2>1. UNCHANGED <<answers, id, verdict, resp, pc, result>>
    BY <1>1 DEF BeginConnect, LifeStep, SetCtx, SetChan, SetPend, DialFails,
      DialSucceeds, SpawnLoops, CancelCtx, ResetState, ReadEnds, EventHandled,
      HandleEvent, WriteTop, WriteCancelled, WriteEnds, ConnectContextEnds,
      WriteSucceeds, WriteFails, OwnContextEnds, vars
  <2> QED
    BY <2>1
<1>2. CASE CloseConn
  <2>1. UNCHANGED <<id, verdict, resp, pc, result>>
    BY <1>2 DEF CloseConn
  <2>2. \A h \in Gens : answers'[h] \subseteq answers[h]
    BY <1>2, CloseShrinks
  <2> QED
    BY <2>1, <2>2
<1>3. ASSUME NEW g \in Gens, PeerGone(g) PROVE AnswersInv'
  BY <1>3 DEF PeerGone, Closes
<1>4. ASSUME NEW g \in Gens, NEW i \in 1 .. messageID, NEW v \in {"ok", "refused"},
  HandleResponse(g, i, v) PROVE AnswersInv'
  BY <1>4 DEF HandleResponse
<1>5. ASSUME NEW g \in Gens, NEW r \in Requests, Serve(g, r) PROVE AnswersInv'
  <2>1. PICK w \in {"ok", "refused"} :
          /\ verdict' = [verdict EXCEPT ![r] = w]
          /\ answers' = IF id[r] = 0 THEN answers
                        ELSE [answers EXCEPT ![g] = @ \cup {<<id[r], w>>}]
    BY <1>5 DEF Serve
  <2>2. verdict[r] = "none" /\ UNCHANGED <<id, resp, pc, result>>
    BY <1>5 DEF Serve
  <2>3. ASSUME NEW h \in Gens, NEW m \in answers'[h]
        PROVE  m[1] # 0 /\ \E s \in Requests : id[s] = m[1] /\ verdict'[s] = m[2]
    <3>1. CASE m \in answers[h]
      <4>1. PICK s \in Requests : id[s] = m[1] /\ verdict[s] = m[2]
        BY <3>1
      <4>2. m[2] # "none"
        <5>1. m \in Nat \X {"ok", "refused"}
          BY <3>1
        <5> QED
          BY <5>1
      <4> QED
        BY <2>1, <2>2, <3>1, <4>1, <4>2
    <3>2. CASE m \notin answers[h]
      <4>1. id[r] # 0 /\ m = <<id[r], w>>
        BY <2>1, <2>3, <3>2
      <4> QED
        BY <2>1, <4>1
    <3> QED
      BY <3>1, <3>2
  <2>4. \A s \in Requests : resp'[s] # "none" => resp'[s] = verdict'[s]
    BY <2>1, <2>2
  <2> QED
    BY <2>2, <2>3, <2>4
<1>6. ASSUME NEW r \in Requests, RefuseCall(r) PROVE AnswersInv'
  BY <1>6 DEF RefuseCall, EndsWith
<1>7. ASSUME NEW r \in Requests, Register(r) PROVE AnswersInv'
  BY <1>7 DEF Register, CallStep
<1>8. ASSUME NEW r \in Requests, RegisterPanics(r) PROVE AnswersInv'
  BY <1>8 DEF RegisterPanics, EndsWith
<1>9. ASSUME NEW r \in Requests, MarshalFails(r) PROVE AnswersInv'
  BY <1>9 DEF MarshalFails, EndsWith, DropEntry
<1>10. ASSUME NEW r \in Requests, EnterSend(r) PROVE AnswersInv'
  BY <1>10 DEF EnterSend, CallStep
<1>11. ASSUME NEW r \in Requests, Enqueue(r) PROVE AnswersInv'
  BY <1>11 DEF Enqueue, CallStep, HasRoom
<1>12. ASSUME NEW r \in Requests, EnterWait(r) PROVE AnswersInv'
  BY <1>12 DEF EnterWait, CallStep
<1>13. ASSUME NEW r \in Requests, TakeAnswer(r) PROVE AnswersInv'
  BY <1>13 DEF TakeAnswer, EndsWith
<1>14. ASSUME NEW r \in Requests, GiveUp(r) PROVE AnswersInv'
  BY <1>14 DEF GiveUp, EndsWith, DropEntry
<1>15. ASSUME NEW r \in Requests, NEW where \in {"none", "onConnect", "onEvent"},
  Ask(r, where) PROVE AnswersInv'
  BY <1>15 DEF Ask, CallStep
<1>16. ASSUME NEW r \in Requests, NEW where \in {"none", "onConnect", "onEvent"},
  Publish(r, where) PROVE AnswersInv'
  <2>1. \E o \in {"sent", "failed"} : EndsWith(r, o)
    BY <1>16 DEF Publish
  <2>2. UNCHANGED <<answers, id, verdict, resp>>
    BY <1>16, <2>1 DEF Publish, EndsWith
  <2> QED
    BY <2>1, <2>2 DEF EndsWith
<1>17. ASSUME NEW r \in Requests, NEW where \in {"none", "onConnect", "onEvent"},
  PublishPanics(r, where) PROVE AnswersInv'
  BY <1>17 DEF PublishPanics, EndsWith
<1> HIDE DEF WireTypes, CallTypes, IdsInv, EntriesInv, PlaceInv, AnswersInv, Gens,
  fieldVars, lifeVars, writeVars, wireVars, mapVars, endVars, callVars
<1> QED
  BY <1>1, <1>2, <1>3, <1>4, <1>5, <1>6, <1>7, <1>8, <1>9, <1>10, <1>11, <1>12,
    <1>13, <1>14, <1>15, <1>16, <1>17 DEF Next, LifeCycle, ReadLoop, WriteLoop, Call,
    Environment

(* A step ends one call, or serves one, or is none of VwsCall. *)
LEMMA CallStepImplemented ==
  ASSUME WireTypes, CallTypes, PlaceInv, AnswersInv, [Next]_vars
  PROVE  [Calls!Next]_(Calls!vars)
<1> USE DEF WireTypes, CallTypes, Gens, PlaceInv, AnswersInv, Calls!vars, fieldVars,
  lifeVars, writeVars, wireVars, mapVars, endVars, callVars
<1>1. ASSUME \/ BeginConnect \/ SetCtx \/ SetChan \/ SetPend \/ DialFails \/
               DialSucceeds \/ SpawnLoops \/ CloseConn \/ CancelCtx \/ ResetState \/
               UNCHANGED vars
             \/ \E g \in Gens : ReadEnds(g) \/ EventHandled(g) \/ HandleEvent(g) \/
               WriteTop(g) \/ WriteCancelled(g) \/ PeerGone(g) \/
               ConnectContextEnds(g)
             \/ \E g \in Gens, i \in 1 .. messageID, v \in {"ok", "refused"} :
               HandleResponse(g, i, v)
             \/ \E g \in Gens, r \in Requests : WriteSucceeds(g, r) \/ WriteFails(g,
               r)
             \/ \E r \in Requests : OwnContextEnds(r) \/ Register(r) \/ EnterSend(r)
               \/ Enqueue(r) \/ EnterWait(r)
             \/ \E r \in Requests, where \in {"none", "onConnect", "onEvent"} :
               Ask(r, where)
     PROVE  [Calls!Next]_(Calls!vars)
  <2>1. UNCHANGED <<result, verdict>>
    BY <1>1 DEF BeginConnect, LifeStep, SetCtx, SetChan, SetPend, DialFails,
      DialSucceeds, SpawnLoops, CloseConn, Closes, CancelCtx, ResetState, ReadEnds,
      EventHandled, HandleEvent, WriteTop, WriteCancelled, WriteEnds, PeerGone,
      ConnectContextEnds, HandleResponse, WriteSucceeds, WriteFails, OwnContextEnds,
      Register, CallStep, EnterSend, Enqueue, HasRoom, EnterWait, Ask, vars
  <2> QED
    BY <2>1
<1>2. ASSUME NEW r \in Requests, RefuseCall(r) PROVE [Calls!Next]_(Calls!vars)
  <2>1. result[r] = "none" /\ UNCHANGED verdict
    BY <1>2 DEF RefuseCall, EndsWith
  <2>2. \E o \in {"sent", "failed", "panicked", verdict[r]} \ {"none"} :
          result' = [result EXCEPT ![r] = o]
    BY <1>2 DEF RefuseCall, EndsWith
  <2> QED
    BY <2>1, <2>2 DEF Calls!End, Calls!Next
<1>3. ASSUME NEW r \in Requests, RegisterPanics(r) PROVE [Calls!Next]_(Calls!vars)
  <2>1. result[r] = "none" /\ UNCHANGED verdict
    BY <1>3 DEF RegisterPanics, EndsWith
  <2>2. \E o \in {"sent", "failed", "panicked", verdict[r]} \ {"none"} :
          result' = [result EXCEPT ![r] = o]
    BY <1>3 DEF RegisterPanics, EndsWith
  <2> QED
    BY <2>1, <2>2 DEF Calls!End, Calls!Next
<1>4. ASSUME NEW r \in Requests, MarshalFails(r) PROVE [Calls!Next]_(Calls!vars)
  <2>1. result[r] = "none" /\ UNCHANGED verdict
    BY <1>4 DEF MarshalFails, EndsWith
  <2>2. \E o \in {"sent", "failed", "panicked", verdict[r]} \ {"none"} :
          result' = [result EXCEPT ![r] = o]
    BY <1>4 DEF MarshalFails, EndsWith
  <2> QED
    BY <2>1, <2>2 DEF Calls!End, Calls!Next
<1>5. ASSUME NEW r \in Requests, TakeAnswer(r) PROVE [Calls!Next]_(Calls!vars)
  <2>1. result[r] = "none" /\ UNCHANGED verdict
    BY <1>5 DEF TakeAnswer, EndsWith
  <2>2. \E o \in {"sent", "failed", "panicked", verdict[r]} \ {"none"} :
          result' = [result EXCEPT ![r] = o]
    BY <1>5 DEF TakeAnswer, EndsWith
  <2> QED
    BY <2>1, <2>2 DEF Calls!End, Calls!Next
<1>6. ASSUME NEW r \in Requests, GiveUp(r) PROVE [Calls!Next]_(Calls!vars)
  <2>1. result[r] = "none" /\ UNCHANGED verdict
    BY <1>6 DEF GiveUp, EndsWith
  <2>2. \E o \in {"sent", "failed", "panicked", verdict[r]} \ {"none"} :
          result' = [result EXCEPT ![r] = o]
    BY <1>6 DEF GiveUp, EndsWith
  <2> QED
    BY <2>1, <2>2 DEF Calls!End, Calls!Next
<1>7. ASSUME NEW r \in Requests, NEW where \in {"none", "onConnect", "onEvent"},
  Publish(r, where) PROVE [Calls!Next]_(Calls!vars)
  <2>1. result[r] = "none" /\ UNCHANGED verdict
    BY <1>7 DEF Publish, EndsWith
  <2>2. \E o \in {"sent", "failed", "panicked", verdict[r]} \ {"none"} :
          result' = [result EXCEPT ![r] = o]
    BY <1>7 DEF Publish, EndsWith
  <2> QED
    BY <2>1, <2>2 DEF Calls!End, Calls!Next
<1>8. ASSUME NEW r \in Requests, NEW where \in {"none", "onConnect", "onEvent"},
  PublishPanics(r, where) PROVE [Calls!Next]_(Calls!vars)
  <2>1. result[r] = "none" /\ UNCHANGED verdict
    BY <1>8 DEF PublishPanics, EndsWith
  <2>2. \E o \in {"sent", "failed", "panicked", verdict[r]} \ {"none"} :
          result' = [result EXCEPT ![r] = o]
    BY <1>8 DEF PublishPanics, EndsWith
  <2> QED
    BY <2>1, <2>2 DEF Calls!End, Calls!Next
<1>9. ASSUME NEW g \in Gens, NEW r \in Requests, Serve(g, r) PROVE
  [Calls!Next]_(Calls!vars)
  <2>1. verdict[r] = "none" /\ UNCHANGED result
    BY <1>9 DEF Serve
  <2>2. \E w \in {"ok", "refused"} : verdict' = [verdict EXCEPT ![r] = w]
    BY <1>9 DEF Serve
  <2> QED
    BY <2>1, <2>2 DEF Calls!Decide, Calls!Next
<1> HIDE DEF WireTypes, CallTypes, Gens, PlaceInv, AnswersInv, Calls!vars, fieldVars,
  lifeVars, writeVars, wireVars, mapVars, endVars, callVars
<1> QED
  BY <1>1, <1>2, <1>3, <1>4, <1>5, <1>6, <1>7, <1>8, <1>9 DEF Next, LifeCycle,
    ReadLoop, WriteLoop, Call, Environment

(* A call that panics has met a field that is nil. *)
LEMMA PanicStep ==
  ASSUME WireTypes, CallTypes, WindowInv, [Next]_vars
  PROVE  PanicGuard
<1> USE DEF WireTypes, CallTypes, WindowInv, PanicGuard, Connecting, Gens, fieldVars,
  lifeVars, writeVars, wireVars, mapVars, endVars, callVars
<1>1. ASSUME \/ BeginConnect \/ SetCtx \/ SetChan \/ SetPend \/ DialFails \/
               DialSucceeds \/ SpawnLoops \/ CloseConn \/ CancelCtx \/ ResetState \/
               UNCHANGED vars
             \/ \E g \in Gens : ReadEnds(g) \/ EventHandled(g) \/ HandleEvent(g) \/
               WriteTop(g) \/ WriteCancelled(g) \/ PeerGone(g) \/
               ConnectContextEnds(g)
             \/ \E g \in Gens, i \in 1 .. messageID, v \in {"ok", "refused"} :
               HandleResponse(g, i, v)
             \/ \E g \in Gens, r \in Requests : WriteSucceeds(g, r) \/ WriteFails(g,
               r) \/ Serve(g, r)
             \/ \E r \in Requests : OwnContextEnds(r) \/ Register(r) \/ EnterSend(r)
               \/ Enqueue(r) \/ EnterWait(r)
             \/ \E r \in Requests, where \in {"none", "onConnect", "onEvent"} :
               Ask(r, where)
     PROVE  PanicGuard
  <2>1. UNCHANGED result
    BY <1>1 DEF BeginConnect, LifeStep, SetCtx, SetChan, SetPend, DialFails,
      DialSucceeds, SpawnLoops, CloseConn, Closes, CancelCtx, ResetState, ReadEnds,
      EventHandled, HandleEvent, WriteTop, WriteCancelled, WriteEnds, PeerGone,
      ConnectContextEnds, HandleResponse, WriteSucceeds, WriteFails, Serve,
      OwnContextEnds, Register, CallStep, EnterSend, Enqueue, HasRoom, EnterWait,
      Ask, vars
  <2> QED
    BY <2>1
<1>2. ASSUME NEW r \in Requests, RefuseCall(r) PROVE PanicGuard
  BY <1>2 DEF RefuseCall, EndsWith
<1>3. ASSUME NEW r \in Requests, RegisterPanics(r) PROVE PanicGuard
  BY <1>3 DEF RegisterPanics, EndsWith
<1>4. ASSUME NEW r \in Requests, MarshalFails(r) PROVE PanicGuard
  BY <1>4 DEF MarshalFails, EndsWith, DropEntry
<1>5. ASSUME NEW r \in Requests, TakeAnswer(r) PROVE PanicGuard
  BY <1>5 DEF TakeAnswer, EndsWith
<1>6. ASSUME NEW r \in Requests, GiveUp(r) PROVE PanicGuard
  BY <1>6 DEF GiveUp, EndsWith, DropEntry
<1>7. ASSUME NEW r \in Requests, NEW where \in {"none", "onConnect", "onEvent"},
  Publish(r, where) PROVE PanicGuard
  BY <1>7 DEF Publish, EndsWith, HasRoom
<1>8. ASSUME NEW r \in Requests, NEW where \in {"none", "onConnect", "onEvent"},
  PublishPanics(r, where) PROVE PanicGuard
  BY <1>8 DEF PublishPanics, EndsWith
<1> HIDE DEF WireTypes, CallTypes, WindowInv, PanicGuard, Connecting, Gens,
  fieldVars, lifeVars, writeVars, wireVars, mapVars, endVars, callVars
<1> QED
  BY <1>1, <1>2, <1>3, <1>4, <1>5, <1>6, <1>7, <1>8 DEF Next, LifeCycle, ReadLoop,
    WriteLoop, Call, Environment


-----------------------------------------------------------------------------
LEMMA Invariance == Spec => []IInv
<1>1. Init => IInv
  <2>1. Init => TypeOK /\ ChanInv
    <3> SUFFICES ASSUME Init PROVE TypeOK /\ ChanInv
      OBVIOUS
    <3>1. LifeTypes
      <4>1. 0 \in 0 .. MaxGen
        BY RequestsAssumption
      <4>2. mapMade \in BOOLEAN
        BY DEF Init
      <4>3. /\ wCtx \in [Gens -> 0 .. MaxGen] /\ wChan \in [Gens -> 0 .. MaxGen]
            /\ {fCtx, fChan, gen} \subseteq 0 .. MaxGen
        BY <4>1 DEF Init
      <4> QED
        BY <4>2, <4>3 DEF Init, LifeTypes
    <3>2. WireTypes /\ CallTypes
      BY RequestsAssumption DEF Init, WireTypes, CallTypes, Results
    <3>3. ChanInv
      BY RequestsAssumption, FS_EmptySet DEF Init, ChanInv
    <3> QED
      BY <3>1, <3>2, <3>3 DEF TypeOK, ChanInv
  <2>2. Init => /\ LoopsInv /\ WindowInv /\ CallbackInv
                /\ IdsInv /\ EntriesInv /\ PlaceInv /\ AnswersInv
    BY DEF Init, LoopsInv, WindowInv, CallbackInv, IdsInv, EntriesInv, EntriesAreLive,
      PlaceInv, AnswersInv, Connecting, Alive, Requests
  <2> QED
    BY <2>1, <2>2 DEF IInv
<1>2. IInv /\ [Next]_vars => IInv'
  BY LoopsPreserved, ChanPreserved, LifeTypesPreserved, WireTypesPreserved,
    CallTypesPreserved, WindowPreserved, CallbackPreserved, IdsPreserved, EntriesPreserved,
    PlacePreserved, AnswersPreserved DEF IInv, TypeOK, ChanInv
<1> QED
  BY <1>1, <1>2, PTL DEF Spec

(* The variables keep their types, and the write channels their capacity.  *)
THEOREM TypeCorrect == Spec => []TypeOK
BY Invariance, PTL DEF IInv

(* The map in use holds entries of calls that still wait, and no entry of  *)
(* a call that has its answer.                                             *)
THEOREM LiveEntries == Spec => []EntriesAreLive
BY Invariance, PTL DEF IInv, EntriesInv

(* No call made in a callback is ever answered.                            *)
THEOREM NoAnswerInCallback == Spec => []CallbacksGetNoAnswer
<1>1. IInv => CallbacksGetNoAnswer
  BY DEF IInv, CallbackInv, CallbacksGetNoAnswer
<1> QED
  BY <1>1, Invariance, PTL

(* For any callers, channel and number of connects, a call that is         *)
(* answered is answered with what the server decided on it.                *)
THEOREM CallsImplemented == Spec => ImplementsCalls
<1>1. Init => Calls!Init
  BY DEF Init, Calls!Init
<1>2. IInv /\ [Next]_vars => [Calls!Next]_(Calls!vars)
  BY CallStepImplemented DEF IInv, TypeOK
<1> QED
  BY <1>1, <1>2, Invariance, PTL DEF Spec, ImplementsCalls, Calls!Spec

(* Whatever reconnects happen, a call panics in the first Connect only.    *)
THEOREM PanicWindow == Spec => PanicsOnlyInFirstConnect
<1>1. IInv /\ [Next]_vars =>
        [\A r \in Requests : result'[r] = "panicked" /\ result[r] # "panicked" =>
           gen = 1 /\ lpc \in {"setCtx", "setChan", "setPend"}]_vars
  BY PanicStep DEF IInv, TypeOK, PanicGuard
<1> QED
  BY <1>1, Invariance, PTL DEF Spec, PanicsOnlyInFirstConnect
=============================================================================
