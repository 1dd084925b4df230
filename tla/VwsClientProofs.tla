-------------------------- MODULE VwsClientProofs --------------------------
(***************************************************************************)
(* Theorems about VwsClient for any callers and any number of Connects.    *)
(*                                                                         *)
(* The flag stopping is a lock on the cleanup.  The only step that takes   *)
(* it is a compare-and-swap from 0, made by Disconnect or by a failing     *)
(* loop, and the only step that frees it is made by its holder.            *)
(*                                                                         *)
(* As long as no Connect meets the leftovers of an older connection        *)
(* (~overlap), one connection is alive at a time: a cleanup waits for the  *)
(* channel which the one running readLoop will close.  That is what the    *)
(* ends of cleanups rest on; with overlap none of it holds.                *)
(*                                                                         *)
(* That cleanups and failures come to an end is proved from the fairness   *)
(* and from CleanupUnblocked, a state predicate with ENABLED, which stays  *)
(* a hypothesis.  NoWaitInVain is the part of it that needs no ENABLED,    *)
(* proved for every execution.                                             *)
(***************************************************************************)
EXTENDS VwsClient, TLAPS

(* What the cleanup lock is about.                                         *)
CleanupTypeOK ==
  /\ stopping \in {0, 1}
  /\ kpc \in [Cleaners -> CleanPC]

LockInv == CleanupTypeOK /\ CleanupOwnership

lockVars == <<stopping, kpc>>

(* The steps that have nothing to do with the lock. *)
LEMMA LockUntouched ==
  ASSUME \/ \E p \in Callers : Connect(p) \/ BeginConnect(p)
         \/ \E g \in Gens : ReadLoop(g) /\ ~ReadNotify(g)
         \/ \E g \in Gens : WriteLoop(g) /\ ~WriteNotify(g)
         \/ \E g \in Gens : SocketEnds(g) \/ CallerCancels(g) \/ ReadMessage(g) \/ WriteTakes(g)
         \/ UNCHANGED vars
  PROVE  UNCHANGED lockVars
<1>1. ASSUME NEW p \in Callers, Connect(p) \/ BeginConnect(p)
      PROVE  UNCHANGED lockVars
  BY <1>1 DEF Connect, BeginConnect, SetCtx, SetDone, SetupFails, Setup, DialFails,
     DialSucceeds, SetConn, SpawnLoops, cleanVars, lockVars, sharedVars, flagVars
<1>2. ASSUME NEW g \in Gens, ReadLoop(g), ~ReadNotify(g)
      PROVE  UNCHANGED lockVars
  BY <1>2 DEF ReadLoop, ReadDefer, ReadGetConn, ReadTop, ReadSeesClose, ReadFails, ReadJudge,
     ReadCloseDone, cleanVars, lockVars, sharedVars, flagVars
<1>3. ASSUME NEW g \in Gens, WriteLoop(g), ~WriteNotify(g)
      PROVE  UNCHANGED lockVars
  BY <1>3 DEF WriteLoop, WriteGetConn, WriteTop, WriteCancelled, WriteSucceeds,
     WriteSeesClose, WriteFails, WriteJudge, cleanVars, lockVars, sharedVars, flagVars
<1>4. ASSUME NEW g \in Gens,
             SocketEnds(g) \/ CallerCancels(g) \/ ReadMessage(g) \/ WriteTakes(g)
      PROVE  UNCHANGED lockVars
  BY <1>4 DEF SocketEnds, CallerCancels, ReadMessage, WriteTakes, cleanVars, lockVars,
     sharedVars, flagVars
<1>5. ASSUME UNCHANGED vars PROVE UNCHANGED lockVars
  BY <1>5 DEF vars, cleanVars, lockVars, sharedVars, flagVars
<1> QED
  BY <1>1, <1>2, <1>3, <1>4, <1>5

(* A goroutine that wins the compare-and-swap becomes the one holder. *)
LEMMA LockTaken ==
  ASSUME LockInv, NEW t \in Cleaners, stopping = 0, stopping' = 1,
         kpc' = [kpc EXCEPT ![t] = "close"]
  PROVE  LockInv'
<1>1. \A u \in Cleaners : ~Stopping(u)
  BY DEF LockInv, CleanupOwnership
<1>2. \A u \in Cleaners : Stopping(u)' <=> u = t
  BY <1>1 DEF Stopping, LockInv, CleanupTypeOK
<1>3. CleanupTypeOK'
  BY DEF LockInv, CleanupTypeOK, CleanPC
<1> QED
  BY <1>2, <1>3 DEF LockInv, CleanupOwnership

(* A goroutine that moves within the cleanup, or after it, keeps the lock  *)
(* as it is.                                                               *)
LEMMA LockKept ==
  ASSUME LockInv, NEW t \in Cleaners, stopping' = stopping, NEW to \in CleanPC,
         kpc' = [kpc EXCEPT ![t] = to],
         Stopping(t) <=> to \notin {"none", "notify"}
  PROVE  LockInv'
<1>1. \A u \in Cleaners : Stopping(u)' <=> Stopping(u)
  BY DEF Stopping, LockInv, CleanupTypeOK, CleanPC
<1>2. CleanupTypeOK'
  BY DEF LockInv, CleanupTypeOK
<1> QED
  BY <1>1, <1>2 DEF LockInv, CleanupOwnership

(* The steps of a cleanup. *)
LEMMA CleanupKeepsLock ==
  ASSUME LockInv, NEW t \in Cleaners, Cleanup(t)
  PROVE  LockInv'
<1>1. CASE CloseConn(t)
  BY <1>1, LockKept DEF CloseConn, CleanStep, Stopping, CleanPC, sharedVars, flagVars
<1>2. CASE CancelCtx(t)
  BY <1>2, LockKept DEF CancelCtx, CleanStep, Stopping, CleanPC, sharedVars, flagVars
<1>3. CASE LoadDone(t)
  <2>1. CASE fDone = 0
    BY <1>3, <2>1, LockKept DEF LoadDone, CleanStep, Stopping, CleanPC, sharedVars, flagVars
  <2>2. CASE fDone # 0
    BY <1>3, <2>2, LockKept DEF LoadDone, CleanStep, Stopping, CleanPC, sharedVars, flagVars
  <2> QED
    BY <2>1, <2>2
<1>4. CASE WaitDone(t)
  BY <1>4, LockKept DEF WaitDone, CleanStep, Stopping, CleanPC, sharedVars, flagVars
<1>5. CASE ResetStarted(t)
  BY <1>5, LockKept DEF ResetStarted, CleanStep, Stopping, CleanPC, sharedVars, flagVars
<1>6. CASE ResetStopping(t)
  <2>1. stopping' = 0 /\ kpc' = [kpc EXCEPT ![t] = "notify"] /\ Stopping(t)
    BY <1>6 DEF ResetStopping, CleanStep, Stopping
  <2>2. \A u \in Cleaners : ~Stopping(u)'
    BY <2>1 DEF Stopping, LockInv, CleanupTypeOK, CleanupOwnership
  <2> QED
    BY <2>1, <2>2 DEF LockInv, CleanupTypeOK, CleanupOwnership, CleanPC
<1>7. CASE NotifyDisconnect(t)
  BY <1>7, LockKept DEF NotifyDisconnect, CleanStep, Stopping, CleanPC, sharedVars, flagVars
<1> QED
  BY <1>1, <1>2, <1>3, <1>4, <1>5, <1>6, <1>7 DEF Cleanup

(* A failing loop either wins the lock for its cleanup goroutine or leaves *)
(* it to its holder.                                                       *)
LEMMA NotifyKeepsLock ==
  ASSUME LockInv, NEW g \in Gens, ReadNotify(g) \/ WriteNotify(g)
  PROVE  LockInv'
<1>1. CASE stopping = 0
  <2>1. ReadCleaner(g) \in Cleaners /\ WriteCleaner(g) \in Cleaners
    BY DEF Cleaners
  <2>2. CASE ReadNotify(g)
    BY <1>1, <2>1, <2>2, LockTaken DEF ReadNotify
  <2>3. CASE WriteNotify(g)
    BY <1>1, <2>1, <2>3, LockTaken DEF WriteNotify
  <2> QED
    BY <2>2, <2>3
<1>2. CASE stopping # 0
  <2>1. stopping' = stopping /\ kpc' = kpc
    BY <1>2 DEF LockInv, CleanupTypeOK, ReadNotify, WriteNotify
  <2> QED
    BY <2>1 DEF LockInv, CleanupTypeOK, CleanupOwnership, Stopping
<1> QED
  BY <1>1, <1>2

LEMMA LockPreserved == LockInv /\ [Next]_vars => LockInv'
<1> SUFFICES ASSUME LockInv, [Next]_vars PROVE LockInv'
  OBVIOUS
<1>1. ASSUME NEW t \in Cleaners, Cleanup(t) PROVE LockInv'
  BY <1>1, CleanupKeepsLock
<1>2. ASSUME NEW p \in Callers, BeginDisconnect(p) PROVE LockInv'
  BY <1>2, LockTaken DEF BeginDisconnect, Cleaners
<1>3. ASSUME NEW g \in Gens, ReadNotify(g) \/ WriteNotify(g) PROVE LockInv'
  BY <1>3, NotifyKeepsLock
<1>4. ASSUME UNCHANGED lockVars PROVE LockInv'
  BY <1>4 DEF lockVars, LockInv, CleanupTypeOK, CleanupOwnership, Stopping
<1> QED
  BY <1>1, <1>2, <1>3, <1>4, LockUntouched DEF Next, Environment

(* Whatever callers and loops do, at most one cleanup is at work, and      *)
(* stopping says whether one is.                                           *)
THEOREM OneCleanupAtATime == Spec => []CleanupOwnership
<1>1. Init => LockInv
  BY DEF Init, LockInv, CleanupTypeOK, CleanPC, CleanupOwnership, Stopping
<1>2. LockInv => CleanupOwnership
  BY DEF LockInv
<1> QED
  BY <1>1, <1>2, LockPreserved, PTL DEF Spec

-----------------------------------------------------------------------------
(* The types *)

LEMMA Numbers ==
  /\ 0 \in 0 .. MaxGen /\ Gens \subseteq 0 .. MaxGen
  /\ \A n \in 0 .. MaxGen : n # 0 => n \in Gens
BY ClientAssumption DEF Gens

LEMMA ConnectTypes ==
  ASSUME TypeOK, NEW p \in Callers, Connect(p) \/ BeginConnect(p) \/ BeginDisconnect(p)
  PROVE  TypeOK'
<1> USE Numbers DEF TypeOK, CallerStep, sharedVars, flagVars, fieldVars, linkVars, dialVars,
      loopVars, readVars, readLocals, writeVars, cleanVars
<1>0. my[p] \in 0 .. MaxGen /\ fCtx \in 0 .. MaxGen /\ gen \in 0 .. MaxGen
  BY DEF CallerTypes, FieldTypes
<1>1. CASE BeginConnect(p)
  <2>1. gen + 1 \in 0 .. MaxGen
    BY <1>0, <1>1, ClientAssumption DEF BeginConnect
  <2>2. FieldTypes'
    BY <1>1, <2>1 DEF BeginConnect, FieldTypes
  <2>3. CallerTypes'
    BY <1>1, <2>1 DEF BeginConnect, CallerTypes, CallerPC
  <2> QED
    BY <1>1, <2>2, <2>3 DEF BeginConnect, LoopTypes, CleanTypes
<1>2. CASE SetCtx(p) \/ SetDone(p) \/ SetConn(p)
  <2>1. FieldTypes'
    BY <1>0, <1>2 DEF SetCtx, SetDone, SetConn, FieldTypes
  <2>2. CallerTypes'
    BY <1>2 DEF SetCtx, SetDone, SetConn, CallerTypes, CallerPC
  <2> QED
    BY <1>2, <2>1, <2>2 DEF SetCtx, SetDone, SetConn, LoopTypes, CleanTypes
<1>3. CASE SetupFails(p) \/ Setup(p) \/ DialFails(p)
  <2>1. FieldTypes'
    BY <1>3 DEF SetupFails, Setup, DialFails, FieldTypes
  <2>2. CallerTypes'
    BY <1>0, <1>3 DEF SetupFails, Setup, DialFails, CallerTypes, CallerPC
  <2> QED
    BY <1>3, <2>1, <2>2 DEF SetupFails, Setup, DialFails, LoopTypes, CleanTypes
<1>4. CASE DialSucceeds(p)
  <2>1. FieldTypes'
    BY <1>4 DEF DialSucceeds, FieldTypes
  <2>2. CallerTypes'
    BY <1>4 DEF DialSucceeds, CallerTypes, CallerPC
  <2> QED
    BY <1>4, <2>1, <2>2 DEF DialSucceeds, LoopTypes, CleanTypes
<1>5. CASE SpawnLoops(p)
  <2>1. CallerTypes'
    BY <1>5 DEF SpawnLoops, CallerTypes, CallerPC
  <2>2. LoopTypes'
    BY <1>5 DEF SpawnLoops, LoopTypes, ReadPC, WritePC
  <2> QED
    BY <1>5, <2>1, <2>2 DEF SpawnLoops, FieldTypes, CleanTypes
<1>6. CASE BeginDisconnect(p)
  <2>1. CallerTypes'
    BY <1>6 DEF BeginDisconnect, CallerTypes, CallerPC
  <2>2. CleanTypes'
    BY <1>6 DEF BeginDisconnect, CleanTypes, CleanPC
  <2> QED
    BY <1>6, <2>1, <2>2 DEF BeginDisconnect, FieldTypes, LoopTypes
<1> QED
  BY <1>1, <1>2, <1>3, <1>4, <1>5, <1>6 DEF Connect

LEMMA CleanupTypes ==
  ASSUME TypeOK, NEW t \in Cleaners, Cleanup(t)
  PROVE  TypeOK'
<1> USE Numbers DEF TypeOK, CleanStep, sharedVars, flagVars, fieldVars, linkVars, callerVars,
      dialVars, loopVars, readVars, readLocals, writeVars
<1>1. LoopTypes'
  BY DEF Cleanup, CloseConn, CancelCtx, LoadDone, WaitDone, ResetStarted, ResetStopping,
     NotifyDisconnect, LoopTypes
<1>2. FieldTypes'
  <2>1. CASE CloseConn(t)
    BY <2>1 DEF CloseConn, FieldTypes
  <2>2. CASE CancelCtx(t)
    BY <2>2 DEF CancelCtx, FieldTypes
  <2> QED
    BY <2>1, <2>2 DEF Cleanup, LoadDone, WaitDone, ResetStarted, ResetStopping,
       NotifyDisconnect, FieldTypes
<1>3. CallerTypes'
  <2>1. CASE NotifyDisconnect(t)
    BY <2>1 DEF NotifyDisconnect, CallerTypes, CallerPC
  <2> QED
    BY <2>1 DEF Cleanup, CloseConn, CancelCtx, LoadDone, WaitDone, ResetStarted, ResetStopping,
       CallerTypes
<1>4. CleanTypes'
  <2>1. fDone \in 0 .. MaxGen
    BY DEF FieldTypes
  <2>2. CASE LoadDone(t)
    BY <2>1, <2>2 DEF LoadDone, CleanTypes, CleanPC
  <2>3. CASE ResetStarted(t)
    BY <2>3 DEF ResetStarted, CleanTypes, CleanPC
  <2> QED
    BY <2>2, <2>3 DEF Cleanup, CloseConn, CancelCtx, WaitDone, ResetStopping, NotifyDisconnect,
       CleanTypes, CleanPC
<1> QED
  BY <1>1, <1>2, <1>3, <1>4

LEMMA ReadTypes ==
  ASSUME TypeOK, NEW g \in Gens, ReadLoop(g) \/ ReadMessage(g)
  PROVE  TypeOK'
<1> USE Numbers DEF TypeOK, ReadStep, sharedVars, flagVars, fieldVars, linkVars, callerVars,
      dialVars, readLocals, writeVars, cleanVars
<1>0. fCtx \in 0 .. MaxGen /\ fDone \in 0 .. MaxGen /\ conn \in 0 .. MaxGen
  BY DEF FieldTypes
<1>1. CASE ReadDefer(g) \/ ReadGetConn(g) \/ ReadTop(g)
  <2>1. LoopTypes'
    BY <1>0, <1>1 DEF ReadDefer, ReadGetConn, ReadTop, LoopTypes, ReadPC
  <2> QED
    BY <1>1, <2>1 DEF ReadDefer, ReadGetConn, ReadTop, FieldTypes, CallerTypes, CleanTypes
<1>2. CASE ReadMessage(g) \/ ReadSeesClose(g) \/ ReadFails(g) \/ ReadJudge(g)
  <2>1. LoopTypes'
    BY <1>2 DEF ReadMessage, ReadSeesClose, ReadFails, ReadJudge, LoopTypes, ReadPC
  <2> QED
    BY <1>2, <2>1 DEF ReadMessage, ReadSeesClose, ReadFails, ReadJudge, FieldTypes, CallerTypes,
       CleanTypes
<1>3. CASE ReadNotify(g)
  <2>1. LoopTypes'
    BY <1>3 DEF ReadNotify, LoopTypes, ReadPC
  <2>2. CleanTypes'
    BY <1>3 DEF ReadNotify, CleanTypes, CleanPC
  <2>3. FieldTypes'
    BY <1>3 DEF ReadNotify, FieldTypes
  <2> QED
    BY <1>3, <2>1, <2>2, <2>3 DEF ReadNotify, CallerTypes
<1>4. CASE ReadCloseDone(g)
  <2>1. rDone[g] \in Gens
    <3>1. rDone[g] \in 0 .. MaxGen
      BY DEF LoopTypes
    <3>2. rDone[g] # 0
      BY <1>4 DEF ReadCloseDone
    <3> QED
      BY <3>1, <3>2, ClientAssumption DEF Gens
  <2>2. done[rDone[g]] + 1 \in Nat
    <3>1. done[rDone[g]] \in Nat
      BY <2>1 DEF FieldTypes
    <3> QED
      BY <3>1
  <2>3. FieldTypes'
    BY <1>4, <2>1, <2>2 DEF ReadCloseDone, FieldTypes
  <2>4. LoopTypes'
    BY <1>4 DEF ReadCloseDone, LoopTypes, ReadPC
  <2> QED
    BY <1>4, <2>3, <2>4 DEF ReadCloseDone, CallerTypes, CleanTypes
<1> QED
  BY <1>1, <1>2, <1>3, <1>4 DEF ReadLoop

LEMMA WriteTypes ==
  ASSUME TypeOK, NEW g \in Gens, WriteLoop(g) \/ WriteTakes(g)
  PROVE  TypeOK'
<1> USE Numbers DEF TypeOK, WriteStep, sharedVars, flagVars, fieldVars, linkVars, callerVars,
      dialVars, readVars, readLocals, cleanVars
<1>0. fCtx \in 0 .. MaxGen /\ conn \in 0 .. MaxGen
  BY DEF FieldTypes
<1>1. CASE WriteNotify(g)
  <2>1. LoopTypes'
    BY <1>1 DEF WriteNotify, LoopTypes, WritePC
  <2>2. CleanTypes'
    BY <1>1 DEF WriteNotify, CleanTypes, CleanPC
  <2>3. FieldTypes'
    BY <1>1 DEF WriteNotify, FieldTypes
  <2> QED
    BY <1>1, <2>1, <2>2, <2>3 DEF WriteNotify, CallerTypes
<1>2. CASE WriteGetConn(g) \/ WriteTop(g) \/ WriteTakes(g)
  <2>1. LoopTypes'
    BY <1>0, <1>2 DEF WriteGetConn, WriteTop, WriteTakes, LoopTypes, WritePC
  <2> QED
    BY <1>2, <2>1 DEF WriteGetConn, WriteTop, WriteTakes, FieldTypes, CallerTypes, CleanTypes
<1>3. CASE \/ WriteCancelled(g) \/ WriteSucceeds(g) \/ WriteSeesClose(g) \/ WriteFails(g)
           \/ WriteJudge(g)
  <2>1. LoopTypes'
    BY <1>3 DEF WriteCancelled, WriteSucceeds, WriteSeesClose, WriteFails, WriteJudge, LoopTypes,
       WritePC
  <2> QED
    BY <1>3, <2>1 DEF WriteCancelled, WriteSucceeds, WriteSeesClose, WriteFails, WriteJudge,
       FieldTypes, CallerTypes, CleanTypes
<1> QED
  BY <1>1, <1>2, <1>3 DEF WriteLoop

LEMMA TypePreserved == TypeOK /\ [Next]_vars => TypeOK'
<1> SUFFICES ASSUME TypeOK, [Next]_vars PROVE TypeOK'
  OBVIOUS
<1>1. CASE \E g \in Gens : SocketEnds(g) \/ CallerCancels(g)
  BY <1>1 DEF SocketEnds, CallerCancels, TypeOK, FieldTypes, CallerTypes, LoopTypes, CleanTypes,
     flagVars, fieldVars, callerVars, dialVars, loopVars, readVars, readLocals, writeVars
<1>2. CASE UNCHANGED vars
  BY <1>2 DEF vars, TypeOK, FieldTypes, CallerTypes, LoopTypes, CleanTypes, sharedVars, flagVars,
     fieldVars, linkVars, callerVars, dialVars, loopVars, readVars, readLocals, writeVars, cleanVars
<1> QED
  BY <1>1, <1>2, ConnectTypes, CleanupTypes, ReadTypes, WriteTypes DEF Next, Environment

(* A caller that cleans up stays in its Disconnect.                        *)
LEMMA CallerPreserved == TypeOK /\ CallerInv /\ [Next]_vars => CallerInv'
<1> SUFFICES ASSUME TypeOK, CallerInv, [Next]_vars PROVE CallerInv'
  OBVIOUS
<1>1. ASSUME NEW p \in Callers, Connect(p) \/ BeginConnect(p) PROVE CallerInv'
  <2>1. /\ pc[p] # "disconnect" /\ kpc' = kpc
        /\ \A q \in Callers : q # p => pc'[q] = pc[q]
    BY <1>1 DEF Connect, BeginConnect, SetCtx, SetDone, SetupFails, Setup, DialFails, DialSucceeds,
       SetConn, SpawnLoops, CallerStep, TypeOK, CallerTypes, CleanTypes, cleanVars
  <2> QED
    BY <2>1 DEF CallerInv
<1>2. ASSUME NEW p \in Callers, BeginDisconnect(p) PROVE CallerInv'
  BY <1>2 DEF BeginDisconnect, CallerStep, CallerInv, TypeOK, CallerTypes, CleanTypes, Cleaners
<1>3. ASSUME NEW t \in Cleaners, Cleanup(t) PROVE CallerInv'
  <2>1. CASE NotifyDisconnect(t)
    BY <2>1 DEF NotifyDisconnect, CleanStep, CallerInv, TypeOK, CallerTypes, CleanTypes, Cleaners
  <2>2. CASE ~NotifyDisconnect(t)
    <3>1. /\ pc' = pc /\ kpc[t] # "none"
          /\ \A u \in Cleaners : u # t => kpc'[u] = kpc[u]
      BY <1>3, <2>2 DEF Cleanup, CloseConn, CancelCtx, LoadDone, WaitDone, ResetStarted,
         ResetStopping, CleanStep, TypeOK, CallerTypes, CleanTypes, callerVars
    <3> QED
      BY <3>1 DEF CallerInv, Cleaners
  <2> QED
    BY <2>1, <2>2
<1>4. ASSUME NEW g \in Gens, ReadNotify(g) \/ WriteNotify(g) PROVE CallerInv'
  <2>1. /\ pc' = pc
        /\ \A p \in Callers : kpc'[p] = kpc[p]
    BY <1>4, ClientAssumption DEF ReadNotify, WriteNotify, callerVars, TypeOK, CallerTypes,
       CleanTypes, Cleaners
  <2> QED
    BY <2>1 DEF CallerInv
<1>5. ASSUME \/ \E g \in Gens : ReadLoop(g) /\ ~ReadNotify(g)
             \/ \E g \in Gens : WriteLoop(g) /\ ~WriteNotify(g)
             \/ \E g \in Gens : SocketEnds(g) \/ CallerCancels(g) \/ ReadMessage(g) \/ WriteTakes(g)
             \/ UNCHANGED vars
      PROVE  CallerInv'
  <2>1. kpc' = kpc
    BY <1>5, LockUntouched DEF lockVars
  <2>2. pc' = pc
    BY <1>5 DEF ReadLoop, ReadDefer, ReadGetConn, ReadTop, ReadSeesClose, ReadFails, ReadJudge,
       ReadCloseDone, WriteLoop, WriteGetConn, WriteTop, WriteCancelled, WriteSucceeds,
       WriteSeesClose, WriteFails, WriteJudge, SocketEnds, CallerCancels, ReadMessage, WriteTakes,
       vars, callerVars
  <2> QED
    BY <2>1, <2>2 DEF CallerInv
<1> QED
  BY <1>1, <1>2, <1>3, <1>4, <1>5 DEF Next, Environment

-----------------------------------------------------------------------------
(* One connection at a time                                                *)

lifeVars == <<started, fDone, conn, gen, done, sock, pc, my, rpc, rDone, kpc, kDone>>

(* The history only grows. *)
LEMMA OverlapStays == [Next]_vars /\ overlap => overlap'
BY DEF Next, Environment, Connect, Cleanup, ReadLoop, WriteLoop, BeginConnect, SetCtx, SetDone,
   SetupFails, Setup, DialFails, DialSucceeds, SetConn, SpawnLoops, BeginDisconnect, CloseConn,
   CancelCtx, LoadDone, WaitDone, ResetStarted, ResetStopping, NotifyDisconnect, ReadDefer,
   ReadGetConn, ReadTop, ReadMessage, ReadSeesClose, ReadFails, ReadJudge, ReadNotify,
   ReadCloseDone, WriteGetConn, WriteTop, WriteCancelled, WriteTakes, WriteSucceeds,
   WriteSeesClose, WriteFails, WriteJudge, WriteNotify, SocketEnds, CallerCancels, vars,
   sharedVars

LEMMA LifeUntouched == LifeInv /\ UNCHANGED lifeVars => LifeInv'
BY DEF lifeVars, LifeInv, ConnectInv, ReaderInv, SocketInv, CleanInv, StoppedInv, Connecting,
   AtWork, Stopping, Quiet, NoOpenSocket

(* The steps that touch nothing of it, or only move a loop.                *)
LEMMA LoopKeepsLife ==
  ASSUME TypeOK, LifeInv, NEW g \in Gens,
         UNCHANGED <<started, fDone, conn, gen, done, sock, pc, my>>,
         UNCHANGED <<rDone, kpc, kDone>>, ~Quiet(g), rpc[g] # "defer",
         NEW to \in ReadPC \ {"none", "defer", "ended"}, rpc' = [rpc EXCEPT ![g] = to]
  PROVE  LifeInv'
<1>1. \A h \in Gens : (Quiet(h)' <=> Quiet(h)) /\ (rpc'[h] = IF h = g THEN to ELSE rpc[h])
  BY DEF TypeOK, LoopTypes, Quiet, ReadPC
<1>2. ConnectInv' /\ SocketInv' /\ CleanInv' /\ StoppedInv'
  BY <1>1 DEF LifeInv, ConnectInv, SocketInv, CleanInv, StoppedInv, Connecting, AtWork, Stopping,
     NoOpenSocket
<1>3. ReaderInv'
  BY <1>1 DEF LifeInv, ReaderInv, Quiet
<1> QED
  BY <1>2, <1>3 DEF LifeInv

(* A step of Connect.  Nobody reads and nobody cleans up meanwhile.        *)
LEMMA ConnectKeepsLife ==
  ASSUME TypeOK, LifeInv, NEW p \in Callers, Connect(p)
  PROVE  LifeInv'
<1> USE DEF LifeInv, CallerStep, sharedVars, flagVars, fieldVars, linkVars, dialVars, loopVars,
      readVars, readLocals, cleanVars
<1>0. /\ Connecting(p) /\ my[p] = gen /\ gen \in Gens /\ started = 1
      /\ \A q \in Callers : Connecting(q) => q = p
      /\ \A t \in Cleaners : ~AtWork(t)
      /\ \A g \in Gens : Quiet(g)
      /\ rpc[gen] = "none" /\ done[gen] = 0
  <2>1. Connecting(p)
    BY DEF Connect, SetCtx, SetDone, SetupFails, Setup, DialFails, DialSucceeds, SetConn,
       SpawnLoops, Connecting
  <2> QED
    BY <2>1 DEF ConnectInv
<1>1. /\ UNCHANGED <<gen, done, my, rDone, kpc, kDone>>
      /\ \A q \in Callers : q # p => pc'[q] = pc[q]
  BY DEF Connect, SetCtx, SetDone, SetupFails, Setup, DialFails, DialSucceeds, SetConn,
     SpawnLoops, TypeOK, CallerTypes
<1>2. CleanInv'
  BY <1>0, <1>1 DEF CleanInv, AtWork, Stopping
<1>3. \A q \in Callers : q # p => ~Connecting(q)'
  BY <1>0, <1>1 DEF Connecting
<1>4. CASE SetCtx(p) \/ SetDone(p) \/ Setup(p) \/ SetConn(p) \/ DialSucceeds(p)
  <2>1. UNCHANGED <<started, rpc>> /\ pc'[p] \in {"setDone", "setup", "dial", "setConn", "spawn"}
    BY <1>4 DEF SetCtx, SetDone, Setup, DialSucceeds, SetConn, TypeOK, CallerTypes
  <2>2. fDone' \in {fDone, gen}
    BY <1>0, <1>4 DEF SetCtx, SetDone, Setup, DialSucceeds, SetConn
  <2>3. /\ pc'[p] # "setDone" => fDone' = gen
        /\ pc'[p] # "spawn" => conn' = 0
    BY <1>0, <1>4 DEF SetCtx, SetDone, Setup, DialSucceeds, SetConn, ConnectInv, Connecting,
       TypeOK, CallerTypes
  <2>4. ConnectInv'
    BY <1>0, <1>1, <1>3, <2>1, <2>3 DEF ConnectInv, AtWork, Stopping, Quiet, Connecting
  <2>5. ReaderInv'
    BY <1>0, <1>1, <2>1 DEF ReaderInv, Quiet
  <2>6. SocketInv'
    <3>1. CASE DialSucceeds(p)
      <4>1. \A g \in Gens : sock'[g] = IF g = gen THEN "open" ELSE sock[g]
        BY <1>0, <3>1 DEF DialSucceeds, TypeOK, FieldTypes
      <4>2. \A g \in Gens : sock[g] = "open" => g = conn
        BY <1>0, <3>1 DEF DialSucceeds, SocketInv, Connecting
      <4>3. pc'[p] = "setConn" /\ my'[p] = gen /\ conn' = conn
        BY <1>0, <3>1 DEF DialSucceeds, TypeOK, CallerTypes
      <4> QED
        BY <4>1, <4>2, <4>3 DEF SocketInv
    <3>2. CASE SetConn(p)
      <4>1. \A g \in Gens : sock[g] = "open" => g = gen
        <5>1. conn = 0
          BY <1>0, <3>2 DEF SetConn, ConnectInv
        <5>2. conn \notin Gens
          BY <5>1, ClientAssumption DEF Gens
        <5> QED
          BY <1>0, <5>2 DEF SocketInv, Connecting
      <4> QED
        BY <1>0, <3>2, <4>1 DEF SetConn, SocketInv
    <3>3. CASE SetCtx(p) \/ SetDone(p) \/ Setup(p)
      <4>1. UNCHANGED <<sock, conn>> /\ pc[p] # "setConn"
        BY <3>3 DEF SetCtx, SetDone, Setup
      <4>2. \A g \in Gens : sock[g] = "open" => g = conn
        BY <1>0, <4>1 DEF SocketInv, Connecting
      <4> QED
        BY <4>1, <4>2 DEF SocketInv
    <3> QED
      BY <1>4, <3>1, <3>2, <3>3
  <2>7. StoppedInv'
    BY <1>0, <2>1 DEF StoppedInv
  <2> QED
    BY <1>2, <2>4, <2>5, <2>6, <2>7
<1>5. CASE SetupFails(p) \/ DialFails(p)
  <2>1. UNCHANGED <<fDone, conn, sock, rpc>> /\ pc[p] \in {"setup", "dial"} /\ pc'[p] = "idle"
    BY <1>5 DEF SetupFails, DialFails, TypeOK, CallerTypes
  <2>2. \A q \in Callers : ~Connecting(q)'
    BY <1>3, <2>1 DEF Connecting
  <2>3. NoOpenSocket
    <3>1. conn = 0
      BY <1>0, <2>1 DEF ConnectInv
    <3>2. conn \notin Gens
      BY <3>1, ClientAssumption DEF Gens
    <3>3. \A q \in Callers : pc[q] # "setConn"
      BY <1>0, <2>1 DEF Connecting
    <3> QED
      BY <3>1, <3>2, <3>3 DEF SocketInv, NoOpenSocket
  <2>4. ConnectInv' /\ SocketInv' /\ StoppedInv'
    BY <1>0, <2>1, <2>2, <2>3 DEF ConnectInv, SocketInv, StoppedInv, NoOpenSocket, Quiet
  <2>5. ReaderInv'
    BY <1>0, <1>1, <2>1 DEF ReaderInv, Quiet
  <2> QED
    BY <1>2, <2>4, <2>5
<1>6. CASE SpawnLoops(p)
  <2>1. /\ UNCHANGED <<started, fDone, conn, sock>>
        /\ \A g \in Gens : rpc'[g] = IF g = gen THEN "defer" ELSE rpc[g]
        /\ pc[p] = "spawn" /\ pc'[p] = "idle"
    BY <1>0, <1>6 DEF SpawnLoops, TypeOK, CallerTypes, LoopTypes
  <2>2. \A q \in Callers : ~Connecting(q)'
    BY <1>3, <2>1 DEF Connecting
  <2>3. fDone = gen
    BY <1>0, <2>1 DEF ConnectInv
  <2>4. \A q \in Callers : pc[q] # "setConn"
    BY <1>0, <2>1 DEF Connecting
  <2>5. ConnectInv' /\ SocketInv' /\ StoppedInv'
    BY <1>0, <2>1, <2>2, <2>4 DEF ConnectInv, SocketInv, StoppedInv
  <2>6. ReaderInv'
    <3>1. ~(gen > gen)
      BY <1>0 DEF Gens
    <3> QED
      BY <1>0, <1>1, <2>1, <2>3, <3>1 DEF ReaderInv, Quiet
  <2>7. CleanInv'
    BY <1>0, <1>1 DEF CleanInv, AtWork, Stopping
  <2> QED
    BY <2>5, <2>6, <2>7
<1> QED
  BY <1>4, <1>5, <1>6 DEF Connect

(* The first step of Connect: it finds a client at rest.                   *)
LEMMA BeginKeepsLife ==
  ASSUME TypeOK, LifeInv, NEW p \in Callers, BeginConnect(p), ~overlap'
  PROVE  LifeInv'
<1> USE DEF LifeInv, CallerStep, fieldVars, linkVars, loopVars, readVars, readLocals, cleanVars
<1>1. /\ NoOpenSocket /\ (\A g \in Gens : Quiet(g)) /\ (\A q \in Callers : ~Connecting(q))
      /\ \A t \in Cleaners : ~AtWork(t)
  BY DEF BeginConnect, StoppedInv, LeftoverAtWork, AtWork
<1>2. /\ gen' = gen + 1 /\ gen' \in Gens /\ gen \in Nat
      /\ my'[p] = gen' /\ pc'[p] = "setCtx" /\ started' = 1
      /\ \A q \in Callers : q # p => pc'[q] = pc[q] /\ my'[q] = my[q]
      /\ UNCHANGED <<fDone, conn, done, sock, rpc, rDone, kpc, kDone>>
  BY ClientAssumption DEF BeginConnect, TypeOK, CallerTypes, FieldTypes, Gens
<1>3. rpc[gen'] = "none" /\ done[gen'] = 0
  BY <1>2 DEF ReaderInv
<1>4. ConnectInv'
  BY <1>1, <1>2, <1>3 DEF ConnectInv, Connecting, AtWork, Stopping, Quiet, NoOpenSocket
<1>5. ReaderInv'
  <2>1. \A g \in Gens : g > gen' => g > gen
    BY <1>2 DEF Gens
  <2> QED
    BY <1>1, <1>2, <2>1 DEF ReaderInv, Quiet
<1>6. SocketInv' /\ StoppedInv'
  <2> HIDE DEF LifeInv, CallerStep, fieldVars, linkVars, loopVars, readVars, readLocals, cleanVars
  <2>1. \A g \in Gens : sock'[g] # "open"
    BY <1>1, <1>2 DEF NoOpenSocket
  <2>2. started' # 0
    BY <1>2
  <2> QED
    BY <2>1, <2>2 DEF SocketInv, StoppedInv
<1>7. CleanInv'
  <2>1. \A t \in Cleaners : ~AtWork(t)' /\ kpc'[t] \notin {"wait", "resetStarted"}
    BY <1>1, <1>2 DEF AtWork, Stopping
  <2> QED
    BY <2>1 DEF CleanInv
<1> QED
  BY <1>4, <1>5, <1>6, <1>7

(* A cleanup begins, in a Disconnect or for a failing loop.                *)
LEMMA CleanupBeginsLife ==
  ASSUME TypeOK, LifeInv, NEW t \in Cleaners, kpc' = [kpc EXCEPT ![t] = "close"],
         \A q \in Callers : ~Connecting(q) /\ ~Connecting(q)',
         UNCHANGED <<started, fDone, conn, gen, done, sock, my, rpc, rDone, kDone>>
  PROVE  LifeInv'
<1>1. \A u \in Cleaners : kpc'[u] = IF u = t THEN "close" ELSE kpc[u]
  BY DEF TypeOK, CleanTypes
<1>2. ConnectInv' /\ ReaderInv'
  BY DEF LifeInv, ConnectInv, ReaderInv, Quiet
<1>3. SocketInv' /\ StoppedInv'
  <2>1. \A q \in Callers : pc[q] # "setConn"
    BY DEF Connecting
  <2> QED
    BY <2>1 DEF LifeInv, SocketInv, StoppedInv, NoOpenSocket, Quiet
<1>4. CleanInv'
  BY <1>1 DEF LifeInv, CleanInv, AtWork, Stopping, NoOpenSocket, Quiet
<1> QED
  BY <1>2, <1>3, <1>4 DEF LifeInv

LEMMA DisconnectKeepsLife ==
  ASSUME TypeOK, LifeInv, NEW p \in Callers, BeginDisconnect(p), ~overlap'
  PROVE  LifeInv'
<1>1. p \in Cleaners
  BY DEF Cleaners
<1>2. \A q \in Callers : ~Connecting(q) /\ ~Connecting(q)'
  BY DEF BeginDisconnect, CallerStep, Connecting, TypeOK, CallerTypes
<1> QED
  BY <1>1, <1>2, CleanupBeginsLife
  DEF BeginDisconnect, fieldVars, linkVars, dialVars, loopVars, readVars, readLocals

(* A step of a cleanup.  Nobody connects before it has reset started.      *)
LEMMA CleanupKeepsLife ==
  ASSUME TypeOK, CallerInv, LifeInv, NEW t \in Cleaners, Cleanup(t)
  PROVE  LifeInv'
<1> USE DEF LifeInv, CleanStep, sharedVars, flagVars, fieldVars, linkVars, callerVars, dialVars,
      loopVars, readVars, readLocals
<1>1. UNCHANGED <<fDone, gen, done, my, rpc, rDone>>
  BY DEF Cleanup, CloseConn, CancelCtx, LoadDone, WaitDone, ResetStarted, ResetStopping,
     NotifyDisconnect
<1>2. \A q \in Callers : /\ Connecting(q)' <=> Connecting(q)
                         /\ pc'[q] = "setConn" <=> pc[q] = "setConn"
  <2>1. CASE NotifyDisconnect(t)
    <3>1. t \in Callers => pc[t] = "disconnect" /\ pc'[t] = "idle"
      BY <2>1 DEF NotifyDisconnect, CallerInv
    <3>2. \A q \in Callers : q # t => pc'[q] = pc[q]
      BY <2>1 DEF NotifyDisconnect
    <3> QED
      BY <3>1, <3>2 DEF Connecting
  <2> QED
    BY <2>1 DEF Cleanup, CloseConn, CancelCtx, LoadDone, WaitDone, ResetStarted, ResetStopping,
       Connecting
<1>3. ASSUME AtWork(t) PROVE \A q \in Callers : ~Connecting(q) /\ pc[q] # "setConn"
  BY <1>3 DEF ConnectInv, Connecting
<1>4. CASE CloseConn(t)
  <2>1. AtWork(t)
    BY <1>4 DEF CloseConn, AtWork, Stopping
  <2>2. NoOpenSocket' /\ UNCHANGED <<started, kDone>>
    BY <1>3, <1>4, <2>1 DEF CloseConn, SocketInv, NoOpenSocket
  <2>3. \A u \in Cleaners : kpc'[u] = IF u = t THEN "cancel" ELSE kpc[u]
    BY <1>4 DEF CloseConn, TypeOK, CleanTypes
  <2>4. CleanInv'
    BY <1>1, <2>2, <2>3 DEF CleanInv, Quiet
  <2>5. ConnectInv' /\ ReaderInv' /\ SocketInv' /\ StoppedInv'
    BY <1>1, <1>2, <1>3, <2>1, <2>2
    DEF ConnectInv, ReaderInv, SocketInv, StoppedInv, NoOpenSocket, Quiet
  <2> QED
    BY <2>4, <2>5
<1>5. CASE CancelCtx(t) \/ LoadDone(t) \/ WaitDone(t)
  <2>1. AtWork(t) /\ kpc[t] # "close"
    BY <1>5 DEF CancelCtx, LoadDone, WaitDone, AtWork, Stopping
  <2>2. NoOpenSocket
    BY <2>1 DEF CleanInv
  <2>3. UNCHANGED <<started, conn, sock>>
    BY <1>5 DEF CancelCtx, LoadDone, WaitDone
  <2>4. /\ kpc'[t] \in {"load", "wait", "resetStarted"}
        /\ \A u \in Cleaners : u # t => kpc'[u] = kpc[u] /\ kDone'[u] = kDone[u]
    BY <1>5 DEF CancelCtx, LoadDone, WaitDone, TypeOK, CleanTypes
  <2>5. kpc'[t] = "wait" => kDone'[t] = fDone
    BY <1>5 DEF CancelCtx, LoadDone, WaitDone, TypeOK, CleanTypes
  <2>6. kpc'[t] = "resetStarted" => \A g \in Gens : Quiet(g)
    <3>1. CASE LoadDone(t)
      <4>1. ASSUME fDone = 0 PROVE \A g \in Gens : Quiet(g)
        <5>1. fDone \notin Gens
          BY <4>1, ClientAssumption DEF Gens
        <5> QED
          BY <5>1 DEF ReaderInv
      <4> QED
        BY <3>1, <4>1 DEF LoadDone, TypeOK, CleanTypes
    <3>2. CASE WaitDone(t)
      <4>1. kDone[t] = fDone /\ done[fDone] > 0 /\ fDone # 0
        BY <3>2 DEF WaitDone, CleanInv
      <4>2. ASSUME NEW g \in Gens, ~Quiet(g) PROVE FALSE
        <5>1. fDone = g /\ done[g] = 0
          BY <4>2 DEF ReaderInv, Quiet
        <5> QED
          BY <4>1, <5>1
      <4> QED
        BY <4>2
    <3>3. CASE CancelCtx(t)
      BY <3>3 DEF CancelCtx, TypeOK, CleanTypes
    <3> QED
      BY <1>5, <3>1, <3>2, <3>3
  <2>7. CleanInv'
    BY <1>1, <2>2, <2>3, <2>4, <2>5, <2>6 DEF CleanInv, AtWork, Stopping, Quiet, NoOpenSocket
  <2>8. ConnectInv' /\ ReaderInv' /\ SocketInv' /\ StoppedInv'
    BY <1>1, <1>2, <1>3, <2>1, <2>2, <2>3
    DEF ConnectInv, ReaderInv, SocketInv, StoppedInv, NoOpenSocket, Quiet
  <2> QED
    BY <2>7, <2>8
<1>6. CASE ResetStarted(t)
  <2>1. AtWork(t) /\ NoOpenSocket /\ \A g \in Gens : Quiet(g)
    BY <1>6 DEF ResetStarted, AtWork, Stopping, CleanInv
  <2>2. UNCHANGED <<conn, sock>>
    BY <1>6 DEF ResetStarted
  <2>3. \A u \in Cleaners : /\ kpc'[u] = IF u = t THEN "resetStopping" ELSE kpc[u]
                            /\ u # t => kDone'[u] = kDone[u]
    BY <1>6 DEF ResetStarted, TypeOK, CleanTypes
  <2>4. CleanInv'
    BY <1>1, <2>1, <2>2, <2>3 DEF CleanInv, AtWork, Stopping, Quiet, NoOpenSocket
  <2>5. ConnectInv' /\ ReaderInv' /\ SocketInv' /\ StoppedInv'
    BY <1>1, <1>2, <1>3, <2>1, <2>2
    DEF ConnectInv, ReaderInv, SocketInv, StoppedInv, NoOpenSocket, Quiet
  <2> QED
    BY <2>4, <2>5
<1>7. CASE ResetStopping(t) \/ NotifyDisconnect(t)
  <2>1. UNCHANGED <<started, conn, sock, kDone>>
    BY <1>7 DEF ResetStopping, NotifyDisconnect
  <2>2. \A u \in Cleaners : IF u = t THEN kpc'[u] \in {"none", "notify"} ELSE kpc'[u] = kpc[u]
    BY <1>7 DEF ResetStopping, NotifyDisconnect, TypeOK, CleanTypes
  <2>3. \A u \in Cleaners : AtWork(u)' => AtWork(u) /\ kpc'[u] = kpc[u]
    BY <2>2 DEF AtWork, Stopping
  <2>4. CleanInv'
    BY <1>1, <2>1, <2>2, <2>3 DEF CleanInv, Quiet, NoOpenSocket
  <2>5. ConnectInv'
    <3>1. ASSUME NEW q \in Callers, Connecting(q)' PROVE pc'[q] = pc[q]
      BY <1>7, <1>2, <3>1 DEF ResetStopping, NotifyDisconnect, Connecting
    <3> QED
      BY <1>1, <1>2, <2>1, <2>3, <3>1 DEF ConnectInv, Quiet
  <2>6. ReaderInv' /\ SocketInv' /\ StoppedInv'
    BY <1>1, <1>2, <2>1 DEF ReaderInv, SocketInv, StoppedInv, NoOpenSocket, Quiet
  <2> QED
    BY <2>4, <2>5, <2>6
<1> QED
  BY <1>4, <1>5, <1>6, <1>7 DEF Cleanup

(* A step of readLoop.                                                     *)
LEMMA ReadKeepsLife ==
  ASSUME TypeOK, LifeInv, NEW g \in Gens, ReadLoop(g) \/ ReadMessage(g), ~overlap'
  PROVE  LifeInv'
<1> USE DEF ReadStep, sharedVars, flagVars, fieldVars, linkVars, callerVars, dialVars, readLocals,
      writeVars, cleanVars
<1>1. ~Quiet(g)
  BY DEF ReadLoop, ReadDefer, ReadGetConn, ReadTop, ReadMessage, ReadSeesClose, ReadFails,
     ReadJudge, ReadNotify, ReadCloseDone, Quiet
<1>2. g = gen /\ fDone = g /\ started = 1
  BY <1>1 DEF LifeInv, ReaderInv
<1>3. \A q \in Callers : ~Connecting(q) /\ pc[q] # "setConn"
  BY <1>1 DEF LifeInv, ConnectInv, Connecting
<1>4. CASE ReadDefer(g)
  <2>1. \A h \in Gens : /\ rpc'[h] = IF h = g THEN "getConn" ELSE rpc[h]
                        /\ rDone'[h] = IF h = g THEN g ELSE rDone[h]
    BY <1>2, <1>4 DEF ReadDefer, TypeOK, LoopTypes
  <2>2. UNCHANGED <<started, fDone, conn, gen, done, sock, pc, my, kpc, kDone>>
    BY <1>4 DEF ReadDefer
  <2>3. \A h \in Gens : Quiet(h)' <=> Quiet(h)
    BY <1>1, <2>1 DEF Quiet
  <2>4. ReaderInv'
    BY <1>1, <1>2, <2>1, <2>2, <2>3 DEF LifeInv, ReaderInv, Quiet
  <2>5. ConnectInv'
    BY <1>3, <2>2 DEF ConnectInv, Connecting
  <2>6. SocketInv' /\ CleanInv' /\ StoppedInv'
    BY <1>2, <2>2, <2>3 DEF LifeInv, SocketInv, CleanInv, StoppedInv, AtWork, Stopping, NoOpenSocket
  <2> QED
    BY <2>4, <2>5, <2>6 DEF LifeInv
<1>5. CASE ReadCloseDone(g)
  <2>1. rDone[g] = g /\ done[g] = 0
    BY <1>1, <1>5 DEF ReadCloseDone, LifeInv, ReaderInv, Quiet
  <2>2. \A h \in Gens : /\ rpc'[h] = IF h = g THEN "ended" ELSE rpc[h]
                        /\ done'[h] = IF h = g THEN 1 ELSE done[h]
                        /\ h # g => rDone'[h] = rDone[h]
    BY <1>5, <2>1 DEF ReadCloseDone, TypeOK, LoopTypes, FieldTypes
  <2>3. UNCHANGED <<started, fDone, conn, gen, sock, pc, my, kpc, kDone>>
    BY <1>5 DEF ReadCloseDone
  <2>4. \A h \in Gens : Quiet(h)' <=> h = g \/ Quiet(h)
    BY <2>2 DEF Quiet
  <2>5. ReaderInv'
    <3>1. ~(g > gen)
      BY <1>2 DEF Gens
    <3> QED
      BY <1>1, <1>2, <2>2, <2>3, <2>4, <3>1 DEF LifeInv, ReaderInv, Quiet
  <2>6. ConnectInv'
    BY <1>3, <2>3 DEF ConnectInv, Connecting
  <2>7. SocketInv' /\ CleanInv' /\ StoppedInv'
    BY <1>2, <2>3, <2>4 DEF LifeInv, SocketInv, CleanInv, StoppedInv, AtWork, Stopping, NoOpenSocket
  <2> QED
    BY <2>5, <2>6, <2>7 DEF LifeInv
<1>6. CASE ReadNotify(g)
  <2>1. rpc[g] = "notify" /\ rpc' = [rpc EXCEPT ![g] = "closeDone"]
        /\ UNCHANGED <<started, fDone, conn, gen, done, sock, pc, my, rDone, kDone>>
    BY <1>6 DEF ReadNotify
  <2>2. kpc' = kpc \/ kpc' = [kpc EXCEPT ![ReadCleaner(g)] = "close"]
    BY <1>6 DEF ReadNotify
  <2>3. \A h \in Gens : /\ rpc'[h] = IF h = g THEN "closeDone" ELSE rpc[h]
                        /\ Quiet(h)' <=> Quiet(h)
    BY <1>1, <2>1 DEF Quiet, TypeOK, LoopTypes
  <2>4. ReadCleaner(g) \in Cleaners
    BY DEF Cleaners
  <2>5. \A u \in Cleaners : kpc'[u] = kpc[u] \/ kpc'[u] = "close"
    BY <2>2, <2>4 DEF TypeOK, CleanTypes
  <2>6. ReaderInv'
    BY <2>1, <2>3 DEF LifeInv, ReaderInv, Quiet
  <2>7. ConnectInv'
    BY <1>3, <2>1 DEF ConnectInv, Connecting
  <2>8. SocketInv' /\ StoppedInv'
    BY <1>2, <2>1, <2>3 DEF LifeInv, SocketInv, StoppedInv
  <2>9. CleanInv'
    BY <2>1, <2>3, <2>5 DEF LifeInv, CleanInv, AtWork, Stopping, NoOpenSocket
  <2> QED
    BY <2>6, <2>7, <2>8, <2>9 DEF LifeInv
<1>7. CASE \/ ReadGetConn(g) \/ ReadTop(g) \/ ReadMessage(g) \/ ReadSeesClose(g) \/ ReadFails(g)
           \/ ReadJudge(g)
  <2>1. PICK to \in ReadPC \ {"none", "defer", "ended"} : rpc' = [rpc EXCEPT ![g] = to]
    BY <1>7 DEF ReadGetConn, ReadTop, ReadMessage, ReadSeesClose, ReadFails, ReadJudge, ReadPC
  <2>2. /\ rpc[g] # "defer"
        /\ UNCHANGED <<started, fDone, conn, gen, done, sock, pc, my>>
        /\ UNCHANGED <<rDone, kpc, kDone>>
    BY <1>7 DEF ReadGetConn, ReadTop, ReadMessage, ReadSeesClose, ReadFails, ReadJudge
  <2> HIDE DEF ReadStep, sharedVars, flagVars, fieldVars, linkVars, callerVars, dialVars,
        readLocals, writeVars, cleanVars
  <2> QED
    BY <1>1, <2>1, <2>2, LoopKeepsLife
<1> QED
  BY <1>4, <1>5, <1>6, <1>7 DEF ReadLoop

(* A step of writeLoop: it is of no concern, but for the cleanup it starts *)
(* when it fails.                                                          *)
LEMMA WriteKeepsLife ==
  ASSUME TypeOK, LifeInv, NEW g \in Gens, WriteLoop(g) \/ WriteTakes(g), ~overlap'
  PROVE  LifeInv'
<1> USE DEF WriteStep, sharedVars, flagVars, fieldVars, linkVars, callerVars, dialVars, readVars,
      readLocals, cleanVars
<1>1. CASE WriteNotify(g) /\ stopping = 0
  <2>1. \A q \in Callers : ~Connecting(q) /\ ~Connecting(q)'
    BY <1>1 DEF WriteNotify, Connecting
  <2>2. WriteCleaner(g) \in Cleaners
    BY DEF Cleaners
  <2>3. /\ kpc' = [kpc EXCEPT ![WriteCleaner(g)] = "close"]
        /\ UNCHANGED <<started, fDone, conn, gen, done, sock, my, rpc, rDone, kDone>>
    BY <1>1 DEF WriteNotify
  <2> QED
    BY <2>1, <2>2, <2>3, CleanupBeginsLife
<1>2. CASE ~(WriteNotify(g) /\ stopping = 0)
  <2>1. UNCHANGED lifeVars
    BY <1>2 DEF WriteLoop, WriteTakes, WriteGetConn, WriteTop, WriteCancelled, WriteSucceeds,
       WriteSeesClose, WriteFails, WriteJudge, WriteNotify, lifeVars
  <2> QED
    BY <2>1, LifeUntouched
<1> QED
  BY <1>1, <1>2

(* The server or the network ends a connection, or a context is cancelled. *)
LEMMA EndsKeepLife ==
  ASSUME TypeOK, LifeInv, NEW g \in Gens, SocketEnds(g) \/ CallerCancels(g)
  PROVE  LifeInv'
<1> USE DEF flagVars, fieldVars, callerVars, dialVars, loopVars, readVars, readLocals
<1>1. CASE CallerCancels(g)
  BY <1>1, LifeUntouched DEF CallerCancels, lifeVars
<1>2. CASE SocketEnds(g)
  <2>1. \A h \in Gens : sock'[h] = "open" => sock[h] = "open"
    BY <1>2 DEF SocketEnds, TypeOK, FieldTypes
  <2>2. UNCHANGED <<started, fDone, conn, gen, done, pc, my, rpc, rDone, kpc, kDone>>
    BY <1>2 DEF SocketEnds
  <2> QED
    BY <2>1, <2>2 DEF LifeInv, ConnectInv, ReaderInv, SocketInv, CleanInv, StoppedInv, Connecting,
       AtWork, Stopping, Quiet, NoOpenSocket
<1> QED
  BY <1>1, <1>2

LEMMA LifePreserved == IInv /\ [Next]_vars => IInv'
<1> SUFFICES ASSUME IInv, [Next]_vars PROVE IInv'
  OBVIOUS
<1>1. TypeOK /\ CallerInv /\ TypeOK' /\ CallerInv'
  BY TypePreserved, CallerPreserved DEF IInv
<1>2. ASSUME ~overlap' PROVE LifeInv'
  <2>1. LifeInv
    BY <1>2, OverlapStays DEF IInv
  <2>2. CASE UNCHANGED vars
    BY <2>1, <2>2, LifeUntouched DEF vars, lifeVars, sharedVars, flagVars, fieldVars, linkVars,
       callerVars, dialVars, loopVars, readVars, readLocals, cleanVars
  <2> QED
    BY <1>1, <1>2, <2>1, <2>2, ConnectKeepsLife, BeginKeepsLife, DisconnectKeepsLife,
       CleanupKeepsLife, ReadKeepsLife, WriteKeepsLife, EndsKeepLife DEF Next, Environment
<1> QED
  BY <1>1, <1>2 DEF IInv

LEMMA InitiallyAtRest == Init => IInv
<1> SUFFICES ASSUME Init PROVE IInv
  OBVIOUS
<1>1. TypeOK
  BY Numbers DEF Init, TypeOK, FieldTypes, CallerTypes, LoopTypes, CleanTypes, CallerPC,
     CleanPC, ReadPC, WritePC
<1>2. CallerInv
  BY DEF Init, CallerInv, Cleaners
<1>3. ConnectInv /\ ReaderInv /\ SocketInv /\ CleanInv /\ StoppedInv
  BY DEF Init, ConnectInv, ReaderInv, SocketInv, CleanInv, StoppedInv, Connecting, AtWork,
     Stopping, Quiet, NoOpenSocket, Cleaners
<1> QED
  BY <1>1, <1>2, <1>3 DEF IInv, LifeInv

LEMMA Inductive == Spec => []IInv
BY InitiallyAtRest, LifePreserved, PTL DEF Spec

(* Every variable keeps its type.                                          *)
THEOREM TypeCorrect == Spec => []TypeOK
<1>1. IInv => TypeOK
  BY DEF IInv
<1> QED
  BY <1>1, Inductive, PTL

(* A cleanup resets started only after the readLoop has ended, as long as  *)
(* no Connect has met an older connection's leftovers.                     *)
THEOREM ReadersEnd == Spec => []ReadersEndFirst
<1>1. IInv => ReadersEndFirst
  BY DEF IInv, LifeInv, CleanInv, Quiet, ReadersEndFirst
<1> QED
  BY <1>1, Inductive, PTL

-----------------------------------------------------------------------------
(* Cleanups end *)

(* Every Connect has a generation of its own, whose readLoop it will start.*)
MyInv ==
  /\ gen \in Nat
  /\ \A g \in Gens : g > gen => rpc[g] = "none"
  /\ \A p \in Callers : Connecting(p) =>
       /\ my[p] \in Gens /\ my[p] <= gen /\ rpc[my[p]] = "none"
       /\ \A q \in Callers : Connecting(q) /\ my[q] = my[p] => q = p

(* A readLoop in its loop has got a connection. *)
ConnInv == \A g \in Gens : rpc[g] \in {"top", "reading", "failed", "notify"} => rConn[g] # 0

(* As long as one connection is alive at a time: a readLoop that has ended *)
(* has closed its channel, the field ctx is that of the Connect under way  *)
(* and of the loop that reads, and it is cancelled when a cleanup waits.   *)
ContextInv ==
  /\ \A g \in Gens : rpc[g] = "ended" => done[g] = 1
  /\ \A p \in Callers : Connecting(p) /\ pc[p] # "setCtx" => fCtx = gen
  /\ \A g \in Gens : ~Quiet(g) => fCtx = g
  /\ \A t \in Cleaners :
       /\ kpc[t] \in {"load", "wait"} /\ fCtx # 0 => Cancelled(fCtx)
       /\ kpc[t] = "wait" => kDone[t] # 0

EndsInv == IInv /\ MyInv /\ ConnInv /\ (~overlap => ContextInv)

LEMMA MyPreserved ==
  ASSUME TypeOK, CallerInv, MyInv, [Next]_vars
  PROVE  MyInv'
<1> USE DEF sharedVars, flagVars, fieldVars, linkVars, callerVars, dialVars, loopVars, readVars,
      readLocals, writeVars, cleanVars
<1>1. ASSUME NEW p \in Callers, BeginConnect(p) PROVE MyInv'
  <2>1. /\ gen' = gen + 1 /\ gen' \in Gens /\ gen \in Nat /\ rpc' = rpc
        /\ my'[p] = gen' /\ pc'[p] = "setCtx"
        /\ \A q \in Callers : q # p => pc'[q] = pc[q] /\ my'[q] = my[q]
    BY <1>1, ClientAssumption DEF BeginConnect, CallerStep, TypeOK, CallerTypes, FieldTypes, Gens
  <2>2. \A q \in Callers : q # p => (Connecting(q)' <=> Connecting(q))
    BY <2>1 DEF Connecting
  <2>3. rpc[gen'] = "none"
    BY <2>1 DEF MyInv
  <2>4. \A q \in Callers : q # p /\ Connecting(q) => my[q] # gen' /\ my[q] <= gen'
    <3>1. ASSUME NEW q \in Callers, q # p, Connecting(q) PROVE my[q] # gen' /\ my[q] <= gen'
      <4>1. my[q] \in Nat /\ my[q] <= gen
        BY <3>1 DEF MyInv, Gens
      <4> QED
        BY <2>1, <4>1
    <3> QED
      BY <3>1
  <2>5. \A g \in Gens : g > gen' => rpc'[g] = "none"
    BY <2>1 DEF MyInv, Gens
  <2> QED
    BY <2>1, <2>2, <2>3, <2>4, <2>5 DEF MyInv
<1>2. ASSUME NEW p \in Callers, Connect(p) PROVE MyInv'
  <2>1. /\ UNCHANGED <<gen, my>> /\ Connecting(p)
        /\ \A q \in Callers : q # p => pc'[q] = pc[q]
    BY <1>2 DEF Connect, SetCtx, SetDone, SetupFails, Setup, DialFails, DialSucceeds, SetConn,
       SpawnLoops, CallerStep, Connecting, TypeOK, CallerTypes
  <2>2. \A q \in Callers : Connecting(q)' => Connecting(q)
    BY <2>1 DEF Connecting
  <2>3. CASE SpawnLoops(p)
    <3>1. /\ \A g \in Gens : rpc'[g] = IF g = my[p] THEN "defer" ELSE rpc[g]
          /\ ~Connecting(p)'
      BY <2>3 DEF SpawnLoops, CallerStep, TypeOK, CallerTypes, LoopTypes, Connecting
    <3>2. \A q \in Callers : Connecting(q)' => my[q] # my[p]
      BY <2>1, <2>2, <3>1 DEF MyInv
    <3>3. \A g \in Gens : g > gen => g # my[p]
      BY <2>1 DEF MyInv, Gens
    <3> QED
      BY <2>1, <2>2, <3>1, <3>2, <3>3 DEF MyInv
  <2>4. CASE ~SpawnLoops(p)
    <3>1. rpc' = rpc
      BY <1>2, <2>4 DEF Connect, SetCtx, SetDone, SetupFails, Setup, DialFails, DialSucceeds,
         SetConn
    <3> QED
      BY <2>1, <2>2, <3>1 DEF MyInv
  <2> QED
    BY <2>3, <2>4
<1>3. ASSUME NEW p \in Callers, BeginDisconnect(p) PROVE MyInv'
  <2>1. UNCHANGED <<gen, my, rpc>> /\ \A q \in Callers : Connecting(q)' => Connecting(q)
    BY <1>3 DEF BeginDisconnect, CallerStep, Connecting, TypeOK, CallerTypes
  <2> QED
    BY <2>1 DEF MyInv
<1>4. ASSUME NEW t \in Cleaners, Cleanup(t) PROVE MyInv'
  <2>1. UNCHANGED <<gen, my, rpc>> /\ \A q \in Callers : pc'[q] \in {pc[q], "idle"}
    BY <1>4 DEF Cleanup, CloseConn, CancelCtx, LoadDone, WaitDone, ResetStarted, ResetStopping,
       NotifyDisconnect
  <2> QED
    BY <2>1 DEF MyInv, Connecting
<1>5. ASSUME NEW g \in Gens, ReadLoop(g) \/ ReadMessage(g) PROVE MyInv'
  <2>1. /\ UNCHANGED <<gen, my, pc>> /\ rpc[g] # "none"
        /\ \A h \in Gens : h # g => rpc'[h] = rpc[h]
    BY <1>5 DEF ReadLoop, ReadDefer, ReadGetConn, ReadTop, ReadMessage, ReadSeesClose, ReadFails,
       ReadJudge, ReadNotify, ReadCloseDone, ReadStep, TypeOK, LoopTypes
  <2> QED
    BY <2>1 DEF MyInv, Connecting
<1>6. ASSUME \/ \E g \in Gens : WriteLoop(g) \/ WriteTakes(g) \/ SocketEnds(g) \/ CallerCancels(g)
             \/ UNCHANGED vars
      PROVE  MyInv'
  <2>1. UNCHANGED <<gen, my, pc, rpc>>
    BY <1>6 DEF WriteLoop, WriteTakes, WriteGetConn, WriteTop, WriteCancelled, WriteSucceeds,
       WriteSeesClose, WriteFails, WriteJudge, WriteNotify, SocketEnds, CallerCancels, vars
  <2> QED
    BY <2>1 DEF MyInv, Connecting
<1> QED
  BY <1>1, <1>2, <1>3, <1>4, <1>5, <1>6 DEF Next, Environment

LEMMA ConnPreserved ==
  ASSUME TypeOK, ConnInv, [Next]_vars
  PROVE  ConnInv'
<1> USE DEF sharedVars, flagVars, fieldVars, linkVars, callerVars, dialVars, loopVars, readVars,
      readLocals, writeVars, cleanVars
<1>1. ASSUME NEW g \in Gens, ReadLoop(g) \/ ReadMessage(g) PROVE ConnInv'
  <2>1. \A h \in Gens : h # g => rpc'[h] = rpc[h] /\ rConn'[h] = rConn[h]
    BY <1>1 DEF ReadLoop, ReadDefer, ReadGetConn, ReadTop, ReadMessage, ReadSeesClose, ReadFails,
       ReadJudge, ReadNotify, ReadCloseDone, ReadStep, TypeOK, LoopTypes
  <2>2. rpc'[g] \in {"top", "reading", "failed", "notify"} => rConn'[g] # 0
    <3>1. CASE ReadGetConn(g)
      BY <3>1 DEF ReadGetConn, ReadStep, TypeOK, LoopTypes
    <3>2. CASE ReadDefer(g) \/ ReadCloseDone(g)
      BY <3>2 DEF ReadDefer, ReadCloseDone, ReadStep, TypeOK, LoopTypes
    <3>3. CASE \/ ReadTop(g) \/ ReadMessage(g) \/ ReadSeesClose(g) \/ ReadFails(g)
               \/ ReadJudge(g) \/ ReadNotify(g)
      BY <3>3 DEF ConnInv, ReadTop, ReadMessage, ReadSeesClose, ReadFails, ReadJudge, ReadNotify,
         ReadStep, TypeOK, LoopTypes
    <3> QED
      BY <1>1, <3>1, <3>2, <3>3 DEF ReadLoop
  <2> QED
    BY <2>1, <2>2 DEF ConnInv
<1>2. ASSUME NEW p \in Callers, SpawnLoops(p) PROVE ConnInv'
  BY <1>2 DEF SpawnLoops, CallerStep, ConnInv, TypeOK, CallerTypes, LoopTypes
<1>3. ASSUME UNCHANGED readVars PROVE ConnInv'
  BY <1>3 DEF ConnInv
<1>4. ASSUME \/ \E p \in Callers : (Connect(p) /\ ~SpawnLoops(p)) \/ BeginConnect(p)
                                   \/ BeginDisconnect(p)
             \/ \E t \in Cleaners : Cleanup(t)
             \/ \E g \in Gens : WriteLoop(g) \/ WriteTakes(g) \/ SocketEnds(g) \/ CallerCancels(g)
             \/ UNCHANGED vars
      PROVE  UNCHANGED readVars
  BY <1>4 DEF Connect, SetCtx, SetDone, SetupFails, Setup, DialFails, DialSucceeds, SetConn,
     BeginConnect, BeginDisconnect, Cleanup, CloseConn, CancelCtx, LoadDone, WaitDone,
     ResetStarted, ResetStopping, NotifyDisconnect, WriteLoop, WriteTakes, WriteGetConn, WriteTop,
     WriteCancelled, WriteSucceeds, WriteSeesClose, WriteFails, WriteJudge, WriteNotify,
     SocketEnds, CallerCancels, vars
<1> QED
  BY <1>1, <1>2, <1>3, <1>4 DEF Next, Environment

(* A Connect works alone. *)
LEMMA ConnectKeepsContext ==
  ASSUME TypeOK, LifeInv, ContextInv, NEW p \in Callers, Connect(p)
  PROVE  ContextInv'
<1> USE DEF CallerStep, sharedVars, flagVars, fieldVars, linkVars, dialVars, loopVars, readVars,
      readLocals, cleanVars
<1>1. /\ Connecting(p) /\ my[p] = gen
      /\ \A q \in Callers : Connecting(q) => q = p
      /\ \A t \in Cleaners : ~AtWork(t)
      /\ \A g \in Gens : Quiet(g)
  <2>1. Connecting(p)
    BY DEF Connect, SetCtx, SetDone, SetupFails, Setup, DialFails, DialSucceeds, SetConn,
       SpawnLoops, Connecting
  <2> QED
    BY <2>1 DEF LifeInv, ConnectInv
<1>2. /\ UNCHANGED <<gen, done, ctx, kpc, kDone>>
      /\ \A q \in Callers : q # p => pc'[q] = pc[q]
      /\ pc'[p] # "setCtx"
      /\ SetCtx(p) => fCtx' = gen
      /\ ~SetCtx(p) => fCtx' = fCtx /\ pc[p] # "setCtx"
  BY <1>1 DEF Connect, SetCtx, SetDone, SetupFails, Setup, DialFails, DialSucceeds, SetConn,
     SpawnLoops, TypeOK, CallerTypes
<1>3. \A t \in Cleaners : kpc'[t] \notin {"load", "wait"}
  BY <1>1, <1>2 DEF AtWork, Stopping
<1>4. fCtx' = gen
  BY <1>1, <1>2 DEF ContextInv
<1>5. \A q \in Callers : Connecting(q)' => fCtx' = gen'
  BY <1>2, <1>4
<1>6. /\ \A g \in Gens : ~Quiet(g)' => fCtx' = g
      /\ \A g \in Gens : rpc'[g] = "ended" => rpc[g] = "ended"
  <2>1. CASE SpawnLoops(p)
    <3>1. \A g \in Gens : rpc'[g] = IF g = gen THEN "defer" ELSE rpc[g]
      BY <1>1, <2>1 DEF SpawnLoops, TypeOK, LoopTypes
    <3> QED
      BY <1>1, <1>4, <3>1 DEF Quiet
  <2>2. CASE ~SpawnLoops(p)
    <3>1. rpc' = rpc
      BY <2>2 DEF Connect, SetCtx, SetDone, SetupFails, Setup, DialFails, DialSucceeds, SetConn
    <3> QED
      BY <1>1, <3>1 DEF Quiet
  <2> QED
    BY <2>1, <2>2
<1> QED
  BY <1>2, <1>3, <1>5, <1>6 DEF ContextInv

LEMMA CleanupKeepsContext ==
  ASSUME TypeOK, CallerInv, LifeInv, ContextInv, NEW t \in Cleaners, Cleanup(t)
  PROVE  ContextInv'
<1> USE DEF CleanStep, sharedVars, flagVars, fieldVars, linkVars, callerVars, dialVars, loopVars,
      readVars, readLocals
<1>1. UNCHANGED <<fCtx, gen, done, rpc>> /\ \A p \in Callers : pc'[p] \in {pc[p], "idle"}
  BY DEF Cleanup, CloseConn, CancelCtx, LoadDone, WaitDone, ResetStarted, ResetStopping,
     NotifyDisconnect
<1>2. \A u \in Cleaners : u # t => kpc'[u] = kpc[u] /\ kDone'[u] = kDone[u]
  BY DEF Cleanup, CloseConn, CancelCtx, LoadDone, WaitDone, ResetStarted, ResetStopping,
     NotifyDisconnect, TypeOK, CleanTypes
<1>3. fCtx # 0 => fCtx \in Gens
  BY Numbers DEF TypeOK, FieldTypes
<1>4. fCtx # 0 /\ Cancelled(fCtx) => Cancelled(fCtx)'
  BY <1>1, <1>3 DEF Cleanup, CloseConn, CancelCtx, LoadDone, WaitDone, ResetStarted,
     ResetStopping, NotifyDisconnect, Cancelled
<1>5. kpc'[t] \in {"load", "wait"} /\ fCtx # 0 => Cancelled(fCtx)'
  <2>1. CASE CancelCtx(t)
    BY <1>1, <1>3, <2>1 DEF CancelCtx, Cancelled
  <2>2. CASE LoadDone(t)
    BY <1>4, <2>2 DEF LoadDone, ContextInv
  <2>3. CASE ~CancelCtx(t) /\ ~LoadDone(t)
    BY <2>3 DEF Cleanup, CloseConn, WaitDone, ResetStarted, ResetStopping, NotifyDisconnect,
       TypeOK, CleanTypes
  <2> QED
    BY <2>1, <2>2, <2>3
<1>6. kpc'[t] = "wait" => kDone'[t] # 0
  <2>1. CASE LoadDone(t)
    BY <2>1 DEF LoadDone, TypeOK, CleanTypes
  <2>2. CASE ~LoadDone(t)
    BY <2>2 DEF Cleanup, CloseConn, CancelCtx, WaitDone, ResetStarted, ResetStopping,
       NotifyDisconnect, TypeOK, CleanTypes
  <2> QED
    BY <2>1, <2>2
<1>7. \A u \in Cleaners :
        /\ kpc'[u] \in {"load", "wait"} /\ fCtx' # 0 => Cancelled(fCtx)'
        /\ kpc'[u] = "wait" => kDone'[u] # 0
  BY <1>1, <1>2, <1>4, <1>5, <1>6 DEF ContextInv
<1> QED
  BY <1>1, <1>7 DEF ContextInv, Connecting, Quiet

LEMMA ReadKeepsContext ==
  ASSUME TypeOK, LifeInv, ContextInv, NEW g \in Gens, ReadLoop(g) \/ ReadMessage(g)
  PROVE  ContextInv'
<1> USE DEF ReadStep, sharedVars, flagVars, fieldVars, linkVars, callerVars, dialVars, readLocals,
      cleanVars
<1>1. /\ UNCHANGED <<fCtx, gen, ctx, pc, kDone>>
      /\ \A h \in Gens : h # g => rpc'[h] = rpc[h]
      /\ ~Quiet(g)
  BY DEF ReadLoop, ReadDefer, ReadGetConn, ReadTop, ReadMessage, ReadSeesClose, ReadFails,
     ReadJudge, ReadNotify, ReadCloseDone, TypeOK, LoopTypes, Quiet
<1>2. /\ \A h \in Gens : h # g => done'[h] = done[h]
      /\ rpc'[g] = "ended" => done'[g] = 1
  <2>1. CASE ReadCloseDone(g)
    <3>1. rDone[g] = g /\ done[g] = 0
      BY <1>1, <2>1 DEF ReadCloseDone, LifeInv, ReaderInv, Quiet
    <3> QED
      BY <2>1, <3>1 DEF ReadCloseDone, TypeOK, FieldTypes
  <2>2. CASE ~ReadCloseDone(g)
    BY <2>2 DEF ReadLoop, ReadDefer, ReadGetConn, ReadTop, ReadMessage, ReadSeesClose, ReadFails,
       ReadJudge, ReadNotify, TypeOK, LoopTypes
  <2> QED
    BY <2>1, <2>2
<1>3. \A u \in Cleaners : kpc'[u] = kpc[u] \/ kpc'[u] = "close"
  BY DEF ReadLoop, ReadDefer, ReadGetConn, ReadTop, ReadMessage, ReadSeesClose, ReadFails,
     ReadJudge, ReadNotify, ReadCloseDone, TypeOK, CleanTypes
<1>4. \A h \in Gens : rpc'[h] = "ended" => done'[h] = 1
  BY <1>1, <1>2 DEF ContextInv
<1>5. \A h \in Gens : ~Quiet(h)' => fCtx' = h
  BY <1>1 DEF ContextInv, Quiet
<1> QED
  BY <1>1, <1>3, <1>4, <1>5 DEF ContextInv, Connecting, Cancelled

(* The other steps. *)
LEMMA OthersKeepContext ==
  ASSUME TypeOK, LifeInv', ContextInv,
         \/ \E p \in Callers : BeginConnect(p) \/ BeginDisconnect(p)
         \/ \E g \in Gens : WriteLoop(g) \/ WriteTakes(g) \/ SocketEnds(g) \/ CallerCancels(g)
         \/ UNCHANGED vars
  PROVE  ContextInv'
<1> USE DEF sharedVars, flagVars, fieldVars, linkVars, callerVars, dialVars, loopVars, readVars,
      readLocals, writeVars, cleanVars
<1>1. UNCHANGED <<fCtx, done, rpc, kDone>>
  BY DEF BeginConnect, BeginDisconnect, WriteLoop, WriteTakes, WriteGetConn, WriteTop,
     WriteCancelled, WriteSucceeds, WriteSeesClose, WriteFails, WriteJudge, WriteNotify,
     SocketEnds, CallerCancels, vars
<1>2. \A u \in Cleaners : kpc'[u] = kpc[u] \/ kpc'[u] = "close"
  BY DEF BeginConnect, BeginDisconnect, WriteLoop, WriteTakes, WriteGetConn, WriteTop,
     WriteCancelled, WriteSucceeds, WriteSeesClose, WriteFails, WriteJudge, WriteNotify,
     SocketEnds, CallerCancels, vars, TypeOK, CleanTypes
<1>3. fCtx # 0 /\ Cancelled(fCtx) => Cancelled(fCtx)'
  <2>1. fCtx # 0 => fCtx \in Gens
    BY Numbers DEF TypeOK, FieldTypes
  <2> QED
    BY <1>1, <2>1 DEF BeginConnect, BeginDisconnect, WriteLoop, WriteTakes, WriteGetConn,
       WriteTop, WriteCancelled, WriteSucceeds, WriteSeesClose, WriteFails, WriteJudge,
       WriteNotify, SocketEnds, CallerCancels, vars, Cancelled, TypeOK, FieldTypes
<1>4. \A q \in Callers : Connecting(q)' /\ pc'[q] # "setCtx" => fCtx' = gen'
  <2>1. ASSUME NEW p \in Callers, BeginConnect(p) PROVE pc'[p] = "setCtx" /\ Connecting(p)'
    BY <2>1 DEF BeginConnect, CallerStep, Connecting, TypeOK, CallerTypes
  <2>2. ASSUME NEW p \in Callers, BeginConnect(p), NEW q \in Callers, Connecting(q)'
        PROVE  q = p
    BY <2>1, <2>2 DEF LifeInv, ConnectInv
  <2>3. CASE \A p \in Callers : ~BeginConnect(p)
    <3>1. gen' = gen /\ \A q \in Callers : pc'[q] \in {pc[q], "disconnect"}
      BY <2>3 DEF BeginDisconnect, CallerStep, WriteLoop, WriteTakes, WriteGetConn, WriteTop,
         WriteCancelled, WriteSucceeds, WriteSeesClose, WriteFails, WriteJudge, WriteNotify,
         SocketEnds, CallerCancels, vars, TypeOK, CallerTypes
    <3> QED
      BY <1>1, <3>1 DEF ContextInv, Connecting
  <2> QED
    BY <2>1, <2>2, <2>3
<1> QED
  BY <1>1, <1>2, <1>3, <1>4 DEF ContextInv, Quiet

LEMMA EndsInductive == Spec => []EndsInv
<1>1. Init => EndsInv
  <2> SUFFICES ASSUME Init PROVE EndsInv
    OBVIOUS
  <2>1. MyInv /\ ConnInv /\ ContextInv
    BY DEF Init, MyInv, ConnInv, ContextInv, Connecting, Quiet, Cleaners
  <2>2. IInv
    BY InitiallyAtRest
  <2> QED
    BY <2>1, <2>2 DEF EndsInv
<1>2. EndsInv /\ [Next]_vars => EndsInv'
  <2> SUFFICES ASSUME EndsInv, [Next]_vars PROVE EndsInv'
    OBVIOUS
  <2>1. TypeOK /\ CallerInv /\ MyInv /\ ConnInv /\ IInv'
    BY LifePreserved DEF EndsInv, IInv
  <2>2. MyInv' /\ ConnInv'
    BY <2>1, MyPreserved, ConnPreserved
  <2>3. ASSUME ~overlap' PROVE ContextInv'
    <3>1. LifeInv /\ LifeInv' /\ ContextInv
      BY <2>1, <2>3, OverlapStays DEF EndsInv, IInv
    <3> QED
      BY <2>1, <3>1, ConnectKeepsContext, CleanupKeepsContext, ReadKeepsContext,
         OthersKeepContext DEF Next, Environment
  <2> QED
    BY <2>1, <2>2, <2>3 DEF EndsInv
<1> QED
  BY <1>1, <1>2, PTL DEF Spec

(* Nobody but the cleanup itself moves a cleanup that holds stopping. *)
LEMMA OthersLeaveCleanup ==
  ASSUME TypeOK, CleanupOwnership, NEW t \in Cleaners, Stopping(t), [Next]_vars
  PROVE  \/ Cleanup(t)
         \/ kpc'[t] = kpc[t] /\ kDone'[t] = kDone[t]
<1> DEFINE Same == kpc'[t] = kpc[t] /\ kDone'[t] = kDone[t]
<1>1. stopping = 1
  BY DEF CleanupOwnership
<1>2. ASSUME NEW u \in Cleaners, u # t, Cleanup(u) PROVE Same
  BY <1>2 DEF Cleanup, CloseConn, CancelCtx, LoadDone, WaitDone, ResetStarted, ResetStopping,
     NotifyDisconnect, CleanStep, TypeOK, CleanTypes
<1>3. ASSUME NEW p \in Callers, Connect(p) \/ BeginConnect(p) \/ BeginDisconnect(p) PROVE Same
  BY <1>1, <1>3 DEF Connect, SetCtx, SetDone, SetupFails, Setup, DialFails, DialSucceeds, SetConn,
     SpawnLoops, BeginConnect, BeginDisconnect, cleanVars
<1>4. ASSUME NEW g \in Gens, ReadLoop(g) \/ ReadMessage(g) PROVE Same
  BY <1>1, <1>4 DEF ReadLoop, ReadDefer, ReadGetConn, ReadTop, ReadMessage, ReadSeesClose,
     ReadFails, ReadJudge, ReadNotify, ReadCloseDone, cleanVars
<1>5. ASSUME NEW g \in Gens, WriteLoop(g) \/ WriteTakes(g) \/ SocketEnds(g) \/ CallerCancels(g)
      PROVE  Same
  BY <1>1, <1>5 DEF WriteLoop, WriteTakes, WriteGetConn, WriteTop, WriteCancelled, WriteSucceeds,
     WriteSeesClose, WriteFails, WriteJudge, WriteNotify, SocketEnds, CallerCancels, cleanVars
<1>6. CASE UNCHANGED vars
  BY <1>6 DEF vars, cleanVars
<1> QED
  BY <1>2, <1>3, <1>4, <1>5, <1>6 DEF Next, Environment

(* A readLoop, once started, never becomes one that has not been. *)
LEMMA OthersLeaveReader ==
  ASSUME TypeOK, MyInv, NEW g \in Gens, rpc[g] # "none", [Next]_vars
  PROVE  ReadLoop(g) \/ ReadMessage(g) \/ rpc'[g] = rpc[g]
<1> USE DEF sharedVars, flagVars, fieldVars, linkVars, callerVars, dialVars, loopVars, readVars,
      readLocals
<1>1. ASSUME NEW p \in Callers, SpawnLoops(p) PROVE rpc'[g] = rpc[g]
  <2>1. rpc[my[p]] = "none"
    BY <1>1 DEF SpawnLoops, CallerStep, Connecting, MyInv
  <2> QED
    BY <1>1, <2>1 DEF SpawnLoops, TypeOK, LoopTypes
<1>2. ASSUME NEW p \in Callers, (Connect(p) /\ ~SpawnLoops(p)) \/ BeginConnect(p) \/ BeginDisconnect(p)
      PROVE  rpc'[g] = rpc[g]
  BY <1>2 DEF Connect, SetCtx, SetDone, SetupFails, Setup, DialFails, DialSucceeds, SetConn,
     BeginConnect, BeginDisconnect
<1>3. ASSUME NEW t \in Cleaners, Cleanup(t) PROVE rpc'[g] = rpc[g]
  BY <1>3 DEF Cleanup, CloseConn, CancelCtx, LoadDone, WaitDone, ResetStarted, ResetStopping,
     NotifyDisconnect
<1>4. ASSUME NEW h \in Gens, h # g, ReadLoop(h) \/ ReadMessage(h) PROVE rpc'[g] = rpc[g]
  BY <1>4 DEF ReadLoop, ReadDefer, ReadGetConn, ReadTop, ReadMessage, ReadSeesClose, ReadFails,
     ReadJudge, ReadNotify, ReadCloseDone, ReadStep, TypeOK, LoopTypes
<1>5. ASSUME NEW h \in Gens, WriteLoop(h) \/ WriteTakes(h) \/ SocketEnds(h) \/ CallerCancels(h)
      PROVE  rpc'[g] = rpc[g]
  BY <1>5 DEF WriteLoop, WriteTakes, WriteGetConn, WriteTop, WriteCancelled, WriteSucceeds,
     WriteSeesClose, WriteFails, WriteJudge, WriteNotify, SocketEnds, CallerCancels
<1>6. CASE UNCHANGED vars
  BY <1>6 DEF vars
<1> QED
  BY <1>1, <1>2, <1>3, <1>4, <1>5, <1>6 DEF Next, Environment

(* The done channel in the field is not one that nobody will close. *)
NoOrphan == fDone = 0 \/ rpc[fDone] # "none"

(* While a cleanup is at work, nobody replaces the fields. *)
LEMMA FieldsStay ==
  ASSUME TypeOK, LifeInv, MyInv, NEW t \in Cleaners, AtWork(t), [Next]_vars, ~overlap'
  PROVE  UNCHANGED <<fDone, fCtx>> /\ (NoOrphan => NoOrphan')
<1> USE DEF sharedVars, flagVars, fieldVars, callerVars
<1>1. \A p \in Callers : ~Connecting(p)
  BY DEF LifeInv, ConnectInv
<1>2. ASSUME NEW p \in Callers PROVE ~Connect(p) /\ ~BeginConnect(p)
  BY <1>1 DEF Connect, SetCtx, SetDone, SetupFails, Setup, DialFails, DialSucceeds, SetConn,
     SpawnLoops, CallerStep, Connecting, BeginConnect, LeftoverAtWork, AtWork
<1>3. UNCHANGED <<fDone, fCtx>>
  BY <1>2 DEF Next, Environment, Cleanup, CloseConn, CancelCtx, LoadDone, WaitDone, ResetStarted,
     ResetStopping, NotifyDisconnect, BeginDisconnect, ReadLoop, ReadDefer, ReadGetConn, ReadTop,
     ReadMessage, ReadSeesClose, ReadFails, ReadJudge, ReadNotify, ReadCloseDone, WriteLoop,
     WriteTakes, WriteGetConn, WriteTop, WriteCancelled, WriteSucceeds, WriteSeesClose, WriteFails,
     WriteJudge, WriteNotify, SocketEnds, CallerCancels, vars
<1>4. ASSUME fDone # 0, rpc[fDone] # "none" PROVE rpc'[fDone] # "none"
  <2>1. fDone \in Gens
    BY <1>4, Numbers DEF TypeOK, FieldTypes
  <2>2. CASE ReadLoop(fDone) \/ ReadMessage(fDone)
    BY <2>1, <2>2 DEF ReadLoop, ReadDefer, ReadGetConn, ReadTop, ReadMessage, ReadSeesClose,
       ReadFails, ReadJudge, ReadNotify, ReadCloseDone, ReadStep, TypeOK, LoopTypes
  <2> QED
    BY <1>4, <2>1, <2>2, OthersLeaveReader
<1> QED
  BY <1>3, <1>4 DEF NoOrphan

(* A cleanup goes on to its next place, and when it waits for a channel,   *)
(* that channel is closed.                                                 *)
LEMMA CleanupMoves ==
  ASSUME TypeOK, NEW t \in Cleaners, Cleanup(t)
  PROVE  /\ kpc[t] = "close" => kpc'[t] = "cancel"
         /\ kpc[t] = "cancel" => kpc'[t] = "load"
         /\ kpc[t] = "load" => kpc'[t] \in {"wait", "resetStarted"}
         /\ kpc[t] = "wait" => kpc'[t] = "resetStarted"
         /\ kpc[t] = "resetStarted" => kpc'[t] = "resetStopping"
         /\ kpc[t] = "resetStopping" => stopping' = 0
         /\ UNCHANGED overlap
BY DEF Cleanup, CloseConn, CancelCtx, LoadDone, WaitDone, ResetStarted, ResetStopping,
   NotifyDisconnect, CleanStep, TypeOK, CleanTypes, sharedVars

(* The readLoop a cleanup waits for: its socket is closed and its context  *)
(* cancelled, so that it reads no further message and takes at most three  *)
(* steps to its end.                                                       *)
LEMMA AwaitedReaderMoves ==
  ASSUME EndsInv, ~overlap, NEW t \in Cleaners, NEW g \in Gens, kpc[t] = "wait",
         fDone = g, rpc[g] # "none", [Next]_vars
  PROVE  \/ rpc'[g] = rpc[g]
         \/ rpc[g] = "defer" /\ rpc'[g] = "getConn"
         \/ rpc[g] \in {"getConn", "top", "failed", "notify"} /\ rpc'[g] = "closeDone"
         \/ rpc[g] = "reading" /\ rpc'[g] \in {"failed", "closeDone"}
         \/ rpc[g] = "closeDone" /\ rpc'[g] = "ended"
<1>1. TypeOK /\ LifeInv /\ MyInv /\ ConnInv /\ ContextInv
  BY DEF EndsInv, IInv
<1>2. NoOpenSocket
  BY <1>1 DEF LifeInv, CleanInv, AtWork, Stopping
<1>3. ~ReadMessage(g)
  <2>1. SUFFICES ASSUME rpc[g] = "reading" PROVE sock[rConn[g]] # "open"
    BY DEF ReadMessage, ReadStep
  <2>2. rConn[g] \in Gens
    BY <1>1, <2>1, Numbers DEF ConnInv, TypeOK, LoopTypes
  <2> QED
    BY <1>2, <2>2 DEF NoOpenSocket
<1>4. ASSUME ~Quiet(g) PROVE Cancelled(fCtx)
  <2>1. fCtx = g /\ fCtx # 0
    BY <1>1, <1>4, ClientAssumption DEF ContextInv, Gens
  <2> QED
    BY <1>1, <2>1 DEF ContextInv
<1>5. CASE ReadLoop(g)
  <2>1. ~Quiet(g)
    BY <1>5 DEF ReadLoop, ReadDefer, ReadGetConn, ReadTop, ReadSeesClose, ReadFails, ReadJudge,
       ReadNotify, ReadCloseDone, ReadStep, Quiet
  <2> QED
    BY <1>1, <1>2, <1>4, <1>5, <2>1 DEF ReadLoop, ReadDefer, ReadGetConn, ReadTop, ReadSeesClose,
       ReadFails, ReadJudge, ReadNotify, ReadCloseDone, ReadStep, NoOpenSocket, TypeOK, LoopTypes
<1> QED
  BY <1>1, <1>3, <1>5, OthersLeaveReader

(* The cleanup of t waits for the readLoop of g, which has been started. *)
WaitsFor(t, g) == kpc[t] = "wait" /\ fDone = g /\ rpc[g] # "none" /\ ~overlap

(* It has waited, or a Connect has met leftovers. *)
HasWaited(t) == kpc[t] = "resetStarted" \/ overlap

LEMMA StillWaits ==
  ASSUME EndsInv, CleanupOwnership, NEW t \in Cleaners, NEW g \in Gens, WaitsFor(t, g),
         [Next]_vars
  PROVE  /\ WaitsFor(t, g)' \/ HasWaited(t)'
         /\ Cleanup(t) => HasWaited(t)'
<1>1. TypeOK /\ LifeInv /\ MyInv
  BY DEF EndsInv, IInv, WaitsFor
<1>2. Stopping(t) /\ AtWork(t)
  BY DEF WaitsFor, Stopping, AtWork
<1>3. kpc'[t] \in {"wait", "resetStarted"} /\ (Cleanup(t) => kpc'[t] = "resetStarted")
  BY <1>1, <1>2, OthersLeaveCleanup, CleanupMoves DEF WaitsFor
<1>4. rpc'[g] # "none"
  BY AwaitedReaderMoves DEF WaitsFor
<1>5. ~overlap' => fDone' = fDone
  BY <1>1, <1>2, FieldsStay
<1> QED
  BY <1>3, <1>4, <1>5 DEF WaitsFor, HasWaited

(* What the fairness says of one goroutine. *)
FairCleanup(t) == WF_vars(Cleanup(t))
FairReader(g) == WF_vars(ReadLoop(g))
FairLoops(g) == WF_vars(ReadLoop(g)) /\ WF_vars(WriteLoop(g))

LEMMA EveryCleanupIsFair == Fairness => \A t \in Cleaners : FairCleanup(t)
BY PTL DEF Fairness, FairCleanup

LEMMA EveryReaderIsFair == Fairness => \A g \in Gens : FairReader(g)
<1>1. Fairness => \A g \in Gens : FairLoops(g)
  BY PTL DEF Fairness, FairLoops
<1>2. ASSUME NEW g \in Gens PROVE FairLoops(g) => FairReader(g)
  BY PTL DEF FairLoops, FairReader
<1> QED
  BY <1>1, <1>2

(* What holds at every moment of a fair behaviour in which nobody is stuck.*)
Watched ==
  /\ []EndsInv /\ []CleanupOwnership /\ [][Next]_vars
  /\ []CleanupUnblocked /\ []Fairness

(* Whatever place the readLoop is at, the cleanup that waits for it goes   *)
(* on in the end.                                                          *)
LEMMA WaitEnds ==
  ASSUME NEW t \in Cleaners, NEW g \in Gens
  PROVE  Watched => (WaitsFor(t, g) ~> HasWaited(t))
<1> DEFINE At(places) == WaitsFor(t, g) /\ rpc[g] \in places
           First == At({"defer"})
           Reading == At({"reading"})
           Leaving == At({"getConn", "top", "failed", "notify"})
           Closing == At({"closeDone"})
           Ended == At({"ended"})
           Goal == HasWaited(t)
           Inv == EndsInv /\ CleanupOwnership
           ReaderCanGo == ENABLED <<ReadLoop(g)>>_vars
           CleanupCanGo == ENABLED <<Cleanup(t)>>_vars
<1>1. EndsInv => (WaitsFor(t, g) => First \/ Reading \/ Leaving \/ Closing \/ Ended)
  BY DEF EndsInv, IInv, TypeOK, LoopTypes, ReadPC, WaitsFor
<1>2. ASSUME Inv, [Next]_vars
      PROVE  /\ First => First' \/ Leaving' \/ Goal'
             /\ Reading => Reading' \/ Leaving' \/ Closing' \/ Goal'
             /\ Leaving => Leaving' \/ Closing' \/ Goal'
             /\ Closing => Closing' \/ Ended' \/ Goal'
             /\ Ended => Ended' \/ Goal'
  BY <1>2, StillWaits, AwaitedReaderMoves DEF WaitsFor
<1>3. ASSUME Inv, <<ReadLoop(g)>>_vars, [Next]_vars
      PROVE  /\ First => Leaving' \/ Goal'
             /\ Reading => Leaving' \/ Closing' \/ Goal'
             /\ Leaving => Closing' \/ Goal'
             /\ Closing => Ended' \/ Goal'
  <2>1. rpc'[g] # rpc[g]
    BY <1>3 DEF EndsInv, IInv, TypeOK, LoopTypes, ReadLoop, ReadDefer, ReadGetConn, ReadTop,
       ReadSeesClose, ReadFails, ReadJudge, ReadNotify, ReadCloseDone, ReadStep
  <2> QED
    BY <1>3, <2>1, StillWaits, AwaitedReaderMoves DEF WaitsFor
<1>4. ASSUME Inv, <<Cleanup(t)>>_vars, [Next]_vars
      PROVE  Ended => Goal'
  BY <1>4, StillWaits
<1>5. ASSUME EndsInv, CleanupUnblocked
      PROVE  /\ First \/ Reading \/ Leaving \/ Closing => ReaderCanGo
             /\ Ended => CleanupCanGo
  <2>1. ASSUME WaitsFor(t, g)
        PROVE  /\ kDone[t] = g /\ ~OrphanDone /\ ~overlap /\ Stopping(t)
               /\ AwaitsReader(t) <=> rpc[g] # "ended"
    BY <1>5, <2>1, ClientAssumption DEF WaitsFor, OrphanDone, AwaitsReader, Stopping, EndsInv, IInv,
       LifeInv, CleanInv, ReaderInv, ContextInv, Gens
  <2> QED
    BY <1>5, <2>1 DEF CleanupUnblocked, WaitsFor
<1>6. Fairness => FairReader(g) /\ FairCleanup(t)
  BY EveryReaderIsFair, EveryCleanupIsFair
<1>7. FairReader(g) <=> ([]<>~ReaderCanGo \/ []<><<ReadLoop(g)>>_vars)
  BY PTL DEF FairReader, ReaderCanGo
<1>8. FairCleanup(t) <=> ([]<>~CleanupCanGo \/ []<><<Cleanup(t)>>_vars)
  BY PTL DEF FairCleanup, CleanupCanGo
<1> QED
  <2>1. Goal <=> HasWaited(t)
    OBVIOUS
  <2>2. Inv <=> EndsInv /\ CleanupOwnership
    OBVIOUS
  <2> HIDE DEF First, Reading, Leaving, Closing, Ended, Goal, Inv, ReaderCanGo, CleanupCanGo
  <2> QED
    BY <1>1, <1>2, <1>3, <1>4, <1>5, <1>6, <1>7, <1>8, <2>1, <2>2, PTL DEF Watched

(* A cleanup waits for a readLoop that has been started. *)
AwaitsLive(t) == kpc[t] = "wait" /\ NoOrphan /\ ~overlap
WaitWillEnd(t) == <>HasWaited(t)

(* A cleanup is at work and will not wait for a channel nobody closes. *)
MayEnd(t) == Stopping(t) /\ (AtWork(t) => NoOrphan)

(* No cleanup is at work, or a Connect has met leftovers. *)
CleanupOver == stopping = 0 \/ overlap

LEMMA EveryWaitEnds ==
  ASSUME NEW t \in Cleaners
  PROVE  Watched => (AwaitsLive(t) ~> HasWaited(t))
<1>1. ASSUME NEW g \in Gens
      PROVE  Watched => (WaitsFor(t, g) => WaitWillEnd(t))
  <2>1. Watched => (WaitsFor(t, g) ~> HasWaited(t))
    BY WaitEnds
  <2> QED
    BY <2>1, PTL DEF WaitWillEnd
<1>2. EndsInv => (AwaitsLive(t) => \E g \in Gens : WaitsFor(t, g))
  <2> SUFFICES ASSUME EndsInv, AwaitsLive(t) PROVE \E g \in Gens : WaitsFor(t, g)
    OBVIOUS
  <2>1. fDone # 0 /\ fDone \in Gens
    BY Numbers DEF AwaitsLive, EndsInv, IInv, LifeInv, CleanInv, ContextInv, TypeOK, FieldTypes
  <2>2. WaitsFor(t, fDone)
    BY <2>1 DEF AwaitsLive, WaitsFor, NoOrphan
  <2> QED
    BY <2>1, <2>2
<1>3. Watched => (AwaitsLive(t) => WaitWillEnd(t))
  <2>1. Watched => EndsInv
    BY PTL DEF Watched
  <2> QED
    BY <1>1, <1>2, <2>1
<1> QED
  BY <1>3, PTL DEF Watched, WaitWillEnd

(* A cleanup that does not wait for the channel of a failed Connect ends.  *)
LEMMA CleanupOfEnds ==
  ASSUME NEW t \in Cleaners
  PROVE  Watched => (MayEnd(t) ~> CleanupOver)
<1> DEFINE At(place) == kpc[t] = place /\ NoOrphan /\ ~overlap
           Closes == At("close")
           Cancels == At("cancel")
           Loads == At("load")
           Waits == AwaitsLive(t)
           Resets == kpc[t] = "resetStarted" /\ ~overlap
           Frees == kpc[t] = "resetStopping" /\ ~overlap
           Waited == HasWaited(t)
           Goal == CleanupOver
           Begins == MayEnd(t)
           Inv == EndsInv /\ CleanupOwnership
           CanGo == ENABLED <<Cleanup(t)>>_vars
<1>1. Begins => Closes \/ Cancels \/ Loads \/ Waits \/ Resets \/ Frees \/ Goal
  BY DEF MayEnd, AtWork, Stopping, CleanupOver, AwaitsLive
<1>2. Waited => Resets \/ Goal
  BY DEF HasWaited, CleanupOver
<1>3. ASSUME Inv, [Next]_vars
      PROVE  /\ Closes => Closes' \/ Cancels' \/ Goal'
             /\ Cancels => Cancels' \/ Loads' \/ Goal'
             /\ Loads => Loads' \/ Waits' \/ Resets' \/ Goal'
             /\ Resets => Resets' \/ Frees' \/ Goal'
             /\ Frees => Frees' \/ Goal'
  <2>1. ASSUME Stopping(t)
        PROVE  \/ kpc'[t] = kpc[t]
               \/ kpc[t] = "close" /\ kpc'[t] = "cancel"
               \/ kpc[t] = "cancel" /\ kpc'[t] = "load"
               \/ kpc[t] = "load" /\ kpc'[t] \in {"wait", "resetStarted"}
               \/ kpc[t] = "wait"
               \/ kpc[t] = "resetStarted" /\ kpc'[t] = "resetStopping"
               \/ kpc[t] = "resetStopping" /\ stopping' = 0
    BY <1>3, <2>1, OthersLeaveCleanup, CleanupMoves DEF EndsInv, IInv, Stopping
  <2>2. ASSUME Closes \/ Cancels \/ Loads, ~overlap' PROVE NoOrphan'
    <3>1. AtWork(t) /\ NoOrphan /\ ~overlap
      BY <2>2 DEF AtWork, Stopping
    <3> QED
      BY <1>3, <2>2, <3>1, FieldsStay DEF EndsInv, IInv
  <2> QED
    BY <2>1, <2>2 DEF Stopping, CleanupOver, AwaitsLive
<1>4. ASSUME Inv, <<Cleanup(t)>>_vars
      PROVE  /\ Closes => Cancels' \/ Goal'
             /\ Cancels => Loads' \/ Goal'
             /\ Loads => Waits' \/ Resets' \/ Goal'
             /\ Resets => Frees' \/ Goal'
             /\ Frees => Goal'
  <2>1. TypeOK /\ [Next]_vars
    BY <1>4 DEF EndsInv, IInv, Next
  <2>2. ASSUME Closes \/ Cancels \/ Loads, ~overlap' PROVE NoOrphan'
    <3>1. AtWork(t) /\ NoOrphan /\ ~overlap
      BY <2>2 DEF AtWork, Stopping
    <3> QED
      BY <1>4, <2>1, <2>2, <3>1, FieldsStay DEF EndsInv, IInv
  <2> QED
    BY <1>4, <2>1, <2>2, CleanupMoves DEF CleanupOver, AwaitsLive
<1>5. CleanupUnblocked => (Closes \/ Cancels \/ Loads \/ Resets \/ Frees => CanGo)
  BY DEF CleanupUnblocked, Stopping, AwaitsReader
<1>6. Watched => (Waits ~> Waited)
  BY EveryWaitEnds
<1>7. Fairness => FairCleanup(t)
  BY EveryCleanupIsFair
<1>8. FairCleanup(t) <=> ([]<>~CanGo \/ []<><<Cleanup(t)>>_vars)
  BY PTL DEF FairCleanup, CanGo
<1> QED
  <2>1. Inv <=> EndsInv /\ CleanupOwnership
    OBVIOUS
  <2>2. Goal <=> CleanupOver
    OBVIOUS
  <2>3. Begins <=> MayEnd(t)
    OBVIOUS
  <2> HIDE DEF Closes, Cancels, Loads, Waits, Resets, Frees, Waited, Goal, Begins, Inv, CanGo
  <2> QED
    BY <1>1, <1>2, <1>3, <1>4, <1>5, <1>6, <1>7, <1>8, <2>1, <2>2, <2>3, PTL DEF Watched

CleanupWillEnd == <>CleanupOver

(* Every cleanup, of a Disconnect or of a failing loop, ends when the last *)
(* Connect succeeded (client.go, cleanupWithStatus and readLoop), whatever *)
(* callers, loops, server and network do meanwhile: the readLoop it waits  *)
(* for finds its socket closed and its context cancelled.  Fairness is     *)
(* written as []Fairness, which says the same: each of its parts says what *)
(* happens again and again.                                                *)
THEOREM CleanupsEnd == Spec /\ []Fairness /\ []CleanupUnblocked => CleanupCompletes
<1> DEFINE Assumed == Spec /\ []Fairness /\ []CleanupUnblocked
           Premise == stopping = 1 /\ ~OrphanDone
<1>1. Assumed => Watched
  BY EndsInductive, OneCleanupAtATime, PTL DEF Watched, Spec
<1>2. ASSUME NEW t \in Cleaners
      PROVE  Watched => (MayEnd(t) => CleanupWillEnd)
  <2>1. Watched => (MayEnd(t) ~> CleanupOver)
    BY CleanupOfEnds
  <2> QED
    BY <2>1, PTL DEF CleanupWillEnd
<1>3. EndsInv /\ CleanupOwnership /\ Premise =>
        CleanupOver \/ \E t \in Cleaners : MayEnd(t)
  BY DEF EndsInv, IInv, LifeInv, ConnectInv, OrphanDone, NoOrphan, CleanupOwnership, CleanupOver,
     MayEnd
<1>4. Watched => (Premise => CleanupWillEnd)
  <2>1. Watched => EndsInv /\ CleanupOwnership
    BY PTL DEF Watched
  <2>2. CleanupOver => CleanupWillEnd
    BY PTL DEF CleanupWillEnd
  <2> QED
    BY <1>2, <1>3, <2>1, <2>2
<1> QED
  <2>1. CleanupCompletes <=> (Premise ~> CleanupOver)
    BY PTL DEF CleanupCompletes, CleanupOver
  <2> HIDE DEF Premise
  <2> QED
    BY <1>1, <1>4, <2>1, PTL DEF Watched, CleanupWillEnd

-----------------------------------------------------------------------------
(* Failures end connections *)

(* Who takes stopping begins a cleanup. *)
LEMMA StoppingTaken ==
  ASSUME TypeOK, stopping = 0, stopping' # 0, [Next]_vars
  PROVE  \E t \in Cleaners : kpc'[t] = "close"
<1> USE DEF sharedVars, flagVars
<1>1. ASSUME NEW t \in Cleaners, kpc' = [kpc EXCEPT ![t] = "close"] PROVE kpc'[t] = "close"
  BY <1>1 DEF TypeOK, CleanTypes
<1>2. ASSUME NEW p \in Callers, BeginDisconnect(p)
      PROVE  kpc' = [kpc EXCEPT ![p] = "close"] /\ p \in Cleaners
  BY <1>2 DEF BeginDisconnect, Cleaners
<1>3. ASSUME NEW g \in Gens, ReadNotify(g)
      PROVE  kpc' = [kpc EXCEPT ![ReadCleaner(g)] = "close"] /\ ReadCleaner(g) \in Cleaners
  BY <1>3 DEF ReadNotify, Cleaners
<1>4. ASSUME NEW g \in Gens, WriteNotify(g)
      PROVE  kpc' = [kpc EXCEPT ![WriteCleaner(g)] = "close"] /\ WriteCleaner(g) \in Cleaners
  BY <1>4 DEF WriteNotify, Cleaners
<1>5. ASSUME NEW t \in Cleaners, Cleanup(t) PROVE FALSE
  BY <1>5 DEF Cleanup, CloseConn, CancelCtx, LoadDone, WaitDone, ResetStarted, ResetStopping,
     NotifyDisconnect
<1> QED
  BY <1>1, <1>2, <1>3, <1>4, <1>5, LockUntouched DEF Next, Environment, lockVars

(* The cleanup of t is about to close the connection of g. *)
AboutToClose(t, g) == kpc[t] = "close" /\ conn = g
Gone(g) == conn # g
WillBeGone(g) == <>Gone(g)

LEMMA ConnectionCloses ==
  ASSUME NEW t \in Cleaners, NEW g \in Gens
  PROVE  Watched => (AboutToClose(t, g) => WillBeGone(g))
<1> DEFINE Closes == AboutToClose(t, g)
           Goal == Gone(g)
           Inv == EndsInv /\ CleanupOwnership
           CanGo == ENABLED <<Cleanup(t)>>_vars
<1>1. ASSUME Inv, Closes, [Next]_vars PROVE Closes' \/ Goal'
  <2>1. CASE Cleanup(t)
    BY <1>1, <2>1, ClientAssumption DEF AboutToClose, Gone, Cleanup, CloseConn, CancelCtx, LoadDone,
       WaitDone, ResetStarted, ResetStopping, NotifyDisconnect, CleanStep, Gens
  <2>2. CASE kpc'[t] = kpc[t]
    BY <1>1, <2>2 DEF AboutToClose, Gone
  <2> QED
    BY <1>1, <2>1, <2>2, OthersLeaveCleanup DEF EndsInv, IInv, AboutToClose, Stopping
<1>2. ASSUME Closes, <<Cleanup(t)>>_vars PROVE Goal'
  BY <1>2, ClientAssumption DEF AboutToClose, Gone, Cleanup, CloseConn, CancelCtx, LoadDone,
     WaitDone, ResetStarted, ResetStopping, NotifyDisconnect, CleanStep, Gens
<1>3. CleanupUnblocked => (Closes => CanGo)
  BY DEF CleanupUnblocked, AboutToClose, Stopping, AwaitsReader
<1>4. Fairness => FairCleanup(t)
  BY EveryCleanupIsFair
<1>5. FairCleanup(t) <=> ([]<>~CanGo \/ []<><<Cleanup(t)>>_vars)
  BY PTL DEF FairCleanup, CanGo
<1> QED
  <2>1. Inv <=> EndsInv /\ CleanupOwnership
    OBVIOUS
  <2>2. (Goal <=> Gone(g)) /\ (Closes <=> AboutToClose(t, g))
    OBVIOUS
  <2> HIDE DEF Closes, Goal, Inv, CanGo
  <2> QED
    BY <1>1, <1>2, <1>3, <1>4, <1>5, <2>1, <2>2, PTL DEF Watched, WillBeGone

(* A readLoop that fails when nobody is stopping the client brings its     *)
(* connection down (client.go, notifyDisconnectError), itself or through   *)
(* whoever takes stopping first, also when Connects meet leftovers.        *)
THEOREM ErrorsTearDown == Spec /\ []Fairness /\ []CleanupUnblocked => ErrorTearsDown
<1> DEFINE Assumed == Spec /\ []Fairness /\ []CleanupUnblocked
<1> SUFFICES ASSUME NEW g \in Gens
             PROVE  Assumed => (rpc[g] = "notify" /\ stopping = 0 ~> conn # g)
  BY DEF ErrorTearsDown
<1> DEFINE Fails == rpc[g] = "notify" /\ stopping = 0
           Closes == \E t \in Cleaners : AboutToClose(t, g)
           Goal == Gone(g)
           WillEnd == WillBeGone(g)
           CanGo == ENABLED <<ReadLoop(g)>>_vars
<1>1. Assumed => Watched
  BY EndsInductive, OneCleanupAtATime, PTL DEF Watched, Spec
<1>2. Watched => (Closes => WillEnd)
  BY ConnectionCloses
<1>3. ASSUME EndsInv, Fails, [Next]_vars PROVE Fails' \/ Closes' \/ Goal'
  <2>1. CASE stopping' = 0
    <3>1. ~ReadLoop(g) /\ ~ReadMessage(g)
      BY <1>3, <2>1 DEF ReadLoop, ReadDefer, ReadGetConn, ReadTop, ReadMessage, ReadSeesClose,
         ReadFails, ReadJudge, ReadNotify, ReadCloseDone, ReadStep
    <3> QED
      BY <1>3, <2>1, <3>1, OthersLeaveReader DEF EndsInv, IInv
  <2>2. CASE stopping' # 0
    <3>1. PICK t \in Cleaners : kpc'[t] = "close"
      BY <1>3, <2>2, StoppingTaken DEF EndsInv, IInv
    <3>2. AboutToClose(t, g)' \/ Goal'
      BY <3>1 DEF AboutToClose, Gone
    <3> QED
      BY <3>2
  <2> QED
    BY <2>1, <2>2
<1>4. ASSUME EndsInv, Fails, <<ReadLoop(g)>>_vars PROVE Closes' \/ Goal'
  <2>1. ReadNotify(g)
    BY <1>4 DEF ReadLoop, ReadDefer, ReadGetConn, ReadTop, ReadSeesClose, ReadFails, ReadJudge,
       ReadNotify, ReadCloseDone, ReadStep
  <2>2. stopping' # 0
    BY <2>1 DEF ReadNotify
  <2>3. [Next]_vars
    BY <1>4 DEF Next
  <2>4. PICK t \in Cleaners : kpc'[t] = "close"
    BY <1>4, <2>2, <2>3, StoppingTaken DEF EndsInv, IInv
  <2>5. AboutToClose(t, g)' \/ Goal'
    BY <2>4 DEF AboutToClose, Gone
  <2> QED
    BY <2>5
<1>5. CleanupUnblocked => (Fails => CanGo)
  BY DEF CleanupUnblocked
<1>6. Fairness => FairReader(g)
  BY EveryReaderIsFair
<1>7. FairReader(g) <=> ([]<>~CanGo \/ []<><<ReadLoop(g)>>_vars)
  BY PTL DEF FairReader, CanGo
<1> QED
  <2>1. (Fails <=> rpc[g] = "notify" /\ stopping = 0) /\ (Goal <=> conn # g)
    BY DEF Gone
  <2>2. WillEnd <=> <>Goal
    BY PTL DEF WillBeGone
  <2> HIDE DEF Fails, Closes, Goal, WillEnd, CanGo
  <2> QED
    BY <1>1, <1>2, <1>3, <1>4, <1>5, <1>6, <1>7, <2>1, <2>2, PTL DEF Watched

-----------------------------------------------------------------------------
(* No reader that is waited for is blocked *)

(* A socket in use has been dialled. *)
DialledInv ==
  /\ conn # 0 => sock[conn] # "none"
  /\ \A p \in Callers : pc[p] = "setConn" => sock[my[p]] # "none"
  /\ \A g \in Gens : rConn[g] # 0 => sock[rConn[g]] # "none"

LEMMA DialledPreserved ==
  ASSUME TypeOK, MyInv, DialledInv, [Next]_vars
  PROVE  DialledInv'
<1> USE DEF sharedVars, flagVars, fieldVars, linkVars, callerVars, dialVars, loopVars, readVars,
      readLocals, writeVars, cleanVars
<1>1. \A g \in Gens : sock[g] # "none" => sock'[g] # "none"
  BY DEF Next, Environment, Connect, SetCtx, SetDone, SetupFails, Setup, DialFails, DialSucceeds,
     SetConn, SpawnLoops, BeginConnect, BeginDisconnect, Cleanup, CloseConn, CancelCtx, LoadDone,
     WaitDone, ResetStarted, ResetStopping, NotifyDisconnect, ReadLoop, ReadDefer, ReadGetConn,
     ReadTop, ReadMessage, ReadSeesClose, ReadFails, ReadJudge, ReadNotify, ReadCloseDone,
     WriteLoop, WriteTakes, WriteGetConn, WriteTop, WriteCancelled, WriteSucceeds, WriteSeesClose,
     WriteFails, WriteJudge, WriteNotify, SocketEnds, CallerCancels, vars, TypeOK, FieldTypes
<1>2. (conn # 0 => conn \in Gens) /\ \A g \in Gens : rConn[g] # 0 => rConn[g] \in Gens
  BY Numbers DEF TypeOK, FieldTypes, LoopTypes
<1>3. \A p \in Callers : Connecting(p) => my[p] \in Gens
  BY DEF MyInv
<1>4. conn' # 0 => sock'[conn'] # "none"
  <2>1. ASSUME NEW p \in Callers, SetConn(p) PROVE sock'[conn'] # "none"
    <3>1. pc[p] = "setConn" /\ conn' = my[p] /\ my[p] \in Gens
      BY <1>3, <2>1 DEF SetConn, CallerStep, Connecting
    <3> QED
      BY <1>1, <3>1 DEF DialledInv
  <2>2. ASSUME \A p \in Callers : ~SetConn(p) PROVE conn' \in {conn, 0}
    BY <2>2 DEF Next, Environment, Connect, SetCtx, SetDone, SetupFails, Setup, DialFails,
       DialSucceeds, SpawnLoops, BeginConnect, BeginDisconnect, Cleanup, CloseConn, CancelCtx,
       LoadDone, WaitDone, ResetStarted, ResetStopping, NotifyDisconnect, ReadLoop, ReadDefer,
       ReadGetConn, ReadTop, ReadMessage, ReadSeesClose, ReadFails, ReadJudge, ReadNotify,
       ReadCloseDone, WriteLoop, WriteTakes, WriteGetConn, WriteTop, WriteCancelled,
       WriteSucceeds, WriteSeesClose, WriteFails, WriteJudge, WriteNotify, SocketEnds,
       CallerCancels, vars
  <2> QED
    BY <1>1, <1>2, <2>1, <2>2 DEF DialledInv
<1>5. \A p \in Callers : pc'[p] = "setConn" => sock'[my'[p]] # "none"
  <2> SUFFICES ASSUME NEW p \in Callers, pc'[p] = "setConn" PROVE sock'[my'[p]] # "none"
    OBVIOUS
  <2>1. CASE DialSucceeds(p)
    <3>1. my'[p] = my[p] /\ my[p] \in Gens
      BY <1>3, <2>1 DEF DialSucceeds, CallerStep, Connecting
    <3> QED
      BY <2>1, <3>1 DEF DialSucceeds, TypeOK, FieldTypes
  <2>2. CASE ~DialSucceeds(p)
    <3>1. pc[p] = "setConn" /\ my'[p] = my[p]
      BY <2>2 DEF Next, Environment, Connect, CallerStep, SetCtx, SetDone, SetupFails, Setup,
         DialFails, DialSucceeds, SetConn, SpawnLoops, BeginConnect, BeginDisconnect, Cleanup,
         CloseConn, CancelCtx, LoadDone, WaitDone, ResetStarted, ResetStopping, NotifyDisconnect,
         ReadLoop, ReadDefer, ReadGetConn, ReadTop, ReadMessage, ReadSeesClose, ReadFails,
         ReadJudge, ReadNotify, ReadCloseDone, WriteLoop, WriteTakes, WriteGetConn, WriteTop,
         WriteCancelled, WriteSucceeds, WriteSeesClose, WriteFails, WriteJudge, WriteNotify,
         SocketEnds, CallerCancels, vars, TypeOK, CallerTypes
    <3> QED
      BY <1>1, <1>3, <3>1 DEF DialledInv, Connecting
  <2> QED
    BY <2>1, <2>2
<1>6. \A g \in Gens : rConn'[g] # 0 => sock'[rConn'[g]] # "none"
  <2> SUFFICES ASSUME NEW g \in Gens, rConn'[g] # 0 PROVE sock'[rConn'[g]] # "none"
    OBVIOUS
  <2>1. rConn'[g] \in {rConn[g], conn, 0}
    BY DEF Next, Environment, Connect, SetCtx, SetDone, SetupFails, Setup, DialFails,
       DialSucceeds, SetConn, SpawnLoops, BeginConnect, BeginDisconnect, Cleanup, CloseConn,
       CancelCtx, LoadDone, WaitDone, ResetStarted, ResetStopping, NotifyDisconnect, ReadLoop,
       ReadDefer, ReadGetConn, ReadTop, ReadMessage, ReadSeesClose, ReadFails, ReadJudge,
       ReadNotify, ReadCloseDone, WriteLoop, WriteTakes, WriteGetConn, WriteTop, WriteCancelled,
       WriteSucceeds, WriteSeesClose, WriteFails, WriteJudge, WriteNotify, SocketEnds,
       CallerCancels, vars, TypeOK, LoopTypes
  <2> QED
    BY <1>1, <1>2, <2>1 DEF DialledInv
<1> QED
  BY <1>4, <1>5, <1>6 DEF DialledInv

LEMMA DialledInvariance == Spec => []DialledInv
<1>1. Init => DialledInv
  BY DEF Init, DialledInv
<1>2. EndsInv => TypeOK /\ MyInv
  BY DEF EndsInv, IInv
<1> QED
  BY <1>1, <1>2, EndsInductive, DialledPreserved, PTL DEF Spec

(* The readLoop of g can go on: a Read would return at once, and the       *)
(* channel it will close is there. *)
ReaderReady(g) ==
  \/ rpc[g] \in {"defer", "getConn", "top", "failed", "notify"}
  \/ rpc[g] = "reading" /\ sock[rConn[g]] \in {"closed", "peerClosed", "broken"}
  \/ rpc[g] = "closeDone" /\ rDone[g] # 0

(* Disconnect, and the cleanup after a failure, never wait in vain         *)
(* (client.go, cleanupWithStatus): the channel has been closed, or the     *)
(* readLoop that will close it is on its way and not blocked in a Read; or *)
(* the channel is that of a Connect which failed, or a Connect has met an  *)
(* older connection's leftovers.                                           *)
NoWaitInVain ==
  ~overlap /\ ~OrphanDone =>
    \A t \in Cleaners : kpc[t] = "wait" => done[kDone[t]] = 1 \/ ReaderReady(kDone[t])

(* Without any fairness, and for any callers and Connects: what a cleanup  *)
(* waits for has happened, or somebody is free to bring it about.          *)
THEOREM CleanupsWaitForReaders == Spec => []NoWaitInVain
<1>1. ASSUME EndsInv, DialledInv PROVE NoWaitInVain
  <2> SUFFICES ASSUME ~overlap, ~OrphanDone, NEW t \in Cleaners, kpc[t] = "wait"
               PROVE  done[kDone[t]] = 1 \/ ReaderReady(kDone[t])
    BY DEF NoWaitInVain
  <2> DEFINE g == kDone[t]
  <2>1. TypeOK /\ LifeInv /\ ConnInv /\ ContextInv
    BY <1>1 DEF EndsInv, IInv
  <2>2. g = fDone /\ g \in Gens
    BY <2>1, Numbers DEF LifeInv, CleanInv, ContextInv, TypeOK, CleanTypes
  <2>3. NoOpenSocket /\ \A p \in Callers : ~Connecting(p)
    BY <2>1 DEF LifeInv, CleanInv, ConnectInv, AtWork, Stopping
  <2>4. rpc[g] # "none"
    BY <2>2, <2>3, ClientAssumption DEF OrphanDone, Gens
  <2>5. rpc[g] = "ended" => done[g] = 1
    BY <2>1, <2>2 DEF ContextInv
  <2>6. rpc[g] = "closeDone" => rDone[g] # 0
    BY <2>1, <2>2, ClientAssumption DEF LifeInv, ReaderInv, Quiet, Gens
  <2>7. rpc[g] = "reading" => sock[rConn[g]] \in {"closed", "peerClosed", "broken"}
    <3> SUFFICES ASSUME rpc[g] = "reading"
                 PROVE  sock[rConn[g]] \in {"closed", "peerClosed", "broken"}
      OBVIOUS
    <3>1. rConn[g] # 0 /\ rConn[g] \in Gens
      BY <2>1, <2>2, Numbers DEF ConnInv, TypeOK, LoopTypes
    <3>2. sock[rConn[g]] \notin {"none", "open"}
      BY <1>1, <2>2, <2>3, <3>1 DEF DialledInv, NoOpenSocket
    <3> QED
      BY <2>1, <3>1, <3>2 DEF TypeOK, FieldTypes
  <2>8. rpc[g] \in ReadPC
    BY <2>1, <2>2 DEF TypeOK, LoopTypes
  <2> HIDE DEF g
  <2>9. done[g] = 1 \/ ReaderReady(g)
    BY <2>4, <2>5, <2>6, <2>7, <2>8 DEF ReaderReady, ReadPC
  <2> QED
    BY <2>9 DEF g
<1> QED
  BY <1>1, EndsInductive, DialledInvariance, PTL

=============================================================================
