------------------------- MODULE VwsHandlingProofs -------------------------
(***************************************************************************)
(* Theorems about VwsHandling for all topics, buses, controllers, policies,*)
(* transforms and listeners.  The invariant is the conjunction of the      *)
(* types, of what holds until an authorization function is given, of who   *)
(* may be without a bus, of where the subscriptions are, of the counters,  *)
(* and of how far the event in hand has come through its chain of          *)
(* authorization functions.                                                *)
(***************************************************************************)
EXTENDS VwsHandling, TLAPS, WellFoundedInduction

(* Until a function is given, the default is in force, and no event gets   *)
(* past it. *)
DenyInv ==
  ~authSet =>
    /\ config.auth = <<DenyAllEvents>>
    /\ req.stage \notin {"transform", "publish"}
    /\ req.stage = "auth" => req.chain = <<DenyAllEvents>> /\ req.next = 1
    /\ req.onBus = {}

(* Once a listener has been built the builder has a bus, or the program    *)
(* has taken it away; a connection without a bus has found the builder so. *)
BusInv ==
  ~withdrawn =>
    /\ (\E l \in Listeners : controller[l] # NotBuilt) => config.bus # NoBus
    /\ conn # NoConn => conn.bus # NoBus
    /\ counts.torn = 0

(* A connection's subscriptions are on its bus, none before it starts, and *)
(* allowed by its listener's controller or initial; after its cleanup only *)
(* those are left that the cleanup did not find or the bus refused to      *)
(* cancel. *)
SubsInv ==
  /\ conn # NoConn => \A s \in subs : s[1] = conn.bus
  /\ conn # NoConn /\ ~conn.started => subs = {}
  /\ conn.started =>
       \A s \in subs : Permitted(s[2]) \/ s[2] \in conn.initial
  /\ conn = NoConn \/ conn.cleanup = "done" => subs \subseteq excused

(* An event on its way has been let pass so far: the topic in hand is what *)
(* the functions it has met, and then the transforms, have made of its own;*)
(* it is on no bus yet.  An event that is through has met its verdict. *)
AuthInv ==
  LET after == After(req.chain, req.event.topic) IN
    /\ req.stage \in {"auth", "transform", "publish"} =>
         req.event \in Event /\ ~req.failed /\ req.onBus = {}
    /\ req.stage = "auth" =>
         req.next - 1 \in 0 .. Len(req.chain) /\ after[req.next - 1] = Pass(req.topic)
    /\ req.stage = "transform" => after[Len(req.chain)] = Pass(req.topic)
    /\ req.stage = "publish" =>
         /\ after[Len(req.chain)].res = "pass"
         /\ req.pipeline[after[Len(req.chain)].topic] = Pass(req.topic)
    /\ AuthorizationDecides

IInv == TypeOK /\ BusInv /\ DenyInv /\ SubsInv /\ CountersAgree /\ AuthInv

-----------------------------------------------------------------------------
(* Authorization functions and transforms are given topics and return      *)
(* topics. *)
LEMMA OutcomeTypes ==
  ASSUME NEW o \in Outcomes
  PROVE  /\ o.topic \in Topics /\ o.res \in {"pass", "deny", "drop"}
         /\ o.res = "pass" => o = Pass(o.topic)
<1>1. CASE o = Denied \/ o = Dropped
  BY <1>1, HandlingAssumption DEF Denied, Dropped
<1>2. CASE \E t \in Topics : o = Pass(t)
  BY <1>2 DEF Pass
<1> QED
  BY <1>1, <1>2 DEF Outcomes

LEMMA ShortSequences ==
  ASSUME NEW S
  PROVE  <<>> \in Seq(S) /\ \A x \in S : <<x>> \in Seq(S)
OBVIOUS

LEMMA FunctionTypes ==
  /\ DenyAllEvents \in [Topics -> Outcomes]
  /\ NoTransforms \in [Topics -> Outcomes]
  /\ Pipelines \subseteq [Topics -> Outcomes]
  /\ Chains \subseteq Seq([Topics -> Outcomes])
<1>1. DenyAllEvents \in [Topics -> Outcomes] /\ NoTransforms \in [Topics -> Outcomes]
  BY DEF DenyAllEvents, NoTransforms, Outcomes
<1>2. Pipelines \subseteq [Topics -> Outcomes]
  BY HandlingAssumption
<1>3. Policies \subseteq Seq([Topics -> Outcomes])
  BY HandlingAssumption
<1>4. Chains \subseteq Seq([Topics -> Outcomes])
  <2>1. <<DenyAllEvents>> \in Seq([Topics -> Outcomes])
    BY <1>1, ShortSequences, Zenon
  <2> QED
    BY <2>1, <1>3, Zenon DEF Chains
<1> QED
  BY <1>1, <1>2, <1>4

(* The steps of one event ask functions of the chain and the pipeline for  *)
(* topics they know. *)
LEMMA StepOutcomes ==
  ASSUME RequestTypes
  PROVE  /\ AuthStep => req.chain[req.next][req.topic] \in Outcomes
         /\ req.pipeline[req.topic] \in Outcomes
<1>1. ASSUME AuthStep
      PROVE  req.chain[req.next][req.topic] \in Outcomes
  <2>1. req.chain \in Seq([Topics -> Outcomes]) /\ req.topic \in Topics
    <3>1. req.chain \in Chains \cup {<<>>} /\ req.topic \in Topics
      BY DEF RequestTypes, RequestStates
    <3> QED
      BY <3>1, FunctionTypes, ShortSequences, Zenon
  <2>2. req.next \in 1 .. Len(req.chain)
    BY <1>1, <2>1 DEF RequestTypes, RequestStates, AuthStep
  <2>3. req.chain[req.next] \in [Topics -> Outcomes]
    BY <2>1, <2>2
  <2> QED
    BY <2>1, <2>3
<1>2. req.pipeline[req.topic] \in Outcomes
  <2>1. req.pipeline \in [Topics -> Outcomes] /\ req.topic \in Topics
    BY FunctionTypes DEF RequestTypes, RequestStates
  <2> QED
    BY <2>1
<1> QED
  BY <1>1, <1>2

-----------------------------------------------------------------------------
(* Induction over a set of numbers, from the natural order being well      *)
(* founded; a set stands for the operator that the library's induction     *)
(* theorems take, which the provers cannot instantiate. *)
LEMMA NatSetInduction ==
  ASSUME NEW S, 0 \in S, \A n \in Nat : n \in S => n + 1 \in S
  PROVE  Nat \subseteq S
<1>1. SUFFICES ASSUME Nat \ S # {} PROVE FALSE
  OBVIOUS
<1>2. PICK x \in Nat \ S : \A y \in Nat \ S : ~ (<<y, x>> \in OpToRel(<, Nat))
  BY <1>1, WFMin, NatLessThanWellFounded
<1>3. x # 0 /\ x - 1 \in Nat /\ x - 1 < x
  OBVIOUS
<1>4. <<x - 1, x>> \in OpToRel(<, Nat)
  BY <1>3 DEF OpToRel
<1>5. x - 1 \in S
  BY <1>2, <1>3, <1>4
<1> QED
  BY <1>3, <1>5

(* What comes after i functions of a chain, when after is what came before.*)
OneMore(chain, topic, after, i) ==
  IF i = 0 THEN Pass(topic)
  ELSE IF after[i-1].res = "pass" THEN chain[i][after[i-1].topic] ELSE after[i-1]

(* A chain of functions can be followed to its end: the function that      *)
(* After chooses exists. *)
LEMMA ChainCanBeFollowed ==
  ASSUME NEW chain, NEW topic, NEW n \in Nat
  PROVE  \E after : after = [i \in 0 .. n |-> OneMore(chain, topic, after, i)]
<1> DEFINE Follows(f, m) == f = [i \in 0 .. m |-> OneMore(chain, topic, f, i)]
           S == {m \in Nat : \E f : Follows(f, m)}
<1>1. 0 \in S
  <2>1. Follows([i \in 0 .. 0 |-> Pass(topic)], 0)
    BY DEF OneMore
  <2>2. \E f : Follows(f, 0)
    <3> HIDE DEF Follows
    <3> QED
      BY <2>1
  <2> QED
    BY <2>2
<1>2. ASSUME NEW m \in Nat, m \in S
      PROVE  m + 1 \in S
  <2>1. PICK f : Follows(f, m)
    BY <1>2
  <2> DEFINE g == [i \in 0 .. m + 1 |->
                     IF i <= m THEN f[i] ELSE OneMore(chain, topic, f, i)]
  <2>2. ASSUME NEW i \in 0 .. m + 1
        PROVE  g[i] = OneMore(chain, topic, g, i)
    <3>1. i # 0 => i - 1 \in 0 .. m + 1 /\ i - 1 <= m
      OBVIOUS
    <3>2. i # 0 => g[i - 1] = f[i - 1]
      BY <3>1
    <3>3. OneMore(chain, topic, g, i) = OneMore(chain, topic, f, i)
      <4> HIDE DEF g
      <4> QED
        BY <3>2 DEF OneMore
    <3>4. i <= m => f[i] = OneMore(chain, topic, f, i)
      <4> HIDE DEF OneMore, g
      <4> QED
        BY <2>1
    <3> QED
      BY <3>3, <3>4
  <2>3. Follows(g, m + 1)
    <3> HIDE DEF OneMore
    <3> QED
      BY <2>2
  <2>4. \E h : Follows(h, m + 1)
    <3> HIDE DEF Follows, g
    <3> QED
      BY <2>3
  <2> QED
    BY <2>4
<1>3. Nat \subseteq S
  <2> HIDE DEF S
  <2> QED
    BY <1>1, <1>2, NatSetInduction
<1> QED
  BY <1>3

LEMMA AfterUnrolls ==
  ASSUME NEW chain, NEW topic, Len(chain) \in Nat, NEW i \in 0 .. Len(chain)
  PROVE  After(chain, topic)[i] = OneMore(chain, topic, After(chain, topic), i)
<1> DEFINE Follows(f) == f = [j \in 0 .. Len(chain) |-> OneMore(chain, topic, f, j)]
<1>1. \E f : Follows(f)
  BY ChainCanBeFollowed
<1>2. After(chain, topic) = CHOOSE f : Follows(f)
  BY Zenon DEF After, OneMore
<1>3. Follows(After(chain, topic))
  <2> HIDE DEF Follows
  <2> QED
    BY <1>1, <1>2
<1> QED
  <2> HIDE DEF OneMore
  <2> QED
    BY <1>3

(* A refusal stands: no function after the one that refused is asked, and  *)
(* the verdict is its outcome. *)
LEMMA RefusalStands ==
  ASSUME NEW chain, NEW topic, Len(chain) \in Nat, NEW i \in 0 .. Len(chain),
         After(chain, topic)[i].res # "pass"
  PROVE  Verdict(chain, topic) = After(chain, topic)[i]
<1> DEFINE after == After(chain, topic)
           S == {n \in Nat : i + n <= Len(chain) => after[i + n] = after[i]}
<1>1. 0 \in S
  OBVIOUS
<1>2. ASSUME NEW n \in Nat, n \in S
      PROVE  n + 1 \in S
  <2> SUFFICES ASSUME i + (n + 1) <= Len(chain) PROVE after[i + (n + 1)] = after[i]
    OBVIOUS
  <2>1. after[i + n] = after[i]
    BY <1>2
  <2>2. /\ i + (n + 1) \in 0 .. Len(chain) /\ i + (n + 1) # 0
        /\ (i + (n + 1)) - 1 = i + n
    OBVIOUS
  <2>3. after[i + (n + 1)] = OneMore(chain, topic, after, i + (n + 1))
    BY <2>2, AfterUnrolls
  <2>4. after[(i + (n + 1)) - 1] = after[i]
    BY <2>1, <2>2
  <2> HIDE DEF after
  <2>5. after[i].res # "pass"
    BY DEF after
  <2> QED
    BY <2>2, <2>3, <2>4, <2>5, Zenon DEF OneMore
<1>3. Nat \subseteq S
  <2> HIDE DEF S
  <2> QED
    BY <1>1, <1>2, NatSetInduction
<1>4. Len(chain) - i \in Nat /\ i + (Len(chain) - i) = Len(chain)
  OBVIOUS
<1>5. after[i + (Len(chain) - i)] = after[i]
  BY <1>3, <1>4
<1> QED
  BY <1>4, <1>5 DEF Verdict

-----------------------------------------------------------------------------
(* What steps of the program leave alone, and what those of a connection   *)
(* leave alone. *)
LEMMA ConfigureLeaves ==
  ASSUME Configure \/ UNCHANGED vars
  PROVE  /\ UNCHANGED <<conn, subs, excused, req, counts>>
         /\ authSet => authSet'
         /\ withdrawn => withdrawn'
<1> USE DEF connVars
<1>1. CASE \E b \in Buses \cup {NoBus} : WithEventBus(b)
  <2>1. UNCHANGED <<conn, subs, excused, req, counts, authSet>>
    BY <1>1 DEF WithEventBus
  <2>2. \E x : withdrawn' = (withdrawn \/ x)
    BY <1>1, Zenon DEF WithEventBus
  <2> QED
    BY <2>1, <2>2, Zenon
<1>2. CASE \E chain \in Policies : WithEventAuth(chain)
  BY <1>2 DEF WithEventAuth
<1>3. CASE \/ \E f \in Pipelines : WithInboundTransforms(f)
           \/ \E topics \in Initial : WithInitialSubscriptions(topics)
           \/ \E prefix \in Prefixes : WithSubscriptionController(prefix)
           \/ \E l \in Listeners : Build(l)
  BY <1>3 DEF WithInboundTransforms, WithInitialSubscriptions, WithSubscriptionController, Build
<1>4. CASE WithNil \/ UNCHANGED vars
  BY <1>4 DEF WithNil, vars
<1> QED
  BY <1>1, <1>2, <1>3, <1>4 DEF Configure

LEMMA LiveLeaves ==
  ASSUME Live
  PROVE  UNCHANGED <<configVars, req, counts>>
BY DEF Live, Connect, Start, WriteFails, Cleanup, Disconnect

LEMMA HandleLeaves ==
  ASSUME Handle
  PROVE  UNCHANGED configVars
BY DEF Handle, HandleEvent, ReceiveEvent, AuthStep, AuthDone, Transform, Publish, HandleSubscribe,
  HandleUnsubscribe, HandleUnsubscribeAll, HandleOther, Malformed, Respond

LEMMA PanicsLeave ==
  ASSUME Panics
  PROVE  /\ conn.bus = NoBus /\ conn' = NoConn
         /\ UNCHANGED <<configVars, subs, excused>>
BY DEF Panics, StartPanics, PublishPanics, HandlePanics, Panic

LEMMA NoConnection ==
  /\ NoConn.listener = NoListener /\ NoConn.bus = NoBus /\ ~NoConn.started
  /\ \A c \in Connections : c # NoConn
<1>1. NoConn.listener = NoListener /\ NoConn.bus = NoBus /\ ~NoConn.started
  BY DEF NoConn
<1>2. \A c \in Connections : c.listener \in Listeners
  BY DEF Connections
<1> QED
  BY <1>1, <1>2, HandlingAssumption

LEMMA PanickingConnection ==
  ASSUME RequestTypes, Panics
  PROVE  /\ conn # NoConn
         /\ req' = Rest \/ (req' = req /\ req.stage = "idle")
<1>1. CASE StartPanics
  BY <1>1 DEF StartPanics, RequestTypes
<1>2. CASE PublishPanics
  BY <1>2, NoConnection DEF PublishPanics, RequestTypes
<1>3. CASE HandlePanics
  BY <1>3, NoConnection DEF HandlePanics, Reads
<1> QED
  BY <1>1, <1>2, <1>3 DEF Panics

(* A cleanup that is started or has unsubscribed changes nothing else of   *)
(* the connection. *)
LEMMA CleanupLeaves ==
  ASSUME ConnTypes, conn # NoConn, NEW c \in {"none", "spawned", "done"},
         conn' = [conn EXCEPT !.cleanup = c]
  PROVE  /\ conn' \in Connections /\ conn' # NoConn
         /\ conn'.listener = conn.listener /\ conn'.bus = conn.bus
         /\ conn'.started = conn.started /\ conn'.initial = conn.initial /\ conn'.cleanup = c
<1>1. conn \in Connections
  BY DEF ConnTypes
<1>2. conn' \in Connections
  BY <1>1 DEF Connections
<1>3. /\ conn'.listener = conn.listener /\ conn'.bus = conn.bus
      /\ conn'.started = conn.started /\ conn'.initial = conn.initial /\ conn'.cleanup = c
  BY <1>1 DEF Connections
<1> QED
  BY <1>2, <1>3, NoConnection

LEMMA AnswerLeaves ==
  ASSUME ConnTypes, conn # NoConn, Sent \/ Unsent
  PROVE  /\ conn' \in Connections /\ conn' # NoConn
         /\ conn'.listener = conn.listener /\ conn'.bus = conn.bus
         /\ conn'.started = conn.started /\ conn'.initial = conn.initial
         /\ conn'.cleanup = "done" => conn.cleanup = "done"
<1>1. CASE Sent
  BY <1>1, NoConnection DEF Sent, ConnTypes
<1>2. CASE Unsent
  <2> DEFINE c == IF conn.cleanup = "none" THEN "spawned" ELSE conn.cleanup
  <2>1. c \in {"none", "spawned", "done"} /\ (c = "done" => conn.cleanup = "done")
    BY DEF ConnTypes, Connections
  <2>2. conn' = [conn EXCEPT !.cleanup = c]
    BY <1>2 DEF Unsent
  <2> HIDE DEF c
  <2> QED
    BY <2>1, <2>2, CleanupLeaves
<1> QED
  BY <1>1, <1>2

LEMMA ConfigTypesPreserved ==
  ASSUME ConfigTypes, [Next]_vars
  PROVE  ConfigTypes'
<1> USE HandlingAssumption DEF ConfigTypes, connVars
<1>1. CASE \E b \in Buses \cup {NoBus} : WithEventBus(b)
  BY <1>1 DEF WithEventBus
<1>2. CASE \E chain \in Policies : WithEventAuth(chain)
  BY <1>2 DEF WithEventAuth, Chains
<1>3. CASE \E f \in Pipelines : WithInboundTransforms(f)
  BY <1>3 DEF WithInboundTransforms
<1>4. CASE \E topics \in Initial : WithInitialSubscriptions(topics)
  BY <1>4 DEF WithInitialSubscriptions
<1>5. CASE \E prefix \in Prefixes : WithSubscriptionController(prefix)
  BY <1>5 DEF WithSubscriptionController
<1>6. CASE \E l \in Listeners : Build(l)
  BY <1>6 DEF Build, IsValid
<1>7. CASE Live \/ Handle \/ Panics \/ WithNil \/ UNCHANGED vars
  <2>1. UNCHANGED configVars
    BY <1>7, LiveLeaves, HandleLeaves, PanicsLeave DEF configVars, WithNil, vars
  <2> QED
    BY <2>1 DEF configVars
<1> QED
  BY <1>1, <1>2, <1>3, <1>4, <1>5, <1>6, <1>7 DEF Next, Configure

LEMMA ConnTypesPreserved ==
  ASSUME ConfigTypes, ConnTypes, RequestTypes, [Next]_vars
  PROVE  ConnTypes'
<1> USE HandlingAssumption DEF ConfigTypes, ConnTypes
<1>1. CASE \E l \in Listeners : Build(l)
  <2>1. PICK l \in Listeners : Build(l)
    BY <1>1
  <2>2. UNCHANGED <<conn, subs, excused>> /\ controller[l] = NotBuilt
    BY <2>1 DEF Build, connVars
  <2>3. conn # NoConn => conn.listener # l /\ controller'[conn.listener] = controller[conn.listener]
    BY <2>1, <2>2 DEF Build
  <2> QED
    BY <2>2, <2>3
<1>2. CASE \E l \in Listeners : Connect(l)
  <2>1. PICK l \in Listeners : Connect(l)
    BY <1>2
  <2>2. conn' = [listener |-> l, bus |-> config.bus, started |-> FALSE, initial |-> {},
                 cleanup |-> "none"]
    BY <2>1 DEF Connect, NoConn
  <2>3. conn' \in Connections /\ conn'.listener = l
    BY <2>2 DEF Connections
  <2>4. controller'[l] # NotBuilt /\ subs' = {} /\ excused' = {}
    BY <2>1 DEF Connect, configVars
  <2> QED
    BY <2>3, <2>4
<1>3. CASE Start
  <2>1. PICK made \in SUBSET config.initial :
           /\ conn' = [conn EXCEPT !.started = TRUE, !.initial = made]
           /\ subs' = subs \cup {<<conn.bus, t>> : t \in made}
           /\ excused' = excused \cup PastCleanup(made)
    BY <1>3 DEF Start
  <2>2. made \subseteq Topics
    BY <2>1
  <2>3. conn # NoConn /\ UNCHANGED configVars /\ (made # {} => conn.bus \in Buses)
    BY <1>3, <2>1 DEF Start, Connections
  <2>4. {<<conn.bus, t>> : t \in made} \subseteq Buses \X Topics
    BY <2>2, <2>3
  <2>5. subs' \subseteq Buses \X Topics /\ excused' \subseteq Buses \X Topics
    BY <2>1, <2>4 DEF PastCleanup
  <2>6. conn' \in Connections /\ conn'.listener = conn.listener
    BY <2>1, <2>2, <2>3 DEF Connections
  <2> QED
    BY <2>3, <2>5, <2>6 DEF configVars
<1>4. CASE Cleanup \/ Disconnect \/ WriteFails
  <2>1. subs' \subseteq subs /\ excused' \subseteq excused \cup subs /\ UNCHANGED configVars
    BY <1>4 DEF Cleanup, Disconnect, WriteFails, CleanupUnsubscribes
  <2>2. \/ conn' = NoConn
        \/ /\ conn # NoConn
           /\ \E c \in {"spawned", "done"} : conn' = [conn EXCEPT !.cleanup = c]
    BY <1>4, NoConnection DEF Cleanup, Disconnect, WriteFails, NoConn
  <2> QED
    BY <2>1, <2>2, CleanupLeaves DEF configVars
<1>5. CASE \E t \in Topics : HandleSubscribe(t) \/ HandleUnsubscribe(t)
  <2>1. PICK t \in Topics : HandleSubscribe(t) \/ HandleUnsubscribe(t)
    BY <1>5
  <2>2. conn # NoConn /\ UNCHANGED <<conn, configVars>>
    <3>1. conn.started
      BY <2>1 DEF HandleSubscribe, HandleUnsubscribe, Reads
    <3>2. UNCHANGED <<configVars, conn>>
      BY <2>1 DEF HandleSubscribe, HandleUnsubscribe
    <3> QED
      BY <3>1, <3>2, NoConnection
  <2>3. \/ subs' \subseteq subs /\ excused' = excused
        \/ /\ conn.bus # NoBus
           /\ subs' = subs \cup {<<conn.bus, t>>}
           /\ excused' = excused \cup PastCleanup({t})
    BY <2>1 DEF HandleSubscribe, HandleUnsubscribe, Refuse
  <2> QED
    BY <2>2, <2>3 DEF PastCleanup, configVars, Connections
<1>6. CASE HandleUnsubscribeAll
  BY <1>6 DEF HandleUnsubscribeAll, Refuse, configVars
<1>7. CASE HandleEvent \/ HandleOther
  BY <1>7 DEF HandleEvent, ReceiveEvent, AuthStep, AuthDone, Transform, Publish, HandleOther,
    configVars
<1>8. CASE Malformed \/ Respond
  <2>1. UNCHANGED <<configVars, subs, excused>> /\ (Sent \/ Unsent)
    BY <1>8 DEF Malformed, Respond
  <2>2. conn.started
    BY <1>8 DEF Malformed, Reads, Respond, RequestTypes
  <2> QED
    BY <2>1, <2>2, AnswerLeaves, NoConnection DEF configVars
<1>9. CASE Panics
  BY <1>9, PanicsLeave
<1>10. CASE Configure \/ UNCHANGED vars
  <2>1. UNCHANGED <<conn, subs, excused>>
    BY <1>10, ConfigureLeaves
  <2>2. (\E l \in Listeners : Build(l)) \/ controller' = controller
    BY <1>10 DEF Configure, WithEventBus, WithEventAuth, WithInboundTransforms,
      WithInitialSubscriptions, WithSubscriptionController, WithNil, vars
  <2> QED
    BY <1>1, <2>1, <2>2
<1> QED
  BY <1>2, <1>3, <1>4, <1>5, <1>6, <1>7, <1>8, <1>9, <1>10 DEF Next, Live, Handle

LEMMA RestTyped == Rest \in RequestStates
<1>1. <<>> \in Topics
  BY HandlingAssumption
<1> QED
  BY <1>1 DEF Rest, RequestStates

LEMMA RequestTypesPreserved ==
  ASSUME ConfigTypes, RequestTypes, ConnTypes, [Next]_vars
  PROVE  RequestTypes'
<1>1. CASE \E e \in Event : ReceiveEvent(e)
  <2>1. PICK e \in Event : ReceiveEvent(e)
    BY <1>1
  <2>2. conn' = conn /\ conn.started /\ e.topic \in Topics /\ config.auth \in Chains
    BY <2>1 DEF ReceiveEvent, Reads, Event, ConfigTypes
  <2>3. \/ req' = [Rest EXCEPT !.stage = "respond", !.event = e, !.failed = TRUE]
        \/ req' = [Rest EXCEPT !.stage = "auth", !.event = e, !.chain = config.auth,
                               !.topic = e.topic]
    BY <2>1 DEF ReceiveEvent
  <2>4. req' \in RequestStates
    <3> HIDE DEF Event, Chains, Reads, ReceiveEvent
    <3>1. /\ e \in Event \cup {NotAnEvent} /\ config.auth \in Chains \cup {<<>>}
          /\ <<>> \in Topics /\ e.topic \in Topics
      BY <2>2, HandlingAssumption
    <3>2. CASE req' = [Rest EXCEPT !.stage = "respond", !.event = e, !.failed = TRUE]
      <4>1. req' = [stage |-> "respond", event |-> e, chain |-> <<>>, next |-> 1,
                    pipeline |-> NoTransforms, topic |-> <<>>, failed |-> TRUE, onBus |-> {}]
        BY <3>2 DEF Rest
      <4> QED
        BY <3>1, <4>1 DEF RequestStates
    <3>3. CASE req' = [Rest EXCEPT !.stage = "auth", !.event = e, !.chain = config.auth,
                                   !.topic = e.topic]
      <4>1. req' = [stage |-> "auth", event |-> e, chain |-> config.auth, next |-> 1,
                    pipeline |-> NoTransforms, topic |-> e.topic, failed |-> FALSE, onBus |-> {}]
        BY <3>3 DEF Rest
      <4> QED
        BY <3>1, <4>1 DEF RequestStates
    <3> QED
      BY <2>3, <3>2, <3>3
  <2> QED
    BY <2>2, <2>4 DEF RequestTypes
<1>2. CASE AuthStep
  <2> DEFINE result == req.chain[req.next][req.topic]
  <2>1. result.topic \in Topics /\ result.res \in {"pass", "deny", "drop"}
    BY <1>2, StepOutcomes, OutcomeTypes
  <2>2. conn' = conn /\ req.stage = "auth"
    BY <1>2 DEF AuthStep
  <2>3. \/ req' = [req EXCEPT !.stage = "respond", !.failed = TRUE]
        \/ req' = [req EXCEPT !.stage = "respond"]
        \/ req' = [req EXCEPT !.next = @ + 1, !.topic = result.topic]
    BY <1>2, <2>1 DEF AuthStep
  <2> HIDE DEF result
  <2>4. req' \in RequestStates
    <3>1. ASSUME req' = [req EXCEPT !.next = @ + 1, !.topic = result.topic]
          PROVE  req' \in RequestStates
      <4>1. req \in RequestStates
        BY DEF RequestTypes
      <4>2. req.next + 1 \in Nat \ {0}
        BY <4>1 DEF RequestStates
      <4> QED
        BY <2>1, <3>1, <4>1, <4>2 DEF RequestStates
    <3>2. ASSUME \/ req' = [req EXCEPT !.stage = "respond", !.failed = TRUE]
                 \/ req' = [req EXCEPT !.stage = "respond"]
          PROVE  req' \in RequestStates
      BY <3>2 DEF RequestTypes, RequestStates
    <3> QED
      BY <2>3, <3>1, <3>2
  <2> QED
    BY <2>2, <2>4 DEF RequestTypes
<1>3. CASE AuthDone
  <2>1. config.inbound \in Pipelines \cup {NoTransforms}
    BY DEF ConfigTypes
  <2>2. conn' = conn /\ req.stage = "auth"
        /\ req' = [req EXCEPT !.stage = "transform", !.pipeline = config.inbound]
    BY <1>3 DEF AuthDone
  <2> QED
    BY <2>1, <2>2 DEF RequestTypes, RequestStates
<1>4. CASE Transform
  <2> DEFINE result == req.pipeline[req.topic]
  <2>1. result.topic \in Topics
    BY StepOutcomes, OutcomeTypes
  <2>2. conn' = conn /\ req.stage = "transform"
    BY <1>4 DEF Transform
  <2>3. \/ req' = [req EXCEPT !.stage = "respond"]
        \/ req' = [req EXCEPT !.stage = "publish", !.topic = result.topic]
    BY <1>4 DEF Transform
  <2> HIDE DEF result
  <2> QED
    BY <2>1, <2>2, <2>3 DEF RequestTypes, RequestStates
<1>5. CASE Publish
  <2>1. conn' = conn /\ conn.bus \in Buses /\ req.stage = "publish"
    BY <1>5, NoConnection DEF Publish, RequestTypes, ConnTypes, Connections
  <2>2. \/ req' = [req EXCEPT !.stage = "respond", !.onBus = {<<conn.bus, req.topic>>}]
        \/ req' = [req EXCEPT !.stage = "respond", !.failed = TRUE]
    BY <1>5 DEF Publish
  <2>3. {<<conn.bus, req.topic>>} \in SUBSET (Buses \X Topics)
    BY <2>1 DEF RequestTypes, RequestStates
  <2>4. req' \in RequestStates
    BY <2>2, <2>3 DEF RequestTypes, RequestStates
  <2> QED
    BY <2>1, <2>4 DEF RequestTypes
<1>6. CASE \/ \E t \in Topics : HandleSubscribe(t) \/ HandleUnsubscribe(t)
           \/ HandleUnsubscribeAll \/ HandleOther
  <2>1. conn' = conn /\ conn.started
    BY <1>6 DEF HandleSubscribe, HandleUnsubscribe, HandleUnsubscribeAll, HandleOther, Reads
  <2>2. PICK failed \in BOOLEAN : Answer(failed)
    BY <1>6 DEF HandleSubscribe, HandleUnsubscribe, HandleUnsubscribeAll, HandleOther, Refuse
  <2> QED
    BY <2>1, <2>2, RestTyped DEF RequestTypes, RequestStates, Answer
<1>7. CASE Respond
  <2>1. req' = Rest
    BY <1>7 DEF Respond
  <2>2. Rest.stage = "idle"
    BY DEF Rest
  <2> QED
    BY <2>1, <2>2, RestTyped DEF RequestTypes
<1>8. CASE Live
  <2>1. req' = req
    BY <1>8, LiveLeaves
  <2>2. req.stage = "idle" \/ conn'.started
    BY <1>8, NoConnection DEF Live, Connect, Start, WriteFails, Cleanup, Disconnect, RequestTypes,
      ConnTypes, Connections
  <2> QED
    BY <2>1, <2>2 DEF RequestTypes
<1>9. CASE Malformed
  <2>1. req' = req /\ req.stage = "idle"
    BY <1>9 DEF Malformed, Reads
  <2> QED
    BY <2>1 DEF RequestTypes
<1>10. CASE Panics
  <2>1. req' = Rest \/ (req' = req /\ req.stage = "idle")
    BY <1>10, PanickingConnection
  <2>2. Rest.stage = "idle"
    BY DEF Rest
  <2> QED
    BY <2>1, <2>2, RestTyped DEF RequestTypes
<1>11. CASE Configure \/ UNCHANGED vars
  <2>1. UNCHANGED <<req, conn>>
    BY <1>11, ConfigureLeaves
  <2> QED
    BY <2>1 DEF RequestTypes
<1> QED
  BY <1>1, <1>2, <1>3, <1>4, <1>5, <1>6, <1>7, <1>8, <1>9, <1>10, <1>11
    DEF Next, Handle, HandleEvent

(* What a step adds to the counters, and when it keeps them in agreement. *)
LEMMA CountersMove ==
  ASSUME CountTypes, CountersAgree,
         NEW r \in {0, 1}, NEW e \in {0, 1}, NEW m \in {0, 1}, NEW a \in {0, 1},
         NEW n \in {0, 1}, NEW s \in {0, 1}, NEW u \in {0, 1}, NEW t \in {0, 1},
         counts'.requests = counts.requests + r, counts'.errors = counts.errors + e,
         counts'.malformed = counts.malformed + m, counts'.acks = counts.acks + a,
         counts'.nacks = counts.nacks + n, counts'.silent = counts.silent + s,
         counts'.unsent = counts.unsent + u, counts'.torn = counts.torn + t,
         r + m + (IF req.stage = "idle" THEN 0 ELSE 1)
           = a + n + s + u + t + (IF req'.stage = "idle" THEN 0 ELSE 1),
         n <= e + m, e + m <= n + s + u
  PROVE  CountersAgree'
<1>1. /\ counts.requests \in Nat /\ counts.errors \in Nat /\ counts.malformed \in Nat
      /\ counts.acks \in Nat /\ counts.nacks \in Nat /\ counts.silent \in Nat
      /\ counts.unsent \in Nat /\ counts.torn \in Nat
  BY DEF CountTypes
<1> DEFINE before == IF req.stage = "idle" THEN 0 ELSE 1
           after == IF req'.stage = "idle" THEN 0 ELSE 1
<1>2. before \in {0, 1} /\ after \in {0, 1} /\ r + m + before = a + n + s + u + t + after
  OBVIOUS
<1>3. /\ counts.requests + counts.malformed
           = (counts.acks + counts.nacks) + (counts.silent + counts.unsent) + counts.torn + before
      /\ counts.nacks <= counts.errors + counts.malformed
      /\ counts.errors + counts.malformed <= counts.nacks + (counts.silent + counts.unsent)
  BY DEF CountersAgree
<1> HIDE DEF before, after
<1>4. /\ counts'.requests + counts'.malformed
           = (counts'.acks + counts'.nacks) + (counts'.silent + counts'.unsent) + counts'.torn + after
      /\ counts'.nacks <= counts'.errors + counts'.malformed
      /\ counts'.errors + counts'.malformed <= counts'.nacks + (counts'.silent + counts'.unsent)
  BY <1>1, <1>2, <1>3
<1> QED
  BY <1>4 DEF CountersAgree, after

(* The counters, with their types. *)
LEMMA CountsPreserved ==
  ASSUME RequestTypes, CountTypes, CountersAgree, [Next]_vars
  PROVE  CountTypes' /\ CountersAgree'
<1>0. /\ counts.requests + 1 \in Nat /\ counts.errors + 1 \in Nat /\ counts.malformed + 1 \in Nat
      /\ counts.acks + 1 \in Nat /\ counts.nacks + 1 \in Nat /\ counts.silent + 1 \in Nat
      /\ counts.unsent + 1 \in Nat /\ counts.torn + 1 \in Nat
  BY DEF CountTypes
<1>1. CASE (\E e \in Event : ReceiveEvent(e)) \/ (\E t \in Topics : HandleSubscribe(t))
           \/ (\E t \in Topics : HandleUnsubscribe(t)) \/ HandleUnsubscribeAll \/ HandleOther
  <2>1. req.stage = "idle" /\ counts' = [counts EXCEPT !.requests = @ + 1]
    BY <1>1 DEF ReceiveEvent, HandleSubscribe, HandleUnsubscribe, HandleUnsubscribeAll,
      HandleOther, Reads, RecordRequest
  <2>2. req'.stage # "idle"
    <3>1. CASE \E e \in Event : ReceiveEvent(e)
      BY <3>1 DEF ReceiveEvent, Rest
    <3>2. CASE \E failed \in BOOLEAN : Answer(failed)
      BY <3>2 DEF Answer, Rest
    <3> QED
      BY <1>1, <3>1, <3>2 DEF HandleSubscribe, HandleUnsubscribe, HandleUnsubscribeAll,
        HandleOther, Refuse
  <2>3. CountTypes'
    BY <1>0, <2>1 DEF CountTypes
  <2>4. /\ counts'.requests = counts.requests + 1 /\ counts'.errors = counts.errors + 0
        /\ counts'.malformed = counts.malformed + 0 /\ counts'.acks = counts.acks + 0
        /\ counts'.nacks = counts.nacks + 0 /\ counts'.silent = counts.silent + 0
        /\ counts'.unsent = counts.unsent + 0 /\ counts'.torn = counts.torn + 0
    BY <2>1 DEF CountTypes
  <2>5. CountersAgree'
    BY <2>1, <2>2, <2>4, CountersMove
  <2> QED
    BY <2>3, <2>5
<1>2. CASE Malformed
  <2>1. req' = req
    BY <1>2 DEF Malformed
  <2>2. CASE counts' = [counts EXCEPT !.malformed = @ + 1, !.nacks = @ + 1]
    <3>1. CountTypes'
      BY <1>0, <2>2 DEF CountTypes
    <3>2. /\ counts'.requests = counts.requests + 0 /\ counts'.errors = counts.errors + 0
          /\ counts'.malformed = counts.malformed + 1 /\ counts'.acks = counts.acks + 0
          /\ counts'.nacks = counts.nacks + 1 /\ counts'.silent = counts.silent + 0
          /\ counts'.unsent = counts.unsent + 0 /\ counts'.torn = counts.torn + 0
      BY <2>2 DEF CountTypes
    <3>3. CountersAgree'
      BY <2>1, <3>2, CountersMove
    <3> QED
      BY <3>1, <3>3
  <2>3. CASE counts' = [counts EXCEPT !.malformed = @ + 1, !.unsent = @ + 1]
    <3>1. CountTypes'
      BY <1>0, <2>3 DEF CountTypes
    <3>2. /\ counts'.requests = counts.requests + 0 /\ counts'.errors = counts.errors + 0
          /\ counts'.malformed = counts.malformed + 1 /\ counts'.acks = counts.acks + 0
          /\ counts'.nacks = counts.nacks + 0 /\ counts'.silent = counts.silent + 0
          /\ counts'.unsent = counts.unsent + 1 /\ counts'.torn = counts.torn + 0
      BY <2>3 DEF CountTypes
    <3>3. CountersAgree'
      BY <2>1, <3>2, CountersMove
    <3> QED
      BY <3>1, <3>3
  <2> QED
    BY <1>2, <2>2, <2>3 DEF Malformed
<1>3. CASE Respond
  <2> DEFINE failed == IF req.failed THEN 1 ELSE 0
  <2>1. req.stage # "idle" /\ req'.stage = "idle"
    BY <1>3 DEF Respond, Rest
  <2>2. failed \in {0, 1} /\ counts.errors + failed \in Nat
    BY <1>0 DEF CountTypes
  <2>3. CASE counts' = Completed([counts EXCEPT !.silent = @ + 1])
    <3>1. counts' = [counts EXCEPT !.silent = @ + 1, !.errors = @ + failed]
      <4>1. CASE req.failed
        BY <2>3, <4>1 DEF Completed, CountTypes
      <4>2. CASE ~req.failed
        <5>1. counts' = [counts EXCEPT !.silent = @ + 1, !.errors = @]
          BY <2>3, <4>2 DEF Completed, CountTypes
        <5>2. counts.errors = counts.errors + failed
          BY <4>2 DEF CountTypes
        <5> QED
          BY <5>1, <5>2
      <4> QED
        BY <4>1, <4>2
    <3> HIDE DEF failed
    <3>2. CountTypes'
      BY <1>0, <2>2, <3>1 DEF CountTypes
    <3>3. /\ counts'.requests = counts.requests + 0 /\ counts'.errors = counts.errors + failed
          /\ counts'.malformed = counts.malformed + 0 /\ counts'.acks = counts.acks + 0
          /\ counts'.nacks = counts.nacks + 0 /\ counts'.silent = counts.silent + 1
          /\ counts'.unsent = counts.unsent + 0 /\ counts'.torn = counts.torn + 0
      BY <3>1 DEF CountTypes
    <3>4. CountersAgree'
      BY <2>1, <2>2, <3>3, CountersMove
    <3> QED
      BY <3>2, <3>4
  <2>4. CASE ~req.failed /\ counts' = Completed([counts EXCEPT !.acks = @ + 1])
    <3>1. counts' = [counts EXCEPT !.acks = @ + 1, !.errors = @]
      BY <2>4 DEF Completed, CountTypes
    <3>2. CountTypes'
      BY <1>0, <3>1 DEF CountTypes
    <3>3. /\ counts'.requests = counts.requests + 0 /\ counts'.errors = counts.errors + 0
          /\ counts'.malformed = counts.malformed + 0 /\ counts'.acks = counts.acks + 1
          /\ counts'.nacks = counts.nacks + 0 /\ counts'.silent = counts.silent + 0
          /\ counts'.unsent = counts.unsent + 0 /\ counts'.torn = counts.torn + 0
      BY <3>1 DEF CountTypes
    <3>4. CountersAgree'
      BY <2>1, <3>3, CountersMove
    <3> QED
      BY <3>2, <3>4
  <2>5. CASE req.failed /\ counts' = Completed([counts EXCEPT !.nacks = @ + 1])
    <3>1. counts' = [counts EXCEPT !.nacks = @ + 1, !.errors = @ + 1]
      BY <2>5 DEF Completed, CountTypes
    <3>2. CountTypes'
      BY <1>0, <3>1 DEF CountTypes
    <3>3. /\ counts'.requests = counts.requests + 0 /\ counts'.errors = counts.errors + 1
          /\ counts'.malformed = counts.malformed + 0 /\ counts'.acks = counts.acks + 0
          /\ counts'.nacks = counts.nacks + 1 /\ counts'.silent = counts.silent + 0
          /\ counts'.unsent = counts.unsent + 0 /\ counts'.torn = counts.torn + 0
      BY <3>1 DEF CountTypes
    <3>4. CountersAgree'
      BY <2>1, <3>3, CountersMove
    <3> QED
      BY <3>2, <3>4
  <2>6. CASE counts' = Completed([counts EXCEPT !.unsent = @ + 1])
    <3>1. counts' = [counts EXCEPT !.unsent = @ + 1, !.errors = @ + failed]
      <4>1. CASE req.failed
        BY <2>6, <4>1 DEF Completed, CountTypes
      <4>2. CASE ~req.failed
        <5>1. counts' = [counts EXCEPT !.unsent = @ + 1, !.errors = @]
          BY <2>6, <4>2 DEF Completed, CountTypes
        <5>2. counts.errors = counts.errors + failed
          BY <4>2 DEF CountTypes
        <5> QED
          BY <5>1, <5>2
      <4> QED
        BY <4>1, <4>2
    <3> HIDE DEF failed
    <3>2. CountTypes'
      BY <1>0, <2>2, <3>1 DEF CountTypes
    <3>3. /\ counts'.requests = counts.requests + 0 /\ counts'.errors = counts.errors + failed
          /\ counts'.malformed = counts.malformed + 0 /\ counts'.acks = counts.acks + 0
          /\ counts'.nacks = counts.nacks + 0 /\ counts'.silent = counts.silent + 0
          /\ counts'.unsent = counts.unsent + 1 /\ counts'.torn = counts.torn + 0
      BY <3>1 DEF CountTypes
    <3>4. CountersAgree'
      BY <2>1, <2>2, <3>3, CountersMove
    <3> QED
      BY <3>2, <3>4
  <2> HIDE DEF failed
  <2> QED
    BY <1>3, <2>3, <2>4, <2>5, <2>6 DEF Respond
<1>4. CASE AuthStep \/ AuthDone \/ Transform \/ Publish
  <2>1. req \in RequestStates
    BY DEF RequestTypes
  <2>2. counts' = counts /\ req.stage # "idle" /\ req'.stage # "idle"
    BY <1>4, <2>1 DEF AuthStep, AuthDone, Transform, Publish, RequestStates
  <2> QED
    BY <2>2 DEF CountTypes, CountersAgree
<1>5. CASE Configure \/ Live \/ StartPanics \/ UNCHANGED vars
  <2>1. UNCHANGED <<req, counts>>
    BY <1>5, ConfigureLeaves, LiveLeaves DEF StartPanics
  <2>2. CountTypes'
    BY <2>1 DEF CountTypes
  <2>3. CountersAgree'
    BY <2>1 DEF CountersAgree
  <2> QED
    BY <2>2, <2>3
<1>6. CASE PublishPanics
  <2>1. req.stage # "idle" /\ req'.stage = "idle" /\ counts' = [counts EXCEPT !.torn = @ + 1]
    BY <1>6 DEF PublishPanics, Rest
  <2>2. CountTypes'
    BY <1>0, <2>1 DEF CountTypes
  <2>3. /\ counts'.requests = counts.requests + 0 /\ counts'.errors = counts.errors + 0
        /\ counts'.malformed = counts.malformed + 0 /\ counts'.acks = counts.acks + 0
        /\ counts'.nacks = counts.nacks + 0 /\ counts'.silent = counts.silent + 0
        /\ counts'.unsent = counts.unsent + 0 /\ counts'.torn = counts.torn + 1
    BY <2>1 DEF CountTypes
  <2>4. CountersAgree'
    BY <2>1, <2>3, CountersMove
  <2> QED
    BY <2>2, <2>4
<1>7. CASE HandlePanics
  <2>1. req' = req /\ counts' = [counts EXCEPT !.requests = @ + 1, !.torn = @ + 1]
    BY <1>7 DEF HandlePanics
  <2>2. CountTypes'
    BY <1>0, <2>1 DEF CountTypes
  <2>3. /\ counts'.requests = counts.requests + 1 /\ counts'.errors = counts.errors + 0
        /\ counts'.malformed = counts.malformed + 0 /\ counts'.acks = counts.acks + 0
        /\ counts'.nacks = counts.nacks + 0 /\ counts'.silent = counts.silent + 0
        /\ counts'.unsent = counts.unsent + 0 /\ counts'.torn = counts.torn + 1
    BY <2>1 DEF CountTypes
  <2>4. CountersAgree'
    BY <2>1, <2>3, CountersMove
  <2> QED
    BY <2>2, <2>4
<1> QED
  BY <1>1, <1>2, <1>3, <1>4, <1>5, <1>6, <1>7 DEF Next, Handle, HandleEvent, Panics

-----------------------------------------------------------------------------
LEMMA BusPreserved ==
  ASSUME ConfigTypes, ConnTypes, RequestTypes, CountTypes, BusInv, [Next]_vars
  PROVE  BusInv'
<1>1. CASE \E b \in Buses \cup {NoBus} : WithEventBus(b)
  BY <1>1 DEF WithEventBus, BusInv, ConfigTypes, connVars
<1>2. CASE \E l \in Listeners : Build(l)
  BY <1>2 DEF Build, IsValid, BusInv, connVars
<1>3. CASE \/ \E chain \in Policies : WithEventAuth(chain)
           \/ \E f \in Pipelines : WithInboundTransforms(f)
           \/ \E topics \in Initial : WithInitialSubscriptions(topics)
           \/ \E prefix \in Prefixes : WithSubscriptionController(prefix)
           \/ WithNil \/ UNCHANGED vars
  <2>1. UNCHANGED <<conn, counts, controller, withdrawn>> /\ config'.bus = config.bus
    BY <1>3 DEF WithEventAuth, WithInboundTransforms, WithInitialSubscriptions,
      WithSubscriptionController, WithNil, vars, connVars, ConfigTypes
  <2> QED
    BY <2>1 DEF BusInv
<1>4. CASE \E l \in Listeners : Connect(l)
  <2>1. PICK l \in Listeners : Connect(l)
    BY <1>4
  <2>2. controller[l] # NotBuilt /\ conn'.bus = config.bus /\ UNCHANGED <<configVars, counts>>
    BY <2>1 DEF Connect, NoConn
  <2> QED
    BY <2>2 DEF BusInv, configVars
<1>5. CASE Start \/ WriteFails \/ Cleanup \/ Disconnect
  <2>1. UNCHANGED <<configVars, counts>>
    BY <1>5 DEF Start, WriteFails, Cleanup, Disconnect
  <2>2. conn' = NoConn \/ (conn # NoConn /\ conn'.bus = conn.bus)
    <3>1. CASE Start
      BY <3>1 DEF Start, ConnTypes, Connections
    <3>2. CASE WriteFails \/ Cleanup
      <4>1. conn # NoConn /\ \E c \in {"spawned", "done"} : conn' = [conn EXCEPT !.cleanup = c]
        BY <3>2, NoConnection DEF WriteFails, Cleanup
      <4> QED
        BY <4>1, CleanupLeaves
    <3> QED
      BY <1>5, <3>1, <3>2 DEF Disconnect
  <2> QED
    BY <2>1, <2>2 DEF BusInv, configVars
<1>6. CASE Handle
  <2>1. UNCHANGED configVars
    BY <1>6, HandleLeaves
  <2>2. conn' # NoConn => conn # NoConn /\ conn'.bus = conn.bus
    <3>1. CASE Malformed \/ Respond
      <4>1. conn # NoConn /\ (Sent \/ Unsent)
        BY <3>1, NoConnection DEF Malformed, Reads, Respond, RequestTypes
      <4> QED
        BY <4>1, AnswerLeaves
    <3>2. CASE ~(Malformed \/ Respond)
      BY <1>6, <3>2 DEF Handle, HandleEvent, ReceiveEvent, AuthStep, AuthDone, Transform, Publish,
        HandleSubscribe, HandleUnsubscribe, HandleUnsubscribeAll, HandleOther
    <3> QED
      BY <3>1, <3>2
  <2>3. counts'.torn = counts.torn
    BY <1>6 DEF Handle, HandleEvent, ReceiveEvent, AuthStep, AuthDone, Transform, Publish,
      HandleSubscribe, HandleUnsubscribe, HandleUnsubscribeAll, HandleOther, Malformed, Respond,
      RecordRequest, Completed, CountTypes
  <2> QED
    BY <2>1, <2>2, <2>3 DEF BusInv, configVars
<1>7. CASE Panics
  <2>1. withdrawn /\ UNCHANGED withdrawn
    BY <1>7, PanicsLeave, PanickingConnection DEF BusInv, configVars
  <2> QED
    BY <2>1 DEF BusInv
<1> QED
  BY <1>1, <1>2, <1>3, <1>4, <1>5, <1>6, <1>7 DEF Next, Configure, Live

-----------------------------------------------------------------------------
LEMMA DenyPreserved ==
  ASSUME ConfigTypes, RequestTypes, DenyInv, [Next]_vars
  PROVE  DenyInv'
<1>1. CASE authSet'
  BY <1>1 DEF DenyInv
<1>2. ASSUME ~authSet'
      PROVE  DenyInv'
  <2>1. ~authSet
    BY <1>2, ConfigureLeaves, LiveLeaves, HandleLeaves, PanicsLeave DEF Next, configVars
  <2>2. CASE Configure \/ UNCHANGED vars
    <3>1. req' = req /\ config'.auth = config.auth
      BY <1>2, <2>2 DEF Configure, WithEventBus, WithEventAuth, WithInboundTransforms,
        WithInitialSubscriptions, WithSubscriptionController, WithNil, Build, connVars, vars,
        ConfigTypes
    <3> QED
      BY <2>1, <3>1 DEF DenyInv
  <2>3. CASE Live \/ Handle \/ Panics
    <3>1. config' = config
      BY <2>3, LiveLeaves, HandleLeaves, PanicsLeave DEF configVars
    <3>2. CASE \E e \in Event : ReceiveEvent(e)
      BY <2>1, <3>1, <3>2 DEF DenyInv, ReceiveEvent, Rest
    <3>3. CASE AuthStep
      <4>1. req.chain = <<DenyAllEvents>> /\ req.next = 1 /\ req.topic \in Topics
        BY <2>1, <3>3 DEF AuthStep, DenyInv, RequestTypes, RequestStates
      <4>2. req.chain[req.next][req.topic] = Denied
        BY <4>1 DEF DenyAllEvents
      <4>3. req' = [req EXCEPT !.stage = "respond", !.failed = TRUE]
        BY <3>3, <4>2 DEF AuthStep, Denied
      <4>4. req'.stage = "respond" /\ req'.onBus = req.onBus
        BY <4>3 DEF RequestTypes, RequestStates
      <4> QED
        BY <2>1, <3>1, <4>4 DEF DenyInv
    <3>4. CASE AuthDone
      <4>1. req.stage = "auth" /\ req.next > Len(req.chain)
        BY <3>4 DEF AuthDone
      <4>2. req.next = 1 /\ Len(req.chain) = 1
        BY <2>1, <4>1 DEF DenyInv
      <4> QED
        BY <4>1, <4>2
    <3>5. CASE Transform \/ Publish
      BY <2>1, <3>5 DEF Transform, Publish, DenyInv
    <3>6. CASE req' = Rest
      BY <2>1, <3>1, <3>6 DEF Rest, DenyInv
    <3>7. CASE \E failed \in BOOLEAN : Answer(failed)
      BY <2>1, <3>1, <3>7 DEF Answer, Rest, DenyInv
    <3>8. CASE req' = req
      BY <2>1, <3>1, <3>8 DEF DenyInv
    <3> QED
      BY <2>3, <3>2, <3>3, <3>4, <3>5, <3>6, <3>7, <3>8, LiveLeaves, PanickingConnection DEF Handle,
        Malformed, HandleEvent, HandleSubscribe, HandleUnsubscribe, HandleUnsubscribeAll,
        HandleOther, Respond, Refuse
  <2> QED
    BY <2>2, <2>3 DEF Next
<1> QED
  BY <1>1, <1>2

LEMMA SubsPreserved ==
  ASSUME ConnTypes, RequestTypes, SubsInv, [Next]_vars
  PROVE  SubsInv'
<1> DEFINE within == \A s \in subs : Permitted(s[2]) \/ s[2] \in conn.initial
<1>1. CASE \E l \in Listeners : Build(l)
  <2>1. PICK l \in Listeners : Build(l)
    BY <1>1
  <2>2. UNCHANGED <<conn, subs, excused>> /\ controller[l] = NotBuilt
    BY <2>1 DEF Build, connVars
  <2>3. conn.started => controller'[conn.listener] = controller[conn.listener]
    BY <2>1, <2>2, NoConnection DEF Build, ConnTypes, Connections
  <2> QED
    BY <2>2, <2>3 DEF SubsInv, Permitted
<1>2. CASE \E l \in Listeners : Connect(l)
  <2>1. subs' = {} /\ ~conn'.started
    BY <1>2 DEF Connect, NoConn
  <2> QED
    BY <2>1 DEF SubsInv
<1>3. CASE Start
  <2>1. PICK made \in SUBSET config.initial :
           /\ conn' = [conn EXCEPT !.started = TRUE, !.initial = made]
           /\ subs' = subs \cup {<<conn.bus, t>> : t \in made}
           /\ excused' = excused \cup PastCleanup(made)
    BY <1>3 DEF Start
  <2>2. ~conn.started /\ conn # NoConn
    BY <1>3 DEF Start
  <2>3. /\ conn'.started /\ conn'.bus = conn.bus /\ conn'.initial = made
        /\ conn'.cleanup = conn.cleanup /\ conn' # NoConn
    BY <2>1, <2>2, NoConnection DEF ConnTypes, Connections
  <2>4. subs = {}
    BY <2>2 DEF SubsInv
  <2>5. conn'.cleanup = "done" => subs' \subseteq excused'
    BY <2>1, <2>3, <2>4 DEF PastCleanup
  <2> QED
    BY <2>1, <2>3, <2>4, <2>5 DEF SubsInv
<1>4. CASE Cleanup \/ Disconnect
  <2>1. /\ conn # NoConn /\ UNCHANGED controller
        /\ \/ CleanupUnsubscribes
           \/ conn.cleanup = "done" /\ UNCHANGED <<subs, excused>>
        /\ \/ conn' = NoConn
           \/ conn' = [conn EXCEPT !.cleanup = "done"]
    BY <1>4, NoConnection DEF Cleanup, Disconnect, configVars, NoConn
  <2>2. \A s \in subs : s[1] = conn.bus
    BY <2>1 DEF SubsInv
  <2>3. subs' \subseteq subs /\ subs' \subseteq excused'
    BY <2>1, <2>2 DEF CleanupUnsubscribes, SubsInv
  <2>4. conn' = NoConn \/ (/\ conn'.started = conn.started /\ conn'.bus = conn.bus
                           /\ conn'.initial = conn.initial /\ conn'.listener = conn.listener)
    BY <2>1, CleanupLeaves
  <2>5. conn'.started => conn.started
    BY <2>4, NoConnection
  <2>6. conn'.started => conn'.initial = conn.initial /\ conn'.listener = conn.listener
    BY <2>4, NoConnection
  <2>7. conn'.started => within'
    BY <2>1, <2>3, <2>5, <2>6 DEF SubsInv, Permitted
  <2>8. conn' # NoConn => \A s \in subs' : s[1] = conn'.bus
    BY <2>2, <2>3, <2>4
  <2>9. conn' # NoConn /\ ~conn'.started => subs' = {}
    BY <2>1, <2>3, <2>4 DEF SubsInv
  <2> QED
    BY <2>3, <2>7, <2>8, <2>9 DEF SubsInv
<1>5. CASE \E t \in Topics : HandleSubscribe(t)
  <2>1. PICK t \in Topics : HandleSubscribe(t)
    BY <1>5
  <2>2. conn.started /\ conn # NoConn /\ UNCHANGED <<conn, controller>>
    BY <2>1, NoConnection DEF HandleSubscribe, Reads, configVars
  <2>3. \/ UNCHANGED <<subs, excused>>
        \/ /\ subs' = subs \cup {<<conn.bus, t>>} /\ Permitted(t)
           /\ excused' = excused \cup PastCleanup({t})
    BY <2>1 DEF HandleSubscribe, Refuse
  <2> QED
    BY <2>2, <2>3 DEF SubsInv, PastCleanup, Permitted
<1>6. CASE \/ \E t \in Topics : HandleUnsubscribe(t)
           \/ HandleUnsubscribeAll
  <2>1. subs' \subseteq subs /\ UNCHANGED <<conn, controller, excused>>
    BY <1>6 DEF HandleUnsubscribe, HandleUnsubscribeAll, Refuse, configVars
  <2> QED
    BY <2>1 DEF SubsInv, Permitted
<1>7. CASE WriteFails \/ Malformed \/ Respond
  <2>1. UNCHANGED <<subs, excused, controller>> /\ conn # NoConn
    BY <1>7, NoConnection DEF WriteFails, Malformed, Reads, Respond, RequestTypes, configVars
  <2>2. conn' # NoConn /\ conn'.bus = conn.bus /\ conn'.started = conn.started
        /\ conn'.initial = conn.initial /\ conn'.listener = conn.listener
        /\ (conn'.cleanup = "done" => conn.cleanup = "done")
    <3>1. CASE WriteFails
      <4>1. conn' = [conn EXCEPT !.cleanup = "spawned"]
        BY <3>1 DEF WriteFails
      <4> QED
        BY <2>1, <4>1, CleanupLeaves
    <3>2. CASE Malformed \/ Respond
      BY <2>1, <3>2, AnswerLeaves DEF Malformed, Respond
    <3> QED
      BY <1>7, <3>1, <3>2
  <2> QED
    BY <2>1, <2>2 DEF SubsInv, Permitted
<1>8. CASE Panics
  <2>1. /\ conn # NoConn /\ conn.bus = NoBus /\ conn' = NoConn
        /\ UNCHANGED <<subs, excused>>
    BY <1>8, PanicsLeave, PanickingConnection
  <2>2. subs = {}
    <3>1. \A s \in subs : s[1] = NoBus /\ s[1] \in Buses
      BY <2>1 DEF SubsInv, ConnTypes
    <3> QED
      BY <3>1, HandlingAssumption
  <2> QED
    BY <2>1, <2>2, NoConnection DEF SubsInv
<1>9. CASE \/ HandleEvent \/ HandleOther \/ UNCHANGED vars \/ WithNil
           \/ \E b \in Buses \cup {NoBus} : WithEventBus(b)
           \/ \E chain \in Policies : WithEventAuth(chain)
           \/ \E f \in Pipelines : WithInboundTransforms(f)
           \/ \E topics \in Initial : WithInitialSubscriptions(topics)
           \/ \E prefix \in Prefixes : WithSubscriptionController(prefix)
  <2>1. UNCHANGED <<conn, subs, excused, controller>>
    BY <1>9 DEF HandleEvent, ReceiveEvent, AuthStep, AuthDone, Transform, Publish,
      HandleOther, configVars, WithEventBus, WithEventAuth, WithInboundTransforms,
      WithInitialSubscriptions, WithSubscriptionController, WithNil, vars, connVars
  <2> QED
    BY <2>1 DEF SubsInv, Permitted
<1> QED
  BY <1>1, <1>2, <1>3, <1>4, <1>5, <1>6, <1>7, <1>8, <1>9 DEF Next, Configure, Live, Handle

-----------------------------------------------------------------------------
(* The chain in hand is a sequence of functions from topics to outcomes,   *)
(* and an event on its way has a topic they know. *)
LEMMA ChainInHand ==
  ASSUME RequestTypes
  PROVE  /\ req.chain \in Seq([Topics -> Outcomes]) /\ Len(req.chain) \in Nat
         /\ req.event \in Event => req.event.topic \in Topics
<1>1. req.chain \in Chains \cup {<<>>}
  BY DEF RequestTypes, RequestStates
<1>2. req.chain \in Seq([Topics -> Outcomes])
  BY <1>1, FunctionTypes, ShortSequences, Zenon
<1>3. Len(req.chain) \in Nat
  BY <1>2
<1>4. req.event \in Event => req.event.topic \in Topics
  BY DEF Event
<1> QED
  BY <1>2, <1>3, <1>4

(* One function of the chain is asked: what comes after it is its outcome  *)
(* for the topic in hand. *)
LEMMA StepFollowsChain ==
  ASSUME RequestTypes, AuthInv, AuthStep
  PROVE  /\ req.next \in 0 .. Len(req.chain) /\ (req.next + 1) - 1 = req.next
         /\ After(req.chain, req.event.topic)[req.next] = req.chain[req.next][req.topic]
<1> DEFINE after == After(req.chain, req.event.topic)
<1>1. req.next \in Nat \ {0} /\ Len(req.chain) \in Nat /\ req.next <= Len(req.chain)
  BY ChainInHand DEF RequestTypes, RequestStates, AuthStep
<1>2. req.next \in 0 .. Len(req.chain) /\ req.next # 0 /\ (req.next + 1) - 1 = req.next
  BY <1>1
<1>3. after[req.next - 1] = Pass(req.topic)
  BY DEF AuthStep, AuthInv
<1>4. after[req.next] = OneMore(req.chain, req.event.topic, after, req.next)
  BY <1>1, <1>2, AfterUnrolls
<1> HIDE DEF after
<1>5. after[req.next] = req.chain[req.next][req.topic]
  BY <1>2, <1>3, <1>4 DEF OneMore, Pass
<1> QED
  BY <1>2, <1>5 DEF after

LEMMA AuthPreserved ==
  ASSUME ConfigTypes, ConnTypes, RequestTypes, AuthInv, [Next]_vars
  PROVE  AuthInv'
<1> USE DEF AuthInv, AuthorizationDecides
<1>1. CASE \E e \in Event : ReceiveEvent(e)
  <2>1. PICK e \in Event : ReceiveEvent(e)
    BY <1>1
  <2>2. CASE e.topic = <<>> \/ ~e.data
    <3>1. req'.stage = "respond" /\ req'.event = e
      BY <2>1, <2>2 DEF ReceiveEvent, Rest
    <3> QED
      BY <2>2, <3>1
  <2>3. CASE ~(e.topic = <<>> \/ ~e.data)
    <3>1. /\ req'.stage = "auth" /\ req'.event = e /\ req'.chain = config.auth
          /\ req'.next = 1 /\ req'.topic = e.topic /\ ~req'.failed /\ req'.onBus = {}
      BY <2>1, <2>3 DEF ReceiveEvent, Rest
    <3>2. Len(config.auth) \in Nat
      <4>1. config.auth \in Seq([Topics -> Outcomes])
        BY FunctionTypes DEF ConfigTypes
      <4> QED
        BY <4>1
    <3>3. After(config.auth, e.topic)[0] = Pass(e.topic)
      BY <3>2, AfterUnrolls DEF OneMore
    <3>4. req'.next - 1 = 0 /\ 0 \in 0 .. Len(req'.chain)
      BY <3>1, <3>2
    <3> QED
      BY <3>1, <3>3, <3>4
  <2> QED
    BY <2>2, <2>3
<1>2. CASE AuthStep
  <2> DEFINE after == After(req.chain, req.event.topic)
             result == req.chain[req.next][req.topic]
  <2>1. req.stage = "auth" /\ req \in RequestStates
    BY <1>2 DEF AuthStep, RequestTypes
  <2>2. result \in Outcomes /\ after[req.next] = result /\ Len(req.chain) \in Nat
    BY <1>2, StepOutcomes, StepFollowsChain, ChainInHand
  <2>3. req.next \in 0 .. Len(req.chain) /\ (req.next + 1) - 1 = req.next
    BY <1>2, StepFollowsChain
  <2>4. \/ result.res = "deny" /\ req' = [req EXCEPT !.stage = "respond", !.failed = TRUE]
        \/ result.res = "drop" /\ req' = [req EXCEPT !.stage = "respond"]
        \/ result.res = "pass" /\ req' = [req EXCEPT !.next = @ + 1, !.topic = result.topic]
    BY <1>2 DEF AuthStep
  <2>5. ASSUME result.res # "pass"
        PROVE  Verdict(req.chain, req.event.topic) = result
    BY <2>2, <2>3, <2>5, RefusalStands
  <2>6. result.res = "pass" => result = Pass(result.topic)
    BY <2>2, OutcomeTypes
  <2> HIDE DEF result
  <2>7. CASE result.res = "deny" /\ req' = [req EXCEPT !.stage = "respond", !.failed = TRUE]
    <3>1. /\ req'.stage = "respond" /\ req'.failed /\ req'.onBus = {}
          /\ req'.chain = req.chain /\ req'.event = req.event
      BY <2>1, <2>7 DEF RequestStates
    <3> QED
      BY <2>5, <2>7, <3>1
  <2>8. CASE result.res = "drop" /\ req' = [req EXCEPT !.stage = "respond"]
    <3>1. /\ req'.stage = "respond" /\ ~req'.failed /\ req'.onBus = {}
          /\ req'.chain = req.chain /\ req'.event = req.event
      BY <2>1, <2>8 DEF RequestStates
    <3> QED
      BY <2>5, <2>8, <3>1
  <2>9. CASE result.res = "pass" /\ req' = [req EXCEPT !.next = @ + 1, !.topic = result.topic]
    <3>1. /\ req'.stage = "auth" /\ ~req'.failed /\ req'.onBus = {}
          /\ req'.chain = req.chain /\ req'.event = req.event
          /\ req'.next = req.next + 1 /\ req'.topic = result.topic
      BY <2>1, <2>9 DEF RequestStates
    <3>2. req'.next - 1 = req.next
      BY <2>3, <3>1
    <3> QED
      BY <2>1, <2>2, <2>3, <2>6, <2>9, <3>1, <3>2
  <2> QED
    BY <2>4, <2>7, <2>8, <2>9
<1>3. CASE AuthDone
  <2>1. req.stage = "auth" /\ req \in RequestStates /\ req.next > Len(req.chain)
    BY <1>3 DEF AuthDone, RequestTypes
  <2>2. req.next - 1 = Len(req.chain)
    BY <2>1, ChainInHand DEF RequestStates
  <2>3. /\ req'.stage = "transform" /\ req'.failed = req.failed /\ req'.onBus = req.onBus
        /\ req'.chain = req.chain /\ req'.event = req.event /\ req'.topic = req.topic
    BY <1>3, <2>1 DEF AuthDone, RequestStates
  <2> QED
    BY <2>1, <2>2, <2>3
<1>4. CASE Transform
  <2> DEFINE result == req.pipeline[req.topic]
             verdict == Verdict(req.chain, req.event.topic)
  <2>1. req.stage = "transform" /\ req \in RequestStates
    BY <1>4 DEF Transform, RequestTypes
  <2>2. verdict = Pass(req.topic) /\ req.event \in Event /\ ~req.failed /\ req.onBus = {}
    BY <2>1 DEF Verdict
  <2>3. verdict.res = "pass" /\ req.pipeline[verdict.topic] = result
    BY <2>2 DEF Pass
  <2>4. result.res = "pass" => result = Pass(result.topic)
    BY StepOutcomes, OutcomeTypes
  <2>5. \/ result.res = "drop" /\ req' = [req EXCEPT !.stage = "respond"]
        \/ result.res = "pass" /\ req' = [req EXCEPT !.stage = "publish", !.topic = result.topic]
    BY <1>4 DEF Transform
  <2> HIDE DEF result, verdict
  <2>6. /\ req'.failed = req.failed /\ req'.onBus = req.onBus /\ req'.chain = req.chain
        /\ req'.event = req.event /\ req'.pipeline = req.pipeline
        /\ \/ result.res = "drop" /\ req'.stage = "respond"
           \/ result.res = "pass" /\ req'.stage = "publish" /\ req'.topic = result.topic
    BY <2>1, <2>5 DEF RequestStates
  <2>7. CASE req'.stage = "respond"
    BY <2>2, <2>3, <2>6, <2>7 DEF verdict
  <2>8. CASE req'.stage = "publish"
    BY <2>2, <2>3, <2>4, <2>6, <2>8 DEF verdict, Verdict
  <2> QED
    BY <2>6, <2>7, <2>8
<1>5. CASE Publish
  <2> DEFINE verdict == Verdict(req.chain, req.event.topic)
  <2>1. req.stage = "publish" /\ req \in RequestStates /\ conn' = conn
    BY <1>5 DEF Publish, RequestTypes
  <2>2. verdict.res = "pass" /\ req.pipeline[verdict.topic] = Pass(req.topic)
    BY <2>1 DEF Verdict
  <2>3. ~req.failed /\ req.onBus = {}
    BY <2>1
  <2>4. /\ req'.stage = "respond" /\ req'.chain = req.chain /\ req'.event = req.event
        /\ req'.pipeline = req.pipeline
        /\ \/ ~req'.failed /\ req'.onBus = {<<conn.bus, req.topic>>}
           \/ req'.failed /\ req'.onBus = {}
    BY <1>5, <2>1, <2>3 DEF Publish, RequestStates
  <2> HIDE DEF verdict
  <2>5. Verdict(req'.chain, req'.event.topic) = verdict
    BY <2>4 DEF verdict
  <2>6. Pass(req.topic).res = "pass" /\ Pass(req.topic).topic = req.topic
    BY DEF Pass
  <2>7. AuthorizationDecides'
    BY <2>1, <2>2, <2>4, <2>5, <2>6
  <2> QED
    BY <2>4, <2>7
<1>6. CASE \E failed \in BOOLEAN : Answer(failed)
  <2>1. req'.stage = "respond" /\ req'.event.topic = <<>>
    BY <1>6 DEF Answer, Rest, NotAnEvent
  <2> QED
    BY <2>1
<1>7. CASE req' = Rest
  BY <1>7 DEF Rest
<1>8. CASE req' = req /\ (req.stage = "idle" \/ conn'.bus = conn.bus)
  BY <1>8
<1>9. CASE Live
  <2>1. req.stage = "idle" \/ conn'.bus = conn.bus
    <3>1. CASE WriteFails \/ Cleanup
      <4>1. conn # NoConn /\ \E c \in {"spawned", "done"} : conn' = [conn EXCEPT !.cleanup = c]
        BY <3>1, NoConnection DEF WriteFails, Cleanup
      <4> QED
        BY <4>1, CleanupLeaves
    <3>2. CASE (\E l \in Listeners : Connect(l)) \/ Start \/ Disconnect
      BY <3>2, NoConnection DEF Connect, Start, Disconnect, RequestTypes
    <3> QED
      BY <1>9, <3>1, <3>2 DEF Live
  <2> QED
    BY <1>8, <1>9, <2>1, LiveLeaves
<1>10. CASE Panics
  BY <1>7, <1>8, <1>10, PanickingConnection
<1>11. CASE Configure \/ Malformed \/ UNCHANGED vars
  <2>1. req' = req /\ (req.stage = "idle" \/ conn' = conn)
    BY <1>11, ConfigureLeaves DEF Malformed, Reads
  <2> QED
    BY <1>8, <2>1
<1> QED
  BY <1>1, <1>2, <1>3, <1>4, <1>5, <1>6, <1>7, <1>9, <1>10, <1>11 DEF Next, Handle, HandleEvent,
    HandleSubscribe, HandleUnsubscribe, HandleUnsubscribeAll, HandleOther, Refuse, Respond

-----------------------------------------------------------------------------
LEMMA Invariance == Spec => []IInv
<1>1. Init => IInv
  <2> SUFFICES ASSUME Init PROVE IInv
    OBVIOUS
  <2>1. ConfigTypes
    BY HandlingAssumption DEF Init, ConfigTypes, Chains
  <2>2. ConnTypes
    BY DEF Init, ConnTypes
  <2>3. RequestTypes
    <3>1. req = Rest /\ Rest.stage = "idle"
      BY DEF Init, Rest
    <3> QED
      BY <3>1, RestTyped DEF RequestTypes
  <2>4. CountTypes /\ CountersAgree
    BY DEF Init, CountTypes, CountersAgree, Rest
  <2>5. DenyInv
    BY DEF Init, DenyInv, Rest
  <2>6. SubsInv /\ BusInv
    BY DEF Init, SubsInv, BusInv, NoConn
  <2>7. AuthInv
    BY DEF Init, AuthInv, AuthorizationDecides, Rest
  <2> QED
    BY <2>1, <2>2, <2>3, <2>4, <2>5, <2>6, <2>7 DEF IInv, TypeOK
<1>2. IInv /\ [Next]_vars => IInv'
  BY ConfigTypesPreserved, ConnTypesPreserved, RequestTypesPreserved, CountsPreserved,
    BusPreserved, DenyPreserved, SubsPreserved, AuthPreserved DEF IInv, TypeOK
<1> QED
  BY <1>1, <1>2, PTL DEF Spec

(* Every variable keeps its type; a connection has a listener that was     *)
(* built, and a request a connection until it is answered, whatever the    *)
(* cleanup goroutine does (connection.go, PassThrough and cleanup). *)
THEOREM TypeCorrect == Spec => []TypeOK
<1>1. IInv => TypeOK
  BY DEF IInv
<1> QED
  BY <1>1, Invariance, PTL

(* What the authorization chain and the transforms in force say of an      *)
(* event decides whether it fails, whether it is on a bus, on which and    *)
(* under which topic, for chains of any length (evauth.go, ChainEventAuth; *)
(* connection.go, handleRequest). *)
THEOREM ChainDecides == Spec => []AuthorizationDecides
<1>1. IInv => AuthorizationDecides
  BY DEF IInv, AuthInv
<1> QED
  BY <1>1, Invariance, PTL

(* Nothing of a client reaches a bus before the program has given an       *)
(* authorization function (config.go, NewListener and WithEventAuth). *)
THEOREM DefaultDenies == Spec => []SecureByDefault
<1>1. IInv => SecureByDefault
  BY DEF IInv, DenyInv, SecureByDefault
<1> QED
  BY <1>1, Invariance, PTL

(* Subscriptions are within the prefix of the controller the listener was  *)
(* built with (subctl.go, TopicPrefixSubscriptionController). *)
THEOREM PrefixHolds == Spec => []SubscriptionsInPrefix
<1>1. IInv => SubscriptionsInPrefix
  BY DEF IInv, SubsInv, SubscriptionsInPrefix
<1> QED
  BY <1>1, Invariance, PTL

(* What a client that has gone has left on a bus is what the bus refused   *)
(* to cancel or what its reader subscribed to after its cleanup, whatever  *)
(* buses the builder was given meanwhile (connection.go, cleanup). *)
THEOREM CleanupFindsTheBus == Spec => []NothingLeftOnAnyBus
<1>1. IInv => NothingLeftOnAnyBus
  BY DEF IInv, SubsInv, NothingLeftOnAnyBus
<1> QED
  BY <1>1, Invariance, PTL

(* Handlers panic for want of a bus only under a program that has set the  *)
(* bus to nil after a Build (config.go, WithEventBus and Build). *)
THEOREM BusesAreThere == Spec => []OnlyWithdrawnBusPanics
<1>1. IInv => OnlyWithdrawnBusPanics
  BY DEF IInv, TypeOK, CountTypes, BusInv, OnlyWithdrawnBusPanics
<1> QED
  BY <1>1, Invariance, PTL

(* The request and error counters agree with the answers the clients have  *)
(* been given, those that could not be sent and those that a panic cut off *)
(* (connection.go, sendPacket; metrics.go, RecordRequest). *)
THEOREM CountersMatch == Spec => []CountersAgree
<1>1. IInv => CountersAgree
  BY DEF IInv
<1> QED
  BY <1>1, Invariance, PTL
=============================================================================
