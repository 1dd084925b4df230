---------------------------- MODULE VwsHandling ----------------------------
(***************************************************************************)
(* What a listener's configuration decides: which events of a client reach *)
(* the bus, which subscriptions a client gets, and on which bus            *)
(* (src/server: config.go, evauth.go, subctl.go, handleRequest in          *)
(* connection.go).                                                         *)
(*                                                                         *)
(* The builder goes on living in the listeners built from it: they keep a  *)
(* pointer to it, and a With... call after Build changes what they do.     *)
(* Authorization and inbound transforms are read for every event, the bus  *)
(* when a connection is made, the controller when the listener is built.   *)
(*                                                                         *)
(* An authorization function or a pipeline of transforms is a function     *)
(* from topics to outcomes.  One connection after the other is followed:   *)
(* its reader, and the cleanup goroutine that a failed write starts; its   *)
(* worker and its socket step by step are VwsConnection.  A call of the    *)
(* builder is one step: two words of a field that a handler reads between  *)
(* the two stores are the race of the caller, which is not modelled.       *)
(***************************************************************************)
EXTENDS Naturals, Sequences

CONSTANTS Topics,      \* sequences; <<>> is the empty topic
          Buses,
          Prefixes,    \* of the subscription controllers given
          Policies,    \* the chains of authorization functions given
          Pipelines,   \* the inbound transforms given
          Initial,     \* the sets of initial subscriptions given
          Listeners,
          MaxRequests  \* bound: requests, of all connections

VARIABLES config,      \* the builder: bus, auth, inbound, prefix, initial
          authSet,     \* history: WithEventAuth has been given a function
          withdrawn,   \* history: the bus was set to nil after a Build
          controller,  \* per listener: the prefix of its controller, once built
          conn,        \* the connection: its listener, its bus, what it was
                       \* subscribed to when it started, its cleanup
          subs,        \* subscriptions <<bus, topic>> of this connection or, when
                       \* it has gone, those it has left on the buses
          excused,     \* history: those of its subscriptions that it made after
                       \* its cleanup, and those the bus refused to cancel then
          req,         \* the request it handles, or the last one
          counts       \* metrics: requests, requestErrors, messageErrors of
                       \* frames; ACKs and NACKs sent; events that asked for no
                       \* answer, answers not sent, requests cut off by a panic

vars == <<config, authSet, withdrawn, controller, conn, subs, excused, req, counts>>

NoBus == "none"
NotBuilt == "not built"
NoListener == "none"
NoConn == [listener |-> NoListener, bus |-> NoBus, started |-> FALSE, initial |-> {},
           cleanup |-> "none"]

-----------------------------------------------------------------------------
(* evauth.go *)

Pass(t) == [res |-> "pass", topic |-> t]
Denied == [res |-> "deny", topic |-> <<>>]
Dropped == [res |-> "drop", topic |-> <<>>]

HasPrefix(prefix, t) == Len(t) >= Len(prefix) /\ SubSeq(t, 1, Len(prefix)) = prefix

AllowAllEvents == [t \in Topics |-> Pass(t)]
DenyAllEvents == [t \in Topics |-> Denied]
DropAllEvents == [t \in Topics |-> Dropped]
AllowTopicPrefix(prefix) == [t \in Topics |-> IF HasPrefix(prefix, t) THEN Pass(t) ELSE Denied]
AllowTopicPattern(matching) == [t \in Topics |-> IF t \in matching THEN Pass(t) ELSE Denied]

Outcomes == {Pass(t) : t \in Topics} \cup {Denied, Dropped}

NoTransforms == [t \in Topics |-> Pass(t)]

ASSUME HandlingAssumption ==
  /\ Topics \subseteq Seq(STRING) /\ <<>> \in Topics /\ Prefixes \subseteq Seq(STRING) /\ <<>> \in Prefixes
  /\ Initial \subseteq SUBSET Topics
  /\ NoBus \notin Buses /\ NoListener \notin Listeners /\ NotBuilt \notin Prefixes /\ MaxRequests \in Nat
  /\ Policies \subseteq Seq([Topics -> Outcomes])
  /\ Pipelines \subseteq [Topics -> Outcomes \ {Denied}]

Chains == Policies \cup {<<DenyAllEvents>>}

-----------------------------------------------------------------------------
(* connection.go: the request at hand.  Stages of an event: "auth" before   *)
(* function next of chain, "transform", "publish"; every request comes to   *)
(* "respond".  onBus is what it has put on a bus.                           *)

Event == [topic : Topics, data : BOOLEAN, id : BOOLEAN]

NotAnEvent == [topic |-> <<>>, data |-> FALSE, id |-> TRUE]

Rest == [stage |-> "idle", event |-> NotAnEvent, chain |-> <<>>, next |-> 1,
         pipeline |-> NoTransforms, topic |-> <<>>, failed |-> FALSE, onBus |-> {}]

Init ==
  /\ config = [bus |-> NoBus, auth |-> <<DenyAllEvents>>, inbound |-> NoTransforms,
               prefix |-> <<>>, initial |-> {}]
  /\ authSet = FALSE /\ withdrawn = FALSE
  /\ controller = [l \in Listeners |-> NotBuilt]
  /\ conn = NoConn /\ subs = {} /\ excused = {} /\ req = Rest
  /\ counts = [requests |-> 0, errors |-> 0, malformed |-> 0,
               acks |-> 0, nacks |-> 0, silent |-> 0, unsent |-> 0, torn |-> 0]

-----------------------------------------------------------------------------
(* config.go: the calls of the program, at any time                        *)

connVars == <<conn, subs, excused, req, counts>>

(* Whatever is given is stored, NoBus for nil.                             *)
WithEventBus(b) ==
  /\ config' = [config EXCEPT !.bus = b]
  /\ withdrawn' = (withdrawn \/ (b = NoBus /\ \E l \in Listeners : controller[l] # NotBuilt))
  /\ UNCHANGED <<authSet, controller, connVars>>

WithEventAuth(chain) ==
  /\ config' = [config EXCEPT !.auth = chain]
  /\ authSet' = TRUE
  /\ UNCHANGED <<withdrawn, controller, connVars>>

\* mutant: a nil function is taken, and handleRequest lets every event pass
WithNilEventAuthTaken ==
  /\ config' = [config EXCEPT !.auth = <<>>]
  /\ UNCHANGED <<authSet, withdrawn, controller, connVars>>

(* WithEventAuth(nil) is ignored, like a nil factory and empty lists.      *)
WithNil == UNCHANGED vars

WithInboundTransforms(f) ==
  /\ config' = [config EXCEPT !.inbound = f]
  /\ UNCHANGED <<authSet, withdrawn, controller, connVars>>

WithInitialSubscriptions(topics) ==
  /\ topics # {}
  /\ config' = [config EXCEPT !.initial = topics]
  /\ UNCHANGED <<authSet, withdrawn, controller, connVars>>

WithSubscriptionController(prefix) ==
  /\ config' = [config EXCEPT !.prefix = prefix]
  /\ UNCHANGED <<authSet, withdrawn, controller, connVars>>

IsValid == config.bus # NoBus

\* mutant: Build does not ask IsValid
BuildUnchecked(l) ==
  /\ controller[l] = NotBuilt
  /\ controller' = [controller EXCEPT ![l] = config.prefix]
  /\ UNCHANGED <<config, authSet, withdrawn, connVars>>

(* newListener makes the controller once, from the factory it finds; the   *)
(* rest of the configuration stays shared with the builder.                *)
Build(l) ==
  /\ controller[l] = NotBuilt /\ IsValid
  /\ controller' = [controller EXCEPT ![l] = config.prefix]
  /\ UNCHANGED <<config, authSet, withdrawn, connVars>>

Configure ==
  \/ \E b \in Buses \cup {NoBus} : WithEventBus(b)
  \/ \E chain \in Policies : WithEventAuth(chain)
  \/ \E f \in Pipelines : WithInboundTransforms(f)
  \/ \E topics \in Initial : WithInitialSubscriptions(topics)
  \/ \E prefix \in Prefixes : WithSubscriptionController(prefix)
  \/ WithNil
  \/ \E l \in Listeners : Build(l)

-----------------------------------------------------------------------------
(* The connection                                                          *)

configVars == <<config, authSet, withdrawn, controller>>

(* newConnection: the bus is the one the builder holds now.                *)
Connect(l) ==
  /\ controller[l] # NotBuilt /\ conn = NoConn
  /\ conn' = [NoConn EXCEPT !.listener = l, !.bus = config.bus]
  /\ subs' = {} /\ excused' = {}
  /\ UNCHANGED <<configVars, req, counts>>

(* The reader calls a nil bus: the handler of the connection unwinds to    *)
(* net/http, which recovers.                                               *)
Panic ==
  /\ conn.bus = NoBus
  /\ conn' = NoConn
  /\ UNCHANGED <<configVars, subs, excused>>

PastCleanup(topics) == IF conn.cleanup = "done" THEN {<<conn.bus, t>> : t \in topics} ELSE {}

(* Start: each initial subscription may fail, and is not asked of the      *)
(* controller.                                                             *)
Start ==
  /\ conn # NoConn /\ ~conn.started
  /\ conn.bus = NoBus => config.initial = {}
  /\ \E made \in SUBSET config.initial :
       /\ conn' = [conn EXCEPT !.started = TRUE, !.initial = made]
       /\ subs' = subs \cup {<<conn.bus, t>> : t \in made}
       /\ excused' = excused \cup PastCleanup(made)
  /\ UNCHANGED <<configVars, req, counts>>

StartPanics ==
  /\ conn # NoConn /\ ~conn.started /\ config.initial # {}
  /\ Panic
  /\ UNCHANGED <<req, counts>>

(* A write of the worker, of a ping or an event, fails: go c.cleanup().    *)
WriteFails ==
  /\ conn # NoConn /\ conn.cleanup = "none"
  /\ conn' = [conn EXCEPT !.cleanup = "spawned"]
  /\ UNCHANGED <<configVars, subs, excused, req, counts>>

\* mutant: the cleanup unsubscribes from the bus its listener is configured with
UnsubscribeFromConfigured ==
  \/ /\ subs' = {s \in subs : s[1] # config.bus}
     /\ UNCHANGED excused
  \/ /\ excused' = excused \cup subs
     /\ UNCHANGED subs

(* cleanup: UnsubscribeAll on the connection's bus, not asked of the       *)
(* controller; when the bus refuses, the error is logged.                  *)
CleanupUnsubscribes ==
  \/ /\ subs' = {s \in subs : s[1] # conn.bus}
     /\ UNCHANGED excused
  \/ /\ excused' = excused \cup subs
     /\ UNCHANGED subs

\* mutant: the cleanup goroutine takes the connection from its reader
CleanupEndsConnection ==
  /\ conn.cleanup = "spawned" /\ conn.bus # NoBus
  /\ CleanupUnsubscribes
  /\ conn' = NoConn
  /\ UNCHANGED <<configVars, req, counts>>

(* The cleanup goroutine, while the reader goes on.  With a nil bus it     *)
(* panics on a goroutine of its own and the process ends: no step.         *)
Cleanup ==
  /\ conn.cleanup = "spawned" /\ conn.bus # NoBus
  /\ CleanupUnsubscribes
  /\ conn' = [conn EXCEPT !.cleanup = "done"]
  /\ UNCHANGED <<configVars, req, counts>>

(* messageReader has returned; the cleanup is the reader's if no goroutine *)
(* was first.  With a nil bus it panics, which ends the handler too.       *)
Disconnect ==
  /\ conn.started /\ req.stage = "idle"
  /\ \/ conn.cleanup # "done" /\ CleanupUnsubscribes
     \/ conn.cleanup = "done" /\ UNCHANGED <<subs, excused>>
  /\ conn' = NoConn
  /\ UNCHANGED <<configVars, req, counts>>

HasRoom == counts.requests + counts.malformed < MaxRequests

Reads == conn.started /\ req.stage = "idle" /\ HasRoom

(* An answer goes out, or its marshalling or its write fails: counted as a *)
(* message error, and go c.cleanup().                                      *)
Sent == UNCHANGED conn
Unsent == conn' = [conn EXCEPT !.cleanup = IF @ = "none" THEN "spawned" ELSE @]

(* A frame that does not parse: counted and answered, no request.          *)
Malformed ==
  /\ Reads
  /\ \/ Sent /\ counts' = [counts EXCEPT !.malformed = @ + 1, !.nacks = @ + 1]
     \/ Unsent /\ counts' = [counts EXCEPT !.malformed = @ + 1, !.unsent = @ + 1]
  /\ UNCHANGED <<configVars, subs, excused, req>>

(* RecordRequest, when handleRequest begins.                               *)
RecordRequest == counts' = [counts EXCEPT !.requests = @ + 1]

(* An event; c.config.eventAuth is read here.                              *)
ReceiveEvent(e) ==
  /\ Reads /\ RecordRequest
  /\ req' = IF e.topic = <<>> \/ ~e.data
            THEN [Rest EXCEPT !.stage = "respond", !.event = e, !.failed = TRUE]
            ELSE [Rest EXCEPT !.stage = "auth", !.event = e,
                              !.chain = config.auth, !.topic = e.topic]
  /\ UNCHANGED <<configVars, conn, subs, excused>>

\* mutant: the contract of config.go, (nil, nil) leaves the message as it is
DropPasses ==
  /\ req.stage = "auth" /\ req.next <= Len(req.chain)
  /\ LET result == req.chain[req.next][req.topic] IN
       \/ result.res = "deny" /\ req' = [req EXCEPT !.stage = "respond", !.failed = TRUE]
       \/ result.res = "drop" /\ req' = [req EXCEPT !.next = @ + 1]
       \/ result.res = "pass" /\ req' = [req EXCEPT !.next = @ + 1, !.topic = result.topic]
  /\ UNCHANGED <<configVars, conn, subs, excused, counts>>

(* ChainEventAuth: one function of the chain.  An error denies, nil drops, *)
(* and the next function is given what this one returned.                  *)
AuthStep ==
  /\ req.stage = "auth" /\ req.next <= Len(req.chain)
  /\ LET result == req.chain[req.next][req.topic] IN
       \/ result.res = "deny" /\ req' = [req EXCEPT !.stage = "respond", !.failed = TRUE]
       \/ result.res = "drop" /\ req' = [req EXCEPT !.stage = "respond"]
       \/ result.res = "pass" /\ req' = [req EXCEPT !.next = @ + 1, !.topic = result.topic]
  /\ UNCHANGED <<configVars, conn, subs, excused, counts>>

(* The chain has let the event pass; the transforms are read here.         *)
AuthDone ==
  /\ req.stage = "auth" /\ req.next > Len(req.chain)
  /\ req' = [req EXCEPT !.stage = "transform", !.pipeline = config.inbound]
  /\ UNCHANGED <<configVars, conn, subs, excused, counts>>

(* ApplyTransforms; a message dropped there is acknowledged.               *)
Transform ==
  /\ req.stage = "transform"
  /\ LET result == req.pipeline[req.topic] IN
       \/ result.res = "drop" /\ req' = [req EXCEPT !.stage = "respond"]
       \/ result.res = "pass" /\ req' = [req EXCEPT !.stage = "publish", !.topic = result.topic]
  /\ UNCHANGED <<configVars, conn, subs, excused, counts>>

(* The bus takes the event or returns an error.                            *)
Publish ==
  /\ req.stage = "publish" /\ conn.bus # NoBus
  /\ \/ req' = [req EXCEPT !.stage = "respond", !.onBus = {<<conn.bus, req.topic>>}]
     \/ req' = [req EXCEPT !.stage = "respond", !.failed = TRUE]
  /\ UNCHANGED <<configVars, conn, subs, excused, counts>>

(* A nil bus: no answer; the deferred completion still runs, without error.*)
PublishPanics ==
  /\ req.stage = "publish" /\ Panic
  /\ req' = Rest
  /\ counts' = [counts EXCEPT !.torn = @ + 1]

(* Every other request has an answer, with or without an id.               *)
Answer(failed) == req' = [Rest EXCEPT !.stage = "respond", !.failed = failed]

(* The controller's refusal or the bus's error.                            *)
Refuse == Answer(TRUE) /\ UNCHANGED <<subs, excused>>

\* mutant: the controller is asked for anew, from the live configuration
SubscribeByConfigured(t) ==
  /\ Reads /\ RecordRequest
  /\ \/ /\ HasPrefix(config.prefix, t) /\ conn.bus # NoBus
        /\ subs' = subs \cup {<<conn.bus, t>>}
        /\ excused' = excused \cup PastCleanup({t})
        /\ Answer(FALSE)
     \/ Refuse
  /\ UNCHANGED <<configVars, conn>>

Permitted(t) == HasPrefix(controller[conn.listener], t)

HandleSubscribe(t) ==
  /\ Reads /\ RecordRequest
  /\ \/ /\ Permitted(t) /\ conn.bus # NoBus
        /\ subs' = subs \cup {<<conn.bus, t>>}
        /\ excused' = excused \cup PastCleanup({t})
        /\ Answer(FALSE)
     \/ (Permitted(t) => conn.bus # NoBus) /\ Refuse
  /\ UNCHANGED <<configVars, conn>>

HandleUnsubscribe(t) ==
  /\ Reads /\ RecordRequest
  /\ \/ /\ Permitted(t) /\ conn.bus # NoBus
        /\ subs' = subs \ {<<conn.bus, t>>}
        /\ UNCHANGED excused
        /\ Answer(FALSE)
     \/ (Permitted(t) => conn.bus # NoBus) /\ Refuse
  /\ UNCHANGED <<configVars, conn>>

(* The prefix controller lets everyone unsubscribe from everything.        *)
HandleUnsubscribeAll ==
  /\ Reads /\ RecordRequest /\ conn.bus # NoBus
  /\ \/ /\ subs' = {s \in subs : s[1] # conn.bus}
        /\ UNCHANGED excused
        /\ Answer(FALSE)
     \/ Refuse
  /\ UNCHANGED <<configVars, conn>>

(* The controller passes a nil bus on, that of an unsubscribe-all always.  *)
HandlePanics ==
  /\ Reads /\ Panic
  /\ counts' = [counts EXCEPT !.requests = @ + 1, !.torn = @ + 1]
  /\ UNCHANGED req

(* An ack is answered with an ack, an unknown kind with a nack.            *)
HandleOther ==
  /\ Reads /\ RecordRequest
  /\ \E failed \in BOOLEAN : Answer(failed)
  /\ UNCHANGED <<configVars, conn, subs, excused>>

\* mutant: defer recordCompletion(err), whose argument is nil at the defer
CompletedWithNil(counted) == counted

(* The deferred completion counts the error the handler ended with.        *)
Completed(counted) == [counted EXCEPT !.errors = IF req.failed THEN @ + 1 ELSE @]

(* respondToRequest, unless an event without an id.                        *)
Respond ==
  /\ req.stage = "respond"
  /\ \/ /\ ~req.event.id /\ Sent
        /\ counts' = Completed([counts EXCEPT !.silent = @ + 1])
     \/ /\ req.event.id /\ ~req.failed /\ Sent
        /\ counts' = Completed([counts EXCEPT !.acks = @ + 1])
     \/ /\ req.event.id /\ req.failed /\ Sent
        /\ counts' = Completed([counts EXCEPT !.nacks = @ + 1])
     \/ /\ req.event.id /\ Unsent
        /\ counts' = Completed([counts EXCEPT !.unsent = @ + 1])
  /\ req' = Rest
  /\ UNCHANGED <<configVars, subs, excused>>

HandleEvent ==
  \/ \E e \in Event : ReceiveEvent(e)
  \/ AuthStep \/ AuthDone \/ Transform \/ Publish

Handle ==
  \/ HandleEvent
  \/ \E t \in Topics : HandleSubscribe(t) \/ HandleUnsubscribe(t)
  \/ HandleUnsubscribeAll \/ HandleOther \/ Malformed \/ Respond

Panics == StartPanics \/ PublishPanics \/ HandlePanics

Live ==
  \/ \E l \in Listeners : Connect(l)
  \/ Start \/ WriteFails \/ Cleanup \/ Disconnect

Next == Configure \/ Live \/ Handle \/ Panics

Spec == Init /\ [][Next]_vars

-----------------------------------------------------------------------------
ConfigTypes ==
  /\ config \in [bus : Buses \cup {NoBus}, auth : Chains, inbound : Pipelines \cup {NoTransforms},
                 prefix : Prefixes, initial : Initial \cup {{}}]
  /\ authSet \in BOOLEAN /\ withdrawn \in BOOLEAN
  /\ controller \in [Listeners -> Prefixes \cup {NotBuilt}]

Connections ==
  [listener : Listeners, bus : Buses \cup {NoBus}, started : BOOLEAN, initial : SUBSET Topics,
   cleanup : {"none", "spawned", "done"}]

ConnTypes ==
  /\ conn = NoConn \/ (conn \in Connections /\ controller[conn.listener] # NotBuilt)
  /\ subs \subseteq Buses \X Topics
  /\ excused \subseteq Buses \X Topics

RequestStates ==
  [stage : {"idle", "auth", "transform", "publish", "respond"},
   event : Event \cup {NotAnEvent}, chain : Chains \cup {<<>>}, next : Nat \ {0},
   pipeline : Pipelines \cup {NoTransforms}, topic : Topics, failed : BOOLEAN,
   onBus : SUBSET (Buses \X Topics)]

RequestTypes ==
  /\ req \in RequestStates
  /\ req.stage # "idle" => conn.started

CountTypes ==
  counts \in [requests : Nat, errors : Nat, malformed : Nat, acks : Nat, nacks : Nat,
              silent : Nat, unsent : Nat, torn : Nat]

(* The types; a connection belongs to a listener that has been built       *)
(* (config.go, Build), and a request has a connection for as long as it is *)
(* handled, whatever the cleanup goroutine does meanwhile (connection.go,  *)
(* PassThrough).                                                           *)
TypeOK == ConfigTypes /\ ConnTypes /\ RequestTypes /\ CountTypes

(* What a chain says of a topic: after its first i functions, the outcome  *)
(* of the first that refuses, each being given the topic its predecessor   *)
(* passed on; its verdict is that after all of them.                       *)
After(chain, topic) ==
  LET after[i \in 0..Len(chain)] ==
        IF i = 0 THEN Pass(topic)
        ELSE IF after[i-1].res = "pass" THEN chain[i][after[i-1].topic] ELSE after[i-1]
  IN  after

Verdict(chain, topic) == After(chain, topic)[Len(chain)]

(* An event that the chain in force when it came denies is on no bus and   *)
(* its request has failed; one that it drops is on no bus and its request  *)
(* has not failed; one that it lets pass is on no bus but the              *)
(* connection's, under the topic that the chain and then the transforms    *)
(* have made of it -- although the builder may replace all three while the *)
(* event is handled (connection.go, handleRequest; evauth.go,              *)
(* ChainEventAuth).                                                        *)
AuthorizationDecides ==
  req.stage = "respond" /\ req.event.topic # <<>> /\ req.event.data =>
    LET verdict == Verdict(req.chain, req.event.topic) IN
      /\ verdict.res = "deny" => req.failed /\ req.onBus = {}
      /\ verdict.res = "drop" => ~req.failed /\ req.onBus = {}
      /\ verdict.res = "pass" =>
           LET made == req.pipeline[verdict.topic] IN
             /\ made.res = "drop" => ~req.failed /\ req.onBus = {}
             /\ made.res = "pass" =>
                  req.onBus = IF req.failed THEN {} ELSE {<<conn.bus, made.topic>>}

(* Nothing a client sends reaches a bus before the program has given an    *)
(* authorization function, whatever else it has configured, nil functions  *)
(* included (config.go, NewListener and WithEventAuth).                    *)
SecureByDefault == req.onBus # {} => authSet

(* A connection without a bus, and with it a handler that panics, comes    *)
(* about only through a program that sets the bus to nil after a Build     *)
(* (config.go, WithEventBus, IsValid and Build; connection.go,             *)
(* newConnection).                                                         *)
OnlyWithdrawnBusPanics ==
  (conn # NoConn /\ conn.bus = NoBus) \/ counts.torn > 0 => withdrawn

(* What a client is subscribed to, beyond what the server subscribed it to *)
(* when it connected, is within the prefix of the controller its listener  *)
(* was built with, whatever controller the builder was given since         *)
(* (listener.go, newListener; subctl.go).                                  *)
SubscriptionsInPrefix ==
  conn.started =>
    \A s \in subs : Permitted(s[2]) \/ s[2] \in conn.initial

(* A client that has gone has left no subscription on any bus, whichever   *)
(* buses the builder was given while it was there, but those a bus refused *)
(* to cancel and those its reader made after the cleanup goroutine of a    *)
(* failed write had unsubscribed (connection.go, cleanup, PassThrough and  *)
(* OnEvent).                                                               *)
NothingLeftOnAnyBus == conn = NoConn => subs \subseteq excused

(* Every request and every frame that does not parse has one answer, or an *)
(* answer that could not be sent, or is an event that asked for none, or   *)
(* was cut off by a panic for want of a bus.  Every NACK is a counted      *)
(* error, of a request or of a frame, and every counted error a NACK,      *)
(* unless its answer was not asked for or not sent (connection.go,         *)
(* handleRequest and sendPacket; metrics.go, RecordRequest).               *)
CountersAgree ==
  LET errors == counts.errors + counts.malformed
      answered == counts.acks + counts.nacks
      unanswered == counts.silent + counts.unsent
      atHand == IF req.stage = "idle" THEN 0 ELSE 1
  IN  /\ counts.requests + counts.malformed = answered + unanswered + counts.torn + atHand
      /\ counts.nacks <= errors /\ errors <= counts.nacks + unanswered
=============================================================================
