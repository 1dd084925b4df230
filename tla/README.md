# vinculum-vws in TLA+

vinculum-vws puts an event bus behind WebSockets: a server (`src/server`) that
accepts connections and forwards events and subscriptions, and a client
(`src/client`). This directory holds TLA+ modules of its concurrent parts, the
TLC configurations that check them on small instances, and TLAPS proofs of the
invariants that matter most for every instance.

`tlc -config X.cfg M` checks a run, `tlapm M.tla` the proofs of a module; the
runs, the mutants, the map from definitions to source lines, the findings and
the hazards are listed in `PROJECT.json`.

## The system

| Part | State | Operations | Interacts with |
|---|---|---|---|
| **Listener** `server/listener.go` | `shutdown` channel, `shutdownOnce`, `connections` under `connMutex` | `ServeHTTP` (one goroutine per request), `Shutdown`, `ConnectionCount` | creates Connections; closes them from goroutines of its own; records a gauge |
| **Connection** `server/connection.go` | `ctx`, `conn`, `eventMsg`, `asyncSubscriber`, `cleanupOnce` | `Start`, `messageReader`, `handleRequest`, `OnEvent`, `PassThrough`, `cleanup`, `shutdownClose` | the bus calls its queue; the queue's worker calls `OnEvent` and, on ticks, `PassThrough`; the listener calls `shutdownClose` |
| **Subscription controllers** `server/subctl.go` | a prefix | `Subscribe`, `Unsubscribe`, `UnsubscribeAll` | between `handleRequest` and the bus |
| **Event authorization** `server/evauth.go` | none | `AllowAllEvents`, ..., `ChainEventAuth` | called by `handleRequest` |
| **Configuration** `server/config.go`, `client/builder.go` | option values | builders, `IsValid`, `Build` | read by the others |
| **Metrics** `server/metrics.go` | counters, histograms, one gauge | `Record...` | called by Listener and Connection |
| **Client life cycle** `client/client.go` | `started`, `stopping`, `ctx`/`cancel`, `done`, `conn` under `mu` | `Connect`, `Disconnect`, `IsConnected`, cleanup, `readLoop`, `writeLoop` | its loops start cleanups; the monitor is called back |
| **Client requests** `client/client.go` | `messageID`, `pendingReqs` under `pendingMu`, `writeChannel` | `Subscribe`, `Unsubscribe`, `UnsubscribeAll`, `Publish`, `PublishSync`, `handleMessage` | waits for answers that `readLoop` delivers |
| **Wire format, tracing** `message.go`, `tracing.go` | none | kinds, headers in and out | used on both sides |
| **External** | | event bus, `AsyncQueueingSubscriber`, `coder/websocket`, `net/http` | modelled by what the calls in `src/` expect |

What is hard here, and what makes each part correct:

- *Listener.* The shutdown check of a request and its tracking are separate
  steps; `Shutdown` is called concurrently. It is correct when Shutdown's return
  means something definite: which connections are told to close, which are
  gone, which may have slipped through, and that it does return.
- *Connection.* Four kinds of goroutine share it (reader, worker, cleanup
  goroutines of failed writes, the listener's). It is correct when an
  acknowledged subscription is on the bus, nothing stale is sent, the cleanup
  runs once, drains before it closes, leaves nothing behind, and always ends.
- *Configuration, authorization, controllers.* The listeners built from a
  builder keep a pointer to it, so its calls reach connections in use. It is
  correct when nothing is let through that the function in force denies, also
  before any function is given, when a client's subscriptions stay within its
  controller's prefix, when a connection keeps to one bus to its end, and when
  requests, answers and counters agree although answers may not get out.
- *Client life cycle.* Two flags under compare-and-swap guard plain fields that
  the loops re-read in every turn and the next `Connect` replaces. It is correct
  when one cleanup runs at a time, no channel is closed twice, no socket is
  left open, and every failure and every Disconnect comes to an end. The code
  achieves the first of these always, the others as long as no Connect overlaps
  an older connection's leftovers (findings 4, 6 and 9 to 11).
- *Client requests.* An answer, two contexts' ends and a reconnect race for a
  call that waits. It is correct when a call ends once, with the server's answer
  to that call or with none, when its own context always frees it, and when
  pendingReqs holds no call that has gone.
- *Client builder.* The header map is shared after Build; a token must not get
  into it.

Nothing is persisted and no request is retried by the code, so there is no crash
recovery to model. Data races on the client's fields are modelled as interleaved
reads and writes of whole values.

## The modules

### VwsListener

One ServeHTTP goroutine per element of `Handlers`, one goroutine calling
`Shutdown` per element of `Callers`. A connection is named by its request.

| TLA+ | code |
|---|---|
| `shutdown`, `once`, `connections` | `l.shutdown` closed, `l.shutdownOnce`, `l.connections` |
| `pc`, `connCount` | place in `ServeHTTP` and its local `connCount`; a critical section of `connMutex` is one step |
| `gauge` | the last value passed to `RecordConnectionActive` |
| `spc`, `snapshot`, `closing` | place in `Shutdown`, its local copy of the map, the `go conn.shutdownClose` not run yet |
| `sock` | the WebSocket of the connection |
| `racers` (history) | handlers between check and tracking when the channel was closed |

A handler knows its connection only as **VwsSocketLife**: the socket closes once
and for good, Start returns after that, once, and does return.
VwsConnection implements it (`ImplementsLife`).

### VwsConnection (instance: MCVwsConnection)

One connection from `newConnection` to the return of `Start`.

| TLA+ | code |
|---|---|
| `rpc`, `todo`, `request`, `answer` | the reader's place in `Start`/`messageReader`/`handleRequest`, initial subscriptions left, the frame in hand, `err` |
| `wpc`, `queue`, `event`, `eventMsg` | the AsyncQueueingSubscriber's worker and queue, the event in hand, the reused map `c.eventMsg` |
| `cpc`, `asyncClosed`, `spawned` | `cleanupOnce` and the place in its function, `asyncSubscriber.Close` called, some `go c.cleanup()` started |
| `subs`, `sock`, `ctxDone` | what the bus has for the connection, the WebSocket, `c.ctx` |
| `acked`, `cleaner`, `unsubResult` (history) | acknowledged subscriptions, who runs the cleanup, how its `UnsubscribeAll` went |

A frame keeps its kind, its topic and whether it has an id. `Allowed` is what
the subscription controller passes on. Whether an event is accepted is a free
choice of `HandleEvent` (authorization, transforms and bus). `spawned` is one
flag for all cleanup goroutines: a goroutine that finds the once taken does
nothing more. Writes that fail may leave the socket open (the payload cannot be
marshalled) or close it (a timeout).

### VwsClient

Every Connect that wins its compare-and-swap makes a *generation*: its context,
done channel, socket and two loops. A field is the number of the generation
whose object it holds (0: nil), so a loop that re-reads `c.ctx` after a
reconnect sees another number: `fCtx`, `fDone`, `conn`. `kpc[t]` is the place
in `cleanupWithStatus` of goroutine `t`: a caller of Disconnect or the goroutine
started by a loop's `notifyDisconnectError`. `overlap` (history) records that a
Connect and a cleanup, a former connection's writeLoop or another Connect have
been at work together; the code has no protection in that case, and the
invariants that need it are stated without it. What the comments promise and
the code does not keep is in the last section of the module, one run each. Closing a
closed channel is a panic that ends the process; the model goes on after it,
which the passing properties do not mind and the violated one does not use.

### VwsCall, VwsRequests (instance: MCVwsRequests)

**VwsCall** is what a call of the client promises: the server decides on it at
most once, it ends at most once, and if it ends with an answer, that is what the
server decided on this very call. **VwsRequests** is the code that implements it
(`ImplementsCalls`, with `outcome <- result`).

| TLA+ | code |
|---|---|
| `Callers`, `Inner` | calls made by goroutines of the program; calls made inside `OnConnect` or `OnEvent` |
| `pc`, `id`, `own`, `resp`, `host` | a call's place in `sendMessage`, its message id, its context has ended, its response channel, the callback it is made in |
| `sel` | the fields `c.ctx` and `c.writeChannel` a select has evaluated: it goes on with those after a reconnect |
| `fCtx`, `fChan`, `mapMade`, `pending`, `messageID` | the fields; a number is the Connect that set it, 0 is nil |
| `lpc`, `ctx`, `sock`, `rpc`, `wpc`, `wCtx`, `wChan` | place in Connect or a cleanup; per Connect its context, socket, loops, and the fields writeLoop's select has evaluated |
| `chan`, `net`, `answers` | messages in the write channel, messages and answers under way; `answers` may arrive in any order |
| `verdict` (history) | what the server did with a call's message |

Connect sets its fields one at a time and calls run in between. A call that
meets the nil map panics with `pendingMu` locked; where the program recovers the
panic, the mutex stays so (`locked`), and whoever needs it has no further step:
Connect, calls that register or remove their entry, readLoop with an answer. A
Disconnect then waits for that readLoop too. A Disconnect
that overlaps a Connect is VwsClient's subject; here one of the two is at work.
The server answers a message once, late or never; sockets and contexts end at
any time and take what is under way with them.

### VwsHandling, VwsDial (instance: MCVwsBuilders)

**VwsHandling** is what a listener's configuration decides: the builder's calls,
at any time, and one connection's requests through `handleRequest`, with the
cleanup goroutine that a failed write of the worker or of an answer starts.

| TLA+ | code |
|---|---|
| `config`, `authSet`, `withdrawn` | the `ListenerConfig` that builder and listeners share; (history) a function was given, the bus was set to nil after a Build |
| `controller` | per listener the prefix of its controller, made when it is built |
| `conn`, `subs` | listener, bus and initial subscriptions of the connection, how far its cleanup is; what is on which bus |
| `excused` (history) | subscriptions the bus refused to cancel in the cleanup, and those made after it |
| `req` | the request in `handleRequest`: `chain` and `next` are the place in `ChainEventAuth`, read from the builder when the event comes; `pipeline` the transforms, read after it |
| `counts` | the counters of metrics.go, the answers sent, not sent and not asked for, the requests cut off by a panic |

An authorization function is a map from topics to pass (as which topic), deny
and drop; a chain is a sequence of them; a pipeline of transforms is such a map
without deny. A nil bus is stored like any other: a connection made with it
panics where it uses it first, in its handler (net/http recovers: the connection
is gone without an answer) or in the cleanup goroutine (which ends the process:
no step). **VwsDial** is the same for the client: its builder, the header
map that clients built from it share, the provider (none for nil), the copy
Connect makes key by key and the token it puts in. A builder's call during such a copy may end the process
(`died`), as the Go runtime does on a concurrent map write.

The two share no variable: MCVwsBuilders checks them in one run, either taking
its steps while the other is in its initial state. Buses and clients are
interchangeable there (symmetry): no property is about a particular one, and all
of them are invariants.

## The runs

| Run | Instance | Shows |
|---|---|---|
| `Listener` | 2 requests, 2 Shutdown callers | `StragglersAreRacers`, `NoLateAdmission`: only requests caught between check and tracking escape the shutdown. `ReturnMeansSignalled`, `NilMeansDrained`: what a return and a nil mean. `ShutdownCompletes`: calls return without the peers' help |
| `Connection` | 2 topics (one initial, one clients may name), 2 events, queue of 2 | `AckedSubsActive`, `DrainedBeforeClose`, `ReturnedMeansClean`, `NoLeakWhenReaderCleans`; `FailureEndsConnection`: a failed write, a closed socket, an ended context end the connection, also with a full queue; `ImplementsLife`: the connection is a VwsSocketLife |
| `Client` | 1 caller, 2 generations, overlap allowed | `CleanupOwnership`: one cleanup at a time. `ReadersEndFirst`: no message is handled after Disconnect, or by two loops. `CleanupUnblocked`: a cleanup and the loops never wait for each other in a circle. `CleanupCompletes`, `ErrorTearsDown`: cleanups end, an error that finds nobody stopping ends its connection |
| `Requests` | 2 calls of goroutines, 2 Connects, write channel of 1 | `ImplementsCalls`, `EntriesAreLive`: answers reach the call they are for, across reconnects, late answers and abandoned calls. `PanicsOnlyInFirstConnect`: where a call can meet nil fields |
| `RequestsLiveness` | 1 call of a goroutine, 1 in a callback, 1 Connect, channel of 1 | `OwnContextEndsCall`, `AnsweredCallReturns`: what ends a call. `CallbacksGetNoAnswer`, `CleanupFreesCallback`: a call in a callback waits for itself, until a context or a cleanup frees it |
| `Builders` | 2 buses, 1 listener, 3 topics, 2 prefixes, 4 policies with chains of up to 4, 2 requests; 2 clients, 2 header names, 2 tokens | `AuthorizationDecides`, `SecureByDefault`, `OnlyWithdrawnBusPanics`, `SubscriptionsInPrefix`, `NothingLeftOnAnyBus`, `CountersAgree`; `TokensStayHome`, `BuiltWithoutHeaders` |
| `Listener_NilMeansNoConnections` | 2 requests, 1 caller | violated: see findings |
| `Listener_GaugeSettles` | 2 requests, 1 caller | violated |
| `Connection_NoLeakedSubscription` | 1 topic, asked for by the client; queue of 1 | violated |
| `Client_DisconnectReturns`, `Client_ServerCloseIsSeen` | 1 caller, 1 generation | violated |
| `Client_DoneClosedOnce` | 2 callers, 2 generations | violated |

*Bounds.* Two requests make every pair of handlers and shutdown steps race, and
a straggler and a connection of the snapshot exist together; a second caller
makes the once contended. On a connection, two topics tell "refused" from
"allowed" and "initial" from "asked for"; a queue of two events, one with
headers and one without, shows a stale map and a full queue. For the client, two
generations are the least in which a loop can meet its successor's fields. In
`Client` one caller competes with the cleanups that four loops may start, and
its second Connect meets what is left of the first connection; two callers and
two generations with all their overlaps are too many states (`Client_DoneClosedOnce`
needs them and finds its violation before), and that callers exclude each other
too is proved for any number of them (`OneCleanupAtATime`, `ReadersEnd`).
`ReadersEndFirst` and `CleanupCompletes` claim nothing after an overlap, which
the run goes on with all the same, and finding 9 shows why.
Two Connects let a call
that was begun before a reconnect meet the next map, context and channel, and
the old writeLoop take the new channel's messages; a channel of one is full with
one message in it, and the other call then waits or fails. In `RequestsLiveness`
one call can hold a callback while another waits for readLoop. For the builders,
a topic with the prefix and one without it, two buses, and chains in which a
function renames, drops or denies what its predecessor let pass, are the least
that tell the properties' cases apart; a listener more would repeat the first,
since nothing but `controller` is a listener's own. `MaxGen` bounds the wins of
Connect and `MaxRequests` the requests in VwsHandling, over all the connections
that follow one another there; they are the only bounds
in guards.

*Fairness* is weak and per goroutine: the Go scheduler runs every goroutine that
can go on. In a connection it includes that the bus answers and that a write or
ping ends, by `writeTimeout` if not before; in a client that a dial ends, by
`dialTimeout`, and that a read or write ends once its socket or context has. In
VwsRequests it is one weak fairness per goroutine: the one in Connect or a
cleanup, each loop, each call.
Peers, callers, publishers, the ticker and the ends of contexts are not fair.
`ShutdownCompletes` assumes that a racer's connection ends by itself, which is
exactly what the code leaves open; `CleanupCompletes` leaves out the done
channel of a failed Connect, which `Client_DisconnectReturns` exhibits.

*Deadlock checking* is off for the listener, the client, its requests and the
builders, which may stop when every request is served and nobody calls any more.

## Findings

1. **Shutdown may return nil and leave a connection** (`listener.go:83`). A
   request that passed the check before the channel was closed is tracked after
   the map was found empty; nobody closes it. The comment at `listener.go:135`
   says that Shutdown blocks until all connections are closed. What stays true
   is proved: nil leaves no other kind of request behind (`NilLeavesRacersOnly`).
2. **The active-connections gauge may stay wrong** (`listener.go:102`, `119`):
   counted under the lock, recorded outside it. That overlap is the only cause:
   without it the gauge is right at rest (`GaugeRightApart`).
3. **A failed write may leak a subscription** (`connection.go:305`, `394`): the
   cleanup goroutine unsubscribes and then waits for the worker; the reader goes
   on meanwhile, and a subscribe it handles is acknowledged and never removed.
   The initial subscriptions that Start still has to make are left in the same
   way. `NoLeakWhenReaderCleans` shows that the reader's own cleanup does not leak.
4. **Disconnect after a failed Connect never returns** (`client.go:203`): the
   done channel is made before Connect can fail and closed by readLoop only.
5. **A close by the server goes unnoticed** (`client.go:464`): no cleanup, no
   OnDisconnect, and IsConnected stays true.
6. **The cleanup waits for one loop of two** (`client.go:201-204`): the old
   writeLoop may outlive it and read the next connection's fields. (`Client` and
   `Requests` have it at work and show what still holds then.)
7. **A call during the first Connect panics** (`client.go:372`, `418`): started
   is set before the map and the context are made. `PanicsOnlyInFirstConnect`
   shows that no later Connect opens the window again, as the old fields are
   still there. The client's README calls concurrent use safe.
   Where the program recovers such a panic, `pendingMu` stays locked (371-373),
   and Connect and other calls wait for it for ever, ended contexts or not.
   `EndedContextReturns` says that nothing else holds a call with an ended
   context up.
8. **(nil, nil) of an EventAuthFunc drops the event** (`connection.go:453`, as
   `evauth.go:13` says), where `config.go:148` says that the original message is
   used unchanged.
9. **Two readLoops may close one channel** (`client.go:444`): a Disconnect that
   overlaps a Connect finds no done channel, resets started, and a second
   Connect replaces the field before the first readLoop reads it. The second
   close panics.
10. **Disconnect during Connect may leave an open connection that the client
    denies** (`client.go:189`): there is no socket to close yet, started is reset,
    and Connect stores its socket afterwards.
11. **A read error may be lost** (`client.go:207`): started is reset before
    stopping, and what a new connection's readLoop reports in between finds
    stopping taken, so that the client stays started with a dead connection. An
    error that finds nobody stopping always ends its connection
    (`ErrorTearsDown`).

Findings 6, 10, 11 and the mutex of 7 have no run of their own: they are steps of
the models (`ResetStarted` and what may follow it, `CloseConn` during `Connect`,
`RegisterPanics`), which the properties of the passing runs leave out by name
(`overlap`, `stopping = 0`, `locked`).

Seen in the models, and against no statement of the repository: a call that
registers in one connection's map and enqueues after a reconnect is sent on the
new connection and never answered, since its entry went with the old map; after
a dial that failed, ctx stays live, so that a call which passed the check before
waits for its own context, and a Publish returns nil for a message that no loop
will send; a call in `OnEvent` or `OnConnect` is never answered; calls of a
builder after Build change listeners in use, and a header added to a client's
builder reaches the clients built after the first header only; a custom header
"authorization" in another spelling is sent beside the token.

## What is proved

Every safety property of the passing runs but one predicate on ENABLED
(`CleanupUnblocked`), and every liveness property of theirs, for every value of the constants, from each
module's one assumption: `HandlersAssumption` (finitely many requests),
`ConnectionAssumption` (topics of the configuration are topics, finitely many of
them are subscribed to at the start, the queue has room for one),
`ClientAssumption` (`MaxGen` is a natural number; no caller is one of the
goroutines that failing loops start), `RequestsAssumption` (`MaxGen` and the
channel's size are natural numbers; goroutines' calls and callbacks' calls are
different calls), `HandlingAssumption` (what topics, policies and pipelines are)
and `DialAssumption` ("Authorization" is a header name; tokens are no header
values). TLC evaluates each in the run of its module. The type invariants of
VwsListener, VwsConnection and VwsDial are checked by their proofs alone.

- **VwsListenerProofs**: `TypeCorrect`, `Stragglers`, `Signalled`, `Drained`,
  `NeverAdmittedLate`. The inductive invariant `IInv` adds to the
  type invariant where a handler's place ties the map and its socket together
  (`HandlerInv`), that one caller is inside the once and none is past it before
  it is done (`OnceInv`), that what is tracked but not in the snapshot was
  between check and tracking (`SnapshotInv`), and that who has returned nil saw
  the snapshot leave the map (`DrainInv`; it stays so because no handler tracks
  twice). `NilLeavesRacersOnly` and `GaugeRightApart` say what findings 1 and 2
  leave true. The properties do not carry themselves from step to step:
  `NilMeansDrained`, for instance, needs `HandlerInv` to know that an untracked
  connection is closed.
- **VwsConnectionProofs**: `TypeCorrect`, `AcknowledgedSubscriptions`,
  `Drained`, `Returned`, `NoLeak`, `ConnectionImplementsLife`.
  `RequestInv` follows a frame from the bus call to the ACK, `CleanupInv` ties
  each step of the cleanup to what it leaves behind, `CleanerInv` says that a
  cleaning reader has stopped subscribing. The last theorem is the safety part
  of the refinement, `ConnectionKeepsItsPromise` (below) the whole of it.
- **VwsRequestsProofs**: `TypeCorrect`, `LiveEntries`, `NoAnswerInCallback`,
  `CallsImplemented`, `PanicWindow`. The argument is about ids: every call's id
  is its own and below the counter, an entry pairs a call at work with its id, a
  message is in at most one place between the channel and the server, so that
  the server decides once; an answer under way carries the verdict on the call
  with its id, and so does what is in a response channel. For callbacks: the
  goroutine that holds one is not at the place where answers are read, and no
  answer can be read before the loops are started. For the panics: once the map
  is made, it is never unmade, and the mutex is left locked only before.
- **VwsHandlingProofs**: `TypeCorrect`, `ChainDecides`, `DefaultDenies`,
  `PrefixHolds`, `BusesAreThere`, `CleanupFindsTheBus`, `CountersMatch`. `ChainDecides` compares
  the walk through a chain of any length with `Verdict`, defined by recursion:
  `AuthInv` says that the topic in hand is what the functions met so far have
  made of the event's own, and that a refusal stands (`RefusalStands`, by
  induction on the chain). The provers cannot instantiate the library's
  induction, so `NatSetInduction` derives it for *sets* of numbers from their
  well-foundedness, and `ChainCanBeFollowed` shows that the recursive function
  exists. Before a function is given, a request can have no other chain than the
  one that denies, and cannot come past it; subscriptions are on the
  connection's bus only, but for those that are excused; once the cleanup
  goroutine has unsubscribed, every subscription is; the counters balance at
  each stage of a request.
- **VwsDialProofs**: `TypeCorrect`, `TokensKept`, `NoHeadersBorrowed`, from what
  holds of each header a client has prepared or sent.
- **VwsClientProofs**: `OneCleanupAtATime`, `TypeCorrect`, `ReadersEnd`,
  `CleanupsWaitForReaders`. The compare-and-swaps make exactly one cleanup hold
  `stopping`; that is inductive with the typing of the flags and places it rests
  on. `ReadersEnd` holds until a Connect meets an older connection's leftovers,
  and rests on `LifeInv`, as the ends of cleanups below do: a Connect is alone
  and finds no cleanup and no reader (`ConnectInv`), the one running readLoop
  holds the channel in the field, which is still open (`ReaderInv`), the one open
  socket is in the field or about to be (`SocketInv`), a cleanup past its close
  has closed it, and waits for that channel (`CleanInv`), so a client that is not
  started is at rest (`StoppedInv`), which is what the next Connect starts from.
  Findings 9 and 10 show that none of this survives an overlap.
  `CleanupsWaitForReaders` says how far finding 4 reaches: but for the channel of
  a failed Connect, a cleanup waits for a channel that is closed or whose
  readLoop can go on, as the socket it reads from was dialled (`DialledInv`) and
  is closed.

*Liveness.*

| Theorem | Module | Proves |
|---|---|---|
| `ShutdownsReturn` | VwsListenerProofs | `ShutdownCompletes` |
| `FailuresEndConnection`, `ConnectionKeepsItsPromise` | VwsConnectionProofs | `FailureEndsConnection`, `ImplementsLife` |
| `CleanupsEnd`, `ErrorsTearDown` | VwsClientProofs | `CleanupCompletes`, `ErrorTearsDown` |
| `EndedContextReturns`, `CallbacksFreed`, `AnswersReturn` | VwsRequestsLiveness | `OwnContextEndsCall`, `CleanupFreesCallback`, `AnsweredCallReturns` |

Each follows from the fairness of the goroutines and from one more hypothesis,
since the provers know nothing of ENABLED: where the guards of a goroutine's
steps say that it has one, it has one. For the listener, the connection and the
requests this is `EnabledAsGuarded`, defined in the proof module, which says of
each place in a goroutine when a step is enabled and nothing else; for the
client it is `CleanupUnblocked`, which says more (a readLoop that is waited for
always has a step), and which the run `Client` checks. The
`EnabledAsGuarded` are no properties of a run, since they only repeat guards; TLC
finds them true in every state of the runs' instances when they are given to it
as invariants. Everything else is proved:
the places a goroutine passes through, that others leave it where it is, that
each of its steps leads on, and that no chain of waiting is without end.

- *Shutdown.* The one inside the once tells every connection of the snapshot to
  close; a closed socket brings its handler through Untrack; nobody joins
  (`NobodyJoins`), so that the map empties, and the callers that poll see it.
- *Connection.* Down (a failed write, a closed socket, an ended context), the
  reader makes its initial subscriptions, leaves its loop and waits for a
  cleanup; the cleanup waits for the worker, which drains its queue.
- *Client.* A cleanup goes from place to place, and where it waits, the readLoop
  it waits for does (`AwaitedReaderMoves`). That readLoop takes at most three
  steps to its end, and reads no further message, because the socket is closed
  (`CleanInv`) and the context is the one the cleanup has cancelled
  (`ContextInv`); a readLoop that has ended has closed the channel. Nobody
  replaces the fields meanwhile (`FieldsStay`).
- *Calls.* A call whose context has ended goes from one select to the other or
  returns (`CallMoves`), provided that nobody has left the mutex locked; while
  nobody has, it is free between steps (`LockIsFree`).
  In OnEvent a call watches the context readLoop lives in (`HostInv`), which the
  cleanup has cancelled (`CancelInv`). An answer on its way stays where it is on
  a live connection, as does its entry (`EntryStays`), readLoop is at its top
  (`ReaderInv`), and each answer it reads before that one settles another
  request (`ReadingSettles`). `CallbacksFreed` needs finitely many calls in
  callbacks and `AnswersReturn` finitely many calls, as they state: OnEvent may
  call without end, and answers that come without end may be read before ours.

*Induction.* Where the number of steps is not known, a measure decreases: the
connections in the map, the subscriptions to make, the events in the queue, the
calls OnEvent may still make, the requests without an answer that was read.
"With n left, it ends" is a temporal formula, to which the library's induction
does not apply. **TemporalInduction** proves induction for a constant operator
`P(d, n)`, of which nothing is known but its truth for each `d` and `n`; the
modules instantiate `P` with their formula. In that formula `d` and `n` appear
only in equations with bound variables (`m = n => Empties(m)`), as an operator
substituted for `P` must respect equality of its arguments at the moment.

Most of these theorems take the fairness as `[]Fairness`, which says the same as
`Fairness` (a weak fairness holds at every moment or at none): which goroutine
matters is known only when the waiting begins, and tlapm has no rule that moves
[] out of a quantifier over goroutines.

*Only model-checked*: `CleanupUnblocked`, the hypothesis above, which is about
ENABLED. The properties that the findings violate are no theorems.

## What is not modelled

Formatting and content of messages (JSON, trace headers, close reasons),
logging, the histograms and the counters nobody compares with anything, the
options that are only copied (logger, server name, timeouts), and the text of
topic patterns: which topics match a pattern is a set. Outbound transforms are
part of what an event of the bus is. An authorization function that looks at
data or context is a map from topics here, like any other. Reads of a field that
a builder's call is storing at that moment (two words of an interface) are data
races of the caller and are left out, as is a panic in a function the program
supplies. A Disconnect inside a callback is not modelled: it would wait for the
loop it runs on. The bus, the queueing
subscriber and the WebSocket library are external and appear as their callers
use them.

## Plan

What is left, most important first.

1. **VwsSystem**: a client and a connection joined by two channels, with answers
   and events in order: an ACK the client has seen means a subscription on the
   bus or a connection that is ending.
2. **VwsRequests** with Disconnects that overlap a Connect, which needs
   VwsClient's cleanups in the same state.
