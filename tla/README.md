# Verification of mini-rpc

This directory holds TLA+ models of mini-rpc (`src/`), the TLC runs that check
them on small instances, and TLAPS proofs for instances of any size. mini-rpc is
a small C++ RPC library over `mini_muduo`: an asynchronous client, a server with
synchronous and asynchronous handlers, a worker pool, and a message codec.

## 1. Inventory

| Component | State | Operations | What makes it hard | Correct when |
|---|---|---|---|---|
| `RpcClient` (`src/src/RpcClient.cc`) | `status_`, `conn_`, `manualDisconnection_`, `pendingRequests_` (phase, timer, remaining resends), `ignoredResponseRequests_`, `nextRequestId_` | `connect`, `disconnect`, `call`, `cancel`, `enableRetry`, connection/error/message/timer handlers, destructor | response, two kinds of timeout, cancel and close compete for one callback; callbacks re-enter the client in the middle of a handler; `call`/`cancel` come from any thread; requests survive connections | each callback is invoked exactly once; timers match requests; resends stay within the limit; late answers do no harm |
| `TaskThreadPool` (`src/src/TaskThreadPool.cc`) | `status_`, `threads_`, `tasks_`, a mutex and a condition variable | `start`, `stop`, `addTask`, `setMaxQueueTasks`, the worker loop | notification outside the lock, spurious wakeups, `stop` racing `addTask`, a `start` that fails part-way, two callers of `stop` | no task lost or run twice; a stopped pool is drained; nobody sleeps for ever |
| `RpcServer` (`src/src/RpcServer.cc`) | `status_`, two stop flags, the settings, the handler maps, `taskPool_`, `taskPoolStopThread_` | the setters, `registerMethod`, `registerAsyncMethod`, `unregisterMethod`, `start`, `stop`, message handling, replies | replies from any thread meet cancel frames and closing connections; two subsystems stop in either order | refused requests are not run, canceled ones not answered, `stop` completes once |
| `CancellationRegistry` (same file) | `cancellations_`: connection, request id -> token | `registerToken`, `take`, `cancel`, `clearConnectionCancellations` | shared by all IO loops and workers; it also counts the capacity | every token has one fate, capacity always comes back |
| `RpcMessage` (`src/src/RpcMessage.cc`) | none | `encode`, `decode`, `decodeHead`, `OutputMessageLen` | lengths from the wire; the size and the validity of a message are each computed in several places | decode inverts encode and rejects everything else; equal limits never close a connection |
| Calculator (`src/calculator/`) | none | an example service and its client | int32 overflow | checked arithmetic agrees with the integers |
| `mini_muduo` | external | EventLoop, TcpClient, TcpServer, TcpConnection, LengthHeaderCodec | - | environment of the models |

The client and the server meet only through messages on a connection; each relies
on the other there, the server on request ids that are not reused, the client on
answers to ids it knows, and the server's capacity on the client's cancel frames.
Inside the
server, IO loops, worker threads and user threads meet in the registry; the
worker pool reaches the server through `addTask` and through the thread that
`stop` starts. The hazards this creates are listed, with their source lines and
the properties aimed at them, in `PROJECT.json`.

## 2. Modules

| Module | Content |
|---|---|
| `RpcCall` | abstract: the life of one call as its user sees it (submitted, sent, parked, settled with one result, done) |
| `RpcClient` | the client; implements `RpcCall` through the mapping `Promise` |
| `TaskPool` | abstract: what the pool promises to those who submit tasks |
| `TaskThreadPool` | the worker pool; implements `TaskPool` through the mapping `Promise` |
| `RpcServer` | the server and its registry |
| `RpcSystem` | a client (`RpcClient`) and a server (`INSTANCE RpcServer`) over connections |
| `ByteOrder`, `RpcMessage` | the codec: operators for `encode`, `decode`, `decodeHead`, and `OutputMessageLen` of each class (`RequestLen`, `ResponseLen`, `CancelLen`) |
| `RpcDecoder` | one `decode()` on arbitrary bytes, field by field |
| `RpcExchange` | the bytes of one call through both ends, with their size limits |
| `Calculator` | the Calculator service and its client |
| `MCRpcClient`, `MCTaskThreadPool`, `MCRpcServer`, `MCRpcSystem`, `MCRpcExchange` | instances for TLC |
| `TaskThreadPoolProofs`, `RpcServerProofs`, `RpcClientProofs` | theorems about these components, with their proofs and the refinements of `TaskPool` and `RpcCall` |
| `RpcSystemProofs` | theorems about client and server together, on top of those of the two ends |
| `ByteOrderProofs` | lemmas: induction over the naturals, digits of numbers, `hton` and `ntoh` |
| `RpcDecoderProofs`, `RpcExchangeProofs`, `CalculatorProofs` | theorems about these, on top of `ByteOrderProofs` |

Definitions named `X_Something` directly before a definition `X` and introduced
by a comment "Mutant:" are plausible mistakes in `X`. Nothing uses them; putting
one in the place of `X` makes TLC report the property `PROJECT.json` names, which
shows that the property depends on that code.

### RpcClient

The variables carry the names of the fields. `phase`, `remainingResends` and
`timerId` together are `pendingRequests_` (`"absent"`: no entry). `timers` are
the request timers armed in the EventLoop, so that a timer the code forgets to
cancel stays visible. `tcp` and `conn` are what the client can tell of TcpClient
and TcpConnection; `conn = "closing"` means `connected()` is already false while
the connection callback is still to come.

User callbacks are re-entrant, so a handler that invokes callbacks is several
steps. `due[i]` is the result a handler has decided for call `i` and not yet
delivered, `after` what the handler still does when the callbacks have returned
(`checkReconnect`, or clearing the ignored ids and the connection callback), and
`userRuns` says whether user code has control. Between `InvokeCallback` and the
rest of the handler the user may do everything the API offers.

`call` from another thread is `DrawId` (the atomic increment), `QueueCall` and
`RunQueuedCall`; `cancel` likewise. The peer is arbitrary: it may answer any id
at any time (`OnResponse`), send garbage (`OnBadMessage`), half-close or vanish.
The wait for a new connection is bounded by rounds of the reconnect timer, of
which each uses up one of `remainingResends`, as each resend does.

Data that no property tells apart is left out: payloads, messages and error
texts. `tooLarge` stands for a request above the size limit; time is abstracted
to "a timer may fire", and the one-minute deadline of an ignored id to "an id may
expire" (`expired` remembers that it did). `encode` fails only for fields above
4 GiB, which the size limit of at most 64 MiB excludes, so the paths behind that
failure are not taken.

The setters assert that `connect` has not been attempted, so what they set does
not change while the client works. It is the constants `MaxPending` and
`MaxResends` and, call by call, `CallParams`: the timeout, resend switch and resend
limit with which a call ends up after the overloads of `call` and `callInLoop` have
filled in the defaults.

### TaskThreadPool

A critical section of `mutex_` is one step; what happens after an unlock is a
step of its own. A worker is `ready` (about to lock), `waiting`, `running` a task
or `exited`. `start` creates any subset of the threads: a proper subset is the
case in which creating a thread throws and `start` goes on like `stop`.
`TaskPool` knows neither threads nor locks: a task is new, refused, accepted,
running or done (`StateOf`), and the pool is stopped only when none is left.

### RpcServer

Requests are numbered in the order of arrival; `reqConn`/`reqId` say where a
request came from. `registry` is the set of requests whose token is in
`cancellations_`, looked up by connection and id exactly as the code does, so
that a reused id finds another request's token. `reply` follows one reply
function from its first call (`repliedFlag`) over the queued functor to the end.
Of the pool the server model uses only what `TaskPool` promises.
Whether peers reuse ids is the constant `UniqueIds`. `config` holds what the
setters have set; `Settings` names the setters a run uses, so that each run varies
the limits its properties are about. `tinyMessages` is a message limit that leaves
no room even for "rpc message too large".

### RpcSystem

The variables of the two ends, and in between `toServer[c]` and `toClient[c]`: the
frames under way on each connection, in order. `link` is the connection the client
opened last; when it is lost the server notices later, and the next one is another
connection. A client step that raises `sent[i]` puts a request frame on the wire
(`RequestFrames`), one that adds to `ignored` a cancel frame if the connection is
up (`CancelFrames`: `cancelInLoop` and `onRequestTimeout` call `sendCancel` right
after the entry). A server step that sets `response[r]` answers on the connection
the request came from. The steps themselves are those of `RpcClient` and
`RpcServer`, unchanged.

### RpcMessage, RpcDecoder, RpcExchange

`Base` is the number of values of a byte and the widths of the fields are
constants, so TLC uses short messages over a small alphabet and the proofs cover
the real ones. `decode()` applies `loadField` to one field after the other; its cursor has
`index`, `leftLen` and the locals, as in the code, where members are assigned only
at the end. `RpcExchange` follows one call as bytes. Its texts are as short as
possible but in the order of length of the code's texts, because which of the
error responses still fit below a limit depends on it. Callers may
use empty names, which no method can be registered under (`Registrable`).
`ExchangeAssumption` says
what the real constants satisfy: ids start at 1, the fields are wide enough for what is written in
them, and no limit that `setMaxMessageSize` admits (64 MiB) lets a string exceed its
length field. The two copies of the check of a
handler's result (`invokeSyncHandler` and `reply`) are both there.

### Calculator

Integers of `IntLen` bytes in two's complement. Other clients may send any payload
and other servers any response; `genuine` tells the two apart.

## 3. Runs

| Run | Instance | Shows |
|---|---|---|
| `client` | 2 calls, 1 may be pending, 1 resend, three kinds of arguments | `TypeOK`, `UnsentErrors`, `ManualDisconnectKeepsNothing`, `PendingBounded`, `QueuedCancelTakesEffect`, and the refinement `ImplementsCall` |
| `client_resend` | 2 calls, 2 resends, timed and untimed | `CallbackOwnership`, `TimersMatchPending`, `WaitsForTheRightThing`, `ReconnectedMeansResent`, `ResendBudget`, `LateResponseTolerated` |
| `client_completes` | 1 call, every argument combination, up to 2 resends, fair | `TimedCallsComplete`, `ReconnectWaitEnds` |
| `pool` | 3 workers, 2 controllers, 3 tasks, a queue limit of 1, 2 or none, fair | `TasksConserved`, `StoppedIsDrained`, `NoLostWakeup`, `TakenInOrder`, `AcceptedTasksRun`, `StopCompletes`, and the refinement `ImplementsTaskPool` |
| `pool_two_stops` | 2 controllers | finding 1: `StopReturnsDrained` fails |
| `server` | 2 connections, 2 ids that may be reused, 2 requests, with and without pool, limits (in all, per connection) and stop callback | `RegistryLimits`, `TokenFate`, `CapacityReleased`, `StopIsComplete`, `TypeOK` |
| `server_stops` | 1 connection, unique ids, with and without limits per connection, of the worker queue and of messages, fair | `CanceledNeverAnswered`, `RefusedNotRun`, `ServerStops`, `RepliesReleaseCapacity` |
| `server_reused_id` | 1 connection, one id used twice | finding 2: `CanceledNeverAnswered` fails |
| `system` | 1 call that may be sent twice, may not, or may but has no resend to spend; 2 connections, with and without server limit, fair | `IdsUniquePerConnection`, `AnswersAreExpected`, `BoundedExecution`, `EndedCallsFreeTheServer` |
| `decoder` | every message of up to 8 bytes of 4 values, each decoder | `CursorInBounds`, `AcceptsOnlyEncodings`, `SizeIsExact` |
| `exchange` | strings of 0, 1 and 3 bytes, one id that fills one byte and one that needs two, limits around every message size | `ResultArrives`, `OnlySmallLimitsClose` |
| `calculator` | integers of 2 bytes of 4 values (-8..7), any payload of up to 5 bytes | `AddResultIsTrue` |

Bounds. Two calls are enough for one to be in a handler's `due` while the other
is pending, parked, queued or made from the first one's callback; `MaxPending = 1`
makes the limit bind, two resends make both ways of spending a chance follow each
other. The fair client run has one call: what it may depend on, the loop, its own
timers and the connection, no other call can take away, and every combination of
arguments fits into it. Three workers let one run, one sleep and one be between wakeup and lock.
Two requests are enough for a limit of 1, a full worker queue and a reused id, and
with two ids both may be on one connection, so that its own limit is met too. One
method is enough: it is synchronous in some behaviours and asynchronous in others,
and synchronous requests never touch the registry.
In `system` one call is enough for every race between its response, its timeout,
its cancel frame and its resend, because ids are independent of each other there
and the server's limit is met by the call's own earlier execution; a third
connection adds nothing to a call that may be sent twice. There the bound on
executions binds for the calls that may not be sent again; for larger resend limits
it is `ResendBudget` in `client_resend` and the theorem `ExecutionBounded`. The worker pool is left
out there, `Pools = {"none"}`: the handler then starts with its request and replies
at any time after it; tasks that wait in the queue are part of the server runs. Eight bytes hold every
kind of message with strings of every length that a one-byte length field can
describe wrongly: too long by one, by the field's own width, and by more. The
sizes in `exchange` are those at which an answer starts or ceases to fit.
The number of calls, tasks and requests is the only bound on the length of a
behaviour (and in `system` the two connections): connections come and go without
limit in the client model. Deadlock
is not checked: a destroyed client, a stopped pool, a stopped server and a finished
call or decoder are meant to come to rest.

Fairness. Loops and threads are scheduled (weak fairness). In the client, queued
functors and expired timers run only between two handlers; the EventLoop polls
all of them in turn, so they get strong fairness. Tasks and handlers return. At
the end of its grace period TcpServer closes what is still open. No fairness is
assumed of users, peers or the network. `system` assumes in addition
that frames that have arrived are processed and that an end whose peer has gone
learns of it in the end (TCP reports it); it assumes of no handler that it replies
and of no connection that it lasts.

### Findings

1. `TaskThreadPool::stop()` (`TaskThreadPool.cc:50`) returns at once unless the
   pool is running. A call that overlaps another `stop()`, or the clean-up of a
   failed `start()`, returns while workers still run; `TaskThreadPool.h:25` says
   that it waits for every worker. `RpcServer` calls it from one thread only.
2. The queued reply (`RpcServer.cc:691`) takes whichever token has its connection
   and id. If a peer reuses the id of a canceled request, the canceled request's
   late reply is sent, and the new request's token is used up; `README.md:373`
   says a canceled request's reply sends nothing. `RpcClient` never reuses an id
   on a connection, and with unique ids the property holds (`server_stops`).

## 4. Proofs

`tlapm` checks the proof modules; each theorem holds for all values of the
constants that satisfy the assumptions named in the models (`PoolAssumption`,
`ClientAssumption`, `ServerAssumption`, `SystemAssumption`; `ByteAssumption`,
`MessageAssumption`, `DecoderAssumption`, `ExchangeAssumption` and
`CalculatorAssumption`). Every invariant and every action property of a passing run
is stated by a theorem, and both refinements are.

Pool. `PoolInv` is `TypeOK`, `TasksConserved`, `Staffed` and `Fresh`. Conservation
alone is not inductive: that a new task is nowhere yet needs `Fresh`. That a
stopped pool is drained needs `Staffed`: a queue that holds a task has a live
worker, a live worker is one that `stop` joins, and only one controller at a time
is past the first critical section. From it follow `TypeCorrect`,
`TasksAreConserved`, `StoppedPoolIsDrained` and `WakeupsAreNotLost`. For
`PoolImplementsTaskPool` every step of the pool is shown to move at most one task
along the arcs of `TaskPool` (`StateFacts`, `StateKept`, `OneTaskMoves`); that it
may report `STOPPED` only when nothing is left is `StoppedIsDrained` again.
`TakenInOrder` is inductive once the queue is known to be ascending.

Client. `ClientInv` is `TypeOK`, `Placed` and `Budget`. `Placed` says of each id
that no two of the five holders (a thread, the queue, `pendingRequests_`, a
handler, done) have its callback and that one has while the client exists; it
needs that no functor is queued twice, hence `Distinct(loopQueue)`, for which
`AppendFacts` and `TailFacts` say what appending and taking do. `Budget` relates sends, expired
waits and remaining resends. The three depend on each other: that the `uint8_t`
counter keeps its type follows from `Budget` only, and that a call starts with an
untouched account from its being in the queue and nowhere else. From it follow
`TypeCorrect`, `CallbacksHaveOneOwner` and `ResendLimitRespected`.

`ConnInv` adds to it what the other properties need: `Timed` (per request, which
timers are armed and which one its entry names), `Linked` (`status_` agrees with
`conn_`, and the handler of a close ends before the next connection), `Wired` (per
request, its phase against the wire and the connection), `Errors` (no outcome
before the callback, and a refusal only for what was not sent) and `CancelLast` (a
queued cancellation stands behind its call). `ManualDisconnectKeepsNothing` and
`PendingBounded` are inductive next to these. Two parts deserve a remark.
`onConnectionError` runs the same code as a close and could give
`CONNECTION_UNAVAILABLE` to a request that was sent; it does not because, by
`Wired`, nothing waits for a response while there is no connection. And a request
that stays parked after `checkReconnect` on a live connection would have no chance
left, which `Budget` excludes: hence `ReconnectResends`.

`LifeStep` says what a step can do to one call: leave it, begin it, refuse it, end
it with a result that fits its phase, park it, resend it, answer it, or drop it with
the client. `RefusedCallsUnsent`, `PendingIsBounded` and the refinement
`ClientImplementsCall` are read off it. The refinement needs `Placed` once more: a
call whose functor is still queued would be lost by the destructor, and `Destroy`
is only taken when there is none. `QueuedCancelsTakeEffect` is an action property
and follows from `CancelLast` and the order of the queue (`TailPrecedes`).

Server. `ServerInv` holds with and without a pool, with any limits, and whether or
not ids are reused. `Arrived` says that nothing has been done about a request that
has not come and, under `UniqueIds`, that connection and id name one request.
`Phases` relates `status_`, the two stop flags, TcpServer, the pool and the thread
that stops it: from it alone follows that exactly one of `onTcpServerStopped` and
`onTaskPoolStopped` completes the stop. `Drained` says what each of them has left
behind (no open connection, no queued or running handler), which
`StopCompletesOnce` needs and `Phases` cannot know. `TokenFate`, `CapacityReleased`
and `RegistryLimits` are inductive together with these; for the limits the proof
counts the registry and, per connection, a subset of it, with the cardinality facts
of `FiniteSetTheorems`. `Refused` strengthens `RefusedNotRun` to the reply that has
been prepared and not yet sent, and `Silent` says that a registered request has not
been answered: without it a cancellation might come after the answer.
`CanceledRequestsSilent` is the only theorem that assumes `UniqueIds`; finding 2
shows that a server alone must. For a server whose peers are `RpcClient`s the
assumption is a result, see below.

System. `SystemInv` is the client's `ClientInv` and `ConnInv`, the server's
`ServerInv` and `ChannelInv`. The invariants of the ends are used and not proved
again. A step of the composition is a step of `RpcClient`, whose peer may do
anything, or leaves it alone (`ClientSide`; hence `ClientInSystem`). And it is a step
of a server with `UniqueIds` or leaves that alone (`ServerSide`): the instance `U` of
`RpcServerProofs` has `UniqueIds = TRUE`, although the composition's server `S` does
not, and what discharges the difference is `Unique`. `ChannelInv` says what is on the
connections:

- `Fresh`, `Numbered`: a connection not opened yet has seen nothing, and a request
  with an id came from a connection;
- `Unique`: on a connection, a request is under way once and then has not been
  received. A resend does not break it because of `Parked`: a call that waits for a
  connection has not been sent on the one that is up, which in turn holds because
  losing a connection and opening another change `link` before anything is resent;
- `Counted`: a call was sent at least once for each connection that has seen it. With
  `Unique` the executions of a call are as many as connections at most, so as sends,
  and `ResendBudget` bounds these (`ExecutionBounded`);
- `Awaited`: for what is under way on the client's connection, in either direction,
  and for what the server has received there and not answered, the client's `wire`
  still has the id. `Wired`, of the client's invariant, then says that the call waits
  or has been given up (`AnswersExpected`);
- `Given`, `Settled`: an answer under way was given, once; a request that has been
  answered has no token, or its reply has run, so that there is no second answer.

`IdsAreUnique` is `Unique` counted; `NeverDuplicate` says the same where the code
looks, at `registerToken`.

Bytes. The induction theorems of the library take operators and cannot be used with
the provers at hand. `ByteOrderProofs` gets induction in the form of sets: a set of
naturals that is not empty has a least element, because `<` is well founded
(`LeastElement`), so a set that has 0 and is closed under successor has them all; and
that a recursive function exists and satisfies its equation is proved from that.
Then: the digits of a number determine it and every sequence of digits is that of its
value, so `hton` and `ntoh` are inverse to each other at every width and byte size.

Decoder. `CursorStaysInBounds` holds for every message, whatever lengths it
contains. `CursorInBounds` needs only that the cursor is a record of integers and
the widths are naturals: `loadNumber` and `loadString` each either refuse and leave
the cursor, or advance it by what `TooShort` and `Holds` have found to be left.
`SizesAreExact` is `SizeIsExact` for every message and all widths. Its invariant,
`SizeInv`, says where the cursor is after each field: `index` is the fixed part of
the fields read so far plus the lengths of the strings among them, a string not read
yet is empty, and what `decode()` returns are the locals. No field occurs twice in an
order (`FieldsDiffer`), so reading one adds to the sum and replaces nothing; at the
end `leftLen = 0` makes `index` the length of the message, and the fixed parts are
those of `RequestLen`, `ResponseLen` and `CancelLen`. `OnlyEncodingsAccepted` needs
the bytes as well: `CodeInv` says that for each field read so far there is a mark at
which the message has what `encode()` writes for the local (`Marked`); reading a field
sets one mark more and changes no field before it (`Kept`). At the end the marks are
adjacent and reach the end of the message, which therefore is the concatenation
`encode()` builds.

Exchange. This is the other direction: `decode()` of what `encode()` wrote. `At` says
that a part stands at a place in a message, `SixParts` where the parts of an encoding
are. `NumberLoads` and `StringLoads` say that a cursor in front of a part takes it and
stands behind it; `DecodeUnrolls` reduces `decode()` to these steps, and
`RequestArrives` and `ResponseArrives` put them together. `ExchangeInv` then says what
`wire` encodes at each stage and what the callback is due (`Promised`). The server's
check of a result agrees with the encoder's in both copies (`ChecksAgree`), so that a
response which fails to encode is not reached within the limits; and the size that the
sender compares with its limit is the length the receiver compares with its own
(`Sends`), which gives `LimitsClose`.

Calculator. Encoding and decoding integers in two's complement are inverse
(`DecodesAsEncoded`), and the overflow test of the service is true exactly if the sum
is not an integer of that width. `CalculatorInv` says what is on the wire if both ends
are genuine; `AddIsTrue` follows.

Only model-checked: the seven liveness properties (`TimedCallsComplete`,
`ReconnectWaitEnds`, `AcceptedTasksRun`, `StopCompletes`, `ServerStops`,
`RepliesReleaseCapacity`, `EndedCallsFreeTheServer`), because fairness and `ENABLED`
are outside this prover. The proofs keep to the safety part of each specification.

## 5. Not modelled

`mini_muduo`, which is not in the repository: it is the environment, modelled from
its use. The tests and examples keep no state of their own. In the client, a
functor that outlives the client it captured is the caller's responsibility and
excluded by `Destroy`; `setConnectionCallback` and `setConnectionErrorCallback`
have no module state, user code may run wherever they would let it. `RpcServer`
declares no destructor; what happens to a server that is destroyed while it runs
depends on `TcpServer`'s, which is not here (replies hold weak pointers and do
nothing then). The client's setters are constants (section 2); not modelled is
that a call begun before the first `connect()` may be given values from before and
after a setter, because `call` reads some on the caller's thread and `callInLoop`
the others on the loop. Data races that a caller could cause against the documented
threading rules, such as a setter during a `call()` on another thread, are not
modelled.

## 6. State

The components of the repository, the abstract call and the abstract pool, the codec
and the composition are modelled; every safety property that a run checks is a
theorem. Open are proofs of the liveness properties, for a prover that reasons about
fairness. A client with several threads and automatic retry next to a server that
stops would be a larger `RpcSystem`: `ClientInSystem` covers the client of the present
one only.
