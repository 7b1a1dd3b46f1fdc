------------------------------ MODULE RpcServer ------------------------------
(***************************************************************************)
(* RpcServer and its CancellationRegistry (src/src/RpcServer.cc).          *)
(*                                                                         *)
(* Requests and cancel frames arrive on the IO loop of their connection.   *)
(* A synchronous handler answers at once.  An asynchronous one gets a      *)
(* token in the registry and a reply function that any thread may call at  *)
(* any later time; the answer is sent from a functor queued on the         *)
(* connection's loop, if the token is still registered by then.  Cancel    *)
(* frames, closing connections, replies, worker threads and the shutdown   *)
(* all meet in the registry.                                               *)
(*                                                                         *)
(* TcpServer and TcpConnection (mini_muduo) are external.  Of the worker   *)
(* pool only what TaskThreadPool promises is used: it refuses tasks unless *)
(* it runs, bounds its queue, and has run every accepted task once it has  *)
(* stopped.                                                                *)
(***************************************************************************)
EXTENDS Naturals, FiniteSets

CONSTANTS
  Conns,          \* the connections
  Methods,        \* service/method pairs
  RequestIds,     \* the ids peers put into their requests
  MaxRequests,    \* bound: how many requests arrive
  Settings,       \* which settings the owner of the server may use
  Limits,         \* the limits that are set
  UniqueIds       \* peers never use an id twice on a connection, as RpcClient

Requests == 1..MaxRequests

ASSUME ServerAssumption ==
  /\ MaxRequests \in Nat
  /\ Limits \subseteq Nat \ {0}
  /\ UniqueIds \in BOOLEAN
  /\ 0 \notin RequestIds
  /\ "none" \notin Conns

VARIABLES
  status,                       \* status_
  tcpServerStopped, taskPoolStopped,
  stopThread,                   \* taskPoolStopThread_
  stopCallbacks,                \* history: calls of stopCompleteCallback_
  config,                       \* what the setters have set, 0: no limit
  tcp,                          \* TcpServer
  pool,                         \* taskPool_, "none": null
  syncHandlers, asyncHandlers,  \* the registered methods
  connState,                    \* the connections, "closing": connected() is false
  received,                     \* history: how many requests have arrived
  reqConn, reqId,               \* where each request came from, and its id
  registry,                     \* cancellations_: the requests whose token it holds
  canceled,                     \* requests whose token's flag is set
  handler,                      \* where the asynchronous handler is
  reply, replyCode,             \* the reply function: its one use, and what it sends
  response,                     \* history: the response that was sent for a request
  takenBy                       \* history: the request whose reply took the token

lifeVars  == <<status, tcpServerStopped, taskPoolStopped, stopThread, stopCallbacks, tcp>>
nameVars  == <<config, syncHandlers, asyncHandlers>>
reqVars   == <<received, reqConn, reqId>>
tokenVars == <<registry, canceled, takenBy>>
replyVars == <<reply, replyCode>>
vars == <<lifeVars, pool, nameVars, connState, reqVars, tokenVars, handler, replyVars,
          response>>

Codes == {"RESULT", "INTERNAL_ERROR", "METHOD_NOT_FOUND", "RESOURCE_EXHAUSTED",
          "MESSAGE_TOO_LARGE"}

\* The types of the variables; a method is synchronous or asynchronous, never
\* both (registerMethod and registerAsyncMethod look into both maps).
TypeOK ==
  /\ status \in {"kNotStarted", "kRunning", "kStopping", "kStopped"}
  /\ tcpServerStopped \in BOOLEAN /\ taskPoolStopped \in BOOLEAN
  /\ stopThread \in {"none", "started", "joining", "queued"}
  /\ stopCallbacks \in Nat
  /\ config \in [maxActive : Limits \cup {0}, maxPerConn : Limits \cup {0},
                 maxQueue : Limits \cup {0}, tinyMessages : BOOLEAN, stopCallback : BOOLEAN]
  /\ tcp \in {"off", "serving", "stopping", "stopped"}
  /\ pool \in {"none", "idle", "running", "stopping", "stopped"}
  /\ syncHandlers \subseteq Methods /\ asyncHandlers \subseteq Methods
  /\ syncHandlers \cap asyncHandlers = {}
  /\ connState \in [Conns -> {"absent", "up", "closing", "closed"}]
  /\ received \in 0..MaxRequests
  /\ reqConn \in [Requests -> Conns \cup {"none"}]
  /\ reqId \in [Requests -> RequestIds \cup {0}]
  /\ registry \subseteq Requests /\ canceled \subseteq Requests
  /\ handler \in [Requests -> {"none", "queued", "running", "returned"}]
  /\ reply \in [Requests -> {"unused", "called", "queued", "ran"}]
  /\ replyCode \in [Requests -> Codes \cup {"none"}]
  /\ response \in [Requests -> Codes \cup {"none"}]
  /\ takenBy \in [Requests -> 0..MaxRequests]

Init ==
  /\ status = "kNotStarted"
  /\ tcpServerStopped = FALSE /\ taskPoolStopped = FALSE
  /\ stopThread = "none"
  /\ stopCallbacks = 0
  /\ config = [maxActive |-> 0, maxPerConn |-> 0, maxQueue |-> 0, tinyMessages |-> FALSE,
               stopCallback |-> FALSE]
  /\ tcp = "off"
  /\ pool = "none"
  /\ syncHandlers = {} /\ asyncHandlers = {}
  /\ connState = [c \in Conns |-> "absent"]
  /\ received = 0
  /\ reqConn = [r \in Requests |-> "none"]
  /\ reqId = [r \in Requests |-> 0]
  /\ registry = {} /\ canceled = {}
  /\ handler = [r \in Requests |-> "none"]
  /\ reply = [r \in Requests |-> "unused"]
  /\ replyCode = [r \in Requests |-> "none"]
  /\ response = [r \in Requests |-> "none"]
  /\ takenBy = [r \in Requests |-> 0]
-----------------------------------------------------------------------------
(***************************************************************************)
(* Settings and methods, before start(): every setter asserts kNotStarted  *)
(***************************************************************************)
Set(field, values) ==
  /\ field \in Settings
  /\ status = "kNotStarted"
  /\ \E v \in values : config' = [config EXCEPT ![field] = v]
  /\ UNCHANGED <<lifeVars, pool, syncHandlers, asyncHandlers, connState, reqVars, tokenVars,
                 handler, replyVars, response>>

setMaxActiveRequests == Set("maxActive", Limits)

setMaxActiveRequestsPerConnection == Set("maxPerConn", Limits)

\* Of the size only matters whether it leaves room for the response that says
\* "rpc message too large"; other messages may exceed it in any case.
setMaxMessageSize == Set("tinyMessages", BOOLEAN)

setMaxWorkerQueue == pool = "idle" /\ Set("maxQueue", Limits)

setStopCompleteCallback == Set("stopCallback", BOOLEAN)

setWorkerThreadNum ==
  /\ status = "kNotStarted"
  /\ pool = "none"
  /\ pool' = "idle"
  /\ UNCHANGED <<lifeVars, nameVars, connState, reqVars, tokenVars, handler, replyVars,
                 response>>

\* Mutant: only one of the two maps is looked at.
isRegistered_OnlySync(m) == m \in syncHandlers

isRegistered(m) == m \in syncHandlers \/ m \in asyncHandlers

registerMethod(m) ==
  /\ status = "kNotStarted"
  /\ ~isRegistered(m)
  /\ syncHandlers' = syncHandlers \cup {m}
  /\ UNCHANGED <<lifeVars, pool, config, asyncHandlers, connState, reqVars, tokenVars, handler,
                 replyVars, response>>

registerAsyncMethod(m) ==
  /\ status = "kNotStarted"
  /\ ~isRegistered(m)
  /\ asyncHandlers' = asyncHandlers \cup {m}
  /\ UNCHANGED <<lifeVars, pool, config, syncHandlers, connState, reqVars, tokenVars, handler,
                 replyVars, response>>

unregisterMethod(m) ==
  /\ status = "kNotStarted"
  /\ isRegistered(m)
  /\ syncHandlers' = syncHandlers \ {m}
  /\ asyncHandlers' = IF m \in syncHandlers THEN asyncHandlers ELSE asyncHandlers \ {m}
  /\ UNCHANGED <<lifeVars, pool, config, connState, reqVars, tokenVars, handler, replyVars,
                 response>>
-----------------------------------------------------------------------------
(***************************************************************************)
(* start() and stop()                                                      *)
(***************************************************************************)
\* A pool that has stopped (its start() failed before) does not start again.
start ==
  /\ status = "kNotStarted"
  /\ status' = "kRunning"
  /\ pool' = IF pool = "idle" THEN "running" ELSE pool
  /\ tcp' = "serving"
  /\ UNCHANGED <<tcpServerStopped, taskPoolStopped, stopThread, stopCallbacks, nameVars,
                 connState, reqVars, tokenVars, handler, replyVars, response>>

\* taskPool_->start() throws; the pool has cleaned up after itself.
StartThrows ==
  /\ status = "kNotStarted"
  /\ pool = "idle"
  /\ pool' = "stopped"
  /\ UNCHANGED <<lifeVars, nameVars, connState, reqVars, tokenVars, handler, replyVars,
                 response>>

\* Mutant: either of the two suffices.
StopComplete_Either(tcpStopped, poolStopped) == tcpStopped \/ poolStopped

StopComplete(tcpStopped, poolStopped) == tcpStopped /\ poolStopped

\* Joining taskPoolStopThread_ does not block: it has queued onTaskPoolStopped.
tryCompleteStop(tcpStopped, poolStopped) ==
  IF status = "kStopping" /\ StopComplete(tcpStopped, poolStopped)
  THEN /\ status' = "kStopped"
       /\ stopCallbacks' = stopCallbacks + IF config.stopCallback THEN 1 ELSE 0
  ELSE UNCHANGED <<status, stopCallbacks>>

\* Without a pool onTaskPoolStopped() runs at once; TcpServer has not stopped
\* yet, so it completes nothing.
stop ==
  /\ status = "kRunning"
  /\ status' = "kStopping"
  /\ tcp' = "stopping"
  /\ stopThread' = IF pool = "none" THEN "none" ELSE "started"
  /\ taskPoolStopped' = (pool = "none")
  /\ UNCHANGED <<tcpServerStopped, stopCallbacks, pool, nameVars, connState, reqVars,
                 tokenVars, handler, replyVars, response>>

\* taskPoolStopThread_ enters taskPool_->stop(); until then the pool accepts.
StopThreadRuns ==
  /\ stopThread = "started"
  /\ stopThread' = "joining"
  /\ pool' = IF pool = "running" THEN "stopping" ELSE pool
  /\ UNCHANGED <<status, tcpServerStopped, taskPoolStopped, stopCallbacks, tcp, nameVars,
                 connState, reqVars, tokenVars, handler, replyVars, response>>

\* taskPool_->stop() returns, and onTaskPoolStopped is queued.
PoolStopped ==
  /\ stopThread = "joining"
  /\ \A r \in Requests : handler[r] \notin {"queued", "running"}
  /\ stopThread' = "queued"
  /\ pool' = "stopped"
  /\ UNCHANGED <<status, tcpServerStopped, taskPoolStopped, stopCallbacks, tcp, nameVars,
                 connState, reqVars, tokenVars, handler, replyVars, response>>

\* Mutant: the flag is set and tryCompleteStop is not called.
onTaskPoolStopped_FlagOnly ==
  /\ stopThread = "queued"
  /\ stopThread' = "none"
  /\ taskPoolStopped' = TRUE
  /\ UNCHANGED <<status, stopCallbacks, tcpServerStopped, tcp, pool, nameVars, connState,
                 reqVars, tokenVars, handler, replyVars, response>>

onTaskPoolStopped ==
  /\ stopThread = "queued"
  /\ stopThread' = "none"
  /\ taskPoolStopped' = TRUE
  /\ tryCompleteStop(tcpServerStopped, TRUE)
  /\ UNCHANGED <<tcpServerStopped, tcp, pool, nameVars, connState, reqVars, tokenVars,
                 handler, replyVars, response>>

\* TcpServer has closed every connection.
onTcpServerStopped ==
  /\ tcp = "stopping"
  /\ \A c \in Conns : connState[c] \in {"absent", "closed"}
  /\ tcp' = "stopped"
  /\ tcpServerStopped' = TRUE
  /\ tryCompleteStop(TRUE, taskPoolStopped)
  /\ UNCHANGED <<taskPoolStopped, stopThread, pool, nameVars, connState, reqVars,
                 tokenVars, handler, replyVars, response>>
-----------------------------------------------------------------------------
(***************************************************************************)
(* CancellationRegistry: each operation holds its mutex_                   *)
(***************************************************************************)
TokensOf(c)   == {r \in registry : reqConn[r] = c}
Lookup(c, id) == {r \in registry : reqConn[r] = c /\ reqId[r] = id}

\* Mutant: > instead of >=.
LimitReached_OffByOne(n, limit) == limit # 0 /\ n > limit

\* The limit is set and n has reached it.
LimitReached(n, limit) == limit # 0 /\ n >= limit

\* Mutant: the limit per connection is not looked at.
registerToken_GlobalOnly(c, id) ==
  IF Lookup(c, id) # {} THEN "kDuplicateRequestId"
  ELSE IF LimitReached(Cardinality(registry), config.maxActive) THEN "kGlobalLimitReached"
  ELSE "kRegistered"

registerToken(c, id) ==
  IF Lookup(c, id) # {} THEN "kDuplicateRequestId"
  ELSE IF LimitReached(Cardinality(registry), config.maxActive) THEN "kGlobalLimitReached"
  ELSE IF LimitReached(Cardinality(TokensOf(c)), config.maxPerConn)
       THEN "kConnectionLimitReached"
  ELSE "kRegistered"

\* Mutant: the token is marked and stays in the registry.
CancelTokens_NotErased(S) ==
  /\ canceled' = canceled \cup S
  /\ UNCHANGED <<registry, takenBy>>

\* Mutant: the token is dropped and its handler never told.
CancelTokens_NotMarked(S) ==
  /\ registry' = registry \ S
  /\ UNCHANGED <<canceled, takenBy>>

\* cancel and clearConnectionCancellations: set the flag, erase the entry.
CancelTokens(S) ==
  /\ canceled' = canceled \cup S
  /\ registry' = registry \ S
  /\ UNCHANGED takenBy

\* Mutant: find() without erase().
take_NotErased(r, S) ==
  /\ takenBy' = [t \in Requests |-> IF t \in S THEN r ELSE takenBy[t]]
  /\ UNCHANGED <<registry, canceled>>

take(r, S) ==
  /\ registry' = registry \ S
  /\ takenBy' = [t \in Requests |-> IF t \in S THEN r ELSE takenBy[t]]
  /\ UNCHANGED canceled
-----------------------------------------------------------------------------
(***************************************************************************)
(* Connections                                                             *)
(***************************************************************************)
Accept(c) ==
  /\ tcp = "serving"
  /\ connState[c] = "absent"
  /\ connState' = [connState EXCEPT ![c] = "up"]
  /\ UNCHANGED <<lifeVars, pool, nameVars, reqVars, tokenVars, handler, replyVars, response>>

Open(c) == connState[c] \in {"up", "closing"}

\* The peer closes its direction: conn->shutdown().
PeerHalfClose(c) ==
  /\ connState[c] = "up"
  /\ connState' = [connState EXCEPT ![c] = "closing"]
  /\ UNCHANGED <<lifeVars, pool, nameVars, reqVars, tokenVars, handler, replyVars, response>>

\* The connection callback of a connection that has gone.
OnClosed(c) ==
  /\ Open(c)
  /\ connState' = [connState EXCEPT ![c] = "closed"]
  /\ CancelTokens(TokensOf(c))
  /\ UNCHANGED <<lifeVars, pool, nameVars, reqVars, handler, replyVars, response>>
-----------------------------------------------------------------------------
(***************************************************************************)
(* Messages                                                                *)
(***************************************************************************)
\* A response that is too large is replaced; a limit too small even for that
\* closes the connection.  Nothing is sent on one that is not connected.
sendResponse(r, c, code) ==
  \/ /\ \E sentCode \in IF config.tinyMessages THEN {code} ELSE {code, "MESSAGE_TOO_LARGE"} :
          response' = IF connState[c] = "up" THEN [response EXCEPT ![r] = sentCode]
                      ELSE response
     /\ UNCHANGED connState
  \/ /\ config.tinyMessages
     /\ connState' = [connState EXCEPT ![c] = IF Open(c) THEN "closing" ELSE @]
     /\ UNCHANGED response

\* The same for a reply, which must not touch the server: it may be gone.
sendFramedData(r, c, code) == sendResponse(r, c, code)

\* The next request arrives, on connection c with the given id.
Receive(c, id) ==
  /\ Open(c)
  /\ received < MaxRequests
  /\ UniqueIds => \A r \in Requests : ~(reqConn[r] = c /\ reqId[r] = id)
  /\ received' = received + 1
  /\ reqConn' = [reqConn EXCEPT ![received + 1] = c]
  /\ reqId' = [reqId EXCEPT ![received + 1] = id]

\* An empty, oversized, undecodable or wrongly typed message: forceClose.
OnBadMessage(c) ==
  /\ Open(c)
  /\ connState' = [connState EXCEPT ![c] = "closing"]
  /\ UNCHANGED <<lifeVars, pool, nameVars, reqVars, tokenVars, handler, replyVars, response>>

OnCancel(c, id) ==
  /\ Open(c)
  /\ CancelTokens(Lookup(c, id))
  /\ UNCHANGED <<lifeVars, pool, nameVars, connState, reqVars, handler, replyVars, response>>

\* The handler runs at once; it throws, or returns a result that may be invalid.
invokeSyncHandler(c, id) ==
  /\ syncHandlers # {}
  /\ Receive(c, id)
  /\ \E code \in {"RESULT", "INTERNAL_ERROR"} : sendResponse(received + 1, c, code)
  /\ UNCHANGED <<lifeVars, pool, nameVars, tokenVars, handler, replyVars>>

OnUnknownMethod(c, id) ==
  /\ \E m \in Methods : ~isRegistered(m)
  /\ Receive(c, id)
  /\ sendResponse(received + 1, c, "METHOD_NOT_FOUND")
  /\ UNCHANGED <<lifeVars, pool, nameVars, tokenVars, handler, replyVars>>

\* invokeAsyncHandler, when the registry refuses the request ...
RefuseAsync(c, id) ==
  /\ asyncHandlers # {}
  /\ Receive(c, id)
  /\ \/ /\ registerToken(c, id) = "kDuplicateRequestId"
        /\ connState' = [connState EXCEPT ![c] = "closing"]
        /\ UNCHANGED response
     \/ /\ registerToken(c, id) \in {"kGlobalLimitReached", "kConnectionLimitReached"}
        /\ sendResponse(received + 1, c, "RESOURCE_EXHAUSTED")
  /\ UNCHANGED <<lifeVars, pool, nameVars, tokenVars, handler, replyVars>>

\* Mutant: the reply is made and the task is queued as well.
Submit_AlsoWhenFull(r, full) ==
  /\ handler' = [handler EXCEPT ![r] = "queued"]
  /\ reply' = IF full THEN [reply EXCEPT ![r] = "called"] ELSE reply
  /\ replyCode' = IF full THEN [replyCode EXCEPT ![r] = "RESOURCE_EXHAUSTED"] ELSE replyCode

\* addTask of a running pool: the task is queued, or reply says why not.
Submit(r, full) ==
  IF full
  THEN /\ reply' = [reply EXCEPT ![r] = "called"]
       /\ replyCode' = [replyCode EXCEPT ![r] = "RESOURCE_EXHAUSTED"]
       /\ UNCHANGED handler
  ELSE /\ handler' = [handler EXCEPT ![r] = "queued"]
       /\ UNCHANGED replyVars

\* ... and when it registers a token: the handler goes to the worker pool, or
\* runs at once on the connection's loop (and may keep the reply for later).
invokeAsyncHandler(c, id) ==
  LET r    == received + 1
      full == LimitReached(Cardinality({q \in Requests : handler[q] = "queued"}),
                           config.maxQueue)
  IN  /\ asyncHandlers # {}
      /\ Receive(c, id)
      /\ registerToken(c, id) = "kRegistered"
      /\ registry' = registry \cup {r}
      /\ \/ pool = "running" /\ Submit(r, full)
         \/ /\ pool \in {"stopping", "stopped"}
            /\ reply' = [reply EXCEPT ![r] = "called"]
            /\ replyCode' = [replyCode EXCEPT ![r] = "INTERNAL_ERROR"]
            /\ UNCHANGED handler
         \/ /\ pool = "none"
            /\ handler' = [handler EXCEPT ![r] = "returned"]
            /\ UNCHANGED replyVars
      /\ UNCHANGED <<lifeVars, pool, nameVars, connState, canceled, takenBy, response>>
-----------------------------------------------------------------------------
(***************************************************************************)
(* Asynchronous handlers and their replies                                 *)
(***************************************************************************)
HandlerStarts(r) ==
  /\ handler[r] = "queued"
  /\ handler' = [handler EXCEPT ![r] = "running"]
  /\ UNCHANGED <<lifeVars, pool, nameVars, connState, reqVars, tokenVars, replyVars, response>>

HandlerReturns(r) ==
  /\ handler[r] = "running"
  /\ handler' = [handler EXCEPT ![r] = "returned"]
  /\ UNCHANGED <<lifeVars, pool, nameVars, connState, reqVars, tokenVars, replyVars, response>>

\* The catch clause replies, unless the handler has.
HandlerThrows(r) ==
  /\ handler[r] = "running"
  /\ handler' = [handler EXCEPT ![r] = "returned"]
  /\ reply[r] = "unused"
  /\ reply' = [reply EXCEPT ![r] = "called"]
  /\ replyCode' = [replyCode EXCEPT ![r] = "INTERNAL_ERROR"]
  /\ UNCHANGED <<lifeVars, pool, nameVars, connState, reqVars, tokenVars, response>>

\* reply(), from any thread: repliedFlag->exchange(true) lets the first call
\* through; an invalid result is replaced.
Reply(r) ==
  /\ handler[r] \in {"running", "returned"}
  /\ reply[r] = "unused"
  /\ reply' = [reply EXCEPT ![r] = "called"]
  /\ \E code \in {"RESULT", "INTERNAL_ERROR"} : replyCode' = [replyCode EXCEPT ![r] = code]
  /\ UNCHANGED <<lifeVars, pool, nameVars, connState, reqVars, tokenVars, handler, response>>

\* ... the connection object, if it still exists, queues the functor.
QueueReply(r) ==
  /\ reply[r] = "called"
  /\ \/ reply' = [reply EXCEPT ![r] = "queued"]
     \/ /\ connState[reqConn[r]] = "closed"
        /\ reply' = [reply EXCEPT ![r] = "ran"]
  /\ UNCHANGED <<lifeVars, pool, nameVars, connState, reqVars, tokenVars, handler,
                 replyCode, response>>

\* Mutant: the reply is sent whatever has become of the token.
MaySend_Always(S) == TRUE

\* token.has_value() and not token->isCanceled()
MaySend(S) == S # {} /\ S \cap canceled = {}

\* The functor on the connection's loop: whoever's token has this id is taken.
RunReply(r) ==
  LET S == Lookup(reqConn[r], reqId[r]) IN
  /\ reply[r] = "queued"
  /\ reply' = [reply EXCEPT ![r] = "ran"]
  /\ take(r, S)
  /\ IF MaySend(S)
     THEN sendFramedData(r, reqConn[r], replyCode[r])
     ELSE UNCHANGED <<response, connState>>
  /\ UNCHANGED <<lifeVars, pool, nameVars, reqVars, handler, replyCode>>
-----------------------------------------------------------------------------
Setup ==
  \/ setMaxActiveRequests \/ setMaxActiveRequestsPerConnection \/ setMaxMessageSize
  \/ setWorkerThreadNum \/ setMaxWorkerQueue \/ setStopCompleteCallback
  \/ \E m \in Methods : registerMethod(m) \/ registerAsyncMethod(m) \/ unregisterMethod(m)

Lifecycle == \/ start \/ StartThrows \/ stop \/ StopThreadRuns \/ PoolStopped
             \/ onTaskPoolStopped \/ onTcpServerStopped

Network == \E c \in Conns :
  \/ Accept(c) \/ PeerHalfClose(c) \/ OnClosed(c) \/ OnBadMessage(c)
  \/ \E id \in RequestIds : \/ OnCancel(c, id) \/ invokeSyncHandler(c, id)
                            \/ OnUnknownMethod(c, id) \/ RefuseAsync(c, id)
                            \/ invokeAsyncHandler(c, id)

Handlers == \E r \in Requests :
  \/ HandlerStarts(r) \/ HandlerReturns(r) \/ HandlerThrows(r)
  \/ Reply(r) \/ QueueReply(r) \/ RunReply(r)

Next == Setup \/ Lifecycle \/ Network \/ Handlers

Spec == Init /\ [][Next]_vars

\* Loops and threads are scheduled, handlers return (they need not reply), and
\* TcpServer closes what is still open when the grace period ends.  Peers and
\* the server's owner owe nothing.
Fairness ==
  /\ WF_vars(StopThreadRuns) /\ WF_vars(PoolStopped)
  /\ WF_vars(onTaskPoolStopped) /\ WF_vars(onTcpServerStopped)
  /\ \A c \in Conns : WF_vars(tcp = "stopping" /\ OnClosed(c))
  /\ \A r \in Requests : /\ WF_vars(HandlerStarts(r))
                         /\ WF_vars(HandlerReturns(r) \/ HandlerThrows(r))
                         /\ WF_vars(QueueReply(r)) /\ WF_vars(RunReply(r))

FairSpec == Spec /\ Fairness
-----------------------------------------------------------------------------
(***************************************************************************)
(* Properties                                                              *)
(***************************************************************************)
\* A request has been given a token.
HasToken(r) == handler[r] # "none" \/ reply[r] # "unused"

\* README.md, setMaxActiveRequests: both limits hold at all times, although
\* requests enter on several loops and leave by reply, cancel and close.
RegistryLimits ==
  /\ config.maxActive # 0 => Cardinality(registry) <= config.maxActive
  /\ config.maxPerConn # 0 =>
       \A c \in Conns : Cardinality(TokensOf(c)) <= config.maxPerConn

\* Every token has exactly one fate: it is registered, or it was canceled and
\* its flag set, or one reply took it.  No token leaks capacity, none is
\* erased without its handler being able to see why.
TokenFate ==
  \A r \in Requests :
    IF HasToken(r)
    THEN \/ r \in registry /\ r \notin canceled /\ takenBy[r] = 0
         \/ r \notin registry /\ r \in canceled /\ takenBy[r] = 0
         \/ r \notin registry /\ r \notin canceled /\ takenBy[r] # 0
    ELSE r \notin registry /\ r \notin canceled /\ takenBy[r] = 0

\* README.md, setMaxActiveRequests: reply, cancel and close give the capacity
\* back.  A registered token belongs to an open connection and to a request
\* whose reply has not been processed.
CapacityReleased ==
  \A r \in registry : Open(reqConn[r]) /\ reply[r] # "ran"

\* A request refused because the server is full was not executed: the client
\* may repeat it.
RefusedNotRun ==
  \A r \in Requests : response[r] = "RESOURCE_EXHAUSTED" => handler[r] = "none"

\* README.md, request life cycle: after the cancel frame has been processed,
\* or the connection has closed, a reply sends no response.
CanceledNeverAnswered ==
  \A r \in Requests : r \in canceled => response[r] = "none"

\* stop() is complete, and says so exactly once, when TcpServer has closed
\* every connection and the pool has run every handler it accepted.
StopIsComplete ==
  /\ stopCallbacks = IF status = "kStopped" /\ config.stopCallback THEN 1 ELSE 0
  /\ status = "kStopped" =>
       /\ \A c \in Conns : ~Open(c)
       /\ \A r \in Requests : handler[r] \notin {"queued", "running"}
       /\ registry = {}

\* A server that was told to stop does stop.
ServerStops == status = "kStopping" ~> status = "kStopped"

\* A reply gives its capacity back, on an open connection too.
RepliesReleaseCapacity ==
  \A r \in Requests : reply[r] = "called" ~> r \notin registry
=============================================================================
