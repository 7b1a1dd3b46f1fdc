-------------------------- MODULE RpcServerProofs --------------------------
(***************************************************************************)
(* Proofs about RpcServer, for any number of connections and requests, any *)
(* limits and any settings.                                                *)
(***************************************************************************)
EXTENDS RpcServer, FiniteSetTheorems, TLAPS

-----------------------------------------------------------------------------
(***************************************************************************)
(* The inductive invariant                                                 *)
(***************************************************************************)
\* Requests are numbered as they arrive: one that has arrived has a connection
\* and an id, and nothing has been done about one that has not.
Arrived ==
  /\ \A r \in Requests : r <= received => reqConn[r] \in Conns /\ reqId[r] \in RequestIds
  /\ \A r \in Requests : r > received =>
       /\ reqConn[r] = "none" /\ ~HasToken(r) /\ replyCode[r] = "none"
       /\ response[r] = "none"
  /\ UniqueIds => \A q, r \in Requests :
       q <= received /\ reqConn[q] = reqConn[r] /\ reqId[q] = reqId[r] => q = r

\* How far start() and stop() have come, in the server, its TcpServer, its
\* pool and the thread that stops the pool; what each has left behind.
Phases ==
  /\ status = "kNotStarted" <=> tcp = "off"
  /\ status = "kRunning" <=> tcp = "serving"
  /\ tcpServerStopped <=> tcp = "stopped"
  /\ status = "kStopped" <=> tcpServerStopped /\ taskPoolStopped
  /\ taskPoolStopped => status \in {"kStopping", "kStopped"} /\ pool \in {"none", "stopped"}
  /\ stopThread # "none" => status = "kStopping" /\ ~taskPoolStopped
  /\ stopThread = "queued" => pool = "stopped"
  /\ stopCallbacks = IF status = "kStopped" /\ config.stopCallback THEN 1 ELSE 0

\* Connections exist while TcpServer does, tasks while the pool does.
Drained ==
  /\ tcp = "off" => \A c \in Conns : connState[c] = "absent"
  /\ tcp = "stopped" => \A c \in Conns : ~Open(c)
  /\ pool \in {"none", "idle", "stopped"} =>
       \A r \in Requests : handler[r] \notin {"queued", "running"}

\* Who is refused: the reply prepared for a request that the pool refused, and
\* every response that says so, belong to a request without a handler.
Refused == \A r \in Requests :
  "RESOURCE_EXHAUSTED" \in {replyCode[r], response[r]} => handler[r] = "none"

\* A registered request has not been answered, and no canceled one is, unless
\* its id was used again.
Silent == /\ \A r \in registry : response[r] = "none"
          /\ UniqueIds => CanceledNeverAnswered

ServerInv ==
  /\ TypeOK /\ Arrived /\ Phases /\ Drained
  /\ TokenFate /\ CapacityReleased /\ RegistryLimits
  /\ Refused /\ Silent

\* The parts of TypeOK that different actions are about.
WordTypes ==
  /\ status \in {"kNotStarted", "kRunning", "kStopping", "kStopped"}
  /\ stopThread \in {"none", "started", "joining", "queued"}
  /\ stopCallbacks \in Nat
  /\ tcp \in {"off", "serving", "stopping", "stopped"}
  /\ pool \in {"none", "idle", "running", "stopping", "stopped"}

FlagTypes == tcpServerStopped \in BOOLEAN /\ taskPoolStopped \in BOOLEAN

NameTypes ==
  /\ config \in [maxActive : Limits \cup {0}, maxPerConn : Limits \cup {0},
                 maxQueue : Limits \cup {0}, tinyMessages : BOOLEAN, stopCallback : BOOLEAN]
  /\ syncHandlers \subseteq Methods /\ asyncHandlers \subseteq Methods
  /\ syncHandlers \cap asyncHandlers = {}

ArrivalTypes ==
  /\ received \in 0..MaxRequests
  /\ reqConn \in [Requests -> Conns \cup {"none"}]
  /\ reqId \in [Requests -> RequestIds \cup {0}]

ConnTypes == connState \in [Conns -> {"absent", "up", "closing", "closed"}]

TokenTypes ==
  /\ registry \subseteq Requests /\ canceled \subseteq Requests
  /\ takenBy \in [Requests -> 0..MaxRequests]

ReplyTypes ==
  /\ handler \in [Requests -> {"none", "queued", "running", "returned"}]
  /\ reply \in [Requests -> {"unused", "called", "queued", "ran"}]
  /\ replyCode \in [Requests -> Codes \cup {"none"}]

ResponseTypes == response \in [Requests -> Codes \cup {"none"}]

Types == /\ WordTypes /\ FlagTypes /\ NameTypes /\ ArrivalTypes
         /\ ConnTypes /\ TokenTypes /\ ReplyTypes /\ ResponseTypes

\* TypeOK is the conjunction of its parts.
LEMMA TypeParts == (TypeOK <=> Types) /\ (TypeOK' <=> Types')
BY Zenon DEF Types, TypeOK, WordTypes, FlagTypes, NameTypes, ArrivalTypes, ConnTypes,
             TokenTypes, ReplyTypes, ResponseTypes

\* What an action leaves alone keeps its type.
LEMMA TypesKept ==
  ASSUME Types
  PROVE  /\ UNCHANGED <<status, stopThread, stopCallbacks, tcp, pool>> => WordTypes'
         /\ UNCHANGED <<tcpServerStopped, taskPoolStopped>> => FlagTypes'
         /\ UNCHANGED nameVars => NameTypes'
         /\ UNCHANGED reqVars => ArrivalTypes'
         /\ UNCHANGED connState => ConnTypes'
         /\ UNCHANGED tokenVars => TokenTypes'
         /\ UNCHANGED <<handler, replyVars>> => ReplyTypes'
         /\ UNCHANGED response => ResponseTypes'
<1> USE DEF Types
<1>1. UNCHANGED <<status, stopThread, stopCallbacks, tcp, pool>> => WordTypes'
  BY DEF WordTypes
<1>2. UNCHANGED <<tcpServerStopped, taskPoolStopped>> => FlagTypes'
  BY DEF FlagTypes
<1>3. UNCHANGED nameVars => NameTypes'
  BY DEF NameTypes, nameVars
<1>4. UNCHANGED reqVars => ArrivalTypes'
  BY DEF ArrivalTypes, reqVars
<1>5. UNCHANGED connState => ConnTypes'
  BY DEF ConnTypes
<1>6. UNCHANGED tokenVars => TokenTypes'
  BY DEF TokenTypes, tokenVars
<1>7. UNCHANGED <<handler, replyVars>> => ReplyTypes'
  BY DEF ReplyTypes, replyVars
<1>8. UNCHANGED response => ResponseTypes'
  BY DEF ResponseTypes
<1> QED BY <1>1, <1>2, <1>3, <1>4, <1>5, <1>6, <1>7, <1>8

USE ServerAssumption DEF Requests
-----------------------------------------------------------------------------
(***************************************************************************)
(* What the operators shared by several actions do                         *)
(***************************************************************************)
\* sendResponse touches the response of its request only, which becomes the
\* code it was given or MESSAGE_TOO_LARGE, and at most starts to close an open
\* connection.
LEMMA SendFacts ==
  ASSUME TypeOK, NEW r \in Requests, NEW c \in Conns, NEW code \in Codes \cup {"none"},
         sendResponse(r, c, code)
  PROVE  /\ response' \in [Requests -> Codes \cup {"none"}]
         /\ \A q \in Requests : q # r => response'[q] = response[q]
         /\ response'[r] \in {response[r], code, "MESSAGE_TOO_LARGE"}
         /\ connState' \in [Conns -> {"absent", "up", "closing", "closed"}]
         /\ \A d \in Conns : /\ Open(d)' <=> Open(d)
                             /\ connState'[d] = "absent" <=> connState[d] = "absent"
<1>1. ASSUME NEW sentCode \in {code, "MESSAGE_TOO_LARGE"},
             response' = IF connState[c] = "up" THEN [response EXCEPT ![r] = sentCode]
                         ELSE response,
             UNCHANGED connState
      PROVE  /\ response' \in [Requests -> Codes \cup {"none"}]
             /\ \A q \in Requests : q # r => response'[q] = response[q]
             /\ response'[r] \in {response[r], code, "MESSAGE_TOO_LARGE"}
             /\ connState' \in [Conns -> {"absent", "up", "closing", "closed"}]
             /\ \A d \in Conns : /\ Open(d)' <=> Open(d)
                                 /\ connState'[d] = "absent" <=> connState[d] = "absent"
  BY <1>1 DEF TypeOK, Codes, Open
<1>2. ASSUME connState' = [connState EXCEPT ![c] = IF Open(c) THEN "closing" ELSE @],
             UNCHANGED response
      PROVE  /\ response' \in [Requests -> Codes \cup {"none"}]
             /\ \A q \in Requests : q # r => response'[q] = response[q]
             /\ response'[r] \in {response[r], code, "MESSAGE_TOO_LARGE"}
             /\ connState' \in [Conns -> {"absent", "up", "closing", "closed"}]
             /\ \A d \in Conns : /\ Open(d)' <=> Open(d)
                                 /\ connState'[d] = "absent" <=> connState[d] = "absent"
  BY <1>2 DEF TypeOK, Open
<1> QED BY <1>1, <1>2 DEF sendResponse

\* A request that arrives gets the next number, which nothing refers to yet.
LEMMA ReceiveFacts ==
  ASSUME TypeOK, Arrived, NEW c \in Conns, NEW id \in RequestIds, Receive(c, id)
  PROVE  /\ received + 1 \in Requests
         /\ received' = received + 1 /\ received' \in 0..MaxRequests
         /\ reqConn' \in [Requests -> Conns \cup {"none"}]
         /\ reqId' \in [Requests -> RequestIds \cup {0}]
         /\ reqConn'[received + 1] = c /\ reqId'[received + 1] = id
         /\ \A r \in Requests : r # received + 1 =>
              reqConn'[r] = reqConn[r] /\ reqId'[r] = reqId[r]
         /\ ~HasToken(received + 1) /\ response[received + 1] = "none"
         /\ replyCode[received + 1] = "none"
         /\ Open(c)
         /\ UniqueIds => \A r \in Requests : ~(reqConn[r] = c /\ reqId[r] = id)
<1>1. received \in Nat /\ received + 1 \in Requests /\ received + 1 > received
  BY DEF TypeOK, Receive
<1> QED BY <1>1 DEF TypeOK, Arrived, Receive

\* The functor of a reply takes the token it finds, if there is one, and sends
\* nothing otherwise.
LEMMA RunReplyFacts ==
  ASSUME TypeOK, Arrived, NEW r \in Requests, RunReply(r)
  PROVE  /\ reply[r] = "queued" /\ reply' = [reply EXCEPT ![r] = "ran"]
         /\ r <= received /\ reqConn[r] \in Conns
         /\ registry' = registry \ Lookup(reqConn[r], reqId[r])
         /\ takenBy' = [t \in Requests |-> IF t \in Lookup(reqConn[r], reqId[r]) THEN r
                                           ELSE takenBy[t]]
         /\ response' \in [Requests -> Codes \cup {"none"}]
         /\ \A q \in Requests : q # r => response'[q] = response[q]
         /\ response'[r] \in {response[r], replyCode[r], "MESSAGE_TOO_LARGE"}
         /\ response' = response \/ Lookup(reqConn[r], reqId[r]) # {}
         /\ connState' \in [Conns -> {"absent", "up", "closing", "closed"}]
         /\ \A d \in Conns : /\ Open(d)' <=> Open(d)
                             /\ connState'[d] = "absent" <=> connState[d] = "absent"
         /\ UNCHANGED <<lifeVars, pool, nameVars, reqVars, canceled, handler, replyCode>>
<1> DEFINE S == Lookup(reqConn[r], reqId[r])
<1>1. /\ reply[r] = "queued" /\ reply' = [reply EXCEPT ![r] = "ran"]
      /\ take(r, S)
      /\ IF MaySend(S) THEN sendResponse(r, reqConn[r], replyCode[r])
         ELSE UNCHANGED <<response, connState>>
      /\ UNCHANGED <<lifeVars, pool, nameVars, reqVars, handler, replyCode>>
  BY DEF RunReply, sendFramedData
<1>2. r <= received /\ reqConn[r] \in Conns /\ replyCode[r] \in Codes \cup {"none"}
  BY <1>1 DEF Arrived, HasToken, TypeOK
<1>3. registry' = registry \ S /\ UNCHANGED canceled
      /\ takenBy' = [t \in Requests |-> IF t \in S THEN r ELSE takenBy[t]]
  BY <1>1 DEF take
<1>4. CASE MaySend(S)
  BY <1>1, <1>2, <1>3, <1>4, SendFacts DEF MaySend
<1>5. CASE ~MaySend(S)
  BY <1>1, <1>2, <1>3, <1>5 DEF TypeOK, Open
<1> QED BY <1>4, <1>5

\* A request that is answered, or whose connection is closed, on arrival.
Answer(c, id) == invokeSyncHandler(c, id) \/ OnUnknownMethod(c, id) \/ RefuseAsync(c, id)

\* Such a request gets a response at most, and no token.
LEMMA AnswerFacts ==
  ASSUME TypeOK, Arrived, NEW c \in Conns, NEW id \in RequestIds, Answer(c, id)
  PROVE  /\ Receive(c, id)
         /\ response' \in [Requests -> Codes \cup {"none"}]
         /\ \A q \in Requests : q # received + 1 => response'[q] = response[q]
         /\ connState' \in [Conns -> {"absent", "up", "closing", "closed"}]
         /\ \A d \in Conns : /\ Open(d)' <=> Open(d)
                             /\ connState'[d] = "absent" <=> connState[d] = "absent"
         /\ UNCHANGED <<lifeVars, pool, nameVars, tokenVars, handler, replyVars>>
<1>1. Receive(c, id) /\ UNCHANGED <<lifeVars, pool, nameVars, tokenVars, handler, replyVars>>
  BY DEF Answer, invokeSyncHandler, OnUnknownMethod, RefuseAsync
<1>2. received + 1 \in Requests /\ Open(c)
  BY <1>1, ReceiveFacts
<1>3. ASSUME NEW code \in Codes, sendResponse(received + 1, c, code)
      PROVE  /\ response' \in [Requests -> Codes \cup {"none"}]
             /\ \A q \in Requests : q # received + 1 => response'[q] = response[q]
             /\ connState' \in [Conns -> {"absent", "up", "closing", "closed"}]
             /\ \A d \in Conns : /\ Open(d)' <=> Open(d)
                                 /\ connState'[d] = "absent" <=> connState[d] = "absent"
  BY <1>2, <1>3, SendFacts
<1>4. ASSUME connState' = [connState EXCEPT ![c] = "closing"], UNCHANGED response
      PROVE  /\ response' \in [Requests -> Codes \cup {"none"}]
             /\ \A q \in Requests : q # received + 1 => response'[q] = response[q]
             /\ connState' \in [Conns -> {"absent", "up", "closing", "closed"}]
             /\ \A d \in Conns : /\ Open(d)' <=> Open(d)
                                 /\ connState'[d] = "absent" <=> connState[d] = "absent"
  BY <1>2, <1>4, TypeParts DEF Types, ConnTypes, ResponseTypes, Open
<1>5. \/ \E code \in Codes : sendResponse(received + 1, c, code)
      \/ connState' = [connState EXCEPT ![c] = "closing"] /\ UNCHANGED response
  BY DEF Answer, invokeSyncHandler, OnUnknownMethod, RefuseAsync, Codes
<1> QED BY <1>1, <1>3, <1>4, <1>5

\* A request that gets a token has a handler, waiting in the pool's queue or
\* run at once, or a reply that says why not.
LEMMA AsyncFacts ==
  ASSUME TypeOK, Arrived, NEW c \in Conns, NEW id \in RequestIds, invokeAsyncHandler(c, id)
  PROVE  /\ Receive(c, id)
         /\ registerToken(c, id) = "kRegistered"
         /\ registry' = registry \cup {received + 1}
         /\ handler'[received + 1] # "none" \/ reply'[received + 1] # "unused"
         /\ reply'[received + 1] \in {"unused", "called"}
         /\ handler'[received + 1] \in {"none", "queued", "returned"}
         /\ handler'[received + 1] = "queued" => pool = "running"
         /\ replyCode'[received + 1] = "RESOURCE_EXHAUSTED" => handler'[received + 1] = "none"
         /\ \A q \in Requests : q # received + 1 =>
              /\ handler'[q] = handler[q] /\ reply'[q] = reply[q]
              /\ replyCode'[q] = replyCode[q]
         /\ UNCHANGED <<lifeVars, pool, nameVars, connState, canceled, takenBy, response>>
<1> DEFINE r == received + 1
<1>1. /\ Receive(c, id)
      /\ registerToken(c, id) = "kRegistered"
      /\ registry' = registry \cup {r}
      /\ UNCHANGED <<lifeVars, pool, nameVars, connState, canceled, takenBy, response>>
  BY DEF invokeAsyncHandler
<1>2. r \in Requests /\ handler[r] = "none" /\ reply[r] = "unused" /\ replyCode[r] = "none"
  BY <1>1, ReceiveFacts DEF HasToken
<1>3. \/ /\ reply' = [reply EXCEPT ![r] = "called"]
         /\ \E code : replyCode' = [replyCode EXCEPT ![r] = code]
         /\ UNCHANGED handler
      \/ /\ handler' = [handler EXCEPT ![r] = "queued"]
         /\ UNCHANGED replyVars
         /\ pool = "running"
      \/ /\ handler' = [handler EXCEPT ![r] = "returned"]
         /\ UNCHANGED replyVars
  BY DEF invokeAsyncHandler, Submit
<1> HIDE DEF r
<1>4. handler \in [Requests -> {"none", "queued", "running", "returned"}]
      /\ reply \in [Requests -> {"unused", "called", "queued", "ran"}]
      /\ replyCode \in [Requests -> Codes \cup {"none"}]
  BY TypeParts DEF Types, ReplyTypes
<1>5. /\ handler'[r] # "none" \/ reply'[r] # "unused"
      /\ reply'[r] \in {"unused", "called"}
      /\ handler'[r] \in {"none", "queued", "returned"}
      /\ handler'[r] = "queued" => pool = "running"
      /\ replyCode'[r] = "RESOURCE_EXHAUSTED" => handler'[r] = "none"
      /\ \A q \in Requests : q # r =>
           handler'[q] = handler[q] /\ reply'[q] = reply[q] /\ replyCode'[q] = replyCode[q]
  BY <1>2, <1>3, <1>4 DEF replyVars
<1> QED BY <1>1, <1>5 DEF r

\* The steps of a handler and of its reply, up to the functor on the loop.
HandlerStep(r) == \/ HandlerStarts(r) \/ HandlerReturns(r) \/ HandlerThrows(r)
                  \/ Reply(r) \/ QueueReply(r)

\* They touch their own request only, which has a token already, and start no
\* handler that was not queued.
LEMMA HandlerFacts ==
  ASSUME TypeOK, NEW r \in Requests, HandlerStep(r)
  PROVE  /\ HasToken(r) /\ HasToken(r)'
         /\ reply'[r] = "ran" => reply[r] = "ran" \/ connState[reqConn[r]] = "closed"
         /\ handler'[r] = "none" <=> handler[r] = "none"
         /\ handler'[r] \in {"queued", "running"} => handler[r] \in {"queued", "running"}
         /\ replyCode'[r] = "RESOURCE_EXHAUSTED" => replyCode[r] = "RESOURCE_EXHAUSTED"
         /\ \A q \in Requests : q # r =>
              /\ handler'[q] = handler[q] /\ reply'[q] = reply[q]
              /\ replyCode'[q] = replyCode[q]
         /\ UNCHANGED <<lifeVars, pool, nameVars, connState, reqVars, tokenVars, response>>
<1>1. handler \in [Requests -> {"none", "queued", "running", "returned"}]
      /\ reply \in [Requests -> {"unused", "called", "queued", "ran"}]
      /\ replyCode \in [Requests -> Codes \cup {"none"}]
  BY TypeParts DEF Types, ReplyTypes
<1>2. UNCHANGED <<lifeVars, pool, nameVars, connState, reqVars, tokenVars, response>>
  BY DEF HandlerStep, HandlerStarts, HandlerReturns, HandlerThrows, Reply, QueueReply
<1>3. CASE HandlerStarts(r) \/ HandlerReturns(r)
  BY <1>1, <1>2, <1>3 DEF HandlerStarts, HandlerReturns, HasToken, replyVars
<1>4. CASE HandlerThrows(r) \/ Reply(r)
  <2>1. /\ handler[r] \in {"running", "returned"} /\ reply[r] = "unused"
        /\ handler' \in {handler, [handler EXCEPT ![r] = "returned"]}
        /\ reply' = [reply EXCEPT ![r] = "called"]
        /\ \E code \in {"RESULT", "INTERNAL_ERROR"} :
             replyCode' = [replyCode EXCEPT ![r] = code]
    BY <1>4 DEF HandlerThrows, Reply
  <2> QED BY <1>1, <1>2, <2>1 DEF HasToken
<1>5. CASE QueueReply(r)
  BY <1>1, <1>2, <1>5 DEF QueueReply, HasToken
<1> QED BY <1>3, <1>4, <1>5 DEF HandlerStep

\* A step, told apart by what it does to connections, tokens and requests.
LEMMA StepCases ==
  ASSUME [Next]_vars
  PROVE  \/ Setup \/ Lifecycle \/ UNCHANGED vars
         \/ \E c \in Conns : Accept(c) \/ PeerHalfClose(c) \/ OnBadMessage(c)
         \/ \E c \in Conns : OnClosed(c)
         \/ \E c \in Conns, id \in RequestIds : OnCancel(c, id)
         \/ \E c \in Conns, id \in RequestIds : Answer(c, id)
         \/ \E c \in Conns, id \in RequestIds : invokeAsyncHandler(c, id)
         \/ \E r \in Requests : HandlerStep(r)
         \/ \E r \in Requests : RunReply(r)
BY Zenon DEF Next, Network, Handlers, Answer, HandlerStep

\* Setting up, starting and stopping do nothing to connections and requests.
LEMMA OwnerFacts ==
  ASSUME Setup \/ Lifecycle
  PROVE  UNCHANGED <<connState, reqVars, tokenVars, handler, replyVars, response>>
BY DEF Setup, setMaxActiveRequests, setMaxActiveRequestsPerConnection, setMaxMessageSize,
       setMaxWorkerQueue, setStopCompleteCallback, setWorkerThreadNum, Set, registerMethod,
       registerAsyncMethod, unregisterMethod, Lifecycle, start, StartThrows, stop,
       StopThreadRuns, PoolStopped, onTaskPoolStopped, onTcpServerStopped

\* The registry's set operations keep to their arguments.
LEMMA TokenFacts ==
  ASSUME TypeOK
  PROVE  /\ \A c : TokensOf(c) \subseteq registry
         /\ \A c, id : Lookup(c, id) \subseteq registry
         /\ IsFiniteSet(registry) /\ registry \subseteq Requests
<1>1. IsFiniteSet(Requests)
  BY FS_Interval
<1> QED BY <1>1, FS_Subset DEF TypeOK, TokensOf, Lookup
-----------------------------------------------------------------------------
(***************************************************************************)
(* Every action keeps every part of the invariant                          *)
(***************************************************************************)
\* A server that has just been constructed satisfies the invariant.
LEMMA ServerInit == Init => ServerInv
<1> SUFFICES ASSUME Init PROVE ServerInv
  OBVIOUS
<1>1. TypeOK
  <2>1. WordTypes
    BY DEF Init, WordTypes
  <2>2. FlagTypes
    BY DEF Init, FlagTypes
  <2>3. NameTypes
    BY DEF Init, NameTypes
  <2>4. ArrivalTypes /\ ConnTypes /\ TokenTypes
    BY DEF Init, ArrivalTypes, ConnTypes, TokenTypes
  <2>5. ReplyTypes /\ ResponseTypes
    BY DEF Init, ReplyTypes, ResponseTypes
  <2> QED BY <2>1, <2>2, <2>3, <2>4, <2>5, TypeParts DEF Types
<1>2. Arrived
  BY DEF Init, Arrived, HasToken
<1>3. Phases /\ Drained
  BY DEF Init, Phases, Drained
<1>4. TokenFate /\ CapacityReleased /\ Refused /\ Silent
  BY DEF Init, TokenFate, CapacityReleased, HasToken, Refused, Silent, CanceledNeverAnswered
<1>5. RegistryLimits
  BY DEF Init, RegistryLimits
<1> QED BY <1>1, <1>2, <1>3, <1>4, <1>5 DEF ServerInv

\* Type correctness, and a method is never both synchronous and asynchronous.
LEMMA TypeStep == TypeOK /\ Arrived /\ [Next]_vars => TypeOK'
<1> SUFFICES ASSUME TypeOK, Arrived, [Next]_vars PROVE Types'
  BY TypeParts
<1>a. Types
  BY TypeParts
<1>1. CASE Setup
  <2>1. UNCHANGED <<lifeVars, connState, reqVars, tokenVars, handler, replyVars, response>>
    BY <1>1
    DEF Setup, setMaxActiveRequests, setMaxActiveRequestsPerConnection, setMaxMessageSize,
        setMaxWorkerQueue, setStopCompleteCallback, setWorkerThreadNum, Set, registerMethod,
        registerAsyncMethod, unregisterMethod, nameVars
  <2>2. ASSUME NEW m \in Methods,
               registerMethod(m) \/ registerAsyncMethod(m) \/ unregisterMethod(m)
        PROVE  NameTypes' /\ UNCHANGED pool
    BY <2>2, <1>a DEF Types, NameTypes, registerMethod, registerAsyncMethod, unregisterMethod,
                      isRegistered
  <2>3. CASE setWorkerThreadNum
    <3>1. NameTypes'
      BY <2>3, <1>a, TypesKept DEF setWorkerThreadNum
    <3>2. WordTypes'
      BY <2>3, <1>a DEF setWorkerThreadNum, Types, WordTypes, lifeVars
    <3> QED BY <1>a, <2>1, <3>1, <3>2, TypesKept DEF Types, lifeVars
  <2>4. ASSUME NEW field \in {"maxActive", "maxPerConn", "maxQueue"}, Set(field, Limits)
        PROVE NameTypes' /\ UNCHANGED pool
    BY <2>4, <1>a DEF Types, NameTypes, Set
  <2>5. ASSUME NEW field \in {"tinyMessages", "stopCallback"}, Set(field, BOOLEAN)
        PROVE NameTypes' /\ UNCHANGED pool
    BY <2>5, <1>a DEF Types, NameTypes, Set
  <2>6. CASE NameTypes' /\ UNCHANGED pool
    BY <1>a, <2>1, <2>6, TypesKept DEF Types, lifeVars
  <2> QED BY <1>1, <2>2, <2>3, <2>4, <2>5, <2>6
    DEF Setup, setMaxActiveRequests, setMaxActiveRequestsPerConnection, setMaxMessageSize,
        setMaxWorkerQueue, setStopCompleteCallback
<1>2. CASE Lifecycle
  <2>1. UNCHANGED <<nameVars, connState, reqVars, tokenVars, handler, replyVars, response>>
    BY <1>2 DEF Lifecycle, start, StartThrows, stop, StopThreadRuns, PoolStopped,
                onTaskPoolStopped, onTcpServerStopped
  <2>2. WordTypes'
    <3>1. CASE start \/ StartThrows \/ stop \/ StopThreadRuns \/ PoolStopped
      BY <3>1, <1>a
      DEF Types, WordTypes, start, StartThrows, stop, StopThreadRuns, PoolStopped, lifeVars
    <3>2. CASE onTaskPoolStopped \/ onTcpServerStopped
      <4>1. \/ UNCHANGED <<status, stopCallbacks>>
            \/ status' = "kStopped" /\ stopCallbacks' \in {stopCallbacks, stopCallbacks + 1}
        BY <3>2, <1>a DEF Types, WordTypes, onTaskPoolStopped, onTcpServerStopped, tryCompleteStop,
           StopComplete
      <4>2. stopThread' \in {stopThread, "none"} /\ tcp' \in {tcp, "stopped"} /\ pool' = pool
        BY <3>2 DEF onTaskPoolStopped, onTcpServerStopped
      <4> QED BY <4>1, <4>2, <1>a DEF Types, WordTypes
    <3> QED BY <1>2, <3>1, <3>2 DEF Lifecycle
  <2>3. FlagTypes'
    BY <1>2, <1>a DEF Types, FlagTypes, Lifecycle, start, StartThrows, stop, StopThreadRuns,
                PoolStopped, onTaskPoolStopped, onTcpServerStopped, lifeVars
  <2> QED BY <1>a, <2>1, <2>2, <2>3, TypesKept DEF Types
<1>3. ASSUME NEW c \in Conns,
             Accept(c) \/ PeerHalfClose(c) \/ OnClosed(c) \/ OnBadMessage(c)
      PROVE  Types'
  <2>1. UNCHANGED <<lifeVars, pool, nameVars, reqVars, handler, replyVars, response>>
    BY <1>3 DEF Accept, PeerHalfClose, OnClosed, OnBadMessage
  <2>2. ConnTypes'
    BY <1>3, <1>a DEF Types, ConnTypes, Accept, PeerHalfClose, OnClosed, OnBadMessage
  <2>3. TokenTypes'
    BY <1>3, <1>a DEF Types, TokenTypes, Accept, PeerHalfClose, OnClosed, OnBadMessage,
                CancelTokens, TokensOf, tokenVars
  <2> QED BY <1>a, <2>1, <2>2, <2>3, TypesKept DEF Types, lifeVars
<1>4. ASSUME NEW c \in Conns, NEW id \in RequestIds, OnCancel(c, id)
      PROVE  Types'
  <2>1. UNCHANGED <<lifeVars, pool, nameVars, connState, reqVars, handler, replyVars, response>>
    BY <1>4 DEF OnCancel
  <2>2. TokenTypes'
    BY <1>4, <1>a DEF Types, TokenTypes, OnCancel, CancelTokens, Lookup
  <2> QED BY <1>a, <2>1, <2>2, TypesKept DEF Types, lifeVars
<1>5. ASSUME NEW c \in Conns, NEW id \in RequestIds,
             invokeSyncHandler(c, id) \/ OnUnknownMethod(c, id) \/ RefuseAsync(c, id)
      PROVE  Types'
  <2>1. Receive(c, id)
    BY <1>5 DEF invokeSyncHandler, OnUnknownMethod, RefuseAsync
  <2>2. ArrivalTypes' /\ received + 1 \in Requests
    BY <2>1, ReceiveFacts DEF ArrivalTypes
  <2>3. ASSUME NEW code \in Codes, sendResponse(received + 1, c, code)
        PROVE  ResponseTypes' /\ ConnTypes'
    BY <2>2, <2>3, SendFacts DEF ResponseTypes, ConnTypes
  <2>4. ASSUME connState' = [connState EXCEPT ![c] = "closing"], UNCHANGED response
        PROVE  ResponseTypes' /\ ConnTypes'
    BY <2>4, <1>a, TypesKept DEF Types, ConnTypes
  <2>5. ResponseTypes' /\ ConnTypes'
    BY <1>5, <2>3, <2>4 DEF invokeSyncHandler, OnUnknownMethod, RefuseAsync, Codes
  <2>6. UNCHANGED <<lifeVars, pool, nameVars, tokenVars, handler, replyVars>>
    BY <1>5 DEF invokeSyncHandler, OnUnknownMethod, RefuseAsync
  <2> QED BY <1>a, <2>2, <2>5, <2>6, TypesKept DEF Types, lifeVars
<1>6. ASSUME NEW c \in Conns, NEW id \in RequestIds, invokeAsyncHandler(c, id)
      PROVE  Types'
  <2>1. Receive(c, id)
    BY <1>6 DEF invokeAsyncHandler
  <2>2. ArrivalTypes' /\ received + 1 \in Requests
    BY <2>1, ReceiveFacts DEF ArrivalTypes
  <2>3. /\ registry' = registry \cup {received + 1}
        /\ UNCHANGED <<lifeVars, pool, nameVars, connState, canceled, takenBy, response>>
    BY <1>6 DEF invokeAsyncHandler
  <2>4. TokenTypes'
    BY <1>a, <2>2, <2>3 DEF Types, TokenTypes
  <2>5. ReplyTypes'
    BY <1>6, <1>a, <2>2 DEF invokeAsyncHandler, Submit, Codes, Types, ReplyTypes, replyVars
  <2> QED BY <1>a, <2>2, <2>3, <2>4, <2>5, TypesKept DEF Types, lifeVars
<1>7. ASSUME NEW r \in Requests,
             HandlerStarts(r) \/ HandlerReturns(r) \/ HandlerThrows(r) \/ Reply(r) \/ QueueReply(r)
      PROVE  Types'
  <2>1. UNCHANGED <<lifeVars, pool, nameVars, connState, reqVars, tokenVars, response>>
    BY <1>7 DEF HandlerStarts, HandlerReturns, HandlerThrows, Reply, QueueReply
  <2>2. ReplyTypes'
    BY <1>7, <1>a DEF Types, ReplyTypes, HandlerStarts, HandlerReturns, HandlerThrows, Reply,
                      QueueReply, Codes, replyVars
  <2> QED BY <1>a, <2>1, <2>2, TypesKept DEF Types, lifeVars
<1>8. ASSUME NEW r \in Requests, RunReply(r) PROVE Types'
  <2>1. UNCHANGED <<lifeVars, pool, nameVars, reqVars, handler, replyCode>>
    BY <1>8, RunReplyFacts
  <2>2. TokenTypes'
    <3>1. /\ registry' \subseteq registry /\ canceled' = canceled
          /\ takenBy' = [t \in Requests |-> IF t \in Lookup(reqConn[r], reqId[r]) THEN r
                                            ELSE takenBy[t]]
      BY <1>8, RunReplyFacts
    <3> QED BY <1>a, <3>1 DEF Types, TokenTypes
  <2>3. ReplyTypes' /\ ResponseTypes' /\ ConnTypes'
    BY <1>8, <1>a, RunReplyFacts DEF Types, ReplyTypes, ResponseTypes, ConnTypes
  <2> QED BY <1>a, <2>1, <2>2, <2>3, TypesKept DEF Types, lifeVars
<1>9. CASE UNCHANGED vars
  BY <1>9, <1>a, TypesKept DEF vars, Types, lifeVars
<1> QED BY <1>1, <1>2, <1>3, <1>4, <1>5, <1>6, <1>7, <1>8, <1>9 DEF Next, Network, Handlers

\* Requests are numbered in the order in which they arrive.
LEMMA ArrivedStep == TypeOK /\ Arrived /\ [Next]_vars => Arrived'
<1> SUFFICES ASSUME TypeOK, Arrived, [Next]_vars PROVE Arrived'
  OBVIOUS
<1>1. CASE UNCHANGED <<reqVars, handler, replyVars, response>>
  BY <1>1 DEF Arrived, HasToken, reqVars, replyVars
<1>2. ASSUME NEW c \in Conns, NEW id \in RequestIds, Receive(c, id),
             \A q \in Requests : q # received + 1 =>
               /\ handler'[q] = handler[q] /\ reply'[q] = reply[q]
               /\ replyCode'[q] = replyCode[q] /\ response'[q] = response[q]
      PROVE  Arrived'
  <2>1. received \in Nat
    BY TypeParts DEF Types, ArrivalTypes
  <2>2. \A r \in Requests : r <= received' => reqConn'[r] \in Conns /\ reqId'[r] \in RequestIds
    BY <1>2, <2>1, ReceiveFacts DEF Arrived
  <2>3. \A r \in Requests : r > received' =>
          /\ reqConn'[r] = "none" /\ ~HasToken(r)' /\ replyCode'[r] = "none"
          /\ response'[r] = "none"
    <3> SUFFICES ASSUME NEW r \in Requests, r > received'
                 PROVE  /\ reqConn'[r] = "none" /\ ~HasToken(r)' /\ replyCode'[r] = "none"
                        /\ response'[r] = "none"
      OBVIOUS
    <3>1. r > received /\ r # received + 1
      BY <1>2, <2>1, ReceiveFacts
    <3> QED BY <1>2, <3>1, ReceiveFacts DEF Arrived, HasToken
  <2>4. ASSUME UniqueIds, NEW q \in Requests, NEW r \in Requests, q <= received',
               reqConn'[q] = reqConn'[r], reqId'[q] = reqId'[r]
        PROVE  q = r
    <3>1. CASE q = received + 1 \/ r = received + 1
      BY <1>2, <2>1, <2>4, <3>1, ReceiveFacts
    <3>2. CASE q # received + 1 /\ r # received + 1
      BY <1>2, <2>1, <2>4, <3>2, ReceiveFacts DEF Arrived
    <3> QED BY <3>1, <3>2
  <2> QED BY <2>2, <2>3, <2>4 DEF Arrived
<1>3. ASSUME NEW c \in Conns, NEW id \in RequestIds, Answer(c, id) PROVE Arrived'
  BY <1>2, <1>3, AnswerFacts DEF replyVars
<1>4. ASSUME NEW c \in Conns, NEW id \in RequestIds, invokeAsyncHandler(c, id) PROVE Arrived'
  BY <1>2, <1>4, AsyncFacts
<1>5. ASSUME NEW r \in Requests, HandlerStep(r) PROVE Arrived'
  <2>1. UNCHANGED <<received, reqConn, reqId, response>> /\ HasToken(r)
    BY <1>5, HandlerFacts DEF reqVars
  <2>2. ~(r > received)
    BY <2>1 DEF Arrived
  <2>3. \A q \in Requests : q > received => (HasToken(q)' <=> HasToken(q))
                                          /\ replyCode'[q] = replyCode[q]
    BY <1>5, <2>2, HandlerFacts DEF HasToken
  <2> QED BY <2>1, <2>3 DEF Arrived
<1>6. ASSUME NEW r \in Requests, RunReply(r) PROVE Arrived'
  <2>1. /\ UNCHANGED <<received, reqConn, reqId, handler, replyCode>> /\ r <= received
        /\ reply' = [reply EXCEPT ![r] = "ran"]
        /\ \A q \in Requests : q # r => response'[q] = response[q]
    BY <1>6, RunReplyFacts DEF reqVars
  <2>2. \A q \in Requests : q > received => q # r /\ (HasToken(q)' <=> HasToken(q))
    BY <2>1, TypeParts DEF HasToken, Types, ReplyTypes, ArrivalTypes
  <2> QED BY <2>1, <2>2 DEF Arrived
<1>7. CASE \/ Setup \/ Lifecycle \/ UNCHANGED vars
           \/ \E c \in Conns : Accept(c) \/ PeerHalfClose(c) \/ OnBadMessage(c)
           \/ \E c \in Conns : OnClosed(c)
           \/ \E c \in Conns, id \in RequestIds : OnCancel(c, id)
  BY <1>1, <1>7, OwnerFacts DEF vars, Accept, PeerHalfClose, OnBadMessage, OnClosed, OnCancel
<1> QED BY <1>3, <1>4, <1>5, <1>6, <1>7, StepCases

\* Each token keeps to one fate, whichever of reply, cancel and close is first.
LEMMA FateStep == TypeOK /\ Arrived /\ TokenFate /\ [Next]_vars => TokenFate'
<1> SUFFICES ASSUME TypeOK, Arrived, TokenFate, [Next]_vars PROVE TokenFate'
  OBVIOUS
<1>1. CASE UNCHANGED <<tokenVars, handler, replyVars>>
  BY <1>1 DEF TokenFate, HasToken, tokenVars, replyVars
<1>2. ASSUME NEW S, S \subseteq registry, CancelTokens(S), UNCHANGED <<handler, replyVars>>
      PROVE  TokenFate'
  BY <1>2 DEF TokenFate, HasToken, CancelTokens, replyVars
<1>3. ASSUME NEW c \in Conns, OnClosed(c) PROVE TokenFate'
  BY <1>2, <1>3, TokenFacts DEF OnClosed
<1>4. ASSUME NEW c \in Conns, NEW id \in RequestIds, OnCancel(c, id) PROVE TokenFate'
  BY <1>2, <1>4, TokenFacts DEF OnCancel
<1>5. ASSUME NEW c \in Conns, NEW id \in RequestIds, invokeAsyncHandler(c, id)
      PROVE  TokenFate'
  <2> DEFINE n == received + 1
  <2>1. n \in Requests /\ ~HasToken(n) /\ registry' = registry \cup {n}
        /\ UNCHANGED <<canceled, takenBy>>
    BY <1>5, AsyncFacts, ReceiveFacts
  <2>2. handler'[n] # "none" \/ reply'[n] # "unused"
    BY <1>5, AsyncFacts
  <2>3. \A q \in Requests : q # n => handler'[q] = handler[q] /\ reply'[q] = reply[q]
    BY <1>5, AsyncFacts
  <2> HIDE DEF n
  <2> QED BY <2>1, <2>2, <2>3 DEF TokenFate, HasToken
<1>6. ASSUME NEW r \in Requests, HandlerStep(r) PROVE TokenFate'
  <2>1. UNCHANGED <<registry, canceled, takenBy>>
    BY <1>6, HandlerFacts DEF tokenVars
  <2>2. \A q \in Requests : HasToken(q)' <=> HasToken(q)
    BY <1>6, HandlerFacts DEF HasToken
  <2> QED BY <2>1, <2>2 DEF TokenFate
<1>7. ASSUME NEW r \in Requests, RunReply(r) PROVE TokenFate'
  <2> DEFINE S == Lookup(reqConn[r], reqId[r])
  <2>1. /\ S \subseteq registry /\ registry' = registry \ S /\ canceled' = canceled
        /\ takenBy' = [t \in Requests |-> IF t \in S THEN r ELSE takenBy[t]]
        /\ reply[r] = "queued" /\ reply' = [reply EXCEPT ![r] = "ran"] /\ handler' = handler
    BY <1>7, RunReplyFacts, TokenFacts
  <2> HIDE DEF S
  <2>2. \A q \in Requests : HasToken(q)' <=> HasToken(q)
    BY <2>1, TypeParts DEF HasToken, Types, ReplyTypes
  <2>3. r # 0
    OBVIOUS
  <2> QED BY <2>1, <2>2, <2>3 DEF TokenFate
<1>8. CASE \/ Setup \/ Lifecycle \/ UNCHANGED vars
           \/ \E c \in Conns : Accept(c) \/ PeerHalfClose(c) \/ OnBadMessage(c)
           \/ \E c \in Conns, id \in RequestIds : Answer(c, id)
  BY <1>1, <1>8, OwnerFacts, AnswerFacts DEF vars, Accept, PeerHalfClose, OnBadMessage
<1> QED BY <1>3, <1>4, <1>5, <1>6, <1>7, <1>8, StepCases

\* A registered token belongs to a request that has arrived and not been canceled.
LEMMA RegisteredFacts ==
  ASSUME TypeOK, Arrived, TokenFate, NEW r \in registry
  PROVE  /\ r \in Requests /\ HasToken(r) /\ r \notin canceled
         /\ r <= received /\ r # received + 1 /\ reqConn[r] \in Conns
<1>1. r \in Requests /\ received \in Nat
  BY TypeParts DEF Types, TokenTypes, ArrivalTypes
<1>2. HasToken(r) /\ r \notin canceled
  BY <1>1 DEF TokenFate
<1>3. r <= received
  BY <1>1, <1>2 DEF Arrived
<1> QED BY <1>1, <1>2, <1>3 DEF Arrived

\* Capacity comes back by reply, cancel and close.
LEMMA CapacityStep ==
  TypeOK /\ Arrived /\ TokenFate /\ CapacityReleased /\ [Next]_vars => CapacityReleased'
<1> SUFFICES ASSUME TypeOK, Arrived, TokenFate, CapacityReleased, [Next]_vars
             PROVE  CapacityReleased'
  OBVIOUS
<1>1. ASSUME registry' \subseteq registry, UNCHANGED reqConn,
             \A r \in registry' : reply'[r] = reply[r] \/ reply'[r] # "ran",
             \A d \in Conns : Open(d)' <=> Open(d)
      PROVE  CapacityReleased'
  <2> SUFFICES ASSUME NEW r \in registry' PROVE Open(reqConn[r])' /\ reply'[r] # "ran"
    BY DEF CapacityReleased
  <2>1. r \in registry /\ reqConn[r] \in Conns /\ reqConn'[r] = reqConn[r]
    BY <1>1, RegisteredFacts
  <2>2. Open(reqConn[r]) /\ reply[r] # "ran"
    BY <2>1 DEF CapacityReleased
  <2> QED BY <1>1, <2>1, <2>2 DEF Open
<1>2. CASE UNCHANGED <<registry, reqConn, reply, connState>>
  BY <1>2 DEF CapacityReleased, Open
<1>3. ASSUME NEW c \in Conns, Accept(c) \/ PeerHalfClose(c) \/ OnBadMessage(c)
      PROVE  CapacityReleased'
  <2>1. /\ UNCHANGED <<registry, reqConn, reply>>
        /\ \E s \in {"up", "closing"} : connState' = [connState EXCEPT ![c] = s]
    BY <1>3 DEF Accept, PeerHalfClose, OnBadMessage, tokenVars, reqVars, replyVars
  <2>2. \A d \in Conns : Open(d) => Open(d)'
    BY <2>1, TypeParts DEF Types, ConnTypes, Open
  <2> QED BY <2>1, <2>2, RegisteredFacts DEF CapacityReleased, Open
<1>4. ASSUME NEW c \in Conns, OnClosed(c) PROVE CapacityReleased'
  <2>1. /\ UNCHANGED <<reqConn, reply>> /\ registry' = registry \ TokensOf(c)
        /\ connState' = [connState EXCEPT ![c] = "closed"]
    BY <1>4 DEF OnClosed, CancelTokens, reqVars, replyVars
  <2>2. \A r \in registry' : r \in registry /\ reqConn[r] # c
    BY <2>1 DEF TokensOf
  <2>3. \A d \in Conns : d # c => connState'[d] = connState[d]
    BY <2>1, TypeParts DEF Types, ConnTypes
  <2> QED BY <2>1, <2>2, <2>3, RegisteredFacts DEF CapacityReleased, Open
<1>5. ASSUME NEW c \in Conns, NEW id \in RequestIds, OnCancel(c, id) PROVE CapacityReleased'
  <2>1. /\ UNCHANGED <<reqConn, reply, connState>> /\ registry' = registry \ Lookup(c, id)
    BY <1>5 DEF OnCancel, CancelTokens, reqVars, replyVars
  <2> QED BY <1>1, <2>1 DEF Open
<1>6. ASSUME NEW c \in Conns, NEW id \in RequestIds, Answer(c, id) PROVE CapacityReleased'
  <2>1. /\ UNCHANGED <<registry, reply>> /\ \A d \in Conns : Open(d)' <=> Open(d)
    BY <1>6, AnswerFacts DEF tokenVars, replyVars
  <2>2. \A r \in registry : reqConn'[r] = reqConn[r]
    BY <1>6, AnswerFacts, ReceiveFacts, RegisteredFacts
  <2>3. \A r \in registry : reqConn[r] \in Conns
    BY RegisteredFacts
  <2> QED BY <2>1, <2>2, <2>3 DEF CapacityReleased, Open
<1>7. ASSUME NEW c \in Conns, NEW id \in RequestIds, invokeAsyncHandler(c, id)
      PROVE  CapacityReleased'
  <2> DEFINE n == received + 1
  <2>1. /\ n \in Requests /\ registry' = registry \cup {n} /\ UNCHANGED connState
        /\ reqConn'[n] = c /\ Open(c) /\ reply'[n] \in {"unused", "called"}
    BY <1>7, AsyncFacts, ReceiveFacts
  <2>2. \A r \in registry : reqConn'[r] = reqConn[r] /\ reply'[r] = reply[r]
    BY <1>7, AsyncFacts, ReceiveFacts, RegisteredFacts
  <2> HIDE DEF n
  <2> QED BY <2>1, <2>2 DEF CapacityReleased, Open
<1>8. ASSUME NEW r \in Requests, HandlerStep(r) PROVE CapacityReleased'
  <2>1. /\ UNCHANGED <<registry, reqConn, connState>>
        /\ reply'[r] = "ran" => reply[r] = "ran" \/ connState[reqConn[r]] = "closed"
        /\ \A q \in Requests : q # r => reply'[q] = reply[q]
    BY <1>8, HandlerFacts DEF tokenVars, reqVars
  <2>2. \A q \in registry : q \in Requests
    BY RegisteredFacts
  <2> QED BY <2>1, <2>2 DEF CapacityReleased, Open
<1>9. ASSUME NEW r \in Requests, RunReply(r) PROVE CapacityReleased'
  <2>1. /\ registry' = registry \ Lookup(reqConn[r], reqId[r]) /\ UNCHANGED reqConn
        /\ reply' = [reply EXCEPT ![r] = "ran"] /\ \A d \in Conns : Open(d)' <=> Open(d)
    BY <1>9, RunReplyFacts DEF reqVars
  <2>2. \A q \in registry' : q \in registry /\ q # r
    BY <2>1 DEF Lookup
  <2>3. \A q \in registry' : reply'[q] = reply[q]
    BY <2>1, <2>2, TypeParts, RegisteredFacts DEF Types, ReplyTypes
  <2> QED BY <1>1, <2>1, <2>2, <2>3
<1>10. CASE Setup \/ Lifecycle \/ UNCHANGED vars
  BY <1>2, <1>10, OwnerFacts DEF vars, tokenVars, reqVars, replyVars
<1> QED BY <1>3, <1>4, <1>5, <1>6, <1>7, <1>8, <1>9, <1>10, StepCases

\* The limits are numbers.
LEMMA ConfigTypes ==
  ASSUME NEW cfg \in [maxActive : Limits \cup {0}, maxPerConn : Limits \cup {0},
                      maxQueue : Limits \cup {0}, tinyMessages : BOOLEAN, stopCallback : BOOLEAN]
  PROVE  cfg.maxActive \in Nat /\ cfg.maxPerConn \in Nat
<1>1. cfg.maxActive \in Limits \cup {0} /\ cfg.maxPerConn \in Limits \cup {0}
  OBVIOUS
<1>2. Limits \cup {0} \subseteq Nat
  OBVIOUS
<1> HIDE ServerAssumption
<1> QED BY <1>1, <1>2, Zenon

\* So is what they are compared with.
LEMMA LimitTypes ==
  ASSUME TypeOK
  PROVE  /\ config.maxActive \in Nat /\ config.maxPerConn \in Nat
         /\ Cardinality(registry) \in Nat
         /\ \A c : IsFiniteSet(TokensOf(c)) /\ Cardinality(TokensOf(c)) \in Nat
<1>1. config.maxActive \in Nat /\ config.maxPerConn \in Nat
  BY TypeParts, ConfigTypes DEF Types, NameTypes
<1>2. IsFiniteSet(registry) /\ \A c : IsFiniteSet(TokensOf(c))
  BY TokenFacts, FS_Subset
<1> QED BY <1>1, <1>2, FS_CardinalityType

\* The limits hold whichever loop a request comes in on: registerToken counts
\* what it is about to join.
LEMMA LimitsStep ==
  TypeOK /\ Arrived /\ Phases /\ Drained /\ TokenFate /\ CapacityReleased
    /\ RegistryLimits /\ [Next]_vars => RegistryLimits'
<1> SUFFICES ASSUME TypeOK, Arrived, Phases, Drained, TokenFate, CapacityReleased,
                    RegistryLimits, [Next]_vars
             PROVE  RegistryLimits'
  OBVIOUS
<1>a. TypeOK'
  BY TypeStep
<1>b. /\ config.maxActive \in Nat /\ config.maxPerConn \in Nat
      /\ Cardinality(registry) \in Nat /\ IsFiniteSet(registry)
      /\ \A c : IsFiniteSet(TokensOf(c)) /\ Cardinality(TokensOf(c)) \in Nat
  BY LimitTypes, TokenFacts
<1>c. \A r \in registry : r \in Requests /\ r # received + 1
  BY RegisteredFacts
<1>1. ASSUME UNCHANGED config, registry' \subseteq registry,
             \A r \in registry : reqConn'[r] = reqConn[r]
      PROVE  RegistryLimits'
  <2>1. Cardinality(registry') \in Nat /\ Cardinality(registry') <= Cardinality(registry)
    BY <1>b, <1>1, FS_Subset, FS_CardinalityType
  <2>2. ASSUME NEW c \in Conns
        PROVE  /\ Cardinality(TokensOf(c)') \in Nat
               /\ Cardinality(TokensOf(c)') <= Cardinality(TokensOf(c))
    <3>1. TokensOf(c)' \subseteq TokensOf(c)
      BY <1>1 DEF TokensOf
    <3> QED BY <1>b, <3>1, FS_Subset, FS_CardinalityType
  <2>3. \A c \in Conns : Cardinality(TokensOf(c))' = Cardinality(TokensOf(c)')
    OBVIOUS
  <2> QED BY <1>b, <1>1, <2>1, <2>2, <2>3 DEF RegistryLimits
<1>2. CASE Setup
  <2>1. status = "kNotStarted"
    BY <1>2 DEF Setup, setMaxActiveRequests, setMaxActiveRequestsPerConnection,
       setMaxMessageSize, setMaxWorkerQueue, setStopCompleteCallback, setWorkerThreadNum, Set,
       registerMethod, registerAsyncMethod, unregisterMethod
  <2>2. \A c \in Conns : ~Open(c)
    BY <2>1 DEF Phases, Drained, Open
  <2>3. registry = {}
    BY <2>2, RegisteredFacts DEF CapacityReleased
  <2>4. registry' = {}
    BY <1>2, <2>3, OwnerFacts DEF tokenVars
  <2>5. Cardinality(registry') = 0 /\ \A c \in Conns : Cardinality(TokensOf(c)') = 0
    BY <2>4, FS_EmptySet DEF TokensOf
  <2>6. config'.maxActive \in Nat /\ config'.maxPerConn \in Nat
    BY <1>a, TypeParts, ConfigTypes DEF Types, NameTypes
  <2> QED BY <2>5, <2>6 DEF RegistryLimits
<1>3. CASE Lifecycle
  BY <1>1, <1>3, OwnerFacts DEF Lifecycle, start, StartThrows, stop, StopThreadRuns,
     PoolStopped, onTaskPoolStopped, onTcpServerStopped, nameVars, tokenVars, reqVars
<1>4. CASE UNCHANGED vars
  BY <1>1, <1>4 DEF vars, nameVars, tokenVars, reqVars
<1>5. ASSUME NEW c \in Conns, Accept(c) \/ PeerHalfClose(c) \/ OnBadMessage(c) \/ OnClosed(c)
      PROVE  RegistryLimits'
  <2>1. UNCHANGED <<config, reqConn>> /\ registry' \subseteq registry
    BY <1>5 DEF Accept, PeerHalfClose, OnBadMessage, OnClosed, CancelTokens, nameVars,
                tokenVars, reqVars
  <2> QED BY <1>1, <2>1
<1>6. ASSUME NEW c \in Conns, NEW id \in RequestIds, OnCancel(c, id) PROVE RegistryLimits'
  BY <1>1, <1>6 DEF OnCancel, CancelTokens, nameVars, reqVars
<1>7. ASSUME NEW c \in Conns, NEW id \in RequestIds, Answer(c, id) PROVE RegistryLimits'
  <2>1. UNCHANGED <<config, registry>> /\ \A r \in registry : reqConn'[r] = reqConn[r]
    BY <1>7, <1>c, AnswerFacts, ReceiveFacts DEF nameVars, tokenVars
  <2> QED BY <1>1, <2>1
<1>8. ASSUME NEW c \in Conns, NEW id \in RequestIds, invokeAsyncHandler(c, id)
      PROVE  RegistryLimits'
  <2> DEFINE n == received + 1
  <2>1. /\ registry' = registry \cup {n} /\ reqConn'[n] = c /\ UNCHANGED config
        /\ registerToken(c, id) = "kRegistered"
        /\ \A r \in registry : reqConn'[r] = reqConn[r]
    BY <1>8, <1>c, AsyncFacts, ReceiveFacts DEF nameVars
  <2>2. /\ config.maxActive = 0 \/ Cardinality(registry) < config.maxActive
        /\ config.maxPerConn = 0 \/ Cardinality(TokensOf(c)) < config.maxPerConn
    BY <1>b, <2>1 DEF registerToken, LimitReached
  <2> HIDE DEF n
  <2>3. Cardinality(registry') \in Nat /\ Cardinality(registry') <= Cardinality(registry) + 1
    <3>1. IsFiniteSet(registry') /\ Cardinality(registry') = IF n \in registry
            THEN Cardinality(registry) ELSE Cardinality(registry) + 1
      BY <1>b, <2>1, FS_AddElement
    <3> QED BY <1>b, <3>1
  <2>4. /\ Cardinality(TokensOf(c)') \in Nat
        /\ Cardinality(TokensOf(c)') <= Cardinality(TokensOf(c)) + 1
    <3>1. TokensOf(c)' = TokensOf(c) \cup {n}
      BY <2>1 DEF TokensOf
    <3>2. Cardinality(TokensOf(c) \cup {n}) = IF n \in TokensOf(c)
            THEN Cardinality(TokensOf(c)) ELSE Cardinality(TokensOf(c)) + 1
      BY <1>b, FS_AddElement
    <3> QED BY <1>b, <3>1, <3>2
  <2>5. ASSUME NEW d \in Conns, d # c PROVE TokensOf(d)' = TokensOf(d)
    BY <2>1, <2>5 DEF TokensOf
  <2>6. config.maxActive # 0 => Cardinality(registry') <= config.maxActive
    BY <1>b, <2>2, <2>3
  <2>7. ASSUME config.maxPerConn # 0, NEW d \in Conns
        PROVE  Cardinality(TokensOf(d)') <= config.maxPerConn
    <3>1. CASE d = c
      BY <1>b, <2>2, <2>4, <2>7, <3>1
    <3>2. CASE d # c
      BY <1>b, <2>5, <2>7, <3>2 DEF RegistryLimits
    <3> QED BY <3>1, <3>2
  <2> QED BY <2>1, <2>6, <2>7 DEF RegistryLimits
<1>9. ASSUME NEW r \in Requests, HandlerStep(r) \/ RunReply(r) PROVE RegistryLimits'
  <2>1. UNCHANGED <<config, reqConn>> /\ registry' \subseteq registry
    BY <1>9, HandlerFacts, RunReplyFacts DEF nameVars, tokenVars, reqVars
  <2> QED BY <1>1, <2>1
<1> QED BY <1>2, <1>3, <1>4, <1>5, <1>6, <1>7, <1>8, <1>9, StepCases

\* Start and stop, as the server, its TcpServer, its pool and the thread that
\* stops the pool see them, keep in step; the last to stop completes.
LEMMA PhasesStep == TypeOK /\ Phases /\ [Next]_vars => Phases'
<1> SUFFICES ASSUME TypeOK, Phases, [Next]_vars PROVE Phases'
  OBVIOUS
<1>a. WordTypes /\ FlagTypes
  BY TypeParts DEF Types
<1>1. CASE UNCHANGED <<lifeVars, pool, config>>
  BY <1>1 DEF Phases, lifeVars
<1>2. CASE Setup
  <2>1. /\ status = "kNotStarted" /\ UNCHANGED lifeVars
        /\ pool' = pool \/ pool' = "idle"
    BY <1>2 DEF Setup, setMaxActiveRequests, setMaxActiveRequestsPerConnection,
       setMaxMessageSize, setMaxWorkerQueue, setStopCompleteCallback, setWorkerThreadNum, Set,
       registerMethod, registerAsyncMethod, unregisterMethod
  <2>2. tcp = "off" /\ stopThread = "none" /\ ~taskPoolStopped /\ ~tcpServerStopped
        /\ stopCallbacks = 0
    BY <2>1 DEF Phases
  <2> QED BY <2>1, <2>2 DEF Phases, lifeVars
<1>3. CASE start
  BY <1>3, <1>a DEF start, Phases, nameVars, WordTypes, FlagTypes
<1>4. CASE StartThrows
  BY <1>4, <1>a DEF StartThrows, Phases, nameVars, lifeVars, WordTypes, FlagTypes
<1>5. CASE stop
  BY <1>5, <1>a DEF stop, Phases, nameVars, WordTypes, FlagTypes
<1>6. CASE StopThreadRuns
  BY <1>6, <1>a DEF StopThreadRuns, Phases, nameVars, WordTypes, FlagTypes
<1>7. CASE PoolStopped
  BY <1>7, <1>a DEF PoolStopped, Phases, nameVars, WordTypes, FlagTypes
<1>8. CASE onTaskPoolStopped
  BY <1>8, <1>a DEF onTaskPoolStopped, tryCompleteStop, StopComplete, Phases, nameVars,
                    WordTypes, FlagTypes
<1>9. CASE onTcpServerStopped
  BY <1>9, <1>a DEF onTcpServerStopped, tryCompleteStop, StopComplete, Phases, nameVars,
                    WordTypes, FlagTypes
<1>10. CASE Network
  BY <1>1, <1>10 DEF Network, Accept, PeerHalfClose, OnBadMessage, OnClosed, OnCancel,
     invokeSyncHandler, OnUnknownMethod, RefuseAsync, invokeAsyncHandler, nameVars
<1>11. CASE Handlers
  BY <1>1, <1>11 DEF Handlers, HandlerStarts, HandlerReturns, HandlerThrows, Reply, QueueReply,
     RunReply, nameVars
<1>12. CASE UNCHANGED vars
  BY <1>1, <1>12 DEF vars, nameVars
<1> QED BY <1>2, <1>3, <1>4, <1>5, <1>6, <1>7, <1>8, <1>9, <1>10, <1>11, <1>12
  DEF Next, Lifecycle

\* Connections and tasks are gone when TcpServer and the pool say they stopped.
LEMMA DrainedStep ==
  TypeOK /\ Arrived /\ Drained /\ [Next]_vars => Drained'
<1> SUFFICES ASSUME TypeOK, Arrived, Drained, [Next]_vars PROVE Drained'
  OBVIOUS
<1>a. WordTypes /\ ConnTypes /\ ReplyTypes
  BY TypeParts DEF Types
<1>1. CASE UNCHANGED <<tcp, pool, connState, handler>>
  BY <1>1 DEF Drained, Open
<1>2. CASE Setup
  <2>1. UNCHANGED <<tcp, connState, handler>> /\ (pool' = pool \/ pool = "none")
    BY <1>2 DEF Setup, setMaxActiveRequests, setMaxActiveRequestsPerConnection,
       setMaxMessageSize, setMaxWorkerQueue, setStopCompleteCallback, setWorkerThreadNum, Set,
       registerMethod, registerAsyncMethod, unregisterMethod, lifeVars
  <2> QED BY <2>1 DEF Drained, Open
<1>3. CASE start \/ StartThrows \/ stop \/ StopThreadRuns
  <2>1. /\ UNCHANGED <<connState, handler>>
        /\ tcp' \in {tcp, "serving", "stopping"}
        /\ pool' = pool \/ pool' \in {"running", "stopping"} \/ pool = "idle"
    BY <1>3 DEF start, StartThrows, stop, StopThreadRuns, lifeVars
  <2> QED BY <2>1 DEF Drained, Open
<1>4. CASE PoolStopped
  BY <1>4 DEF PoolStopped, Drained, Open
<1>5. CASE onTaskPoolStopped
  BY <1>1, <1>5 DEF onTaskPoolStopped
<1>6. CASE onTcpServerStopped
  BY <1>6 DEF onTcpServerStopped, Drained, Open
<1>7. ASSUME NEW c \in Conns, Accept(c) \/ PeerHalfClose(c) \/ OnBadMessage(c) \/ OnClosed(c)
      PROVE  Drained'
  <2>1. /\ UNCHANGED <<tcp, pool, handler>> /\ (tcp = "serving" \/ Open(c))
        /\ \E s : connState' = [connState EXCEPT ![c] = s]
    BY <1>7 DEF Accept, PeerHalfClose, OnBadMessage, OnClosed, Open, lifeVars
  <2>2. tcp \notin {"off", "stopped"}
    BY <2>1 DEF Drained, Open
  <2> QED BY <2>1, <2>2 DEF Drained
<1>8. ASSUME NEW c \in Conns, NEW id \in RequestIds, OnCancel(c, id) PROVE Drained'
  BY <1>1, <1>8 DEF OnCancel, lifeVars
<1>9. ASSUME NEW c \in Conns, NEW id \in RequestIds, Answer(c, id) PROVE Drained'
  <2>1. /\ UNCHANGED <<tcp, pool, handler>>
        /\ \A d \in Conns : /\ Open(d)' <=> Open(d)
                            /\ connState'[d] = "absent" <=> connState[d] = "absent"
    BY <1>9, AnswerFacts DEF lifeVars
  <2> QED BY <2>1 DEF Drained
<1>10. ASSUME NEW c \in Conns, NEW id \in RequestIds, invokeAsyncHandler(c, id) PROVE Drained'
  <2> DEFINE n == received + 1
  <2>1. /\ UNCHANGED <<tcp, pool, connState>>
        /\ handler'[n] \in {"none", "queued", "returned"}
        /\ handler'[n] = "queued" => pool = "running"
        /\ \A q \in Requests : q # n => handler'[q] = handler[q]
    BY <1>10, AsyncFacts DEF lifeVars
  <2> HIDE DEF n
  <2> QED BY <2>1 DEF Drained, Open
<1>11. ASSUME NEW r \in Requests, HandlerStep(r) PROVE Drained'
  <2>1. /\ UNCHANGED <<tcp, pool, connState>>
        /\ handler'[r] \in {"queued", "running"} => handler[r] \in {"queued", "running"}
        /\ \A q \in Requests : q # r => handler'[q] = handler[q]
    BY <1>11, HandlerFacts DEF lifeVars
  <2> QED BY <2>1 DEF Drained, Open
<1>12. ASSUME NEW r \in Requests, RunReply(r) PROVE Drained'
  <2>1. /\ UNCHANGED <<tcp, pool, handler>>
        /\ \A d \in Conns : /\ Open(d)' <=> Open(d)
                            /\ connState'[d] = "absent" <=> connState[d] = "absent"
    BY <1>12, RunReplyFacts DEF lifeVars
  <2> QED BY <2>1 DEF Drained
<1>13. CASE UNCHANGED vars
  BY <1>1, <1>13 DEF vars, lifeVars
<1> QED BY <1>2, <1>3, <1>4, <1>5, <1>6, <1>7, <1>8, <1>9, <1>10, <1>11, <1>12, <1>13,
           StepCases DEF Lifecycle

\* Whoever is told that the server is full has no handler, then or later.
LEMMA RefusedStep == TypeOK /\ Arrived /\ Refused /\ [Next]_vars => Refused'
<1> SUFFICES ASSUME TypeOK, Arrived, Refused, [Next]_vars PROVE Refused'
  OBVIOUS
<1>1. CASE UNCHANGED <<handler, replyVars, response>>
  BY <1>1 DEF Refused, replyVars
<1>2. ASSUME NEW c \in Conns, NEW id \in RequestIds, Answer(c, id) PROVE Refused'
  <2> DEFINE n == received + 1
  <2>1. /\ UNCHANGED <<handler, replyCode>> /\ handler[n] = "none"
        /\ \A q \in Requests : q # n => response'[q] = response[q]
    BY <1>2, AnswerFacts, ReceiveFacts DEF replyVars, HasToken
  <2> HIDE DEF n
  <2> QED BY <2>1 DEF Refused
<1>3. ASSUME NEW c \in Conns, NEW id \in RequestIds, invokeAsyncHandler(c, id) PROVE Refused'
  <2> DEFINE n == received + 1
  <2>1. /\ UNCHANGED response /\ response[n] = "none"
        /\ replyCode'[n] = "RESOURCE_EXHAUSTED" => handler'[n] = "none"
        /\ \A q \in Requests : q # n => handler'[q] = handler[q] /\ replyCode'[q] = replyCode[q]
    BY <1>3, AsyncFacts, ReceiveFacts
  <2> HIDE DEF n
  <2> QED BY <2>1 DEF Refused
<1>4. ASSUME NEW r \in Requests, HandlerStep(r) PROVE Refused'
  <2>1. /\ UNCHANGED response /\ (handler'[r] = "none" <=> handler[r] = "none")
        /\ replyCode'[r] = "RESOURCE_EXHAUSTED" => replyCode[r] = "RESOURCE_EXHAUSTED"
        /\ \A q \in Requests : q # r => handler'[q] = handler[q] /\ replyCode'[q] = replyCode[q]
    BY <1>4, HandlerFacts
  <2> QED BY <2>1 DEF Refused
<1>5. ASSUME NEW r \in Requests, RunReply(r) PROVE Refused'
  <2>1. /\ UNCHANGED <<handler, replyCode>>
        /\ \A q \in Requests : q # r => response'[q] = response[q]
        /\ response'[r] \in {response[r], replyCode[r], "MESSAGE_TOO_LARGE"}
    BY <1>5, RunReplyFacts
  <2> QED BY <2>1 DEF Refused
<1>6. CASE \/ Setup \/ Lifecycle \/ UNCHANGED vars
           \/ \E c \in Conns : Accept(c) \/ PeerHalfClose(c) \/ OnBadMessage(c)
           \/ \E c \in Conns : OnClosed(c)
           \/ \E c \in Conns, id \in RequestIds : OnCancel(c, id)
  BY <1>1, <1>6, OwnerFacts DEF vars, Accept, PeerHalfClose, OnBadMessage, OnClosed, OnCancel
<1> QED BY <1>2, <1>3, <1>4, <1>5, <1>6, StepCases

\* A token leaves the registry before its request is answered, so whoever is
\* canceled has not been; afterwards only a request with the same id could make
\* the functor send something.
LEMMA SilentStep ==
  TypeOK /\ Arrived /\ TokenFate /\ Silent /\ [Next]_vars => Silent'
<1> SUFFICES ASSUME TypeOK, Arrived, TokenFate, Silent, [Next]_vars PROVE Silent'
  OBVIOUS
<1>a. registry \subseteq Requests /\ canceled \subseteq Requests
  BY TypeParts DEF Types, TokenTypes
<1>1. CASE UNCHANGED <<tokenVars, response>>
  BY <1>1 DEF Silent, CanceledNeverAnswered, tokenVars
<1>2. ASSUME NEW S, S \subseteq registry, CancelTokens(S), UNCHANGED response
      PROVE  Silent'
  BY <1>2 DEF Silent, CanceledNeverAnswered, CancelTokens
<1>3. ASSUME NEW c \in Conns, OnClosed(c) PROVE Silent'
  BY <1>2, <1>3, TokenFacts DEF OnClosed
<1>4. ASSUME NEW c \in Conns, NEW id \in RequestIds, OnCancel(c, id) PROVE Silent'
  BY <1>2, <1>4, TokenFacts DEF OnCancel
<1>5. ASSUME NEW c \in Conns, NEW id \in RequestIds, Answer(c, id) PROVE Silent'
  <2> DEFINE n == received + 1
  <2>1. /\ UNCHANGED <<registry, canceled>> /\ n \in Requests /\ ~HasToken(n)
        /\ \A q \in Requests : q # n => response'[q] = response[q]
    BY <1>5, AnswerFacts, ReceiveFacts DEF tokenVars
  <2> HIDE DEF n
  <2>2. n \notin registry /\ n \notin canceled
    BY <2>1 DEF TokenFate
  <2> QED BY <1>a, <2>1, <2>2 DEF Silent, CanceledNeverAnswered
<1>6. ASSUME NEW c \in Conns, NEW id \in RequestIds, invokeAsyncHandler(c, id) PROVE Silent'
  <2> DEFINE n == received + 1
  <2>1. /\ UNCHANGED <<canceled, response>> /\ response[n] = "none"
        /\ registry' = registry \cup {n}
    BY <1>6, AsyncFacts, ReceiveFacts
  <2> HIDE DEF n
  <2> QED BY <2>1 DEF Silent, CanceledNeverAnswered
<1>7. ASSUME NEW r \in Requests, HandlerStep(r) PROVE Silent'
  BY <1>1, <1>7, HandlerFacts
<1>8. ASSUME NEW r \in Requests, RunReply(r) PROVE Silent'
  <2> DEFINE S == Lookup(reqConn[r], reqId[r])
  <2>1. /\ UNCHANGED canceled /\ registry' = registry \ S
        /\ \A q \in Requests : q # r => response'[q] = response[q]
        /\ response' = response \/ S # {}
    BY <1>8, RunReplyFacts
  <2>2. \A q \in registry' : q \in registry /\ q # r
    BY <2>1 DEF Lookup
  <2>3. ASSUME UniqueIds, S # {} PROVE r \notin canceled
    <3>1. PICK q \in registry : reqConn[q] = reqConn[r] /\ reqId[q] = reqId[r]
      BY <2>3 DEF Lookup
    <3>2. q \in Requests /\ q <= received /\ q \notin canceled
      BY RegisteredFacts
    <3>3. q = r
      BY <2>3, <3>1, <3>2 DEF Arrived
    <3> QED BY <3>2, <3>3
  <2> HIDE DEF S
  <2>4. \A q \in registry' : response'[q] = "none"
    BY <1>a, <2>1, <2>2 DEF Silent
  <2>5. UniqueIds => CanceledNeverAnswered'
    BY <1>a, <2>1, <2>3 DEF Silent, CanceledNeverAnswered
  <2> QED BY <2>4, <2>5 DEF Silent
<1>9. CASE \/ Setup \/ Lifecycle \/ UNCHANGED vars
           \/ \E c \in Conns : Accept(c) \/ PeerHalfClose(c) \/ OnBadMessage(c)
  BY <1>1, <1>9, OwnerFacts DEF vars, Accept, PeerHalfClose, OnBadMessage
<1> QED BY <1>3, <1>4, <1>5, <1>6, <1>7, <1>8, <1>9, StepCases
-----------------------------------------------------------------------------
(***************************************************************************)
(* Theorems                                                                *)
(***************************************************************************)
\* The invariant is inductive.
LEMMA InvStep == ServerInv /\ [Next]_vars => ServerInv'
BY TypeStep, ArrivedStep, PhasesStep, DrainedStep, FateStep, CapacityStep, LimitsStep,
   RefusedStep, SilentStep DEF ServerInv

\* The invariant of the server and its registry, from which the others follow.
THEOREM ServerInvariant == Spec => []ServerInv
BY ServerInit, InvStep, PTL DEF Spec

\* Every variable keeps its type, and no method is registered both as a
\* synchronous and as an asynchronous one.
THEOREM TypeCorrect == Spec => []TypeOK
<1>1. ServerInv => TypeOK
  BY DEF ServerInv
<1> QED BY <1>1, ServerInvariant, PTL

\* registerToken: neither limit is ever exceeded, whatever the order in which
\* requests enter on the loops and leave by reply, cancel frame and close.
THEOREM LimitsHold == Spec => []RegistryLimits
<1>1. ServerInv => RegistryLimits
  BY DEF ServerInv
<1> QED BY <1>1, ServerInvariant, PTL

\* take, cancel and clearConnectionCancellations: exactly one of them gets a
\* token, also when a peer uses an id again and a late reply finds the new one.
THEOREM TokensHaveOneFate == Spec => []TokenFate
<1>1. ServerInv => TokenFate
  BY DEF ServerInv
<1> QED BY <1>1, ServerInvariant, PTL

\* No token outlives its connection, or the functor of its request's reply.
THEOREM CapacityIsReleased == Spec => []CapacityReleased
<1>1. ServerInv => CapacityReleased
  BY DEF ServerInv
<1> QED BY <1>1, ServerInvariant, PTL

\* A request that is answered RESOURCE_EXHAUSTED, by the registry or because the
\* worker queue is full, is not executed, neither before nor after.
THEOREM RefusedRequestsDoNotRun == Spec => []RefusedNotRun
<1>1. ServerInv => RefusedNotRun
  BY DEF ServerInv, Refused, RefusedNotRun
<1> QED BY <1>1, ServerInvariant, PTL

\* onTcpServerStopped, onTaskPoolStopped and tryCompleteStop: whichever comes
\* last completes the stop, once, and by then nothing is open, queued, running
\* or registered.
THEOREM StopCompletesOnce == Spec => []StopIsComplete
<1>1. ServerInv => StopIsComplete
  <2> SUFFICES ASSUME ServerInv PROVE StopIsComplete
    OBVIOUS
  <2>1. TypeOK /\ Arrived /\ Phases /\ Drained /\ TokenFate /\ CapacityReleased
    BY DEF ServerInv
  <2>2. ASSUME status = "kStopped"
        PROVE  /\ \A c \in Conns : ~Open(c)
               /\ \A r \in Requests : handler[r] \notin {"queued", "running"}
               /\ registry = {}
    <3>1. tcp = "stopped" /\ pool \in {"none", "stopped"}
      BY <2>1, <2>2 DEF Phases
    <3>2. /\ \A c \in Conns : ~Open(c)
          /\ \A r \in Requests : handler[r] \notin {"queued", "running"}
      BY <2>1, <3>1 DEF Drained
    <3>3. registry = {}
      BY <2>1, <3>2, RegisteredFacts DEF CapacityReleased
    <3> QED BY <3>2, <3>3
  <2>3. stopCallbacks = IF status = "kStopped" /\ config.stopCallback THEN 1 ELSE 0
    BY <2>1 DEF Phases
  <2> QED BY <2>2, <2>3 DEF StopIsComplete
<1> QED BY <1>1, ServerInvariant, PTL

\* The cancel frame and the close of the connection against a reply that is
\* under way: once they have been processed nothing is sent for the request,
\* provided that peers do not use an id again, as RpcClient does not.
THEOREM CanceledRequestsSilent ==
  ASSUME UniqueIds PROVE Spec => []CanceledNeverAnswered
<1>1. ServerInv => CanceledNeverAnswered
  BY UniqueIds DEF ServerInv, Silent
<1> QED BY <1>1, ServerInvariant, PTL
=============================================================================
