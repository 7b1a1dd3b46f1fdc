------------------------------ MODULE RpcSystem ------------------------------
(***************************************************************************)
(* An RpcClient and an RpcServer joined by TCP connections.                *)
(*                                                                         *)
(* RpcClient is checked against a peer that may answer anything, RpcServer *)
(* against clients that may send anything.  Here each is the other's peer: *)
(* every frame that one end sends is the frame the other receives, in      *)
(* order, for as long as the connection lasts.  A connection can be lost   *)
(* at any time, with what is under way on it; each end notices for itself, *)
(* and the client's next connection is another one.                        *)
(*                                                                         *)
(* The two ends use the same message limit, so neither ever receives a     *)
(* message it cannot accept (RpcExchange).  Left to the modules of the two *)
(* ends: calls from other threads and the automatic retry (the user        *)
(* connects again instead), setting up and stopping the server (a          *)
(* connection that it closes is one that is lost).                         *)
(***************************************************************************)
EXTENDS RpcClient, SequencesExt

CONSTANTS
  Conns,     \* bound: the connections that are ever opened
  Methods,   \* what the server offers
  Pools,     \* where handlers run: "none", on the loops; "running", on workers
  Limits     \* the settings of setMaxActiveRequests(), next to none

ASSUME SystemAssumption ==
  /\ "none" \notin Conns
  /\ Pools \subseteq {"none", "running"}
  /\ Limits \subseteq Nat \ {0}

VARIABLES
  link,               \* the connection the client has opened last
  opened,             \* all the client has opened
  toServer, toClient, \* the frames under way on each connection
  serverStatus, tcpServerStopped, taskPoolStopped, stopThread, stopCallbacks, config,
  tcpServer, pool, syncHandlers, asyncHandlers, connState, received, reqConn, reqId,
  registry, canceled, handler, reply, replyCode, response, takenBy

S == INSTANCE RpcServer WITH
       status <- serverStatus, tcp <- tcpServer, RequestIds <- Ids, UniqueIds <- FALSE,
       Settings <- {},
       MaxRequests <- MaxCalls * (MaxResends + 1)

channels == <<link, opened, toServer, toClient>>
serverVars ==
  <<serverStatus, tcpServerStopped, taskPoolStopped, stopThread, stopCallbacks, config,
    tcpServer, pool, syncHandlers, asyncHandlers, connState, received, reqConn, reqId,
    registry, canceled, handler, reply, replyCode, response, takenBy>>
system == <<vars, channels, serverVars>>

\* The client is new; the server has been set up with asynchronous methods and
\* has started.
SystemInit ==
  /\ Init
  /\ link = "none" /\ opened = {}
  /\ toServer = [c \in Conns |-> <<>>]
  /\ toClient = [c \in Conns |-> <<>>]
  /\ serverStatus = "kRunning" /\ tcpServer = "serving"
  /\ pool \in Pools
  /\ tcpServerStopped = FALSE /\ taskPoolStopped = FALSE
  /\ stopThread = "none" /\ stopCallbacks = 0
  /\ config \in [maxActive : Limits \cup {0}, maxPerConn : {0}, maxQueue : {0},
                 tinyMessages : {FALSE}, stopCallback : {FALSE}]
  /\ syncHandlers = {} /\ asyncHandlers = Methods
  /\ connState = [c \in Conns |-> "absent"]
  /\ received = 0
  /\ reqConn = [r \in S!Requests |-> "none"]
  /\ reqId = [r \in S!Requests |-> 0]
  /\ registry = {} /\ canceled = {}
  /\ handler = [r \in S!Requests |-> "none"]
  /\ reply = [r \in S!Requests |-> "unused"]
  /\ replyCode = [r \in S!Requests |-> "none"]
  /\ response = [r \in S!Requests |-> "none"]
  /\ takenBy = [r \in S!Requests |-> 0]
-----------------------------------------------------------------------------
(***************************************************************************)
(* The client's steps                                                      *)
(***************************************************************************)
\* The requests that a step of the client hands to the codec ...
RequestFrames == {[op |-> "request", id |-> i] : i \in {j \in Ids : sent'[j] > sent[j]}}

\* Mutant: the server is not told.
CancelFrames_None == {}

\* ... and the cancel frames: sendCancel follows the entry into
\* ignoredResponseRequests_, and sends only when connected.
CancelFrames ==
  {[op |-> "cancel", id |-> i] : i \in {j \in ignored' \ ignored : conn = "up"}}

\* checkReconnect sends in the order of an unordered_map: any.
Transmit ==
  \E frames \in SetToSeqs(RequestFrames \cup CancelFrames) :
    toServer' = [c \in Conns |-> IF c = link THEN toServer[c] \o frames ELSE toServer[c]]

\* What a step A of the client is to the rest of the system.
ClientDoes(A) ==
  /\ alive
  /\ A
  /\ Transmit
  /\ UNCHANGED <<link, opened, toClient, serverVars>>

ClientStep ==
  \/ ClientDoes(Connect) \/ ClientDoes(Disconnect) \/ ClientDoes(Call) \/ ClientDoes(Destroy)
  \/ ClientDoes(ResendWaiting) \/ ClientDoes(OnClosed) \/ ClientDoes(OnConnectionError)
  \/ ClientDoes(AfterClosed) \/ ClientDoes(clearExpiredIgnoredResponseRequests)
  \/ \E i \in Ids : \/ ClientDoes(Cancel(i)) \/ ClientDoes(onRequestTimeout(i))
                    \/ ClientDoes(onReconnectTimeout(i)) \/ ClientDoes(InvokeCallback(i))

\* A listening server completes the handshake before it accepts.
ClientConnects ==
  /\ alive
  /\ tcpServer = "serving"
  /\ Conns \ opened # {}
  /\ OnConnected
  /\ link' = CHOOSE c \in Conns : c \notin opened
  /\ opened' = opened \cup {link'}
  /\ UNCHANGED <<toServer, toClient, serverVars>>

ClientReceives ==
  /\ alive
  /\ link # "none" /\ toClient[link] # <<>>
  /\ OnResponse(Head(toClient[link]))
  /\ toClient' = [toClient EXCEPT ![link] = Tail(@)]
  /\ UNCHANGED <<link, opened, toServer, serverVars>>

\* The server has shut its direction down.
ClientHalfClose ==
  /\ alive
  /\ link # "none" /\ toClient[link] = <<>> /\ connState[link] \in {"closing", "closed"}
  /\ PeerHalfClose
  /\ UNCHANGED <<channels, serverVars>>
-----------------------------------------------------------------------------
(***************************************************************************)
(* The server's steps                                                      *)
(***************************************************************************)
\* The responses that a step of the server hands to the codec.
Respond ==
  toClient' = [c \in Conns |->
    LET answered == {r \in S!Requests : response'[r] # response[r] /\ reqConn'[r] = c}
    IN  toClient[c] \o SetToSeq({reqId'[r] : r \in answered})]

\* Neither end looks at what a result says: "RESULT" stands for every reply.
PlainReplies ==
  \A r \in S!Requests : /\ replyCode'[r] \in {"none", "RESULT"}
                        /\ response'[r] \in {"none", "RESULT", "RESOURCE_EXHAUSTED"}

\* The client's end of c is gone, or going.
ClientLeft(c) == c \in opened /\ (c # link \/ conn # "up")

ServerReceives(c) ==
  LET frame == Head(toServer[c]) IN
  /\ toServer[c] # <<>>
  /\ \/ /\ frame.op = "request"
        /\ S!invokeAsyncHandler(c, frame.id) \/ S!RefuseAsync(c, frame.id)
     \/ /\ frame.op = "cancel"
        /\ S!OnCancel(c, frame.id)
  /\ toServer' = [toServer EXCEPT ![c] = Tail(@)]
  /\ PlainReplies
  /\ Respond
  /\ UNCHANGED <<vars, link, opened>>

ServerCloses(c) ==
  /\ S!OnClosed(c)
  /\ UNCHANGED <<vars, channels>>

ServerStep ==
  /\ \/ S!Handlers
     \/ \E c \in opened : S!Accept(c)
     \/ \E c \in Conns : ClientLeft(c) /\ toServer[c] = <<>> /\ S!PeerHalfClose(c)
  /\ PlainReplies
  /\ Respond
  /\ UNCHANGED <<vars, link, opened, toServer>>

SystemNext ==
  \/ ClientStep \/ ClientConnects \/ ClientReceives \/ ClientHalfClose
  \/ ServerStep
  \/ \E c \in Conns : ServerReceives(c) \/ ServerCloses(c)

SystemSpec == SystemInit /\ [][SystemNext]_system

\* Frames that have arrived are processed, handlers of the client finish, a
\* connection that is being closed is closed, and the network lets the server
\* know of it in the end.  The client's handlers and closings need an idle
\* loop, hence SF.  Nobody has to answer, and no connection has to last.
SystemFairness ==
  /\ WF_system(ClientDoes(ResendWaiting)) /\ WF_system(ClientDoes(AfterClosed))
  /\ \A i \in Ids : WF_system(ClientDoes(InvokeCallback(i)))
  /\ SF_system(conn = "closing" /\ ClientDoes(OnClosed))
  /\ \A c \in Conns : /\ WF_system(ServerReceives(c))
                      /\ WF_system(ClientLeft(c) /\ ServerCloses(c))

FairSystem == SystemSpec /\ SystemFairness
-----------------------------------------------------------------------------
(***************************************************************************)
(* Properties                                                              *)
(***************************************************************************)
FramesOf(c, i) == {k \in DOMAIN toServer[c] : toServer[c][k] = [op |-> "request", id |-> i]}
ReceivedAs(i)  == {r \in S!Requests : reqId[r] = i}

\* A client puts each id into at most one request on a connection, resends
\* included: what the server relies on when it finds tokens by id (UniqueIds
\* of RpcServer), and why registerToken never closes the connection of an
\* RpcClient for a duplicate.
IdsUniquePerConnection ==
  \A c \in Conns, i \in Ids :
    Cardinality(FramesOf(c, i)) + Cardinality({r \in ReceivedAs(i) : reqConn[r] = c}) <= 1

\* An answer that reaches the client on its connection is for a request that
\* waits for it, or one that has been given up and is remembered as such for a
\* minute: a response that crosses a timeout or a cancel frame does not make the
\* client close the connection, unless it takes longer than that minute.
AnswersAreExpected ==
  conn = "up" =>
    \A k \in DOMAIN toClient[link] :
      toClient[link][k] \in {i \in Ids : phase[i] = "kWaitingResponse"} \cup ignored \cup expired

Executions(i) == {r \in ReceivedAs(i) : handler[r] # "none"}

\* README.md, resending: the server runs a call at most once for each time it
\* may be sent, over however many connections; one that was refused before it
\* was sent is not run at all, and one that was answered has been received.
BoundedExecution ==
  \A i \in Ids :
    /\ Cardinality(Executions(i)) <=
         1 + IF params[i].allowReconnect THEN params[i].resendLimit ELSE 0
    /\ outcome[i] \in {"CONNECTION_UNAVAILABLE", "MESSAGE_TOO_LARGE", "RESOURCE_EXHAUSTED"}
         => ReceivedAs(i) = {}
    /\ outcome[i] = "RESPONSE" => \E r \in ReceivedAs(i) : response[r] # "none"

\* README.md, request life cycle: a call that has ended at the client, by
\* timeout and cancel() too, holds no capacity of the server for long: its
\* cancel frame or the end of its connection reaches every token it has.
EndedCallsFreeTheServer ==
  \A i \in Ids : fired[i] = 1 ~> [](ReceivedAs(i) \cap registry = {})
=============================================================================
