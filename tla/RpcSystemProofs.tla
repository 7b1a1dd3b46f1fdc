-------------------------- MODULE RpcSystemProofs --------------------------
(***************************************************************************)
(* Proofs about RpcSystem: a client and a server rely on each other, and   *)
(* each keeps what the other relies on, over any number of connections.    *)
(*                                                                         *)
(* The two ends are proved correct in modules of their own.  Here their    *)
(* invariants are used, not proved again: the client's because the client  *)
(* in the composition is RpcClient, the server's through the instance U,   *)
(* in which peers never use an id twice on a connection.  That they do not *)
(* is an assumption of RpcServer and a result here.                        *)
(***************************************************************************)
EXTENDS RpcSystem, RpcClientProofs

U == INSTANCE RpcServerProofs WITH
       status <- serverStatus, tcp <- tcpServer, RequestIds <- Ids, UniqueIds <- TRUE,
       Settings <- {},
       MaxRequests <- MaxCalls * (MaxResends + 1)
-----------------------------------------------------------------------------
(***************************************************************************)
(* Queues in which some elements occur twice                               *)
(***************************************************************************)
Once(t, s)   == \A k, l \in DOMAIN s : s[k] = t /\ s[l] = t => k = l

\* Taking from the front of a queue in which other elements may occur twice.
LEMMA TailOnce ==
  ASSUME NEW Elem, NEW s \in Seq(Elem), s # <<>>
  PROVE  /\ Head(s) \in Elem /\ In(Head(s), s)
         /\ Tail(s) \in Seq(Elem)
         /\ \A t : In(t, Tail(s)) => In(t, s)
         /\ \A t : Once(t, s) => Once(t, Tail(s))
         /\ Once(Head(s), s) => ~In(Head(s), Tail(s))
<1> DEFINE u == Tail(s)
<1>1. Len(s) \in Nat \ {0} /\ u \in Seq(Elem) /\ Len(u) = Len(s) - 1
      /\ Head(s) = s[1] /\ s[1] \in Elem
      /\ \A k \in 1..Len(u) : u[k] = s[k + 1]
  OBVIOUS
<1>2. DOMAIN s = 1..Len(s) /\ DOMAIN u = 1..(Len(s) - 1)
  BY <1>1
<1> HIDE DEF u
<1>3. \A k \in DOMAIN u : k + 1 \in DOMAIN s /\ u[k] = s[k + 1] /\ k + 1 # 1 /\ k \in Nat
  BY <1>1, <1>2
<1>4. 1 \in DOMAIN s
  BY <1>1, <1>2
<1>5. \A t : In(t, u) => In(t, s)
  BY <1>3 DEF In
<1>6. ASSUME NEW t, Once(t, s) PROVE Once(t, u)
  <2> SUFFICES ASSUME NEW k \in DOMAIN u, NEW l \in DOMAIN u, u[k] = t, u[l] = t PROVE k = l
    BY DEF Once
  <2>1. k + 1 = l + 1 /\ k \in Nat /\ l \in Nat
    BY <1>3, <1>6 DEF Once
  <2> QED BY <2>1
<1>7. Once(Head(s), s) => ~In(Head(s), u)
  BY <1>1, <1>3, <1>4 DEF Once, In
<1> QED BY <1>1, <1>4, <1>5, <1>6, <1>7 DEF u, In

\* f has elements of T only, and none twice.
Lists(f, T) == \E n \in Nat : f \in [1..n -> T] /\ \A k, l \in 1..n : f[k] = f[l] => k = l

\* Adding elements of a set T at the end, in some order f.
LEMMA ConcatFacts ==
  ASSUME NEW Elem, NEW s, s \in Seq(Elem), NEW T, T \subseteq Elem, NEW f, Lists(f, T)
  PROVE  /\ s \o f \in Seq(Elem)
         /\ \A t : In(t, s \o f) => In(t, s) \/ t \in T
         /\ \A t : Once(t, s) /\ (In(t, s) => t \notin T) => Once(t, s \o f)
         /\ Distinct(s) /\ (\A t \in T : ~In(t, s)) => Distinct(s \o f)
         /\ T = {} => s \o f = s
<1> DEFINE u == s \o f
<1>0. PICK n \in Nat : f \in [1..n -> T] /\ \A k, l \in 1..n : f[k] = f[l] => k = l
  BY DEF Lists
<1>1. f \in Seq(Elem) /\ Len(f) = n
  BY <1>0
<1>2. /\ u \in Seq(Elem) /\ Len(s) \in Nat /\ DOMAIN s = 1..Len(s) /\ DOMAIN u = 1..(Len(s) + n)
      /\ \A k \in 1..Len(s) : u[k] = s[k]
      /\ \A k \in (Len(s) + 1)..(Len(s) + n) : u[k] = f[k - Len(s)]
  BY <1>0, <1>1
<1> HIDE DEF u
<1>3. \A k \in DOMAIN u : \/ k \in DOMAIN s /\ u[k] = s[k]
                          \/ k - Len(s) \in 1..n /\ u[k] = f[k - Len(s)] /\ u[k] \in T
  BY <1>0, <1>2
<1>4. \A t : In(t, u) => In(t, s) \/ t \in T
  BY <1>3 DEF In
<1>5. \A k \in DOMAIN u : k \in Nat
  BY <1>2
<1>6. ASSUME NEW t, Once(t, s), In(t, s) => t \notin T PROVE Once(t, u)
  <2> SUFFICES ASSUME NEW k \in DOMAIN u, NEW l \in DOMAIN u, u[k] = t, u[l] = t PROVE k = l
    BY DEF Once
  <2>1. CASE In(t, s)
    BY <1>3, <1>6, <2>1 DEF Once
  <2>2. CASE ~In(t, s)
    <3>1. k - Len(s) = l - Len(s)
      BY <1>0, <1>3, <2>2 DEF In
    <3> QED BY <1>2, <1>5, <3>1
  <2> QED BY <2>1, <2>2
<1>7. ASSUME Distinct(s), \A t \in T : ~In(t, s) PROVE Distinct(u)
  <2> SUFFICES ASSUME NEW k \in DOMAIN u, NEW l \in DOMAIN u, u[k] = u[l] PROVE k = l
    BY DEF Distinct
  <2>1. Once(u[k], s) /\ (In(u[k], s) => u[k] \notin T)
    BY <1>7 DEF Distinct, Once
  <2> QED BY <1>6, <2>1 DEF Once
<1>8. T = {} => u = s
  <2> SUFFICES ASSUME T = {} PROVE u = s
    OBVIOUS
  <2>1. n = 0
    <3>1. n # 0 => 1 \in 1..n
      OBVIOUS
    <3> QED BY <1>0, <3>1
  <2> QED BY <1>2, <2>1
<1> QED BY <1>2, <1>4, <1>6, <1>7, <1>8 DEF u
-----------------------------------------------------------------------------
(***************************************************************************)
(* The inductive invariant, on top of those of the two ends                *)
(***************************************************************************)
Frames     == [op : {"request", "cancel"}, id : Ids]
Request(i) == [op |-> "request", id |-> i]

\* Call i has been received on c; it has been sent on c.
Got(c, i)  == {r \in U!Requests : reqConn[r] = c /\ reqId[r] = i}
Uses(c, i) == In(Request(i), toServer[c]) \/ Got(c, i) # {}

\* What can be under way, and on which connections.
Channels ==
  /\ toServer \in [Conns -> Seq(Frames)]
  /\ toClient \in [Conns -> Seq(Ids)]
  /\ opened \subseteq Conns /\ IsFiniteSet(opened)
  /\ conn # "null" => link \in opened

\* A connection that has not been opened yet has not been used.
Fresh ==
  \A c \in Conns \ opened :
    toServer[c] = <<>> /\ toClient[c] = <<>> /\ \A r \in U!Requests : reqConn[r] # c

\* A request that has an id has arrived.
Numbered == \A r \in U!Requests : reqId[r] # 0 => reqConn[r] \in Conns

\* A request is under way once, and not received before.
Unique ==
  \A c \in Conns, i \in Ids :
    Once(Request(i), toServer[c]) /\ (In(Request(i), toServer[c]) => Got(c, i) = {})

\* A call that waits for a connection has not been sent on this one.
Parked == conn # "null" => \A i \in Ids : phase[i] = "kWaitingReconnect" => ~Uses(link, i)

\* A call has been sent once for each connection that has seen it.
Where(i) == {c \in opened : Uses(c, i)}
Counted  == \A i \in Ids : Cardinality(Where(i)) <= sent[i]

\* The client still waits for what is under way to the server, unanswered
\* there, or under way from it.
Unanswered(c, i) == \E r \in Got(c, i) : response[r] = "none"
Answered(c, i)   == \E r \in Got(c, i) : response[r] # "none"

Awaited ==
  conn # "null" => \A i \in Ids :
    \/ In(Request(i), toServer[link]) \/ Unanswered(link, i) \/ In(i, toClient[link])
    => i \in wire

\* Every answer was given, once.
Given ==
  /\ \A c \in Conns : Distinct(toClient[c])
                      /\ \A i \in Ids : In(i, toClient[c]) => Answered(c, i)
  /\ \A i \in Ids : due[i] = "RESPONSE" \/ outcome[i] = "RESPONSE" =>
       \E c \in Conns : Answered(c, i)

\* The server sends no second response for a request.
Settled == \A r \in U!Requests : response[r] # "none" => reply[r] = "ran" \/ ~U!HasToken(r)

ChannelInv == /\ Channels /\ Fresh /\ Numbered /\ Unique /\ Parked /\ Counted
              /\ Awaited /\ Given /\ Settled

SystemInv == ClientInv /\ ConnInv /\ U!ServerInv /\ ChannelInv
-----------------------------------------------------------------------------
(***************************************************************************)
(* The two ends                                                            *)
(***************************************************************************)
\* The assumptions of RpcServer hold of the instance.
LEMMA ServerAssumed ==
  /\ MaxCalls * (MaxResends + 1) \in Nat
  /\ Limits \subseteq Nat \ {0}
  /\ TRUE \in BOOLEAN
  /\ 0 \notin Ids
  /\ "none" \notin Conns
BY ClientAssumption, SystemAssumption DEF Ids

\* A step of the system is a step of the client, or none: what it receives are
\* answers to calls.
LEMMA ClientSide ==
  ASSUME Channels, [SystemNext]_system
  PROVE  [Next]_vars
<1>1. CASE ClientStep
  BY <1>1, Zenon DEF ClientStep, ClientDoes, Next, UserStep, LoopStep
<1>2. CASE ClientConnects \/ ClientHalfClose
  BY <1>2, Zenon DEF ClientConnects, ClientHalfClose, Next, LoopStep
<1>3. CASE ClientReceives
  <2>1. link \in opened
    BY <1>3 DEF ClientReceives, OnResponse, Channels
  <2>2. toClient[link] \in Seq(Ids) /\ toClient[link] # <<>>
    BY <1>3, <2>1 DEF ClientReceives, Channels
  <2>3. Head(toClient[link]) \in Ids
    BY <2>2, TailOnce, Zenon
  <2> QED BY <1>3, <2>3, Zenon DEF ClientReceives, Next, LoopStep
<1>4. CASE ServerStep
  BY <1>4, Zenon DEF ServerStep
<1>5. CASE \E c \in Conns : ServerReceives(c) \/ ServerCloses(c)
  BY <1>5, Zenon DEF ServerReceives, ServerCloses
<1>6. CASE UNCHANGED system
  BY <1>6, Zenon DEF system
<1> QED BY <1>1, <1>2, <1>3, <1>4, <1>5, <1>6, Zenon DEF SystemNext

\* The actions of RpcServer do not depend on UniqueIds, but for Receive.
LEMMA SameServer ==
  /\ S!Handlers => U!Handlers
  /\ \A c \in Conns : /\ S!Accept(c) => U!Accept(c)
                      /\ S!PeerHalfClose(c) => U!PeerHalfClose(c)
                      /\ S!OnClosed(c) => U!OnClosed(c)
  /\ \A c \in Conns, i \in Ids :
       /\ S!OnCancel(c, i) => U!OnCancel(c, i)
       /\ Got(c, i) = {} /\ S!RefuseAsync(c, i) => U!RefuseAsync(c, i)
       /\ Got(c, i) = {} /\ S!invokeAsyncHandler(c, i) => U!invokeAsyncHandler(c, i)
<1> USE DEF S!Requests, U!Requests, S!lifeVars, U!lifeVars, S!nameVars, U!nameVars, S!reqVars,
            U!reqVars, S!tokenVars, U!tokenVars, S!replyVars, U!replyVars
<1>1. S!Handlers => U!Handlers
  <2> SUFFICES ASSUME NEW r \in S!Requests,
                      \/ S!HandlerStarts(r) \/ S!HandlerReturns(r) \/ S!HandlerThrows(r)
                      \/ S!Reply(r) \/ S!QueueReply(r) \/ S!RunReply(r)
               PROVE  \/ U!HandlerStarts(r) \/ U!HandlerReturns(r) \/ U!HandlerThrows(r)
                      \/ U!Reply(r) \/ U!QueueReply(r) \/ U!RunReply(r)
    BY Zenon DEF S!Handlers, U!Handlers
  <2>1. S!HandlerStarts(r) => U!HandlerStarts(r)
    BY Zenon DEF S!HandlerStarts, U!HandlerStarts
  <2>2. S!HandlerReturns(r) => U!HandlerReturns(r)
    BY Zenon DEF S!HandlerReturns, U!HandlerReturns
  <2>3. S!HandlerThrows(r) => U!HandlerThrows(r)
    BY Zenon DEF S!HandlerThrows, U!HandlerThrows
  <2>4. S!Reply(r) => U!Reply(r)
    BY Zenon DEF S!Reply, U!Reply
  <2>5. S!QueueReply(r) => U!QueueReply(r)
    BY Zenon DEF S!QueueReply, U!QueueReply
  <2>6. S!RunReply(r) => U!RunReply(r)
    BY Zenon DEF S!RunReply, U!RunReply, S!Lookup, U!Lookup, S!take, U!take, S!MaySend,
       U!MaySend, S!sendFramedData, U!sendFramedData, S!sendResponse, U!sendResponse, S!Open,
       U!Open
  <2> QED BY <2>1, <2>2, <2>3, <2>4, <2>5, <2>6
<1>2. ASSUME NEW c \in Conns
      PROVE  /\ S!Accept(c) => U!Accept(c)
             /\ S!PeerHalfClose(c) => U!PeerHalfClose(c)
             /\ S!OnClosed(c) => U!OnClosed(c)
  BY Zenon DEF S!Accept, U!Accept, S!PeerHalfClose, U!PeerHalfClose, S!OnClosed, U!OnClosed,
     S!Open, U!Open, S!CancelTokens, U!CancelTokens, S!TokensOf, U!TokensOf
<1>3. \A T : S!Cardinality(T) = U!Cardinality(T)
  BY Zenon DEF S!Cardinality, U!Cardinality
<1>4. ASSUME NEW c \in Conns, NEW i \in Ids
      PROVE  /\ S!OnCancel(c, i) => U!OnCancel(c, i)
             /\ Got(c, i) = {} /\ S!RefuseAsync(c, i) => U!RefuseAsync(c, i)
             /\ Got(c, i) = {} /\ S!invokeAsyncHandler(c, i) => U!invokeAsyncHandler(c, i)
  <2>1. S!OnCancel(c, i) => U!OnCancel(c, i)
    BY Zenon DEF S!OnCancel, U!OnCancel, S!Open, U!Open, S!CancelTokens, U!CancelTokens,
       S!Lookup, U!Lookup
  <2>2. ASSUME Got(c, i) = {}, S!Receive(c, i) PROVE U!Receive(c, i)
    <3>1. \A r \in U!Requests : ~(reqConn[r] = c /\ reqId[r] = i)
      BY <2>2 DEF Got
    <3> QED BY <2>2, <3>1, Zenon DEF S!Receive, U!Receive, S!Open, U!Open
  <2>3. S!registerToken(c, i) = U!registerToken(c, i)
    <3>1. S!Lookup(c, i) = U!Lookup(c, i) /\ S!TokensOf(c) = U!TokensOf(c)
      BY DEF S!Lookup, U!Lookup, S!TokensOf, U!TokensOf
    <3>2. \A n, limit : S!LimitReached(n, limit) = U!LimitReached(n, limit)
      BY Zenon DEF S!LimitReached, U!LimitReached
    <3> QED BY <3>1, <3>2, <1>3, Zenon DEF S!registerToken, U!registerToken
  <2>4. Got(c, i) = {} /\ S!RefuseAsync(c, i) => U!RefuseAsync(c, i)
    BY <2>2, <2>3, Zenon DEF S!RefuseAsync, U!RefuseAsync, S!sendResponse, U!sendResponse,
       S!Open, U!Open
  <2>5. Got(c, i) = {} /\ S!invokeAsyncHandler(c, i) => U!invokeAsyncHandler(c, i)
    <3> SUFFICES ASSUME Got(c, i) = {}, S!invokeAsyncHandler(c, i)
                 PROVE  U!invokeAsyncHandler(c, i)
      OBVIOUS
    <3>1. \A n, limit : S!LimitReached(n, limit) = U!LimitReached(n, limit)
      BY Zenon DEF S!LimitReached, U!LimitReached
    <3>2. \A r, full : S!Submit(r, full) = U!Submit(r, full)
      BY Zenon DEF S!Submit, U!Submit
    <3> QED BY <1>3, <2>2, <2>3, <3>1, <3>2, Zenon DEF S!invokeAsyncHandler, U!invokeAsyncHandler
  <2> QED BY <2>1, <2>4, <2>5
<1> QED BY <1>1, <1>2, <1>4

\* What the server takes from the head of a connection: the frame was one, and
\* a request it has not received on this connection.
LEMMA ReceiveCases ==
  ASSUME Channels, Unique, NEW c \in Conns, ServerReceives(c)
  PROVE  \E i \in Ids :
           \/ /\ Head(toServer[c]) = Request(i) /\ Got(c, i) = {}
              /\ U!invokeAsyncHandler(c, i) \/ U!RefuseAsync(c, i)
           \/ Head(toServer[c]).op = "cancel" /\ U!OnCancel(c, i)
<1>1. toServer[c] \in Seq(Frames) /\ toServer[c] # <<>>
  BY DEF Channels, ServerReceives
<1>2. Head(toServer[c]) \in Frames /\ In(Head(toServer[c]), toServer[c])
  BY <1>1, TailOnce, Zenon
<1>3. PICK i \in Ids : Head(toServer[c]).id = i
  BY <1>2 DEF Frames
<1>4. CASE /\ Head(toServer[c]).op = "request"
           /\ S!invokeAsyncHandler(c, i) \/ S!RefuseAsync(c, i)
  <2>1. Head(toServer[c]) = Request(i)
    BY <1>2, <1>3, <1>4 DEF Frames, Request
  <2>2. Got(c, i) = {}
    BY <1>2, <2>1 DEF Unique
  <2> QED BY <1>4, <2>1, <2>2, SameServer
<1>5. CASE Head(toServer[c]).op = "cancel" /\ S!OnCancel(c, i)
  BY <1>5, SameServer
<1> QED BY <1>3, <1>4, <1>5, Zenon DEF ServerReceives

\* A step of the system is a step of a server whose peers use no id twice.
LEMMA ServerSide ==
  ASSUME Channels, Unique, [SystemNext]_system
  PROVE  [U!Next]_(U!vars)
<1>1. ASSUME UNCHANGED serverVars PROVE UNCHANGED U!vars
  BY <1>1, Zenon DEF serverVars, U!vars, U!lifeVars, U!nameVars, U!reqVars, U!tokenVars,
     U!replyVars
<1>2. CASE ClientStep \/ ClientConnects \/ ClientReceives \/ ClientHalfClose
  BY <1>1, <1>2, Zenon DEF ClientStep, ClientDoes, ClientConnects, ClientReceives,
     ClientHalfClose
<1>3. CASE ServerStep
  <2>1. opened \subseteq Conns
    BY DEF Channels
  <2> QED BY <1>3, <2>1, SameServer, Zenon DEF ServerStep, U!Next, U!Network
<1>4. ASSUME NEW c \in Conns, ServerReceives(c) PROVE U!Next
  BY <1>4, ReceiveCases, Zenon DEF U!Next, U!Network
<1>5. ASSUME NEW c \in Conns, ServerCloses(c) PROVE U!Next
  BY <1>5, SameServer, Zenon DEF ServerCloses, U!Next, U!Network
<1>6. CASE UNCHANGED system
  BY <1>1, <1>6, Zenon DEF system
<1> QED BY <1>2, <1>3, <1>4, <1>5, <1>6, Zenon DEF SystemNext

-----------------------------------------------------------------------------
(***************************************************************************)
(* What a step of the client does to the channels                          *)
(***************************************************************************)
\* Seen from the connection: a call is parked, or its request leaves the set of
\* those to be answered, only with the end of the connection; it is sent when
\* there is a connection, new or parked; nobody but a response gives RESPONSE.
Responded(i) == due[i] = "RESPONSE" \/ outcome[i] = "RESPONSE"

Effect(i) ==
  /\ conn' # "null" =>
       /\ i \in wire => i \in wire'
       /\ phase'[i] = "kWaitingReconnect" => phase[i] = "kWaitingReconnect"
  /\ \/ sent'[i] = sent[i]
     \/ /\ sent'[i] = sent[i] + 1 /\ conn = "up" /\ i \in wire'
        /\ sent[i] = 0 \/ phase[i] = "kWaitingReconnect"
        /\ phase'[i] # "kWaitingReconnect"
  /\ Responded(i)' => Responded(i)

LEMMA ClientEffect ==
  ASSUME ClientInv, ConnInv, ClientStep
  PROVE  /\ conn' # "null" => conn # "null"
         /\ \A i \in Ids : Effect(i)
<1> DEFINE Good == (conn' # "null" => conn # "null") /\ \A i \in Ids : Effect(i)
<1> SUFFICES Good
  OBVIOUS
<1>a. TypeOK /\ Budget /\ Placed /\ Wired
  BY DEF ClientInv, ConnInv
<1>1. CASE Connect \/ AfterClosed \/ clearExpiredIgnoredResponseRequests
  <2>1. UNCHANGED <<conn, wire, phase, sent, due, outcome>>
    BY <1>1 DEF Connect, AfterClosed, clearExpiredIgnoredResponseRequests, netVars, pendVars,
                sendVars, doneVars
  <2> QED BY <2>1 DEF Effect, Responded
<1>2. CASE \E c \in Ids : InvokeCallback(c)
  <2>1. PICK c \in Ids : InvokeCallback(c)
    BY <1>2
  <2>2. UNCHANGED <<conn, wire, phase, sent>>
    BY <2>1 DEF InvokeCallback, netVars, pendVars, sendVars
  <2>3. \A i \in Ids : Responded(i)' => Responded(i)
    BY <1>a, <2>1 DEF InvokeCallback, Responded, TypeOK
  <2> QED BY <2>2, <2>3 DEF Effect
<1>3. CASE Disconnect
  <2>1. UNCHANGED <<wire, sent, outcome>> /\ (conn' # "null" => conn # "null")
    BY <1>3 DEF Disconnect, sendVars, doneVars
  <2>2. CASE UNCHANGED <<pendVars, due>>
    BY <2>1, <2>2 DEF Effect, Responded, pendVars
  <2>3. CASE Finish(Pending, "CONNECTION_CLOSED")
    BY <2>1, <2>3, FinishFacts DEF Effect, Responded, Pending
  <2> QED BY <1>3, <2>2, <2>3 DEF Disconnect, failAllPendingRequests
<1>4. CASE Destroy
  <2>1. conn' = "null" /\ UNCHANGED <<sent, due, outcome>>
    BY <1>4 DEF Destroy, doneVars
  <2> QED BY <2>1 DEF Effect, Responded
<1>5. CASE ResendWaiting
  <2>1. checkReconnect /\ UNCHANGED <<conn, due, outcome>>
    BY <1>5 DEF ResendWaiting, netVars, doneVars
  <2> QED BY <1>a, <2>1, ResendFacts DEF Effect, Responded
<1>6. CASE OnClosed
  <2>1. conn' = "null" /\ UNCHANGED <<sent, outcome>> /\ failOnClose("CONNECTION_CLOSED")
    BY <1>6 DEF OnClosed, doneVars
  <2>2. \A i \in Ids : due'[i] = "RESPONSE" => due[i] = "RESPONSE"
    <3>1. CASE Finish(Pending, "CONNECTION_CLOSED")
      BY <3>1 DEF Finish
    <3>2. CASE failAllDisreconnectRequests("CONNECTION_CLOSED")
      BY <3>2 DEF failAllDisreconnectRequests
    <3> QED BY <2>1, <3>1, <3>2 DEF failOnClose
  <2> QED BY <2>1, <2>2 DEF Effect, Responded
<1>7. CASE OnConnectionError
  <2>1. conn' = "null" /\ UNCHANGED <<sent, outcome>>
        /\ failAllDisreconnectRequests("CONNECTION_UNAVAILABLE")
    BY <1>7 DEF OnConnectionError, sendVars, doneVars
  <2>2. \A i \in Ids : due'[i] = "RESPONSE" => due[i] = "RESPONSE"
    BY <2>1 DEF failAllDisreconnectRequests
  <2> QED BY <2>1, <2>2 DEF Effect, Responded
<1>8. ASSUME NEW c \in Ids, Enters(c) PROVE Good
  <2>1. UNCHANGED <<conn, outcome>> /\ sent[c] = 0 /\ phase[c] = "absent" /\ due[c] = "none"
    BY <1>8 DEF Enters, netVars, doneVars
  <2>2. ASSUME NEW i \in Ids, i # c PROVE Effect(i)
    BY <1>a, <1>8, <2>1, <2>2, EnterFacts DEF Effect, Responded
  <2>3. Effect(c)
    <3>1. CASE UNCHANGED <<pendVars, sendVars>> /\ due'[c] \in UnsentCodes
      BY <2>1, <3>1 DEF Effect, Responded, pendVars, sendVars, UnsentCodes
    <3>2. CASE /\ conn = "up" /\ phase'[c] = "kWaitingResponse" /\ due'[c] = "none"
               /\ c \in wire'
      <4>1. sent'[c] = 1
        BY <1>a, <1>8, <2>1, <3>2 DEF Enters, callInLoop, Reject, pendVars, TypeOK
      <4> QED BY <2>1, <3>2, <4>1 DEF Effect, Responded
    <3> QED BY <1>a, <1>8, <3>1, <3>2, EnterFacts
  <2> QED BY <2>1, <2>2, <2>3
<1>9. ASSUME NEW c \in Ids, Cancels(c) PROVE Good
  <2>1. UNCHANGED <<conn, wire, sent, outcome>>
    BY <1>9 DEF Cancels, netVars, sendVars, doneVars
  <2>2. CASE UNCHANGED <<pendVars, ignored, due>>
    BY <2>1, <2>2 DEF Effect, Responded, pendVars
  <2>3. CASE {c} \subseteq Pending /\ Finish({c}, "REQUEST_CANCELED")
    BY <2>1, <2>3, FinishFacts DEF Effect, Responded
  <2> QED BY <1>9, <2>2, <2>3, CancelFacts
<1>10. ASSUME NEW c \in Ids, onRequestTimeout(c) PROVE Good
  <2>1. UNCHANGED <<conn, wire, sent, outcome>>
    BY <1>10 DEF onRequestTimeout, netVars, sendVars, doneVars
  <2>2. \/ UNCHANGED <<phase, due>>
        \/ /\ phase' = [phase EXCEPT ![c] = "absent"]
           /\ due' = [due EXCEPT ![c] = "REQUEST_TIMEOUT"]
    BY <1>10 DEF onRequestTimeout
  <2> QED BY <1>a, <2>1, <2>2 DEF Effect, Responded, TypeOK
<1>11. ASSUME NEW c \in Ids, onReconnectTimeout(c) PROVE Good
  <2>1. UNCHANGED <<conn, wire, sent, outcome>>
    BY <1>11 DEF onReconnectTimeout, netVars, sendVars, doneVars
  <2>2. \/ UNCHANGED <<phase, due>>
        \/ /\ phase' = [phase EXCEPT ![c] = "absent"]
           /\ due' = [due EXCEPT ![c] = "RECONNECT_TIMEOUT"]
    BY <1>11 DEF onReconnectTimeout
  <2> QED BY <1>a, <2>1, <2>2 DEF Effect, Responded, TypeOK
<1>12. CASE Call
  BY <1>a, <1>8, <1>12, CallEnters
<1>13. ASSUME NEW c \in Ids, Cancel(c) PROVE Good
  <2>1. Cancels(c)
    BY <1>13 DEF Cancel, Cancels, callVars
  <2> QED BY <1>9, <2>1
<1> QED BY <1>1, <1>2, <1>3, <1>4, <1>5, <1>6, <1>7, <1>10, <1>11, <1>12,
           <1>13 DEF ClientStep, ClientDoes

\* There are finitely many frames.
LEMMA FramesFinite == \A T \in SUBSET Frames : IsFiniteSet(T)
<1> SUFFICES ASSUME NEW T \in SUBSET Frames PROVE IsFiniteSet(T)
  OBVIOUS
<1> DEFINE P == {"request", "cancel"} \X Ids
           f == [t \in T |-> <<t.op, t.id>>]
<1>1. IsFiniteSet(Ids)
  BY FS_Interval, ClientAssumption DEF Ids
<1>2. IsFiniteSet({"request", "cancel"})
  <2>1. IsFiniteSet({"request"})
    BY FS_Singleton
  <2>2. {"request", "cancel"} = {"request"} \cup {"cancel"}
    OBVIOUS
  <2> QED BY <2>1, <2>2, FS_AddElement
<1>3. IsFiniteSet(P)
  BY <1>1, <1>2, FS_Product
<1>4. f \in [T -> P]
  BY DEF Frames
<1>5. \A t, u \in T : f[t] = f[u] => t = u
  BY DEF Frames
<1>6. f \in Injection(T, P)
  BY <1>4, <1>5, Zenon DEF Injection, IsInjective
<1> QED BY <1>3, <1>6, FS_Injection

\* The frames that a step of the client adds: at the end of the connection it
\* has, in some order, and of requests those that are sent.
LEMMA TransmitFacts ==
  ASSUME Channels, ClientInv, ClientInv', ConnInv, ClientStep
  PROVE  /\ toServer' \in [Conns -> Seq(Frames)]
         /\ \A c \in Conns \ opened : toServer'[c] = toServer[c]
         /\ \A c \in Conns, i \in Ids : In(Request(i), toServer'[c]) =>
              In(Request(i), toServer[c]) \/ (c = link /\ sent'[i] = sent[i] + 1)
         /\ \A c \in Conns, i \in Ids :
              /\ Once(Request(i), toServer[c])
              /\ In(Request(i), toServer[c]) => c # link \/ sent'[i] = sent[i]
              => Once(Request(i), toServer'[c])
<1> DEFINE T == RequestFrames \cup CancelFrames
<1>1. Transmit
  BY Zenon DEF ClientStep, ClientDoes
<1>2. \A i \in Ids : sent[i] \in Nat /\ Effect(i)
  BY ClientEffect, CounterTypes DEF ClientInv
<1>3. T \subseteq Frames
  <2>1. ignored' \subseteq Ids
    BY DEF ClientInv, TypeOK
  <2> QED BY <2>1 DEF RequestFrames, CancelFrames, Frames
<1>4. \A i \in Ids : Request(i) \in T => sent'[i] = sent[i] + 1
  <2> SUFFICES ASSUME NEW i \in Ids, Request(i) \in T PROVE sent'[i] = sent[i] + 1
    OBVIOUS
  <2>1. sent'[i] > sent[i]
    BY DEF RequestFrames, CancelFrames, Request
  <2> QED BY <1>2, <2>1 DEF Effect
<1>5. T # {} => link \in opened
  <2>1. T # {} => conn = "up"
    BY <1>2 DEF RequestFrames, CancelFrames, Effect
  <2> QED BY <2>1 DEF Channels
<1>6. PICK frames \in SetToSeqs(T) :
        toServer' = [c \in Conns |-> IF c = link THEN toServer[c] \o frames ELSE toServer[c]]
  BY <1>1 DEF Transmit
<1> DEFINE n == Cardinality(T)
<1>7. n \in Nat
  BY <1>3, FramesFinite, FS_CardinalityType
<1>8. Lists(frames, T)
  <2>1. frames \in [1..n -> T] /\ \A k, l \in 1..n : frames[k] = frames[l] => k = l
    BY <1>6 DEF SetToSeqs
  <2> QED BY <1>7, <2>1 DEF Lists
<1> HIDE DEF T, n
<1>9. ASSUME NEW c \in Conns
      PROVE  /\ toServer'[c] \in Seq(Frames)
             /\ c # link \/ T = {} => toServer'[c] = toServer[c]
             /\ \A t : In(t, toServer'[c]) => In(t, toServer[c]) \/ (c = link /\ t \in T)
             /\ \A t : Once(t, toServer[c]) /\ (In(t, toServer[c]) => c # link \/ t \notin T)
                       => Once(t, toServer'[c])
  <2>1. toServer[c] \in Seq(Frames)
    BY DEF Channels
  <2>2. CASE c = link
    <3>1. toServer'[c] = toServer[c] \o frames
      BY <1>6, <2>2
    <3>2. /\ toServer[c] \o frames \in Seq(Frames)
          /\ \A t : In(t, toServer[c] \o frames) => In(t, toServer[c]) \/ t \in T
          /\ \A t : Once(t, toServer[c]) /\ (In(t, toServer[c]) => t \notin T)
                    => Once(t, toServer[c] \o frames)
          /\ T = {} => toServer[c] \o frames = toServer[c]
      BY <1>3, <1>8, <2>1, ConcatFacts, Zenon
    <3> QED BY <2>2, <3>1, <3>2
  <2>3. CASE c # link
    BY <1>6, <2>1, <2>3
  <2> QED BY <2>2, <2>3
<1>10. toServer' \in [Conns -> Seq(Frames)]
  BY <1>6, <1>9
<1>11. \A c \in Conns \ opened : toServer'[c] = toServer[c]
  BY <1>5, <1>9
<1>12. \A c \in Conns, i \in Ids : In(Request(i), toServer'[c]) =>
         In(Request(i), toServer[c]) \/ (c = link /\ sent'[i] = sent[i] + 1)
  BY <1>4, <1>9
<1>13. ASSUME NEW c \in Conns, NEW i \in Ids, Once(Request(i), toServer[c]),
              In(Request(i), toServer[c]) => c # link \/ sent'[i] = sent[i]
       PROVE  Once(Request(i), toServer'[c])
  <2>1. In(Request(i), toServer[c]) => c # link \/ Request(i) \notin T
    BY <1>2, <1>4, <1>13
  <2> QED BY <1>9, <1>13, <2>1
<1> QED BY <1>10, <1>11, <1>12, <1>13

\* SetToSeq lists the elements of a finite set.
LEMMA Listed ==
  ASSUME NEW T, IsFiniteSet(T)
  PROVE  Lists(SetToSeq(T), T)
<1>1. Cardinality(T) \in Nat /\ ExistsBijection(1..Cardinality(T), T)
  BY FS_CardinalityType
<1>2. PICK f \in [1..Cardinality(T) -> T] : IsInjective(f)
  BY <1>1 DEF ExistsBijection, Bijection, Injection
<1>3. SetToSeq(T) \in [1..Cardinality(T) -> T] /\ IsInjective(SetToSeq(T))
  BY <1>2 DEF SetToSeq
<1>4. \A k, l \in 1..Cardinality(T) : SetToSeq(T)[k] = SetToSeq(T)[l] => k = l
  BY <1>3 DEF IsInjective
<1> QED BY <1>1, <1>3, <1>4 DEF Lists

\* The step answers a request for call i on connection c.
NowAnswered(c, i) ==
  \E r \in U!Requests : response'[r] # response[r] /\ reqConn'[r] = c /\ reqId'[r] = i

\* The frames that a step of the server adds.
LEMMA RespondFacts ==
  ASSUME Channels, U!ServerInv', Respond \/ UNCHANGED toClient
  PROVE  /\ toClient' \in [Conns -> Seq(Ids)]
         /\ \A c \in Conns, i \in Ids :
              In(i, toClient'[c]) => In(i, toClient[c]) \/ NowAnswered(c, i)
         /\ \A c \in Conns :
              Distinct(toClient[c]) /\ (\A i \in Ids : NowAnswered(c, i) => ~In(i, toClient[c]))
              => Distinct(toClient'[c])
         /\ \A c \in Conns : (\A i \in Ids : ~NowAnswered(c, i)) => toClient'[c] = toClient[c]
<1>0. CASE UNCHANGED toClient
  BY <1>0 DEF Channels
<1> SUFFICES ASSUME Respond
             PROVE  /\ toClient' \in [Conns -> Seq(Ids)]
                    /\ \A c \in Conns, i \in Ids :
                         In(i, toClient'[c]) => In(i, toClient[c]) \/ NowAnswered(c, i)
                    /\ \A c \in Conns :
                         /\ Distinct(toClient[c])
                         /\ \A i \in Ids : NowAnswered(c, i) => ~In(i, toClient[c])
                         => Distinct(toClient'[c])
                    /\ \A c \in Conns :
                         (\A i \in Ids : ~NowAnswered(c, i)) => toClient'[c] = toClient[c]
  BY <1>0
<1> DEFINE T(c) == {reqId'[r] : r \in {q \in U!Requests : response'[q] # response[q]
                                                          /\ reqConn'[q] = c}}
<1>1. toClient' = [c \in Conns |-> toClient[c] \o SetToSeq(T(c))]
  BY DEF Respond, S!Requests, U!Requests
<1>2. \A c, i : i \in T(c) <=> NowAnswered(c, i)
  BY DEF NowAnswered
<1>3. \A c \in Conns : T(c) \subseteq Ids
  <2>1. \A r \in U!Requests : reqConn'[r] \in Conns => reqId'[r] \in Ids
    <3>1. U!TypeOK' /\ U!Arrived'
      BY Zenon DEF U!ServerInv
    <3>2. \A r \in U!Requests : r \in Nat
      BY DEF U!Requests
    <3>3. received' \in Nat
      BY <3>1 DEF U!TypeOK
    <3>4. /\ \A r \in U!Requests : r <= received' => reqId'[r] \in Ids
          /\ \A r \in U!Requests : r > received' => reqConn'[r] = "none"
      BY <3>1 DEF U!Arrived
    <3> QED BY <3>2, <3>3, <3>4, SystemAssumption
  <2> QED BY <2>1
<1> HIDE DEF T
<1>4. ASSUME NEW c \in Conns
      PROVE  /\ toClient'[c] \in Seq(Ids)
             /\ \A t : In(t, toClient'[c]) => In(t, toClient[c]) \/ t \in T(c)
             /\ Distinct(toClient[c]) /\ (\A t \in T(c) : ~In(t, toClient[c]))
                => Distinct(toClient'[c])
             /\ T(c) = {} => toClient'[c] = toClient[c]
  <2>1. toClient[c] \in Seq(Ids)
    BY DEF Channels
  <2>2. IsFiniteSet(T(c))
    <3>1. IsFiniteSet(Ids)
      BY FS_Interval, ClientAssumption DEF Ids
    <3> QED BY <1>3, <3>1, FS_Subset
  <2> DEFINE f == SetToSeq(T(c))
  <2>3. Lists(f, T(c))
    BY <2>2, Listed
  <2>4. toClient'[c] = toClient[c] \o f
    BY <1>1
  <2> HIDE DEF f
  <2>5. /\ toClient[c] \o f \in Seq(Ids)
        /\ \A t : In(t, toClient[c] \o f) => In(t, toClient[c]) \/ t \in T(c)
        /\ Distinct(toClient[c]) /\ (\A t \in T(c) : ~In(t, toClient[c]))
           => Distinct(toClient[c] \o f)
        /\ T(c) = {} => toClient[c] \o f = toClient[c]
    BY <1>3, <2>1, <2>3, ConcatFacts, Zenon
  <2> QED BY <2>4, <2>5
<1>5. toClient' \in [Conns -> Seq(Ids)]
  BY <1>1, <1>4
<1>6. \A c \in Conns : T(c) \subseteq Ids /\ \A i \in Ids : i \in T(c) <=> NowAnswered(c, i)
  BY <1>2, <1>3
<1>7. \A c \in Conns : (\A i \in Ids : ~NowAnswered(c, i)) => T(c) = {}
  BY <1>6
<1> QED BY <1>4, <1>5, <1>6, <1>7

-----------------------------------------------------------------------------
(***************************************************************************)
(* What a step of the server does to the channels                          *)
(***************************************************************************)
\* A response is the first one for its request.
FirstResponses == \A r \in U!Requests : response'[r] # response[r] => response[r] = "none"

\* The steps that receive no request.
LEMMA QuietServer ==
  ASSUME U!ServerInv, Settled,
         \/ U!Handlers
         \/ \E c \in Conns : \/ U!Accept(c) \/ U!PeerHalfClose(c) \/ U!OnClosed(c)
                             \/ \E i \in Ids : U!OnCancel(c, i)
  PROVE  UNCHANGED <<reqConn, reqId>> /\ FirstResponses /\ Settled'
<1>a. U!TypeOK /\ U!Arrived
  BY Zenon DEF U!ServerInv
<1>b. /\ handler \in [U!Requests -> {"none", "queued", "running", "returned"}]
      /\ reply \in [U!Requests -> {"unused", "called", "queued", "ran"}]
  BY <1>a DEF U!TypeOK
<1>1. CASE UNCHANGED <<reqConn, reqId, response, handler, reply>>
  BY <1>1 DEF FirstResponses, Settled, U!HasToken
<1>2. ASSUME NEW c \in Conns,
             \/ U!Accept(c) \/ U!PeerHalfClose(c) \/ U!OnClosed(c)
             \/ \E i \in Ids : U!OnCancel(c, i)
      PROVE  UNCHANGED <<reqConn, reqId, response, handler, reply>>
  BY <1>2, Zenon DEF U!Accept, U!PeerHalfClose, U!OnClosed, U!OnCancel, U!reqVars, U!replyVars
<1>3. ASSUME NEW r \in U!Requests, U!HandlerStep(r)
      PROVE  UNCHANGED <<reqConn, reqId>> /\ FirstResponses /\ Settled'
  <2>1. /\ U!HasToken(r) /\ U!HasToken(r)'
        /\ \A q \in U!Requests : q # r => handler'[q] = handler[q] /\ reply'[q] = reply[q]
        /\ UNCHANGED <<U!reqVars, response>>
    BY <1>a, <1>3, U!HandlerFacts, ServerAssumed
  <2>2. reply[r] = "ran" => reply'[r] = "ran"
    BY <1>b, <1>3 DEF U!HandlerStep, U!HandlerStarts, U!HandlerReturns, U!HandlerThrows,
       U!Reply, U!QueueReply, U!replyVars
  <2>3. UNCHANGED <<reqConn, reqId, response>>
    BY <2>1 DEF U!reqVars
  <2> QED BY <2>1, <2>2, <2>3 DEF FirstResponses, Settled, U!HasToken
<1>4. ASSUME NEW r \in U!Requests, U!RunReply(r)
      PROVE  UNCHANGED <<reqConn, reqId>> /\ FirstResponses /\ Settled'
  <2>1. /\ reply[r] = "queued" /\ reply' = [reply EXCEPT ![r] = "ran"]
        /\ \A q \in U!Requests : q # r => response'[q] = response[q]
        /\ UNCHANGED <<U!reqVars, handler>>
    BY <1>a, <1>4, U!RunReplyFacts, ServerAssumed
  <2>2. response[r] = "none"
    BY <2>1 DEF Settled, U!HasToken
  <2>3. UNCHANGED <<reqConn, reqId, handler>>
    BY <2>1 DEF U!reqVars
  <2> QED BY <1>b, <2>1, <2>2, <2>3 DEF FirstResponses, Settled, U!HasToken
<1> QED BY <1>1, <1>2, <1>3, <1>4, Zenon DEF U!Handlers, U!HandlerStep

\* The steps that receive a request: it is new, and so is its response.
LEMMA RequestReceived ==
  ASSUME U!ServerInv, Settled, NEW c \in Conns, NEW i \in Ids,
         U!invokeAsyncHandler(c, i) \/ U!RefuseAsync(c, i)
  PROVE  /\ FirstResponses /\ Settled'
         /\ \E n \in U!Requests :
              /\ reqConn'[n] = c /\ reqId'[n] = i /\ response[n] = "none"
              /\ reqConn[n] = "none"
              /\ \A r \in U!Requests : r # n =>
                   /\ reqConn'[r] = reqConn[r] /\ reqId'[r] = reqId[r]
                   /\ response'[r] = response[r]
<1> DEFINE n == received + 1
<1>a. U!TypeOK /\ U!Arrived
  BY Zenon DEF U!ServerInv
<1>b. n \in U!Requests => reqConn[n] = "none"
  <2>1. received \in Nat
    BY <1>a DEF U!TypeOK
  <2> QED BY <1>a, <2>1 DEF U!Arrived
<1>1. CASE U!invokeAsyncHandler(c, i)
  <2>1. /\ U!Receive(c, i)
        /\ \A q \in U!Requests : q # n => handler'[q] = handler[q] /\ reply'[q] = reply[q]
        /\ UNCHANGED response
    BY <1>a, <1>1, U!AsyncFacts, ServerAssumed
  <2>2. /\ n \in U!Requests /\ reqConn'[n] = c /\ reqId'[n] = i /\ response[n] = "none"
        /\ \A r \in U!Requests : r # n => reqConn'[r] = reqConn[r] /\ reqId'[r] = reqId[r]
    BY <1>a, <2>1, U!ReceiveFacts, ServerAssumed
  <2> HIDE DEF n
  <2>3. FirstResponses /\ Settled'
    BY <2>1, <2>2 DEF FirstResponses, Settled, U!HasToken
  <2> QED BY <1>b, <2>1, <2>2, <2>3
<1>2. CASE U!RefuseAsync(c, i)
  <2>1. /\ U!Receive(c, i)
        /\ \A q \in U!Requests : q # n => response'[q] = response[q]
        /\ UNCHANGED <<handler, U!replyVars>>
    <3>1. U!Answer(c, i)
      BY <1>2, Zenon DEF U!Answer
    <3> QED BY <1>a, <3>1, U!AnswerFacts, ServerAssumed
  <2>2. /\ n \in U!Requests /\ reqConn'[n] = c /\ reqId'[n] = i /\ response[n] = "none"
        /\ ~U!HasToken(n)
        /\ \A r \in U!Requests : r # n => reqConn'[r] = reqConn[r] /\ reqId'[r] = reqId[r]
    BY <1>a, <2>1, U!ReceiveFacts, ServerAssumed
  <2>3. UNCHANGED <<handler, reply>>
    BY <2>1 DEF U!replyVars
  <2> HIDE DEF n
  <2>4. FirstResponses /\ Settled'
    BY <2>1, <2>2, <2>3 DEF FirstResponses, Settled, U!HasToken
  <2> QED BY <1>b, <2>1, <2>2, <2>4
<1> QED BY <1>1, <1>2

ServerActs == ServerStep \/ \E c \in Conns : ServerReceives(c) \/ ServerCloses(c)

\* The step takes the request for call i from connection c.
Arrives(c, i) ==
  /\ In(Request(i), toServer[c]) /\ ~In(Request(i), toServer'[c])
  /\ Got(c, i) = {} /\ \A r \in Got(c, i)' : response[r] = "none"

\* Seen from the client's end: requests leave their connection in order, each
\* when it is received, and are answered once.
LEMMA ServerEffect ==
  ASSUME Channels, Unique, Settled, U!ServerInv, ServerActs
  PROVE  /\ UNCHANGED <<vars, link, opened>>
         /\ Respond \/ UNCHANGED toClient
         /\ FirstResponses /\ Settled'
         /\ toServer' \in [Conns -> Seq(Frames)]
         /\ \A c \in Conns : /\ toServer[c] = <<>> => toServer'[c] = <<>>
                             /\ \A t : In(t, toServer'[c]) => In(t, toServer[c])
                             /\ \A t : Once(t, toServer[c]) => Once(t, toServer'[c])
         /\ \A r \in U!Requests :
              \/ reqConn'[r] = reqConn[r] /\ reqId'[r] = reqId[r]
              \/ reqConn'[r] \in Conns /\ toServer[reqConn'[r]] # <<>>
         /\ \A c \in Conns, i \in Ids : Got(c, i)' = Got(c, i) \/ Arrives(c, i)
<1>a. opened \subseteq Conns /\ toServer \in [Conns -> Seq(Frames)]
  BY DEF Channels
<1>1. CASE ServerStep \/ \E c \in Conns : ServerCloses(c)
  <2>1. /\ UNCHANGED <<vars, link, opened, toServer>>
        /\ Respond \/ UNCHANGED toClient
    BY <1>1, Zenon DEF ServerStep, ServerCloses, channels
  <2>2. \/ U!Handlers
        \/ \E c \in Conns : U!Accept(c) \/ U!PeerHalfClose(c) \/ U!OnClosed(c)
    BY <1>1, <1>a, SameServer, Zenon DEF ServerStep, ServerCloses
  <2>3. UNCHANGED <<reqConn, reqId>> /\ FirstResponses /\ Settled'
    BY <2>2, QuietServer, Zenon
  <2>4. \A c \in Conns, i \in Ids : Got(c, i)' = Got(c, i)
    BY <2>3 DEF Got
  <2> QED BY <1>a, <2>1, <2>3, <2>4
<1>2. ASSUME NEW c \in Conns, ServerReceives(c)
      PROVE  /\ UNCHANGED <<vars, link, opened>>
             /\ Respond \/ UNCHANGED toClient
             /\ FirstResponses /\ Settled'
             /\ toServer' \in [Conns -> Seq(Frames)]
             /\ \A d \in Conns : /\ toServer[d] = <<>> => toServer'[d] = <<>>
                                 /\ \A t : In(t, toServer'[d]) => In(t, toServer[d])
                                 /\ \A t : Once(t, toServer[d]) => Once(t, toServer'[d])
             /\ \A r \in U!Requests :
                  \/ reqConn'[r] = reqConn[r] /\ reqId'[r] = reqId[r]
                  \/ reqConn'[r] \in Conns /\ toServer[reqConn'[r]] # <<>>
             /\ \A d \in Conns, i \in Ids : Got(d, i)' = Got(d, i) \/ Arrives(d, i)
  <2> DEFINE s == toServer[c]
  <2>1. /\ UNCHANGED <<vars, link, opened>> /\ Respond
        /\ s # <<>>
        /\ toServer' = [toServer EXCEPT ![c] = Tail(s)]
    BY <1>2, Zenon DEF ServerReceives
  <2>2. s \in Seq(Frames)
    BY <1>a
  <2>3. /\ In(Head(s), s) /\ Tail(s) \in Seq(Frames)
        /\ \A t : In(t, Tail(s)) => In(t, s)
        /\ \A t : Once(t, s) => Once(t, Tail(s))
        /\ Once(Head(s), s) => ~In(Head(s), Tail(s))
    BY <2>1, <2>2, TailOnce, Zenon
  <2>4. /\ toServer' \in [Conns -> Seq(Frames)]
        /\ toServer'[c] = Tail(s) /\ \A d \in Conns \ {c} : toServer'[d] = toServer[d]
    BY <1>a, <2>1, <2>3
  <2>5. \A d \in Conns : /\ toServer[d] = <<>> => toServer'[d] = <<>>
                         /\ \A t : In(t, toServer'[d]) => In(t, toServer[d])
                         /\ \A t : Once(t, toServer[d]) => Once(t, toServer'[d])
    BY <2>1, <2>3, <2>4
  <2>6. ASSUME NEW i \in Ids, Head(s) = Request(i), Got(c, i) = {},
               U!invokeAsyncHandler(c, i) \/ U!RefuseAsync(c, i)
        PROVE  /\ FirstResponses /\ Settled'
               /\ \A r \in U!Requests :
                    \/ reqConn'[r] = reqConn[r] /\ reqId'[r] = reqId[r]
                    \/ reqConn'[r] \in Conns /\ toServer[reqConn'[r]] # <<>>
               /\ \A d \in Conns, j \in Ids : Got(d, j)' = Got(d, j) \/ Arrives(d, j)
    <3>1. FirstResponses /\ Settled'
      BY <2>6, RequestReceived
    <3>2. PICK n \in U!Requests :
              /\ reqConn'[n] = c /\ reqId'[n] = i /\ response[n] = "none"
              /\ reqConn[n] = "none"
              /\ \A r \in U!Requests : r # n => reqConn'[r] = reqConn[r] /\ reqId'[r] = reqId[r]
      BY <2>6, RequestReceived
    <3>3. \A r \in U!Requests : \/ reqConn'[r] = reqConn[r] /\ reqId'[r] = reqId[r]
                                \/ reqConn'[r] \in Conns /\ toServer[reqConn'[r]] # <<>>
      BY <2>1, <3>2
    <3>4. \A d \in Conns : d # "none"
      BY SystemAssumption
    <3>5. ASSUME NEW d \in Conns, NEW j \in Ids, d # c \/ j # i PROVE Got(d, j)' = Got(d, j)
      BY <3>2, <3>4, <3>5 DEF Got
    <3>6. Arrives(c, i)
      <4>1. Once(Request(i), s)
        BY DEF Unique
      <4>2. In(Request(i), toServer[c]) /\ ~In(Request(i), toServer'[c])
        BY <2>3, <2>4, <2>6, <4>1
      <4>3. \A r \in Got(c, i)' : r = n
        BY <2>6, <3>2 DEF Got
      <4> QED BY <2>6, <3>2, <4>2, <4>3 DEF Arrives
    <3> QED BY <3>1, <3>3, <3>5, <3>6
  <2>7. ASSUME NEW i \in Ids, U!OnCancel(c, i)
        PROVE  UNCHANGED <<reqConn, reqId>> /\ FirstResponses /\ Settled'
    BY <2>7, QuietServer, Zenon
  <2>8. UNCHANGED <<reqConn, reqId>> => \A d \in Conns, j \in Ids : Got(d, j)' = Got(d, j)
    BY DEF Got
  <2>9. \E i \in Ids : \/ /\ Head(s) = Request(i) /\ Got(c, i) = {}
                          /\ U!invokeAsyncHandler(c, i) \/ U!RefuseAsync(c, i)
                       \/ U!OnCancel(c, i)
    BY <1>2, ReceiveCases, Zenon
  <2> HIDE DEF s
  <2> QED BY <2>1, <2>4, <2>5, <2>6, <2>7, <2>8, <2>9
<1> QED BY <1>1, <1>2 DEF ServerActs

-----------------------------------------------------------------------------
(***************************************************************************)
(* ChannelInv is inductive                                                 *)
(***************************************************************************)
\* A call is received on a connection once.
LEMMA GotOnce ==
  ASSUME U!ServerInv, NEW c \in Conns, NEW i \in Ids
  PROVE  /\ \A q, r \in Got(c, i) : q = r
         /\ Answered(c, i) => ~Unanswered(c, i)
<1>1. U!TypeOK /\ U!Arrived
  BY Zenon DEF U!ServerInv
<1>2. received \in Nat /\ \A r \in U!Requests : r \in Nat
  BY <1>1 DEF U!TypeOK, U!Requests
<1>3. \A r \in U!Requests : reqConn[r] = c => r <= received
  BY <1>1, <1>2, SystemAssumption DEF U!Arrived
<1>4. \A q, r \in U!Requests :
        q <= received /\ reqConn[q] = reqConn[r] /\ reqId[q] = reqId[r] => q = r
  BY <1>1 DEF U!Arrived
<1>5. \A q, r \in Got(c, i) : q = r
  BY <1>3, <1>4 DEF Got
<1> QED BY <1>5 DEF Answered, Unanswered

\* Fewer connections that have seen a call are no more.
LEMMA FewerCounted ==
  ASSUME NEW i \in Ids, ClientInv, IsFiniteSet(opened), Where(i)' \subseteq Where(i),
         Cardinality(Where(i)) <= sent[i], sent'[i] = sent[i]
  PROVE  Cardinality(Where(i)') <= sent'[i]
<1>1. IsFiniteSet(Where(i)) /\ sent[i] \in Nat
  <2>1. sent[i] \in Nat
    BY CounterTypes DEF ClientInv
  <2> QED BY <2>1, FS_Subset DEF Where
<1>2. /\ IsFiniteSet(Where(i)') /\ Cardinality(Where(i)') <= Cardinality(Where(i))
      /\ Cardinality(Where(i)) \in Nat /\ Cardinality(Where(i)') \in Nat
  BY <1>1, FS_Subset, FS_CardinalityType
<1> QED BY <1>1, <1>2

LEMMA ServerKeeps ==
  ASSUME ClientInv, ChannelInv, U!ServerInv, U!ServerInv', ServerActs
  PROVE  ChannelInv'
<1>a. /\ Channels /\ Fresh /\ Numbered /\ Unique /\ Parked /\ Counted
      /\ Awaited /\ Given /\ Settled
  BY DEF ChannelInv
<1>b. /\ UNCHANGED <<vars, link, opened>>
      /\ Respond \/ UNCHANGED toClient
      /\ FirstResponses /\ Settled'
      /\ toServer' \in [Conns -> Seq(Frames)]
      /\ \A c \in Conns : /\ toServer[c] = <<>> => toServer'[c] = <<>>
                          /\ \A t : In(t, toServer'[c]) => In(t, toServer[c])
                          /\ \A t : Once(t, toServer[c]) => Once(t, toServer'[c])
      /\ \A r \in U!Requests : \/ reqConn'[r] = reqConn[r] /\ reqId'[r] = reqId[r]
                               \/ reqConn'[r] \in Conns /\ toServer[reqConn'[r]] # <<>>
      /\ \A c \in Conns, i \in Ids : Got(c, i)' = Got(c, i) \/ Arrives(c, i)
  BY <1>a, ServerEffect
<1>c. /\ toClient' \in [Conns -> Seq(Ids)]
      /\ \A c \in Conns, i \in Ids :
           In(i, toClient'[c]) => In(i, toClient[c]) \/ NowAnswered(c, i)
      /\ \A c \in Conns :
           Distinct(toClient[c]) /\ (\A i \in Ids : NowAnswered(c, i) => ~In(i, toClient[c]))
           => Distinct(toClient'[c])
      /\ \A c \in Conns : (\A i \in Ids : ~NowAnswered(c, i)) => toClient'[c] = toClient[c]
  BY <1>a, <1>b, RespondFacts
<1>d. UNCHANGED <<conn, link, opened, wire, phase, sent, due, outcome>>
  BY <1>b DEF vars, netVars, pendVars, sendVars, doneVars
<1>e. conn # "null" => link \in Conns
  BY <1>a DEF Channels
<1>f. \A c \in Conns, i \in Ids : NowAnswered(c, i) =>
        \E r \in Got(c, i)' : response[r] = "none" /\ response'[r] # "none"
  BY <1>b DEF NowAnswered, Got, FirstResponses
<1>g. \A c \in Conns, i \in Ids : NowAnswered(c, i) => Arrives(c, i) \/ Unanswered(c, i)
  BY <1>b, <1>f DEF Unanswered
<1>h. \A c \in Conns, i \in Ids : Unanswered(c, i)' => Arrives(c, i) \/ Unanswered(c, i)
  <2> SUFFICES ASSUME NEW c \in Conns, NEW i \in Ids, Got(c, i)' = Got(c, i), Unanswered(c, i)'
               PROVE  Unanswered(c, i)
    BY <1>b
  <2>1. PICK r \in Got(c, i) : response'[r] = "none"
    BY DEF Unanswered
  <2>2. response[r] = "none"
    BY <1>b, <2>1 DEF FirstResponses, Got
  <2> QED BY <2>1, <2>2 DEF Unanswered
<1>i. \A c \in Conns, i \in Ids : Answered(c, i) => Answered(c, i)'
  <2> SUFFICES ASSUME NEW c \in Conns, NEW i \in Ids, Answered(c, i) PROVE Answered(c, i)'
    OBVIOUS
  <2>1. PICK r \in Got(c, i) : response[r] # "none"
    BY DEF Answered
  <2>2. r \in Got(c, i)'
    BY <1>b, <2>1 DEF Arrives
  <2>3. response'[r] # "none"
    BY <1>b, <2>1 DEF FirstResponses, Got
  <2> QED BY <2>2, <2>3 DEF Answered
<1>j. \A c \in Conns, i \in Ids : Uses(c, i)' => Uses(c, i)
  BY <1>b DEF Uses, Arrives
<1>1. Channels'
  BY <1>a, <1>b, <1>c, <1>d DEF Channels
<1>2. Fresh'
  <2> SUFFICES ASSUME NEW c \in Conns \ opened
               PROVE  /\ toServer'[c] = <<>> /\ toClient'[c] = <<>>
                      /\ \A r \in U!Requests : reqConn'[r] # c
    BY <1>d DEF Fresh, U!Requests
  <2>1. toServer[c] = <<>> /\ toClient[c] = <<>> /\ \A r \in U!Requests : reqConn[r] # c
    BY <1>a DEF Fresh
  <2>2. \A r \in U!Requests : reqConn'[r] # c
    BY <1>b, <2>1
  <2>3. \A i \in Ids : ~NowAnswered(c, i)
    BY <2>2 DEF NowAnswered
  <2> QED BY <1>b, <1>c, <2>1, <2>2, <2>3
<1>3. Unique'
  <2> SUFFICES ASSUME NEW c \in Conns, NEW i \in Ids
               PROVE  /\ Once(Request(i), toServer'[c])
                      /\ In(Request(i), toServer'[c]) => Got(c, i)' = {}
    BY DEF Unique, Request
  <2>1. Once(Request(i), toServer[c]) /\ (In(Request(i), toServer[c]) => Got(c, i) = {})
    BY <1>a DEF Unique
  <2> QED BY <1>b, <2>1 DEF Arrives
<1>4. Parked'
  BY <1>a, <1>d, <1>e, <1>j DEF Parked
<1>5. Counted'
  <2> SUFFICES ASSUME NEW i \in Ids PROVE Cardinality(Where(i)') <= sent'[i]
    BY DEF Counted
  <2>1. Where(i)' \subseteq Where(i)
    BY <1>a, <1>d, <1>j DEF Where, Channels
  <2>2. IsFiniteSet(opened) /\ Cardinality(Where(i)) <= sent[i] /\ sent'[i] = sent[i]
    BY <1>a, <1>d DEF Channels, Counted
  <2> QED BY <2>1, <2>2, FewerCounted
<1>6. Awaited'
  <2> SUFFICES ASSUME conn # "null", NEW i \in Ids,
                      \/ In(Request(i), toServer'[link]) \/ Unanswered(link, i)'
                      \/ In(i, toClient'[link])
               PROVE  i \in wire
    BY <1>d DEF Awaited, Request
  <2>1. \/ In(Request(i), toServer[link]) \/ Unanswered(link, i) \/ In(i, toClient[link])
    BY <1>b, <1>c, <1>e, <1>g, <1>h DEF Arrives
  <2> QED BY <1>a, <2>1 DEF Awaited
<1>7. Given'
  <2>1. ASSUME NEW c \in Conns PROVE Distinct(toClient'[c])
    <3>1. ASSUME NEW i \in Ids, NowAnswered(c, i), In(i, toClient[c]) PROVE FALSE
      <4>1. Answered(c, i)
        BY <1>a, <3>1 DEF Given
      <4>2. ~Unanswered(c, i) /\ Got(c, i) # {}
        BY <4>1, GotOnce DEF Answered
      <4> QED BY <1>g, <3>1, <4>2 DEF Arrives
    <3> QED BY <1>a, <1>c, <3>1 DEF Given
  <2>2. ASSUME NEW c \in Conns, NEW i \in Ids, In(i, toClient'[c]) PROVE Answered(c, i)'
    <3>1. CASE NowAnswered(c, i)
      BY <1>f, <3>1 DEF Answered
    <3>2. CASE In(i, toClient[c])
      BY <1>a, <1>i, <3>2 DEF Given
    <3> QED BY <1>c, <2>2, <3>1, <3>2
  <2>3. ASSUME NEW i \in Ids, due[i] = "RESPONSE" \/ outcome[i] = "RESPONSE"
        PROVE  \E c \in Conns : Answered(c, i)'
    BY <1>a, <1>i, <2>3 DEF Given
  <2> QED BY <1>d, <2>1, <2>2, <2>3 DEF Given
<1>8. Numbered'
  BY <1>a, <1>b DEF Numbered, U!Requests
<1> QED BY <1>b, <1>1, <1>2, <1>3, <1>4, <1>5, <1>6, <1>7, <1>8 DEF ChannelInv

\* What the steps of the client leave alone at the server.
LEMMA ServerUnmoved ==
  ASSUME UNCHANGED serverVars
  PROVE  /\ UNCHANGED <<reqConn, reqId, response, handler, reply>>
         /\ \A c, i : /\ Got(c, i)' = Got(c, i)
                      /\ Answered(c, i)' <=> Answered(c, i)
                      /\ Unanswered(c, i)' <=> Unanswered(c, i)
         /\ (Settled <=> Settled') /\ (Numbered <=> Numbered')
<1>1. UNCHANGED <<reqConn, reqId, response, handler, reply>>
  BY Zenon DEF serverVars
<1>2. \A c, i : Got(c, i)' = Got(c, i)
  BY <1>1 DEF Got
<1> QED BY <1>1, <1>2 DEF Answered, Unanswered, Settled, Numbered, U!HasToken, U!Requests

\* A call is sent for the first time, or again on a connection that is new to it.
LEMMA SentIsNew ==
  ASSUME Channels, Parked, Counted, ClientInv, conn = "up", NEW i \in Ids,
         sent[i] = 0 \/ phase[i] = "kWaitingReconnect"
  PROVE  link \in opened /\ ~Uses(link, i)
<1>1. link \in opened /\ IsFiniteSet(opened)
  BY DEF Channels
<1>2. CASE sent[i] = 0
  <2>1. IsFiniteSet(Where(i))
    BY <1>1, FS_Subset DEF Where
  <2>2. Cardinality(Where(i)) = 0
    <3>1. Cardinality(Where(i)) <= 0 /\ Cardinality(Where(i)) \in Nat
      BY <1>2, <2>1, FS_CardinalityType DEF Counted
    <3> QED BY <3>1
  <2>3. Where(i) = {}
    BY <2>1, <2>2, FS_EmptySet
  <2> QED BY <1>1, <2>3 DEF Where
<1>3. CASE phase[i] = "kWaitingReconnect"
  BY <1>1, <1>3 DEF Parked
<1> QED BY <1>2, <1>3

LEMMA ClientKeeps ==
  ASSUME ClientInv, ClientInv', ConnInv, ChannelInv, ClientStep
  PROVE  ChannelInv'
<1>a. /\ Channels /\ Fresh /\ Numbered /\ Unique /\ Parked /\ Counted
      /\ Awaited /\ Given /\ Settled
  BY DEF ChannelInv
<1>b. /\ toServer' \in [Conns -> Seq(Frames)]
      /\ \A c \in Conns \ opened : toServer'[c] = toServer[c]
      /\ \A c \in Conns, i \in Ids : In(Request(i), toServer'[c]) =>
           In(Request(i), toServer[c]) \/ (c = link /\ sent'[i] = sent[i] + 1)
      /\ \A c \in Conns, i \in Ids :
           /\ Once(Request(i), toServer[c])
           /\ In(Request(i), toServer[c]) => c # link \/ sent'[i] = sent[i]
           => Once(Request(i), toServer'[c])
  BY <1>a, TransmitFacts
<1>c. (conn' # "null" => conn # "null") /\ \A i \in Ids : Effect(i)
  BY ClientEffect
<1>d. UNCHANGED <<link, opened, toClient, serverVars>>
  BY Zenon DEF ClientStep, ClientDoes
<1>e. /\ UNCHANGED <<reqConn, reqId, response>>
      /\ \A c, i : /\ Got(c, i)' = Got(c, i)
                   /\ Answered(c, i)' <=> Answered(c, i)
                   /\ Unanswered(c, i)' <=> Unanswered(c, i)
      /\ Settled' /\ Numbered'
  BY <1>a, <1>d, ServerUnmoved
<1>f. \A i \in Ids : sent[i] \in Nat
  BY CounterTypes DEF ClientInv
<1>g. \A i \in Ids : sent'[i] # sent[i] =>
        link \in opened /\ ~Uses(link, i) /\ sent'[i] = sent[i] + 1
  BY <1>a, <1>c, SentIsNew DEF Effect
<1>h. conn # "null" => link \in opened
  BY <1>a DEF Channels
<1>i. \A c \in Conns, i \in Ids : Uses(c, i)' => Uses(c, i) \/ (c = link /\ sent'[i] # sent[i])
  <2>1. \A i \in Ids : sent[i] + 1 # sent[i]
    BY <1>f
  <2> QED BY <1>b, <1>e, <2>1 DEF Uses, Request
<1>1. Channels'
  BY <1>a, <1>b, <1>c, <1>d DEF Channels
<1>2. Fresh'
  BY <1>a, <1>b, <1>d, <1>e DEF Fresh, U!Requests
<1>3. Unique'
  <2> SUFFICES ASSUME NEW c \in Conns, NEW i \in Ids
               PROVE  /\ Once(Request(i), toServer'[c])
                      /\ In(Request(i), toServer'[c]) => Got(c, i)' = {}
    BY DEF Unique, Request
  <2>1. Once(Request(i), toServer[c]) /\ (In(Request(i), toServer[c]) => Got(c, i) = {})
    BY <1>a DEF Unique
  <2>2. c = link /\ sent'[i] # sent[i] => ~In(Request(i), toServer[c]) /\ Got(c, i) = {}
    BY <1>g DEF Uses
  <2>3. sent'[i] = sent[i] + 1 => sent'[i] # sent[i]
    BY <1>f
  <2> QED BY <1>b, <1>e, <2>1, <2>2, <2>3
<1>4. Parked'
  <2> SUFFICES ASSUME conn' # "null", NEW i \in Ids, phase'[i] = "kWaitingReconnect",
                      Uses(link, i)'
               PROVE  FALSE
    BY <1>d DEF Parked, Uses, Got, Request
  <2>1. phase[i] = "kWaitingReconnect" /\ sent'[i] = sent[i] /\ conn # "null"
    BY <1>c DEF Effect
  <2>2. ~Uses(link, i) /\ link \in Conns
    BY <1>a, <2>1 DEF Parked, Channels
  <2> QED BY <1>d, <1>i, <2>1, <2>2
<1>5. Counted'
  <2> SUFFICES ASSUME NEW i \in Ids PROVE Cardinality(Where(i)') <= sent'[i]
    BY DEF Counted
  <2>1. IsFiniteSet(opened) /\ Cardinality(Where(i)) <= sent[i] /\ opened \subseteq Conns
    BY <1>a DEF Channels, Counted
  <2>2. CASE sent'[i] = sent[i]
    <3>1. Where(i)' \subseteq Where(i)
      BY <1>d, <1>i, <2>1, <2>2 DEF Where
    <3> QED BY <2>1, <2>2, <3>1, FewerCounted
  <2>3. CASE sent'[i] # sent[i]
    <3>1. Where(i)' \subseteq Where(i) \cup {link} /\ link \notin Where(i)
      BY <1>d, <1>g, <1>i, <2>1, <2>3 DEF Where
    <3>2. IsFiniteSet(Where(i))
      BY <2>1, FS_Subset DEF Where
    <3>3. /\ IsFiniteSet(Where(i) \cup {link})
          /\ Cardinality(Where(i) \cup {link}) = Cardinality(Where(i)) + 1
      BY <3>1, <3>2, FS_AddElement
    <3>4. /\ Cardinality(Where(i)') <= Cardinality(Where(i) \cup {link})
          /\ Cardinality(Where(i)) \in Nat /\ Cardinality(Where(i)') \in Nat
      BY <3>1, <3>2, <3>3, FS_Subset, FS_CardinalityType
    <3> QED BY <1>f, <1>g, <2>1, <2>3, <3>3, <3>4
  <2> QED BY <2>2, <2>3
<1>6. Awaited'
  <2> SUFFICES ASSUME conn' # "null", NEW i \in Ids,
                      \/ In(Request(i), toServer'[link]) \/ Unanswered(link, i)'
                      \/ In(i, toClient[link])
               PROVE  i \in wire'
    BY <1>d DEF Awaited, Request, Unanswered, Got
  <2>1. conn # "null" /\ link \in Conns
    BY <1>c, <1>h, <1>a DEF Channels
  <2>2. CASE sent'[i] = sent[i] + 1
    BY <1>c, <1>f, <2>2 DEF Effect
  <2>3. CASE \/ In(Request(i), toServer[link]) \/ Unanswered(link, i) \/ In(i, toClient[link])
    <3>1. i \in wire
      BY <1>a, <2>1, <2>3 DEF Awaited
    <3> QED BY <1>c, <3>1 DEF Effect
  <2>4. Unanswered(link, i)' => Unanswered(link, i)
    BY <1>d, <1>e
  <2> QED BY <1>b, <2>1, <2>2, <2>3, <2>4
<1>7. Given'
  <2>1. ASSUME NEW i \in Ids, Responded(i)' PROVE \E c \in Conns : Answered(c, i)'
    BY <1>a, <1>c, <1>e, <2>1 DEF Given, Effect, Responded
  <2> QED BY <1>a, <1>d, <1>e, <2>1 DEF Given, Responded
<1> QED BY <1>e, <1>1, <1>2, <1>3, <1>4, <1>5, <1>6, <1>7 DEF ChannelInv

\* The steps of the client that send nothing.
LEMMA ClientConnectsKeeps ==
  ASSUME ClientInv, ClientInv', ConnInv, ChannelInv, ClientConnects
  PROVE  ChannelInv'
<1>a. /\ Channels /\ Fresh /\ Numbered /\ Unique /\ Parked /\ Counted
      /\ Awaited /\ Given /\ Settled
  BY DEF ChannelInv
<1>b. /\ UNCHANGED <<toServer, toClient, serverVars>>
      /\ Conns \ opened # {}
      /\ link' = CHOOSE c \in Conns : c \notin opened
      /\ opened' = opened \cup {link'}
      /\ UNCHANGED <<phase, sent, due, outcome>>
  BY DEF ClientConnects, OnConnected, pendVars, sendVars, doneVars
<1>c. link' \in Conns \ opened
  BY <1>b
<1>d. /\ \A c, i : /\ Got(c, i)' = Got(c, i)
                   /\ Answered(c, i)' <=> Answered(c, i)
                   /\ Unanswered(c, i)' <=> Unanswered(c, i)
      /\ UNCHANGED reqConn /\ Settled' /\ Numbered'
  BY <1>a, <1>b, ServerUnmoved
<1>e. /\ toServer[link'] = <<>> /\ toClient[link'] = <<>> /\ \A i : Got(link', i) = {}
  BY <1>a, <1>c DEF Fresh, Got
<1>f. \A t : ~In(t, <<>>)
  BY DEF In
<1>g. \A c, i : Uses(c, i)' <=> Uses(c, i)
  BY <1>b, <1>d DEF Uses, Request
<1>h. \A i : ~Uses(link', i)
  BY <1>e, <1>f DEF Uses
<1>1. Channels'
  <2>1. IsFiniteSet(opened \cup {link'})
    <3>1. IsFiniteSet(opened)
      BY <1>a DEF Channels
    <3> QED BY <3>1, FS_AddElement
  <2>2. opened' \subseteq Conns /\ IsFiniteSet(opened') /\ link' \in opened'
    BY <1>a, <1>b, <1>c, <2>1 DEF Channels
  <2> QED BY <1>a, <1>b, <2>2 DEF Channels
<1>2. Fresh'
  BY <1>a, <1>b, <1>d DEF Fresh, U!Requests
<1>3. Unique'
  BY <1>a, <1>b, <1>d DEF Unique, Request
<1>4. Parked'
  BY <1>g, <1>h DEF Parked
<1>5. Counted'
  <2> SUFFICES ASSUME NEW i \in Ids PROVE Cardinality(Where(i)') <= sent'[i]
    BY DEF Counted
  <2>1. Where(i)' \subseteq Where(i)
    BY <1>b, <1>g, <1>h DEF Where
  <2>2. IsFiniteSet(opened) /\ Cardinality(Where(i)) <= sent[i] /\ sent'[i] = sent[i]
    BY <1>a, <1>b DEF Channels, Counted
  <2> QED BY <2>1, <2>2, FewerCounted
<1>6. Awaited'
  <2>1. \A i : ~In(Request(i), toServer'[link']) /\ ~In(i, toClient'[link'])
    BY <1>b, <1>e, <1>f
  <2>2. \A i : ~Unanswered(link, i)'
    BY <1>d, <1>e DEF Unanswered
  <2> QED BY <2>1, <2>2 DEF Awaited, Request
<1>7. Given'
  BY <1>a, <1>b, <1>d DEF Given
<1> QED BY <1>d, <1>1, <1>2, <1>3, <1>4, <1>5, <1>6, <1>7 DEF ChannelInv

LEMMA ClientReceivesKeeps ==
  ASSUME ClientInv, ClientInv', ConnInv, U!ServerInv, ChannelInv, ClientReceives
  PROVE  ChannelInv'
<1> DEFINE s == toClient[link]
           i == Head(s)
<1>a. /\ Channels /\ Fresh /\ Numbered /\ Unique /\ Parked /\ Counted
      /\ Awaited /\ Given /\ Settled
  BY DEF ChannelInv
<1>b. /\ UNCHANGED <<link, opened, toServer, serverVars>>
      /\ s # <<>> /\ toClient' = [toClient EXCEPT ![link] = Tail(s)]
      /\ OnResponse(i) /\ conn # "null"
  BY DEF ClientReceives, OnResponse
<1>c. link \in opened /\ link \in Conns /\ s \in Seq(Ids) /\ Distinct(s)
  BY <1>a, <1>b DEF Channels, Given
<1>d. /\ i \in Ids /\ In(i, s) /\ Tail(s) \in Seq(Ids) /\ Distinct(Tail(s))
      /\ \A t : In(t, Tail(s)) <=> In(t, s) /\ t # i
  BY <1>b, <1>c, TailFacts, Zenon
<1> HIDE DEF i, s
<1>e. /\ \A c, j : /\ Got(c, j)' = Got(c, j)
                   /\ Answered(c, j)' <=> Answered(c, j)
                   /\ Unanswered(c, j)' <=> Unanswered(c, j)
      /\ UNCHANGED reqConn /\ Settled' /\ Numbered'
  BY <1>a, <1>b, ServerUnmoved
<1>f. /\ toClient' \in [Conns -> Seq(Ids)] /\ toClient'[link] = Tail(s)
      /\ \A c \in Conns \ {link} : toClient'[c] = toClient[c]
  BY <1>a, <1>b, <1>c, <1>d DEF Channels
<1>g. /\ wire' = wire \ {i} /\ UNCHANGED <<sent, outcome>>
      /\ conn' # "null" => conn # "null"
      /\ \A j \in Ids : /\ phase'[j] = "kWaitingReconnect" => phase[j] = "kWaitingReconnect"
                        /\ due'[j] = "RESPONSE" => due[j] = "RESPONSE" \/ j = i
  <2>1. CASE i \in Pending /\ Finish({i}, "RESPONSE")
    <3>1. {i} \subseteq Pending
      BY <2>1
    <3>2. phase'[i] = "absent" /\ \A j \in Ids \ {i} : phase'[j] = phase[j] /\ due'[j] = due[j]
      BY <2>1, <3>1, FinishFacts
    <3> QED BY <1>b, <3>2 DEF OnResponse, doneVars
  <2>2. CASE UNCHANGED <<pendVars, due>>
    BY <1>b, <2>2 DEF OnResponse, doneVars, pendVars
  <2> QED BY <1>b, <2>1, <2>2 DEF OnResponse
<1>h. Answered(link, i)
  BY <1>a, <1>c, <1>d DEF Given, s
<1>i. \A c, j : Uses(c, j)' <=> Uses(c, j)
  BY <1>b, <1>e DEF Uses, Request
<1>1. Channels'
  BY <1>a, <1>b, <1>c, <1>f DEF Channels
<1>2. Fresh'
  BY <1>a, <1>b, <1>c, <1>e, <1>f DEF Fresh, U!Requests
<1>3. Unique'
  BY <1>a, <1>b, <1>e DEF Unique, Request
<1>4. Parked'
  BY <1>a, <1>b, <1>g, <1>i DEF Parked
<1>5. Counted'
  <2> SUFFICES ASSUME NEW j \in Ids PROVE Cardinality(Where(j)') <= sent'[j]
    BY DEF Counted
  <2>1. Where(j)' \subseteq Where(j)
    BY <1>b, <1>i DEF Where
  <2>2. IsFiniteSet(opened) /\ Cardinality(Where(j)) <= sent[j] /\ sent'[j] = sent[j]
    BY <1>a, <1>g DEF Channels, Counted
  <2> QED BY <2>1, <2>2, FewerCounted
<1>6. Awaited'
  <2> SUFFICES ASSUME NEW j \in Ids,
                      \/ In(Request(j), toServer[link]) \/ Unanswered(link, j)
                      \/ In(j, toClient'[link])
               PROVE  j \in wire'
    BY <1>b, <1>e DEF Awaited, Request
  <2>1. j \in wire
    BY <1>a, <1>b, <1>d, <1>f DEF Awaited, s
  <2>2. j # i
    <3>1. ~Unanswered(link, i) /\ Got(link, i) # {}
      BY <1>c, <1>d, <1>h, GotOnce DEF Answered
    <3>2. ~In(Request(i), toServer[link])
      BY <1>a, <1>c, <1>d, <3>1 DEF Unique
    <3> QED BY <1>d, <1>f, <3>1, <3>2
  <2> QED BY <1>g, <2>1, <2>2
<1>7. Given'
  <2>1. ASSUME NEW c \in Conns
        PROVE  Distinct(toClient'[c]) /\ \A j \in Ids : In(j, toClient'[c]) => Answered(c, j)'
    <3>1. CASE c = link
      BY <1>a, <1>c, <1>d, <1>e, <1>f, <3>1 DEF Given, s
    <3>2. CASE c # link
      BY <1>a, <1>e, <1>f, <3>2 DEF Given
    <3> QED BY <3>1, <3>2
  <2>2. ASSUME NEW j \in Ids, due'[j] = "RESPONSE" \/ outcome'[j] = "RESPONSE"
        PROVE  \E c \in Conns : Answered(c, j)'
    BY <1>a, <1>c, <1>e, <1>g, <1>h, <2>2 DEF Given
  <2> QED BY <2>1, <2>2 DEF Given
<1> QED BY <1>e, <1>1, <1>2, <1>3, <1>4, <1>5, <1>6, <1>7 DEF ChannelInv

LEMMA QuietKeeps ==
  ASSUME ClientInv, ChannelInv, UNCHANGED <<channels, serverVars>>,
         UNCHANGED <<phase, sent, wire, due, outcome>>, conn' # "null" => conn # "null"
  PROVE  ChannelInv'
<1>a. /\ Channels /\ Fresh /\ Numbered /\ Unique /\ Parked /\ Counted
      /\ Awaited /\ Given /\ Settled
  BY DEF ChannelInv
<1>b. UNCHANGED <<link, opened, toServer, toClient>>
  BY DEF channels
<1>c. /\ \A c, i : /\ Got(c, i)' = Got(c, i)
                   /\ Answered(c, i)' <=> Answered(c, i)
                   /\ Unanswered(c, i)' <=> Unanswered(c, i)
      /\ UNCHANGED reqConn /\ Settled' /\ Numbered'
  BY <1>a, ServerUnmoved
<1>d. \A c, i : Uses(c, i)' <=> Uses(c, i)
  BY <1>b, <1>c DEF Uses, Request
<1>1. Channels' /\ Fresh'
  BY <1>a, <1>b, <1>c DEF Channels, Fresh, U!Requests
<1>2. Unique'
  BY <1>a, <1>b, <1>c DEF Unique, Request
<1>3. Parked'
  BY <1>a, <1>b, <1>d DEF Parked
<1>4. Counted'
  <2> SUFFICES ASSUME NEW i \in Ids PROVE Cardinality(Where(i)') <= sent'[i]
    BY DEF Counted
  <2>1. Where(i)' \subseteq Where(i)
    BY <1>b, <1>d DEF Where
  <2>2. IsFiniteSet(opened) /\ Cardinality(Where(i)) <= sent[i] /\ sent'[i] = sent[i]
    BY <1>a DEF Channels, Counted
  <2> QED BY <2>1, <2>2, FewerCounted
<1>5. Awaited'
  BY <1>a, <1>b, <1>c DEF Awaited, Request
<1>6. Given'
  BY <1>a, <1>b, <1>c DEF Given
<1> QED BY <1>c, <1>1, <1>2, <1>3, <1>4, <1>5, <1>6 DEF ChannelInv

\* The server of the initial states has been set up and has started.
LEMMA ServerReady == SystemInit => U!ServerInv
<1> SUFFICES ASSUME SystemInit PROVE U!ServerInv
  OBVIOUS
<1> USE DEF S!Requests, U!Requests
<1>1. /\ serverStatus = "kRunning" /\ tcpServer = "serving"
      /\ pool \in {"none", "running"}
      /\ tcpServerStopped = FALSE /\ taskPoolStopped = FALSE
      /\ stopThread = "none" /\ stopCallbacks = 0
  BY SystemAssumption DEF SystemInit
<1>2. /\ config \in [maxActive : Limits \cup {0}, maxPerConn : {0}, maxQueue : {0},
                     tinyMessages : {FALSE}, stopCallback : {FALSE}]
      /\ syncHandlers = {} /\ asyncHandlers = Methods
  BY DEF SystemInit
<1>3. /\ connState = [c \in Conns |-> "absent"]
      /\ received = 0
      /\ reqConn = [r \in U!Requests |-> "none"] /\ reqId = [r \in U!Requests |-> 0]
  BY DEF SystemInit
<1>4. /\ registry = {} /\ canceled = {}
      /\ handler = [r \in U!Requests |-> "none"] /\ reply = [r \in U!Requests |-> "unused"]
      /\ replyCode = [r \in U!Requests |-> "none"] /\ response = [r \in U!Requests |-> "none"]
      /\ takenBy = [r \in U!Requests |-> 0]
  BY DEF SystemInit
<1>5. U!TypeOK
  <2>1. U!WordTypes /\ U!FlagTypes
    BY <1>1 DEF U!WordTypes, U!FlagTypes
  <2>2. U!NameTypes
    BY <1>2 DEF U!NameTypes
  <2>3. U!ArrivalTypes /\ U!ConnTypes
    BY <1>3, ServerAssumed DEF U!ArrivalTypes, U!ConnTypes
  <2>4. U!TokenTypes /\ U!ReplyTypes /\ U!ResponseTypes
    BY <1>4, ServerAssumed DEF U!TokenTypes, U!ReplyTypes, U!ResponseTypes
  <2> QED BY <2>1, <2>2, <2>3, <2>4, U!TypeParts, ServerAssumed DEF U!Types
<1>6. U!Arrived
  BY <1>3, <1>4 DEF U!Arrived, U!HasToken
<1>7. U!Phases /\ U!Drained
  <2>1. ~config.stopCallback
    BY <1>2
  <2> QED BY <1>1, <1>4, <2>1 DEF U!Phases, U!Drained
<1>8. U!TokenFate /\ U!CapacityReleased /\ U!Refused /\ U!Silent
  BY <1>4 DEF U!TokenFate, U!CapacityReleased, U!HasToken, U!Refused, U!Silent,
     U!CanceledNeverAnswered
<1>9. U!RegistryLimits
  <2>1. config.maxActive \in Nat /\ config.maxPerConn = 0
    <3>1. config.maxActive \in Limits \cup {0} /\ config.maxPerConn \in {0}
      BY <1>2
    <3>2. \A n \in Limits \cup {0} : n \in Nat
      BY SystemAssumption
    <3> QED BY <3>1, <3>2
  <2>2. U!Cardinality(registry) = 0
    BY <1>4, U!FS_EmptySet, ServerAssumed
  <2> QED BY <2>1, <2>2 DEF U!RegistryLimits
<1> QED BY <1>5, <1>6, <1>7, <1>8, <1>9 DEF U!ServerInv

LEMMA SystemReady == SystemInit => SystemInv
<1> SUFFICES ASSUME SystemInit PROVE SystemInv
  OBVIOUS
<1>1. Init /\ ClientInv /\ ConnInv /\ U!ServerInv
  BY ClientInit, ConnInit, ServerReady DEF SystemInit
<1>2. /\ opened = {} /\ conn = "null"
      /\ toServer = [c \in Conns |-> <<>>] /\ toClient = [c \in Conns |-> <<>>]
      /\ \A i \in Ids : sent[i] = 0 /\ due[i] = "none" /\ outcome[i] = "none"
  BY DEF SystemInit, Init
<1>3. \A r \in U!Requests : /\ reqConn[r] = "none" /\ reqId[r] = 0 /\ response[r] = "none"
  BY DEF SystemInit, S!Requests, U!Requests
<1>4. \A t : ~In(t, <<>>) /\ Once(t, <<>>) /\ Distinct(<<>>)
  BY DEF In, Once, Distinct
<1>5. Channels /\ Fresh /\ Numbered /\ Settled
  <2>1. IsFiniteSet(opened)
    BY <1>2, FS_EmptySet
  <2> QED BY <1>2, <1>3, <2>1, SystemAssumption DEF Channels, Fresh, Numbered, Settled
<1>6. Unique /\ Parked /\ Awaited /\ Given
  BY <1>2, <1>4 DEF Unique, Parked, Awaited, Given
<1>7. Counted
  <2> SUFFICES ASSUME NEW i \in Ids PROVE Cardinality(Where(i)) <= sent[i]
    BY DEF Counted
  <2>1. Where(i) = {}
    BY <1>2 DEF Where
  <2>2. Cardinality(Where(i)) = 0
    BY <2>1, FS_EmptySet
  <2> QED BY <1>2, <2>2
<1> QED BY <1>1, <1>5, <1>6, <1>7 DEF SystemInv, ChannelInv

LEMMA SystemStep == SystemInv /\ [SystemNext]_system => SystemInv'
<1> SUFFICES ASSUME SystemInv, [SystemNext]_system PROVE SystemInv'
  OBVIOUS
<1>1. ClientInv /\ ConnInv /\ U!ServerInv /\ ChannelInv /\ Channels /\ Unique
  BY DEF SystemInv, ChannelInv
<1>2. ClientInv' /\ ConnInv'
  BY <1>1, ClientSide, ConnStep
<1>3. U!ServerInv'
  BY <1>1, ServerSide, U!InvStep, ServerAssumed
<1>4. ASSUME ClientStep PROVE ChannelInv'
  BY <1>1, <1>2, <1>4, ClientKeeps
<1>5. ASSUME ClientConnects PROVE ChannelInv'
  BY <1>1, <1>2, <1>5, ClientConnectsKeeps
<1>6. ASSUME ClientReceives PROVE ChannelInv'
  BY <1>1, <1>2, <1>6, ClientReceivesKeeps
<1>7. ASSUME ServerActs PROVE ChannelInv'
  BY <1>1, <1>3, <1>7, ServerKeeps
<1>8. ASSUME ClientHalfClose \/ UNCHANGED system PROVE ChannelInv'
  <2>1. UNCHANGED <<channels, serverVars, phase, sent, wire, due, outcome>>
    BY <1>8, Zenon DEF ClientHalfClose, PeerHalfClose, system, vars, pendVars, sendVars, doneVars
  <2>2. conn' # "null" => conn # "null"
    BY <1>8 DEF ClientHalfClose, PeerHalfClose, system, vars, netVars
  <2> QED BY <1>1, <2>1, <2>2, QuietKeeps
<1>9. ChannelInv'
  BY <1>4, <1>5, <1>6, <1>7, <1>8, Zenon DEF SystemNext, ServerActs
<1> QED BY <1>2, <1>3, <1>9 DEF SystemInv

-----------------------------------------------------------------------------
(***************************************************************************)
(* The theorems                                                            *)
(***************************************************************************)
\* The invariant of the composition, from which the others follow.
THEOREM SystemInvariant == SystemSpec => []SystemInv
BY SystemReady, SystemStep, PTL DEF SystemSpec

\* The client of the composition is RpcClient: all that is proved of RpcClient
\* with an arbitrary peer holds of it.
THEOREM ClientInSystem == SystemSpec => Spec
<1>1. SystemInit => Init
  BY DEF SystemInit
<1>2. SystemInv /\ [SystemNext]_system => [Next]_vars
  BY ClientSide DEF SystemInv, ChannelInv
<1> QED BY <1>1, <1>2, SystemInvariant, PTL DEF SystemSpec, Spec

\* The server's guarantees hold for a server whose clients are RpcClients,
\* without an assumption on ids: no token leaks, the limits hold, nothing
\* refused is run, and a canceled request is not answered.
THEOREM ServerInSystem ==
  SystemSpec => [](/\ S!TokenFate /\ S!CapacityReleased /\ S!RegistryLimits
                   /\ S!RefusedNotRun /\ S!CanceledNeverAnswered)
<1>1. SystemInv => /\ U!TokenFate /\ U!CapacityReleased /\ U!RegistryLimits
                   /\ U!RefusedNotRun /\ U!CanceledNeverAnswered
  <2>1. U!ServerInv => /\ U!TokenFate /\ U!CapacityReleased /\ U!RegistryLimits
                       /\ U!Refused /\ U!Silent
    BY Zenon DEF U!ServerInv
  <2>2. U!Refused => U!RefusedNotRun
    BY DEF U!Refused, U!RefusedNotRun
  <2>3. U!Silent => U!CanceledNeverAnswered
    BY DEF U!Silent
  <2> QED BY <2>1, <2>2, <2>3 DEF SystemInv
<1>2. U!TokenFate => S!TokenFate
  BY Zenon DEF U!TokenFate, S!TokenFate, U!HasToken, S!HasToken, U!Requests, S!Requests
<1>3. U!CapacityReleased => S!CapacityReleased
  BY Zenon DEF U!CapacityReleased, S!CapacityReleased, U!Open, S!Open
<1>4. U!RegistryLimits => S!RegistryLimits
  <2>1. \A T : S!Cardinality(T) = U!Cardinality(T)
    BY Zenon DEF S!Cardinality, U!Cardinality
  <2>2. \A c : S!TokensOf(c) = U!TokensOf(c)
    BY DEF S!TokensOf, U!TokensOf
  <2> QED BY <2>1, <2>2, Zenon DEF U!RegistryLimits, S!RegistryLimits
<1>5. U!RefusedNotRun => S!RefusedNotRun
  BY Zenon DEF U!RefusedNotRun, S!RefusedNotRun, U!Requests, S!Requests
<1>6. U!CanceledNeverAnswered => S!CanceledNeverAnswered
  BY Zenon DEF U!CanceledNeverAnswered, S!CanceledNeverAnswered, U!Requests, S!Requests
<1> QED BY <1>1, <1>2, <1>3, <1>4, <1>5, <1>6, SystemInvariant, PTL

\* A set in which there are no two elements has at most one.
LEMMA AtMostOne ==
  ASSUME NEW T, \A x, y \in T : x = y
  PROVE  Cardinality(T) = IF T = {} THEN 0 ELSE 1
<1>1. CASE T = {}
  BY <1>1, FS_EmptySet
<1>2. CASE T # {}
  <2>1. PICK x \in T : TRUE
    BY <1>2
  <2>2. T = {x}
    BY <2>1
  <2> QED BY <1>2, <2>2, FS_Singleton
<1> QED BY <1>1, <1>2

\* A client puts each id into at most one request on a connection: resends go
\* to connections that have not seen it.
THEOREM IdsAreUnique == SystemSpec => []IdsUniquePerConnection
<1>1. SystemInv => IdsUniquePerConnection
  <2> SUFFICES ASSUME SystemInv, NEW c \in Conns, NEW i \in Ids
               PROVE  Cardinality(FramesOf(c, i))
                        + Cardinality({r \in ReceivedAs(i) : reqConn[r] = c}) <= 1
    BY DEF IdsUniquePerConnection
  <2>1. {r \in ReceivedAs(i) : reqConn[r] = c} = Got(c, i)
    BY DEF ReceivedAs, Got, S!Requests, U!Requests
  <2>2. /\ Once(Request(i), toServer[c])
        /\ In(Request(i), toServer[c]) => Got(c, i) = {}
        /\ \A q, r \in Got(c, i) : q = r
    BY GotOnce DEF SystemInv, ChannelInv, Unique
  <2>3. /\ \A k, l \in FramesOf(c, i) : k = l
        /\ FramesOf(c, i) # {} => In(Request(i), toServer[c])
    BY <2>2 DEF FramesOf, Once, In, Request
  <2>4. /\ Cardinality(FramesOf(c, i)) = IF FramesOf(c, i) = {} THEN 0 ELSE 1
        /\ Cardinality(Got(c, i)) = IF Got(c, i) = {} THEN 0 ELSE 1
    BY <2>2, <2>3, AtMostOne
  <2> QED BY <2>1, <2>2, <2>3, <2>4
<1> QED BY <1>1, SystemInvariant, PTL

\* The request that the server takes next from a connection has an id that no
\* token of that connection has: registerToken never finds a duplicate, so the
\* server closes no connection of an RpcClient for one.
THEOREM NeverDuplicate ==
  SystemSpec => [](\A c \in Conns : toServer[c] # <<>> /\ Head(toServer[c]).op = "request"
                     => S!registerToken(c, Head(toServer[c]).id) # "kDuplicateRequestId")
<1>1. SystemInv => \A c \in Conns : toServer[c] # <<>> /\ Head(toServer[c]).op = "request"
                     => S!registerToken(c, Head(toServer[c]).id) # "kDuplicateRequestId"
  <2> SUFFICES ASSUME SystemInv, NEW c \in Conns, toServer[c] # <<>>,
                      Head(toServer[c]).op = "request"
               PROVE  S!registerToken(c, Head(toServer[c]).id) # "kDuplicateRequestId"
    OBVIOUS
  <2> DEFINE i == Head(toServer[c]).id
  <2>1. Channels /\ Unique
    BY DEF SystemInv, ChannelInv
  <2>2. toServer[c] \in Seq(Frames)
    BY <2>1 DEF Channels
  <2>3. Head(toServer[c]) \in Frames /\ In(Head(toServer[c]), toServer[c])
    BY <2>2, TailOnce, Zenon
  <2>4. i \in Ids /\ Head(toServer[c]) = Request(i)
    BY <2>3 DEF Frames, Request
  <2> HIDE DEF i
  <2>5. Got(c, i) = {}
    BY <2>1, <2>3, <2>4 DEF Unique
  <2>6. registry \subseteq U!Requests
    <3>1. U!TypeOK
      BY Zenon DEF SystemInv, U!ServerInv
    <3> QED BY <3>1 DEF U!TypeOK
  <2>7. S!Lookup(c, i) = {}
    BY <2>5, <2>6 DEF S!Lookup, Got
  <2>8. S!registerToken(c, i) # "kDuplicateRequestId"
    BY <2>7 DEF S!registerToken
  <2> QED BY <2>8 DEF i
<1> QED BY <1>1, SystemInvariant, PTL

\* An answer that reaches the client is for a request that waits for it or has
\* been given up: until the minute for which ids are ignored is over, it does not
\* take the branch of onRpcMessage that closes the connection.
THEOREM AnswersExpected == SystemSpec => []AnswersAreExpected
<1>1. SystemInv => AnswersAreExpected
  <2> SUFFICES ASSUME SystemInv, conn = "up", NEW k \in DOMAIN toClient[link]
               PROVE  toClient[link][k] \in
                        {i \in Ids : phase[i] = "kWaitingResponse"} \cup ignored \cup expired
    BY DEF AnswersAreExpected
  <2>1. Channels /\ Awaited /\ Wired
    BY DEF SystemInv, ChannelInv, ConnInv
  <2>2. toClient[link] \in Seq(Ids)
    BY <2>1 DEF Channels
  <2>3. toClient[link][k] \in Ids /\ In(toClient[link][k], toClient[link])
    BY <2>2 DEF In
  <2>4. toClient[link][k] \in wire
    BY <2>1, <2>3 DEF Awaited
  <2> QED BY <2>1, <2>3, <2>4 DEF Wired, WireAt
<1> QED BY <1>1, SystemInvariant, PTL

\* The requests the server has received for a call are on different
\* connections, each of which the call was sent on.
LEMMA ReceivedBound ==
  ASSUME SystemInv, NEW i \in Ids
  PROVE  /\ IsFiniteSet(ReceivedAs(i))
         /\ Cardinality(ReceivedAs(i)) <= sent[i]
         /\ \A c \in Conns : Got(c, i) \subseteq ReceivedAs(i)
<1>a. Channels /\ Fresh /\ Numbered /\ Counted /\ U!ServerInv /\ ClientInv
  BY DEF SystemInv, ChannelInv
<1>b. ReceivedAs(i) = {r \in U!Requests : reqId[r] = i} /\ i # 0
  BY ServerAssumed DEF ReceivedAs, S!Requests, U!Requests
<1>1. \A r \in ReceivedAs(i) : reqConn[r] \in Conns /\ r \in Got(reqConn[r], i)
  BY <1>a, <1>b DEF Numbered, Got
<1>2. \A r \in ReceivedAs(i) : reqConn[r] \in Where(i)
  <2>1. \A r \in ReceivedAs(i) : reqConn[r] \in opened
    BY <1>a, <1>b, <1>1 DEF Fresh
  <2> QED BY <1>1, <2>1 DEF Where, Uses
<1> DEFINE f == [r \in ReceivedAs(i) |-> reqConn[r]]
<1>3. f \in Injection(ReceivedAs(i), Where(i))
  <2>1. f \in [ReceivedAs(i) -> Where(i)]
    BY <1>2
  <2>2. ASSUME NEW q \in ReceivedAs(i), NEW r \in ReceivedAs(i), f[q] = f[r] PROVE q = r
    <3>1. reqConn[q] \in Conns /\ q \in Got(reqConn[q], i) /\ r \in Got(reqConn[q], i)
      BY <1>1, <2>2
    <3> QED BY <1>a, <3>1, GotOnce
  <2> QED BY <2>1, <2>2, Zenon DEF Injection, IsInjective
<1>4. IsFiniteSet(Where(i))
  BY <1>a, FS_Subset DEF Channels, Where
<1>5. /\ IsFiniteSet(ReceivedAs(i))
      /\ Cardinality(ReceivedAs(i)) <= Cardinality(Where(i))
  BY <1>3, <1>4, FS_Injection
<1>6. /\ Cardinality(ReceivedAs(i)) \in Nat /\ Cardinality(Where(i)) \in Nat /\ sent[i] \in Nat
      /\ Cardinality(Where(i)) <= sent[i]
  BY <1>a, <1>4, <1>5, FS_CardinalityType, CounterTypes DEF Counted, ClientInv
<1>7. \A c \in Conns : Got(c, i) \subseteq ReceivedAs(i)
  BY <1>b DEF Got
<1> QED BY <1>5, <1>6, <1>7

\* The server runs a call at most as often as its resend limit lets the client
\* send it; a call that was refused unsent has not reached the server, and one
\* that was answered has been answered by it.
THEOREM ExecutionBounded == SystemSpec => []BoundedExecution
<1>1. SystemInv /\ ResendBudget /\ UnsentErrors => BoundedExecution
  <2> SUFFICES ASSUME SystemInv, ResendBudget, UnsentErrors, NEW i \in Ids
               PROVE  /\ Cardinality(Executions(i)) <=
                           1 + IF params[i].allowReconnect THEN params[i].resendLimit ELSE 0
                      /\ outcome[i] \in UnsentCodes => ReceivedAs(i) = {}
                      /\ outcome[i] = "RESPONSE" =>
                           \E r \in ReceivedAs(i) : response[r] # "none"
    BY DEF BoundedExecution, UnsentCodes
  <2>1. /\ IsFiniteSet(ReceivedAs(i))
        /\ Cardinality(ReceivedAs(i)) <= sent[i]
        /\ \A c \in Conns : Got(c, i) \subseteq ReceivedAs(i)
    BY ReceivedBound
  <2>2. Given /\ TypeOK
    BY DEF SystemInv, ChannelInv, ClientInv
  <2>3. sent[i] \in Nat /\ params[i].resendLimit \in Nat
    BY <2>2, CounterTypes, ParamTypes, ClientAssumption
  <2>4. Cardinality(Executions(i)) <=
          1 + IF params[i].allowReconnect THEN params[i].resendLimit ELSE 0
    <3>1. /\ Cardinality(Executions(i)) <= Cardinality(ReceivedAs(i))
          /\ Cardinality(Executions(i)) \in Nat /\ Cardinality(ReceivedAs(i)) \in Nat
      BY <2>1, FS_Subset, FS_CardinalityType DEF Executions
    <3>2. sent[i] <= 1 + IF params[i].allowReconnect THEN params[i].resendLimit ELSE 0
      BY <2>3 DEF ResendBudget, AllowReconnect
    <3> QED BY <2>1, <2>3, <3>1, <3>2
  <2>5. ASSUME outcome[i] \in UnsentCodes PROVE ReceivedAs(i) = {}
    <3>1. sent[i] = 0
      BY <2>5 DEF UnsentErrors, UnsentCodes
    <3>2. Cardinality(ReceivedAs(i)) = 0
      <4>1. Cardinality(ReceivedAs(i)) \in Nat
        BY <2>1, FS_CardinalityType
      <4> QED BY <2>1, <3>1, <4>1
    <3> QED BY <2>1, <3>2, FS_EmptySet
  <2>6. ASSUME outcome[i] = "RESPONSE" PROVE \E r \in ReceivedAs(i) : response[r] # "none"
    BY <2>1, <2>2, <2>6 DEF Given, Answered
  <2> QED BY <2>4, <2>5, <2>6
<1> QED BY <1>1, SystemInvariant, ClientInSystem, ResendLimitRespected, RefusedCallsUnsent, PTL
=============================================================================
