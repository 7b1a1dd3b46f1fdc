------------------------------ MODULE RpcClient ------------------------------
(***************************************************************************)
(* RpcClient (src/src/RpcClient.cc): the asynchronous RPC client.          *)
(*                                                                         *)
(* Every call() draws a request id, is entered into pendingRequests_ and   *)
(* owes its caller exactly one callback.  Responses, response timeouts,    *)
(* reconnect timeouts, cancellations, lost connections and disconnect()    *)
(* all compete for that callback.  call() and cancel() may come from any   *)
(* thread; everything else runs on the client's EventLoop.                 *)
(*                                                                         *)
(* User callbacks are re-entrant: a callback may call(), cancel(),         *)
(* connect() or disconnect() while the handler that invoked it still has   *)
(* work to do.  A handler is therefore split where it invokes a callback:  *)
(* "due" holds the callbacks it has moved out of pendingRequests_ and not  *)
(* yet invoked, "after" the rest of the handler, "userRuns" whether user   *)
(* code has control of the loop thread.                                    *)
(*                                                                         *)
(* TcpClient, TcpConnection and EventLoop belong to mini_muduo, which is   *)
(* not part of the repository; they are modelled from their use here:      *)
(* their callbacks arrive from the loop, never from inside a call to them. *)
(***************************************************************************)
EXTENDS Naturals, Sequences, FiniteSets

CONSTANTS
  MaxCalls,     \* bound: how many calls are made
  MaxPending,   \* maxPendingRequests_ (at least MaxCalls: not limited)
  MaxResends,   \* bound: largest resend limit a call uses
  CallParams    \* the argument combinations call() is used with

Ids == 1..MaxCalls

\* The arguments of call() once its overloads have filled in the defaults:
\* whether timeout > 0ms, allowReconnect, the resend limit, and whether the
\* encoded request exceeds the maximal message size.
AllParams == [timeout : BOOLEAN, allowReconnect : BOOLEAN,
              resendLimit : 0..MaxResends, tooLarge : BOOLEAN]

ASSUME ClientAssumption ==
  /\ MaxCalls \in Nat
  /\ MaxPending \in Nat \ {0}
  /\ MaxResends \in Nat
  /\ CallParams \subseteq AllParams

VARIABLES
  alive,               \* the object has not been destroyed
  nextRequestId,       \* the atomic counter
  drawn,               \* ids a non-loop thread holds between fetch_add and queueInLoop
  loopQueue,           \* functors queued on the EventLoop
  params,              \* the arguments of each call
  status,              \* status_
  manualDisconnection, \* manualDisconnection_
  conn,                \* conn_: "null", "up", or "closing" (connected() is false)
  tcp,                 \* TcpClient: no attempt, a connect() attempt, or its own retry
  retry,               \* TcpClient's automatic reconnection is enabled
  phase,               \* PendingRequest::phase, "absent" outside pendingRequests_
  remainingResends,    \* PendingRequest::remainingResends
  timerId,             \* PendingRequest::timerId, by the handler it runs
  timers,              \* the request timers armed in the EventLoop
  ignored,             \* keys of ignoredResponseRequests_
  due, after, userRuns,\* the handler in progress on the loop thread
  wire,                \* history: requests sent on this connection, not answered
  expired,             \* history: ids dropped from ignored by their deadline
  sent,                \* history: how often a request was sent
  rounds,              \* history: reconnect waits that ran out
  fired, outcome       \* history: callback invocations and their error code

callVars == <<nextRequestId, drawn, loopQueue, params>>
netVars  == <<status, manualDisconnection, conn, tcp, retry>>
pendVars == <<phase, remainingResends, timerId, timers>>
doneVars == <<fired, outcome>>
sendVars == <<wire, sent>>
vars == <<alive, callVars, netVars, pendVars, ignored, due, after, userRuns,
          sendVars, expired, rounds, doneVars>>

Phases     == {"kWaitingResponse", "kWaitingReconnect"}
TimerKinds == {"request", "reconnect"}
ErrorCodes == {"RESPONSE", "REQUEST_TIMEOUT", "REQUEST_CANCELED",
               "CONNECTION_CLOSED", "CONNECTION_UNAVAILABLE",
               "RECONNECT_TIMEOUT", "MESSAGE_TOO_LARGE", "RESOURCE_EXHAUSTED"}
Functors   == [op : {"call", "cancel"}, id : Ids]

\* The types of the variables; sent, rounds and remainingResends stay within
\* the call's resend limit, so the uint8_t counter never wraps.
TypeOK ==
  /\ alive \in BOOLEAN
  /\ nextRequestId \in 1..(MaxCalls + 1)
  /\ drawn \subseteq Ids
  /\ loopQueue \in Seq(Functors)
  /\ params \in [Ids -> AllParams]
  /\ status \in {"kDisconnected", "kConnecting", "kDisconnecting", "kConnected"}
  /\ manualDisconnection \in BOOLEAN
  /\ conn \in {"null", "up", "closing"}
  /\ tcp \in {"idle", "connecting", "retrying"}
  /\ retry \in BOOLEAN
  /\ phase \in [Ids -> Phases \cup {"absent"}]
  /\ remainingResends \in [Ids -> 0..MaxResends]
  /\ timerId \in [Ids -> TimerKinds \cup {"none"}]
  /\ timers \subseteq Ids \X TimerKinds
  /\ ignored \subseteq Ids
  /\ due \in [Ids -> ErrorCodes \cup {"none"}]
  /\ after \in {"none", "up", "closed"}
  /\ userRuns \in BOOLEAN
  /\ wire \subseteq Ids
  /\ expired \subseteq Ids
  /\ sent \in [Ids -> 0..(MaxResends + 1)]
  /\ rounds \in [Ids -> 0..MaxResends]
  /\ fired \in [Ids -> Nat]
  /\ outcome \in [Ids -> ErrorCodes \cup {"none"}]

Init ==
  /\ alive = TRUE
  /\ nextRequestId = 1
  /\ drawn = {}
  /\ loopQueue = <<>>
  /\ params \in [Ids -> CallParams]
  /\ status = "kDisconnected"
  /\ manualDisconnection = FALSE
  /\ conn = "null"
  /\ tcp = "idle"
  /\ retry = FALSE
  /\ phase = [i \in Ids |-> "absent"]
  /\ remainingResends = [i \in Ids |-> 0]
  /\ timerId = [i \in Ids |-> "none"]
  /\ timers = {}
  /\ ignored = {}
  /\ due = [i \in Ids |-> "none"]
  /\ after = "none"
  /\ userRuns = TRUE
  /\ wire = {}
  /\ expired = {}
  /\ sent = [i \in Ids |-> 0]
  /\ rounds = [i \in Ids |-> 0]
  /\ fired = [i \in Ids |-> 0]
  /\ outcome = [i \in Ids |-> "none"]
-----------------------------------------------------------------------------
(***************************************************************************)
(* Helpers                                                                 *)
(***************************************************************************)
Pending == {i \in Ids : phase[i] # "absent"}

\* Mutant: the caller's choice is not looked at.
AllowReconnect_Always(i) == params[i].resendLimit # 0

\* callInLoop clears allowReconnect when the resend limit is 0.
AllowReconnect(i) == params[i].allowReconnect /\ params[i].resendLimit # 0

\* Mutant: entries are erased without loop_->cancel.
StoredTimers_Forgotten(S) == {}

\* The loop timers that the stored timer ids of S name.
StoredTimers(S) == {<<i, timerId[i]>> : i \in {j \in S : timerId[j] # "none"}}

\* Mutant: the wait for a connection is not bounded.
ReconnectTimers_Unarmed(S) == {}

\* The timers that bound one wait for a new connection.
ReconnectTimers(S) == S \X {"reconnect"}

\* Mutant: no response timer is armed.
HasTimeout_Never(i) == FALSE

\* runAfter is used only for a timeout above 0ms.
HasTimeout(i) == params[i].timeout

\* Mutant: > instead of >=.
TooManyPending_OffByOne == Cardinality(Pending) > MaxPending

\* maxPendingRequests_ is reached.
TooManyPending == Cardinality(Pending) >= MaxPending

\* Mutant: the id is not remembered.
IgnoreLate_Skipped(i) == ignored' = ignored

\* A late response to i is to be dropped, for one minute.
IgnoreLate(i) == ignored' = ignored \cup {i}

\* Between two loop events: no callback is owed by a handler in progress.
Idle == after = "none" /\ \A i \in Ids : due[i] = "none"

\* Code of the user is running on the loop thread: a callback, or a functor.
UserTurn == userRuns

\* Mutant: the callback is invoked and the entry stays.
Finish_KeepsEntry(S, code) ==
  /\ due' = [i \in Ids |-> IF i \in S THEN code ELSE due[i]]
  /\ UNCHANGED pendVars

\* The entries of S leave pendingRequests_, their stored timers are canceled
\* and their callbacks are about to be invoked with the given code.
Finish(S, code) ==
  /\ phase' = [i \in Ids |-> IF i \in S THEN "absent" ELSE phase[i]]
  /\ remainingResends' = [i \in Ids |-> IF i \in S THEN 0 ELSE remainingResends[i]]
  /\ timerId' = [i \in Ids |-> IF i \in S THEN "none" ELSE timerId[i]]
  /\ timers' = timers \ StoredTimers(S)
  /\ due' = [i \in Ids |-> IF i \in S THEN code ELSE due[i]]

failAllPendingRequests(code) ==
  /\ Finish(Pending, code)
  /\ userRuns' = IF Pending = {} THEN userRuns ELSE FALSE

\* Mutant: remainingResends is not looked at.
Keeps_Unlimited(i) == AllowReconnect(i)

\* Requests that may still be resent wait for the next connection, under a
\* reconnect timer; the others that wait for a response fail.
Keeps(i) == AllowReconnect(i) /\ remainingResends[i] # 0

failAllDisreconnectRequests(code) ==
  LET waiting == {i \in Ids : phase[i] = "kWaitingResponse"}
      keep    == {i \in waiting : Keeps(i)}
      fail    == waiting \ keep
  IN  /\ phase' = [i \in Ids |-> IF i \in keep THEN "kWaitingReconnect"
                                 ELSE IF i \in fail THEN "absent" ELSE phase[i]]
      /\ remainingResends' =
           [i \in Ids |-> IF i \in fail THEN 0 ELSE remainingResends[i]]
      /\ timerId' = [i \in Ids |-> IF i \in keep THEN "reconnect"
                                   ELSE IF i \in fail THEN "none" ELSE timerId[i]]
      /\ timers' = (timers \ StoredTimers(waiting)) \cup ReconnectTimers(keep)
      /\ due' = [i \in Ids |-> IF i \in fail THEN code ELSE due[i]]

\* Mutant: manualDisconnection_ is not looked at.
failOnClose_IgnoresManual(code) == failAllDisreconnectRequests(code)

\* Mutant: an unexpected close leaves the requests alone.
failOnClose_OnlyManual(code) ==
  Finish(IF manualDisconnection THEN Pending ELSE {}, code)

\* What the end of a connection does to the requests: after disconnect() none
\* is kept.
failOnClose(code) ==
  IF manualDisconnection
  THEN Finish(Pending, code)
  ELSE failAllDisreconnectRequests(code)

\* Mutant: the early return forgets the callback.
Reject_Silently(i, code) == UNCHANGED <<due, userRuns, pendVars, sendVars>>

\* A callback invoked at once, for a call that was never entered.
Reject(i, code) ==
  /\ due' = [due EXCEPT ![i] = code]
  /\ userRuns' = FALSE
  /\ UNCHANGED <<pendVars, sendVars>>

\* encode() fails only for a field longer than UINT32_MAX, which the size check
\* has refused before: "encode error" does not occur, here and in checkReconnect.
callInLoop(i) ==
  LET p == params[i] IN
  IF ~(status = "kConnected" /\ conn = "up")
  THEN Reject(i, "CONNECTION_UNAVAILABLE")
  ELSE IF p.tooLarge
  THEN Reject(i, "MESSAGE_TOO_LARGE")
  ELSE IF TooManyPending
  THEN Reject(i, "RESOURCE_EXHAUSTED")
  ELSE /\ phase' = [phase EXCEPT ![i] = "kWaitingResponse"]
       /\ remainingResends' = [remainingResends EXCEPT ![i] = p.resendLimit]
       /\ timerId' = [timerId EXCEPT ![i] = IF HasTimeout(i) THEN "request" ELSE "none"]
       /\ timers' = IF HasTimeout(i) THEN timers \cup {<<i, "request">>} ELSE timers
       /\ wire' = wire \cup {i}
       /\ sent' = [sent EXCEPT ![i] = @ + 1]
       /\ UNCHANGED <<due, userRuns>>

\* The Cancel frame goes out when the connection is up; the model keeps no
\* record of it, since the client itself never looks at it again.
cancelInLoop(i) ==
  IF i \notin Pending
  THEN UNCHANGED <<pendVars, ignored, due, userRuns>>
  ELSE /\ Finish({i}, "REQUEST_CANCELED")
       /\ IgnoreLate(i)
       /\ userRuns' = FALSE

\* conn->forceClose(): connected() turns false now, onConnection comes later.
ForceClose == conn' = "closing"
-----------------------------------------------------------------------------
(***************************************************************************)
(* The public operations, used by user code on the loop thread             *)
(***************************************************************************)
Connect ==
  /\ UserTurn
  /\ status = "kDisconnected"
  /\ status' = "kConnecting"
  /\ tcp' = "connecting"
  /\ UNCHANGED <<alive, callVars, manualDisconnection, conn, retry, pendVars,
                 ignored, due, after, userRuns, sendVars, expired, rounds, doneVars>>

Disconnect ==
  /\ UserTurn
  /\ manualDisconnection' = TRUE
  /\ tcp' = "idle"
  /\ conn' = IF conn = "up" THEN "closing" ELSE conn
  /\ IF status = "kConnected"
     THEN /\ status' = "kDisconnecting"
          /\ UNCHANGED <<pendVars, due, userRuns>>
     ELSE /\ status' = IF status = "kConnecting" THEN "kDisconnected" ELSE status
          /\ failAllPendingRequests("CONNECTION_CLOSED")
  /\ UNCHANGED <<alive, callVars, retry, ignored, after, sendVars, expired,
                 rounds, doneVars>>

EnableRetry ==
  /\ UserTurn
  /\ ~retry
  /\ retry' = TRUE
  /\ UNCHANGED <<alive, callVars, status, manualDisconnection, conn, tcp, pendVars,
                 ignored, due, after, userRuns, sendVars, expired, rounds, doneVars>>

DisableRetry ==
  /\ UserTurn
  /\ retry
  /\ retry' = FALSE
  /\ tcp' = IF tcp = "retrying" THEN "idle" ELSE tcp
  /\ UNCHANGED <<alive, callVars, status, manualDisconnection, conn, pendVars,
                 ignored, due, after, userRuns, sendVars, expired, rounds, doneVars>>

\* call() on the loop thread: the id is drawn and callInLoop runs at once.
Call ==
  /\ UserTurn
  /\ nextRequestId \in Ids
  /\ nextRequestId' = nextRequestId + 1
  /\ callInLoop(nextRequestId)
  /\ UNCHANGED <<alive, drawn, loopQueue, params, netVars, ignored, after,
                 expired, rounds, doneVars>>

\* cancel() on the loop thread, of any id a call() has returned.
Cancel(i) ==
  /\ UserTurn
  /\ i < nextRequestId /\ i \notin drawn
  /\ cancelInLoop(i)
  /\ UNCHANGED <<alive, callVars, netVars, after, sendVars, expired, rounds, doneVars>>

\* ~RpcClient, on the loop thread, outside any handler of this client.  That
\* no functor which captured "this" is left is the caller's obligation.
Destroy ==
  /\ UserTurn /\ Idle
  /\ drawn = {} /\ loopQueue = <<>>
  /\ alive' = FALSE
  /\ phase' = [i \in Ids |-> "absent"]
  /\ remainingResends' = [i \in Ids |-> 0]
  /\ timerId' = [i \in Ids |-> "none"]
  /\ timers' = timers \ StoredTimers(Pending)
  /\ ignored' = {}
  /\ conn' = "null" /\ tcp' = "idle"
  /\ wire' = {}
  /\ UNCHANGED <<callVars, status, manualDisconnection, retry, due, after, userRuns,
                 sent, expired, rounds, doneVars>>
-----------------------------------------------------------------------------
(***************************************************************************)
(* call() and cancel() from a thread that is not the loop thread           *)
(***************************************************************************)
\* nextRequestId_.fetch_add(1)
DrawId ==
  /\ nextRequestId \in Ids
  /\ nextRequestId' = nextRequestId + 1
  /\ drawn' = drawn \cup {nextRequestId}
  /\ UNCHANGED <<alive, loopQueue, params, netVars, pendVars, ignored, due, after,
                 userRuns, sendVars, expired, rounds, doneVars>>

\* loop_->queueInLoop of the functor that runs callInLoop
QueueCall(i) ==
  /\ i \in drawn
  /\ drawn' = drawn \ {i}
  /\ loopQueue' = Append(loopQueue, [op |-> "call", id |-> i])
  /\ UNCHANGED <<alive, nextRequestId, params, netVars, pendVars, ignored, due, after,
                 userRuns, sendVars, expired, rounds, doneVars>>

\* Mutant: the cancellation overtakes what is queued.
QueueCancel_Front(i) ==
  /\ i < nextRequestId /\ i \notin drawn
  /\ \A k \in DOMAIN loopQueue : loopQueue[k] # [op |-> "cancel", id |-> i]
  /\ loopQueue' = <<[op |-> "cancel", id |-> i]>> \o loopQueue
  /\ UNCHANGED <<alive, nextRequestId, drawn, params, netVars, pendVars, ignored, due,
                 after, userRuns, sendVars, expired, rounds, doneVars>>

\* loop_->queueInLoop of the functor that runs cancelInLoop; one such functor
\* per id at a time bounds the queue.
QueueCancel(i) ==
  /\ i < nextRequestId /\ i \notin drawn
  /\ \A k \in DOMAIN loopQueue : loopQueue[k] # [op |-> "cancel", id |-> i]
  /\ loopQueue' = Append(loopQueue, [op |-> "cancel", id |-> i])
  /\ UNCHANGED <<alive, nextRequestId, drawn, params, netVars, pendVars, ignored, due,
                 after, userRuns, sendVars, expired, rounds, doneVars>>

\* The loop runs the oldest queued functor.
RunQueuedCall ==
  /\ Idle
  /\ loopQueue # <<>> /\ Head(loopQueue).op = "call"
  /\ loopQueue' = Tail(loopQueue)
  /\ callInLoop(Head(loopQueue).id)
  /\ UNCHANGED <<alive, nextRequestId, drawn, params, netVars, ignored, after,
                 expired, rounds, doneVars>>

RunQueuedCancel ==
  /\ Idle
  /\ loopQueue # <<>> /\ Head(loopQueue).op = "cancel"
  /\ loopQueue' = Tail(loopQueue)
  /\ cancelInLoop(Head(loopQueue).id)
  /\ UNCHANGED <<alive, nextRequestId, drawn, params, netVars, after, sendVars,
                 expired, rounds, doneVars>>
-----------------------------------------------------------------------------
(***************************************************************************)
(* Handlers of connection events                                           *)
(***************************************************************************)
\* onConnection, connected: up to the user's connection callback.
OnConnected ==
  /\ Idle
  /\ conn = "null" /\ tcp # "idle"
  /\ tcp' = "idle"
  /\ conn' = "up"
  /\ status' = "kConnected"
  /\ manualDisconnection' = FALSE
  /\ after' = "up" /\ userRuns' = TRUE
  /\ UNCHANGED <<alive, callVars, retry, pendVars, ignored, due, sendVars, expired,
                 rounds, doneVars>>

\* Mutant: only requests that carry a response timeout are sent again.
Resendable_OnlyTimed ==
  {i \in Ids : phase[i] = "kWaitingReconnect" /\ Keeps(i) /\ HasTimeout(i)}

\* Mutant: the phase is not looked at.
Resendable_AnyPhase == {i \in Ids : phase[i] # "absent" /\ Keeps(i)}

\* ... and from its return: the requests that wait for a connection are sent
\* again on this one, unless the callback has ended it.
Resendable == {i \in Ids : phase[i] = "kWaitingReconnect" /\ Keeps(i)}

checkReconnect ==
  LET again == IF status = "kConnected" /\ conn = "up" THEN Resendable ELSE {}
      timed == {i \in again : HasTimeout(i)}
  IN  /\ phase' = [i \in Ids |-> IF i \in again THEN "kWaitingResponse" ELSE phase[i]]
      /\ remainingResends' = [i \in Ids |-> IF i \in again THEN remainingResends[i] - 1
                                            ELSE remainingResends[i]]
      /\ timerId' = [i \in Ids |-> IF i \in timed THEN "request"
                                   ELSE IF i \in again THEN "none" ELSE timerId[i]]
      /\ timers' = (timers \ StoredTimers(again)) \cup (timed \X {"request"})
      /\ wire' = wire \cup again
      /\ sent' = [i \in Ids |-> IF i \in again THEN sent[i] + 1 ELSE sent[i]]

ResendWaiting ==
  /\ after = "up" /\ \A i \in Ids : due[i] = "none"
  /\ after' = "none"
  /\ checkReconnect
  /\ UNCHANGED <<alive, callVars, netVars, ignored, due, userRuns, expired, rounds,
                 doneVars>>

\* onConnection, not connected: status and pending requests ...
OnClosed ==
  /\ Idle
  /\ conn # "null"
  /\ status' = "kDisconnected"
  /\ conn' = "null"
  /\ tcp' = IF retry /\ ~manualDisconnection THEN "retrying" ELSE "idle"
  /\ wire' = {}
  /\ failOnClose("CONNECTION_CLOSED")
  /\ after' = "closed" /\ userRuns' = FALSE
  /\ UNCHANGED <<alive, callVars, manualDisconnection, retry, ignored, sent, expired,
                 rounds, doneVars>>

\* onConnectionError: a connect attempt has failed.
OnConnectionError ==
  /\ Idle
  /\ conn = "null" /\ tcp # "idle"
  /\ status' = "kDisconnected"
  /\ tcp' = IF retry THEN "retrying" ELSE "idle"
  /\ failAllDisreconnectRequests("CONNECTION_UNAVAILABLE")
  /\ after' = "closed" /\ userRuns' = FALSE
  /\ UNCHANGED <<alive, callVars, manualDisconnection, conn, retry, ignored, sendVars,
                 expired, rounds, doneVars>>

\* ... and both handlers once the request callbacks have returned: the ids to
\* ignore are forgotten and the user's connection callback runs.
AfterClosed ==
  /\ after = "closed" /\ \A i \in Ids : due[i] = "none"
  /\ after' = "none" /\ userRuns' = TRUE
  /\ ignored' = {} /\ expired' = {}
  /\ UNCHANGED <<alive, callVars, netVars, pendVars, due, sendVars, rounds, doneVars>>

\* The peer closes its direction; the client answers with conn->shutdown().
PeerHalfClose ==
  /\ Idle
  /\ conn = "up"
  /\ conn' = "closing"
  /\ UNCHANGED <<alive, callVars, status, manualDisconnection, tcp, retry, pendVars,
                 ignored, due, after, userRuns, sendVars, expired, rounds, doneVars>>
-----------------------------------------------------------------------------
(***************************************************************************)
(* Handlers of messages and timers                                         *)
(***************************************************************************)
\* onRpcMessage, for a well-formed response.  The peer is arbitrary: it may
\* answer any id at any time.
OnResponse(i) ==
  /\ Idle
  /\ conn # "null"
  /\ wire' = wire \ {i}
  /\ \/ /\ i \in Pending
        /\ Finish({i}, "RESPONSE")
        /\ userRuns' = FALSE
        /\ UNCHANGED <<conn, ignored>>
     \/ /\ i \notin Pending /\ i \in ignored
        /\ ignored' = ignored \ {i}
        /\ UNCHANGED <<conn, pendVars, due, userRuns>>
     \/ /\ i \notin Pending /\ i \notin ignored
        /\ ForceClose
        /\ UNCHANGED <<ignored, pendVars, due, userRuns>>
  /\ UNCHANGED <<alive, callVars, status, manualDisconnection, tcp, retry, after, sent,
                 expired, rounds, doneVars>>

\* onRpcMessage, for an empty, oversized, undecodable or wrongly typed message.
OnBadMessage ==
  /\ Idle
  /\ conn # "null"
  /\ ForceClose
  /\ UNCHANGED <<alive, callVars, status, manualDisconnection, tcp, retry, pendVars,
                 ignored, due, after, userRuns, sendVars, expired, rounds, doneVars>>

\* A timer that fires leaves the loop's set of armed timers by itself.
onRequestTimeout(i) ==
  /\ Idle
  /\ <<i, "request">> \in timers
  /\ IF phase[i] = "kWaitingResponse"
     THEN /\ phase' = [phase EXCEPT ![i] = "absent"]
          /\ remainingResends' = [remainingResends EXCEPT ![i] = 0]
          /\ timerId' = [timerId EXCEPT ![i] = "none"]
          /\ IgnoreLate(i)
          /\ due' = [due EXCEPT ![i] = "REQUEST_TIMEOUT"]
          /\ userRuns' = FALSE
     ELSE UNCHANGED <<phase, remainingResends, timerId, ignored, due, userRuns>>
  /\ timers' = timers \ {<<i, "request">>}
  /\ UNCHANGED <<alive, callVars, netVars, after, sendVars, expired, rounds, doneVars>>

onReconnectTimeout(i) ==
  /\ Idle
  /\ <<i, "reconnect">> \in timers
  /\ IF phase[i] # "kWaitingReconnect"
     THEN /\ timers' = timers \ {<<i, "reconnect">>}
          /\ UNCHANGED <<phase, remainingResends, timerId, due, userRuns, rounds>>
     ELSE /\ rounds' = [rounds EXCEPT ![i] = @ + 1]
          /\ remainingResends' = [remainingResends EXCEPT ![i] = @ - 1]
          /\ IF remainingResends[i] = 1
             THEN /\ phase' = [phase EXCEPT ![i] = "absent"]
                  /\ timerId' = [timerId EXCEPT ![i] = "none"]
                  /\ timers' = timers \ {<<i, "reconnect">>}
                  /\ due' = [due EXCEPT ![i] = "RECONNECT_TIMEOUT"]
                  /\ userRuns' = FALSE
             ELSE UNCHANGED <<phase, timerId, timers, due, userRuns>> \* armed again
  /\ UNCHANGED <<alive, callVars, netVars, ignored, after, sendVars, expired, doneVars>>

\* The periodic timer drops the ids whose minute is over.
clearExpiredIgnoredResponseRequests ==
  /\ Idle
  /\ \E S \in SUBSET ignored :
       /\ S # {}
       /\ ignored' = ignored \ S
       /\ expired' = expired \cup S
  /\ UNCHANGED <<alive, callVars, netVars, pendVars, due, after, userRuns, sendVars,
                 rounds, doneVars>>

\* A handler invokes a callback it owes; user code runs in it.
InvokeCallback(i) ==
  /\ due[i] # "none"
  /\ due' = [due EXCEPT ![i] = "none"]
  /\ fired' = [fired EXCEPT ![i] = @ + 1]
  /\ outcome' = [outcome EXCEPT ![i] = due[i]]
  /\ userRuns' = TRUE
  /\ UNCHANGED <<alive, callVars, netVars, pendVars, ignored, after, sendVars, expired,
                 rounds>>
-----------------------------------------------------------------------------
UserStep ==
  \/ Connect \/ Disconnect \/ EnableRetry \/ DisableRetry \/ Call
  \/ \E i \in Ids : Cancel(i)
  \/ Destroy

ThreadStep ==
  \/ DrawId
  \/ \E i \in Ids : QueueCall(i) \/ QueueCancel(i)

LoopStep ==
  \/ RunQueuedCall \/ RunQueuedCancel
  \/ OnConnected \/ ResendWaiting \/ OnClosed \/ OnConnectionError
  \/ AfterClosed \/ PeerHalfClose \/ OnBadMessage
  \/ clearExpiredIgnoredResponseRequests
  \/ \E i \in Ids : \/ OnResponse(i) \/ onRequestTimeout(i)
                    \/ onReconnectTimeout(i) \/ InvokeCallback(i)

Next == alive /\ (UserStep \/ ThreadStep \/ LoopStep)

Spec == Init /\ [][Next]_vars

\* The EventLoop runs what is queued and what is due: a queued functor, an
\* expired timer.  They are enabled between two handlers only, hence SF.
\* Handlers finish and threads are scheduled: WF.  Nothing is assumed of the
\* user, of the network or of the peer.
Fairness ==
  /\ WF_vars(alive /\ ResendWaiting)
  /\ WF_vars(alive /\ AfterClosed)
  /\ SF_vars(alive /\ RunQueuedCall)
  /\ SF_vars(alive /\ RunQueuedCancel)
  /\ \A i \in Ids : /\ WF_vars(alive /\ QueueCall(i))
                    /\ WF_vars(alive /\ InvokeCallback(i))
                    /\ SF_vars(alive /\ onRequestTimeout(i))
                    /\ SF_vars(alive /\ onReconnectTimeout(i))

FairSpec == Spec /\ Fairness
-----------------------------------------------------------------------------
(***************************************************************************)
(* Properties                                                              *)
(***************************************************************************)
QueuedCall(i) == \E k \in DOMAIN loopQueue : loopQueue[k] = [op |-> "call", id |-> i]

Holders == {"thread", "queue", "pending", "handler", "done"}

\* Where the callback of call i is.
Holds(h, i) == CASE h = "thread"  -> i \in drawn
                 [] h = "queue"   -> QueuedCall(i)
                 [] h = "pending" -> i \in Pending
                 [] h = "handler" -> due[i] # "none"
                 [] h = "done"    -> fired[i] = 1

\* call()'s callback is invoked exactly once: until the client is destroyed,
\* the callback of every id handed out is in exactly one place (a thread in
\* call(), the loop's queue, pendingRequests_, a handler about to invoke it,
\* or done), whatever response, timeout, cancellation and close race for it.
CallbackOwnership ==
  /\ \A i \in Ids : fired[i] \in {0, 1}
  /\ \A i \in Ids : i >= nextRequestId => \A h \in Holders : ~Holds(h, i)
  /\ alive => \A i \in Ids : i < nextRequestId =>
       \E h \in Holders : Holds(h, i) /\ \A g \in Holders \ {h} : ~Holds(g, i)

\* The armed timers are exactly those pendingRequests_ names: a stale timer
\* would fire for a request in another phase, or into a destroyed client
\* (~RpcClient cancels what clearPendingRequests finds), a missing one would
\* leave a request waiting for ever.
TimersMatchPending ==
  /\ timers = {t \in Ids \X TimerKinds : t[1] \in Pending /\ timerId[t[1]] = t[2]}
  /\ \A i \in Pending :
       timerId[i] = IF phase[i] = "kWaitingReconnect" THEN "reconnect"
                    ELSE IF params[i].timeout THEN "request" ELSE "none"

\* A request that waits for a response was sent on the current connection and
\* one that waits for a connection was not: a request is never left waiting
\* for an answer that the connection it went out on can no longer bring.
WaitsForTheRightThing ==
  \A i \in Ids : /\ phase[i] = "kWaitingResponse" => conn # "null" /\ i \in wire
                 /\ phase[i] = "kWaitingReconnect" => i \notin wire

\* Once onConnection has returned, every kept request has been sent again on
\* the new connection (checkReconnect), although the user's connection
\* callback runs first and may call(), cancel() and disconnect().
ReconnectedMeansResent ==
  after # "up" /\ status = "kConnected" /\ conn = "up" =>
    \A i \in Ids : phase[i] # "kWaitingReconnect"

\* README.md, resending: a resend and an expired wait each use up one of the
\* request's chances, so a request is sent at most 1 + resendLimit times.
\* remainingResends is a uint8_t that two handlers decrement: it never wraps.
ResendBudget ==
  \A i \in Ids :
    /\ i \in Pending =>
         (sent[i] - 1) + rounds[i] + remainingResends[i] = params[i].resendLimit
    /\ sent[i] <= 1 + params[i].resendLimit
    /\ ~AllowReconnect(i) => sent[i] <= 1

\* A call answered with one of callInLoop's own errors was never sent, so the
\* caller may safely repeat it.  CONNECTION_UNAVAILABLE is also what
\* onConnectionError gives to requests that wait for a response: there are none.
UnsentErrors ==
  \A i \in Ids :
    {due[i], outcome[i]} \cap {"CONNECTION_UNAVAILABLE", "MESSAGE_TOO_LARGE",
                               "RESOURCE_EXHAUSTED"} # {} => sent[i] = 0

\* README.md, request life cycle: disconnect() keeps no request for resending,
\* and none comes back before the next connect() has succeeded.
ManualDisconnectKeepsNothing ==
  manualDisconnection /\ status \in {"kDisconnected", "kConnecting"} => Pending = {}

\* setMaxPendingRequests: the limit holds although requests that wait for a
\* reconnect still count and re-entrant calls add to pendingRequests_.
PendingBounded == Cardinality(Pending) <= MaxPending

\* README.md, request life cycle: a late response is ignored.  While the
\* connection is up, every request it still owes an answer to is either
\* pending or known as ignorable, up to its one minute deadline: the answer
\* never closes the connection as unknown.
LateResponseTolerated ==
  conn = "up" =>
    wire \subseteq {i \in Ids : phase[i] = "kWaitingResponse"} \cup ignored \cup expired

QueuedCancel(i) == \E k \in DOMAIN loopQueue : loopQueue[k] = [op |-> "cancel", id |-> i]

\* README.md, threads: cancel() may come from another thread.  When such a
\* cancellation has run, its call is neither pending nor still to be entered:
\* queued behind the call's own functor it cannot overtake it, and no request
\* goes out after it.
QueuedCancelTakesEffect ==
  [][\A i \in Ids : QueuedCancel(i) /\ ~QueuedCancel(i)' =>
       ~QueuedCall(i)' /\ i \notin Pending']_vars

\* The call as its user sees it.
CallState(i) == IF fired[i] > 0 THEN "done"
                ELSE IF due[i] # "none" THEN "settled"
                ELSE IF phase[i] = "kWaitingResponse" THEN "sent"
                ELSE IF phase[i] = "kWaitingReconnect" THEN "parked"
                ELSE IF i >= nextRequestId THEN "unused"
                ELSE IF alive THEN "submitted" ELSE "dropped"

Promise == INSTANCE RpcCall WITH
  Calls  <- Ids,
  state  <- [i \in Ids |-> CallState(i)],
  result <- [i \in Ids |-> IF due[i] # "none" THEN due[i] ELSE outcome[i]]

\* The client implements the life of a call that RpcCall describes: one
\* decision per call, of a kind that fits the state the call was in, which
\* nothing revises; no call in flight is ever forgotten except by ~RpcClient.
ImplementsCall == Promise!Spec

\* A call with a timeout is answered, whatever the network does and however
\* often the connection is lost and the request resent.
TimedCallsComplete ==
  \A i \in Ids : (i < nextRequestId /\ params[i].timeout) ~> (fired[i] = 1 \/ ~alive)

\* A request does not wait for a connection for ever: it is resent, fails when
\* its chances are used up, or is ended by cancel(), disconnect() or ~RpcClient.
ReconnectWaitEnds ==
  \A i \in Ids : phase[i] = "kWaitingReconnect" ~> phase[i] # "kWaitingReconnect"
=============================================================================
