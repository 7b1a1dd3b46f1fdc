--------------------------- MODULE RpcClientProofs ---------------------------
(***************************************************************************)
(* Proofs about RpcClient, for any number of calls, any limit of pending   *)
(* requests and any resend limits: first where the callback of a call is   *)
(* (ClientInv), then what the connection, the loop's timers and the loop's *)
(* queue have to do with the pending requests (ConnInv), and the           *)
(* refinement of RpcCall.                                                  *)
(***************************************************************************)
EXTENDS RpcClient, TLAPS, FiniteSetTheorems

-----------------------------------------------------------------------------
(***************************************************************************)
(* The loop's queue                                                        *)
(***************************************************************************)
In(t, s)     == \E k \in DOMAIN s : s[k] = t
Distinct(s)  == \A k, l \in DOMAIN s : s[k] = s[l] => k = l

\* Adding at the end (tasks_.emplace, queueInLoop): exactly the new element is
\* added, and a queue without duplicates to which it is new stays one.
LEMMA AppendFacts ==
  ASSUME NEW S, NEW s \in Seq(S), NEW e \in S
  PROVE  /\ Append(s, e) \in Seq(S)
         /\ Append(s, e) # <<>>
         /\ \A t \in S : In(t, Append(s, e)) <=> In(t, s) \/ t = e
         /\ Distinct(s) /\ ~In(e, s) => Distinct(Append(s, e))
<1>1. /\ Append(s, e) \in Seq(S) /\ Append(s, e) # <<>>
      /\ Len(s) \in Nat /\ DOMAIN s = 1..Len(s)
      /\ DOMAIN Append(s, e) = 1..(Len(s) + 1)
      /\ \A k \in 1..Len(s) : Append(s, e)[k] = s[k]
      /\ Append(s, e)[Len(s) + 1] = e
  OBVIOUS
<1>2. ASSUME NEW t \in S PROVE In(t, Append(s, e)) <=> In(t, s) \/ t = e
  BY <1>1 DEF In
<1>3. Distinct(s) /\ ~In(e, s) => Distinct(Append(s, e))
  BY <1>1 DEF In, Distinct
<1> QED BY <1>1, <1>2, <1>3

\* Taking from the front (tasks_.pop, the loop running a functor): exactly the
\* first element is removed.
LEMMA TailFacts ==
  ASSUME NEW S, NEW s \in Seq(S), s # <<>>, Distinct(s)
  PROVE  /\ Head(s) \in S /\ In(Head(s), s)
         /\ Tail(s) \in Seq(S)
         /\ Distinct(Tail(s))
         /\ \A t : In(t, Tail(s)) <=> In(t, s) /\ t # Head(s)
<1> DEFINE u == Tail(s)
<1>1. Len(s) \in Nat \ {0} /\ u \in Seq(S) /\ Len(u) = Len(s) - 1
      /\ Head(s) = s[1] /\ s[1] \in S
      /\ \A k \in 1..Len(u) : u[k] = s[k + 1]
  OBVIOUS
<1>2. DOMAIN s = 1..Len(s) /\ DOMAIN u = 1..(Len(s) - 1)
  BY <1>1
<1> HIDE DEF u
<1>3. Distinct(u)
  <2> SUFFICES ASSUME NEW k \in DOMAIN u, NEW l \in DOMAIN u, u[k] = u[l] PROVE k = l
    BY DEF Distinct
  <2>1. k + 1 \in DOMAIN s /\ l + 1 \in DOMAIN s /\ s[k + 1] = s[l + 1]
    BY <1>1, <1>2
  <2> QED BY <2>1, <1>2 DEF Distinct
<1>4. ASSUME NEW t, In(t, u) PROVE In(t, s) /\ t # Head(s)
  <2>1. PICK k \in DOMAIN u : u[k] = t
    BY <1>4 DEF In
  <2>2. k + 1 \in DOMAIN s /\ s[k + 1] = t /\ 1 \in DOMAIN s /\ k + 1 # 1
    BY <1>1, <1>2, <2>1
  <2> QED BY <1>1, <2>2 DEF In, Distinct
<1>5. ASSUME NEW t, In(t, s), t # Head(s) PROVE In(t, u)
  <2>1. PICK k \in DOMAIN s : s[k] = t
    BY <1>5 DEF In
  <2>2. k # 1
    BY <2>1, <1>5, <1>1
  <2>3. k - 1 \in DOMAIN u /\ u[k - 1] = s[(k - 1) + 1] /\ (k - 1) + 1 = k
    BY <1>1, <1>2, <2>2
  <2> QED BY <2>1, <2>3 DEF In
<1>6. In(Head(s), s)
  BY <1>1, <1>2 DEF In
<1> QED BY <1>1, <1>3, <1>4, <1>5, <1>6 DEF u

\* In the queue, a comes only before b.
Precedes(a, b, s) == \A k, l \in DOMAIN s : s[k] = b /\ s[l] = a => l < k

\* It stays so when an element joins, unless that is an a behind a b.
LEMMA AppendPrecedes ==
  ASSUME NEW S, NEW s \in Seq(S), NEW e \in S, NEW a, NEW b, a # b,
         Precedes(a, b, s), e = a => ~In(b, s)
  PROVE  Precedes(a, b, Append(s, e))
<1>1. /\ Len(s) \in Nat /\ DOMAIN s = 1..Len(s)
      /\ DOMAIN Append(s, e) = 1..(Len(s) + 1)
      /\ \A k \in 1..Len(s) : Append(s, e)[k] = s[k]
      /\ Append(s, e)[Len(s) + 1] = e
  OBVIOUS
<1> SUFFICES ASSUME NEW k \in 1..(Len(s) + 1), NEW l \in 1..(Len(s) + 1),
                    Append(s, e)[k] = b, Append(s, e)[l] = a
             PROVE  l < k
  BY <1>1 DEF Precedes
<1>2. CASE k = Len(s) + 1
  BY <1>1, <1>2
<1>3. CASE k # Len(s) + 1
  <2>1. k \in DOMAIN s /\ s[k] = b
    BY <1>1, <1>3
  <2>2. l \in DOMAIN s /\ s[l] = a
    BY <1>1, <2>1 DEF In
  <2> QED BY <2>1, <2>2 DEF Precedes
<1> QED BY <1>2, <1>3

\* It stays so when the front leaves, and no a is left behind a b that does.
LEMMA TailPrecedes ==
  ASSUME NEW S, NEW s \in Seq(S), s # <<>>, NEW a, NEW b, Precedes(a, b, s)
  PROVE  Precedes(a, b, Tail(s)) /\ (Head(s) = b => ~In(a, Tail(s)))
<1> DEFINE u == Tail(s)
<1>1. Len(s) \in Nat \ {0} /\ u \in Seq(S) /\ Len(u) = Len(s) - 1 /\ Head(s) = s[1]
      /\ \A k \in 1..Len(u) : u[k] = s[k + 1]
  OBVIOUS
<1>2. DOMAIN s = 1..Len(s) /\ DOMAIN u = 1..(Len(s) - 1)
  BY <1>1
<1> HIDE DEF u
<1>3. \A k \in DOMAIN u : k \in Nat \ {0} /\ k + 1 \in DOMAIN s /\ u[k] = s[k + 1]
  BY <1>1, <1>2
<1>4. ASSUME NEW k \in DOMAIN u, NEW l \in DOMAIN u, u[k] = b, u[l] = a PROVE l < k
  <2>1. l + 1 < k + 1
    BY <1>3, <1>4 DEF Precedes
  <2> QED BY <1>3, <2>1
<1>5. ASSUME Head(s) = b, NEW l \in DOMAIN u, u[l] = a PROVE FALSE
  <2>1. 1 \in DOMAIN s /\ s[1] = b
    BY <1>1, <1>2, <1>5
  <2>2. l + 1 < 1
    BY <1>3, <1>5, <2>1 DEF Precedes
  <2> QED BY <1>3, <2>2
<1> QED BY <1>4, <1>5 DEF Precedes, In, u
-----------------------------------------------------------------------------
(***************************************************************************)
(* The inductive invariant                                                 *)
(***************************************************************************)
\* Of the five places where the callback of a call can be, no two hold it, and
\* while the client exists one of them does.
PlacedAt(i) ==
  /\ i \in drawn => ~QueuedCall(i) /\ phase[i] = "absent" /\ due[i] = "none" /\ fired[i] = 0
  /\ QueuedCall(i) => phase[i] = "absent" /\ due[i] = "none" /\ fired[i] = 0
  /\ phase[i] # "absent" => due[i] = "none" /\ fired[i] = 0
  /\ due[i] # "none" => fired[i] = 0
  /\ fired[i] \in {0, 1}
  /\ i >= nextRequestId => /\ i \notin drawn /\ ~QueuedCall(i) /\ phase[i] = "absent"
                           /\ due[i] = "none" /\ fired[i] = 0
  /\ alive /\ i < nextRequestId =>
       i \in drawn \/ QueuedCall(i) \/ phase[i] # "absent" \/ due[i] # "none" \/ fired[i] = 1

Placed == Distinct(loopQueue) /\ \A i \in Ids : PlacedAt(i)

\* What is left of the resend limit: every resend and every expired wait is
\* paid for.  A call that has not been entered yet has used nothing.
BudgetAt(i) ==
  /\ phase[i] # "absent" =>
       sent[i] >= 1 /\ sent[i] + rounds[i] + remainingResends[i] = params[i].resendLimit + 1
  /\ phase[i] = "kWaitingReconnect" => Keeps(i)
  /\ i \in drawn \/ QueuedCall(i) \/ i >= nextRequestId => sent[i] = 0 /\ rounds[i] = 0
  /\ sent[i] + rounds[i] <= params[i].resendLimit + 1
  /\ rounds[i] <= params[i].resendLimit
  /\ ~AllowReconnect(i) => sent[i] <= 1

Budget == \A i \in Ids : BudgetAt(i)

ClientInv == TypeOK /\ Placed /\ Budget

USE ClientAssumption DEF Ids

\* The arguments of a call have the types call() declares.
LEMMA ParamTypes ==
  ASSUME TypeOK, NEW i \in Ids
  PROVE  /\ params[i].resendLimit \in 0..MaxResends
         /\ params[i].timeout \in BOOLEAN
         /\ params[i].allowReconnect \in BOOLEAN
BY DEF TypeOK, AllParams

\* The numbers the resend limit is about are natural numbers.
LEMMA CounterTypes ==
  ASSUME TypeOK, NEW i \in Ids
  PROVE  /\ params[i].resendLimit \in Nat /\ remainingResends[i] \in Nat
         /\ sent[i] \in Nat /\ rounds[i] \in Nat
<1>1. params[i].resendLimit \in Nat
  BY ParamTypes
<1>2. remainingResends[i] \in Nat /\ sent[i] \in Nat /\ rounds[i] \in Nat
  BY DEF TypeOK
<1> QED BY <1>1, <1>2

\* A client that has just been constructed satisfies the invariant.
LEMMA ClientInit == Init => ClientInv
<1> SUFFICES ASSUME Init PROVE ClientInv
  OBVIOUS
<1>1. TypeOK
  <2>1. params \in [Ids -> AllParams]
    BY DEF Init
  <2>2. /\ loopQueue \in Seq(Functors) /\ drawn \subseteq Ids /\ timers \subseteq Ids \X TimerKinds
        /\ nextRequestId \in 1..(MaxCalls + 1)
    BY DEF Init
  <2>3. /\ remainingResends \in [Ids -> 0..MaxResends] /\ rounds \in [Ids -> 0..MaxResends]
        /\ sent \in [Ids -> 0..(MaxResends + 1)] /\ fired \in [Ids -> Nat]
    BY DEF Init
  <2>4. /\ phase \in [Ids -> Phases \cup {"absent"}]
        /\ timerId \in [Ids -> TimerKinds \cup {"none"}]
        /\ due \in [Ids -> ErrorCodes \cup {"none"}]
        /\ outcome \in [Ids -> ErrorCodes \cup {"none"}]
    BY DEF Init
  <2> QED BY <2>1, <2>2, <2>3, <2>4 DEF Init, TypeOK
<1>2. Placed
  BY DEF Init, Placed, PlacedAt, Distinct, QueuedCall
<1>3. Budget
  BY <1>1, ParamTypes DEF Init, Budget, BudgetAt, QueuedCall
<1> QED BY <1>1, <1>2, <1>3 DEF ClientInv
-----------------------------------------------------------------------------
(***************************************************************************)
(* Type correctness                                                        *)
(***************************************************************************)
PendTypes ==
  /\ phase \in [Ids -> Phases \cup {"absent"}]
  /\ remainingResends \in [Ids -> 0..MaxResends]
  /\ timerId \in [Ids -> TimerKinds \cup {"none"}]
  /\ timers \subseteq Ids \X TimerKinds

DueType == due \in [Ids -> ErrorCodes \cup {"none"}]

\* Erasing entries and handing out their callbacks keeps the types.
LEMMA FinishTypes ==
  ASSUME TypeOK, NEW S, NEW code \in ErrorCodes, Finish(S, code)
  PROVE  PendTypes' /\ DueType'
BY DEF TypeOK, Finish, PendTypes, DueType, Phases, TimerKinds

\* So does failAllDisreconnectRequests.
LEMMA FailTypes ==
  ASSUME TypeOK, NEW code \in ErrorCodes, failAllDisreconnectRequests(code)
  PROVE  PendTypes' /\ DueType'
BY DEF TypeOK, failAllDisreconnectRequests, ReconnectTimers, PendTypes, DueType, Phases,
       TimerKinds

\* So does callInLoop, for a call that has not been sent: sent stays bounded.
LEMMA CallTypes ==
  ASSUME TypeOK, NEW i \in Ids, sent[i] = 0, callInLoop(i)
  PROVE  /\ PendTypes' /\ DueType'
         /\ userRuns' \in BOOLEAN
         /\ wire' \subseteq Ids
         /\ sent' \in [Ids -> 0..(MaxResends + 1)]
<1>1. CASE Reject(i, "CONNECTION_UNAVAILABLE") \/ Reject(i, "MESSAGE_TOO_LARGE")
           \/ Reject(i, "RESOURCE_EXHAUSTED")
  BY <1>1 DEF TypeOK, Reject, PendTypes, DueType, pendVars, sendVars, ErrorCodes
<1>2. CASE /\ phase' = [phase EXCEPT ![i] = "kWaitingResponse"]
           /\ remainingResends' = [remainingResends EXCEPT ![i] = params[i].resendLimit]
           /\ timerId' = [timerId EXCEPT ![i] = IF HasTimeout(i) THEN "request" ELSE "none"]
           /\ timers' = IF HasTimeout(i) THEN timers \cup {<<i, "request">>} ELSE timers
           /\ wire' = wire \cup {i}
           /\ sent' = [sent EXCEPT ![i] = @ + 1]
           /\ UNCHANGED <<due, userRuns>>
  <2>1. params[i].resendLimit \in 0..MaxResends
    BY ParamTypes
  <2>2. sent' \in [Ids -> 0..(MaxResends + 1)]
    BY <1>2 DEF TypeOK
  <2>3. phase' \in [Ids -> Phases \cup {"absent"}]
    BY <1>2 DEF TypeOK, Phases
  <2>4. remainingResends' \in [Ids -> 0..MaxResends]
    BY <1>2, <2>1 DEF TypeOK
  <2>5. timerId' \in [Ids -> TimerKinds \cup {"none"}]
    BY <1>2 DEF TypeOK, TimerKinds
  <2>6. timers' \subseteq Ids \X TimerKinds
    <3>1. <<i, "request">> \in Ids \X TimerKinds
      BY DEF TimerKinds
    <3> QED BY <1>2, <3>1 DEF TypeOK
  <2> QED BY <1>2, <2>2, <2>3, <2>4, <2>5, <2>6 DEF TypeOK, PendTypes, DueType
<1> QED BY <1>1, <1>2 DEF callInLoop

\* So does cancelInLoop.
LEMMA CancelTypes ==
  ASSUME TypeOK, NEW i \in Ids, cancelInLoop(i)
  PROVE  PendTypes' /\ DueType' /\ ignored' \subseteq Ids /\ userRuns' \in BOOLEAN
<1>1. CASE i \notin Pending
  BY <1>1 DEF cancelInLoop, TypeOK, PendTypes, DueType, pendVars
<1>2. CASE i \in Pending
  <2>1. Finish({i}, "REQUEST_CANCELED") /\ IgnoreLate(i) /\ userRuns' = FALSE
    BY <1>2 DEF cancelInLoop
  <2>2. PendTypes' /\ DueType'
    BY <2>1, FinishTypes DEF ErrorCodes
  <2> QED BY <2>1, <2>2 DEF IgnoreLate, TypeOK
<1> QED BY <1>1, <1>2

\* So does checkReconnect; that remainingResends - 1 does not go below zero and
\* sent + 1 not above its bound needs the account that Budget keeps.
LEMMA ResendTypes ==
  ASSUME TypeOK, Budget, checkReconnect
  PROVE  PendTypes' /\ wire' \subseteq Ids /\ sent' \in [Ids -> 0..(MaxResends + 1)]
<1> DEFINE again == IF status = "kConnected" /\ conn = "up" THEN Resendable ELSE {}
<1>1. \A i \in again : /\ i \in Ids /\ phase[i] # "absent"
                       /\ remainingResends[i] - 1 \in 0..MaxResends
                       /\ sent[i] + 1 \in 0..(MaxResends + 1)
  <2> TAKE i \in again
  <2>1. i \in Ids /\ phase[i] = "kWaitingReconnect" /\ remainingResends[i] # 0
    BY DEF Resendable, Keeps
  <2>2. /\ params[i].resendLimit \in 0..MaxResends /\ remainingResends[i] \in 0..MaxResends
        /\ sent[i] \in 0..(MaxResends + 1) /\ rounds[i] \in 0..MaxResends
    BY <2>1, ParamTypes DEF TypeOK
  <2>3. sent[i] + rounds[i] + remainingResends[i] = params[i].resendLimit + 1
    BY <2>1 DEF Budget, BudgetAt
  <2> QED BY <2>1, <2>2, <2>3
<1>2. again \subseteq Ids
  BY <1>1
<1>3. /\ phase' = [i \in Ids |-> IF i \in again THEN "kWaitingResponse" ELSE phase[i]]
      /\ remainingResends' = [i \in Ids |-> IF i \in again THEN remainingResends[i] - 1
                                            ELSE remainingResends[i]]
      /\ timerId' = [i \in Ids |-> IF i \in {j \in again : HasTimeout(j)} THEN "request"
                                   ELSE IF i \in again THEN "none" ELSE timerId[i]]
      /\ timers' = (timers \ StoredTimers(again)) \cup ({j \in again : HasTimeout(j)} \X {"request"})
      /\ wire' = wire \cup again
      /\ sent' = [i \in Ids |-> IF i \in again THEN sent[i] + 1 ELSE sent[i]]
  BY DEF checkReconnect
<1> HIDE DEF again
<1> QED BY <1>1, <1>2, <1>3 DEF TypeOK, PendTypes, Phases, TimerKinds

\* TypeOK by groups of variables; an action has to show the groups it changes.
CallPart == /\ nextRequestId \in 1..(MaxCalls + 1) /\ drawn \subseteq Ids
            /\ loopQueue \in Seq(Functors) /\ params \in [Ids -> AllParams]
NetPart  == /\ status \in {"kDisconnected", "kConnecting", "kDisconnecting", "kConnected"}
            /\ conn \in {"null", "up", "closing"} /\ tcp \in {"idle", "connecting", "retrying"}
FlagPart == manualDisconnection \in BOOLEAN /\ retry \in BOOLEAN
SendPart == wire \subseteq Ids /\ sent \in [Ids -> 0..(MaxResends + 1)]
DonePart == fired \in [Ids -> Nat] /\ outcome \in [Ids -> ErrorCodes \cup {"none"}]
LatePart == ignored \subseteq Ids /\ expired \subseteq Ids
TurnPart == after \in {"none", "up", "closed"} /\ userRuns \in BOOLEAN

Parts == /\ alive \in BOOLEAN /\ rounds \in [Ids -> 0..MaxResends]
         /\ CallPart /\ NetPart /\ FlagPart /\ PendTypes /\ DueType /\ SendPart /\ DonePart
         /\ LatePart /\ TurnPart

\* The groups together are the type invariant.
LEMMA TypeParts == TypeOK <=> Parts
BY DEF TypeOK, Parts, CallPart, NetPart, FlagPart, PendTypes, DueType, SendPart, DonePart,
       LatePart, TurnPart

\* A group keeps its types when a step leaves its variables alone.
LEMMA PartsKept ==
  ASSUME TypeOK
  PROVE  /\ UNCHANGED callVars => CallPart'
         /\ UNCHANGED <<status, conn, tcp>> => NetPart'
         /\ UNCHANGED <<manualDisconnection, retry>> => FlagPart'
         /\ UNCHANGED pendVars => PendTypes'
         /\ UNCHANGED due => DueType'
         /\ UNCHANGED sendVars => SendPart'
         /\ UNCHANGED doneVars => DonePart'
         /\ UNCHANGED <<ignored, expired>> => LatePart'
         /\ UNCHANGED <<after, userRuns>> => TurnPart'
         /\ UNCHANGED rounds => (rounds \in [Ids -> 0..MaxResends])'
<1> USE TypeParts DEF Parts
<1>1. UNCHANGED callVars => CallPart'
  BY DEF callVars, CallPart
<1>2. UNCHANGED <<status, conn, tcp>> => NetPart'
  BY DEF NetPart
<1>3. UNCHANGED <<manualDisconnection, retry>> => FlagPart'
  BY Zenon DEF FlagPart
<1>4. UNCHANGED pendVars => PendTypes'
  BY DEF pendVars, PendTypes
<1>5. UNCHANGED due => DueType'
  BY DEF DueType
<1>6. UNCHANGED sendVars => SendPart'
  BY DEF sendVars, SendPart
<1>7. UNCHANGED doneVars => DonePart'
  BY DEF doneVars, DonePart
<1>8. UNCHANGED <<ignored, expired>> => LatePart'
  BY DEF LatePart
<1>9. UNCHANGED <<after, userRuns>> => TurnPart'
  BY Zenon DEF TurnPart
<1> QED BY <1>1, <1>2, <1>3, <1>4, <1>5, <1>6, <1>7, <1>8, <1>9

\* Every step of the client keeps the types.
LEMMA TypeStep == ClientInv /\ [Next]_vars => TypeOK'
<1> SUFFICES ASSUME ClientInv, [Next]_vars PROVE TypeOK'
  OBVIOUS
<1> TypeOK /\ Placed /\ Budget
  BY DEF ClientInv
<1>p. TypeOK' <=> Parts'
  BY DEF TypeOK, Parts, CallPart, NetPart, FlagPart, PendTypes, DueType, SendPart, DonePart,
         LatePart, TurnPart
<1>q. Parts
  BY TypeParts
<1> SUFFICES Parts'
  BY <1>p
<1>1. CASE Connect
  <2>1. NetPart'
    BY <1>1, <1>q DEF Connect, Parts, NetPart
  <2> QED BY <1>1, <1>q, <2>1, PartsKept DEF Connect, Parts
<1>2. CASE EnableRetry \/ DisableRetry
  <2>1. NetPart'
    BY <1>2, <1>q DEF EnableRetry, DisableRetry, Parts, NetPart
  <2>2. FlagPart'
    BY <1>2, <1>q DEF EnableRetry, DisableRetry, Parts, FlagPart
  <2> QED BY <1>2, <1>q, <2>1, <2>2, PartsKept DEF EnableRetry, DisableRetry, Parts
<1>3. CASE PeerHalfClose \/ OnBadMessage
  <2>1. NetPart'
    BY <1>3, <1>q DEF PeerHalfClose, OnBadMessage, ForceClose, Parts, NetPart
  <2> QED BY <1>3, <1>q, <2>1, PartsKept DEF PeerHalfClose, OnBadMessage, Parts
<1>4. CASE Disconnect
  <2>1. PendTypes' /\ DueType' /\ TurnPart'
    <3>1. CASE UNCHANGED <<pendVars, due, userRuns>>
      BY <1>4, <1>q, <3>1, PartsKept DEF Disconnect
    <3>2. CASE failAllPendingRequests("CONNECTION_CLOSED")
      <4>1. PendTypes' /\ DueType'
        BY <3>2, FinishTypes DEF failAllPendingRequests, ErrorCodes
      <4>2. TurnPart'
        BY <1>4, <1>q, <3>2 DEF Disconnect, failAllPendingRequests, Parts, TurnPart
      <4> QED BY <4>1, <4>2
    <3> QED BY <1>4, <3>1, <3>2 DEF Disconnect
  <2>2. NetPart'
    BY <1>4, <1>q DEF Disconnect, Parts, NetPart
  <2>3. FlagPart'
    BY <1>4, <1>q DEF Disconnect, Parts, FlagPart
  <2> QED BY <1>4, <1>q, <2>1, <2>2, <2>3, PartsKept DEF Disconnect, Parts
<1>5. CASE Call
  <2>1. nextRequestId \in Ids /\ sent[nextRequestId] = 0
    BY <1>5 DEF Call, Budget, BudgetAt
  <2>2. PendTypes' /\ DueType' /\ TurnPart' /\ SendPart'
    BY <1>5, <1>q, <2>1, CallTypes DEF Call, Parts, TurnPart, SendPart
  <2>3. CallPart'
    BY <1>5, <1>q, <2>1 DEF Call, Parts, CallPart
  <2> QED BY <1>5, <1>q, <2>2, <2>3, PartsKept DEF Call, Parts, netVars
<1>6. ASSUME NEW i \in Ids, Cancel(i) PROVE Parts'
  <2>1. PendTypes' /\ DueType' /\ ignored' \subseteq Ids /\ userRuns' \in BOOLEAN
    BY <1>6, CancelTypes DEF Cancel
  <2>2. TurnPart' /\ LatePart'
    BY <1>6, <1>q, <2>1 DEF Cancel, Parts, TurnPart, LatePart
  <2> QED BY <1>6, <1>q, <2>1, <2>2, PartsKept DEF Cancel, Parts, netVars
<1>7. CASE Destroy
  <2>1. PendTypes'
    BY <1>7, <1>q DEF Destroy, Parts, PendTypes, Phases, TimerKinds
  <2>2. NetPart' /\ LatePart' /\ SendPart'
    BY <1>7, <1>q DEF Destroy, Parts, NetPart, LatePart, SendPart
  <2> QED BY <1>7, <1>q, <2>1, <2>2, PartsKept DEF Destroy, Parts
<1>8. CASE DrawId
  <2>1. CallPart'
    BY <1>8, <1>q DEF DrawId, Parts, CallPart
  <2> QED BY <1>8, <1>q, <2>1, PartsKept DEF DrawId, Parts, netVars
<1>9. ASSUME NEW i \in Ids, QueueCall(i) \/ QueueCancel(i) PROVE Parts'
  <2>1. [op |-> "call", id |-> i] \in Functors /\ [op |-> "cancel", id |-> i] \in Functors
    BY DEF Functors
  <2>2. /\ Append(loopQueue, [op |-> "call", id |-> i]) \in Seq(Functors)
        /\ Append(loopQueue, [op |-> "cancel", id |-> i]) \in Seq(Functors)
    BY <1>q, <2>1, AppendFacts DEF Parts, CallPart
  <2>3. CallPart'
    BY <1>9, <1>q, <2>2 DEF QueueCall, QueueCancel, Parts, CallPart
  <2> QED BY <1>9, <1>q, <2>3, PartsKept DEF QueueCall, QueueCancel, Parts, netVars
<1>10. CASE RunQueuedCall
  <2> DEFINE i == Head(loopQueue).id
  <2>1. /\ Head(loopQueue) \in Functors /\ Tail(loopQueue) \in Seq(Functors)
        /\ In(Head(loopQueue), loopQueue)
    BY <1>10, <1>q, TailFacts DEF RunQueuedCall, Parts, CallPart, Placed
  <2>2. i \in Ids /\ Head(loopQueue) = [op |-> "call", id |-> i]
    BY <1>10, <2>1 DEF RunQueuedCall, Functors
  <2>3. sent[i] = 0
    BY <2>1, <2>2 DEF QueuedCall, In, Budget, BudgetAt
  <2>4. callInLoop(i)
    BY <1>10 DEF RunQueuedCall
  <2> HIDE DEF i
  <2>5. PendTypes' /\ DueType' /\ TurnPart' /\ SendPart'
    BY <1>10, <1>q, <2>2, <2>3, <2>4, CallTypes DEF RunQueuedCall, Parts, TurnPart, SendPart
  <2>6. CallPart'
    BY <1>10, <1>q, <2>1 DEF RunQueuedCall, Parts, CallPart
  <2> QED BY <1>10, <1>q, <2>5, <2>6, PartsKept DEF RunQueuedCall, Parts, netVars
<1>11. CASE RunQueuedCancel
  <2> DEFINE i == Head(loopQueue).id
  <2>1. Head(loopQueue) \in Functors /\ Tail(loopQueue) \in Seq(Functors)
    BY <1>11, <1>q, TailFacts DEF RunQueuedCancel, Parts, CallPart, Placed
  <2>2. i \in Ids
    BY <2>1 DEF Functors
  <2>3. cancelInLoop(i)
    BY <1>11 DEF RunQueuedCancel
  <2> HIDE DEF i
  <2>4. PendTypes' /\ DueType' /\ ignored' \subseteq Ids /\ userRuns' \in BOOLEAN
    BY <2>2, <2>3, CancelTypes
  <2>5. CallPart' /\ TurnPart' /\ LatePart'
    BY <1>11, <1>q, <2>1, <2>4 DEF RunQueuedCancel, Parts, CallPart, TurnPart, LatePart
  <2> QED BY <1>11, <1>q, <2>4, <2>5, PartsKept DEF RunQueuedCancel, Parts, netVars
<1>12. CASE OnConnected
  <2>1. NetPart' /\ FlagPart' /\ TurnPart'
    BY <1>12, <1>q DEF OnConnected, Parts, NetPart, FlagPart, TurnPart
  <2> QED BY <1>12, <1>q, <2>1, PartsKept DEF OnConnected, Parts
<1>13. CASE ResendWaiting
  <2>1. PendTypes' /\ SendPart'
    BY <1>13, ResendTypes DEF ResendWaiting, SendPart
  <2>2. TurnPart'
    BY <1>13, <1>q DEF ResendWaiting, Parts, TurnPart
  <2> QED BY <1>13, <1>q, <2>1, <2>2, PartsKept DEF ResendWaiting, Parts, netVars
<1>14. CASE OnClosed
  <2>1. PendTypes' /\ DueType'
    BY <1>14, FinishTypes, FailTypes DEF OnClosed, failOnClose, ErrorCodes
  <2>2. NetPart' /\ TurnPart' /\ SendPart'
    BY <1>14, <1>q DEF OnClosed, Parts, NetPart, TurnPart, SendPart
  <2> QED BY <1>14, <1>q, <2>1, <2>2, PartsKept DEF OnClosed, Parts
<1>15. CASE OnConnectionError
  <2>1. PendTypes' /\ DueType'
    BY <1>15, FailTypes DEF OnConnectionError, ErrorCodes
  <2>2. NetPart' /\ TurnPart'
    BY <1>15, <1>q DEF OnConnectionError, Parts, NetPart, TurnPart
  <2> QED BY <1>15, <1>q, <2>1, <2>2, PartsKept DEF OnConnectionError, Parts
<1>16. CASE AfterClosed
  <2>1. TurnPart' /\ LatePart'
    BY <1>16 DEF AfterClosed, TurnPart, LatePart
  <2> QED BY <1>16, <1>q, <2>1, PartsKept DEF AfterClosed, Parts, netVars
<1>17. CASE clearExpiredIgnoredResponseRequests
  <2>1. LatePart'
    BY <1>17, <1>q DEF clearExpiredIgnoredResponseRequests, Parts, LatePart
  <2> QED BY <1>17, <1>q, <2>1, PartsKept
          DEF clearExpiredIgnoredResponseRequests, Parts, netVars
<1>18. ASSUME NEW i \in Ids, OnResponse(i) PROVE Parts'
  <2>1. PendTypes' /\ DueType' /\ TurnPart'
    <3>1. CASE UNCHANGED <<pendVars, due, userRuns>>
      BY <1>18, <1>q, <3>1, PartsKept DEF OnResponse
    <3>2. CASE Finish({i}, "RESPONSE") /\ userRuns' = FALSE
      BY <1>18, <1>q, <3>2, FinishTypes DEF OnResponse, ErrorCodes, Parts, TurnPart
    <3> QED BY <1>18, <3>1, <3>2 DEF OnResponse
  <2>2. NetPart' /\ LatePart' /\ SendPart'
    BY <1>18, <1>q DEF OnResponse, ForceClose, Parts, NetPart, LatePart, SendPart
  <2> QED BY <1>18, <1>q, <2>1, <2>2, PartsKept DEF OnResponse, Parts
<1>19. ASSUME NEW i \in Ids, onRequestTimeout(i) PROVE Parts'
  <2>0. PendTypes
    BY <1>q DEF Parts
  <2>1. PendTypes'
    <3>1. phase' \in [Ids -> Phases \cup {"absent"}]
      BY <1>19, <2>0 DEF onRequestTimeout, PendTypes
    <3>2. remainingResends' \in [Ids -> 0..MaxResends]
      BY <1>19, <2>0 DEF onRequestTimeout, PendTypes
    <3>3. timerId' \in [Ids -> TimerKinds \cup {"none"}]
      BY <1>19, <2>0 DEF onRequestTimeout, PendTypes
    <3>4. timers' \subseteq Ids \X TimerKinds
      BY <1>19, <2>0 DEF onRequestTimeout, PendTypes
    <3> QED BY <3>1, <3>2, <3>3, <3>4 DEF PendTypes
  <2>2. DueType'
    BY <1>19, <1>q DEF onRequestTimeout, Parts, DueType, ErrorCodes
  <2>3. LatePart' /\ TurnPart'
    BY <1>19, <1>q DEF onRequestTimeout, IgnoreLate, Parts, LatePart, TurnPart
  <2> QED BY <1>19, <1>q, <2>1, <2>2, <2>3, PartsKept DEF onRequestTimeout, Parts, netVars
<1>20. ASSUME NEW i \in Ids, onReconnectTimeout(i) PROVE Parts'
  <2>1. phase[i] = "kWaitingReconnect" =>
          remainingResends[i] - 1 \in 0..MaxResends /\ rounds[i] + 1 \in 0..MaxResends
    <3>1. /\ params[i].resendLimit \in 0..MaxResends /\ remainingResends[i] \in 0..MaxResends
          /\ sent[i] \in 0..(MaxResends + 1) /\ rounds[i] \in 0..MaxResends
      BY <1>q, ParamTypes DEF Parts, PendTypes, SendPart
    <3>2. phase[i] = "kWaitingReconnect" =>
            /\ remainingResends[i] # 0 /\ sent[i] >= 1
            /\ sent[i] + rounds[i] + remainingResends[i] = params[i].resendLimit + 1
      BY DEF Budget, BudgetAt, Keeps
    <3> QED BY <3>1, <3>2
  <2>2. rounds' \in [Ids -> 0..MaxResends]
    BY <1>20, <1>q, <2>1 DEF onReconnectTimeout, Parts
  <2>3. remainingResends' \in [Ids -> 0..MaxResends]
    BY <1>20, <1>q, <2>1 DEF onReconnectTimeout, Parts, PendTypes
  <2>4. PendTypes'
    BY <1>20, <1>q, <2>3 DEF onReconnectTimeout, Parts, PendTypes
  <2>5. DueType' /\ TurnPart'
    BY <1>20, <1>q DEF onReconnectTimeout, Parts, DueType, ErrorCodes, TurnPart
  <2> QED BY <1>20, <1>q, <2>2, <2>4, <2>5, PartsKept DEF onReconnectTimeout, Parts, netVars
<1>21. ASSUME NEW i \in Ids, InvokeCallback(i) PROVE Parts'
  <2>1. DueType'
    BY <1>21, <1>q DEF InvokeCallback, Parts, DueType
  <2>2. DonePart'
    BY <1>21, <1>q DEF InvokeCallback, Parts, DueType, DonePart
  <2>3. TurnPart'
    BY <1>21, <1>q DEF InvokeCallback, Parts, TurnPart
  <2> QED BY <1>21, <1>q, <2>1, <2>2, <2>3, PartsKept DEF InvokeCallback, Parts, netVars
<1>22. CASE UNCHANGED vars
  BY <1>22, <1>q, PartsKept DEF vars, Parts, netVars
<1> QED
  BY <1>1, <1>2, <1>3, <1>4, <1>5, <1>6, <1>7, <1>8, <1>9, <1>10, <1>11, <1>12, <1>13, <1>14,
     <1>15, <1>16, <1>17, <1>18, <1>19, <1>20, <1>21, <1>22
  DEF Next, UserStep, ThreadStep, LoopStep
-----------------------------------------------------------------------------
(***************************************************************************)
(* Every callback is in one place                                          *)
(***************************************************************************)
\* The steps of the loop thread that take no call in: each entry stays where
\* it is, or leaves pendingRequests_ for the handler that will invoke its
\* callback (Finish, failAllDisreconnectRequests, the two timeouts).
LEMMA PlacedKept ==
  ASSUME Placed,
         UNCHANGED <<alive, nextRequestId, drawn, loopQueue, fired>>,
         \A i \in Ids : \/ (phase'[i] = "absent" <=> phase[i] = "absent") /\ due'[i] = due[i]
                        \/ phase[i] # "absent" /\ phase'[i] = "absent" /\ due'[i] # "none"
  PROVE  Placed'
<1>1. Distinct(loopQueue)'
  BY DEF Placed, PlacedAt
<1>2. \A i \in Ids : QueuedCall(i)' <=> QueuedCall(i)
  BY DEF QueuedCall
<1> QED BY <1>1, <1>2 DEF Placed, PlacedAt

\* Finish moves its entries, which must be pending ones.
LEMMA FinishMoves ==
  ASSUME TypeOK, NEW S, S \subseteq Pending, NEW code \in ErrorCodes, Finish(S, code)
  PROVE  \A i \in Ids : \/ (phase'[i] = "absent" <=> phase[i] = "absent") /\ due'[i] = due[i]
                        \/ phase[i] # "absent" /\ phase'[i] = "absent" /\ due'[i] # "none"
BY DEF Finish, Pending, ErrorCodes

\* So does failAllDisreconnectRequests; the entries it keeps stay pending.
LEMMA FailMoves ==
  ASSUME TypeOK, NEW code \in ErrorCodes, failAllDisreconnectRequests(code)
  PROVE  \A i \in Ids : \/ (phase'[i] = "absent" <=> phase[i] = "absent") /\ due'[i] = due[i]
                        \/ phase[i] # "absent" /\ phase'[i] = "absent" /\ due'[i] # "none"
BY DEF failAllDisreconnectRequests, ErrorCodes

\* cancelInLoop settles the request it finds and touches no other.
LEMMA CancelMoves ==
  ASSUME TypeOK, NEW c \in Ids, cancelInLoop(c)
  PROVE  \A i \in Ids : \/ (phase'[i] = "absent" <=> phase[i] = "absent") /\ due'[i] = due[i]
                        \/ phase[i] # "absent" /\ phase'[i] = "absent" /\ due'[i] # "none"
<1>1. CASE c \notin Pending
  BY <1>1 DEF cancelInLoop, pendVars
<1>2. CASE c \in Pending
  BY <1>2, FinishMoves DEF cancelInLoop, ErrorCodes
<1> QED BY <1>1, <1>2

\* callInLoop enters the request or hands its callback to the handler that
\* rejects it, and touches no other.
LEMMA CallMoves ==
  ASSUME TypeOK, NEW c \in Ids, phase[c] = "absent", due[c] = "none", callInLoop(c)
  PROVE  /\ phase'[c] # "absent" <=> due'[c] = "none"
         /\ \A i \in Ids \ {c} : phase'[i] = phase[i] /\ due'[i] = due[i]
<1>1. ASSUME NEW code \in ErrorCodes, Reject(c, code)
      PROVE  /\ phase'[c] = "absent" /\ due'[c] # "none"
             /\ \A i \in Ids \ {c} : phase'[i] = phase[i] /\ due'[i] = due[i]
  BY <1>1 DEF Reject, pendVars, TypeOK, ErrorCodes
<1>2. CASE /\ phase' = [phase EXCEPT ![c] = "kWaitingResponse"]
           /\ UNCHANGED due
  BY <1>2 DEF TypeOK
<1> QED BY <1>1, <1>2 DEF callInLoop, ErrorCodes

\* No step duplicates or loses a callback.
LEMMA PlacedStep == ClientInv /\ [Next]_vars => Placed'
<1> SUFFICES ASSUME ClientInv, [Next]_vars PROVE Placed'
  OBVIOUS
<1> TypeOK /\ Placed /\ Budget
  BY DEF ClientInv
<1>q. loopQueue \in Seq(Functors) /\ Distinct(loopQueue)
  BY DEF TypeOK, Placed
<1>1. CASE Connect \/ EnableRetry \/ DisableRetry \/ PeerHalfClose \/ OnBadMessage \/ OnConnected
           \/ AfterClosed \/ clearExpiredIgnoredResponseRequests
  BY <1>1, PlacedKept
  DEF Connect, EnableRetry, DisableRetry, PeerHalfClose, OnBadMessage, OnConnected, AfterClosed,
      clearExpiredIgnoredResponseRequests, callVars, pendVars, doneVars
<1>2. CASE Disconnect
  <2>1. CASE UNCHANGED <<pendVars, due>>
    BY <1>2, <2>1, PlacedKept DEF Disconnect, callVars, pendVars, doneVars
  <2>2. CASE failAllPendingRequests("CONNECTION_CLOSED")
    BY <1>2, <2>2, PlacedKept, FinishMoves
    DEF Disconnect, failAllPendingRequests, ErrorCodes, callVars, doneVars
  <2> QED BY <1>2, <2>1, <2>2 DEF Disconnect
<1>3. CASE Call
  <2> DEFINE c == nextRequestId
  <2>1. /\ c \in Ids /\ callInLoop(c) /\ nextRequestId' = c + 1
        /\ UNCHANGED <<alive, drawn, loopQueue, fired>>
    BY <1>3 DEF Call, doneVars
  <2>2. c \notin drawn /\ ~QueuedCall(c) /\ phase[c] = "absent" /\ due[c] = "none" /\ fired[c] = 0
    BY <2>1 DEF Placed, PlacedAt
  <2>3. /\ phase'[c] # "absent" <=> due'[c] = "none"
        /\ \A i \in Ids \ {c} : phase'[i] = phase[i] /\ due'[i] = due[i]
    BY <2>1, <2>2, CallMoves
  <2>4. \A i \in Ids : QueuedCall(i)' <=> QueuedCall(i)
    BY <2>1 DEF QueuedCall
  <2>5. Distinct(loopQueue)'
    BY <1>q, <2>1
  <2> QED BY <2>1, <2>2, <2>3, <2>4, <2>5 DEF Placed, PlacedAt
<1>4. ASSUME NEW c \in Ids, Cancel(c) PROVE Placed'
  BY <1>4, CancelMoves, PlacedKept DEF Cancel, callVars, doneVars
<1>5. CASE Destroy
  <2>1. /\ alive' = FALSE /\ UNCHANGED <<drawn, loopQueue, nextRequestId, due, fired>>
        /\ phase' = [i \in Ids |-> "absent"]
    BY <1>5 DEF Destroy, callVars, doneVars
  <2>2. \A i \in Ids : QueuedCall(i)' <=> QueuedCall(i)
    BY <2>1 DEF QueuedCall
  <2>3. Distinct(loopQueue)'
    BY <1>q, <2>1
  <2> QED BY <2>1, <2>2, <2>3 DEF Placed, PlacedAt
<1>6. CASE DrawId
  <2>1. /\ nextRequestId \in Ids /\ nextRequestId' = nextRequestId + 1
        /\ drawn' = drawn \cup {nextRequestId}
        /\ UNCHANGED <<alive, loopQueue, phase, due, fired>>
    BY <1>6 DEF DrawId, pendVars, doneVars
  <2>2. \A i \in Ids : QueuedCall(i)' <=> QueuedCall(i)
    BY <2>1 DEF QueuedCall
  <2>3. Distinct(loopQueue)'
    BY <1>q, <2>1
  <2> QED BY <2>1, <2>2, <2>3 DEF Placed, PlacedAt
<1>7. ASSUME NEW c \in Ids, QueueCall(c) PROVE Placed'
  <2> DEFINE f == [op |-> "call", id |-> c]
  <2>1. f \in Functors /\ \A i \in Ids : [op |-> "call", id |-> i] \in Functors
    BY DEF Functors
  <2>2. /\ c \in drawn /\ drawn' = drawn \ {c} /\ loopQueue' = Append(loopQueue, f)
        /\ UNCHANGED <<alive, nextRequestId, phase, due, fired>>
    BY <1>7 DEF QueueCall, pendVars, doneVars
  <2>3. ~In(f, loopQueue)
    BY <2>2 DEF Placed, PlacedAt, QueuedCall, In
  <2>4. Distinct(loopQueue)'
    BY <1>q, <2>1, <2>2, <2>3, AppendFacts
  <2>5. \A i \in Ids : QueuedCall(i)' <=> QueuedCall(i) \/ i = c
    <3>1. \A t \in Functors : In(t, loopQueue') <=> In(t, loopQueue) \/ t = f
      BY <1>q, <2>1, <2>2, AppendFacts
    <3>2. \A i \in Ids : [op |-> "call", id |-> i] = f <=> i = c
      OBVIOUS
    <3> QED BY <2>1, <3>1, <3>2 DEF QueuedCall, In
  <2> QED BY <2>2, <2>4, <2>5 DEF Placed, PlacedAt
<1>8. ASSUME NEW c \in Ids, QueueCancel(c) PROVE Placed'
  <2> DEFINE f == [op |-> "cancel", id |-> c]
  <2>1. f \in Functors /\ \A i \in Ids : [op |-> "call", id |-> i] \in Functors \ {f}
    BY DEF Functors
  <2>2. /\ loopQueue' = Append(loopQueue, f)
        /\ UNCHANGED <<alive, nextRequestId, drawn, phase, due, fired>>
    BY <1>8 DEF QueueCancel, pendVars, doneVars
  <2>3. ~In(f, loopQueue)
    BY <1>8 DEF QueueCancel, In
  <2>4. Distinct(loopQueue)'
    BY <1>q, <2>1, <2>2, <2>3, AppendFacts
  <2>5. \A i \in Ids : QueuedCall(i)' <=> QueuedCall(i)
    <3>1. \A t \in Functors : In(t, loopQueue') <=> In(t, loopQueue) \/ t = f
      BY <1>q, <2>1, <2>2, AppendFacts
    <3> QED BY <2>1, <3>1 DEF QueuedCall, In
  <2> QED BY <2>2, <2>4, <2>5 DEF Placed, PlacedAt
<1>9. CASE RunQueuedCall
  <2>1. /\ Head(loopQueue) \in Functors /\ In(Head(loopQueue), loopQueue)
        /\ Distinct(Tail(loopQueue))
        /\ \A t : In(t, Tail(loopQueue)) <=> In(t, loopQueue) /\ t # Head(loopQueue)
    BY <1>9, <1>q, TailFacts DEF RunQueuedCall
  <2>2. PICK c \in Ids : Head(loopQueue) = [op |-> "call", id |-> c]
    BY <1>9, <2>1 DEF RunQueuedCall, Functors
  <2>3. callInLoop(c)
    BY <1>9, <2>2 DEF RunQueuedCall
  <2>4. loopQueue' = Tail(loopQueue) /\ UNCHANGED <<alive, nextRequestId, drawn, fired>>
    BY <1>9 DEF RunQueuedCall, doneVars
  <2>5. \A i \in Ids : QueuedCall(i)' <=> QueuedCall(i) /\ i # c
    <3>1. \A i \in Ids : [op |-> "call", id |-> i] # Head(loopQueue) <=> i # c
      BY <2>2
    <3>2. \A i \in Ids : In([op |-> "call", id |-> i], loopQueue') <=>
                         In([op |-> "call", id |-> i], loopQueue) /\ i # c
      BY <2>1, <2>4, <3>1
    <3> QED BY <3>2 DEF QueuedCall, In
  <2>6. QueuedCall(c)
    BY <2>1, <2>2 DEF QueuedCall, In
  <2>7. /\ c \notin drawn /\ ~(c >= nextRequestId) /\ phase[c] = "absent" /\ due[c] = "none"
        /\ fired[c] = 0
    BY <2>6 DEF Placed, PlacedAt, TypeOK
  <2>8. /\ phase'[c] # "absent" <=> due'[c] = "none"
        /\ \A i \in Ids \ {c} : phase'[i] = phase[i] /\ due'[i] = due[i]
    BY <2>3, <2>7, CallMoves
  <2>9. Distinct(loopQueue)'
    BY <2>1, <2>4
  <2>10. UNCHANGED <<alive, nextRequestId, drawn, fired>>
    BY <2>4
  <2> QED BY <2>5, <2>7, <2>8, <2>9, <2>10 DEF Placed, PlacedAt
<1>10. CASE RunQueuedCancel
  <2> DEFINE c == Head(loopQueue).id
  <2>1. /\ Head(loopQueue) \in Functors /\ Distinct(Tail(loopQueue))
        /\ \A t : In(t, Tail(loopQueue)) <=> In(t, loopQueue) /\ t # Head(loopQueue)
    BY <1>10, <1>q, TailFacts DEF RunQueuedCancel
  <2>2. c \in Ids /\ \A i \in Ids : Head(loopQueue) # [op |-> "call", id |-> i]
    BY <1>10, <2>1 DEF RunQueuedCancel, Functors
  <2>3. /\ cancelInLoop(c) /\ loopQueue' = Tail(loopQueue)
        /\ UNCHANGED <<alive, nextRequestId, drawn, fired>>
    BY <1>10 DEF RunQueuedCancel, doneVars
  <2>4. \A i \in Ids : QueuedCall(i)' <=> QueuedCall(i)
    <3>1. \A i \in Ids : In([op |-> "call", id |-> i], loopQueue') <=>
                         In([op |-> "call", id |-> i], loopQueue)
      BY <2>1, <2>2, <2>3
    <3> QED BY <3>1 DEF QueuedCall, In
  <2> HIDE DEF c
  <2>5. \A i \in Ids : \/ (phase'[i] = "absent" <=> phase[i] = "absent") /\ due'[i] = due[i]
                       \/ phase[i] # "absent" /\ phase'[i] = "absent" /\ due'[i] # "none"
    BY <2>2, <2>3, CancelMoves
  <2>6. Distinct(loopQueue)'
    BY <2>1, <2>3
  <2> QED BY <2>3, <2>4, <2>5, <2>6 DEF Placed, PlacedAt
<1>11. CASE ResendWaiting
  <2>1. \A i \in Ids : phase'[i] = "absent" <=> phase[i] = "absent"
    BY <1>11 DEF ResendWaiting, checkReconnect, Resendable
  <2> QED BY <1>11, <2>1, PlacedKept DEF ResendWaiting, callVars, doneVars
<1>12. CASE OnClosed
  <2>1. Finish(Pending, "CONNECTION_CLOSED") \/ failAllDisreconnectRequests("CONNECTION_CLOSED")
    BY <1>12 DEF OnClosed, failOnClose
  <2> QED BY <1>12, <2>1, FinishMoves, FailMoves, PlacedKept
          DEF OnClosed, ErrorCodes, callVars, doneVars
<1>13. CASE OnConnectionError
  BY <1>13, FailMoves, PlacedKept DEF OnConnectionError, ErrorCodes, callVars, doneVars
<1>14. ASSUME NEW c \in Ids, OnResponse(c) PROVE Placed'
  <2>1. CASE UNCHANGED <<pendVars, due>>
    BY <1>14, <2>1, PlacedKept DEF OnResponse, callVars, pendVars, doneVars
  <2>2. CASE c \in Pending /\ Finish({c}, "RESPONSE")
    BY <1>14, <2>2, FinishMoves, PlacedKept DEF OnResponse, ErrorCodes, callVars, doneVars
  <2> QED BY <1>14, <2>1, <2>2 DEF OnResponse
<1>15. ASSUME NEW c \in Ids, onRequestTimeout(c) PROVE Placed'
  <2>1. \A i \in Ids : \/ (phase'[i] = "absent" <=> phase[i] = "absent") /\ due'[i] = due[i]
                       \/ phase[i] # "absent" /\ phase'[i] = "absent" /\ due'[i] # "none"
    BY <1>15 DEF onRequestTimeout, TypeOK
  <2> QED BY <1>15, <2>1, PlacedKept DEF onRequestTimeout, callVars, doneVars
<1>16. ASSUME NEW c \in Ids, onReconnectTimeout(c) PROVE Placed'
  <2>1. \A i \in Ids : \/ (phase'[i] = "absent" <=> phase[i] = "absent") /\ due'[i] = due[i]
                       \/ phase[i] # "absent" /\ phase'[i] = "absent" /\ due'[i] # "none"
    BY <1>16 DEF onReconnectTimeout, TypeOK
  <2> QED BY <1>16, <2>1, PlacedKept DEF onReconnectTimeout, callVars, doneVars
<1>17. ASSUME NEW c \in Ids, InvokeCallback(c) PROVE Placed'
  <2>1. /\ due[c] # "none" /\ due' = [due EXCEPT ![c] = "none"]
        /\ fired' = [fired EXCEPT ![c] = @ + 1]
        /\ UNCHANGED <<alive, nextRequestId, drawn, loopQueue, phase>>
    BY <1>17 DEF InvokeCallback, callVars, pendVars
  <2>2. /\ c \notin drawn /\ ~QueuedCall(c) /\ phase[c] = "absent" /\ fired[c] = 0
        /\ ~(c >= nextRequestId)
    BY <2>1 DEF Placed, PlacedAt
  <2>3. due'[c] = "none" /\ fired'[c] = 1
    BY <2>1, <2>2 DEF TypeOK
  <2>4. \A i \in Ids \ {c} : due'[i] = due[i] /\ fired'[i] = fired[i]
    BY <2>1 DEF TypeOK
  <2>5. \A i \in Ids : QueuedCall(i)' <=> QueuedCall(i)
    BY <2>1 DEF QueuedCall
  <2>6. Distinct(loopQueue)'
    BY <1>q, <2>1
  <2> QED BY <2>1, <2>2, <2>3, <2>4, <2>5, <2>6 DEF Placed, PlacedAt
<1>18. CASE UNCHANGED vars
  BY <1>18, PlacedKept DEF vars, callVars, pendVars, doneVars
<1> QED
  BY <1>1, <1>2, <1>3, <1>4, <1>5, <1>6, <1>7, <1>8, <1>9, <1>10, <1>11, <1>12, <1>13, <1>14,
     <1>15, <1>16, <1>17, <1>18
  DEF Next, UserStep, ThreadStep, LoopStep
-----------------------------------------------------------------------------
(***************************************************************************)
(* The resend limit is respected                                           *)
(***************************************************************************)
\* Nothing is spent by a step that sends nothing and lets no wait run out;
\* such a step may end requests and may park those that have chances left.
LEMMA BudgetKept ==
  ASSUME Budget,
         UNCHANGED <<nextRequestId, params, drawn, sent, rounds>>,
         \A i \in Ids : QueuedCall(i)' => QueuedCall(i),
         \A i \in Ids : \/ phase'[i] = "absent"
                        \/ /\ phase'[i] = phase[i] \/ (phase[i] # "absent" /\ Keeps(i))
                           /\ remainingResends'[i] = remainingResends[i]
  PROVE  Budget'
<1>1. \A i \in Ids : AllowReconnect(i)' <=> AllowReconnect(i)
  BY DEF AllowReconnect
<1> SUFFICES ASSUME NEW i \in Ids PROVE BudgetAt(i)'
  BY DEF Budget
<1>2. BudgetAt(i)
  BY DEF Budget
<1>3. CASE phase'[i] = "absent"
  BY <1>1, <1>2, <1>3 DEF BudgetAt
<1>4. CASE /\ phase'[i] = phase[i] \/ (phase[i] # "absent" /\ Keeps(i))
           /\ remainingResends'[i] = remainingResends[i]
  <2>1. Keeps(i)' <=> Keeps(i)
    BY <1>1, <1>4 DEF Keeps
  <2> QED BY <1>1, <1>2, <1>4, <2>1 DEF BudgetAt
<1> QED BY <1>3, <1>4

\* Finish ends requests and leaves the others alone.
LEMMA FinishKeeps ==
  ASSUME NEW S, NEW code, Finish(S, code)
  PROVE  \A i \in Ids : \/ phase'[i] = "absent"
                        \/ phase'[i] = phase[i] /\ remainingResends'[i] = remainingResends[i]
BY DEF Finish

\* cancelInLoop likewise.
LEMMA CancelKeeps ==
  ASSUME NEW c \in Ids, cancelInLoop(c)
  PROVE  \A i \in Ids : \/ phase'[i] = "absent"
                        \/ phase'[i] = phase[i] /\ remainingResends'[i] = remainingResends[i]
<1>1. CASE c \notin Pending
  BY <1>1 DEF cancelInLoop, pendVars
<1>2. CASE c \in Pending
  BY <1>2, FinishKeeps DEF cancelInLoop
<1> QED BY <1>1, <1>2

\* failAllDisreconnectRequests parks only what Keeps allows.
LEMMA FailKeeps ==
  ASSUME NEW code, failAllDisreconnectRequests(code)
  PROVE  \A i \in Ids : \/ phase'[i] = "absent"
                        \/ /\ phase'[i] = phase[i] \/ (phase[i] # "absent" /\ Keeps(i))
                           /\ remainingResends'[i] = remainingResends[i]
<1> DEFINE waiting == {i \in Ids : phase[i] = "kWaitingResponse"}
           keep    == {i \in waiting : Keeps(i)}
<1>1. /\ phase' = [i \in Ids |-> IF i \in keep THEN "kWaitingReconnect"
                                 ELSE IF i \in waiting \ keep THEN "absent" ELSE phase[i]]
      /\ remainingResends' =
           [i \in Ids |-> IF i \in waiting \ keep THEN 0 ELSE remainingResends[i]]
  BY DEF failAllDisreconnectRequests
<1>2. \A i \in keep : phase[i] # "absent" /\ Keeps(i)
  OBVIOUS
<1> HIDE DEF keep, waiting
<1> QED BY <1>1, <1>2

\* callInLoop of a call that was not sent before: it is sent at most once and
\* starts with its whole limit, the others are not touched.
LEMMA CallBudget ==
  ASSUME TypeOK, Budget, NEW c \in Ids, callInLoop(c),
         phase[c] = "absent", sent[c] = 0, rounds[c] = 0,
         UNCHANGED <<params, drawn, rounds>>,
         nextRequestId' \in Nat, nextRequestId' >= nextRequestId, nextRequestId' > c,
         c \notin drawn, ~QueuedCall(c)',
         \A i \in Ids : QueuedCall(i)' => QueuedCall(i)
  PROVE  Budget'
<1>1. \A i \in Ids : AllowReconnect(i)' <=> AllowReconnect(i)
  BY DEF AllowReconnect
<1>2. params[c].resendLimit \in 0..MaxResends /\ nextRequestId \in Nat
  <2>1. nextRequestId \in Nat
    BY DEF TypeOK
  <2> QED BY <2>1, ParamTypes
<1>3. \/ UNCHANGED <<phase, remainingResends, sent>>
      \/ /\ phase' = [phase EXCEPT ![c] = "kWaitingResponse"]
         /\ remainingResends' = [remainingResends EXCEPT ![c] = params[c].resendLimit]
         /\ sent' = [sent EXCEPT ![c] = @ + 1]
  BY DEF callInLoop, Reject, pendVars, sendVars
<1>4. BudgetAt(c)'
  <2>1. CASE UNCHANGED <<phase, remainingResends, sent>>
    BY <1>1, <1>2, <2>1 DEF BudgetAt
  <2>2. CASE /\ phase' = [phase EXCEPT ![c] = "kWaitingResponse"]
             /\ remainingResends' = [remainingResends EXCEPT ![c] = params[c].resendLimit]
             /\ sent' = [sent EXCEPT ![c] = @ + 1]
    <3>1. /\ phase'[c] = "kWaitingResponse" /\ remainingResends'[c] = params[c].resendLimit
          /\ sent'[c] = 1 /\ rounds'[c] = 0 /\ params'[c] = params[c]
      BY <2>2 DEF TypeOK
    <3>2. ~(c \in drawn' \/ QueuedCall(c)' \/ c >= nextRequestId')
      OBVIOUS
    <3> QED BY <1>2, <3>1, <3>2 DEF BudgetAt
  <2> QED BY <1>3, <2>1, <2>2
<1>5. ASSUME NEW i \in Ids \ {c} PROVE BudgetAt(i)'
  <2>1. /\ phase'[i] = phase[i] /\ remainingResends'[i] = remainingResends[i]
        /\ sent'[i] = sent[i] /\ rounds'[i] = rounds[i] /\ params'[i] = params[i]
    BY <1>3 DEF TypeOK
  <2>2. Keeps(i)' <=> Keeps(i)
    BY <1>1, <2>1 DEF Keeps
  <2>3. i >= nextRequestId' => i >= nextRequestId
    BY <1>2
  <2> QED BY <1>1, <2>1, <2>2, <2>3 DEF Budget, BudgetAt
<1> QED BY <1>4, <1>5 DEF Budget

\* No step spends what a request does not have.
LEMMA BudgetStep == ClientInv /\ [Next]_vars => Budget'
<1> SUFFICES ASSUME ClientInv, [Next]_vars PROVE Budget'
  OBVIOUS
<1> TypeOK /\ Placed /\ Budget
  BY DEF ClientInv
<1>q. loopQueue \in Seq(Functors) /\ Distinct(loopQueue)
  BY DEF TypeOK, Placed
<1>s. UNCHANGED loopQueue => \A i \in Ids : QueuedCall(i)' <=> QueuedCall(i)
  BY DEF QueuedCall
<1>1. CASE Connect \/ EnableRetry \/ DisableRetry \/ PeerHalfClose \/ OnBadMessage \/ OnConnected
           \/ AfterClosed \/ clearExpiredIgnoredResponseRequests
  BY <1>1, <1>s, BudgetKept
  DEF Connect, EnableRetry, DisableRetry, PeerHalfClose, OnBadMessage, OnConnected, AfterClosed,
      clearExpiredIgnoredResponseRequests, callVars, pendVars, sendVars
<1>2. CASE Disconnect
  <2>1. CASE UNCHANGED pendVars
    BY <1>2, <1>s, <2>1, BudgetKept DEF Disconnect, callVars, pendVars, sendVars
  <2>2. CASE failAllPendingRequests("CONNECTION_CLOSED")
    BY <1>2, <1>s, <2>2, BudgetKept, FinishKeeps
    DEF Disconnect, failAllPendingRequests, callVars, sendVars
  <2> QED BY <1>2, <2>1, <2>2 DEF Disconnect
<1>3. CASE Call
  <2> DEFINE c == nextRequestId
  <2>1. /\ c \in Ids /\ callInLoop(c) /\ nextRequestId' = c + 1
        /\ UNCHANGED <<params, drawn, loopQueue, rounds>>
    BY <1>3 DEF Call
  <2>2. /\ c \notin drawn /\ ~QueuedCall(c) /\ phase[c] = "absent"
        /\ sent[c] = 0 /\ rounds[c] = 0
    BY <2>1 DEF Placed, PlacedAt, Budget, BudgetAt
  <2>3. PICK d \in Ids : d = c
    BY <2>1
  <2> QED BY <1>s, <2>1, <2>2, <2>3, CallBudget
<1>4. ASSUME NEW c \in Ids, Cancel(c) PROVE Budget'
  BY <1>4, <1>s, CancelKeeps, BudgetKept DEF Cancel, callVars, sendVars
<1>5. CASE Destroy
  BY <1>5, <1>s, BudgetKept DEF Destroy, callVars
<1>6. CASE DrawId
  <2>1. /\ nextRequestId \in Ids /\ nextRequestId' = nextRequestId + 1
        /\ drawn' = drawn \cup {nextRequestId}
        /\ UNCHANGED <<params, phase, remainingResends, sent, rounds>>
    BY <1>6 DEF DrawId, pendVars, sendVars
  <2>2. \A i \in Ids : QueuedCall(i)' <=> QueuedCall(i)
    BY <1>6, <1>s DEF DrawId
  <2>3. \A i \in Ids : (AllowReconnect(i)' <=> AllowReconnect(i)) /\ (Keeps(i)' <=> Keeps(i))
    BY <2>1 DEF AllowReconnect, Keeps
  <2> QED BY <2>1, <2>2, <2>3 DEF Budget, BudgetAt
<1>7. ASSUME NEW c \in Ids, QueueCall(c) \/ QueueCancel(c) PROVE Budget'
  <2>1. /\ UNCHANGED <<nextRequestId, params, phase, remainingResends, sent, rounds>>
        /\ drawn' \subseteq drawn
    BY <1>7 DEF QueueCall, QueueCancel, pendVars, sendVars
  <2>2. \A i \in Ids : QueuedCall(i)' => QueuedCall(i) \/ i \in drawn
    <3>0. \A i \in Ids : /\ [op |-> "call", id |-> i] \in Functors
                         /\ [op |-> "cancel", id |-> i] \in Functors
      BY DEF Functors
    <3>1. \A i, j \in Ids : /\ [op |-> "call", id |-> i] # [op |-> "cancel", id |-> j]
                            /\ [op |-> "call", id |-> i] = [op |-> "call", id |-> j] => i = j
      OBVIOUS
    <3>2. CASE c \in drawn /\ loopQueue' = Append(loopQueue, [op |-> "call", id |-> c])
      <4>0. [op |-> "call", id |-> c] \in Functors
        BY <3>0
      <4>1. \A t \in Functors : In(t, loopQueue') <=> In(t, loopQueue) \/ t = [op |-> "call", id |-> c]
        BY <1>q, <3>2, <4>0, AppendFacts
      <4> QED BY <3>0, <3>1, <3>2, <4>1 DEF QueuedCall, In
    <3>3. CASE loopQueue' = Append(loopQueue, [op |-> "cancel", id |-> c])
      <4>0. [op |-> "cancel", id |-> c] \in Functors
        BY <3>0
      <4>1. \A t \in Functors : In(t, loopQueue') <=> In(t, loopQueue) \/ t = [op |-> "cancel", id |-> c]
        BY <1>q, <3>3, <4>0, AppendFacts
      <4> QED BY <3>0, <3>1, <4>1 DEF QueuedCall, In
    <3> QED BY <1>7, <3>2, <3>3 DEF QueueCall, QueueCancel
  <2>3. \A i \in Ids : (AllowReconnect(i)' <=> AllowReconnect(i)) /\ (Keeps(i)' <=> Keeps(i))
    BY <2>1 DEF AllowReconnect, Keeps
  <2> QED BY <2>1, <2>2, <2>3 DEF Budget, BudgetAt
<1>8. CASE RunQueuedCall
  <2>1. /\ Head(loopQueue) \in Functors /\ In(Head(loopQueue), loopQueue)
        /\ \A t : In(t, Tail(loopQueue)) <=> In(t, loopQueue) /\ t # Head(loopQueue)
    BY <1>8, <1>q, TailFacts DEF RunQueuedCall
  <2>2. PICK c \in Ids : Head(loopQueue) = [op |-> "call", id |-> c]
    BY <1>8, <2>1 DEF RunQueuedCall, Functors
  <2>3. callInLoop(c)
    BY <1>8, <2>2 DEF RunQueuedCall
  <2>4. loopQueue' = Tail(loopQueue) /\ UNCHANGED <<nextRequestId, drawn, params, rounds>>
    BY <1>8 DEF RunQueuedCall
  <2>5. (\A i \in Ids : QueuedCall(i)' => QueuedCall(i)) /\ ~QueuedCall(c)'
    <3>1. \A t : In(t, loopQueue') => In(t, loopQueue) /\ t # Head(loopQueue)
      BY <2>1, <2>4
    <3> QED BY <2>2, <3>1 DEF QueuedCall, In
  <2>6. QueuedCall(c)
    BY <2>1, <2>2 DEF QueuedCall, In
  <2>7. /\ c \notin drawn /\ ~(c >= nextRequestId) /\ phase[c] = "absent"
        /\ sent[c] = 0 /\ rounds[c] = 0
    BY <2>6 DEF Placed, PlacedAt, Budget, BudgetAt
  <2>8. nextRequestId' \in Nat /\ nextRequestId' >= nextRequestId /\ nextRequestId' > c
    BY <2>4, <2>7 DEF TypeOK
  <2> QED BY <2>3, <2>4, <2>5, <2>7, <2>8, CallBudget
<1>9. CASE RunQueuedCancel
  <2>1. /\ Head(loopQueue) \in Functors
        /\ \A t : In(t, Tail(loopQueue)) <=> In(t, loopQueue) /\ t # Head(loopQueue)
    BY <1>9, <1>q, TailFacts DEF RunQueuedCancel
  <2>2. PICK c \in Ids : Head(loopQueue).id = c
    BY <2>1 DEF Functors
  <2>3. cancelInLoop(c)
    BY <1>9, <2>2 DEF RunQueuedCancel
  <2>4. /\ loopQueue' = Tail(loopQueue)
        /\ UNCHANGED <<nextRequestId, drawn, params, sent, rounds>>
    BY <1>9 DEF RunQueuedCancel, sendVars
  <2>5. \A i \in Ids : QueuedCall(i)' => QueuedCall(i)
    <3>1. \A t : In(t, loopQueue') => In(t, loopQueue)
      BY <2>1, <2>4
    <3> QED BY <3>1 DEF QueuedCall, In
  <2> QED BY <2>3, <2>4, <2>5, CancelKeeps, BudgetKept
<1>10. CASE ResendWaiting
  <2>1. UNCHANGED <<nextRequestId, drawn, params, rounds, loopQueue>> /\ checkReconnect
    BY <1>10 DEF ResendWaiting, callVars
  <2>2. \A i \in Ids : AllowReconnect(i)' <=> AllowReconnect(i)
    BY <2>1 DEF AllowReconnect
  <2>3. ASSUME NEW i \in Ids PROVE BudgetAt(i)'
    <3>1. \/ /\ phase'[i] = phase[i] /\ remainingResends'[i] = remainingResends[i]
             /\ sent'[i] = sent[i]
          \/ /\ phase[i] = "kWaitingReconnect" /\ Keeps(i) /\ phase'[i] = "kWaitingResponse"
             /\ remainingResends'[i] = remainingResends[i] - 1 /\ sent'[i] = sent[i] + 1
      BY <2>1 DEF checkReconnect, Resendable
    <3>2. BudgetAt(i)
      BY DEF Budget
    <3>3. CASE /\ phase'[i] = phase[i] /\ remainingResends'[i] = remainingResends[i]
               /\ sent'[i] = sent[i]
      <4>1. Keeps(i)' <=> Keeps(i)
        BY <2>2, <3>3 DEF Keeps
      <4> QED BY <1>s, <2>1, <2>2, <3>2, <3>3, <4>1 DEF BudgetAt
    <3>4. CASE /\ phase[i] = "kWaitingReconnect" /\ Keeps(i) /\ phase'[i] = "kWaitingResponse"
               /\ remainingResends'[i] = remainingResends[i] - 1 /\ sent'[i] = sent[i] + 1
      <4>1. /\ params[i].resendLimit \in Nat /\ remainingResends[i] \in Nat
            /\ sent[i] \in Nat /\ rounds[i] \in Nat
        BY CounterTypes
      <4>2. AllowReconnect(i) /\ remainingResends[i] # 0
        BY <3>4 DEF Keeps
      <4>3. ~(i \in drawn' \/ QueuedCall(i)' \/ i >= nextRequestId')
        BY <1>s, <2>1, <3>2, <3>4 DEF BudgetAt
      <4> QED BY <2>1, <2>2, <3>2, <3>4, <4>1, <4>2, <4>3 DEF BudgetAt
    <3> QED BY <3>1, <3>3, <3>4
  <2> QED BY <2>3 DEF Budget
<1>11. CASE OnClosed
  <2>1. Finish(Pending, "CONNECTION_CLOSED") \/ failAllDisreconnectRequests("CONNECTION_CLOSED")
    BY <1>11 DEF OnClosed, failOnClose
  <2> QED BY <1>11, <1>s, <2>1, FinishKeeps, FailKeeps, BudgetKept DEF OnClosed, callVars
<1>12. CASE OnConnectionError
  BY <1>12, <1>s, FailKeeps, BudgetKept DEF OnConnectionError, callVars, sendVars
<1>13. ASSUME NEW c \in Ids, OnResponse(c) PROVE Budget'
  <2>1. CASE UNCHANGED pendVars
    BY <1>13, <1>s, <2>1, BudgetKept DEF OnResponse, callVars, pendVars
  <2>2. CASE Finish({c}, "RESPONSE")
    BY <1>13, <1>s, <2>2, FinishKeeps, BudgetKept DEF OnResponse, callVars
  <2> QED BY <1>13, <2>1, <2>2 DEF OnResponse
<1>14. ASSUME NEW c \in Ids, onRequestTimeout(c) PROVE Budget'
  <2>1. \A i \in Ids : \/ phase'[i] = "absent"
                       \/ phase'[i] = phase[i] /\ remainingResends'[i] = remainingResends[i]
    BY <1>14 DEF onRequestTimeout, TypeOK
  <2> QED BY <1>14, <1>s, <2>1, BudgetKept DEF onRequestTimeout, callVars, sendVars
<1>15. ASSUME NEW c \in Ids, onReconnectTimeout(c) PROVE Budget'
  <2>1. UNCHANGED <<nextRequestId, drawn, params, sent, loopQueue>>
    BY <1>15 DEF onReconnectTimeout, callVars, sendVars
  <2>2. CASE phase[c] # "kWaitingReconnect"
    BY <1>15, <1>s, <2>1, <2>2, BudgetKept DEF onReconnectTimeout
  <2>3. CASE phase[c] = "kWaitingReconnect"
    <3>1. \A i \in Ids : AllowReconnect(i)' <=> AllowReconnect(i)
      BY <2>1 DEF AllowReconnect
    <3>2. /\ params[c].resendLimit \in Nat /\ remainingResends[c] \in Nat
          /\ sent[c] \in Nat /\ rounds[c] \in Nat
      BY CounterTypes
    <3>3. /\ AllowReconnect(c) /\ remainingResends[c] # 0 /\ BudgetAt(c)
      BY <2>3 DEF Budget, BudgetAt, Keeps
    <3>4. /\ rounds'[c] = rounds[c] + 1 /\ remainingResends'[c] = remainingResends[c] - 1
          /\ remainingResends[c] = 1 => phase'[c] = "absent"
          /\ remainingResends[c] # 1 => phase'[c] = "kWaitingReconnect"
      BY <1>15, <2>3 DEF onReconnectTimeout, TypeOK
    <3>5. ~(c \in drawn' \/ QueuedCall(c)' \/ c >= nextRequestId')
      BY <1>s, <2>1, <2>3, <3>3 DEF BudgetAt
    <3>6. phase'[c] = "kWaitingReconnect" => Keeps(c)'
      BY <3>1, <3>2, <3>3, <3>4 DEF Keeps
    <3>7. BudgetAt(c)'
      BY <2>1, <2>3, <3>1, <3>2, <3>3, <3>4, <3>5, <3>6 DEF BudgetAt
    <3>8. ASSUME NEW i \in Ids \ {c} PROVE BudgetAt(i)'
      <4>1. /\ phase'[i] = phase[i] /\ remainingResends'[i] = remainingResends[i]
            /\ rounds'[i] = rounds[i]
        BY <1>15, <2>3 DEF onReconnectTimeout, TypeOK
      <4>2. Keeps(i)' <=> Keeps(i)
        BY <3>1, <4>1 DEF Keeps
      <4> QED BY <1>s, <2>1, <3>1, <4>1, <4>2 DEF Budget, BudgetAt
    <3> QED BY <3>7, <3>8 DEF Budget
  <2> QED BY <2>2, <2>3
<1>16. ASSUME NEW c \in Ids, InvokeCallback(c) PROVE Budget'
  BY <1>16, <1>s, BudgetKept DEF InvokeCallback, callVars, pendVars, sendVars
<1>17. CASE UNCHANGED vars
  BY <1>17, <1>s, BudgetKept DEF vars, callVars, pendVars, sendVars
<1> QED
  BY <1>1, <1>2, <1>3, <1>4, <1>5, <1>6, <1>7, <1>8, <1>9, <1>10, <1>11, <1>12, <1>13, <1>14,
     <1>15, <1>16, <1>17
  DEF Next, UserStep, ThreadStep, LoopStep
-----------------------------------------------------------------------------
(***************************************************************************)
(* Theorems about calls and their callbacks                                *)
(***************************************************************************)
\* ClientInv is an invariant of the client: types, the place of every callback
\* and the resend account hold together, and only together are inductive.
THEOREM ClientInvariant == Spec => []ClientInv
<1>1. ClientInv /\ [Next]_vars => ClientInv'
  BY TypeStep, PlacedStep, BudgetStep DEF ClientInv
<1> QED BY <1>1, ClientInit, PTL DEF Spec

\* The variables keep their types; in particular the uint8_t remainingResends
\* that checkReconnect and onReconnectTimeout decrement never wraps.
THEOREM TypeCorrect == Spec => []TypeOK
<1>1. ClientInv => TypeOK
  BY DEF ClientInv
<1> QED BY <1>1, ClientInvariant, PTL

\* The callback of every call is invoked exactly once: response, timeouts,
\* cancel(), lost connections and disconnect() never get hold of it twice and
\* never lose it, for any number of calls from any thread.
THEOREM CallbacksHaveOneOwner == Spec => []CallbackOwnership
<1>1. ClientInv => CallbackOwnership
  <2> SUFFICES ASSUME ClientInv PROVE CallbackOwnership
    OBVIOUS
  <2>1. \A i \in Ids : PlacedAt(i)
    BY DEF ClientInv, Placed
  <2>2. \A i \in Ids : /\ Holds("thread", i) <=> i \in drawn
                       /\ Holds("queue", i) <=> QueuedCall(i)
                       /\ Holds("pending", i) <=> phase[i] # "absent"
                       /\ Holds("handler", i) <=> due[i] # "none"
                       /\ Holds("done", i) <=> fired[i] = 1
    BY DEF Holds, Pending
  <2>3. ASSUME NEW i \in Ids, i >= nextRequestId, NEW h \in Holders PROVE ~Holds(h, i)
    BY <2>1, <2>2, <2>3 DEF PlacedAt, Holders
  <2>4. ASSUME alive, NEW i \in Ids, i < nextRequestId
        PROVE  \E h \in Holders : Holds(h, i) /\ \A g \in Holders \ {h} : ~Holds(g, i)
    <3>1. PlacedAt(i)
      BY <2>1
    <3>2. CASE i \in drawn
      BY <2>2, <3>1, <3>2 DEF PlacedAt, Holders
    <3>3. CASE QueuedCall(i)
      BY <2>2, <3>1, <3>3 DEF PlacedAt, Holders
    <3>4. CASE phase[i] # "absent"
      BY <2>2, <3>1, <3>4 DEF PlacedAt, Holders
    <3>5. CASE due[i] # "none"
      BY <2>2, <3>1, <3>5 DEF PlacedAt, Holders
    <3>6. CASE fired[i] = 1
      BY <2>2, <3>1, <3>6 DEF PlacedAt, Holders
    <3> QED BY <2>4, <3>1, <3>2, <3>3, <3>4, <3>5, <3>6 DEF PlacedAt
  <2>5. \A i \in Ids : fired[i] \in {0, 1}
    BY <2>1 DEF PlacedAt
  <2> QED BY <2>3, <2>4, <2>5 DEF CallbackOwnership
<1> QED BY <1>1, ClientInvariant, PTL

\* A request is sent at most 1 + resendLimit times, and every resend and every
\* expired reconnect wait uses up one chance.
THEOREM ResendLimitRespected == Spec => []ResendBudget
<1>1. ClientInv => ResendBudget
  <2> SUFFICES ASSUME ClientInv, NEW i \in Ids
               PROVE  /\ i \in Pending =>
                           (sent[i] - 1) + rounds[i] + remainingResends[i] = params[i].resendLimit
                      /\ sent[i] <= 1 + params[i].resendLimit
                      /\ ~AllowReconnect(i) => sent[i] <= 1
    BY DEF ResendBudget
  <2>1. BudgetAt(i)
    BY DEF ClientInv, Budget
  <2>2. /\ params[i].resendLimit \in Nat /\ remainingResends[i] \in Nat
        /\ sent[i] \in Nat /\ rounds[i] \in Nat
    BY CounterTypes DEF ClientInv
  <2> QED BY <2>1, <2>2 DEF BudgetAt, Pending
<1> QED BY <1>1, ClientInvariant, PTL
-----------------------------------------------------------------------------
(***************************************************************************)
(* The connection: the inductive invariant, on top of ClientInv            *)
(***************************************************************************)
\* Which timers are armed for a request, and the one its entry names.
TimersAt(i) ==
  /\ <<i, "request">> \in timers <=> phase[i] = "kWaitingResponse" /\ HasTimeout(i)
  /\ <<i, "reconnect">> \in timers <=> phase[i] = "kWaitingReconnect"
  /\ phase[i] = "kWaitingResponse" => timerId[i] = IF HasTimeout(i) THEN "request" ELSE "none"
  /\ phase[i] = "kWaitingReconnect" => timerId[i] = "reconnect"

Timed == \A i \in Ids : TimersAt(i)

\* status_ and conn_ agree, and the handlers of a lost connection finish before
\* the next connection is there.
Linked == /\ alive => (conn = "null" <=> status \in {"kDisconnected", "kConnecting"})
          /\ after = "closed" => conn = "null"

\* What a request has to do with the connection: it is on it exactly while it
\* waits for a response, an answer still to come is expected or ignored, and
\* only onConnection itself has parked requests and a connection.
WireAt(i) ==
  /\ phase[i] = "kWaitingResponse" => conn # "null" /\ i \in wire
  /\ phase[i] = "kWaitingReconnect" => i \notin wire
  /\ i \in wire => conn # "null"
  /\ conn = "up" /\ i \in wire => phase[i] = "kWaitingResponse" \/ i \in ignored \cup expired
  /\ phase[i] = "kWaitingReconnect" /\ after # "up" /\ conn = "up" => status # "kConnected"

Wired == \A i \in Ids : WireAt(i)

UnsentCodes == {"CONNECTION_UNAVAILABLE", "MESSAGE_TOO_LARGE", "RESOURCE_EXHAUSTED"}

\* A call without an answer has no outcome yet, and one that was refused was
\* not sent.
ErrorAt(i) ==
  /\ fired[i] = 0 => outcome[i] = "none"
  /\ due[i] \in UnsentCodes \/ outcome[i] \in UnsentCodes => sent[i] = 0

Errors == \A i \in Ids : ErrorAt(i)

CallOf(i)   == [op |-> "call", id |-> i]
CancelOf(i) == [op |-> "cancel", id |-> i]

\* A queued cancellation comes after the call that it cancels.
CancelLast ==
  /\ \A i \in Ids : QueuedCancel(i) => i \notin drawn /\ i < nextRequestId
  /\ \A i \in Ids : Precedes(CallOf(i), CancelOf(i), loopQueue)

ConnInv ==
  /\ Timed /\ Linked /\ Wired /\ Errors /\ ManualDisconnectKeepsNothing /\ PendingBounded
  /\ CancelLast

USE ClientAssumption DEF Ids
-----------------------------------------------------------------------------
(***************************************************************************)
(* What the operators shared by several actions do                         *)
(***************************************************************************)
\* The timers that a set of entries names.
LEMMA StoredFacts ==
  ASSUME NEW S, NEW i, NEW k \in TimerKinds
  PROVE  <<i, k>> \in StoredTimers(S) <=> i \in S /\ timerId[i] = k
BY DEF StoredTimers, TimerKinds

\* Finish ends the entries of S, with their timers, and touches no other.
LEMMA FinishFacts ==
  ASSUME NEW S, S \subseteq Pending, NEW code, Finish(S, code)
  PROVE  /\ \A i \in S : i \in Ids /\ phase[i] # "absent" /\ phase'[i] = "absent" /\ due'[i] = code
         /\ \A i \in Ids \ S : phase'[i] = phase[i] /\ timerId'[i] = timerId[i] /\ due'[i] = due[i]
         /\ \A i \in Ids, k \in TimerKinds :
              <<i, k>> \in timers' <=> <<i, k>> \in timers /\ ~(i \in S /\ timerId[i] = k)
<1>1. \A i \in S : i \in Ids /\ phase[i] # "absent"
  BY DEF Pending
<1>2. \A i \in Ids, k \in TimerKinds :
        <<i, k>> \in timers' <=> <<i, k>> \in timers /\ ~(i \in S /\ timerId[i] = k)
  BY StoredFacts DEF Finish
<1> QED BY <1>1, <1>2 DEF Finish

\* failAllDisreconnectRequests parks or fails what waits for a response.
LEMMA FailFacts ==
  ASSUME NEW code, failAllDisreconnectRequests(code), NEW i \in Ids
  PROVE  /\ phase[i] = "kWaitingResponse" =>
              \/ phase'[i] = "kWaitingReconnect" /\ timerId'[i] = "reconnect" /\ due'[i] = due[i]
                 /\ <<i, "reconnect">> \in timers'
              \/ phase'[i] = "absent" /\ due'[i] = code
                 /\ (<<i, "reconnect">> \in timers' <=>
                       <<i, "reconnect">> \in timers /\ timerId[i] # "reconnect")
         /\ phase[i] = "kWaitingResponse" =>
              (<<i, "request">> \in timers' <=>
                 <<i, "request">> \in timers /\ timerId[i] # "request")
         /\ phase[i] # "kWaitingResponse" =>
              /\ phase'[i] = phase[i] /\ timerId'[i] = timerId[i] /\ due'[i] = due[i]
              /\ \A k \in TimerKinds : <<i, k>> \in timers' <=> <<i, k>> \in timers
<1> DEFINE waiting == {j \in Ids : phase[j] = "kWaitingResponse"}
           keep    == {j \in waiting : Keeps(j)}
<1>1. /\ phase' = [j \in Ids |-> IF j \in keep THEN "kWaitingReconnect"
                                 ELSE IF j \in waiting \ keep THEN "absent" ELSE phase[j]]
      /\ timerId' = [j \in Ids |-> IF j \in keep THEN "reconnect"
                                   ELSE IF j \in waiting \ keep THEN "none" ELSE timerId[j]]
      /\ timers' = (timers \ StoredTimers(waiting)) \cup ReconnectTimers(keep)
      /\ due' = [j \in Ids |-> IF j \in waiting \ keep THEN code ELSE due[j]]
  BY DEF failAllDisreconnectRequests
<1>2. (i \in waiting <=> phase[i] = "kWaitingResponse") /\ keep \subseteq waiting
  OBVIOUS
<1> HIDE DEF waiting, keep
<1>3. \A k \in TimerKinds : <<i, k>> \in timers' <=>
        (<<i, k>> \in timers /\ ~(i \in waiting /\ timerId[i] = k))
        \/ (i \in keep /\ k = "reconnect")
  BY <1>1, StoredFacts DEF ReconnectTimers
<1>4. "request" \in TimerKinds /\ "reconnect" \in TimerKinds /\ "request" # "reconnect"
  BY DEF TimerKinds
<1> QED BY <1>1, <1>2, <1>3, <1>4

\* checkReconnect sends again what is parked, if there is a connection; an
\* entry it leaves parked although there is one would have no chance left.
LEMMA ResendFacts ==
  ASSUME Budget, checkReconnect, NEW i \in Ids
  PROVE  \/ /\ phase[i] = "kWaitingReconnect" /\ phase'[i] = "kWaitingResponse"
            /\ status = "kConnected" /\ conn = "up"
            /\ i \in wire' /\ sent'[i] = sent[i] + 1
            /\ timerId'[i] = IF HasTimeout(i) THEN "request" ELSE "none"
            /\ <<i, "request">> \in timers' <=>
                 HasTimeout(i) \/ (<<i, "request">> \in timers /\ timerId[i] # "request")
            /\ <<i, "reconnect">> \in timers' <=>
                 <<i, "reconnect">> \in timers /\ timerId[i] # "reconnect"
         \/ /\ phase'[i] = phase[i] /\ timerId'[i] = timerId[i] /\ sent'[i] = sent[i]
            /\ i \in wire' <=> i \in wire
            /\ \A k \in TimerKinds : <<i, k>> \in timers' <=> <<i, k>> \in timers
            /\ status = "kConnected" /\ conn = "up" => phase[i] # "kWaitingReconnect"
<1> DEFINE again == IF status = "kConnected" /\ conn = "up" THEN Resendable ELSE {}
           timed == {j \in again : HasTimeout(j)}
<1>1. /\ phase' = [j \in Ids |-> IF j \in again THEN "kWaitingResponse" ELSE phase[j]]
      /\ timerId' = [j \in Ids |-> IF j \in timed THEN "request"
                                   ELSE IF j \in again THEN "none" ELSE timerId[j]]
      /\ timers' = (timers \ StoredTimers(again)) \cup (timed \X {"request"})
      /\ wire' = wire \cup again
      /\ sent' = [j \in Ids |-> IF j \in again THEN sent[j] + 1 ELSE sent[j]]
  BY DEF checkReconnect
<1>2. i \in again <=> status = "kConnected" /\ conn = "up" /\ phase[i] = "kWaitingReconnect"
  BY DEF Resendable, Budget, BudgetAt
<1>3. i \in timed <=> i \in again /\ HasTimeout(i)
  OBVIOUS
<1> HIDE DEF again, timed
<1>4. \A k \in TimerKinds : <<i, k>> \in timers' <=>
        (<<i, k>> \in timers /\ ~(i \in again /\ timerId[i] = k))
        \/ (i \in timed /\ k = "request")
  BY <1>1, StoredFacts
<1>5. "request" \in TimerKinds /\ "reconnect" \in TimerKinds /\ "request" # "reconnect"
  BY DEF TimerKinds
<1> QED BY <1>1, <1>2, <1>3, <1>4, <1>5

\* A call that is entered, from the loop thread or from the queue: it is new.
Enters(c) ==
  /\ callInLoop(c)
  /\ phase[c] = "absent" /\ due[c] = "none" /\ fired[c] = 0 /\ sent[c] = 0
  /\ UNCHANGED <<alive, params, netVars, ignored, after, expired, rounds, doneVars>>

\* callInLoop refuses the call unsent, or sends it on the connection there is.
LEMMA EnterFacts ==
  ASSUME TypeOK, NEW c \in Ids, Enters(c)
  PROVE  /\ \A i \in Ids \ {c} : /\ phase'[i] = phase[i] /\ timerId'[i] = timerId[i]
                                 /\ due'[i] = due[i] /\ sent'[i] = sent[i]
                                 /\ i \in wire' <=> i \in wire
                                 /\ \A k \in TimerKinds : <<i, k>> \in timers' <=> <<i, k>> \in timers
         /\ \/ UNCHANGED <<pendVars, sendVars>> /\ due'[c] \in UnsentCodes
            \/ /\ status = "kConnected" /\ conn = "up" /\ ~TooManyPending
               /\ phase'[c] = "kWaitingResponse" /\ due'[c] = "none" /\ c \in wire'
               /\ timerId'[c] = IF HasTimeout(c) THEN "request" ELSE "none"
               /\ timers' = IF HasTimeout(c) THEN timers \cup {<<c, "request">>} ELSE timers
<1>1. \/ \E code \in UnsentCodes : Reject(c, code)
      \/ /\ status = "kConnected" /\ conn = "up" /\ ~TooManyPending
         /\ phase' = [phase EXCEPT ![c] = "kWaitingResponse"]
         /\ timerId' = [timerId EXCEPT ![c] = IF HasTimeout(c) THEN "request" ELSE "none"]
         /\ timers' = IF HasTimeout(c) THEN timers \cup {<<c, "request">>} ELSE timers
         /\ wire' = wire \cup {c}
         /\ sent' = [sent EXCEPT ![c] = @ + 1]
         /\ due' = due
  BY DEF Enters, callInLoop, UnsentCodes
<1>2. CASE \E code \in UnsentCodes : Reject(c, code)
  BY <1>2 DEF Reject, pendVars, sendVars, TypeOK, UnsentCodes
<1>3. CASE /\ status = "kConnected" /\ conn = "up" /\ ~TooManyPending
           /\ phase' = [phase EXCEPT ![c] = "kWaitingResponse"]
           /\ timerId' = [timerId EXCEPT ![c] = IF HasTimeout(c) THEN "request" ELSE "none"]
           /\ timers' = IF HasTimeout(c) THEN timers \cup {<<c, "request">>} ELSE timers
           /\ wire' = wire \cup {c}
           /\ sent' = [sent EXCEPT ![c] = @ + 1]
           /\ due' = due
  <2>1. due[c] = "none"
    BY DEF Enters
  <2>2. \A i \in Ids \ {c} : \A k \in TimerKinds : <<i, k>> \in timers' <=> <<i, k>> \in timers
    BY <1>3
  <2> QED BY <1>3, <2>1, <2>2 DEF TypeOK
<1> QED BY <1>1, <1>2, <1>3

\* A cancellation, from the loop thread or from the queue.
Cancels(c) ==
  /\ cancelInLoop(c)
  /\ UNCHANGED <<alive, params, netVars, after, sendVars, expired, rounds, doneVars>>

\* The call() that draws the next id enters a new call.
LEMMA CallEnters ==
  ASSUME TypeOK, Placed, Budget, Call
  PROVE  \E c \in Ids : Enters(c)
<1>0. nextRequestId \in Ids
  BY DEF Call
<1>1. callInLoop(nextRequestId)
      /\ UNCHANGED <<alive, params, netVars, ignored, after, expired, rounds, doneVars>>
  BY DEF Call
<1>2. /\ phase[nextRequestId] = "absent" /\ due[nextRequestId] = "none"
      /\ fired[nextRequestId] = 0 /\ sent[nextRequestId] = 0
  <2>1. nextRequestId >= nextRequestId
    BY <1>0
  <2>2. PlacedAt(nextRequestId) /\ BudgetAt(nextRequestId)
    BY <1>0 DEF Placed, Budget
  <2> QED BY <2>1, <2>2 DEF PlacedAt, BudgetAt
<1> QED BY <1>0, <1>1, <1>2 DEF Enters

\* A step, told apart by what it does to the entries.
LEMMA StepCases ==
  ASSUME ClientInv, [Next]_vars
  PROVE  \/ Connect \/ EnableRetry \/ DisableRetry \/ PeerHalfClose \/ OnBadMessage
         \/ OnConnected \/ AfterClosed \/ clearExpiredIgnoredResponseRequests \/ DrawId
         \/ \E c \in Ids : QueueCall(c) \/ QueueCancel(c) \/ InvokeCallback(c)
         \/ UNCHANGED vars
         \/ alive /\ (Disconnect \/ Destroy \/ ResendWaiting \/ OnClosed \/ OnConnectionError)
         \/ \E c \in Ids : Enters(c) \/ Cancels(c) \/ OnResponse(c) \/ onRequestTimeout(c)
                           \/ onReconnectTimeout(c)
<1> TypeOK /\ Placed /\ Budget
  BY DEF ClientInv
<1>1. ASSUME Call PROVE \E c \in Ids : Enters(c)
  BY <1>1, CallEnters
<1>2. ASSUME RunQueuedCall PROVE \E c \in Ids : Enters(c)
  <2>1. Head(loopQueue) \in Functors /\ In(Head(loopQueue), loopQueue)
    <3>1. loopQueue \in Seq(Functors) /\ Distinct(loopQueue) /\ loopQueue # <<>>
      BY <1>2 DEF RunQueuedCall, TypeOK, Placed
    <3> QED BY <3>1, TailFacts
  <2>2. PICK c \in Ids : Head(loopQueue) = [op |-> "call", id |-> c]
    BY <1>2, <2>1 DEF RunQueuedCall, Functors
  <2>3. callInLoop(c)
        /\ UNCHANGED <<alive, params, netVars, ignored, after, expired, rounds, doneVars>>
    BY <1>2, <2>2 DEF RunQueuedCall
  <2>4. QueuedCall(c)
    BY <2>1, <2>2 DEF QueuedCall, In
  <2>5. phase[c] = "absent" /\ due[c] = "none" /\ fired[c] = 0 /\ sent[c] = 0
    BY <2>4 DEF Placed, PlacedAt, Budget, BudgetAt
  <2> QED BY <2>3, <2>5 DEF Enters
<1>3. ASSUME RunQueuedCancel PROVE \E c \in Ids : Cancels(c)
  <2>1. Head(loopQueue) \in Functors
    <3>1. loopQueue \in Seq(Functors) /\ Distinct(loopQueue) /\ loopQueue # <<>>
      BY <1>3 DEF RunQueuedCancel, TypeOK, Placed
    <3> QED BY <3>1, TailFacts
  <2>2. PICK c \in Ids : Head(loopQueue).id = c
    BY <2>1 DEF Functors
  <2> QED BY <1>3, <2>2 DEF RunQueuedCancel, Cancels
<1>4. ASSUME NEW c \in Ids, Cancel(c) PROVE Cancels(c)
  BY <1>4 DEF Cancel, Cancels, callVars
<1> QED BY <1>1, <1>2, <1>3, <1>4, Zenon DEF Next, UserStep, ThreadStep, LoopStep

\* The steps that leave pendingRequests_ and its timers alone.
Quiet ==
  \/ Connect \/ EnableRetry \/ DisableRetry \/ PeerHalfClose \/ OnBadMessage
  \/ OnConnected \/ AfterClosed \/ clearExpiredIgnoredResponseRequests \/ DrawId
  \/ \E c \in Ids : QueueCall(c) \/ QueueCancel(c) \/ InvokeCallback(c)
  \/ UNCHANGED vars

\* They do.
LEMMA QuietFacts == Quiet => UNCHANGED <<pendVars, params, sendVars, rounds>>
BY DEF Quiet, Connect, EnableRetry, DisableRetry, PeerHalfClose, OnBadMessage, OnConnected,
       AfterClosed, clearExpiredIgnoredResponseRequests, DrawId, QueueCall, QueueCancel,
       InvokeCallback, vars, callVars

\* cancelInLoop ends its request, if it is pending, and remembers its id.
LEMMA CancelFacts ==
  ASSUME NEW c \in Ids, Cancels(c)
  PROVE  \/ UNCHANGED <<pendVars, ignored, due>> /\ phase[c] = "absent"
         \/ /\ {c} \subseteq Pending /\ Finish({c}, "REQUEST_CANCELED")
            /\ ignored' = ignored \cup {c}
BY DEF Cancels, cancelInLoop, Pending, IgnoreLate
-----------------------------------------------------------------------------
(***************************************************************************)
(* Every action keeps every part of the invariant                          *)
(***************************************************************************)
\* A client that has just been constructed satisfies the invariant.
LEMMA ConnInit == Init => ConnInv
<1> SUFFICES ASSUME Init PROVE ConnInv
  OBVIOUS
<1>1. Timed /\ Wired
  BY DEF Init, Timed, TimersAt, Wired, WireAt
<1>2. Linked /\ ManualDisconnectKeepsNothing
  BY DEF Init, Linked, ManualDisconnectKeepsNothing, Pending
<1>3. Errors
  BY DEF Init, Errors, ErrorAt, UnsentCodes
<1>4. PendingBounded
  <2>1. Pending = {}
    BY DEF Init, Pending
  <2> QED BY <2>1, FS_EmptySet DEF PendingBounded
<1>5. CancelLast
  BY DEF Init, CancelLast, QueuedCancel, Precedes
<1> QED BY <1>1, <1>2, <1>3, <1>4, <1>5 DEF ConnInv

\* A request's timer is armed and canceled with its entry, and armed again when
\* the entry changes its phase.
LEMMA TimedStep == ClientInv /\ Timed /\ [Next]_vars => Timed'
<1> SUFFICES ASSUME ClientInv, Timed, [Next]_vars PROVE Timed'
  OBVIOUS
<1>a. TypeOK /\ Budget
  BY DEF ClientInv
<1>b. "request" \in TimerKinds /\ "reconnect" \in TimerKinds /\ "request" # "reconnect"
  BY DEF TimerKinds
<1>c. UNCHANGED params => \A i \in Ids : HasTimeout(i)' <=> HasTimeout(i)
  BY DEF HasTimeout
<1>1. ASSUME UNCHANGED <<pendVars, params>> PROVE Timed'
  BY <1>1, <1>c DEF Timed, TimersAt, pendVars
<1>2. ASSUME NEW S, S \subseteq Pending, NEW code, Finish(S, code), UNCHANGED params
      PROVE  Timed'
  <2> SUFFICES ASSUME NEW i \in Ids PROVE TimersAt(i)'
    BY DEF Timed
  <2>1. TimersAt(i)
    BY DEF Timed
  <2>2. CASE i \in S
    BY <1>b, <1>c, <1>2, <2>1, <2>2, FinishFacts DEF TimersAt
  <2>3. CASE i \notin S
    BY <1>b, <1>c, <1>2, <2>1, <2>3, FinishFacts DEF TimersAt
  <2> QED BY <2>2, <2>3
<1>3. ASSUME NEW code, failAllDisreconnectRequests(code), UNCHANGED params PROVE Timed'
  <2> SUFFICES ASSUME NEW i \in Ids PROVE TimersAt(i)'
    BY DEF Timed
  <2>1. TimersAt(i)
    BY DEF Timed
  <2>2. CASE phase[i] = "kWaitingResponse"
    BY <1>b, <1>c, <1>3, <2>1, <2>2, FailFacts DEF TimersAt
  <2>3. CASE phase[i] # "kWaitingResponse"
    BY <1>b, <1>c, <1>3, <2>1, <2>3, FailFacts DEF TimersAt
  <2> QED BY <2>2, <2>3
<1>4. CASE ResendWaiting
  <2>1. checkReconnect /\ UNCHANGED params
    BY <1>4 DEF ResendWaiting, callVars
  <2> SUFFICES ASSUME NEW i \in Ids PROVE TimersAt(i)'
    BY DEF Timed
  <2>2. TimersAt(i)
    BY DEF Timed
  <2> QED BY <1>a, <1>b, <1>c, <2>1, <2>2, ResendFacts DEF TimersAt
<1>5. ASSUME NEW c \in Ids, Enters(c) PROVE Timed'
  <2>1. UNCHANGED params /\ phase[c] = "absent"
    BY <1>5 DEF Enters
  <2>2. TimersAt(c)'
    <3>1. TimersAt(c)
      BY DEF Timed
    <3>2. CASE UNCHANGED pendVars
      BY <1>c, <2>1, <3>1, <3>2 DEF TimersAt, pendVars
    <3>3. CASE /\ phase'[c] = "kWaitingResponse"
               /\ timerId'[c] = IF HasTimeout(c) THEN "request" ELSE "none"
               /\ timers' = IF HasTimeout(c) THEN timers \cup {<<c, "request">>} ELSE timers
      BY <1>b, <1>c, <2>1, <3>1, <3>3 DEF TimersAt
    <3> QED BY <1>a, <1>5, <3>2, <3>3, EnterFacts
  <2>3. ASSUME NEW i \in Ids \ {c} PROVE TimersAt(i)'
    BY <1>a, <1>b, <1>c, <1>5, <2>1, EnterFacts DEF Timed, TimersAt
  <2> QED BY <2>2, <2>3 DEF Timed
<1>6. ASSUME NEW c \in Ids, Cancels(c) PROVE Timed'
  BY <1>1, <1>2, <1>6, CancelFacts DEF Cancels
<1>7. ASSUME NEW c \in Ids, OnResponse(c) PROVE Timed'
  <2>1. CASE UNCHANGED pendVars
    BY <1>1, <1>7, <2>1 DEF OnResponse, callVars
  <2>2. CASE c \in Pending /\ Finish({c}, "RESPONSE")
    BY <1>2, <1>7, <2>2 DEF OnResponse, callVars
  <2> QED BY <1>7, <2>1, <2>2 DEF OnResponse
<1>8. ASSUME NEW c \in Ids, onRequestTimeout(c) PROVE Timed'
  <2>1. phase[c] = "kWaitingResponse" /\ UNCHANGED params
    BY <1>8 DEF onRequestTimeout, Timed, TimersAt, callVars
  <2>2. /\ phase' = [phase EXCEPT ![c] = "absent"] /\ timerId' = [timerId EXCEPT ![c] = "none"]
        /\ timers' = timers \ {<<c, "request">>}
    BY <1>8, <2>1 DEF onRequestTimeout
  <2>3. \A i \in Ids \ {c} : phase'[i] = phase[i] /\ timerId'[i] = timerId[i]
    BY <1>a, <2>2 DEF TypeOK
  <2>4. phase'[c] = "absent"
    BY <1>a, <2>2 DEF TypeOK
  <2> QED BY <1>b, <1>c, <2>1, <2>2, <2>3, <2>4 DEF Timed, TimersAt
<1>9. ASSUME NEW c \in Ids, onReconnectTimeout(c) PROVE Timed'
  <2>1. phase[c] = "kWaitingReconnect" /\ UNCHANGED params
    BY <1>9 DEF onReconnectTimeout, Timed, TimersAt, callVars
  <2>2. \/ UNCHANGED <<phase, timerId, timers>>
        \/ /\ phase' = [phase EXCEPT ![c] = "absent"]
           /\ timerId' = [timerId EXCEPT ![c] = "none"]
           /\ timers' = timers \ {<<c, "reconnect">>}
    BY <1>9, <2>1 DEF onReconnectTimeout
  <2>3. CASE UNCHANGED <<phase, timerId, timers>>
    BY <1>c, <2>1, <2>3 DEF Timed, TimersAt
  <2>4. CASE /\ phase' = [phase EXCEPT ![c] = "absent"]
             /\ timerId' = [timerId EXCEPT ![c] = "none"]
             /\ timers' = timers \ {<<c, "reconnect">>}
    <3>1. /\ \A i \in Ids \ {c} : phase'[i] = phase[i] /\ timerId'[i] = timerId[i]
          /\ phase'[c] = "absent"
      BY <1>a, <2>4 DEF TypeOK
    <3> QED BY <1>b, <1>c, <2>1, <2>4, <3>1 DEF Timed, TimersAt
  <2> QED BY <2>2, <2>3, <2>4
<1>10. CASE Disconnect
  <2>1. CASE UNCHANGED pendVars
    BY <1>1, <1>10, <2>1 DEF Disconnect, callVars
  <2>2. CASE failAllPendingRequests("CONNECTION_CLOSED")
    BY <1>2, <1>10, <2>2 DEF Disconnect, failAllPendingRequests, callVars
  <2> QED BY <1>10, <2>1, <2>2 DEF Disconnect
<1>11. CASE Destroy
  <2>1. /\ phase' = [i \in Ids |-> "absent"] /\ timers' = timers \ StoredTimers(Pending)
    BY <1>11 DEF Destroy
  <2> SUFFICES ASSUME NEW i \in Ids PROVE TimersAt(i)'
    BY DEF Timed
  <2>2. \A k \in TimerKinds :
          <<i, k>> \in timers' <=> <<i, k>> \in timers /\ ~(i \in Pending /\ timerId[i] = k)
    BY <2>1, StoredFacts
  <2>3. phase'[i] = "absent" /\ TimersAt(i)
    BY <2>1 DEF Timed
  <2>4. <<i, "request">> \notin timers' /\ <<i, "reconnect">> \notin timers'
    BY <1>b, <2>2, <2>3 DEF TimersAt, Pending
  <2> QED BY <2>3, <2>4 DEF TimersAt
<1>12. CASE OnClosed
  BY <1>2, <1>3, <1>12 DEF OnClosed, failOnClose, callVars
<1>13. CASE OnConnectionError
  BY <1>3, <1>13 DEF OnConnectionError, callVars
<1>14. CASE Quiet
  BY <1>1, <1>14, QuietFacts
<1> QED BY <1>4, <1>5, <1>6, <1>7, <1>8, <1>9, <1>10, <1>11, <1>12, <1>13, <1>14, StepCases
    DEF Quiet

\* status_ follows conn_, and nothing connects while a close is being handled.
LEMMA LinkedStep == ClientInv /\ Linked /\ [Next]_vars => Linked'
<1> SUFFICES ASSUME ClientInv, Linked, [Next]_vars PROVE Linked'
  OBVIOUS
<1>1. ASSUME UNCHANGED <<alive, conn, status, after>> PROVE Linked'
  BY <1>1 DEF Linked
<1>2. CASE Connect
  BY <1>2 DEF Connect, Linked
<1>3. CASE EnableRetry \/ DisableRetry \/ DrawId \/ clearExpiredIgnoredResponseRequests
           \/ UNCHANGED vars
  BY <1>1, <1>3 DEF EnableRetry, DisableRetry, DrawId, clearExpiredIgnoredResponseRequests,
     netVars, vars
<1>4. ASSUME NEW c \in Ids, QueueCall(c) \/ QueueCancel(c) \/ InvokeCallback(c) PROVE Linked'
  BY <1>1, <1>4 DEF QueueCall, QueueCancel, InvokeCallback, netVars
<1>5. CASE PeerHalfClose \/ OnBadMessage
  BY <1>5 DEF PeerHalfClose, OnBadMessage, ForceClose, Idle, Linked
<1>6. CASE OnConnected
  BY <1>6 DEF OnConnected, Linked
<1>7. CASE AfterClosed
  BY <1>7 DEF AfterClosed, netVars, Linked
<1>8. CASE Disconnect /\ alive
  BY <1>8 DEF Disconnect, Linked
<1>9. CASE Destroy
  BY <1>9 DEF Destroy, Linked
<1>10. CASE ResendWaiting
  BY <1>10 DEF ResendWaiting, netVars, Linked
<1>11. CASE OnClosed \/ OnConnectionError
  BY <1>11 DEF OnClosed, OnConnectionError, Linked
<1>12. ASSUME NEW c \in Ids, Enters(c) \/ Cancels(c) PROVE Linked'
  BY <1>1, <1>12 DEF Enters, Cancels, netVars
<1>13. ASSUME NEW c \in Ids, OnResponse(c) PROVE Linked'
  BY <1>13 DEF OnResponse, ForceClose, Idle, Linked
<1>14. ASSUME NEW c \in Ids, onRequestTimeout(c) \/ onReconnectTimeout(c) PROVE Linked'
  BY <1>1, <1>14 DEF onRequestTimeout, onReconnectTimeout, netVars
<1> QED BY <1>2, <1>3, <1>4, <1>5, <1>6, <1>7, <1>8, <1>9, <1>10, <1>11, <1>12, <1>13, <1>14,
           StepCases

\* A request is on the wire of the current connection or of none.
LEMMA WiredStep == ClientInv /\ Timed /\ Linked /\ Wired /\ [Next]_vars => Wired'
<1> SUFFICES ASSUME ClientInv, Timed, Linked, Wired, [Next]_vars PROVE Wired'
  OBVIOUS
<1>a. TypeOK /\ Budget
  BY DEF ClientInv
<1>1. CASE UNCHANGED <<phase, wire, conn, ignored, expired, after, status>>
  BY <1>1 DEF Wired, WireAt
<1>2. CASE Connect
  BY <1>2 DEF Connect, Wired, WireAt, pendVars, sendVars
<1>3. CASE EnableRetry \/ DisableRetry \/ DrawId \/ UNCHANGED vars
  BY <1>1, <1>3 DEF EnableRetry, DisableRetry, DrawId, netVars, pendVars, sendVars, vars
<1>4. ASSUME NEW c \in Ids, QueueCall(c) \/ QueueCancel(c) \/ InvokeCallback(c) PROVE Wired'
  BY <1>1, <1>4 DEF QueueCall, QueueCancel, InvokeCallback, netVars, pendVars, sendVars
<1>5. CASE PeerHalfClose \/ OnBadMessage
  <2>1. conn' = "closing" /\ UNCHANGED <<phase, wire>>
    BY <1>5 DEF PeerHalfClose, OnBadMessage, ForceClose, pendVars, sendVars
  <2> QED BY <2>1 DEF Wired, WireAt
<1>6. CASE OnConnected
  BY <1>6 DEF OnConnected, pendVars, sendVars, Wired, WireAt
<1>7. CASE AfterClosed
  BY <1>7 DEF AfterClosed, netVars, pendVars, sendVars, Linked, Wired, WireAt
<1>8. CASE clearExpiredIgnoredResponseRequests
  <2>1. /\ UNCHANGED <<phase, wire, conn, status, after>>
        /\ ignored' \cup expired' = ignored \cup expired
    BY <1>8 DEF clearExpiredIgnoredResponseRequests, netVars, pendVars, sendVars
  <2> QED BY <2>1 DEF Wired, WireAt
<1>9. CASE Disconnect
  <2>1. /\ UNCHANGED <<wire, after, ignored, expired>>
        /\ conn' = IF conn = "up" THEN "closing" ELSE conn
        /\ \A i \in Ids : phase'[i] \in {phase[i], "absent"}
    BY <1>9 DEF Disconnect, failAllPendingRequests, Finish, sendVars, pendVars
  <2> QED BY <2>1 DEF Wired, WireAt
<1>10. CASE Destroy
  BY <1>10 DEF Destroy, Wired, WireAt
<1>11. CASE ResendWaiting
  <2>1. checkReconnect /\ UNCHANGED <<conn, status, ignored, expired>> /\ after' = "none"
    BY <1>11 DEF ResendWaiting, netVars
  <2> SUFFICES ASSUME NEW i \in Ids PROVE WireAt(i)'
    BY DEF Wired
  <2>2. WireAt(i)
    BY DEF Wired
  <2>3. \/ /\ phase'[i] = "kWaitingResponse" /\ conn = "up" /\ i \in wire'
        \/ /\ phase'[i] = phase[i] /\ (i \in wire' <=> i \in wire)
           /\ status = "kConnected" /\ conn = "up" => phase[i] # "kWaitingReconnect"
    BY <1>a, <2>1, ResendFacts
  <2> QED BY <2>1, <2>2, <2>3 DEF WireAt
<1>12. CASE OnClosed
  <2>1. conn' = "null" /\ wire' = {}
    BY <1>12 DEF OnClosed
  <2>2. \A i \in Ids : phase'[i] # "kWaitingResponse"
    <3>1. CASE Finish(Pending, "CONNECTION_CLOSED")
      BY <3>1 DEF Finish, Pending
    <3>2. CASE failAllDisreconnectRequests("CONNECTION_CLOSED")
      BY <3>2, FailFacts
    <3> QED BY <1>12, <3>1, <3>2 DEF OnClosed, failOnClose
  <2> QED BY <2>1, <2>2 DEF Wired, WireAt
<1>13. CASE OnConnectionError
  <2>1. /\ conn = "null" /\ UNCHANGED <<conn, wire, ignored, expired>>
        /\ failAllDisreconnectRequests("CONNECTION_UNAVAILABLE")
    BY <1>13 DEF OnConnectionError, sendVars
  <2>2. \A i \in Ids : phase'[i] = phase[i]
    BY <2>1, FailFacts DEF Wired, WireAt
  <2> QED BY <2>1, <2>2 DEF Wired, WireAt
<1>14. ASSUME NEW c \in Ids, Enters(c) PROVE Wired'
  <2>1. UNCHANGED <<conn, status, ignored, expired, after>>
    BY <1>14 DEF Enters, netVars
  <2>2. ASSUME NEW i \in Ids \ {c} PROVE WireAt(i)'
    BY <1>a, <1>14, <2>1, EnterFacts DEF Wired, WireAt
  <2>3. WireAt(c)'
    <3>1. CASE UNCHANGED <<phase, wire>>
      BY <2>1, <3>1 DEF Wired, WireAt
    <3>2. CASE conn = "up" /\ phase'[c] = "kWaitingResponse" /\ c \in wire'
      BY <2>1, <3>2 DEF WireAt
    <3> QED BY <1>a, <1>14, <3>1, <3>2, EnterFacts DEF pendVars, sendVars
  <2> QED BY <2>2, <2>3 DEF Wired
<1>15. ASSUME NEW c \in Ids, Cancels(c) PROVE Wired'
  <2>1. UNCHANGED <<conn, status, wire, expired, after>>
    BY <1>15 DEF Cancels, netVars, sendVars
  <2>2. CASE UNCHANGED <<pendVars, ignored>>
    BY <1>1, <2>1, <2>2 DEF pendVars
  <2>3. CASE /\ {c} \subseteq Pending /\ Finish({c}, "REQUEST_CANCELED")
             /\ ignored' = ignored \cup {c}
    <3>1. phase'[c] = "absent" /\ \A i \in Ids \ {c} : phase'[i] = phase[i]
      BY <2>3, FinishFacts
    <3> QED BY <2>1, <2>3, <3>1 DEF Wired, WireAt
  <2> QED BY <1>15, <2>2, <2>3, CancelFacts
<1>16. ASSUME NEW c \in Ids, OnResponse(c) PROVE Wired'
  <2>1. /\ UNCHANGED <<status, expired, after>> /\ wire' = wire \ {c} /\ conn # "null"
    BY <1>16 DEF OnResponse
  <2>2. CASE {c} \subseteq Pending /\ Finish({c}, "RESPONSE") /\ UNCHANGED <<conn, ignored>>
    <3>1. phase'[c] = "absent" /\ \A i \in Ids \ {c} : phase'[i] = phase[i]
      BY <2>2, FinishFacts
    <3> QED BY <2>1, <2>2, <3>1 DEF Wired, WireAt
  <2>3. CASE phase[c] = "absent" /\ UNCHANGED <<conn, phase>> /\ ignored' = ignored \ {c}
    BY <2>1, <2>3 DEF Wired, WireAt
  <2>4. CASE phase[c] = "absent" /\ UNCHANGED <<ignored, phase>> /\ conn' = "closing"
    BY <2>1, <2>4 DEF Wired, WireAt
  <2> QED BY <1>16, <2>2, <2>3, <2>4 DEF OnResponse, Pending, ForceClose, pendVars
<1>17. ASSUME NEW c \in Ids, onRequestTimeout(c) PROVE Wired'
  <2>1. UNCHANGED <<conn, status, wire, expired, after>>
    BY <1>17 DEF onRequestTimeout, netVars, sendVars
  <2>2. CASE UNCHANGED <<phase, ignored>>
    BY <1>1, <2>1, <2>2
  <2>3. CASE phase' = [phase EXCEPT ![c] = "absent"] /\ ignored' = ignored \cup {c}
    <3>1. phase'[c] = "absent" /\ \A i \in Ids \ {c} : phase'[i] = phase[i]
      BY <1>a, <2>3 DEF TypeOK
    <3> QED BY <2>1, <2>3, <3>1 DEF Wired, WireAt
  <2> QED BY <1>17, <2>2, <2>3 DEF onRequestTimeout, IgnoreLate
<1>18. ASSUME NEW c \in Ids, onReconnectTimeout(c) PROVE Wired'
  <2>1. UNCHANGED <<conn, status, wire, ignored, expired, after>>
    BY <1>18 DEF onReconnectTimeout, netVars, sendVars
  <2>2. CASE UNCHANGED phase
    BY <1>1, <2>1, <2>2
  <2>3. CASE phase[c] = "kWaitingReconnect" /\ phase' = [phase EXCEPT ![c] = "absent"]
    <3>1. phase'[c] = "absent" /\ \A i \in Ids \ {c} : phase'[i] = phase[i]
      BY <1>a, <2>3 DEF TypeOK
    <3> QED BY <2>1, <2>3, <3>1 DEF Wired, WireAt
  <2> QED BY <1>18, <2>2, <2>3 DEF onReconnectTimeout
<1> QED BY <1>2, <1>3, <1>4, <1>5, <1>6, <1>7, <1>8, <1>9, <1>10, <1>11, <1>12, <1>13, <1>14,
           <1>15, <1>16, <1>17, <1>18, StepCases
-----------------------------------------------------------------------------
(***************************************************************************)
(* What a step can do to one call                                          *)
(***************************************************************************)
Stays(i)    == phase'[i] = phase[i] /\ due'[i] = due[i] /\ sent'[i] = sent[i]
New(i)      == phase[i] = "absent" /\ due[i] = "none" /\ fired[i] = 0 /\ sent[i] = 0
Begins(i)   == New(i) /\ phase'[i] = "kWaitingResponse" /\ due'[i] = "none" /\ Enters(i)
Refuses(i)  == New(i) /\ phase'[i] = "absent" /\ due'[i] \in UnsentCodes /\ sent'[i] = 0
Endings(i)  == {"RESPONSE", "REQUEST_CANCELED", "CONNECTION_CLOSED",
                IF phase[i] = "kWaitingResponse"
                THEN "REQUEST_TIMEOUT" ELSE "RECONNECT_TIMEOUT"}
Ends(i)     == /\ phase[i] # "absent" /\ phase'[i] = "absent"
               /\ due'[i] \in Endings(i) /\ sent'[i] = sent[i]
Parks(i)    == /\ phase[i] = "kWaitingResponse" /\ phase'[i] = "kWaitingReconnect"
               /\ due'[i] = due[i] /\ sent'[i] = sent[i]
Resends(i)  == phase[i] = "kWaitingReconnect" /\ phase'[i] = "kWaitingResponse" /\ due'[i] = due[i]
Drops(i)    == /\ Destroy /\ phase[i] # "absent" /\ phase'[i] = "absent"
               /\ due'[i] = due[i] /\ sent'[i] = sent[i]
Answers(i)  == /\ due[i] # "none" /\ due'[i] = "none" /\ phase'[i] = phase[i] /\ sent'[i] = sent[i]
               /\ fired'[i] = fired[i] + 1 /\ outcome'[i] = due[i]

Life(i) ==
  \/ Answers(i)
  \/ /\ fired'[i] = fired[i] /\ outcome'[i] = outcome[i]
     /\ Stays(i) \/ Begins(i) \/ Refuses(i) \/ Ends(i) \/ Parks(i) \/ Resends(i) \/ Drops(i)

\* Finish ends the calls it is given.
LEMMA FinishLife ==
  ASSUME NEW S, S \subseteq Pending,
         NEW code \in {"RESPONSE", "REQUEST_CANCELED", "CONNECTION_CLOSED"},
         Finish(S, code), UNCHANGED <<sent, doneVars>>, NEW i \in Ids
  PROVE  Life(i)
<1>1. fired'[i] = fired[i] /\ outcome'[i] = outcome[i] /\ sent'[i] = sent[i]
  BY DEF doneVars
<1>2. CASE i \in S
  <2>1. phase[i] # "absent" /\ phase'[i] = "absent" /\ due'[i] = code
    BY <1>2 DEF Finish, Pending
  <2>2. code \in Endings(i)
    BY DEF Endings
  <2> QED BY <1>1, <2>1, <2>2 DEF Life, Ends
<1>3. CASE i \notin S
  BY <1>1, <1>3, FinishFacts DEF Life, Stays
<1> QED BY <1>2, <1>3

\* Every step treats every call in one of these ways.  A failed connect attempt
\* in particular ends no call: those it would end wait for a response.
LEMMA LifeStep ==
  ASSUME ClientInv, Wired, [Next]_vars
  PROVE  \A i \in Ids : Life(i)
<1> SUFFICES ASSUME NEW i \in Ids PROVE Life(i)
  OBVIOUS
<1>a. TypeOK /\ Budget /\ Placed
  BY DEF ClientInv
<1>1. ASSUME UNCHANGED <<phase, due, sent, fired, outcome>> PROVE Life(i)
  BY <1>1 DEF Life, Stays
<1>2. CASE Connect \/ EnableRetry \/ DisableRetry \/ PeerHalfClose \/ OnBadMessage
           \/ OnConnected \/ AfterClosed \/ clearExpiredIgnoredResponseRequests \/ DrawId
           \/ UNCHANGED vars
  BY <1>1, <1>2 DEF Connect, EnableRetry, DisableRetry, PeerHalfClose, OnBadMessage, OnConnected,
       AfterClosed, clearExpiredIgnoredResponseRequests, DrawId, vars, pendVars, sendVars, doneVars
<1>3. ASSUME NEW c \in Ids, QueueCall(c) \/ QueueCancel(c) PROVE Life(i)
  BY <1>1, <1>3 DEF QueueCall, QueueCancel, pendVars, sendVars, doneVars
<1>4. ASSUME NEW c \in Ids, InvokeCallback(c) PROVE Life(i)
  <2>1. /\ due[c] # "none" /\ due' = [due EXCEPT ![c] = "none"]
        /\ fired' = [fired EXCEPT ![c] = @ + 1] /\ outcome' = [outcome EXCEPT ![c] = due[c]]
        /\ UNCHANGED <<phase, sent>>
    BY <1>4 DEF InvokeCallback, pendVars, sendVars
  <2>2. CASE i = c
    BY <1>a, <2>1, <2>2 DEF TypeOK, Life, Answers
  <2>3. CASE i # c
    BY <1>a, <2>1, <2>3 DEF TypeOK, Life, Stays
  <2> QED BY <2>2, <2>3
<1>5. CASE Disconnect
  <2>1. CASE UNCHANGED <<pendVars, due>>
    BY <1>1, <1>5, <2>1 DEF Disconnect, pendVars, sendVars, doneVars
  <2>2. CASE Finish(Pending, "CONNECTION_CLOSED")
    <3>1. UNCHANGED <<sent, doneVars>>
      BY <1>5 DEF Disconnect, sendVars
    <3> QED BY <2>2, <3>1, FinishLife
  <2> QED BY <1>5, <2>1, <2>2 DEF Disconnect, failAllPendingRequests
<1>6. CASE Destroy
  <2>1. /\ phase' = [j \in Ids |-> "absent"]
        /\ UNCHANGED <<due, sent, fired, outcome>>
    BY <1>6 DEF Destroy, sendVars, doneVars
  <2>2. CASE phase[i] = "absent"
    BY <2>1, <2>2 DEF Life, Stays
  <2>3. CASE phase[i] # "absent"
    BY <1>6, <2>1, <2>3 DEF Life, Drops
  <2> QED BY <2>2, <2>3
<1>7. CASE ResendWaiting
  <2>1. checkReconnect /\ UNCHANGED <<due, fired, outcome>>
    BY <1>7 DEF ResendWaiting, doneVars
  <2> QED BY <1>a, <2>1, ResendFacts DEF Life, Resends, Stays
<1>8. CASE OnClosed
  <2>1. UNCHANGED <<sent, doneVars>>
    BY <1>8 DEF OnClosed
  <2>2. CASE Finish(Pending, "CONNECTION_CLOSED")
    BY <2>1, <2>2, FinishLife
  <2>3. CASE failAllDisreconnectRequests("CONNECTION_CLOSED")
    <3>1. fired'[i] = fired[i] /\ outcome'[i] = outcome[i] /\ sent'[i] = sent[i]
      BY <2>1 DEF doneVars
    <3>2. CASE phase[i] = "kWaitingResponse"
      BY <2>3, <3>1, <3>2, FailFacts DEF Life, Parks, Ends, Endings
    <3>3. CASE phase[i] # "kWaitingResponse"
      BY <2>3, <3>1, <3>3, FailFacts DEF Life, Stays
    <3> QED BY <3>2, <3>3
  <2> QED BY <1>8, <2>2, <2>3 DEF OnClosed, failOnClose
<1>9. CASE OnConnectionError
  <2>1. /\ conn = "null" /\ failAllDisreconnectRequests("CONNECTION_UNAVAILABLE")
        /\ UNCHANGED <<sent, fired, outcome>>
    BY <1>9 DEF OnConnectionError, sendVars, doneVars
  <2>2. phase[i] # "kWaitingResponse"
    BY <2>1 DEF Wired, WireAt
  <2> QED BY <2>1, <2>2, FailFacts DEF Life, Stays
<1>10. ASSUME NEW c \in Ids, Enters(c) PROVE Life(i)
  <2>1. New(c) /\ UNCHANGED <<fired, outcome>>
    BY <1>10 DEF Enters, New, doneVars
  <2>2. CASE i = c
    BY <1>a, <1>10, <2>1, <2>2, EnterFacts
       DEF Life, Begins, Refuses, New, pendVars, sendVars
  <2>3. CASE i # c
    BY <1>a, <1>10, <2>1, <2>3, EnterFacts DEF Life, Stays
  <2> QED BY <2>2, <2>3
<1>11. ASSUME NEW c \in Ids, Cancels(c) PROVE Life(i)
  <2>1. UNCHANGED <<sent, doneVars>>
    BY <1>11 DEF Cancels, sendVars
  <2>2. CASE UNCHANGED <<pendVars, due>>
    BY <1>1, <2>1, <2>2 DEF pendVars, doneVars
  <2>3. CASE {c} \subseteq Pending /\ Finish({c}, "REQUEST_CANCELED")
    BY <2>1, <2>3, FinishLife
  <2> QED BY <1>11, <2>2, <2>3, CancelFacts
<1>12. ASSUME NEW c \in Ids, OnResponse(c) PROVE Life(i)
  <2>1. UNCHANGED <<sent, doneVars>>
    BY <1>12 DEF OnResponse
  <2>2. CASE UNCHANGED <<pendVars, due>>
    BY <1>1, <2>1, <2>2 DEF pendVars, doneVars
  <2>3. CASE {c} \subseteq Pending /\ Finish({c}, "RESPONSE")
    BY <2>1, <2>3, FinishLife
  <2> QED BY <1>12, <2>2, <2>3 DEF OnResponse
<1>13. ASSUME NEW c \in Ids, onRequestTimeout(c) PROVE Life(i)
  <2>1. UNCHANGED <<sent, fired, outcome>>
    BY <1>13 DEF onRequestTimeout, sendVars, doneVars
  <2>2. CASE UNCHANGED <<phase, due>>
    BY <1>1, <2>1, <2>2
  <2>3. CASE /\ phase[c] = "kWaitingResponse" /\ phase' = [phase EXCEPT ![c] = "absent"]
             /\ due' = [due EXCEPT ![c] = "REQUEST_TIMEOUT"]
    BY <1>a, <2>1, <2>3 DEF TypeOK, Life, Ends, Endings, Stays
  <2> QED BY <1>13, <2>2, <2>3 DEF onRequestTimeout
<1>14. ASSUME NEW c \in Ids, onReconnectTimeout(c) PROVE Life(i)
  <2>1. UNCHANGED <<sent, fired, outcome>>
    BY <1>14 DEF onReconnectTimeout, sendVars, doneVars
  <2>2. CASE UNCHANGED <<phase, due>>
    BY <1>1, <2>1, <2>2
  <2>3. CASE /\ phase[c] = "kWaitingReconnect" /\ phase' = [phase EXCEPT ![c] = "absent"]
             /\ due' = [due EXCEPT ![c] = "RECONNECT_TIMEOUT"]
    BY <1>a, <2>1, <2>3 DEF TypeOK, Life, Ends, Endings, Stays
  <2> QED BY <1>14, <2>2, <2>3 DEF onReconnectTimeout
<1> QED BY <1>2, <1>3, <1>4, <1>5, <1>6, <1>7, <1>8, <1>9, <1>10, <1>11, <1>12, <1>13, <1>14,
           StepCases

\* An answer is recorded once, and only a refusal says that nothing was sent.
LEMMA ErrorsStep == ClientInv /\ Wired /\ Errors /\ [Next]_vars => Errors'
<1> SUFFICES ASSUME ClientInv, Wired, Errors, [Next]_vars, NEW i \in Ids PROVE ErrorAt(i)'
  BY DEF Errors
<1>1. ErrorAt(i) /\ Life(i)
  BY LifeStep DEF Errors
<1>2. PlacedAt(i) /\ BudgetAt(i)
  BY DEF ClientInv, Placed, Budget
<1>3. CASE Answers(i)
  BY <1>1, <1>2, <1>3 DEF Answers, ErrorAt, PlacedAt, UnsentCodes
<1>4. CASE fired'[i] = fired[i] /\ outcome'[i] = outcome[i] /\ (Stays(i) \/ Parks(i) \/ Drops(i))
  BY <1>1, <1>4 DEF ErrorAt, Stays, Parks, Drops
<1>5. CASE fired'[i] = fired[i] /\ outcome'[i] = outcome[i] /\ (Begins(i) \/ Refuses(i))
  BY <1>1, <1>5 DEF ErrorAt, Begins, Refuses, New, UnsentCodes
<1>6. CASE fired'[i] = fired[i] /\ outcome'[i] = outcome[i] /\ (Ends(i) \/ Resends(i))
  BY <1>1, <1>2, <1>6 DEF ErrorAt, Ends, Endings, Resends, PlacedAt, UnsentCodes
<1> QED BY <1>1, <1>3, <1>4, <1>5, <1>6 DEF Life

\* A step adds at most the one call it enters to the pending requests.
LEMMA PendingSteps ==
  ASSUME ClientInv, Wired, [Next]_vars
  PROVE  \/ Pending' \subseteq Pending
         \/ \E c \in Ids : /\ Pending' = Pending \cup {c} /\ ~TooManyPending
                           /\ status = "kConnected" /\ UNCHANGED <<status, manualDisconnection>>
<1>a. TypeOK
  BY DEF ClientInv
<1>1. CASE \E c \in Ids : Begins(c)
  <2>1. PICK c \in Ids : Begins(c)
    BY <1>1
  <2>2. Enters(c) /\ phase'[c] = "kWaitingResponse" /\ due'[c] = "none"
    BY <2>1 DEF Begins
  <2>3. \A i \in Ids \ {c} : phase'[i] = phase[i]
    BY <1>a, <2>2, EnterFacts
  <2>4. status = "kConnected" /\ ~TooManyPending
    BY <1>a, <2>2, EnterFacts DEF UnsentCodes
  <2>5. Pending' = Pending \cup {c}
    BY <2>2, <2>3 DEF Pending
  <2>6. UNCHANGED <<status, manualDisconnection>>
    BY <2>2 DEF Enters, netVars
  <2> QED BY <2>4, <2>5, <2>6
<1>2. CASE ~\E c \in Ids : Begins(c)
  <2>1. ASSUME NEW i \in Ids, phase'[i] # "absent" PROVE phase[i] # "absent"
    BY <1>2, <2>1, LifeStep
       DEF Life, Answers, Stays, Refuses, Ends, Parks, Resends, Drops
  <2> QED BY <2>1 DEF Pending
<1> QED BY <1>1, <1>2

\* maxPendingRequests_ is looked at before a call is entered.
LEMMA BoundedStep == ClientInv /\ Wired /\ PendingBounded /\ [Next]_vars => PendingBounded'
<1> SUFFICES ASSUME ClientInv, Wired, PendingBounded, [Next]_vars PROVE PendingBounded'
  OBVIOUS
<1>1. IsFiniteSet(Pending) /\ Cardinality(Pending) \in Nat
  <2>1. IsFiniteSet(Ids)
    BY FS_Interval
  <2>2. Pending \subseteq Ids
    BY DEF Pending
  <2> QED BY <2>1, <2>2, FS_Subset, FS_CardinalityType
<1>2. CASE Pending' \subseteq Pending
  <2>1. Cardinality(Pending') <= Cardinality(Pending) /\ Cardinality(Pending') \in Nat
    BY <1>1, <1>2, FS_Subset, FS_CardinalityType
  <2> QED BY <1>1, <2>1 DEF PendingBounded
<1>3. ASSUME NEW c \in Ids, Pending' = Pending \cup {c}, ~TooManyPending PROVE PendingBounded'
  <2>1. Cardinality(Pending') <= Cardinality(Pending) + 1 /\ Cardinality(Pending') \in Nat
    <3>1. IsFiniteSet(Pending') /\ Cardinality(Pending') =
            IF c \in Pending THEN Cardinality(Pending) ELSE Cardinality(Pending) + 1
      BY <1>1, <1>3, FS_AddElement
    <3> QED BY <1>1, <3>1
  <2>2. Cardinality(Pending) < MaxPending
    BY <1>1, <1>3 DEF TooManyPending
  <2> QED BY <1>1, <2>1, <2>2 DEF PendingBounded
<1> QED BY <1>2, <1>3, PendingSteps

\* disconnect() ends every request, at once or when the connection has ended,
\* and none is entered before a connection is there again.
LEMMA ManualStep ==
  ClientInv /\ Linked /\ Wired /\ ManualDisconnectKeepsNothing /\ [Next]_vars
    => ManualDisconnectKeepsNothing'
<1> SUFFICES ASSUME ClientInv, Linked, Wired, ManualDisconnectKeepsNothing, [Next]_vars
             PROVE  ManualDisconnectKeepsNothing'
  OBVIOUS
<1>1. CASE Disconnect
  <2>1. CASE status = "kConnected"
    BY <1>1, <2>1 DEF Disconnect, ManualDisconnectKeepsNothing
  <2>2. CASE Finish(Pending, "CONNECTION_CLOSED")
    <3>1. Pending' = {}
      BY <2>2 DEF Finish, Pending
    <3> QED BY <3>1 DEF ManualDisconnectKeepsNothing
  <2> QED BY <1>1, <2>1, <2>2 DEF Disconnect, failAllPendingRequests
<1>2. CASE OnConnected
  BY <1>2 DEF OnConnected, ManualDisconnectKeepsNothing
<1>3. CASE OnClosed
  <2>1. CASE manualDisconnection
    <3>1. Pending' = {}
      BY <1>3, <2>1 DEF OnClosed, failOnClose, Finish, Pending
    <3> QED BY <3>1 DEF ManualDisconnectKeepsNothing
  <2>2. CASE ~manualDisconnection
    BY <1>3, <2>2 DEF OnClosed, ManualDisconnectKeepsNothing
  <2> QED BY <2>1, <2>2
<1>4. ASSUME UNCHANGED manualDisconnection,
             status' = status \/ status \in {"kDisconnected", "kConnecting"}
      PROVE  ManualDisconnectKeepsNothing'
  <2>1. CASE Pending' \subseteq Pending
    BY <1>4, <2>1 DEF ManualDisconnectKeepsNothing
  <2>2. CASE status = "kConnected" /\ UNCHANGED status
    BY <2>2 DEF ManualDisconnectKeepsNothing
  <2> QED BY <2>1, <2>2, PendingSteps
<1>5. CASE Connect
  BY <1>4, <1>5 DEF Connect
<1>6. CASE OnConnectionError /\ alive
  BY <1>4, <1>6 DEF OnConnectionError, Linked
<1>7. CASE EnableRetry \/ DisableRetry \/ PeerHalfClose \/ OnBadMessage \/ AfterClosed
           \/ clearExpiredIgnoredResponseRequests \/ DrawId \/ UNCHANGED vars
           \/ Destroy \/ ResendWaiting
  BY <1>4, <1>7 DEF EnableRetry, DisableRetry, PeerHalfClose, OnBadMessage, AfterClosed,
     clearExpiredIgnoredResponseRequests, DrawId, Destroy, ResendWaiting, netVars, vars
<1>8. ASSUME NEW c \in Ids, \/ QueueCall(c) \/ QueueCancel(c) \/ InvokeCallback(c)
                            \/ Enters(c) \/ Cancels(c) \/ OnResponse(c)
                            \/ onRequestTimeout(c) \/ onReconnectTimeout(c)
      PROVE  ManualDisconnectKeepsNothing'
  BY <1>4, <1>8 DEF QueueCall, QueueCancel, InvokeCallback, Enters, Cancels, OnResponse,
     onRequestTimeout, onReconnectTimeout, netVars
<1> QED BY <1>1, <1>2, <1>3, <1>5, <1>6, <1>7, <1>8, StepCases

\* The functors of a call and of its cancellation.
LEMMA Queued ==
  ASSUME NEW i \in Ids
  PROVE  /\ CallOf(i) \in Functors /\ CancelOf(i) \in Functors /\ CallOf(i) # CancelOf(i)
         /\ \A j \in Ids : CallOf(i) # CancelOf(j)
         /\ \A j \in Ids : CallOf(i) = CallOf(j) \/ CancelOf(i) = CancelOf(j) => i = j
         /\ (QueuedCall(i) <=> In(CallOf(i), loopQueue))
         /\ (QueuedCancel(i) <=> In(CancelOf(i), loopQueue))
         /\ (QueuedCall(i)' <=> In(CallOf(i), loopQueue'))
         /\ (QueuedCancel(i)' <=> In(CancelOf(i), loopQueue'))
<1>1. /\ CallOf(i) \in Functors /\ CancelOf(i) \in Functors
      /\ \A j \in Ids : CallOf(i) # CancelOf(j)
      /\ \A j \in Ids : CallOf(i) = CallOf(j) \/ CancelOf(i) = CancelOf(j) => i = j
  BY DEF Functors, CallOf, CancelOf
<1>2. /\ QueuedCall(i) <=> In(CallOf(i), loopQueue)
      /\ QueuedCancel(i) <=> In(CancelOf(i), loopQueue)
      /\ QueuedCall(i)' <=> In(CallOf(i), loopQueue')
      /\ QueuedCancel(i)' <=> In(CancelOf(i), loopQueue')
  BY Zenon DEF QueuedCall, QueuedCancel, In, CallOf, CancelOf
<1> QED BY <1>1, <1>2

\* What a step can do to the queue and to the ids that were handed out.
QueueKept ==
  /\ UNCHANGED <<loopQueue, drawn>>
  /\ nextRequestId' \in Nat /\ nextRequestId' >= nextRequestId

\* Only five actions touch them.
LEMMA QueueSteps ==
  ASSUME ClientInv, [Next]_vars
  PROVE  \/ QueueKept \/ DrawId \/ (\E c \in Ids : QueueCall(c) \/ QueueCancel(c))
         \/ RunQueuedCall \/ RunQueuedCancel
<1>a. nextRequestId \in Nat
  BY DEF ClientInv, TypeOK
<1>1. ASSUME UNCHANGED callVars PROVE QueueKept
  BY <1>a, <1>1 DEF callVars, QueueKept
<1>2. CASE Call
  BY <1>a, <1>2 DEF Call, QueueKept
<1>3. CASE Connect \/ Disconnect \/ EnableRetry \/ DisableRetry \/ Destroy
           \/ (\E c \in Ids : Cancel(c))
  BY <1>1, <1>3 DEF Connect, Disconnect, EnableRetry, DisableRetry, Destroy, Cancel
<1>4. CASE OnConnected \/ ResendWaiting \/ OnClosed \/ OnConnectionError \/ AfterClosed
           \/ PeerHalfClose \/ OnBadMessage \/ clearExpiredIgnoredResponseRequests
  BY <1>1, <1>4 DEF OnConnected, ResendWaiting, OnClosed, OnConnectionError, AfterClosed,
     PeerHalfClose, OnBadMessage, clearExpiredIgnoredResponseRequests
<1>5. ASSUME NEW c \in Ids,
             OnResponse(c) \/ onRequestTimeout(c) \/ onReconnectTimeout(c) \/ InvokeCallback(c)
      PROVE  QueueKept
  BY <1>1, <1>5 DEF OnResponse, onRequestTimeout, onReconnectTimeout, InvokeCallback
<1>6. CASE UNCHANGED vars
  BY <1>1, <1>6 DEF vars
<1> QED BY <1>2, <1>3, <1>4, <1>5, <1>6, Zenon DEF Next, UserStep, ThreadStep, LoopStep

\* A cancellation is queued only after call() has queued its functor, at the
\* end, and the queue keeps its order.
LEMMA CancelLastStep == ClientInv /\ CancelLast /\ [Next]_vars => CancelLast'
<1> SUFFICES ASSUME ClientInv, CancelLast, [Next]_vars, NEW i \in Ids
             PROVE  /\ QueuedCancel(i)' => i \notin drawn' /\ i < nextRequestId'
                    /\ Precedes(CallOf(i), CancelOf(i), loopQueue')
  BY DEF CancelLast, CallOf, CancelOf
<1>a. loopQueue \in Seq(Functors) /\ Distinct(loopQueue) /\ nextRequestId \in Nat
  BY DEF ClientInv, TypeOK, Placed
<1>b. /\ In(CancelOf(i), loopQueue) => i \notin drawn /\ i < nextRequestId
      /\ Precedes(CallOf(i), CancelOf(i), loopQueue)
  BY Queued DEF CancelLast
<1>1. CASE QueueKept
  <2>1. loopQueue' = loopQueue /\ drawn' = drawn
    BY <1>1 DEF QueueKept
  <2>2. In(CancelOf(i), loopQueue) => i < nextRequestId'
    BY <1>a, <1>b, <1>1 DEF QueueKept
  <2> QED BY <1>b, <2>1, <2>2, Queued
<1>2. CASE DrawId
  <2>1. loopQueue' = loopQueue /\ drawn' = drawn \cup {nextRequestId}
        /\ nextRequestId' = nextRequestId + 1
    BY <1>2 DEF DrawId
  <2>2. In(CancelOf(i), loopQueue) => i \notin drawn' /\ i < nextRequestId'
    BY <1>a, <1>b, <2>1
  <2> QED BY <1>b, <2>1, <2>2, Queued
<1>3. ASSUME NEW c \in Ids, QueueCall(c)
      PROVE  /\ QueuedCancel(i)' => i \notin drawn' /\ i < nextRequestId'
             /\ Precedes(CallOf(i), CancelOf(i), loopQueue')
  <2>1. /\ loopQueue' = Append(loopQueue, CallOf(c)) /\ c \in drawn
        /\ drawn' = drawn \ {c} /\ UNCHANGED nextRequestId
    BY <1>3 DEF QueueCall, CallOf
  <2>2. CallOf(c) \in Functors /\ CancelOf(i) \in Functors /\ CancelOf(i) # CallOf(c)
    BY Queued
  <2>3. In(CancelOf(i), loopQueue') => In(CancelOf(i), loopQueue)
    BY <1>a, <2>1, <2>2, AppendFacts
  <2>4. CallOf(c) = CallOf(i) => ~In(CancelOf(i), loopQueue)
    BY <1>b, <2>1, Queued
  <2>5. Precedes(CallOf(i), CancelOf(i), loopQueue')
    BY <1>a, <1>b, <2>1, <2>2, <2>4, Queued, AppendPrecedes
  <2> QED BY <1>b, <2>1, <2>3, <2>5, Queued
<1>4. ASSUME NEW c \in Ids, QueueCancel(c)
      PROVE  /\ QueuedCancel(i)' => i \notin drawn' /\ i < nextRequestId'
             /\ Precedes(CallOf(i), CancelOf(i), loopQueue')
  <2>1. /\ loopQueue' = Append(loopQueue, CancelOf(c)) /\ c \notin drawn /\ c < nextRequestId
        /\ UNCHANGED <<drawn, nextRequestId>>
    BY <1>4 DEF QueueCancel, CancelOf
  <2>2. CancelOf(c) \in Functors /\ CancelOf(i) \in Functors /\ CallOf(i) # CancelOf(c)
        /\ CallOf(i) # CancelOf(i)
    BY Queued
  <2>3. In(CancelOf(i), loopQueue') => In(CancelOf(i), loopQueue) \/ i = c
    BY <1>a, <2>1, <2>2, AppendFacts, Queued
  <2>4. Precedes(CallOf(i), CancelOf(i), loopQueue')
    BY <1>a, <1>b, <2>1, <2>2, AppendPrecedes
  <2> QED BY <1>b, <2>1, <2>3, <2>4, Queued
<1>5. CASE RunQueuedCall \/ RunQueuedCancel
  <2>1. loopQueue # <<>> /\ loopQueue' = Tail(loopQueue) /\ UNCHANGED <<drawn, nextRequestId>>
    BY <1>5 DEF RunQueuedCall, RunQueuedCancel
  <2>2. In(CancelOf(i), loopQueue') => In(CancelOf(i), loopQueue)
    BY <1>a, <2>1, TailFacts
  <2>3. Precedes(CallOf(i), CancelOf(i), loopQueue')
    BY <1>a, <1>b, <2>1, TailPrecedes
  <2> QED BY <1>b, <2>1, <2>2, <2>3, Queued
<1> QED BY <1>1, <1>2, <1>3, <1>4, <1>5, QueueSteps
-----------------------------------------------------------------------------
(***************************************************************************)
(* Theorems about the connection, the timers and the queue                 *)
(***************************************************************************)
\* The two invariants are inductive together.
LEMMA ConnStep == ClientInv /\ ConnInv /\ [Next]_vars => ClientInv' /\ ConnInv'
<1>1. ClientInv /\ [Next]_vars => ClientInv'
  BY TypeStep, PlacedStep, BudgetStep DEF ClientInv
<1> QED BY <1>1, TimedStep, LinkedStep, WiredStep, ErrorsStep, ManualStep, BoundedStep,
           CancelLastStep DEF ConnInv

\* ConnInv holds in every reachable state, next to ClientInv.
THEOREM ConnInvariant == Spec => [](ClientInv /\ ConnInv)
<1>1. Init => ClientInv /\ ConnInv
  BY ClientInit, ConnInit
<1> QED BY <1>1, ConnStep, PTL DEF Spec

\* The timers armed in the loop are at all times the ones the pending requests
\* name, one for each wait that has a deadline: no handler that erases,
\* parks or resends an entry leaves a stale timer or forgets to arm one.
THEOREM TimersMatch == Spec => []TimersMatchPending
<1>1. ClientInv /\ ConnInv => TimersMatchPending
  <2> SUFFICES ASSUME TypeOK, Timed PROVE TimersMatchPending
    BY DEF ClientInv, ConnInv
  <2>1. ASSUME NEW i \in Ids, NEW k \in TimerKinds
        PROVE  <<i, k>> \in timers <=> i \in Pending /\ timerId[i] = k
    <3>1. TimersAt(i) /\ phase[i] \in {"absent", "kWaitingResponse", "kWaitingReconnect"}
      BY DEF TypeOK, Timed, Phases
    <3>2. i \in Pending <=> phase[i] # "absent"
      BY DEF Pending
    <3> QED BY <3>1, <3>2 DEF TimersAt, TimerKinds
  <2>2. timers = {t \in Ids \X TimerKinds : t[1] \in Pending /\ timerId[t[1]] = t[2]}
    <3>1. timers \subseteq Ids \X TimerKinds
      BY DEF TypeOK
    <3>2. ASSUME NEW t \in Ids \X TimerKinds
          PROVE  t \in timers <=> t[1] \in Pending /\ timerId[t[1]] = t[2]
      BY <2>1
    <3> QED BY <3>1, <3>2
  <2>3. ASSUME NEW i \in Pending
        PROVE  timerId[i] = IF phase[i] = "kWaitingReconnect" THEN "reconnect"
                            ELSE IF params[i].timeout THEN "request" ELSE "none"
    <3>1. i \in Ids /\ phase[i] # "absent"
      BY DEF Pending
    <3>2. TimersAt(i) /\ phase[i] \in {"kWaitingResponse", "kWaitingReconnect"}
      BY <3>1 DEF TypeOK, Timed, Phases
    <3> QED BY <3>2 DEF TimersAt, HasTimeout
  <2> QED BY <2>2, <2>3 DEF TimersMatchPending
<1> QED BY <1>1, ConnInvariant, PTL

\* No request waits for a response on a connection that is gone, and none that
\* waits for a connection is on the wire of this one.
THEOREM WaitsAreRight == Spec => []WaitsForTheRightThing
<1>1. ConnInv => WaitsForTheRightThing
  BY DEF ConnInv, Wired, WireAt, WaitsForTheRightThing
<1> QED BY <1>1, ConnInvariant, PTL

\* When onConnection has returned and the connection is still there, checkReconnect
\* has sent every parked request.
THEOREM ReconnectResends == Spec => []ReconnectedMeansResent
<1>1. ConnInv => ReconnectedMeansResent
  BY DEF ConnInv, Wired, WireAt, ReconnectedMeansResent
<1> QED BY <1>1, ConnInvariant, PTL

\* An answer that the connection still owes never finds its id unknown, unless
\* a minute has passed since the request was given up.
THEOREM LateResponsesTolerated == Spec => []LateResponseTolerated
<1>1. ClientInv /\ ConnInv => LateResponseTolerated
  BY DEF ClientInv, TypeOK, ConnInv, Wired, WireAt, LateResponseTolerated
<1> QED BY <1>1, ConnInvariant, PTL

\* The errors with which callInLoop refuses a call reach no call that was sent.
THEOREM RefusedCallsUnsent == Spec => []UnsentErrors
<1>1. ConnInv => UnsentErrors
  BY DEF ConnInv, Errors, ErrorAt, UnsentCodes, UnsentErrors
<1> QED BY <1>1, ConnInvariant, PTL

\* After disconnect() no request is pending once the connection has ended, until
\* the next one is established.
THEOREM DisconnectKeepsNothing == Spec => []ManualDisconnectKeepsNothing
<1>1. ConnInv => ManualDisconnectKeepsNothing
  BY DEF ConnInv
<1> QED BY <1>1, ConnInvariant, PTL

\* pendingRequests_ never holds more than maxPendingRequests_ entries.
THEOREM PendingIsBounded == Spec => []PendingBounded
<1>1. ConnInv => PendingBounded
  BY DEF ConnInv
<1> QED BY <1>1, ConnInvariant, PTL

\* A cancellation from another thread that has run leaves nothing of its call to
\* send: it was queued behind the call, and what it finds it ends.
THEOREM QueuedCancelsTakeEffect == Spec => QueuedCancelTakesEffect
<1> DEFINE Effect == \A i \in Ids : QueuedCancel(i) /\ ~QueuedCancel(i)' =>
                                      ~QueuedCall(i)' /\ i \notin Pending'
<1>1. ClientInv /\ ConnInv /\ [Next]_vars => Effect
  <2> SUFFICES ASSUME ClientInv, CancelLast, [Next]_vars, NEW i \in Ids,
                      QueuedCancel(i), ~QueuedCancel(i)'
               PROVE  ~QueuedCall(i)' /\ i \notin Pending'
    BY DEF ConnInv
  <2>a. loopQueue \in Seq(Functors) /\ Distinct(loopQueue)
    BY DEF ClientInv, TypeOK, Placed
  <2>b. In(CancelOf(i), loopQueue) /\ ~In(CancelOf(i), loopQueue')
    BY Queued
  <2>1. ~QueueKept /\ ~DrawId
    BY <2>b DEF QueueKept, DrawId
  <2>2. ASSUME NEW c \in Ids PROVE ~QueueCall(c) /\ ~QueueCancel(c)
    <3>1. ASSUME NEW f \in Functors, loopQueue' = Append(loopQueue, f) PROVE FALSE
      <4>1. CancelOf(i) \in Functors
        BY Queued
      <4>2. In(CancelOf(i), Append(loopQueue, f))
        BY <2>a, <2>b, <4>1, AppendFacts
      <4> QED BY <2>b, <3>1, <4>2
    <3>2. CallOf(c) \in Functors /\ CancelOf(c) \in Functors
      BY Queued
    <3> QED BY <3>1, <3>2 DEF QueueCall, QueueCancel, CallOf, CancelOf
  <2>3. loopQueue # <<>> /\ loopQueue' = Tail(loopQueue) /\ (RunQueuedCall \/ RunQueuedCancel)
    BY <2>1, <2>2, QueueSteps DEF RunQueuedCall, RunQueuedCancel
  <2>4. Head(loopQueue) = CancelOf(i)
    BY <2>a, <2>b, <2>3, TailFacts
  <2>5. RunQueuedCancel /\ cancelInLoop(i)
    BY <2>3, <2>4 DEF RunQueuedCall, RunQueuedCancel, CancelOf
  <2>6. ~QueuedCall(i)'
    BY <2>a, <2>3, <2>4, TailPrecedes, Queued DEF CancelLast
  <2>7. i \notin Pending'
    BY <2>5 DEF cancelInLoop, Finish, Pending, pendVars
  <2> QED BY <2>6, <2>7
<1>2. ClientInv /\ ConnInv /\ [Next]_vars => [Effect]_vars
  BY <1>1
<1> QED BY <1>2, ConnInvariant, PTL DEF Spec, QueuedCancelTakesEffect
-----------------------------------------------------------------------------
(***************************************************************************)
(* The client implements RpcCall                                           *)
(***************************************************************************)
\* Ids are only ever handed out, and only ~RpcClient ends the client.
LEMMA ClientSteps ==
  ASSUME ClientInv, [Next]_vars
  PROVE  \/ UNCHANGED vars
         \/ /\ alive /\ nextRequestId' \in Nat /\ nextRequestId' >= nextRequestId
            /\ alive' \/ (Destroy /\ UNCHANGED nextRequestId)
<1>a. nextRequestId \in Nat
  BY DEF ClientInv, TypeOK
<1>1. nextRequestId' \in Nat /\ nextRequestId' >= nextRequestId
  <2>1. ASSUME UNCHANGED nextRequestId
        PROVE  nextRequestId' \in Nat /\ nextRequestId' >= nextRequestId
    BY <1>a, <2>1
  <2>2. CASE QueueKept
    BY <2>2 DEF QueueKept
  <2>3. CASE DrawId
    BY <1>a, <2>3 DEF DrawId
  <2>4. ASSUME NEW c \in Ids, QueueCall(c) \/ QueueCancel(c) PROVE UNCHANGED nextRequestId
    BY <2>4 DEF QueueCall, QueueCancel
  <2>5. CASE RunQueuedCall \/ RunQueuedCancel
    BY <2>1, <2>5 DEF RunQueuedCall, RunQueuedCancel
  <2> QED BY <2>1, <2>2, <2>3, <2>4, <2>5, QueueSteps
<1>2. CASE Destroy /\ alive
  BY <1>1, <1>2 DEF Destroy, callVars
<1>3. ASSUME UNCHANGED alive, Next PROVE alive /\ alive'
  BY <1>3, Zenon DEF Next
<1>4. ASSUME Next PROVE Destroy \/ UNCHANGED alive
  <2>1. CASE Connect \/ Disconnect \/ EnableRetry \/ DisableRetry \/ Call
             \/ (\E c \in Ids : Cancel(c))
    BY <2>1, Zenon DEF Connect, Disconnect, EnableRetry, DisableRetry, Call, Cancel
  <2>2. CASE DrawId \/ \E c \in Ids : QueueCall(c) \/ QueueCancel(c)
    BY <2>2, Zenon DEF DrawId, QueueCall, QueueCancel
  <2>3. CASE RunQueuedCall \/ RunQueuedCancel \/ OnConnected \/ ResendWaiting \/ OnClosed
             \/ OnConnectionError \/ AfterClosed \/ PeerHalfClose \/ OnBadMessage
             \/ clearExpiredIgnoredResponseRequests
    BY <2>3, Zenon DEF RunQueuedCall, RunQueuedCancel, OnConnected, ResendWaiting, OnClosed,
       OnConnectionError, AfterClosed, PeerHalfClose, OnBadMessage,
       clearExpiredIgnoredResponseRequests
  <2>4. CASE \E c \in Ids : OnResponse(c) \/ onRequestTimeout(c) \/ onReconnectTimeout(c)
                            \/ InvokeCallback(c)
    BY <2>4, Zenon DEF OnResponse, onRequestTimeout, onReconnectTimeout, InvokeCallback
  <2> QED BY <1>4, <2>1, <2>2, <2>3, <2>4, Zenon DEF Next, UserStep, ThreadStep, LoopStep
<1>5. Next => alive
  BY DEF Next
<1> QED BY <1>1, <1>2, <1>3, <1>4, <1>5, Zenon

CallResult(i) == IF due[i] # "none" THEN due[i] ELSE outcome[i]

\* Every step moves a call along, settles it, or leaves it as its user sees it.
LEMMA CallStep ==
  ASSUME ClientInv, ConnInv, [Next]_vars, NEW i \in Ids
  PROVE  \/ /\ <<CallState(i), CallState(i)'>> \in Promise!Moves
            /\ CallResult(i)' = CallResult(i)
         \/ /\ CallState(i) \in DOMAIN Promise!Results /\ CallState(i)' = "settled"
            /\ CallResult(i)' \in Promise!Results[CallState(i)]
         \/ CallState(i)' = CallState(i) /\ CallResult(i)' = CallResult(i)
<1>a. PlacedAt(i) /\ Life(i) /\ fired[i] \in {0, 1}
  BY LifeStep DEF ClientInv, ConnInv, Placed, PlacedAt
<1>b. /\ nextRequestId \in Nat /\ i \in Nat
      /\ phase[i] \in {"absent", "kWaitingResponse", "kWaitingReconnect"}
  BY DEF ClientInv, TypeOK, Phases
<1>c. phase[i] # "absent" => i < nextRequestId /\ fired[i] = 0 /\ due[i] = "none"
  BY <1>a, <1>b DEF PlacedAt
<1>1. CASE UNCHANGED vars
  <2>1. CallState(i)' = CallState(i)
    BY <1>1 DEF vars, callVars, pendVars, doneVars, CallState
  <2>2. CallResult(i)' = CallResult(i)
    BY <1>1 DEF vars, doneVars, CallResult
  <2> QED BY <2>1, <2>2
<1>2. CASE /\ alive /\ nextRequestId' \in Nat /\ nextRequestId' >= nextRequestId
           /\ alive' \/ (Destroy /\ UNCHANGED nextRequestId)
  <2>1. CASE Answers(i)
    <3>1. fired[i] = 0 /\ fired'[i] = 1
      BY <1>a, <2>1 DEF Answers, PlacedAt
    <3>2. CallState(i) = "settled" /\ CallState(i)' = "done"
      BY <2>1, <3>1 DEF Answers, CallState
    <3>3. CallResult(i)' = CallResult(i)
      BY <2>1 DEF Answers, CallResult
    <3> QED BY <3>2, <3>3 DEF Promise!Moves
  <2>2. ASSUME fired'[i] = fired[i], outcome'[i] = outcome[i], New(i)
        PROVE  CallState(i) \in {"unused", "submitted"}
    BY <1>2, <2>2 DEF New, CallState
  <2>3. CASE fired'[i] = fired[i] /\ outcome'[i] = outcome[i] /\ Begins(i)
    <3>1. CallState(i) \in {"unused", "submitted"} /\ CallState(i)' = "sent"
      BY <2>2, <2>3 DEF Begins, New, CallState
    <3>2. CallResult(i)' = CallResult(i)
      BY <2>3 DEF Begins, New, CallResult
    <3> QED BY <3>1, <3>2 DEF Promise!Moves
  <2>4. CASE fired'[i] = fired[i] /\ outcome'[i] = outcome[i] /\ Refuses(i)
    <3>1. CallState(i) \in {"unused", "submitted"}
      BY <2>2, <2>4 DEF Refuses
    <3>2. CallState(i)' = "settled" /\ CallResult(i)' \in UnsentCodes
      BY <2>4 DEF Refuses, New, CallState, CallResult, UnsentCodes
    <3> QED BY <3>1, <3>2 DEF Promise!Results, UnsentCodes
  <2>5. CASE fired'[i] = fired[i] /\ outcome'[i] = outcome[i] /\ Ends(i)
    <3>1. CallState(i) = IF phase[i] = "kWaitingResponse" THEN "sent" ELSE "parked"
      BY <1>b, <1>c, <2>5 DEF Ends, CallState
    <3>2. CallState(i)' = "settled" /\ CallResult(i)' \in Endings(i)
      BY <1>c, <2>5 DEF Ends, Endings, CallState, CallResult
    <3> QED BY <3>1, <3>2 DEF Promise!Results, Endings
  <2>6. CASE fired'[i] = fired[i] /\ outcome'[i] = outcome[i] /\ (Parks(i) \/ Resends(i))
    <3>1. \/ CallState(i) = "sent" /\ CallState(i)' = "parked"
          \/ CallState(i) = "parked" /\ CallState(i)' = "sent"
      BY <1>c, <2>6 DEF Parks, Resends, CallState
    <3>2. CallResult(i)' = CallResult(i)
      BY <2>6 DEF Parks, Resends, CallResult
    <3> QED BY <3>1, <3>2 DEF Promise!Moves
  <2>7. CASE fired'[i] = fired[i] /\ outcome'[i] = outcome[i] /\ Drops(i)
    <3>1. ~alive' /\ nextRequestId' = nextRequestId
      BY <2>7 DEF Drops, Destroy, callVars
    <3>2. CallState(i) \in {"sent", "parked"}
      BY <1>b, <1>c, <2>7 DEF Drops, CallState
    <3>3. CallState(i)' = "dropped"
      BY <1>b, <1>c, <2>7, <3>1 DEF Drops, CallState
    <3>4. CallResult(i)' = CallResult(i)
      BY <2>7 DEF Drops, CallResult
    <3> QED BY <3>2, <3>3, <3>4 DEF Promise!Moves
  <2>8. CASE fired'[i] = fired[i] /\ outcome'[i] = outcome[i] /\ Stays(i)
    <3>1. CallResult(i)' = CallResult(i)
      BY <2>8 DEF Stays, CallResult
    <3>2. CASE fired[i] > 0 \/ due[i] # "none" \/ phase[i] # "absent"
      <4>1. CallState(i)' = CallState(i)
        BY <1>b, <2>8, <3>2 DEF Stays, CallState
      <4> QED BY <3>1, <4>1
    <3>3. CASE fired[i] = 0 /\ due[i] = "none" /\ phase[i] = "absent" /\ i >= nextRequestId
      <4>1. CallState(i) = "unused"
        BY <3>3 DEF CallState
      <4>2. CallState(i)' \in {"unused", "submitted"}
        BY <1>2, <2>8, <3>3 DEF Stays, CallState
      <4> QED BY <3>1, <4>1, <4>2 DEF Promise!Moves
    <3>4. CASE fired[i] = 0 /\ due[i] = "none" /\ phase[i] = "absent" /\ i < nextRequestId
      <4>1. i \in drawn \/ QueuedCall(i)
        BY <1>2, <1>a, <3>4 DEF PlacedAt
      <4>2. ~Destroy
        BY <4>1 DEF Destroy, QueuedCall
      <4>3. CallState(i) = "submitted" /\ CallState(i)' = "submitted"
        BY <1>2, <1>b, <2>8, <3>4, <4>2 DEF Stays, CallState
      <4> QED BY <3>1, <4>3
    <3> QED BY <1>a, <1>b, <3>2, <3>3, <3>4
  <2> QED BY <1>a, <2>1, <2>3, <2>4, <2>5, <2>6, <2>7, <2>8 DEF Life
<1> QED BY <1>1, <1>2, ClientSteps

\* The client implements RpcCall, with the call's state and result read off
\* pendingRequests_, the handlers in progress and the callbacks invoked.
THEOREM ClientImplementsCall == Spec => ImplementsCall
<1>1. Init => Promise!Init
  <2> SUFFICES ASSUME Init, NEW i \in Ids
               PROVE  CallState(i) = "unused" /\ CallResult(i) = "none"
    BY DEF Promise!Init, CallResult
  <2>1. i \in Nat /\ i >= nextRequestId
    BY DEF Init
  <2> QED BY <2>1 DEF Init, CallState, CallResult
<1>2. ClientInv /\ ConnInv /\ [Next]_vars => [Promise!Next]_(Promise!callVars)
  <2> SUFFICES ASSUME ClientInv, ConnInv, [Next]_vars PROVE Promise!Next
    OBVIOUS
  <2> QED BY CallStep DEF Promise!Next, Promise!Move, Promise!Settle, CallResult
<1> QED BY <1>1, <1>2, ConnInvariant, PTL DEF Spec, ImplementsCall, Promise!Spec
=============================================================================
