----------------------------- MODULE RpcExchange -----------------------------
(***************************************************************************)
(* The data path of one call, from the arguments of call() to the callback *)
(* and through both size limits: RpcClient::callInLoop encodes the         *)
(* request, RpcServer::onRpcMessage decodes it, the handler's result is    *)
(* checked and answered (sendResponse, or sendFramedData for a reply), and *)
(* RpcClient::onRpcMessage decodes the response.  The bytes are those of   *)
(* RpcMessage.                                                             *)
(*                                                                         *)
(* What can go wrong here is that two pieces of code disagree: the size a  *)
(* sender computes and the size a receiver sees, the server's check of a   *)
(* result and the encoder's, the two copies of the server's sending code.  *)
(* Each disagreement closes a connection that other requests are using.    *)
(***************************************************************************)
EXTENDS RpcMessage

CONSTANTS
  Strings,      \* the strings that callers and handlers use
  RequestIds,   \* the ids that the client gives its requests
  Sizes,        \* the values of setMaxMessageSize()
  ErrorCodes,   \* the error codes that handlers return, invalid ones too
  TooLargeText, InvalidText, NotFoundText, ExceptionText   \* the server's texts

VARIABLES
  clientMax, serverMax, \* maxMessageSize_ of the two ends
  kind,                 \* how the called method is registered
  call,                 \* the request that the client makes
  at,                   \* where the call is
  wire,                 \* the message that is under way
  request,              \* the request as the server has decoded it
  result,               \* what the handler returned
  closedBy,             \* who has force-closed the connection
  outcome               \* the response that the callback received

vars == <<clientMax, serverMax, kind, call, at, wire, request, result, closedBy, outcome>>
config == <<clientMax, serverMax, kind, call>>

\* RpcErrorCode
METHOD_NOT_FOUND  == 4
MESSAGE_TOO_LARGE == 7
INTERNAL_ERROR    == 10

\* The widths of RpcMessage.h hold what is written in them, and nextRequestId_
\* starts at 1.  setMaxMessageSize() asserts a size between 1 and kMaxMessageSize,
\* 64 MiB: no message within such a limit has a string too long for its length
\* field.
ASSUME ExchangeAssumption ==
  /\ kRpcProtocolVersion < Pow[VERSION_LEN]
  /\ \A c \in Classes : TypeOf[c] < Pow[REQUEST_TYPE_LEN]
  /\ RequestIds \subseteq 1..(Pow[REQUEST_ID_LEN] - 1)
  /\ INTERNAL_ERROR < ERROR_CODE_CNT /\ ERROR_CODE_CNT <= Pow[ERROR_CODE_LEN]
  /\ \A n \in Sizes : n \in Nat \ {0} /\ n < CancelLen + Pow[STRING_LEN]
  /\ \A s \in Strings : s \in Seq(Bytes)
  /\ {TooLargeText, InvalidText, NotFoundText, ExceptionText} \subseteq Seq(Bytes)
  /\ ErrorCodes \subseteq Nat

Failure(code, text) ==
  [responseResult |-> kUnsuccess, errorCode |-> code, payload |-> <<>>,
   errorMessage |-> text]

\* What a handler may return: any combination, the third result is no member
\* of ResponseResult.
Results == [responseResult : {kSuccess, kUnsuccess, 2}, errorCode : ErrorCodes,
            payload : Strings, errorMessage : Strings]

Response(id, r) ==
  [requestId |-> id, responseResult |-> r.responseResult, errorCode |-> r.errorCode,
   payload |-> r.payload, errorMessage |-> r.errorMessage]

\* registerMethod and registerAsyncMethod refuse empty names; callers may use them.
Registrable(service, method) == service # <<>> /\ method # <<>>

Init ==
  /\ clientMax \in Sizes /\ serverMax \in Sizes
  /\ kind \in {"sync", "async", "unregistered"}
  /\ call \in [requestId : RequestIds, service : Strings, method : Strings,
               payload : Strings]
  /\ kind # "unregistered" => Registrable(call.service, call.method)
  /\ at = "caller"
  /\ wire = <<>>
  /\ request = Blank("RpcRequest")
  /\ result = Failure(INTERNAL_ERROR, <<>>)
  /\ closedBy = "nobody"
  /\ outcome = Blank("RpcResponse")
-----------------------------------------------------------------------------
\* callInLoop, when the connection is up and the call is not one too many.
\* encode() refuses only strings that the limit has refused already, so that
\* "encode error" is never the answer (RpcExchangeProofs).
callInLoop ==
  /\ at = "caller"
  /\ IF RequestLen(call.service, call.method, call.payload) > clientMax
     THEN /\ outcome' = Response(call.requestId, Failure(MESSAGE_TOO_LARGE, TooLargeText))
          /\ at' = "done"
          /\ UNCHANGED wire
     ELSE /\ encodes("RpcRequest", call)
          /\ wire' = encode("RpcRequest", call)
          /\ at' = "toServer"
          /\ UNCHANGED outcome
  /\ UNCHANGED <<config, request, result, closedBy>>

\* The checks both ends make before they look at a message's contents.
Acceptable(class, max) ==
  Len(wire) <= max /\ decodeHead(wire) = class /\ Accepts(class, decode(class, wire))

\* forceClose; the call ends with the connection.
CloseBy(side) == closedBy' = side /\ at' = "done" /\ UNCHANGED <<wire, outcome>>

\* sendResponse of the server and sendFramedData of a reply.
sendResponse(r) ==
  LET size     == ResponseLen(r.payload, r.errorMessage)
      tooLarge == Failure(MESSAGE_TOO_LARGE, TooLargeText)
      smallest == ResponseLen(<<>>, TooLargeText)
      reply    == IF size > serverMax THEN tooLarge ELSE r
  IN  IF \/ size > serverMax /\ serverMax < smallest
         \/ ~encodes("RpcResponse", reply)
      THEN CloseBy("server")
      ELSE /\ wire' = encode("RpcResponse", Response(request.requestId, reply))
           /\ at' = "toClient"
           /\ UNCHANGED <<closedBy, outcome>>

\* RpcServer::onRpcMessage, up to the handler.
onRequest ==
  /\ at = "toServer"
  /\ IF ~Acceptable("RpcRequest", serverMax)
     THEN CloseBy("server") /\ UNCHANGED request
     ELSE /\ request' = Decoded("RpcRequest", decode("RpcRequest", wire), request)
          /\ at' = "handler"
          /\ UNCHANGED <<wire, closedBy, outcome>>
  /\ UNCHANGED <<config, result>>

\* No such method.
AnswerUnknown ==
  /\ at = "handler" /\ kind = "unregistered"
  /\ sendResponse(Failure(METHOD_NOT_FOUND, NotFoundText))
  /\ UNCHANGED <<config, request, result>>

\* Mutant: a success with an error code passes.
invalidSyncResult_AnyCode(r) ==
  \/ r.responseResult = kUnsuccess /\ r.payload # <<>>
  \/ r.responseResult = kSuccess /\ r.errorMessage # <<>>
  \/ r.responseResult \notin {kSuccess, kUnsuccess}
  \/ r.errorCode >= ERROR_CODE_CNT

\* invokeSyncHandler's check ...
invalidSyncResult(r) ==
  \/ r.responseResult = kUnsuccess /\ r.payload # <<>>
  \/ r.responseResult = kSuccess /\ r.errorMessage # <<>>
  \/ r.responseResult \notin {kSuccess, kUnsuccess}
  \/ r.errorCode >= ERROR_CODE_CNT
  \/ r.responseResult = kSuccess /\ r.errorCode # NO_ERROR
  \/ r.responseResult = kUnsuccess /\ r.errorCode = NO_ERROR

\* ... and the one in reply().
invalidReply(r) ==
  \/ r.responseResult = kUnsuccess /\ r.payload # <<>>
  \/ r.responseResult = kSuccess /\ r.errorMessage # <<>>
  \/ r.responseResult \notin {kSuccess, kUnsuccess}
  \/ r.responseResult = kSuccess /\ r.errorCode # NO_ERROR
  \/ r.responseResult = kUnsuccess /\ r.errorCode = NO_ERROR
  \/ r.errorCode >= ERROR_CODE_CNT

\* The handler returns or replies.
HandlerAnswers(r) ==
  /\ at = "handler" /\ kind # "unregistered"
  /\ result' = r
  /\ LET invalid == IF kind = "sync" THEN invalidSyncResult(r) ELSE invalidReply(r)
     IN  sendResponse(IF invalid THEN Failure(INTERNAL_ERROR, InvalidText) ELSE r)
  /\ UNCHANGED <<config, request>>

\* The handler throws: the catch clause makes the result.
HandlerThrows ==
  /\ at = "handler" /\ kind # "unregistered"
  /\ result' = Failure(INTERNAL_ERROR, ExceptionText)
  /\ sendResponse(Failure(INTERNAL_ERROR, ExceptionText))
  /\ UNCHANGED <<config, request>>

\* RpcClient::onRpcMessage.
onResponse ==
  /\ at = "toClient"
  /\ LET response == Decoded("RpcResponse", decode("RpcResponse", wire), outcome) IN
     IF ~Acceptable("RpcResponse", clientMax) \/ response.requestId # call.requestId
     THEN CloseBy("client")
     ELSE /\ outcome' = response
          /\ at' = "done"
          /\ UNCHANGED <<wire, closedBy>>
  /\ UNCHANGED <<config, request, result>>

Next ==
  \/ callInLoop \/ onRequest \/ AnswerUnknown \/ HandlerThrows \/ onResponse
  \/ \E r \in Results : HandlerAnswers(r)

Spec == Init /\ [][Next]_vars
-----------------------------------------------------------------------------
(***************************************************************************)
(* Properties                                                              *)
(***************************************************************************)
Fits(r) == ResponseLen(r.payload, r.errorMessage) <= serverMax

\* What the caller is to be told: the result itself, if it is a proper one.
Promised ==
  LET answer == IF kind = "unregistered" THEN Failure(METHOD_NOT_FOUND, NotFoundText)
                ELSE IF Consistent(result) THEN result
                ELSE Failure(INTERNAL_ERROR, InvalidText)
  IN  IF Fits(answer) THEN answer ELSE Failure(MESSAGE_TOO_LARGE, TooLargeText)

\* The server sees the arguments of the call, byte for byte, and the callback
\* the handler's result; README.md, Protocol: an improper result, an unknown
\* method and a response above the limit each become their own error.
ResultArrives ==
  /\ at \in {"handler", "toClient"} => request = call
  /\ at = "done" /\ closedBy = "nobody" /\ request = call =>
       outcome = Response(call.requestId, Promised)

\* README.md, setMaxMessageSize: with the same limit at both ends no message
\* closes the connection, unless the limit is too small for the smallest error
\* response.
OnlySmallLimitsClose ==
  /\ clientMax = serverMax
  /\ serverMax >= ResponseLen(<<>>, TooLargeText)
  => closedBy = "nobody"
=============================================================================
