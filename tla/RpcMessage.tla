----------------------------- MODULE RpcMessage -----------------------------
(***************************************************************************)
(* The messages of the protocol (src/src/RpcMessage.cc): how RpcRequest,   *)
(* RpcResponse and RpcCancel become bytes and are read back.               *)
(*                                                                         *)
(* encode() writes the fields one after another.  decode() reads them in   *)
(* its own order with a cursor (index, leftLen); here every field is one   *)
(* step of the cursor, so that decode() can be followed step by step       *)
(* (RpcDecoder) or used as a whole (RpcExchange).                          *)
(*                                                                         *)
(* The widths of the fields are constants: 2, 1, 8, 1, 2 and 4 bytes in    *)
(* RpcMessage.h.                                                           *)
(***************************************************************************)
EXTENDS ByteOrder

CONSTANTS
  VERSION_LEN, REQUEST_TYPE_LEN, REQUEST_ID_LEN, RESPONSE_RESULT_LEN,
  ERROR_CODE_LEN,
  STRING_LEN,      \* the length before a string: SERVICE_NAME_LEN and the like
  ERROR_CODE_CNT   \* the first value that is no RpcErrorCode: 11

ASSUME MessageAssumption ==
  /\ {VERSION_LEN, REQUEST_TYPE_LEN, REQUEST_ID_LEN, RESPONSE_RESULT_LEN,
      ERROR_CODE_LEN, STRING_LEN} \subseteq Nat \ {0}
  /\ ERROR_CODE_CNT \in Nat \ {0}

kRpcProtocolVersion == 2

kSuccess   == 0
kUnsuccess == 1
NO_ERROR   == 0

Classes == {"RpcRequest", "RpcResponse", "RpcCancel"}

\* RpcMessageType
TypeOf == [RpcRequest |-> 0, RpcResponse |-> 1, RpcCancel |-> 2]

\* The bytes of each field that is a number, and the fields that are strings.
Width == [version        |-> VERSION_LEN,         type      |-> REQUEST_TYPE_LEN,
          requestId      |-> REQUEST_ID_LEN,      errorCode |-> ERROR_CODE_LEN,
          responseResult |-> RESPONSE_RESULT_LEN]
StringFields == {"service", "method", "payload", "errorMessage"}

-----------------------------------------------------------------------------
(***************************************************************************)
(* encode                                                                  *)
(***************************************************************************)
\* The sizes of the messages, from the strings they will carry: OutputMessageLen
\* of RpcRequest ...
RequestLen(service, method, payload) ==
  VERSION_LEN + REQUEST_TYPE_LEN + REQUEST_ID_LEN + STRING_LEN + STRING_LEN + STRING_LEN
    + Len(service) + Len(method) + Len(payload)

\* Mutant: the bytes of the error code are forgotten.
ResponseLen_NoErrorCode(payload, errorMessage) ==
  VERSION_LEN + REQUEST_TYPE_LEN + REQUEST_ID_LEN + RESPONSE_RESULT_LEN
    + STRING_LEN + STRING_LEN + Len(payload) + Len(errorMessage)

\* ... and of RpcResponse, and kCancelMessageLen.
ResponseLen(payload, errorMessage) ==
  VERSION_LEN + REQUEST_TYPE_LEN + REQUEST_ID_LEN + RESPONSE_RESULT_LEN + ERROR_CODE_LEN
    + STRING_LEN + STRING_LEN + Len(payload) + Len(errorMessage)

CancelLen == VERSION_LEN + REQUEST_TYPE_LEN + REQUEST_ID_LEN

FitsLength(s) == Len(s) < Pow[STRING_LEN]

\* A result and its error code go together, and only a success has a payload,
\* only a failure a text.
Consistent(r) ==
  /\ r.responseResult \in {kSuccess, kUnsuccess}
  /\ r.errorCode < ERROR_CODE_CNT
  /\ r.responseResult = kSuccess <=> r.errorCode = NO_ERROR
  /\ r.responseResult = kSuccess => r.errorMessage = <<>>
  /\ r.responseResult = kUnsuccess => r.payload = <<>>

\* encode() returns true.
encodes(class, r) ==
  CASE class = "RpcRequest"  -> FitsLength(r.service) /\ FitsLength(r.method)
                                  /\ FitsLength(r.payload)
    [] class = "RpcResponse" -> FitsLength(r.payload) /\ FitsLength(r.errorMessage)
                                  /\ Consistent(r)
    [] class = "RpcCancel"   -> TRUE

Prefixed(s) == hton(Len(s), STRING_LEN) \o s

HeadBytes(class, r) ==
  hton(kRpcProtocolVersion, VERSION_LEN) \o hton(TypeOf[class], REQUEST_TYPE_LEN)
    \o hton(r.requestId, REQUEST_ID_LEN)

RequestBytes(r) ==
  HeadBytes("RpcRequest", r) \o Prefixed(r.service) \o Prefixed(r.method)
    \o Prefixed(r.payload)

ResponseBytes(r) ==
  HeadBytes("RpcResponse", r) \o hton(r.responseResult, RESPONSE_RESULT_LEN)
    \o hton(r.errorCode, ERROR_CODE_LEN) \o Prefixed(r.payload)
    \o Prefixed(r.errorMessage)

CancelBytes(r) == HeadBytes("RpcCancel", r)

\* The output of encode().
encode(class, r) == CASE class = "RpcRequest"  -> RequestBytes(r)
                      [] class = "RpcResponse" -> ResponseBytes(r)
                      [] class = "RpcCancel"   -> CancelBytes(r)
-----------------------------------------------------------------------------
(***************************************************************************)
(* decode                                                                  *)
(***************************************************************************)
\* The fields in the order in which each decode() reads them.
\* Mutant: service and method are read the other way round.
RequestOrder_Swapped ==
  <<"version", "type", "requestId", "method", "service", "payload">>

RequestOrder == <<"version", "type", "requestId", "service", "method", "payload">>

ResponseOrder ==
  <<"version", "type", "requestId", "responseResult", "errorCode", "payload",
    "errorMessage">>

CancelOrder == <<"version", "type", "requestId">>

DecodeOrder == [RpcRequest  |-> RequestOrder, RpcResponse |-> ResponseOrder,
                RpcCancel   |-> CancelOrder]

\* The members that decode() assigns, once everything has been read.
Members == [c \in Classes |-> {DecodeOrder[c][k] : k \in 3..Len(DecodeOrder[c])}]

\* What the default constructor leaves in them.
Blank(class) ==
  [f \in Members[class] |->
     CASE f \in StringFields     -> <<>>
       [] f = "requestId"        -> 0
       [] f = "responseResult"   -> kUnsuccess
       [] f = "errorCode"        -> ERROR_CODE_CNT - 1]

\* The locals of decode(): the cursor, the fields read so far, and whether it
\* has returned false.
Start(class, msg) ==
  [index |-> 0, leftLen |-> Len(msg), refused |-> FALSE,
   local |-> [f \in DOMAIN Width \cup StringFields |->
                IF f \in StringFields THEN <<>> ELSE 0]]

\* data + index; what lies behind the message is arbitrary, here zeros.
Data(msg, index, n) ==
  [k \in 1..n |-> IF index + k \in DOMAIN msg THEN msg[index + k] ELSE 0]

Refuse(cur) == [cur EXCEPT !.refused = TRUE]

Advance(cur, f, value, n) ==
  [cur EXCEPT !.index = @ + n, !.leftLen = @ - n, !.local = [@ EXCEPT ![f] = value]]

\* leftLen < n
TooShort(cur, n) == cur.leftLen < n

\* The value of a number is acceptable where it stands.
Legal(class, cur, f, n) ==
  CASE f = "version"        -> n = kRpcProtocolVersion
    [] f = "type"           -> n = TypeOf[class]
    [] f = "requestId"      -> TRUE
    [] f = "responseResult" -> n \in {kSuccess, kUnsuccess}
    [] f = "errorCode"      -> /\ n < ERROR_CODE_CNT
                               /\ cur.local.responseResult = kSuccess <=> n = NO_ERROR

loadNumber(class, msg, cur, f) ==
  LET n == ntoh(Data(msg, cur.index, Width[f])) IN
  IF TooShort(cur, Width[f]) \/ ~Legal(class, cur, f, n)
  THEN Refuse(cur)
  ELSE Advance(cur, f, n, Width[f])

\* Mutant: the length is compared with what was left before it was read.
Holds_WithLength(cur, len) == len \in 0..cur.leftLen

\* What is left behind the length holds that many bytes.
Holds(cur, len) == len \in 0..(cur.leftLen - STRING_LEN)

loadString(msg, cur, f) ==
  LET len == ntoh(Data(msg, cur.index, STRING_LEN)) IN
  IF TooShort(cur, STRING_LEN) \/ ~Holds(cur, len)
  THEN Refuse(cur)
  ELSE Advance(cur, f, Data(msg, cur.index + STRING_LEN, len), STRING_LEN + len)

loadField(class, msg, cur, f) ==
  IF cur.refused THEN cur
  ELSE IF f \in StringFields THEN loadString(msg, cur, f)
  ELSE loadNumber(class, msg, cur, f)

\* Mutant: bytes behind the last field are not noticed.
Accepts_TrailingBytes(class, cur) ==
  /\ ~cur.refused
  /\ class = "RpcResponse" => Consistent(cur.local)

\* All fields are read: nothing is left over, payload and text fit the result.
Accepts(class, cur) ==
  /\ ~cur.refused
  /\ cur.leftLen = 0
  /\ class = "RpcResponse" => Consistent(cur.local)

\* The object after decode(): untouched if it returned false.
Decoded(class, cur, old) ==
  IF Accepts(class, cur) THEN [f \in Members[class] |-> cur.local[f]] ELSE old

\* The cursor when decode() returns.
decode(class, msg) ==
  LET order == DecodeOrder[class]
      cursor[k \in 0..Len(order)] ==
        IF k = 0 THEN Start(class, msg)
        ELSE loadField(class, msg, cursor[k - 1], order[k])
  IN  cursor[Len(order)]

\* The class that the first bytes name, "none" if decodeHead() returns false.
decodeHead(msg) ==
  LET named == {c \in Classes :
                  TypeOf[c] = ntoh(Data(msg, VERSION_LEN, REQUEST_TYPE_LEN))}
  IN  IF \/ Len(msg) < VERSION_LEN + REQUEST_TYPE_LEN
         \/ ntoh(Data(msg, 0, VERSION_LEN)) # kRpcProtocolVersion
         \/ named = {}
      THEN "none"
      ELSE CHOOSE c \in Classes : c \in named
=============================================================================
