----------------------------- MODULE RpcDecoder -----------------------------
(***************************************************************************)
(* One run of RpcRequest::decode, RpcResponse::decode or RpcCancel::decode *)
(* (src/src/RpcMessage.cc) on whatever bytes a peer has sent, one field at *)
(* a time.  The lengths in the message are the peer's: a decoder that      *)
(* believes them reads past the end.                                       *)
(***************************************************************************)
EXTENDS RpcMessage

CONSTANT MaxLen   \* bound: the longest message

ASSUME DecoderAssumption == MaxLen \in Nat

VARIABLES
  msg,     \* the message
  class,   \* whose decode() runs
  field,   \* the position of the next field in DecodeOrder[class]
  cur,     \* its cursor and locals
  object,  \* the members of the object
  returned \* decode() has returned

vars == <<msg, class, field, cur, object, returned>>

Messages == UNION {[1..n -> Bytes] : n \in 0..MaxLen}

Init ==
  /\ msg \in Messages
  /\ class \in Classes
  /\ field = 1
  /\ cur = Start(class, msg)
  /\ object = Blank(class)
  /\ returned = FALSE

\* The next field is read, or decode() returns false.
ReadField ==
  /\ ~returned
  /\ field \in DOMAIN DecodeOrder[class]
  /\ cur' = loadField(class, msg, cur, DecodeOrder[class][field])
  /\ field' = field + 1
  /\ returned' = cur'.refused
  /\ UNCHANGED <<msg, class, object>>

\* Everything has been read.
Return ==
  /\ ~returned
  /\ field \notin DOMAIN DecodeOrder[class]
  /\ object' = Decoded(class, cur, object)
  /\ returned' = TRUE
  /\ UNCHANGED <<msg, class, field, cur>>

Next == ReadField \/ Return

Spec == Init /\ [][Next]_vars
-----------------------------------------------------------------------------
(***************************************************************************)
(* Properties                                                              *)
(***************************************************************************)
\* decode() never reads past the message and leftLen, a size_t, never wraps,
\* whatever lengths the message claims (loadString trusts none of them).
CursorInBounds ==
  /\ cur.index \in 0..Len(msg)
  /\ cur.leftLen = Len(msg) - cur.index

Accepted == returned /\ Accepts(class, cur)

\* decode() accepts nothing that encode() would not have written: an accepted
\* message is, byte for byte, the encoding of the object it was read into, and
\* a message that is refused at any field leaves the object as it was.  What is
\* accepted bears the type by which decodeHead() lets onRpcMessage choose the
\* decoder: no message is understood as two things.
AcceptsOnlyEncodings ==
  IF Accepted
  THEN /\ encodes(class, object) /\ encode(class, object) = msg
       /\ decodeHead(msg) = class
  ELSE object = Blank(class)

MessageLen(c, o) == CASE c = "RpcRequest"  -> RequestLen(o.service, o.method, o.payload)
                      [] c = "RpcResponse" -> ResponseLen(o.payload, o.errorMessage)
                      [] c = "RpcCancel"   -> CancelLen

\* The size that callInLoop and sendResponse compute before they encode is the
\* size of the message the receiver compares with its own limit.
SizeIsExact == Accepted => MessageLen(class, object) = Len(msg)
=============================================================================
