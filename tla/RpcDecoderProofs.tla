-------------------------- MODULE RpcDecoderProofs --------------------------
(***************************************************************************)
(* Proofs about RpcDecoder, for messages of every length, fields of every  *)
(* width and bytes of every size.                                          *)
(***************************************************************************)
EXTENDS RpcDecoder, ByteOrderProofs, SequenceTheorems

\* The cursor is a record, its place and what is left add up to the message.
DecoderInv ==
  /\ class \in Classes
  /\ field \in Nat
  /\ Len(msg) \in Nat
  /\ DOMAIN cur = {"index", "leftLen", "refused", "local"}
  /\ CursorInBounds

\* Every field is a number of known width or a string.
LEMMA FieldKinds ==
  ASSUME NEW c \in Classes, NEW k \in DOMAIN DecodeOrder[c]
  PROVE  DecodeOrder[c][k] \in {"version", "type", "requestId", "responseResult",
                                "errorCode"} \cup StringFields
<1>1. CASE c = "RpcRequest"
  BY <1>1 DEF DecodeOrder, RequestOrder, ResponseOrder, CancelOrder, StringFields
<1>2. CASE c = "RpcResponse"
  BY <1>2 DEF DecodeOrder, RequestOrder, ResponseOrder, CancelOrder, StringFields
<1>3. CASE c = "RpcCancel"
  BY <1>3 DEF DecodeOrder, RequestOrder, ResponseOrder, CancelOrder, StringFields
<1> QED BY <1>1, <1>2, <1>3 DEF Classes

\* A number has a width that is no less than 0.
LEMMA WidthFacts ==
  ASSUME NEW f \in {"version", "type", "requestId", "responseResult", "errorCode"}
  PROVE  Width[f] \in Nat
  BY MessageAssumption DEF Width

\* Moving the cursor forward by what is left at most keeps it in the message.
LEMMA AdvanceFacts ==
  ASSUME DecoderInv, NEW f, NEW value, NEW n \in Nat, n <= cur.leftLen,
         cur' = Advance(cur, f, value, n), msg' = msg
  PROVE  /\ DOMAIN cur' = {"index", "leftLen", "refused", "local"}
         /\ CursorInBounds'
<1>1. /\ cur.index \in 0..Len(msg) /\ cur.leftLen = Len(msg) - cur.index
      /\ Len(msg) \in Nat
      /\ DOMAIN cur = {"index", "leftLen", "refused", "local"}
  BY DEF DecoderInv, CursorInBounds
<1>2. /\ DOMAIN cur' = DOMAIN cur
      /\ cur'.index = cur.index + n
      /\ cur'.leftLen = cur.leftLen - n
  BY <1>1 DEF Advance
<1> QED BY <1>1, <1>2 DEF CursorInBounds

\* A field that is refused leaves the cursor where it is.
LEMMA RefuseFacts ==
  ASSUME DecoderInv, cur' = Refuse(cur), msg' = msg
  PROVE  /\ DOMAIN cur' = {"index", "leftLen", "refused", "local"}
         /\ CursorInBounds'
  BY DEF DecoderInv, CursorInBounds, Refuse

\* Reading one field, whatever its bytes say.
LEMMA FieldStep ==
  ASSUME DecoderInv, NEW f \in {"version", "type", "requestId", "responseResult",
                                "errorCode"} \cup StringFields,
         cur' = loadField(class, msg, cur, f), msg' = msg
  PROVE  /\ DOMAIN cur' = {"index", "leftLen", "refused", "local"}
         /\ CursorInBounds'
<1>0. cur.leftLen \in Nat
  BY DEF DecoderInv, CursorInBounds
<1>1. CASE cur.refused
  BY <1>1 DEF loadField, DecoderInv, CursorInBounds
<1>2. CASE ~cur.refused /\ f \in StringFields
  <2> DEFINE len == ntoh(Data(msg, cur.index, STRING_LEN))
  <2>1. cur' = loadString(msg, cur, f)
    BY <1>2 DEF loadField
  <2>2. CASE TooShort(cur, STRING_LEN) \/ ~Holds(cur, len)
    BY <2>1, <2>2, RefuseFacts DEF loadString
  <2>3. CASE ~TooShort(cur, STRING_LEN) /\ Holds(cur, len)
    <3>1. cur' = Advance(cur, f, Data(msg, cur.index + STRING_LEN, len), STRING_LEN + len)
      BY <2>1, <2>3 DEF loadString
    <3>2. len \in 0..(cur.leftLen - STRING_LEN) /\ STRING_LEN \in Nat
      BY <2>3, MessageAssumption DEF Holds
    <3> HIDE DEF len
    <3>3. STRING_LEN + len \in Nat /\ STRING_LEN + len <= cur.leftLen
      BY <1>0, <3>2
    <3> QED BY <3>1, <3>3, AdvanceFacts
  <2> QED BY <2>2, <2>3
<1>3. CASE ~cur.refused /\ f \notin StringFields
  <2>1. cur' = loadNumber(class, msg, cur, f)
    BY <1>3 DEF loadField
  <2>2. Width[f] \in Nat
    BY <1>3, WidthFacts
  <2> DEFINE n == ntoh(Data(msg, cur.index, Width[f]))
  <2>3. CASE TooShort(cur, Width[f]) \/ ~Legal(class, cur, f, n)
    BY <2>1, <2>3, RefuseFacts DEF loadNumber
  <2>4. CASE ~TooShort(cur, Width[f]) /\ Legal(class, cur, f, n)
    <3>1. cur' = Advance(cur, f, n, Width[f])
      BY <2>1, <2>4 DEF loadNumber
    <3> HIDE DEF n
    <3>2. Width[f] <= cur.leftLen
      BY <1>0, <2>2, <2>4 DEF TooShort
    <3> QED BY <2>2, <3>1, <3>2, AdvanceFacts
  <2> QED BY <2>3, <2>4
<1> QED BY <1>1, <1>2, <1>3

-----------------------------------------------------------------------------
\* The cursor's invariant, for the class of every message.
THEOREM DecoderInvariant == Spec => []DecoderInv
<1>1. Init => DecoderInv
  <2> SUFFICES ASSUME Init PROVE DecoderInv
    OBVIOUS
  <2>1. PICK n \in 0..MaxLen : msg \in [1..n -> Bytes]
    BY DEF Init, Messages
  <2>2. Len(msg) = n /\ n \in Nat
    BY <2>1, DecoderAssumption
  <2>3. cur = Start(class, msg)
    BY DEF Init
  <2>4. /\ cur.index = 0 /\ cur.leftLen = Len(msg)
        /\ DOMAIN cur = {"index", "leftLen", "refused", "local"}
    BY <2>3 DEF Start
  <2> QED BY <2>2, <2>4 DEF Init, DecoderInv, CursorInBounds
<1>2. DecoderInv /\ [Next]_vars => DecoderInv'
  <2> SUFFICES ASSUME DecoderInv, [Next]_vars PROVE DecoderInv'
    OBVIOUS
  <2>1. CASE ReadField
    <3>1. DecodeOrder[class][field] \in {"version", "type", "requestId", "responseResult",
                                         "errorCode"} \cup StringFields
      BY <2>1, FieldKinds DEF ReadField, DecoderInv
    <3>2. /\ DOMAIN cur' = {"index", "leftLen", "refused", "local"}
          /\ CursorInBounds'
      BY <2>1, <3>1, FieldStep DEF ReadField
    <3> QED BY <2>1, <3>2 DEF ReadField, DecoderInv
  <2>2. CASE Return \/ UNCHANGED vars
    BY <2>2 DEF Return, vars, DecoderInv, CursorInBounds
  <2> QED BY <2>1, <2>2 DEF Next
<1> QED BY <1>1, <1>2, PTL DEF Spec

\* decode() of every class stays inside the message and leftLen never wraps,
\* whatever the lengths in the message claim.
THEOREM CursorStaysInBounds == Spec => []CursorInBounds
<1>1. DecoderInv => CursorInBounds
  BY DEF DecoderInv
<1> QED BY <1>1, DecoderInvariant, PTL
-----------------------------------------------------------------------------
(***************************************************************************)
(* The size of an accepted message                                         *)
(***************************************************************************)
Fields == DOMAIN Width \cup StringFields

\* What the fields before the k-th take up, apart from the strings' own bytes.
Fixed ==
  [RpcRequest  |-> <<0, VERSION_LEN, VERSION_LEN + REQUEST_TYPE_LEN,
                     CancelLen, CancelLen + STRING_LEN, CancelLen + STRING_LEN + STRING_LEN,
                     CancelLen + STRING_LEN + STRING_LEN + STRING_LEN>>,
   RpcResponse |-> <<0, VERSION_LEN, VERSION_LEN + REQUEST_TYPE_LEN,
                     CancelLen, CancelLen + RESPONSE_RESULT_LEN,
                     CancelLen + RESPONSE_RESULT_LEN + ERROR_CODE_LEN,
                     CancelLen + RESPONSE_RESULT_LEN + ERROR_CODE_LEN + STRING_LEN,
                     CancelLen + RESPONSE_RESULT_LEN + ERROR_CODE_LEN + STRING_LEN + STRING_LEN>>,
   RpcCancel   |-> <<0, VERSION_LEN, VERSION_LEN + REQUEST_TYPE_LEN, CancelLen>>]

\* The bytes of the strings read so far.
TextLen(local) ==
  Len(local["service"]) + Len(local["method"]) + Len(local["payload"])
    + Len(local["errorMessage"])

\* The cursor has moved by what was read, and strings not read yet are empty.
SizeInv ==
  /\ DOMAIN cur.local = Fields
  /\ \A f \in StringFields : Len(cur.local[f]) \in Nat
  /\ field \in 1..(Len(DecodeOrder[class]) + 1)
  /\ \A f \in StringFields :
       (\A k \in 1..(field - 1) : DecodeOrder[class][k] # f) => Len(cur.local[f]) = 0
  /\ ~cur.refused => cur.index = Fixed[class][field] + TextLen(cur.local)
  /\ returned /\ ~cur.refused =>
       /\ field = Len(DecodeOrder[class]) + 1
       /\ Accepts(class, cur) => object = [f \in Members[class] |-> cur.local[f]]

\* The fixed part grows field by field.
LEMMA FixedFacts ==
  ASSUME NEW c \in Classes
  PROVE  /\ Len(DecodeOrder[c]) \in Nat
         /\ DOMAIN DecodeOrder[c] = 1..Len(DecodeOrder[c])
         /\ Fixed[c][1] = 0
         /\ \A k \in DOMAIN DecodeOrder[c] : Fixed[c][k] \in Nat
         /\ \A k \in DOMAIN DecodeOrder[c] :
              Fixed[c][k + 1] = Fixed[c][k] + IF DecodeOrder[c][k] \in StringFields
                                              THEN STRING_LEN ELSE Width[DecodeOrder[c][k]]
<1> USE MessageAssumption DEF DecodeOrder, RequestOrder, ResponseOrder, CancelOrder, Fixed,
        StringFields, Width, CancelLen
<1>1. CASE c = "RpcRequest"
  BY <1>1
<1>2. CASE c = "RpcResponse"
  BY <1>2
<1>3. CASE c = "RpcCancel"
  BY <1>3
<1> QED BY <1>1, <1>2, <1>3 DEF Classes

\* The members that each decode() assigns.
LEMMA MembersOf ==
  /\ Members["RpcRequest"] = {"requestId", "service", "method", "payload"}
  /\ Members["RpcResponse"] = {"requestId", "responseResult", "errorCode", "payload",
                               "errorMessage"}
  /\ Members["RpcCancel"] = {"requestId"}
<1> USE DEF Members, Classes, DecodeOrder
<1>1. Members["RpcRequest"] = {"requestId", "service", "method", "payload"}
  BY DEF RequestOrder
<1>2. Members["RpcResponse"] = {"requestId", "responseResult", "errorCode", "payload",
                                "errorMessage"}
  BY DEF ResponseOrder
<1>3. Members["RpcCancel"] = {"requestId"}
  BY DEF CancelOrder
<1> QED BY <1>1, <1>2, <1>3

\* No decode() reads a field twice.
LEMMA FieldsDiffer ==
  ASSUME NEW c \in Classes, NEW k \in DOMAIN DecodeOrder[c], NEW l \in DOMAIN DecodeOrder[c],
         DecodeOrder[c][k] = DecodeOrder[c][l]
  PROVE  k = l
<1> USE DEF DecodeOrder, RequestOrder, ResponseOrder, CancelOrder
<1>1. CASE c = "RpcRequest"
  BY <1>1
<1>2. CASE c = "RpcResponse"
  BY <1>2
<1>3. CASE c = "RpcCancel"
  BY <1>3
<1> QED BY <1>1, <1>2, <1>3 DEF Classes

\* A field that is not refused moves the cursor by its own size.
LEMMA FieldReads ==
  ASSUME DecoderInv, NEW f \in {"version", "type", "requestId", "responseResult",
                                "errorCode"} \cup StringFields,
         cur' = loadField(class, msg, cur, f), ~cur.refused
  PROVE  \/ cur' = Refuse(cur)
         \/ f \notin StringFields /\ \E value : cur' = Advance(cur, f, value, Width[f])
         \/ /\ f \in StringFields
            /\ \E value : Len(value) \in Nat
                          /\ cur' = Advance(cur, f, value, STRING_LEN + Len(value))
<1>0. cur.leftLen \in Nat
  BY DEF DecoderInv, CursorInBounds
<1>1. CASE f \in StringFields
  <2> DEFINE len   == ntoh(Data(msg, cur.index, STRING_LEN))
             value == Data(msg, cur.index + STRING_LEN, len)
  <2>1. cur' = loadString(msg, cur, f)
    BY <1>1 DEF loadField
  <2>2. CASE TooShort(cur, STRING_LEN) \/ ~Holds(cur, len)
    BY <2>1, <2>2 DEF loadString
  <2>3. CASE ~TooShort(cur, STRING_LEN) /\ Holds(cur, len)
    <3>1. cur' = Advance(cur, f, value, STRING_LEN + len)
      BY <2>1, <2>3 DEF loadString
    <3>2. len \in Nat
      BY <1>0, <2>3, MessageAssumption DEF Holds
    <3> HIDE DEF len
    <3>3. Len(value) = len
      BY <3>2 DEF Data
    <3> HIDE DEF value
    <3> QED BY <1>1, <3>1, <3>2, <3>3
  <2> QED BY <2>2, <2>3
<1>2. CASE f \notin StringFields
  <2>1. cur' = loadNumber(class, msg, cur, f)
    BY <1>2 DEF loadField
  <2> QED BY <1>2, <2>1 DEF loadNumber
<1> QED BY <1>1, <1>2

\* What an advance does to the locals.
LEMMA AdvanceLocals ==
  ASSUME DecoderInv, DOMAIN cur.local = Fields, NEW f \in Fields, NEW value, NEW n,
         cur' = Advance(cur, f, value, n)
  PROVE  /\ cur'.index = cur.index + n /\ cur'.refused = cur.refused
         /\ DOMAIN cur'.local = Fields /\ cur'.local[f] = value
         /\ \A g \in Fields : g # f => cur'.local[g] = cur.local[g]
BY DEF DecoderInv, Advance

\* The four strings.
LEMMA Texts ==
  ASSUME NEW local
  PROVE  /\ (\A f \in StringFields : Len(local[f]) \in Nat) <=>
              /\ Len(local["service"]) \in Nat /\ Len(local["method"]) \in Nat
              /\ Len(local["payload"]) \in Nat /\ Len(local["errorMessage"]) \in Nat
         /\ (\A f \in StringFields : Len(local[f]) \in Nat) => TextLen(local) \in Nat
         /\ (\A f \in StringFields : Len(local[f]) = 0) => TextLen(local) = 0
<1>1. (\A f \in StringFields : Len(local[f]) \in Nat) <=>
              /\ Len(local["service"]) \in Nat /\ Len(local["method"]) \in Nat
              /\ Len(local["payload"]) \in Nat /\ Len(local["errorMessage"]) \in Nat
  BY Zenon DEF StringFields
<1>2. (\A f \in StringFields : Len(local[f]) = 0) =>
              /\ Len(local["service"]) = 0 /\ Len(local["method"]) = 0
              /\ Len(local["payload"]) = 0 /\ Len(local["errorMessage"]) = 0
  BY Zenon DEF StringFields
<1> DEFINE s == Len(local["service"])
           m == Len(local["method"])
           p == Len(local["payload"])
           e == Len(local["errorMessage"])
<1>3. TextLen(local) = s + m + p + e
  BY Zenon DEF TextLen
<1> HIDE DEF s, m, p, e
<1>4. s \in Nat /\ m \in Nat /\ p \in Nat /\ e \in Nat => s + m + p + e \in Nat
  OBVIOUS
<1>5. s = 0 /\ m = 0 /\ p = 0 /\ e = 0 => s + m + p + e = 0
  OBVIOUS
<1> QED BY <1>1, <1>2, <1>3, <1>4, <1>5, Zenon DEF s, m, p, e

\* Adding one string, which was empty, adds its bytes and nothing else.
LEMMA TextGrows ==
  ASSUME NEW old, NEW new, NEW f \in StringFields,
         \A g \in StringFields : Len(old[g]) \in Nat,
         Len(old[f]) = 0, Len(new[f]) \in Nat,
         \A g \in StringFields : g # f => new[g] = old[g]
  PROVE  TextLen(new) = TextLen(old) + Len(new[f])
<1>1. /\ Len(old["service"]) \in Nat /\ Len(old["method"]) \in Nat
      /\ Len(old["payload"]) \in Nat /\ Len(old["errorMessage"]) \in Nat
  BY Texts
<1>2. f \in {"service", "method", "payload", "errorMessage"}
  BY DEF StringFields
<1>3. \A g \in {"service", "method", "payload", "errorMessage"} : g # f => new[g] = old[g]
  BY DEF StringFields
<1> DEFINE s == Len(old["service"])
           m == Len(old["method"])
           p == Len(old["payload"])
           e == Len(old["errorMessage"])
           n == Len(new[f])
<1>8. /\ TextLen(old) = s + m + p + e
      /\ s \in Nat /\ m \in Nat /\ p \in Nat /\ e \in Nat /\ n \in Nat
  BY <1>1, Zenon DEF TextLen
<1>4. CASE f = "service"
  <2>1. TextLen(new) = n + m + p + e /\ s = 0
    BY <1>3, <1>4 DEF TextLen
  <2> HIDE DEF s, m, p, e, n
  <2>2. TextLen(new) = TextLen(old) + n
    BY <1>8, <2>1
  <2> QED BY <2>2 DEF n
<1>5. CASE f = "method"
  <2>1. TextLen(new) = s + n + p + e /\ m = 0
    BY <1>3, <1>5 DEF TextLen
  <2> HIDE DEF s, m, p, e, n
  <2>2. TextLen(new) = TextLen(old) + n
    BY <1>8, <2>1
  <2> QED BY <2>2 DEF n
<1>6. CASE f = "payload"
  <2>1. TextLen(new) = s + m + n + e /\ p = 0
    BY <1>3, <1>6 DEF TextLen
  <2> HIDE DEF s, m, p, e, n
  <2>2. TextLen(new) = TextLen(old) + n
    BY <1>8, <2>1
  <2> QED BY <2>2 DEF n
<1>7. CASE f = "errorMessage"
  <2>1. TextLen(new) = s + m + p + n /\ e = 0
    BY <1>3, <1>7 DEF TextLen
  <2> HIDE DEF s, m, p, e, n
  <2>2. TextLen(new) = TextLen(old) + n
    BY <1>8, <2>1
  <2> QED BY <2>2 DEF n
<1> QED BY <1>2, <1>4, <1>5, <1>6, <1>7

\* Reading a field keeps the invariant.
LEMMA SizeStep ==
  ASSUME DecoderInv, SizeInv, ReadField
  PROVE  SizeInv'
<1> DEFINE f == DecodeOrder[class][field]
<1>1. /\ ~returned /\ field \in DOMAIN DecodeOrder[class] /\ class \in Classes
      /\ cur' = loadField(class, msg, cur, f) /\ field' = field + 1
      /\ returned' = cur'.refused
      /\ UNCHANGED <<msg, class, object>>
  BY DEF ReadField, DecoderInv
<1>2. f \in {"version", "type", "requestId", "responseResult", "errorCode"} \cup StringFields
  BY <1>1, FieldKinds
<1>3. f \in Fields
  BY <1>2 DEF Fields, Width
<1>4. field' \in 1..(Len(DecodeOrder[class]) + 1)
  BY <1>1, FixedFacts DEF SizeInv
<1>5. Fixed[class][field + 1] = Fixed[class][field]
                                + IF f \in StringFields THEN STRING_LEN ELSE Width[f]
  BY <1>1, FixedFacts
<1>6. ~(returned' /\ ~cur'.refused)
  BY <1>1
<1>7. field - 1 \in Nat /\ 1..(field - 1) \subseteq 1..field
  BY <1>1, FixedFacts
<1>8. f \in StringFields => Len(cur.local[f]) = 0
  <2> SUFFICES ASSUME f \in StringFields, NEW k \in 1..(field - 1), DecodeOrder[class][k] = f
               PROVE  FALSE
    BY DEF SizeInv
  <2>1. k \in DOMAIN DecodeOrder[class] /\ k # field
    BY <1>1, FixedFacts
  <2> QED BY <1>1, <2>1, FieldsDiffer
<1>9. \A g \in StringFields : (\A k \in 1..field : DecodeOrder[class][k] # g)
        => g # f /\ Len(cur.local[g]) = 0
  BY <1>1, <1>7, FixedFacts DEF SizeInv
<1>10. cur.index \in Nat /\ TextLen(cur.local) \in Nat
  BY Texts DEF DecoderInv, CursorInBounds, SizeInv
<1> HIDE DEF f
<1>11. ASSUME cur'.local = cur.local, cur'.refused PROVE SizeInv'
  BY <1>1, <1>4, <1>6, <1>9, <1>11 DEF SizeInv
<1>12. CASE cur.refused
  BY <1>1, <1>11, <1>12 DEF loadField
<1>13. CASE cur' = Refuse(cur)
  <2>1. cur'.local = cur.local /\ cur'.refused
    BY <1>13 DEF Refuse, DecoderInv
  <2> QED BY <1>11, <2>1
<1>14. ASSUME ~cur.refused, f \notin StringFields, NEW value,
              cur' = Advance(cur, f, value, Width[f])
       PROVE  SizeInv'
  <2>1. /\ cur'.index = cur.index + Width[f] /\ cur'.refused = cur.refused
        /\ DOMAIN cur'.local = Fields
        /\ \A g \in Fields : g # f => cur'.local[g] = cur.local[g]
    BY <1>3, <1>14, AdvanceLocals DEF SizeInv
  <2>2. \A g \in StringFields : cur'.local[g] = cur.local[g]
    BY <1>14, <2>1 DEF Fields
  <2>3. TextLen(cur'.local) = TextLen(cur.local)
    BY <2>2 DEF TextLen, StringFields
  <2>4. Width[f] \in Nat
    BY <1>2, <1>14, WidthFacts
  <2>5. Fixed[class][field] \in Nat
    BY <1>1, FixedFacts
  <2>6. cur'.index = Fixed[class][field + 1] + TextLen(cur'.local)
    BY <1>5, <1>10, <1>14, <2>1, <2>3, <2>4, <2>5 DEF SizeInv
  <2> QED BY <1>1, <1>4, <1>6, <1>9, <2>1, <2>2, <2>6 DEF SizeInv
<1>15. ASSUME ~cur.refused, f \in StringFields, NEW value, Len(value) \in Nat,
              cur' = Advance(cur, f, value, STRING_LEN + Len(value))
       PROVE  SizeInv'
  <2>1. /\ cur'.index = cur.index + (STRING_LEN + Len(value)) /\ cur'.refused = cur.refused
        /\ DOMAIN cur'.local = Fields /\ cur'.local[f] = value
        /\ \A g \in Fields : g # f => cur'.local[g] = cur.local[g]
    BY <1>3, <1>15, AdvanceLocals DEF SizeInv
  <2>2. \A g \in StringFields : g # f => cur'.local[g] = cur.local[g]
    BY <2>1 DEF Fields
  <2>3. TextLen(cur'.local) = TextLen(cur.local) + Len(value)
    <3>1. Len(cur.local[f]) = 0 /\ Len(cur'.local[f]) = Len(value) /\ Len(cur'.local[f]) \in Nat
      BY <1>8, <1>15, <2>1
    <3>2. \A g \in StringFields : Len(cur.local[g]) \in Nat
      BY DEF SizeInv
    <3>3. TextLen(cur'.local) = TextLen(cur.local) + Len(cur'.local[f])
      BY <1>15, <2>2, <3>1, <3>2, TextGrows, Zenon
    <3> QED BY <3>1, <3>3
  <2>4. Fixed[class][field] \in Nat /\ STRING_LEN \in Nat
    BY <1>1, FixedFacts, MessageAssumption
  <2>5. cur'.index = Fixed[class][field + 1] + TextLen(cur'.local)
    BY <1>5, <1>10, <1>15, <2>1, <2>3, <2>4 DEF SizeInv
  <2> QED BY <1>1, <1>4, <1>6, <1>9, <1>15, <2>1, <2>2, <2>5 DEF SizeInv
<1> QED BY <1>1, <1>2, <1>12, <1>13, <1>14, <1>15, FieldReads

\* Where the cursor is, at every field of every message.
THEOREM SizeInvariant == Spec => []SizeInv
<1>1. Init => SizeInv
  <2> SUFFICES ASSUME Init PROVE SizeInv
    OBVIOUS
  <2>1. cur = Start(class, msg) /\ field = 1 /\ class \in Classes /\ ~returned
    BY DEF Init
  <2>2. cur.index = 0 /\ cur.local = [f \in Fields |-> IF f \in StringFields THEN <<>> ELSE 0]
    BY <2>1 DEF Start, Fields
  <2>3. DOMAIN cur.local = Fields /\ \A f \in StringFields : Len(cur.local[f]) = 0
    BY <2>2 DEF Fields
  <2>4. TextLen(cur.local) = 0
    BY <2>3, Texts
  <2> QED BY <2>1, <2>2, <2>3, <2>4, FixedFacts DEF SizeInv
<1>2. DecoderInv /\ SizeInv /\ [Next]_vars => SizeInv'
  <2> SUFFICES ASSUME DecoderInv, SizeInv, [Next]_vars PROVE SizeInv'
    OBVIOUS
  <2>1. CASE Return
    <3>1. /\ UNCHANGED <<class, field, cur>> /\ object' = Decoded(class, cur, object)
          /\ field \notin DOMAIN DecodeOrder[class]
      BY <2>1 DEF Return
    <3>2. field = Len(DecodeOrder[class]) + 1
      BY <3>1, FixedFacts DEF SizeInv, DecoderInv
    <3>3. Accepts(class, cur) => object' = [f \in Members[class] |-> cur.local[f]]
      BY <3>1 DEF Decoded
    <3>4. Accepts(class, cur)' <=> Accepts(class, cur)
      BY <3>1 DEF Accepts
    <3> QED BY <3>1, <3>2, <3>3, <3>4 DEF SizeInv
  <2>2. CASE UNCHANGED vars
    BY <2>2 DEF vars, SizeInv, Accepts
  <2> QED BY <2>1, <2>2, SizeStep DEF Next
<1> QED BY <1>1, <1>2, DecoderInvariant, PTL DEF Spec

\* The sizes that callInLoop and sendResponse compute for their limits are those
\* of the messages: decode() accepts none of another size, for any widths and
\* strings of any length.
THEOREM SizesAreExact == Spec => []SizeIsExact
<1>1. DecoderInv /\ SizeInv => SizeIsExact
  <2> SUFFICES ASSUME DecoderInv, SizeInv, Accepted PROVE MessageLen(class, object) = Len(msg)
    BY DEF SizeIsExact
  <2> DEFINE l == cur.local
  <2>1. /\ returned /\ ~cur.refused /\ cur.leftLen = 0 /\ class \in Classes
        /\ field = Len(DecodeOrder[class]) + 1 /\ object = [f \in Members[class] |-> l[f]]
        /\ cur.index = Fixed[class][field] + TextLen(l)
    BY DEF Accepted, Accepts, SizeInv, DecoderInv
  <2>2. cur.index = Len(msg)
    BY <2>1 DEF DecoderInv, CursorInBounds
  <2> DEFINE s == Len(l["service"])
             m == Len(l["method"])
             p == Len(l["payload"])
             e == Len(l["errorMessage"])
  <2>3. s \in Nat /\ m \in Nat /\ p \in Nat /\ e \in Nat /\ TextLen(l) = s + m + p + e
    BY Texts, Zenon DEF SizeInv, TextLen
  <2>8. /\ CancelLen \in Nat /\ STRING_LEN \in Nat /\ RESPONSE_RESULT_LEN \in Nat
        /\ ERROR_CODE_LEN \in Nat
    BY MessageAssumption DEF CancelLen
  <2>4. \A f \in StringFields :
          (\A k \in 1..Len(DecodeOrder[class]) : DecodeOrder[class][k] # f) => Len(l[f]) = 0
    <3>1. field - 1 = Len(DecodeOrder[class])
      BY <2>1, FixedFacts
    <3> QED BY <3>1 DEF SizeInv
  <2> HIDE DEF l, s, m, p, e
  <2>5. CASE class = "RpcRequest"
    <3>1. Members[class] = {"requestId", "service", "method", "payload"}
      BY <2>5, MembersOf
    <3>2. object.service = l["service"] /\ object.method = l["method"]
          /\ object.payload = l["payload"]
      BY <2>1, <3>1
    <3>3. Len(l["errorMessage"]) = 0
      BY <2>4, <2>5 DEF StringFields, DecodeOrder, RequestOrder
    <3>4. Fixed[class][field] = CancelLen + STRING_LEN + STRING_LEN + STRING_LEN
      BY <2>1, <2>5 DEF Fixed, DecodeOrder, RequestOrder
    <3>5. MessageLen(class, object) =
            CancelLen + STRING_LEN + STRING_LEN + STRING_LEN + s + m + p
      BY <2>5, <3>2 DEF MessageLen, RequestLen, CancelLen, s, m, p
    <3> QED BY <2>1, <2>2, <2>3, <2>8, <3>3, <3>4, <3>5 DEF e
  <2>6. CASE class = "RpcResponse"
    <3>1. Members[class] = {"requestId", "responseResult", "errorCode", "payload",
                            "errorMessage"}
      BY <2>6, MembersOf
    <3>2. object.payload = l["payload"] /\ object.errorMessage = l["errorMessage"]
      BY <2>1, <3>1
    <3>3. Len(l["service"]) = 0 /\ Len(l["method"]) = 0
      BY <2>4, <2>6 DEF StringFields, DecodeOrder, ResponseOrder
    <3>4. Fixed[class][field] = CancelLen + RESPONSE_RESULT_LEN + ERROR_CODE_LEN
                                  + STRING_LEN + STRING_LEN
      BY <2>1, <2>6 DEF Fixed, DecodeOrder, ResponseOrder
    <3>5. MessageLen(class, object) =
            CancelLen + RESPONSE_RESULT_LEN + ERROR_CODE_LEN + STRING_LEN + STRING_LEN + p + e
      BY <2>6, <3>2 DEF MessageLen, ResponseLen, CancelLen, p, e
    <3> QED BY <2>1, <2>2, <2>3, <2>8, <3>3, <3>4, <3>5 DEF s, m
  <2>7. CASE class = "RpcCancel"
    <3>1. TextLen(l) = 0
      <4>1. \A f \in StringFields : Len(l[f]) = 0
        BY <2>4, <2>7 DEF StringFields, DecodeOrder, CancelOrder
      <4> QED BY <4>1, Texts
    <3>2. Fixed[class][field] = CancelLen
      BY <2>1, <2>7 DEF Fixed, DecodeOrder, CancelOrder
    <3> QED BY <2>1, <2>2, <2>7, <3>1, <3>2, MessageAssumption DEF MessageLen, CancelLen
  <2> QED BY <2>1, <2>5, <2>6, <2>7 DEF Classes
<1> QED BY <1>1, DecoderInvariant, SizeInvariant, PTL
-----------------------------------------------------------------------------
(***************************************************************************)
(* What is accepted is what encode() writes                                *)
(***************************************************************************)
\* A part of the message is a string of bytes.
LEMMA DataFacts ==
  ASSUME NEW m \in Seq(Bytes), NEW i \in Nat, NEW n \in Nat
  PROVE  Data(m, i, n) \in [1..n -> Bytes] /\ Data(m, i, n) \in Seq(Bytes) /\ Len(Data(m, i, n)) = n
<1>1. 0 \in Bytes
  BY ByteAssumption DEF Bytes
<1>2. \A k \in DOMAIN m : m[k] \in Bytes
  OBVIOUS
<1>3. Data(m, i, n) = [k \in 1..n |-> IF i + k \in DOMAIN m THEN m[i + k] ELSE 0]
  BY Zenon DEF Data
<1>4. Data(m, i, n) \in [1..n -> Bytes]
  BY <1>1, <1>2, <1>3
<1> QED BY <1>4

\* Two parts that follow one another are one part.
LEMMA DataJoins ==
  ASSUME NEW m \in Seq(Bytes), NEW i \in Nat, NEW n \in Nat, NEW l \in Nat
  PROVE  Data(m, i, n) \o Data(m, i + n, l) = Data(m, i, n + l)
<1> DEFINE s == Data(m, i, n)
           t == Data(m, i + n, l)
           u == Data(m, i, n + l)
<1>1. /\ s \in Seq(Bytes) /\ Len(s) = n /\ t \in Seq(Bytes) /\ Len(t) = l
      /\ u \in Seq(Bytes) /\ Len(u) = n + l
  <2>1. i + n \in Nat /\ n + l \in Nat
    OBVIOUS
  <2> QED BY <2>1, DataFacts
<1>2. \A k \in 1..n : s[k] = u[k]
  BY DEF Data
<1>3. \A k \in 1..l : t[k] = u[n + k]
  BY DEF Data
<1> HIDE DEF s, t, u
<1>7. s \o t \in Seq(Bytes) /\ Len(s \o t) = Len(s) + Len(t)
  BY <1>1, ConcatProperties, Zenon
<1>4. s \o t \in Seq(Bytes) /\ Len(s \o t) = n + l
  BY <1>1, <1>7
<1>5. ASSUME NEW k \in 1..(n + l) PROVE (s \o t)[k] = u[k]
  <2>1. CASE k <= n
    BY <1>1, <1>2, <2>1
  <2>2. CASE ~(k <= n)
    <3>1. k - n \in 1..l /\ n + (k - n) = k
      BY <2>2
    <3>2. (s \o t)[k] = t[k - n]
      BY <1>1, <2>2
    <3> QED BY <1>3, <3>1, <3>2
  <2> QED BY <2>1, <2>2
<1>6. s \o t = u
  <2>1. Len(s \o t) = Len(u) /\ \A k \in 1..Len(s \o t) : (s \o t)[k] = u[k]
    BY <1>1, <1>4, <1>5
  <2> QED BY <1>1, <1>4, <2>1, SeqEqual, Zenon
<1> QED BY <1>6 DEF s, t, u

\* All of it is the message.
LEMMA DataWhole ==
  ASSUME NEW m \in Seq(Bytes)
  PROVE  Data(m, 0, Len(m)) = m
<1>1. Len(m) \in Nat /\ DOMAIN m = 1..Len(m)
  OBVIOUS
<1>2. Data(m, 0, Len(m)) \in Seq(Bytes) /\ Len(Data(m, 0, Len(m))) = Len(m)
  BY <1>1, DataFacts
<1>3. \A k \in 1..Len(m) : Data(m, 0, Len(m))[k] = m[k]
  BY <1>1 DEF Data
<1> QED BY <1>1, <1>2, <1>3

\* The bytes encode() writes for one field.
Piece(l, f) == IF f \in StringFields THEN Prefixed(l[f]) ELSE hton(l[f], Width[f])

\* A field that is not refused stands in the message as encode() writes it.
LEMMA FieldRead ==
  ASSUME DecoderInv, msg \in Seq(Bytes), DOMAIN cur.local = Fields,
         NEW f \in {"version", "type", "requestId", "responseResult",
                    "errorCode"} \cup StringFields,
         cur' = loadField(class, msg, cur, f), ~cur.refused
  PROVE  \/ cur' = Refuse(cur)
         \/ \E value : \E n \in Nat :
              /\ cur' = Advance(cur, f, value, n)
              /\ Piece(cur'.local, f) = Data(msg, cur.index, n)
              /\ f \in StringFields => FitsLength(value)
              /\ f \notin StringFields =>
                   /\ n = Width[f] /\ value = ntoh(Data(msg, cur.index, n))
                   /\ Legal(class, cur, f, value)
<1>0. cur.leftLen \in Nat /\ cur.index \in Nat /\ f \in Fields
  BY DEF DecoderInv, CursorInBounds, Fields, Width
<1>1. CASE f \in StringFields
  <2> DEFINE head  == Data(msg, cur.index, STRING_LEN)
             len   == ntoh(head)
             value == Data(msg, cur.index + STRING_LEN, len)
  <2>1. cur' = loadString(msg, cur, f)
    BY <1>1 DEF loadField
  <2>2. CASE TooShort(cur, STRING_LEN) \/ ~Holds(cur, len)
    BY <2>1, <2>2 DEF loadString
  <2>3. CASE ~TooShort(cur, STRING_LEN) /\ Holds(cur, len)
    <3>1. cur' = Advance(cur, f, value, STRING_LEN + len)
      BY <2>1, <2>3 DEF loadString
    <3>2. STRING_LEN \in Nat
      BY MessageAssumption
    <3>3. head \in [1..STRING_LEN -> Bytes]
      BY <1>0, <3>2, DataFacts
    <3> HIDE DEF head
    <3>4. len \in 0..(Pow[STRING_LEN] - 1) /\ hton(len, STRING_LEN) = head
      BY <3>2, <3>3, WrittenAsRead
    <3>5. Pow[STRING_LEN] \in Nat
      BY <3>2, PowFacts, PowerOf
    <3> HIDE DEF len
    <3>6. len \in Nat /\ len < Pow[STRING_LEN] /\ cur.index + STRING_LEN \in Nat
          /\ STRING_LEN + len \in Nat
      BY <1>0, <3>2, <3>4, <3>5
    <3>7. Len(value) = len
      BY <3>6, DataFacts
    <3>8. head \o value = Data(msg, cur.index, STRING_LEN + len)
      <4>1. Data(msg, cur.index, STRING_LEN) \o Data(msg, cur.index + STRING_LEN, len)
              = Data(msg, cur.index, STRING_LEN + len)
        <5>1. \A i, n, l \in Nat : Data(msg, i, n) \o Data(msg, i + n, l) = Data(msg, i, n + l)
          BY DataJoins
        <5> QED BY <1>0, <3>2, <3>6, <5>1, Zenon
      <4> QED BY <4>1 DEF head
    <3> HIDE DEF value
    <3>9. cur'.local[f] = value
      BY <1>0, <3>1, AdvanceLocals
    <3>10. Piece(cur'.local, f) = Data(msg, cur.index, STRING_LEN + len)
      BY <1>1, <3>4, <3>7, <3>8, <3>9 DEF Piece, Prefixed
    <3>11. FitsLength(value)
      BY <3>6, <3>7 DEF FitsLength
    <3> QED BY <1>1, <3>1, <3>6, <3>10, <3>11
  <2> QED BY <2>2, <2>3
<1>2. CASE f \notin StringFields
  <2> DEFINE bytes == Data(msg, cur.index, Width[f])
             value == ntoh(bytes)
  <2>1. cur' = loadNumber(class, msg, cur, f)
    BY <1>2 DEF loadField
  <2>2. CASE TooShort(cur, Width[f]) \/ ~Legal(class, cur, f, value)
    BY <2>1, <2>2 DEF loadNumber
  <2>3. CASE ~TooShort(cur, Width[f]) /\ Legal(class, cur, f, value)
    <3>1. cur' = Advance(cur, f, value, Width[f])
      BY <2>1, <2>3 DEF loadNumber
    <3>2. Width[f] \in Nat
      BY <1>2, WidthFacts
    <3>3. bytes \in [1..Width[f] -> Bytes]
      BY <1>0, <3>2, DataFacts
    <3>4. hton(value, Width[f]) = bytes
      BY <3>2, <3>3, WrittenAsRead
    <3>5. cur'.local[f] = value
      <4> HIDE DEF value
      <4> QED BY <1>0, <3>1, AdvanceLocals
    <3>6. Piece(cur'.local, f) = bytes
      BY <1>2, <3>4, <3>5 DEF Piece
    <3> QED BY <1>2, <2>3, <3>1, <3>2, <3>6
  <2> QED BY <2>2, <2>3
<1> QED BY <1>1, <1>2

\* off marks where the fields before the k-th begin, each as encode() writes it ...
Marks(off, l, c, m, k) ==
  /\ off[1] = 0
  /\ \A j \in 1..(k - 1) : \E n \in Nat : /\ off[j + 1] = off[j] + n
                                          /\ Piece(l, DecodeOrder[c][j]) = Data(m, off[j], n)

\* ... so that together they are the first i bytes of the message.
Marked(l, c, m, k, i) == \E off \in [1..k -> Nat] : off[k] = i /\ Marks(off, l, c, m, k)

\* The fields before the k-th are the same.
Kept(new, l, c, k) ==
  \A j \in 1..(k - 1) : Piece(new, DecodeOrder[c][j]) = Piece(l, DecodeOrder[c][j])

\* What has been read is what encode() writes for the locals, version and type are
\* the right ones, and the object is only touched at the end.
CodeInv ==
  /\ msg \in Seq(Bytes)
  /\ \A f \in StringFields : FitsLength(cur.local[f])
  /\ ~cur.refused =>
       /\ Marked(cur.local, class, msg, field, cur.index)
       /\ field > 1 => /\ cur.local["version"] = kRpcProtocolVersion
                       /\ ntoh(Data(msg, 0, VERSION_LEN)) = kRpcProtocolVersion
       /\ field > 2 => /\ cur.local["type"] = TypeOf[class]
                       /\ ntoh(Data(msg, VERSION_LEN, REQUEST_TYPE_LEN)) = TypeOf[class]
  /\ ~Accepted => object = Blank(class)

\* Every message begins with the same three fields.
LEMMA OrderHead ==
  ASSUME NEW c \in Classes
  PROVE  /\ DecodeOrder[c][1] = "version" /\ DecodeOrder[c][2] = "type"
         /\ DecodeOrder[c][3] = "requestId" /\ {1, 2, 3} \subseteq DOMAIN DecodeOrder[c]
         /\ Fixed[c][2] = VERSION_LEN
<1> USE DEF DecodeOrder, RequestOrder, ResponseOrder, CancelOrder, Fixed
<1>1. CASE c = "RpcRequest"
  BY <1>1
<1>2. CASE c = "RpcResponse"
  BY <1>2
<1>3. CASE c = "RpcCancel"
  BY <1>3
<1> QED BY <1>1, <1>2, <1>3 DEF Classes

\* No message is shorter than version and type.
LEMMA FixedLast ==
  ASSUME NEW c \in Classes
  PROVE  /\ Fixed[c][Len(DecodeOrder[c]) + 1] \in Nat
         /\ Fixed[c][Len(DecodeOrder[c]) + 1] >= VERSION_LEN + REQUEST_TYPE_LEN
         /\ VERSION_LEN + REQUEST_TYPE_LEN \in Nat
<1> USE MessageAssumption DEF DecodeOrder, RequestOrder, ResponseOrder, CancelOrder, Fixed, CancelLen
<1>1. CASE c = "RpcRequest"
  BY <1>1
<1>2. CASE c = "RpcResponse"
  BY <1>2
<1>3. CASE c = "RpcCancel"
  BY <1>3
<1> QED BY <1>1, <1>2, <1>3 DEF Classes

\* Where version and type stand.
LEMMA HeadIndex ==
  ASSUME DecoderInv, SizeInv, ~cur.refused
  PROVE  /\ field = 1 => cur.index = 0
         /\ field = 2 => cur.index = VERSION_LEN
<1>1. class \in Classes /\ VERSION_LEN \in Nat
  BY MessageAssumption DEF DecoderInv
<1>2. ASSUME field \in {1, 2} PROVE TextLen(cur.local) = 0
  <2>1. \A k \in 1..(field - 1) : k = 1
    BY <1>2
  <2>2. "version" \notin StringFields
    BY DEF StringFields
  <2>3. \A f \in StringFields : \A k \in 1..(field - 1) : DecodeOrder[class][k] # f
    BY <1>1, <2>1, <2>2, OrderHead
  <2>4. \A f \in StringFields : Len(cur.local[f]) = 0
    BY <2>3 DEF SizeInv
  <2> QED BY <2>4, Texts
<1>3. Fixed[class][1] = 0 /\ Fixed[class][2] = VERSION_LEN
  BY <1>1, FixedFacts, OrderHead
<1> QED BY <1>1, <1>2, <1>3 DEF SizeInv

\* A new mark behind the field that was read.
LEMMA MarksGrow ==
  ASSUME NEW k \in Nat \ {0}, NEW i, NEW n \in Nat, NEW l, NEW new, NEW c, NEW m,
         Marked(l, c, m, k, i), Kept(new, l, c, k),
         Piece(new, DecodeOrder[c][k]) = Data(m, i, n)
  PROVE  Marked(new, c, m, k + 1, i + n)
<1>0. PICK off \in [1..k -> Nat] : off[k] = i /\ Marks(off, l, c, m, k)
  BY DEF Marked
<1> DEFINE more == [j \in 1..(k + 1) |-> IF j = k + 1 THEN off[k] + n ELSE off[j]]
<1>1. off[k] \in Nat /\ off[k] + n \in Nat
  BY <1>0
<1>2. more \in [1..(k + 1) -> Nat]
  BY <1>0, <1>1
<1>3. more[k + 1] = off[k] + n /\ \A j \in 1..k : more[j] = off[j]
  OBVIOUS
<1> HIDE DEF more
<1>4. more[1] = 0
  BY <1>0, <1>3 DEF Marks
<1>5. ASSUME NEW j \in 1..((k + 1) - 1)
      PROVE  \E x \in Nat : /\ more[j + 1] = more[j] + x
                            /\ Piece(new, DecodeOrder[c][j]) = Data(m, more[j], x)
  <2>1. CASE j = k
    <3>1. more[k + 1] = more[k] + n /\ Piece(new, DecodeOrder[c][k]) = Data(m, more[k], n)
      BY <1>0, <1>3
    <3> QED BY <2>1, <3>1
  <2>2. CASE j # k
    <3>1. j \in 1..(k - 1) /\ j \in 1..k /\ j + 1 \in 1..k
      BY <2>2
    <3>2. PICK x \in Nat : off[j + 1] = off[j] + x /\ Piece(l, DecodeOrder[c][j]) = Data(m, off[j], x)
      BY <1>0, <3>1 DEF Marks
    <3>3. more[j + 1] = more[j] + x
      BY <1>3, <3>1, <3>2
    <3>4. Piece(new, DecodeOrder[c][j]) = Data(m, more[j], x)
      BY <1>3, <3>1, <3>2 DEF Kept
    <3> QED BY <3>3, <3>4
  <2> QED BY <2>1, <2>2
<1>6. Marks(more, new, c, m, k + 1)
  BY <1>4, <1>5 DEF Marks
<1> QED BY <1>0, <1>2, <1>3, <1>6 DEF Marked

\* Reading a field keeps the invariant.
LEMMA CodeStep ==
  ASSUME DecoderInv, SizeInv, CodeInv, ReadField
  PROVE  CodeInv'
<1> DEFINE f == DecodeOrder[class][field]
<1>1. /\ ~returned /\ field \in DOMAIN DecodeOrder[class] /\ class \in Classes
      /\ cur' = loadField(class, msg, cur, f) /\ field' = field + 1
      /\ returned' = cur'.refused
      /\ msg' = msg /\ class' = class /\ object' = object
  BY DEF ReadField, DecoderInv
<1>2. f \in {"version", "type", "requestId", "responseResult", "errorCode"} \cup StringFields
  BY <1>1, FieldKinds
<1>3. f \in Fields /\ DOMAIN cur.local = Fields
  BY <1>2 DEF Fields, Width, SizeInv
<1>4. object' = Blank(class) /\ ~Accepted'
  BY <1>1 DEF CodeInv, Accepted, Accepts
<1>5. field \in Nat \ {0} /\ \A j \in 1..(field - 1) : j \in DOMAIN DecodeOrder[class] /\ j # field
  BY <1>1, FixedFacts
<1>6. \A j \in 1..(field - 1) : DecodeOrder[class][j] # f /\ DecodeOrder[class][j] \in Fields
  <2>1. \A j \in 1..(field - 1) : DecodeOrder[class][j] # f
    BY <1>1, <1>5, FieldsDiffer
  <2>2. \A j \in 1..(field - 1) : DecodeOrder[class][j] \in Fields
    BY <1>1, <1>5, FieldKinds DEF Fields, Width
  <2> QED BY <2>1, <2>2
<1>7. /\ f = "version" => field = 1
      /\ f = "type" => field = 2
      /\ field = 1 => f = "version"
      /\ field = 2 => f = "type"
  BY <1>1, OrderHead, FieldsDiffer
<1> HIDE DEF f
<1>8. ASSUME cur'.local = cur.local, cur'.refused PROVE CodeInv'
  <2>1. \A g \in StringFields : FitsLength(cur'.local[g])
    BY <1>8 DEF CodeInv
  <2>2. msg' \in Seq(Bytes)
    BY <1>1 DEF CodeInv
  <2>3. object' = Blank(class')
    BY <1>1, <1>4
  <2>4. \A g \in StringFields : FitsLength(cur.local[g])'
    BY <2>1 DEF FitsLength
  <2> QED BY <1>8, <2>2, <2>3, <2>4 DEF CodeInv
<1>9. CASE cur.refused
  BY <1>1, <1>8, <1>9 DEF loadField
<1>10. CASE cur' = Refuse(cur)
  <2>1. cur'.local = cur.local /\ cur'.refused
    BY <1>10 DEF Refuse, DecoderInv
  <2> QED BY <1>8, <2>1
<1>11. ASSUME ~cur.refused, NEW value, NEW n \in Nat,
              cur' = Advance(cur, f, value, n),
              Piece(cur'.local, f) = Data(msg, cur.index, n),
              f \in StringFields => FitsLength(value),
              f \notin StringFields =>
                   /\ n = Width[f] /\ value = ntoh(Data(msg, cur.index, n))
                   /\ Legal(class, cur, f, value)
       PROVE  CodeInv'
  <2>1. /\ cur'.index = cur.index + n /\ cur'.refused = cur.refused
        /\ DOMAIN cur'.local = Fields /\ cur'.local[f] = value
        /\ \A g \in Fields : g # f => cur'.local[g] = cur.local[g]
    BY <1>3, <1>11, AdvanceLocals
  <2>2. \A g \in StringFields : FitsLength(cur'.local[g])
    BY <1>11, <2>1 DEF CodeInv, Fields
  <2>3. Marked(cur'.local, class, msg, field + 1, cur'.index)
    <3> DEFINE new == cur'.local
               l   == cur.local
               i   == cur.index
    <3>1. Marked(l, class, msg, field, i)
      BY <1>11 DEF CodeInv
    <3>2. Kept(new, l, class, field)
      BY <1>6, <2>1 DEF Piece, Kept
    <3>3. Piece(new, DecodeOrder[class][field]) = Data(msg, i, n)
      BY <1>11 DEF f
    <3> HIDE DEF new, l, i
    <3>4. Marked(new, class, msg, field + 1, i + n)
      BY <1>5, <1>11, <3>1, <3>2, <3>3, MarksGrow
    <3> QED BY <2>1, <3>4 DEF new, i
  <2>4. field + 1 > 1 => /\ cur'.local["version"] = kRpcProtocolVersion
                         /\ ntoh(Data(msg, 0, VERSION_LEN)) = kRpcProtocolVersion
    <3>1. CASE field = 1
      <4>1. f = "version" /\ cur.index = 0
        BY <1>7, <1>11, <3>1, HeadIndex
      <4>2. f \notin StringFields /\ Width[f] = VERSION_LEN
        BY <4>1 DEF StringFields, Width
      <4>3. value = kRpcProtocolVersion /\ value = ntoh(Data(msg, 0, VERSION_LEN))
        BY <1>11, <4>1, <4>2 DEF Legal
      <4> QED BY <2>1, <4>1, <4>3
    <3>2. CASE field # 1
      <4>1. field > 1 /\ f # "version" /\ "version" \in Fields
        BY <1>5, <1>7, <3>2 DEF Fields, Width
      <4> QED BY <1>11, <2>1, <4>1 DEF CodeInv
    <3> QED BY <3>1, <3>2
  <2>5. field + 1 > 2 => /\ cur'.local["type"] = TypeOf[class]
                         /\ ntoh(Data(msg, VERSION_LEN, REQUEST_TYPE_LEN)) = TypeOf[class]
    <3>1. CASE field = 2
      <4>1. f = "type" /\ cur.index = VERSION_LEN
        BY <1>7, <1>11, <3>1, HeadIndex
      <4>2. f \notin StringFields /\ Width[f] = REQUEST_TYPE_LEN
        BY <4>1 DEF StringFields, Width
      <4>3. value = TypeOf[class] /\ value = ntoh(Data(msg, VERSION_LEN, REQUEST_TYPE_LEN))
        BY <1>11, <4>1, <4>2 DEF Legal
      <4> QED BY <2>1, <4>1, <4>3
    <3>2. CASE field # 2
      <4>1. (field + 1 > 2 => field > 2) /\ f # "type" /\ "type" \in Fields
        BY <1>5, <1>7, <3>2 DEF Fields, Width
      <4> QED BY <1>11, <2>1, <4>1 DEF CodeInv
    <3> QED BY <3>1, <3>2
  <2>6. \A g \in StringFields : FitsLength(cur.local[g])'
    BY <2>2 DEF FitsLength
  <2>7. msg' \in Seq(Bytes)
    BY <1>1 DEF CodeInv
  <2>8. Marked(cur'.local, class', msg', field', cur'.index)
    BY <1>1, <2>3, Zenon
  <2>9. /\ field' > 1 => /\ cur'.local["version"] = kRpcProtocolVersion
                         /\ ntoh(Data(msg', 0, VERSION_LEN)) = kRpcProtocolVersion
        /\ field' > 2 => /\ cur'.local["type"] = TypeOf[class']
                         /\ ntoh(Data(msg', VERSION_LEN, REQUEST_TYPE_LEN)) = TypeOf[class']
    BY <1>1, <2>4, <2>5, Zenon
  <2>10. object' = Blank(class')
    BY <1>1, <1>4
  <2> QED BY <2>6, <2>7, <2>8, <2>9, <2>10, Zenon DEF CodeInv
<1> QED BY <1>1, <1>2, <1>3, <1>9, <1>10, <1>11, FieldRead DEF CodeInv

\* One piece more, seen from the front of the message.
Joins(l, c, m, off, k) ==
  /\ k = 1 => Piece(l, DecodeOrder[c][k]) = Data(m, 0, off[k + 1])
  /\ \A p : p = Data(m, 0, off[k]) => p \o Piece(l, DecodeOrder[c][k]) = Data(m, 0, off[k + 1])

LEMMA PieceJoins ==
  ASSUME NEW m \in Seq(Bytes), NEW K \in Nat, NEW off \in [1..K -> Nat], NEW l, NEW c,
         Marks(off, l, c, m, K), NEW k \in 1..(K - 1)
  PROVE  Joins(l, c, m, off, k)
<1>1. off[1] = 0 /\ off[k] \in Nat /\ off[k + 1] \in Nat
  BY DEF Marks
<1>2. PICK n \in Nat : off[k + 1] = off[k] + n /\ Piece(l, DecodeOrder[c][k]) = Data(m, off[k], n)
  BY DEF Marks
<1>3. ASSUME k = 1 PROVE Piece(l, DecodeOrder[c][k]) = Data(m, 0, off[k + 1])
  <2>1. off[k + 1] = n /\ off[k] = 0
    BY <1>1, <1>2, <1>3
  <2> QED BY <1>2, <2>1
<1>4. Data(m, 0, off[k]) \o Data(m, off[k], n) = Data(m, 0, off[k + 1])
  <2> DEFINE i == off[k]
  <2>1. 0 + i = i /\ i \in Nat /\ 0 \in Nat
    BY <1>1
  <2> HIDE DEF i
  <2>2. Data(m, 0, i) \o Data(m, 0 + i, n) = Data(m, 0, i + n)
    BY <2>1, DataJoins
  <2> QED BY <1>2, <2>1, <2>2 DEF i
<1> QED BY <1>2, <1>3, <1>4 DEF Joins

\* The object of an accepted message is encoded as the message.
LEMMA AcceptedIsEncoded ==
  ASSUME DecoderInv, SizeInv, CodeInv, Accepted
  PROVE  encodes(class, object) /\ encode(class, object) = msg
<1> DEFINE l == cur.local
           D == DecodeOrder[class]
<1>1. /\ returned /\ ~cur.refused /\ cur.leftLen = 0 /\ class \in Classes
      /\ field = Len(D) + 1 /\ object = [f \in Members[class] |-> l[f]]
      /\ class = "RpcResponse" => Consistent(l)
  BY DEF Accepted, Accepts, SizeInv, DecoderInv
<1>2. cur.index = Len(msg)
  BY <1>1 DEF DecoderInv, CursorInBounds
<1>3. Len(D) \in Nat /\ {1, 2, 3} \subseteq 1..Len(D) /\ D[1] = "version" /\ D[2] = "type"
      /\ D[3] = "requestId"
  BY <1>1, FixedFacts, OrderHead
<1>4. field > 1 /\ field > 2 /\ field - 1 = Len(D) /\ field \in Nat
  BY <1>1, <1>3
<1>5. l["version"] = kRpcProtocolVersion /\ l["type"] = TypeOf[class]
  BY <1>1, <1>4 DEF CodeInv
<1>6. msg \in Seq(Bytes) /\ \A f \in StringFields : FitsLength(l[f])
  BY DEF CodeInv
<1>7. PICK off \in [1..field -> Nat] : off[field] = Len(msg) /\ Marks(off, l, class, msg, field)
  BY <1>1, <1>2 DEF CodeInv, Marked
<1> HIDE DEF l
<1>17. \A k \in 1..(field - 1) : Joins(l, class, msg, off, k)
  BY <1>4, <1>6, <1>7, PieceJoins
<1>8. \A k \in 1..Len(D) : \A p : p = Data(msg, 0, off[k]) =>
                     p \o Piece(l, D[k]) = Data(msg, 0, off[k + 1])
  BY <1>4, <1>17, Zenon DEF Joins
<1>9. Piece(l, D[1]) = Data(msg, 0, off[2])
  <2>1. 1 \in 1..(field - 1) /\ 1 + 1 = 2
    BY <1>3, <1>4
  <2> QED BY <1>17, <2>1, Zenon DEF Joins
<1>10. /\ Piece(l, "version") = hton(kRpcProtocolVersion, VERSION_LEN)
       /\ Piece(l, "type") = hton(TypeOf[class], REQUEST_TYPE_LEN)
       /\ Piece(l, "requestId") = hton(l["requestId"], REQUEST_ID_LEN)
       /\ Piece(l, "responseResult") = hton(l["responseResult"], RESPONSE_RESULT_LEN)
       /\ Piece(l, "errorCode") = hton(l["errorCode"], ERROR_CODE_LEN)
       /\ \A f \in StringFields : Piece(l, f) = Prefixed(l[f])
  <2>1. \A f \in {"version", "type", "requestId", "responseResult", "errorCode"} :
          f \notin StringFields
    BY DEF StringFields
  <2>2. /\ Width["version"] = VERSION_LEN /\ Width["type"] = REQUEST_TYPE_LEN
        /\ Width["requestId"] = REQUEST_ID_LEN
        /\ Width["responseResult"] = RESPONSE_RESULT_LEN
        /\ Width["errorCode"] = ERROR_CODE_LEN
    BY DEF Width
  <2> QED BY <1>5, <2>1, <2>2 DEF Piece
<1>11. hton(kRpcProtocolVersion, VERSION_LEN) \o hton(TypeOf[class], REQUEST_TYPE_LEN)
         = Data(msg, 0, off[3])
  <2>1. 2 \in 1..Len(D) /\ 2 + 1 = 3
    BY <1>3
  <2> QED BY <1>3, <1>8, <1>9, <1>10, <2>1
<1>12. ASSUME object.requestId = l["requestId"]
       PROVE  HeadBytes(class, object) = Data(msg, 0, off[4])
  <2>1. 3 \in 1..Len(D) /\ 3 + 1 = 4
    BY <1>3
  <2>2. (hton(kRpcProtocolVersion, VERSION_LEN) \o hton(TypeOf[class], REQUEST_TYPE_LEN))
          \o hton(l["requestId"], REQUEST_ID_LEN) = Data(msg, 0, off[4])
    BY <1>3, <1>8, <1>10, <1>11, <2>1
  <2> QED BY <1>12, <2>2 DEF HeadBytes
<1>13. Data(msg, 0, off[field]) = msg
  BY <1>6, <1>7, DataWhole
<1>14. CASE class = "RpcRequest"
  <2>1. Members[class] = {"requestId", "service", "method", "payload"}
    BY <1>14, MembersOf
  <2>2. /\ object.requestId = l["requestId"] /\ object.service = l["service"]
        /\ object.method = l["method"] /\ object.payload = l["payload"]
    BY <1>1, <2>1
  <2>3. Len(D) = 6 /\ D[4] = "service" /\ D[5] = "method" /\ D[6] = "payload"
    BY <1>14 DEF DecodeOrder, RequestOrder
  <2>4. {"service", "method", "payload"} \subseteq StringFields
    BY DEF StringFields
  <2>5. HeadBytes("RpcRequest", object) = Data(msg, 0, off[4])
    BY <1>12, <1>14, <2>2
  <2>6. \A p : /\ p = Data(msg, 0, off[4]) => p \o Prefixed(l["service"]) = Data(msg, 0, off[5])
               /\ p = Data(msg, 0, off[5]) => p \o Prefixed(l["method"]) = Data(msg, 0, off[6])
               /\ p = Data(msg, 0, off[6]) => p \o Prefixed(l["payload"]) = Data(msg, 0, off[7])
    <3>1. {4, 5, 6} \subseteq 1..Len(D) /\ 4 + 1 = 5 /\ 5 + 1 = 6 /\ 6 + 1 = 7
      BY <2>3
    <3>2. Piece(l, D[4]) = Prefixed(l["service"]) /\ Piece(l, D[5]) = Prefixed(l["method"])
          /\ Piece(l, D[6]) = Prefixed(l["payload"])
      BY <1>10, <2>3, <2>4
    <3> HIDE DEF D
    <3> QED BY <1>8, <3>1, <3>2
  <2>7. RequestBytes(object) = Data(msg, 0, off[7])
    BY <2>2, <2>5, <2>6, Zenon DEF RequestBytes
  <2>8. field = 7
    BY <1>1, <2>3
  <2>9. encode(class, object) = msg
    BY <1>13, <1>14, <2>7, <2>8 DEF encode
  <2>10. encodes(class, object)
    BY <1>6, <1>14, <2>2, <2>4 DEF encodes
  <2> QED BY <2>9, <2>10
<1>15. CASE class = "RpcResponse"
  <2>1. Members[class] = {"requestId", "responseResult", "errorCode", "payload", "errorMessage"}
    BY <1>15, MembersOf
  <2>2. /\ object.requestId = l["requestId"] /\ object.responseResult = l["responseResult"]
        /\ object.errorCode = l["errorCode"] /\ object.payload = l["payload"]
        /\ object.errorMessage = l["errorMessage"]
    BY <1>1, <2>1
  <2>3. /\ Len(D) = 7 /\ D[4] = "responseResult" /\ D[5] = "errorCode" /\ D[6] = "payload"
        /\ D[7] = "errorMessage"
    BY <1>15 DEF DecodeOrder, ResponseOrder
  <2>4. {"payload", "errorMessage"} \subseteq StringFields
    BY DEF StringFields
  <2>5. HeadBytes("RpcResponse", object) = Data(msg, 0, off[4])
    BY <1>12, <1>15, <2>2
  <2>6. \A p : /\ p = Data(msg, 0, off[4]) => p \o hton(l["responseResult"], RESPONSE_RESULT_LEN)
                                                = Data(msg, 0, off[5])
               /\ p = Data(msg, 0, off[5]) => p \o hton(l["errorCode"], ERROR_CODE_LEN)
                                                = Data(msg, 0, off[6])
               /\ p = Data(msg, 0, off[6]) => p \o Prefixed(l["payload"]) = Data(msg, 0, off[7])
               /\ p = Data(msg, 0, off[7]) => p \o Prefixed(l["errorMessage"]) = Data(msg, 0, off[8])
    <3>1. {4, 5, 6, 7} \subseteq 1..Len(D) /\ 4 + 1 = 5 /\ 5 + 1 = 6 /\ 6 + 1 = 7 /\ 7 + 1 = 8
      BY <2>3
    <3>2. /\ Piece(l, D[4]) = hton(l["responseResult"], RESPONSE_RESULT_LEN)
          /\ Piece(l, D[5]) = hton(l["errorCode"], ERROR_CODE_LEN)
          /\ Piece(l, D[6]) = Prefixed(l["payload"]) /\ Piece(l, D[7]) = Prefixed(l["errorMessage"])
      BY <1>10, <2>3, <2>4
    <3> HIDE DEF D
    <3> QED BY <1>8, <3>1, <3>2
  <2>7. ResponseBytes(object) = Data(msg, 0, off[8])
    BY <2>2, <2>5, <2>6, Zenon DEF ResponseBytes
  <2>8. field = 8
    BY <1>1, <2>3
  <2>9. encode(class, object) = msg
    BY <1>13, <1>15, <2>7, <2>8 DEF encode
  <2>10. Consistent(object)
    BY <1>1, <1>15, <2>2 DEF Consistent
  <2>11. encodes(class, object)
    BY <1>6, <1>15, <2>2, <2>4, <2>10 DEF encodes
  <2> QED BY <2>9, <2>11
<1>16. CASE class = "RpcCancel"
  <2>1. Members[class] = {"requestId"}
    BY <1>16, MembersOf
  <2>2. object.requestId = l["requestId"]
    BY <1>1, <2>1
  <2>3. Len(D) = 3
    BY <1>16 DEF DecodeOrder, CancelOrder
  <2>4. field = 4
    BY <1>1, <2>3
  <2>5. encode(class, object) = msg
    BY <1>12, <1>13, <1>16, <2>2, <2>4 DEF encode, CancelBytes
  <2> QED BY <1>16, <2>5 DEF encodes
<1> QED BY <1>1, <1>14, <1>15, <1>16 DEF Classes

\* It bears the type by which onRpcMessage chose the decoder.
LEMMA AcceptedBearsType ==
  ASSUME DecoderInv, SizeInv, CodeInv, Accepted
  PROVE  decodeHead(msg) = class
<1> DEFINE t == ntoh(Data(msg, VERSION_LEN, REQUEST_TYPE_LEN))
<1>1. ~cur.refused /\ class \in Classes /\ field = Len(DecodeOrder[class]) + 1
  BY DEF Accepted, Accepts, SizeInv, DecoderInv
<1>2. field > 1 /\ field > 2
  BY <1>1, FixedFacts, OrderHead
<1>3. ntoh(Data(msg, 0, VERSION_LEN)) = kRpcProtocolVersion /\ t = TypeOf[class]
  BY <1>1, <1>2 DEF CodeInv
<1>4. ~(Len(msg) < VERSION_LEN + REQUEST_TYPE_LEN)
  <2>1. cur.index = Fixed[class][Len(DecodeOrder[class]) + 1] + TextLen(cur.local)
        /\ cur.index \in Nat /\ cur.index <= Len(msg) /\ Len(msg) \in Nat
    BY <1>1 DEF SizeInv, DecoderInv, CursorInBounds
  <2>2. TextLen(cur.local) \in Nat
    BY Texts DEF SizeInv
  <2>3. /\ Fixed[class][Len(DecodeOrder[class]) + 1] \in Nat
        /\ Fixed[class][Len(DecodeOrder[class]) + 1] >= VERSION_LEN + REQUEST_TYPE_LEN
        /\ VERSION_LEN + REQUEST_TYPE_LEN \in Nat
    BY <1>1, FixedLast
  <2> QED BY <2>1, <2>2, <2>3
<1> HIDE DEF t
<1>5. \A c \in Classes : TypeOf[c] = t <=> c = class
  BY <1>1, <1>3 DEF Classes, TypeOf
<1>6. {c \in Classes : TypeOf[c] = t} = {class}
  BY <1>1, <1>5
<1>7. (CHOOSE c \in Classes : c \in {class}) = class
  BY <1>1
<1> QED BY <1>3, <1>4, <1>6, <1>7 DEF decodeHead, t

\* decode() accepts nothing that encode() would not have written: for every
\* message, widths and bytes, an accepted message is byte for byte the encoding of
\* the object it was read into and bears its type, and a message refused at any
\* field leaves the object as it was.
THEOREM OnlyEncodingsAccepted == Spec => []AcceptsOnlyEncodings
<1>1. Init => CodeInv
  <2> SUFFICES ASSUME Init PROVE CodeInv
    OBVIOUS
  <2>1. PICK n \in 0..MaxLen : msg \in [1..n -> Bytes]
    BY DEF Init, Messages
  <2>2. msg \in Seq(Bytes)
    BY <2>1, DecoderAssumption
  <2>3. /\ cur = Start(class, msg) /\ field = 1 /\ class \in Classes /\ ~returned
        /\ object = Blank(class)
    BY DEF Init
  <2>4. cur.index = 0 /\ \A f \in StringFields : cur.local[f] = <<>>
    BY <2>3 DEF Start
  <2>5. \A f \in StringFields : FitsLength(cur.local[f])
    <3>1. Pow[STRING_LEN] \in Nat \ {0}
      BY MessageAssumption, PowFacts, PowerOf
    <3>2. Len(<<>>) < Pow[STRING_LEN]
      BY <3>1
    <3> QED BY <2>4, <3>2 DEF FitsLength
  <2>6. Marked(cur.local, class, msg, 1, 0)
    <3> DEFINE off == [j \in 1..1 |-> 0]
    <3>1. off \in [1..1 -> Nat] /\ off[1] = 0
      OBVIOUS
    <3>2. Marks(off, cur.local, class, msg, 1)
      BY <3>1 DEF Marks
    <3> QED BY <3>1, <3>2 DEF Marked
  <2> QED BY <2>2, <2>3, <2>4, <2>5, <2>6 DEF CodeInv
<1>2. DecoderInv /\ SizeInv /\ CodeInv /\ [Next]_vars => CodeInv'
  <2> SUFFICES ASSUME DecoderInv, SizeInv, CodeInv, [Next]_vars PROVE CodeInv'
    OBVIOUS
  <2>1. CASE Return
    <3>1. /\ msg' = msg /\ class' = class /\ field' = field /\ cur' = cur /\ ~returned
          /\ object' = Decoded(class, cur, object) /\ returned' = TRUE
      BY <2>1 DEF Return
    <3>2. object = Blank(class)
      BY <3>1 DEF CodeInv, Accepted
    <3>3. ~Accepted' => object' = Blank(class')
      BY <3>1, <3>2 DEF Accepted, Accepts, Decoded
    <3> QED BY <3>1, <3>3 DEF CodeInv, FitsLength
  <2>2. CASE UNCHANGED vars
    BY <2>2 DEF vars, CodeInv, Accepted, Accepts, FitsLength
  <2> QED BY <2>1, <2>2, CodeStep DEF Next
<1>3. DecoderInv /\ SizeInv /\ CodeInv => AcceptsOnlyEncodings
  BY AcceptedIsEncoded, AcceptedBearsType DEF AcceptsOnlyEncodings, CodeInv
<1> QED BY <1>1, <1>2, <1>3, DecoderInvariant, SizeInvariant, PTL DEF Spec

=============================================================================
