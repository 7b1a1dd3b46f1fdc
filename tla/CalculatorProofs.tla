-------------------------- MODULE CalculatorProofs --------------------------
(***************************************************************************)
(* Proofs about Calculator, for integers of every width.                   *)
(***************************************************************************)
EXTENDS Calculator, ByteOrderProofs, SequenceTheorems

\* Remainders of numbers that lie one range below 0 or one above it.
LEMMA Wrapped ==
  ASSUME NEW r \in Nat \ {0}
  PROVE  /\ \A n \in 0..(r - 1) : n % r = n
         /\ \A n \in (-r)..(-1) : n % r = n + r
  OBVIOUS

LEMMA RangeFacts ==
  /\ IntLen \in Nat /\ IntRange \in Nat \ {0}
  /\ MAX \in Int /\ MIN \in Int /\ MAX < IntRange /\ -IntRange <= MIN /\ MIN <= 0
  /\ MIN + IntRange > MAX /\ MAX + 1 \in Nat
<1>1. IntLen \in Nat /\ IntRange \in Nat \ {0}
  BY CalculatorAssumption, PowFacts, PowerOf DEF IntRange
<1>2. \A r \in Nat \ {0} : /\ r \div 2 \in Nat /\ r \div 2 <= r
                           /\ r - (r \div 2) > (r \div 2) - 1
  OBVIOUS
<1> QED BY <1>1, <1>2 DEF MAX, MIN

\* An integer in memory is IntLen bytes, and reading them gives it back.
LEMMA DecodesAsEncoded ==
  ASSUME NEW n \in Ints
  PROVE  Encode(n) \in [1..IntLen -> Bytes] /\ Decode(Encode(n)) = n
<1> DEFINE m == n % IntRange
<1>1. n \in Int /\ MIN <= n /\ n <= MAX
  BY RangeFacts DEF Ints
<1>2. /\ m \in 0..(IntRange - 1)
      /\ n >= 0 => m = n
      /\ n < 0 => m = n + IntRange
  <2>1. CASE n >= 0
    <3>1. n \in 0..(IntRange - 1)
      BY <1>1, <2>1, RangeFacts
    <3> QED BY <2>1, <3>1, Wrapped, RangeFacts
  <2>2. CASE n < 0
    <3>1. n \in (-IntRange)..(-1)
      BY <1>1, <2>2, RangeFacts
    <3>2. m = n + IntRange
      BY <3>1, Wrapped, RangeFacts
    <3> HIDE DEF m
    <3> QED BY <2>2, <3>1, <3>2, RangeFacts
  <2> QED BY <1>1, <2>1, <2>2
<1> HIDE DEF m
<1>3. hton(m, IntLen) \in [1..IntLen -> Bytes] /\ ntoh(hton(m, IntLen)) = m
  BY <1>2, ReadAsWritten, RangeFacts DEF IntRange
<1>4. (IF m > MAX THEN m - IntRange ELSE m) = n
  BY <1>1, <1>2, RangeFacts
<1> QED BY <1>3, <1>4 DEF Encode, Decode, m

\* IntLen bytes are what the integer they hold is written as.
LEMMA EncodesAsDecoded ==
  ASSUME NEW s \in [1..IntLen -> Bytes]
  PROVE  Encode(Decode(s)) = s
<1> DEFINE n == ntoh(s)
<1>1. n \in 0..(IntRange - 1) /\ hton(n, IntLen) = s
  BY WrittenAsRead, RangeFacts DEF IntRange
<1> HIDE DEF n
<1>2. n % IntRange = n /\ (n - IntRange) % IntRange = n
  <2>1. n \in Int /\ n - IntRange \in (-IntRange)..(-1)
    BY <1>1, RangeFacts
  <2>2. (n - IntRange) % IntRange = (n - IntRange) + IntRange
    BY <2>1, Wrapped, RangeFacts
  <2>3. (n - IntRange) + IntRange = n
    BY <2>1, RangeFacts
  <2>4. n % IntRange = n
    BY <1>1, Wrapped, RangeFacts
  <2> QED BY <2>2, <2>3, <2>4
<1>3. Decode(s) \in {n, n - IntRange}
  BY DEF Decode, n
<1>4. Decode(s) % IntRange = n
  BY <1>2, <1>3
<1> QED BY <1>1, <1>4 DEF Encode
-----------------------------------------------------------------------------
\* A response holds bytes, or it is a failure and has a code of its own.
Answer(r) == \/ \E s \in Seq(Bytes) : r = Success(s)
             \/ \E code, text : code # "NO_ERROR" /\ r = Failure(code, text)

\* What is under way is what was sent last.
CalculatorInv ==
  /\ a \in Ints /\ b \in Ints
  /\ payload \in Seq(Bytes)
  /\ at = "handler" /\ genuine => payload = requestEncode
  /\ at \in {"callback", "done"} =>
       /\ genuine => payload = requestEncode /\ response = handlerResult
       /\ Answer(response)
  /\ at = "done" => result = addResult(response)

\* The handler decodes the arguments that add() has encoded.
LEMMA ArgumentsArrive ==
  ASSUME a \in Ints, b \in Ints, payload = requestEncode
  PROVE  requestDecodes /\ DecodedA = a /\ DecodedB = b
<1> DEFINE x == Encode(a)
           y == Encode(b)
<1>1. /\ x \in [1..IntLen -> Bytes] /\ y \in [1..IntLen -> Bytes]
      /\ Decode(x) = a /\ Decode(y) = b
  BY DecodesAsEncoded
<1> HIDE DEF x, y
<1>2. x \in Seq(Bytes) /\ y \in Seq(Bytes) /\ Len(x) = IntLen /\ Len(y) = IntLen /\ IntLen \in Nat
  BY <1>1, RangeFacts
<1>3. payload = x \o y
  BY DEF requestEncode, x, y
<1>4. /\ payload \in Seq(Bytes) /\ Len(payload) = Len(x) + Len(y)
      /\ \A i \in 1..(Len(x) + Len(y)) :
           payload[i] = IF i <= Len(x) THEN x[i] ELSE y[i - Len(x)]
  <2>1. x \o y \in Seq(Bytes)
    BY <1>2
  <2>2. Len(x \o y) = Len(x) + Len(y)
    BY <1>2
  <2>3. \A i \in 1..(Len(x) + Len(y)) : (x \o y)[i] = IF i <= Len(x) THEN x[i] ELSE y[i - Len(x)]
    BY <1>2
  <2> QED BY <1>3, <2>1, <2>2, <2>3, Zenon
<1>5. Len(payload) = 2 * IntLen
  BY <1>2, <1>4
<1>6. SubSeq(payload, 1, IntLen) = x
  <2> DEFINE u == SubSeq(payload, 1, IntLen)
  <2>1. \A i \in 1..IntLen : payload[i] = x[i] /\ payload[i] \in Bytes
    BY <1>1, <1>2, <1>4
  <2>2. u \in Seq(Bytes) /\ Len(u) = IntLen /\ \A i \in 1..IntLen : u[i] = payload[i]
    BY <1>2, <1>4, <1>5
  <2> HIDE DEF u
  <2>3. Len(u) = Len(x) /\ \A i \in 1..Len(u) : u[i] = x[i]
    BY <1>2, <2>1, <2>2
  <2>4. u = x
    BY <1>2, <2>2, <2>3, SeqEqual
  <2> QED BY <2>4 DEF u
<1>7. SubSeq(payload, IntLen + 1, 2 * IntLen) = y
  <2> DEFINE u == SubSeq(payload, IntLen + 1, 2 * IntLen)
  <2>1. \A i \in 1..IntLen : payload[IntLen + i] = y[i]
    <3> SUFFICES ASSUME NEW i \in 1..IntLen PROVE payload[IntLen + i] = y[i]
      OBVIOUS
    <3>1. IntLen + i \in 1..(Len(x) + Len(y)) /\ ~(IntLen + i <= Len(x)) /\ (IntLen + i) - Len(x) = i
      BY <1>2
    <3> QED BY <1>4, <3>1
  <2>2. u \in Seq(Bytes) /\ Len(u) = IntLen /\ \A i \in 1..IntLen : u[i] = payload[IntLen + i]
    BY <1>2, <1>4, <1>5
  <2> HIDE DEF u
  <2>3. Len(u) = Len(y) /\ \A i \in 1..Len(u) : u[i] = y[i]
    BY <1>2, <2>1, <2>2
  <2>4. u = y
    BY <1>2, <2>2, <2>3, SeqEqual
  <2> QED BY <2>4 DEF u
<1> QED BY <1>1, <1>5, <1>6, <1>7 DEF requestDecodes, DecodedA, DecodedB

\* The handler answers every request with bytes or with a failure.
LEMMA HandlerAnswers ==
  ASSUME payload \in Seq(Bytes)
  PROVE  Answer(handlerResult)
<1>1. \A text : RpcResult("kUnsuccess", <<>>, text) = Failure("BUSINESS_ERROR", text)
  BY DEF RpcResult, Failure
<1>2. CASE ~requestDecodes
  BY <1>1, <1>2 DEF handlerResult, Answer
<1>3. CASE requestDecodes /\ (Sum > MAX \/ Sum < MIN)
  BY <1>1, <1>3 DEF handlerResult, Answer
<1>4. CASE requestDecodes /\ ~(Sum > MAX \/ Sum < MIN)
  <2>1. handlerResult = Success(Encode(Sum))
    BY <1>4 DEF handlerResult, RpcResult
  <2>2. \A s \in [1..IntLen -> Bytes] : Decode(s) \in Int
    <3>1. \A s \in [1..IntLen -> Bytes] : ntoh(s) \in Int
      BY WrittenAsRead, RangeFacts
    <3> QED BY <3>1, RangeFacts DEF Decode
  <2>3. /\ SubSeq(payload, 1, IntLen) \in [1..IntLen -> Bytes]
        /\ SubSeq(payload, IntLen + 1, 2 * IntLen) \in [1..IntLen -> Bytes]
    <3>1. IntLen \in Nat /\ Len(payload) = 2 * IntLen
      BY <1>4, RangeFacts DEF requestDecodes
    <3>2. \A m, n \in Nat : m + n <= Len(payload) =>
            SubSeq(payload, m + 1, m + n) \in [1..n -> Bytes]
      <4> SUFFICES ASSUME NEW m \in Nat, NEW n \in Nat, m + n <= Len(payload)
                   PROVE  SubSeq(payload, m + 1, m + n) \in [1..n -> Bytes]
        OBVIOUS
      <4> DEFINE u == SubSeq(payload, m + 1, m + n)
      <4>1. u \in Seq(Bytes)
        OBVIOUS
      <4>2. Len(u) = n
        OBVIOUS
      <4> HIDE DEF u
      <4>3. u \in [1..n -> Bytes]
        BY <4>1, <4>2
      <4> QED BY <4>3 DEF u
    <3>3. 0 + 1 = 1 /\ 0 + IntLen = IntLen /\ IntLen + IntLen = 2 * IntLen /\ 0 \in Nat
          /\ 0 + IntLen <= Len(payload) /\ IntLen + IntLen <= Len(payload)
      BY <3>1
    <3>4. SubSeq(payload, 0 + 1, 0 + IntLen) \in [1..IntLen -> Bytes]
      BY <3>1, <3>2, <3>3
    <3>5. SubSeq(payload, IntLen + 1, IntLen + IntLen) \in [1..IntLen -> Bytes]
      BY <3>1, <3>2, <3>3
    <3> QED BY <3>3, <3>4, <3>5
  <2>4. DecodedA \in Int /\ DecodedB \in Int
    BY <2>2, <2>3 DEF DecodedA, DecodedB
  <2>5. Sum \in Ints
    BY <1>4, <2>4, RangeFacts DEF Sum, Ints
  <2>6. Encode(Sum) \in [1..IntLen -> Bytes]
    BY <2>5, DecodesAsEncoded
  <2>7. Encode(Sum) \in Seq(Bytes)
    BY <2>6, RangeFacts
  <2> QED BY <2>1, <2>7 DEF Answer
<1> QED BY <1>2, <1>3, <1>4

\* The caller of add() learns the sum, or that there is none.
LEMMA SumArrives ==
  ASSUME a \in Ints, b \in Ints, payload = requestEncode
  PROVE  addResult(handlerResult) =
           IF a + b \in Ints
           THEN AddResult("kSuccess", "NO_ERROR", a + b, "")
           ELSE AddResult("kUnsuccess", "BUSINESS_ERROR", 0, "integer overflow")
<1>1. requestDecodes /\ Sum = a + b
  BY ArgumentsArrive DEF Sum
<1>2. a + b \in Int /\ (a + b \in Ints <=> ~(a + b > MAX \/ a + b < MIN))
  BY RangeFacts DEF Ints
<1>3. CASE a + b \in Ints
  <2> DEFINE s == Encode(a + b)
  <2>1. handlerResult = Success(s)
    BY <1>1, <1>2, <1>3 DEF handlerResult, RpcResult
  <2>2. s \in [1..IntLen -> Bytes] /\ Decode(s) = a + b
    BY <1>3, DecodesAsEncoded
  <2> HIDE DEF s
  <2>3. Len(s) = IntLen
    BY <2>2, RangeFacts
  <2> QED BY <1>3, <2>1, <2>2, <2>3 DEF addResult, resultDecodes, Success
<1>4. CASE a + b \notin Ints
  <2>1. handlerResult = Failure("BUSINESS_ERROR", "integer overflow")
    BY <1>1, <1>2, <1>4 DEF handlerResult, RpcResult, Failure
  <2> QED BY <1>4, <2>1 DEF addResult, Failure
<1> QED BY <1>3, <1>4

\* Whatever was answered, a success carries a number that the response held.
LEMMA ResultHonest ==
  ASSUME NEW r, Answer(r)
  PROVE  IF addResult(r).status = "kSuccess"
         THEN r.status = "kSuccess" /\ r.payload = Encode(addResult(r).value)
         ELSE addResult(r).code # "NO_ERROR" /\ addResult(r).value = 0
<1>1. ASSUME NEW s \in Seq(Bytes), r = Success(s)
      PROVE  IF addResult(r).status = "kSuccess"
             THEN r.status = "kSuccess" /\ r.payload = Encode(addResult(r).value)
             ELSE addResult(r).code # "NO_ERROR" /\ addResult(r).value = 0
  <2>1. r.status = "kSuccess" /\ r.payload = s
    BY <1>1 DEF Success
  <2>2. CASE Len(s) = IntLen
    <3>1. s \in [1..IntLen -> Bytes]
      BY <2>2
    <3> DEFINE d == Decode(s)
    <3>2. addResult(r) = AddResult("kSuccess", "NO_ERROR", d, "")
      BY <2>1, <2>2 DEF addResult, resultDecodes
    <3>3. Encode(d) = s
      BY <3>1, EncodesAsDecoded
    <3> HIDE DEF d
    <3>4. addResult(r).value = d /\ addResult(r).status = "kSuccess"
      <4>1. /\ AddResult("kSuccess", "NO_ERROR", d, "").value = d
            /\ AddResult("kSuccess", "NO_ERROR", d, "").status = "kSuccess"
        BY DEF AddResult
      <4> QED BY <3>2, <4>1, Zenon
    <3> QED BY <2>1, <3>3, <3>4, Zenon
  <2>3. CASE Len(s) # IntLen
    <3>1. addResult(r) = AddResult("kUnsuccess", "INTERNAL_ERROR", 0, "invalid result response")
      BY <2>1, <2>3 DEF addResult, resultDecodes
    <3>2. /\ addResult(r).value = 0 /\ addResult(r).status = "kUnsuccess"
          /\ addResult(r).code = "INTERNAL_ERROR"
      <4> DEFINE w == AddResult("kUnsuccess", "INTERNAL_ERROR", 0, "invalid result response")
      <4>1. w.value = 0 /\ w.status = "kUnsuccess" /\ w.code = "INTERNAL_ERROR"
        BY DEF AddResult
      <4> HIDE DEF w
      <4>2. addResult(r) = w
        BY <3>1 DEF w
      <4> QED BY <4>1, <4>2, Zenon
    <3>3. "kUnsuccess" # "kSuccess" /\ "INTERNAL_ERROR" # "NO_ERROR"
      OBVIOUS
    <3> QED BY <3>2, <3>3, Zenon
  <2> QED BY <2>2, <2>3
<1>2. ASSUME NEW code, NEW text, code # "NO_ERROR", r = Failure(code, text)
      PROVE  IF addResult(r).status = "kSuccess"
             THEN r.status = "kSuccess" /\ r.payload = Encode(addResult(r).value)
             ELSE addResult(r).code # "NO_ERROR" /\ addResult(r).value = 0
  <2>1. addResult(r) = AddResult("kUnsuccess", code, 0, text)
    BY <1>2 DEF addResult, Failure
  <2> QED BY <1>2, <2>1 DEF AddResult
<1> QED BY <1>1, <1>2 DEF Answer

\* Strings of a bounded length are strings.
LEMMA PayloadFacts ==
  ASSUME NEW n \in Int, NEW s \in Payloads(n)
  PROVE  s \in Seq(Bytes)
  BY DEF Payloads

\* For integers of any width, a caller that is told kSuccess has the true sum,
\* "integer overflow" means that there is none, and whatever another server
\* answers is passed on whole or as a failure with a code.
THEOREM AddIsTrue == Spec => []AddResultIsTrue
<1>1. Init => CalculatorInv
  BY EmptySeq DEF Init, CalculatorInv
<1>2. CalculatorInv /\ [Next]_vars => CalculatorInv'
  <2> SUFFICES ASSUME CalculatorInv, [Next]_vars PROVE CalculatorInv'
    OBVIOUS
  <2>0. a \in Ints /\ b \in Ints /\ payload \in Seq(Bytes)
    BY DEF CalculatorInv
  <2>1. CASE add
    <3>1. /\ payload' = requestEncode /\ at' = "handler" /\ a' = a /\ b' = b
      BY <2>1 DEF add
    <3>2. Encode(a) \in Seq(Bytes) /\ Encode(b) \in Seq(Bytes)
      BY <2>0, DecodesAsEncoded, RangeFacts
    <3>3. payload' \in Seq(Bytes)
      BY <3>1, <3>2 DEF requestEncode
    <3> QED BY <2>0, <3>1, <3>3 DEF CalculatorInv, requestEncode
  <2>2. CASE OtherClient
    <3>1. payload' \in Seq(Bytes)
      <4>1. 2 * IntLen + 1 \in Int
        BY RangeFacts
      <4> QED BY <2>2, <4>1, PayloadFacts DEF OtherClient
    <3> QED BY <2>0, <2>2, <3>1 DEF OtherClient, CalculatorInv
  <2>3. CASE Handler
    <3>1. /\ response' = handlerResult /\ at' = "callback" /\ at = "handler"
          /\ a' = a /\ b' = b /\ genuine' = genuine /\ payload' = payload
      BY <2>3 DEF Handler
    <3>2. Answer(response')
      BY <2>0, <3>1, HandlerAnswers
    <3>3. genuine => payload = requestEncode
      BY <3>1 DEF CalculatorInv
    <3>4. handlerResult' = handlerResult /\ requestEncode' = requestEncode
      BY <3>1 DEF handlerResult, requestEncode, requestDecodes, Sum, DecodedA, DecodedB
    <3> QED BY <2>0, <3>1, <3>2, <3>3, <3>4 DEF CalculatorInv
  <2>4. CASE OtherAnswer
    <3>1. /\ at' = "callback" /\ genuine' = FALSE /\ a' = a /\ b' = b /\ payload' = payload
          /\ response' \in {Success(bytes) : bytes \in Payloads(IntLen + 1)}
                           \cup {Failure(code, "some text") : code \in ErrorCodes}
      BY <2>4 DEF OtherAnswer
    <3>2. Answer(response')
      <4>1. ASSUME NEW bytes \in Payloads(IntLen + 1), response' = Success(bytes)
            PROVE  Answer(response')
        <5>1. IntLen + 1 \in Int
          BY RangeFacts
        <5>2. bytes \in Seq(Bytes)
          BY <5>1, PayloadFacts
        <5> QED BY <4>1, <5>2 DEF Answer
      <4>2. ASSUME NEW code \in ErrorCodes, response' = Failure(code, "some text")
            PROVE  Answer(response')
        <5>1. code # "NO_ERROR"
          BY CalculatorAssumption
        <5> QED BY <4>2, <5>1 DEF Answer
      <4> QED BY <3>1, <4>1, <4>2
    <3> QED BY <2>0, <3>1, <3>2 DEF CalculatorInv
  <2>5. CASE wrapAddCallback
    <3>1. /\ result' = addResult(response) /\ at = "callback" /\ at' = "done"
          /\ a' = a /\ b' = b /\ genuine' = genuine /\ payload' = payload /\ response' = response
      BY <2>5 DEF wrapAddCallback
    <3>2. handlerResult' = handlerResult /\ requestEncode' = requestEncode
          /\ addResult(response') = addResult(response)
      BY <3>1 DEF handlerResult, requestEncode, requestDecodes, Sum, DecodedA, DecodedB
    <3>3. (genuine => payload = requestEncode /\ response = handlerResult) /\ Answer(response)
      BY <3>1 DEF CalculatorInv
    <3> QED BY <2>0, <3>1, <3>2, <3>3 DEF CalculatorInv
  <2>6. CASE UNCHANGED vars
    BY <2>6 DEF vars, CalculatorInv, handlerResult, requestEncode, requestDecodes, Sum, DecodedA,
                DecodedB
  <2> QED BY <2>1, <2>2, <2>3, <2>4, <2>5, <2>6 DEF Next
<1>3. CalculatorInv => AddResultIsTrue
  <2> SUFFICES ASSUME CalculatorInv, at = "done" PROVE AddResultIsTrue
    BY DEF AddResultIsTrue
  <2>1. /\ a \in Ints /\ b \in Ints /\ result = addResult(response) /\ Answer(response)
        /\ genuine => payload = requestEncode /\ response = handlerResult
    BY DEF CalculatorInv
  <2>2. genuine => result = IF a + b \in Ints
                  THEN AddResult("kSuccess", "NO_ERROR", a + b, "")
                  ELSE AddResult("kUnsuccess", "BUSINESS_ERROR", 0, "integer overflow")
    BY <2>1, SumArrives
  <2>3. IF result.status = "kSuccess"
        THEN response.status = "kSuccess" /\ response.payload = Encode(result.value)
        ELSE result.code # "NO_ERROR" /\ result.value = 0
    BY <2>1, ResultHonest
  <2> QED BY <2>2, <2>3 DEF AddResultIsTrue
<1> QED BY <1>1, <1>2, <1>3, PTL DEF Spec
=============================================================================
