----------------------------- MODULE Calculator -----------------------------
(***************************************************************************)
(* The Calculator service (src/calculator): CalculatorClient::add encodes  *)
(* two integers, the "Add" handler decodes them, adds them and encodes the *)
(* sum, wrapAddCallback decodes it again.                                  *)
(*                                                                         *)
(* The integers are two's complement, IntLen bytes wide (int32_t: 4).      *)
(* Neither end need be the one in this repository: any payload may reach   *)
(* the handler and any response the callback.  What RpcClient and          *)
(* RpcServer do in between is the subject of RpcExchange.                  *)
(***************************************************************************)
EXTENDS ByteOrder

CONSTANTS
  IntLen,      \* sizeof(int32_t)
  ErrorCodes   \* the codes of failed responses, those of RpcClient too

ASSUME CalculatorAssumption == IntLen \in Nat \ {0} /\ "NO_ERROR" \notin ErrorCodes

VARIABLES
  a, b,       \* the arguments of add()
  genuine,    \* the payload is add()'s, the response the handler's answer to it
  at,         \* where the call is
  payload,    \* the payload of the request
  response,   \* the response
  result      \* the AddResult that the callback received

vars == <<a, b, genuine, at, payload, response, result>>

IntRange == Pow[IntLen]
MAX     == IntRange \div 2 - 1
MIN     == -(IntRange \div 2)
Ints    == MIN..MAX

\* An integer as it lies in memory, and back.
Encode(n)     == hton(n % IntRange, IntLen)
Decode(bytes) == LET n == ntoh(bytes) IN IF n > MAX THEN n - IntRange ELSE n

Success(bytes)      == [status |-> "kSuccess", code |-> "NO_ERROR", payload |-> bytes,
                        message |-> ""]
Failure(code, text) == [status |-> "kUnsuccess", code |-> code, payload |-> <<>>,
                        message |-> text]

\* RpcResult's constructor supplies the code of a failure.
RpcResult(status, bytes, text) ==
  IF status = "kSuccess" THEN Success(bytes)
  ELSE [status |-> status, code |-> "BUSINESS_ERROR", payload |-> bytes, message |-> text]

AddResult(status, code, value, text) ==
  [status |-> status, code |-> code, value |-> value, message |-> text]

\* All strings of at most n bytes.
Payloads(n) == UNION {[1..k -> Bytes] : k \in 0..n}

Init ==
  /\ a \in Ints /\ b \in Ints
  /\ genuine = TRUE
  /\ at = "caller"
  /\ payload = <<>>
  /\ response = Failure("INTERNAL_ERROR", "")
  /\ result = AddResult("none", "none", 0, "")
-----------------------------------------------------------------------------
requestEncode == Encode(a) \o Encode(b)

\* add(): client_.call() with the encoded arguments.
add ==
  /\ at = "caller"
  /\ payload' = requestEncode
  /\ at' = "handler"
  /\ UNCHANGED <<a, b, genuine, response, result>>

\* Some other client calls the method, instead of add().
OtherClient ==
  /\ at = "caller" /\ a = 0 /\ b = 0
  /\ payload' \in Payloads(2 * IntLen + 1)
  /\ genuine' = FALSE
  /\ at' = "handler"
  /\ UNCHANGED <<a, b, response, result>>

requestDecodes == Len(payload) = 2 * IntLen
DecodedA == Decode(SubSeq(payload, 1, IntLen))
DecodedB == Decode(SubSeq(payload, IntLen + 1, 2 * IntLen))

\* Mutant: the sum is computed in int32_t.
Sum_Wraps == LET s == DecodedA + DecodedB
             IN  IF s > MAX THEN s - IntRange ELSE IF s < MIN THEN s + IntRange ELSE s

\* int64_t result
Sum == DecodedA + DecodedB

handlerResult ==
  IF ~requestDecodes THEN RpcResult("kUnsuccess", <<>>, "invalid add request")
  ELSE IF Sum > MAX \/ Sum < MIN
       THEN RpcResult("kUnsuccess", <<>>, "integer overflow")
  ELSE RpcResult("kSuccess", Encode(Sum), "")

\* The handler that registerCalculatorService registers.
Handler ==
  /\ at = "handler"
  /\ response' = handlerResult
  /\ at' = "callback"
  /\ UNCHANGED <<a, b, genuine, payload, result>>

\* Another server answers add(), or the call fails on the way.
OtherAnswer ==
  /\ at = "handler" /\ genuine
  /\ response' \in {Success(bytes) : bytes \in Payloads(IntLen + 1)}
                     \cup {Failure(code, "some text") : code \in ErrorCodes}
  /\ genuine' = FALSE
  /\ at' = "callback"
  /\ UNCHANGED <<a, b, payload, result>>

resultDecodes(r) == Len(r.payload) = IntLen

addResult(r) ==
  IF r.status = "kSuccess"
  THEN IF resultDecodes(r)
       THEN AddResult("kSuccess", "NO_ERROR", Decode(r.payload), "")
       ELSE AddResult("kUnsuccess", "INTERNAL_ERROR", 0, "invalid result response")
  ELSE AddResult("kUnsuccess", r.code, 0, r.message)

wrapAddCallback ==
  /\ at = "callback"
  /\ result' = addResult(response)
  /\ at' = "done"
  /\ UNCHANGED <<a, b, genuine, payload, response>>

Next == add \/ OtherClient \/ Handler \/ OtherAnswer \/ wrapAddCallback

Spec == Init /\ [][Next]_vars
-----------------------------------------------------------------------------
(***************************************************************************)
(* Properties                                                              *)
(***************************************************************************)
\* A caller that is told kSuccess has the true sum, and "integer overflow" means
\* exactly that an int32_t cannot hold it, through both conversions and for
\* negative numbers too (the handler adds in int64_t and narrows after its
\* check).  Whatever another server answers, kSuccess comes with a number that
\* the response held, whole, and everything else is a failure with a code: the
\* 0 that result_ holds before resultDecode() is never passed on as a sum.
AddResultIsTrue ==
  at = "done" =>
    /\ genuine =>
         result = IF a + b \in Ints
                  THEN AddResult("kSuccess", "NO_ERROR", a + b, "")
                  ELSE AddResult("kUnsuccess", "BUSINESS_ERROR", 0, "integer overflow")
    /\ IF result.status = "kSuccess"
       THEN response.status = "kSuccess" /\ response.payload = Encode(result.value)
       ELSE result.code # "NO_ERROR" /\ result.value = 0
=============================================================================
