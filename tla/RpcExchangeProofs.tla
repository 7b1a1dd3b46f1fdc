-------------------------- MODULE RpcExchangeProofs --------------------------
(***************************************************************************)
(* Proofs about RpcExchange: what one end encodes the other end decodes,   *)
(* for strings, ids and limits of every size, and the size that the sender *)
(* computes is the size that the receiver sees.                            *)
(***************************************************************************)
EXTENDS RpcExchange, ByteOrderProofs, SequenceTheorems

-----------------------------------------------------------------------------
(***************************************************************************)
(* Parts of a message                                                      *)
(***************************************************************************)
\* In the message m, s stands behind the first i bytes.
At(m, i, s) == i + Len(s) <= Len(m) /\ \A k \in 1..Len(s) : m[i + k] = s[k]

\* It is what data + index points to.
LEMMA DataAt ==
  ASSUME NEW m \in Seq(Bytes), NEW s \in Seq(Bytes), NEW i \in Nat, At(m, i, s)
  PROVE  Data(m, i, Len(s)) = s
<1>1. Len(s) \in Nat /\ Len(m) \in Nat /\ DOMAIN m = 1..Len(m) /\ DOMAIN s = 1..Len(s)
  OBVIOUS
<1>2. \A k \in 1..Len(s) : i + k \in DOMAIN m /\ m[i + k] = s[k]
  BY <1>1 DEF At
<1>3. Data(m, i, Len(s)) = [k \in 1..Len(s) |-> s[k]]
  BY <1>2, Zenon DEF Data
<1>4. s = [k \in 1..Len(s) |-> s[k]]
  BY <1>1
<1> QED BY <1>3, <1>4, Zenon

\* A part that is made of two.
LEMMA AtConcat ==
  ASSUME NEW m \in Seq(Bytes), NEW s \in Seq(Bytes), NEW t \in Seq(Bytes), NEW i \in Nat,
         At(m, i, s \o t)
  PROVE  At(m, i, s) /\ At(m, i + Len(s), t)
<1> DEFINE u == s \o t
<1>1. /\ Len(s) \in Nat /\ Len(t) \in Nat /\ Len(m) \in Nat /\ Len(u) = Len(s) + Len(t)
  OBVIOUS
<1>2. \A k \in 1..Len(s) : u[k] = s[k]
  OBVIOUS
<1>3. \A k \in 1..Len(t) : u[Len(s) + k] = t[k]
  OBVIOUS
<1>4. i + Len(u) <= Len(m) /\ \A k \in 1..Len(u) : m[i + k] = u[k]
  BY DEF At
<1> HIDE DEF u
<1>5. \A k \in 1..Len(s) : k \in 1..Len(u)
  BY <1>1
<1>6. \A k \in 1..Len(t) : Len(s) + k \in 1..Len(u) /\ i + (Len(s) + k) = (i + Len(s)) + k
  BY <1>1
<1>7. i + Len(s) <= Len(m) /\ (i + Len(s)) + Len(t) <= Len(m)
  BY <1>1, <1>4
<1>8. \A k \in 1..Len(s) : m[i + k] = s[k]
  BY <1>2, <1>4, <1>5
<1>9. \A k \in 1..Len(t) : m[(i + Len(s)) + k] = t[k]
  BY <1>3, <1>4, <1>6
<1> QED BY <1>7, <1>8, <1>9 DEF At

LEMMA ConcatLen ==
  ASSUME NEW s \in Seq(Bytes), NEW t \in Seq(Bytes)
  PROVE  s \o t \in Seq(Bytes) /\ Len(s \o t) = Len(s) + Len(t)
  OBVIOUS

\* The six parts of a request, and the first six of a response.
Joined(a, b, c, d, e, f) == a \o b \o c \o d \o e \o f

LEMMA SixLen ==
  ASSUME NEW a \in Seq(Bytes), NEW b \in Seq(Bytes), NEW c \in Seq(Bytes),
         NEW d \in Seq(Bytes), NEW e \in Seq(Bytes), NEW f \in Seq(Bytes)
  PROVE  /\ Joined(a, b, c, d, e, f) \in Seq(Bytes)
         /\ Len(Joined(a, b, c, d, e, f)) = Len(a) + Len(b) + Len(c) + Len(d) + Len(e) + Len(f)
<1> DEFINE ab == a \o b
           abc == ab \o c
           abcd == abc \o d
           abcde == abcd \o e
           all == abcde \o f
<1>1. ab \in Seq(Bytes) /\ Len(ab) = Len(a) + Len(b)
  BY ConcatLen
<1> HIDE DEF ab
<1>2. abc \in Seq(Bytes) /\ Len(abc) = Len(ab) + Len(c)
  BY <1>1, ConcatLen
<1> HIDE DEF abc
<1>3. abcd \in Seq(Bytes) /\ Len(abcd) = Len(abc) + Len(d)
  BY <1>2, ConcatLen
<1> HIDE DEF abcd
<1>4. abcde \in Seq(Bytes) /\ Len(abcde) = Len(abcd) + Len(e)
  BY <1>3, ConcatLen
<1> HIDE DEF abcde
<1>5. all \in Seq(Bytes) /\ Len(all) = Len(abcde) + Len(f)
  BY <1>4, ConcatLen
<1> HIDE DEF all
<1>6. Len(all) = Len(a) + Len(b) + Len(c) + Len(d) + Len(e) + Len(f)
  BY <1>1, <1>2, <1>3, <1>4, <1>5
<1> QED BY <1>5, <1>6 DEF Joined, all, abcde, abcd, abc, ab

\* The whole message.
LEMMA AtWhole ==
  ASSUME NEW m \in Seq(Bytes)
  PROVE  At(m, 0, m)
  BY DEF At

\* Where each of them stands.
PartsAt(m, a, b, c, d, e, f) ==
  /\ At(m, 0, a)
  /\ At(m, Len(a), b)
  /\ At(m, Len(a) + Len(b), c)
  /\ At(m, Len(a) + Len(b) + Len(c), d)
  /\ At(m, Len(a) + Len(b) + Len(c) + Len(d), e)
  /\ At(m, Len(a) + Len(b) + Len(c) + Len(d) + Len(e), f)

LEMMA SixParts ==
  ASSUME NEW m \in Seq(Bytes), NEW a \in Seq(Bytes), NEW b \in Seq(Bytes),
         NEW c \in Seq(Bytes), NEW d \in Seq(Bytes), NEW e \in Seq(Bytes),
         NEW f \in Seq(Bytes), At(m, 0, Joined(a, b, c, d, e, f))
  PROVE  PartsAt(m, a, b, c, d, e, f)
<1> DEFINE ab == a \o b
           abc == ab \o c
           abcd == abc \o d
           abcde == abcd \o e
<1>1. ab \in Seq(Bytes) /\ Len(ab) = Len(a) + Len(b)
  BY ConcatLen
<1>2. At(m, 0, abcde \o f)
  BY DEF Joined
<1>3. At(m, 0, ab) => At(m, 0, a) /\ At(m, 0 + Len(a), b)
  BY AtConcat
<1> HIDE DEF ab
<1>4. abc \in Seq(Bytes) /\ Len(abc) = Len(ab) + Len(c)
  BY <1>1, ConcatLen
<1>5. At(m, 0, abc) => At(m, 0, ab) /\ At(m, 0 + Len(ab), c)
  BY <1>1, AtConcat
<1> HIDE DEF abc
<1>6. abcd \in Seq(Bytes) /\ Len(abcd) = Len(abc) + Len(d)
  BY <1>4, ConcatLen
<1>7. At(m, 0, abcd) => At(m, 0, abc) /\ At(m, 0 + Len(abc), d)
  BY <1>4, AtConcat
<1> HIDE DEF abcd
<1>8. abcde \in Seq(Bytes) /\ Len(abcde) = Len(abcd) + Len(e)
  BY <1>6, ConcatLen
<1>9. At(m, 0, abcde) => At(m, 0, abcd) /\ At(m, 0 + Len(abcd), e)
  BY <1>6, AtConcat
<1> HIDE DEF abcde
<1>10. At(m, 0, abcde) /\ At(m, 0 + Len(abcde), f)
  BY <1>2, <1>8, AtConcat
<1>11. /\ 0 + Len(a) = Len(a) /\ 0 + Len(ab) = Len(a) + Len(b)
       /\ 0 + Len(abc) = Len(a) + Len(b) + Len(c)
       /\ 0 + Len(abcd) = Len(a) + Len(b) + Len(c) + Len(d)
       /\ 0 + Len(abcde) = Len(a) + Len(b) + Len(c) + Len(d) + Len(e)
  <2>1. Len(a) \in Nat /\ Len(b) \in Nat /\ Len(c) \in Nat /\ Len(d) \in Nat /\ Len(e) \in Nat
    OBVIOUS
  <2> QED BY <1>1, <1>4, <1>6, <1>8, <2>1
<1> QED BY <1>3, <1>5, <1>7, <1>9, <1>10, <1>11 DEF PartsAt
-----------------------------------------------------------------------------
(***************************************************************************)
(* The cursor                                                              *)
(***************************************************************************)
\* decode() has read the first i bytes of m and has the locals l.
Stands(cur, m, i, l) ==
  /\ DOMAIN cur = {"index", "leftLen", "refused", "local"}
  /\ cur.index = i /\ cur.leftLen = Len(m) - i /\ cur.refused = FALSE /\ cur.local = l

\* An assignment to one of the locals.
Assign(l, f, v) == [l EXCEPT ![f] = v]

LEMMA AdvanceStands ==
  ASSUME NEW m, Len(m) \in Nat, NEW i \in Nat, NEW n \in Nat, NEW l, NEW f, NEW value, NEW cur,
         Stands(cur, m, i, l)
  PROVE  Stands(Advance(cur, f, value, n), m, i + n, Assign(l, f, value))
<1> DEFINE new == Advance(cur, f, value, n)
<1>1. /\ DOMAIN new = {"index", "leftLen", "refused", "local"}
      /\ new.index = i + n /\ new.leftLen = (Len(m) - i) - n /\ new.refused = FALSE
      /\ new.local = Assign(l, f, value)
  BY DEF Stands, Advance, Assign
<1>2. (Len(m) - i) - n = Len(m) - (i + n)
  OBVIOUS
<1> QED BY <1>1, <1>2 DEF Stands

\* A number that stands there, as encode() writes it, is read.
LEMMA NumberLoads ==
  ASSUME NEW m \in Seq(Bytes), NEW i \in Nat, NEW l, NEW class, NEW f, f \notin StringFields,
         NEW w \in Nat, Width[f] = w, NEW n \in 0..(Pow[w] - 1), NEW cur,
         Stands(cur, m, i, l), At(m, i, hton(n, w)), Legal(class, cur, f, n)
  PROVE  Stands(loadField(class, m, cur, f), m, i + w, Assign(l, f, n))
<1> DEFINE s == hton(n, w)
<1>1. s \in [1..w -> Bytes] /\ ntoh(s) = n
  BY ReadAsWritten
<1> HIDE DEF s
<1>2. s \in Seq(Bytes) /\ Len(s) = w /\ Len(m) \in Nat
  BY <1>1
<1>3. At(m, i, s)
  BY DEF s
<1>4. Data(m, i, w) = s
  BY <1>2, <1>3, DataAt
<1>5. ~TooShort(cur, w) /\ ~cur.refused /\ cur.index = i
  BY <1>2, <1>3 DEF At, Stands, TooShort
<1>6. loadField(class, m, cur, f) = loadNumber(class, m, cur, f)
  BY <1>5 DEF loadField
<1>7. ntoh(Data(m, cur.index, Width[f])) = n
  BY <1>1, <1>4, <1>5
<1>8. loadNumber(class, m, cur, f) = Advance(cur, f, n, w)
  BY <1>5, <1>7, Zenon DEF loadNumber
<1> QED BY <1>2, <1>6, <1>8, AdvanceStands

\* So is a string.
LEMMA StringLoads ==
  ASSUME NEW m \in Seq(Bytes), NEW i \in Nat, NEW l, NEW class, NEW f \in StringFields,
         NEW s \in Seq(Bytes), FitsLength(s), NEW cur,
         Stands(cur, m, i, l), At(m, i, Prefixed(s))
  PROVE  Stands(loadField(class, m, cur, f), m, i + (STRING_LEN + Len(s)), Assign(l, f, s))
<1> DEFINE h == hton(Len(s), STRING_LEN)
           n == Len(s)
<1>1. STRING_LEN \in Nat /\ n \in 0..(Pow[STRING_LEN] - 1) /\ n \in Nat /\ Len(m) \in Nat
  <2>1. STRING_LEN \in Nat
    BY MessageAssumption
  <2>2. Pow[STRING_LEN] \in Nat
    BY <2>1, PowFacts, PowerOf
  <2> QED BY <2>1, <2>2 DEF FitsLength
<1>2. h \in [1..STRING_LEN -> Bytes] /\ ntoh(h) = n
  BY <1>1, ReadAsWritten
<1> HIDE DEF h
<1>3. h \in Seq(Bytes) /\ Len(h) = STRING_LEN
  BY <1>1, <1>2
<1>4. At(m, i, h \o s)
  BY DEF Prefixed, h
<1>5. At(m, i, h) /\ At(m, i + STRING_LEN, s)
  BY <1>3, <1>4, AtConcat
<1>6. Data(m, i, STRING_LEN) = h /\ Data(m, i + STRING_LEN, n) = s
  <2>1. i + STRING_LEN \in Nat
    BY <1>1
  <2> QED BY <1>3, <1>5, <2>1, DataAt
<1>7. /\ ~TooShort(cur, STRING_LEN) /\ Holds(cur, n) /\ ~cur.refused /\ cur.index = i
  <2>1. cur.index = i /\ cur.leftLen = Len(m) - i /\ cur.refused = FALSE
    BY DEF Stands
  <2>2. (i + STRING_LEN) + n <= Len(m)
    BY <1>5 DEF At
  <2> HIDE DEF n
  <2>3. ~(Len(m) - i < STRING_LEN) /\ n \in 0..((Len(m) - i) - STRING_LEN)
    BY <1>1, <2>2
  <2> QED BY <2>1, <2>3 DEF TooShort, Holds
<1>8. loadField(class, m, cur, f) = loadString(m, cur, f)
  BY <1>7 DEF loadField
<1>9. ntoh(Data(m, cur.index, STRING_LEN)) = n /\ Data(m, cur.index + STRING_LEN, n) = s
  BY <1>2, <1>6, <1>7
<1> HIDE DEF n
<1>10. loadString(m, cur, f) = Advance(cur, f, s, STRING_LEN + n)
  BY <1>7, <1>9, Zenon DEF loadString
<1>11. STRING_LEN + n \in Nat
  BY <1>1
<1>12. Stands(Advance(cur, f, s, STRING_LEN + n), m, i + (STRING_LEN + n), Assign(l, f, s))
  BY <1>1, <1>11, AdvanceStands
<1> QED BY <1>8, <1>10, <1>12 DEF n

\* decode() reads the fields one after another.
Cursors(c, class, m, n) ==
  c = [k \in 0..n |-> IF k = 0 THEN Start(class, m)
                      ELSE loadField(class, m, c[k - 1], DecodeOrder[class][k])]

Unrolled(c, class, m, n) ==
  /\ decode(class, m) = c[n]
  /\ c[0] = Start(class, m)
  /\ \A k \in 1..n : c[k] = loadField(class, m, c[k - 1], DecodeOrder[class][k])

LEMMA DecodeUnrolls ==
  ASSUME NEW class, NEW m, NEW n \in Nat, Len(DecodeOrder[class]) = n
  PROVE  \E c : Unrolled(c, class, m, n)
<1> DEFINE S == {k \in Nat : \E c : Cursors(c, class, m, k)}
<1>1. 0 \in S
  <2> DEFINE c == [k \in 0..0 |-> Start(class, m)]
  <2>1. Cursors(c, class, m, 0)
    BY DEF Cursors
  <2> QED BY <2>1
<1>2. ASSUME NEW k \in Nat, k \in S PROVE k + 1 \in S
  <2>1. PICK c : Cursors(c, class, m, k)
    BY <1>2
  <2> DEFINE next == loadField(class, m, c[k], DecodeOrder[class][k + 1])
             d == [j \in 0..(k + 1) |-> IF j = k + 1 THEN next ELSE c[j]]
  <2>2. ASSUME NEW j \in 0..(k + 1)
        PROVE  d[j] = IF j = 0 THEN Start(class, m)
                      ELSE loadField(class, m, d[j - 1], DecodeOrder[class][j])
    <3>1. CASE j = k + 1
      <4>1. j - 1 = k /\ k \in 0..(k + 1) /\ k # k + 1 /\ j # 0
        BY <3>1
      <4>2. d[j] = next /\ d[j - 1] = c[k]
        BY <3>1, <4>1
      <4> QED BY <3>1, <4>1, <4>2
    <3>2. CASE j # k + 1
      <4>1. j \in 0..k /\ d[j] = c[j]
        BY <3>2
      <4>2. c[j] = IF j = 0 THEN Start(class, m)
                   ELSE loadField(class, m, c[j - 1], DecodeOrder[class][j])
        BY <2>1, <4>1 DEF Cursors
      <4>3. j # 0 => j - 1 \in 0..(k + 1) /\ j - 1 # k + 1
        BY <4>1
      <4>4. j # 0 => d[j - 1] = c[j - 1]
        BY <4>3
      <4> QED BY <4>1, <4>2, <4>4
    <3> QED BY <3>1, <3>2
  <2>3. DOMAIN d = 0..(k + 1) /\ d = [j \in 0..(k + 1) |-> d[j]]
    OBVIOUS
  <2> HIDE DEF d
  <2>4. Cursors(d, class, m, k + 1)
    BY <2>2, <2>3, Zenon DEF Cursors
  <2> QED BY <2>4
<1>3. n \in S
  <2> HIDE DEF S
  <2>1. S \subseteq Nat
    BY DEF S
  <2> QED BY <1>1, <1>2, <2>1, SetInduction
<1> DEFINE c == CHOOSE c : c = [k \in 0..n |->
                  IF k = 0 THEN Start(class, m)
                  ELSE loadField(class, m, c[k - 1], DecodeOrder[class][k])]
<1>4. \E d : d = [k \in 0..n |-> IF k = 0 THEN Start(class, m)
                                 ELSE loadField(class, m, d[k - 1], DecodeOrder[class][k])]
  BY <1>3, Zenon DEF Cursors
<1>5. c = [k \in 0..n |-> IF k = 0 THEN Start(class, m)
                          ELSE loadField(class, m, c[k - 1], DecodeOrder[class][k])]
  BY <1>4, Zenon
<1>6. decode(class, m) = c[n]
  BY Zenon DEF decode
<1> HIDE DEF c
<1>7. 0 \in 0..n /\ \A k \in 1..n : k \in 0..n /\ k # 0
  OBVIOUS
<1>8. c[0] = Start(class, m)
  BY <1>5, <1>7, Zenon
<1>9. \A k \in 1..n : c[k] = loadField(class, m, c[k - 1], DecodeOrder[class][k])
  BY <1>5, <1>7, Zenon
<1> QED BY <1>6, <1>8, <1>9 DEF Unrolled
-----------------------------------------------------------------------------
(***************************************************************************)
(* What is encoded is decoded                                              *)
(***************************************************************************)
LEMMA Widths ==
  /\ VERSION_LEN \in Nat /\ REQUEST_TYPE_LEN \in Nat /\ REQUEST_ID_LEN \in Nat
  /\ RESPONSE_RESULT_LEN \in Nat /\ ERROR_CODE_LEN \in Nat /\ STRING_LEN \in Nat
  /\ Width["version"] = VERSION_LEN /\ Width["type"] = REQUEST_TYPE_LEN
  /\ Width["requestId"] = REQUEST_ID_LEN
  /\ Width["responseResult"] = RESPONSE_RESULT_LEN /\ Width["errorCode"] = ERROR_CODE_LEN
  BY MessageAssumption DEF Width

LEMMA Kinds ==
  /\ {"service", "method", "payload", "errorMessage"} = StringFields
  /\ \A f \in {"version", "type", "requestId", "responseResult", "errorCode"} :
       f \notin StringFields
  BY DEF StringFields

\* The numbers in the messages fit their fields.
LEMMA NumbersFit ==
  /\ kRpcProtocolVersion \in 0..(Pow[VERSION_LEN] - 1)
  /\ \A c \in Classes : TypeOf[c] \in 0..(Pow[REQUEST_TYPE_LEN] - 1)
  /\ \A n \in RequestIds : n \in 0..(Pow[REQUEST_ID_LEN] - 1)
  /\ \A n \in {kSuccess, kUnsuccess} : n \in 0..(Pow[RESPONSE_RESULT_LEN] - 1)
  /\ \A n \in Nat : n < ERROR_CODE_CNT => n \in 0..(Pow[ERROR_CODE_LEN] - 1)
<1>1. /\ Pow[VERSION_LEN] \in Nat /\ Pow[REQUEST_TYPE_LEN] \in Nat
      /\ Pow[ERROR_CODE_LEN] \in Nat /\ ERROR_CODE_CNT \in Nat
  BY Widths, PowFacts, PowerOf, MessageAssumption
<1>2. kRpcProtocolVersion \in 0..(Pow[VERSION_LEN] - 1)
  BY <1>1, ExchangeAssumption DEF kRpcProtocolVersion
<1>3. \A c \in Classes : TypeOf[c] \in 0..(Pow[REQUEST_TYPE_LEN] - 1)
  <2>1. \A c \in Classes : TypeOf[c] \in Nat
    BY DEF Classes, TypeOf
  <2>2. \A c \in Classes : TypeOf[c] < Pow[REQUEST_TYPE_LEN]
    BY ExchangeAssumption
  <2> QED BY <1>1, <2>1, <2>2
<1>4. \A n \in RequestIds : n \in 0..(Pow[REQUEST_ID_LEN] - 1)
  BY ExchangeAssumption
<1>5. \A n \in {kSuccess, kUnsuccess} : n \in 0..(Pow[RESPONSE_RESULT_LEN] - 1)
  <2>1. RESPONSE_RESULT_LEN - 1 \in Nat /\ RESPONSE_RESULT_LEN \in Nat
    BY MessageAssumption
  <2>2. Base \in Nat /\ Base >= 2
    BY ByteAssumption
  <2>3. Pow[RESPONSE_RESULT_LEN - 1] \in Nat \ {0} /\ Pow[RESPONSE_RESULT_LEN] \in Nat
    BY <2>1, PowFacts, PowerOf
  <2>4. Pow[(RESPONSE_RESULT_LEN - 1) + 1] = Base * Pow[RESPONSE_RESULT_LEN - 1]
    BY <2>1, PowFacts DEF Powers
  <2>5. \A p \in Nat \ {0}, b \in Nat : b >= 2 => b * p >= 2
    OBVIOUS
  <2>6. (RESPONSE_RESULT_LEN - 1) + 1 = RESPONSE_RESULT_LEN
    BY <2>1
  <2>7. Pow[RESPONSE_RESULT_LEN] >= 2
    BY <2>2, <2>3, <2>4, <2>5, <2>6
  <2> QED BY <2>3, <2>7 DEF kSuccess, kUnsuccess
<1>6. \A n \in Nat : n < ERROR_CODE_CNT => n \in 0..(Pow[ERROR_CODE_LEN] - 1)
  BY <1>1, ExchangeAssumption
<1> QED BY <1>2, <1>3, <1>4, <1>5, <1>6

LEMMA NumberBytes ==
  ASSUME NEW w \in Nat, NEW n \in 0..(Pow[w] - 1)
  PROVE  hton(n, w) \in Seq(Bytes) /\ Len(hton(n, w)) = w /\ ntoh(hton(n, w)) = n
<1>1. hton(n, w) \in [1..w -> Bytes] /\ ntoh(hton(n, w)) = n
  BY ReadAsWritten
<1> DEFINE s == hton(n, w)
<1> HIDE DEF s
<1>2. s \in [1..w -> Bytes] => s \in Seq(Bytes) /\ Len(s) = w
  OBVIOUS
<1> QED BY <1>1, <1>2 DEF s

LEMMA StringBytes ==
  ASSUME NEW s \in Seq(Bytes), FitsLength(s)
  PROVE  Prefixed(s) \in Seq(Bytes) /\ Len(Prefixed(s)) = STRING_LEN + Len(s)
<1>1. STRING_LEN \in Nat /\ Len(s) \in 0..(Pow[STRING_LEN] - 1)
  <2>1. Pow[STRING_LEN] \in Nat
    BY Widths, PowFacts, PowerOf
  <2> QED BY <2>1, Widths DEF FitsLength
<1> DEFINE h == hton(Len(s), STRING_LEN)
<1>2. h \in Seq(Bytes) /\ Len(h) = STRING_LEN
  BY <1>1, NumberBytes
<1> HIDE DEF h
<1>3. h \o s \in Seq(Bytes) /\ Len(h \o s) = STRING_LEN + Len(s)
  BY <1>2, ConcatLen
<1> QED BY <1>3 DEF Prefixed, h

\* Version, type and id come first in every message.
HeadAt(m, class, id) ==
  /\ At(m, 0, hton(kRpcProtocolVersion, VERSION_LEN))
  /\ At(m, VERSION_LEN, hton(TypeOf[class], REQUEST_TYPE_LEN))
  /\ At(m, VERSION_LEN + REQUEST_TYPE_LEN, hton(id, REQUEST_ID_LEN))

\* decodeHead() sees whose message it is.
LEMMA HeadNames ==
  ASSUME NEW m \in Seq(Bytes), NEW class \in Classes, NEW id, HeadAt(m, class, id)
  PROVE  decodeHead(m) = class
<1> DEFINE v == hton(kRpcProtocolVersion, VERSION_LEN)
           t == hton(TypeOf[class], REQUEST_TYPE_LEN)
<1>1. /\ v \in Seq(Bytes) /\ Len(v) = VERSION_LEN /\ ntoh(v) = kRpcProtocolVersion
      /\ t \in Seq(Bytes) /\ Len(t) = REQUEST_TYPE_LEN /\ ntoh(t) = TypeOf[class]
  BY Widths, NumbersFit, NumberBytes
<1>2. At(m, 0, v) /\ At(m, VERSION_LEN, t)
  BY DEF HeadAt
<1> HIDE DEF v, t
<1>3. Data(m, 0, VERSION_LEN) = v /\ Data(m, VERSION_LEN, REQUEST_TYPE_LEN) = t
  BY <1>1, <1>2, Widths, DataAt
<1>4. ~(Len(m) < VERSION_LEN + REQUEST_TYPE_LEN)
  BY <1>1, <1>2, Widths DEF At
<1>5. \A c \in Classes : TypeOf[c] = TypeOf[class] <=> c = class
  BY DEF Classes, TypeOf
<1>6. {c \in Classes : TypeOf[c] = ntoh(Data(m, VERSION_LEN, REQUEST_TYPE_LEN))} = {class}
  BY <1>1, <1>3, <1>5
<1>7. (CHOOSE c \in Classes : c \in {class}) = class
  OBVIOUS
<1> QED BY <1>1, <1>3, <1>4, <1>6, <1>7 DEF decodeHead

Fields == DOMAIN Width \cup StringFields

\* What an assignment does to the locals of decode().
LEMMA Assigns ==
  ASSUME NEW l, DOMAIN l = Fields, NEW f \in Fields, NEW v
  PROVE  /\ DOMAIN Assign(l, f, v) = Fields /\ Assign(l, f, v)[f] = v
         /\ \A g \in Fields : g # f => Assign(l, f, v)[g] = l[g]
  BY DEF Assign

LEMMA FieldsAre ==
  Fields = {"version", "type", "requestId", "responseResult", "errorCode",
            "service", "method", "payload", "errorMessage"}
  BY DEF Fields, Width, StringFields

\* The cursor before the first field.
LEMMA StartStands ==
  ASSUME NEW class, NEW m, Len(m) \in Nat
  PROVE  \E l : Stands(Start(class, m), m, 0, l) /\ DOMAIN l = Fields
<1> DEFINE l == [f \in Fields |-> IF f \in StringFields THEN <<>> ELSE 0]
<1>1. Start(class, m) = [index |-> 0, leftLen |-> Len(m), refused |-> FALSE, local |-> l]
  BY Zenon DEF Start, Fields
<1>2. DOMAIN l = Fields
  OBVIOUS
<1> HIDE DEF l
<1>3. Stands(Start(class, m), m, 0, l)
  BY <1>1 DEF Stands
<1> QED BY <1>2, <1>3

LEMMA HeadReads ==
  ASSUME NEW class \in Classes, NEW m \in Seq(Bytes), NEW id \in RequestIds,
         HeadAt(m, class, id),
         NEW c0, c0 = Start(class, m),
         NEW c1, c1 = loadField(class, m, c0, "version"),
         NEW c2, c2 = loadField(class, m, c1, "type"),
         NEW c3, c3 = loadField(class, m, c2, "requestId")
  PROVE  \E l : Stands(c3, m, CancelLen, l) /\ DOMAIN l = Fields /\ l["requestId"] = id
<1>1. Len(m) \in Nat
  OBVIOUS
<1>0. /\ At(m, 0, hton(kRpcProtocolVersion, VERSION_LEN))
      /\ At(m, VERSION_LEN, hton(TypeOf[class], REQUEST_TYPE_LEN))
      /\ At(m, VERSION_LEN + REQUEST_TYPE_LEN, hton(id, REQUEST_ID_LEN))
  BY DEF HeadAt
<1>2. PICK l0 : Stands(c0, m, 0, l0) /\ DOMAIN l0 = Fields
  BY <1>1, StartStands
<1> DEFINE l1 == Assign(l0, "version", kRpcProtocolVersion)
           l2 == Assign(l1, "type", TypeOf[class])
           l3 == Assign(l2, "requestId", id)
<1>3. Legal(class, c0, "version", kRpcProtocolVersion) /\ Legal(class, c1, "type", TypeOf[class])
      /\ Legal(class, c2, "requestId", id)
  BY DEF Legal
<1>4. DOMAIN l1 = Fields
  BY <1>2, FieldsAre, Assigns
<1>5. Stands(c1, m, 0 + VERSION_LEN, l1)
  <2>1. /\ "version" \notin StringFields /\ VERSION_LEN \in Nat /\ Width["version"] = VERSION_LEN
        /\ kRpcProtocolVersion \in 0..(Pow[VERSION_LEN] - 1) /\ 0 \in Nat
    BY Widths, Kinds, NumbersFit
  <2> QED BY <1>0, <1>2, <1>3, <2>1, NumberLoads, Zenon
<1> HIDE DEF l1
<1>6. DOMAIN l2 = Fields
  BY <1>4, FieldsAre, Assigns
<1>7. VERSION_LEN \in Nat /\ 0 + VERSION_LEN = VERSION_LEN
  BY Widths
<1>8. Stands(c2, m, VERSION_LEN + REQUEST_TYPE_LEN, l2)
  <2>1. /\ "type" \notin StringFields /\ REQUEST_TYPE_LEN \in Nat /\ Width["type"] = REQUEST_TYPE_LEN
        /\ TypeOf[class] \in 0..(Pow[REQUEST_TYPE_LEN] - 1)
    BY Widths, Kinds, NumbersFit
  <2>2. Stands(c1, m, VERSION_LEN, l1)
    BY <1>5, <1>7, Zenon
  <2> QED BY <1>0, <1>3, <1>7, <2>1, <2>2, NumberLoads, Zenon
<1> HIDE DEF l2
<1>9. DOMAIN l3 = Fields /\ l3["requestId"] = id
  BY <1>6, FieldsAre, Assigns
<1>10. VERSION_LEN + REQUEST_TYPE_LEN \in Nat
  BY Widths
<1>11. Stands(c3, m, (VERSION_LEN + REQUEST_TYPE_LEN) + REQUEST_ID_LEN, l3)
  <2>1. /\ "requestId" \notin StringFields /\ REQUEST_ID_LEN \in Nat
        /\ Width["requestId"] = REQUEST_ID_LEN /\ id \in 0..(Pow[REQUEST_ID_LEN] - 1)
    BY Widths, Kinds, NumbersFit
  <2> QED BY <1>0, <1>3, <1>8, <1>10, <2>1, NumberLoads, Zenon
<1> HIDE DEF l3
<1> QED BY <1>9, <1>11 DEF CancelLen

LEMMA Orders ==
  /\ Len(DecodeOrder["RpcRequest"]) = 6 /\ Len(DecodeOrder["RpcResponse"]) = 7
  /\ \A c \in {"RpcRequest", "RpcResponse"} :
       DecodeOrder[c][1] = "version" /\ DecodeOrder[c][2] = "type" /\ DecodeOrder[c][3] = "requestId"
  /\ DecodeOrder["RpcRequest"][4] = "service" /\ DecodeOrder["RpcRequest"][5] = "method"
  /\ DecodeOrder["RpcRequest"][6] = "payload"
  /\ DecodeOrder["RpcResponse"][4] = "responseResult" /\ DecodeOrder["RpcResponse"][5] = "errorCode"
  /\ DecodeOrder["RpcResponse"][6] = "payload" /\ DecodeOrder["RpcResponse"][7] = "errorMessage"
  BY DEF DecodeOrder, RequestOrder, ResponseOrder

LEMMA MembersAre ==
  /\ Members["RpcRequest"] = {"requestId", "service", "method", "payload"}
  /\ Members["RpcResponse"] = {"requestId", "responseResult", "errorCode", "payload",
                               "errorMessage"}
<1> USE DEF Members, Classes, DecodeOrder
<1>1. Members["RpcRequest"] = {"requestId", "service", "method", "payload"}
  BY DEF RequestOrder
<1>2. Members["RpcResponse"] = {"requestId", "responseResult", "errorCode", "payload",
                                "errorMessage"}
  BY DEF ResponseOrder
<1> QED BY <1>1, <1>2

\* The requests that callInLoop encodes.
Requests == [requestId : RequestIds, service : Seq(Bytes), method : Seq(Bytes),
             payload : Seq(Bytes)]

\* The parts of a request, where they stand, and its size.
LEMMA RequestParts ==
  ASSUME NEW r \in Requests, encodes("RpcRequest", r), NEW m, m = encode("RpcRequest", r)
  PROVE  /\ m \in Seq(Bytes)
         /\ Len(m) = RequestLen(r.service, r.method, r.payload)
         /\ HeadAt(m, "RpcRequest", r.requestId)
         /\ At(m, CancelLen, Prefixed(r.service))
         /\ At(m, CancelLen + (STRING_LEN + Len(r.service)), Prefixed(r.method))
         /\ At(m, (CancelLen + (STRING_LEN + Len(r.service))) + (STRING_LEN + Len(r.method)),
               Prefixed(r.payload))
<1> DEFINE v == hton(kRpcProtocolVersion, VERSION_LEN)
           t == hton(TypeOf["RpcRequest"], REQUEST_TYPE_LEN)
           n == hton(r.requestId, REQUEST_ID_LEN)
           s1 == r.service
           s2 == r.method
           s3 == r.payload
           p1 == Prefixed(s1)
           p2 == Prefixed(s2)
           p3 == Prefixed(s3)
<1>1. /\ s1 \in Seq(Bytes) /\ s2 \in Seq(Bytes) /\ s3 \in Seq(Bytes) /\ r.requestId \in RequestIds
      /\ FitsLength(s1) /\ FitsLength(s2) /\ FitsLength(s3)
  BY DEF Requests, encodes
<1>2. /\ v \in Seq(Bytes) /\ Len(v) = VERSION_LEN
      /\ t \in Seq(Bytes) /\ Len(t) = REQUEST_TYPE_LEN
      /\ n \in Seq(Bytes) /\ Len(n) = REQUEST_ID_LEN
  BY <1>1, Widths, NumbersFit, NumberBytes DEF Classes
<1>3. m = Joined(v, t, n, p1, p2, p3)
  BY Zenon DEF Joined, encode, RequestBytes, HeadBytes
<1> HIDE DEF v, t, n, s1, s2, s3
<1>4. /\ p1 \in Seq(Bytes) /\ Len(p1) = STRING_LEN + Len(s1)
      /\ p2 \in Seq(Bytes) /\ Len(p2) = STRING_LEN + Len(s2)
      /\ p3 \in Seq(Bytes) /\ Len(p3) = STRING_LEN + Len(s3)
      /\ Len(s1) \in Nat /\ Len(s2) \in Nat /\ Len(s3) \in Nat
  BY <1>1, StringBytes
<1> HIDE DEF p1, p2, p3
<1>10. /\ v \in Seq(Bytes) /\ t \in Seq(Bytes) /\ n \in Seq(Bytes)
       /\ p1 \in Seq(Bytes) /\ p2 \in Seq(Bytes) /\ p3 \in Seq(Bytes)
  BY <1>2, <1>4
<1>5. m \in Seq(Bytes) /\ Len(m) = Len(v) + Len(t) + Len(n) + Len(p1) + Len(p2) + Len(p3)
  <2>1. /\ Joined(v, t, n, p1, p2, p3) \in Seq(Bytes)
        /\ Len(Joined(v, t, n, p1, p2, p3)) = Len(v) + Len(t) + Len(n) + Len(p1) + Len(p2) + Len(p3)
    BY <1>10, SixLen, SMT
  <2> QED BY <1>3, <2>1, Zenon
<1>6. At(m, 0, Joined(v, t, n, p1, p2, p3))
  BY <1>3, <1>5, AtWhole
<1>7. /\ At(m, 0, v)
      /\ At(m, Len(v), t)
      /\ At(m, Len(v) + Len(t), n)
      /\ At(m, Len(v) + Len(t) + Len(n), p1)
      /\ At(m, Len(v) + Len(t) + Len(n) + Len(p1), p2)
      /\ At(m, Len(v) + Len(t) + Len(n) + Len(p1) + Len(p2), p3)
  <2>1. PartsAt(m, v, t, n, p1, p2, p3)
    <3>1. m \in Seq(Bytes)
      BY <1>5
    <3>2. \A a, b, c, d, e, f \in Seq(Bytes) :
            At(m, 0, Joined(a, b, c, d, e, f)) => PartsAt(m, a, b, c, d, e, f)
      BY <3>1, SixParts, Zenon
    <3> QED BY <1>10, <1>6, <3>2, SMT
  <2> QED BY <2>1 DEF PartsAt
<1>8. /\ Len(v) + Len(t) = VERSION_LEN + REQUEST_TYPE_LEN
      /\ Len(v) + Len(t) + Len(n) = CancelLen
      /\ Len(v) + Len(t) + Len(n) + Len(p1) = CancelLen + (STRING_LEN + Len(s1))
      /\ Len(v) + Len(t) + Len(n) + Len(p1) + Len(p2)
           = (CancelLen + (STRING_LEN + Len(s1))) + (STRING_LEN + Len(s2))
      /\ Len(v) + Len(t) + Len(n) + Len(p1) + Len(p2) + Len(p3) = RequestLen(s1, s2, s3)
  BY <1>2, <1>4, Widths DEF CancelLen, RequestLen
<1>9. /\ At(m, VERSION_LEN, t) /\ At(m, VERSION_LEN + REQUEST_TYPE_LEN, n)
      /\ At(m, CancelLen, p1) /\ At(m, CancelLen + (STRING_LEN + Len(s1)), p2)
      /\ At(m, (CancelLen + (STRING_LEN + Len(s1))) + (STRING_LEN + Len(s2)), p3)
      /\ Len(m) = RequestLen(s1, s2, s3)
  BY <1>2, <1>5, <1>7, <1>8, Zenon
<1> QED BY <1>5, <1>7, <1>9 DEF HeadAt, v, t, n, p1, p2, p3, s1, s2, s3

\* RpcServer::onRpcMessage reads the request that callInLoop has encoded.
LEMMA RequestArrives ==
  ASSUME NEW r \in Requests, encodes("RpcRequest", r), NEW m, m = encode("RpcRequest", r)
  PROVE  /\ Len(m) = RequestLen(r.service, r.method, r.payload)
         /\ decodeHead(m) = "RpcRequest"
         /\ Accepts("RpcRequest", decode("RpcRequest", m))
         /\ \A old : Decoded("RpcRequest", decode("RpcRequest", m), old) = r
<1> DEFINE class == "RpcRequest"
           i4 == CancelLen + (STRING_LEN + Len(r.service))
           i5 == i4 + (STRING_LEN + Len(r.method))
           i6 == i5 + (STRING_LEN + Len(r.payload))
<1>1. /\ r.service \in Seq(Bytes) /\ r.method \in Seq(Bytes) /\ r.payload \in Seq(Bytes)
      /\ r.requestId \in RequestIds
      /\ FitsLength(r.service) /\ FitsLength(r.method) /\ FitsLength(r.payload)
      /\ DOMAIN r = {"requestId", "service", "method", "payload"}
  BY DEF Requests, encodes
<1>2. /\ m \in Seq(Bytes) /\ Len(m) = RequestLen(r.service, r.method, r.payload)
      /\ HeadAt(m, class, r.requestId)
      /\ At(m, CancelLen, Prefixed(r.service)) /\ At(m, i4, Prefixed(r.method))
      /\ At(m, i5, Prefixed(r.payload))
  BY RequestParts
<1>3. /\ CancelLen \in Nat /\ i4 \in Nat /\ i5 \in Nat /\ i6 = RequestLen(r.service, r.method, r.payload)
      /\ Len(m) \in Nat
  <2>1. Len(r.service) \in Nat /\ Len(r.method) \in Nat /\ Len(r.payload) \in Nat
    BY <1>1
  <2>2. Len(m) \in Nat
    BY <1>2
  <2>3. CancelLen \in Nat /\ STRING_LEN \in Nat
    BY Widths DEF CancelLen
  <2>4. i4 \in Nat /\ i5 \in Nat
    <3> HIDE DEF i4
    <3>1. i4 \in Nat
      BY <2>1, <2>3 DEF i4
    <3> QED BY <2>1, <2>3, <3>1
  <2>5. i6 = RequestLen(r.service, r.method, r.payload)
    <3> DEFINE x == Len(r.service)
               y == Len(r.method)
               z == Len(r.payload)
    <3> HIDE DEF x, y, z
    <3>1. x \in Nat /\ y \in Nat /\ z \in Nat
      BY <2>1 DEF x, y, z
    <3>2. ((CancelLen + (STRING_LEN + x)) + (STRING_LEN + y)) + (STRING_LEN + z) =
            VERSION_LEN + REQUEST_TYPE_LEN + REQUEST_ID_LEN + STRING_LEN + STRING_LEN + STRING_LEN
              + x + y + z
      BY <3>1, Widths DEF CancelLen
    <3> QED BY <3>2, Zenon DEF RequestLen, x, y, z
  <2> QED BY <2>2, <2>3, <2>4, <2>5
<1> HIDE DEF i4, i5, i6
<1>6. class \in Classes
  BY DEF Classes
<1> DEFINE n == 6
<1>4. PICK c : Unrolled(c, class, m, n)
  <2>1. Len(DecodeOrder[class]) = n /\ n \in Nat
    BY Orders
  <2> HIDE DEF class, n
  <2> QED BY <2>1, DecodeUnrolls
<1>5. /\ c[0] = Start(class, m) /\ decode(class, m) = c[6]
      /\ c[1] = loadField(class, m, c[0], "version") /\ c[2] = loadField(class, m, c[1], "type")
      /\ c[3] = loadField(class, m, c[2], "requestId")
      /\ c[4] = loadField(class, m, c[3], "service") /\ c[5] = loadField(class, m, c[4], "method")
      /\ c[6] = loadField(class, m, c[5], "payload")
  BY <1>4, Orders DEF Unrolled
<1> HIDE DEF class
<1>7. PICK l3 : Stands(c[3], m, CancelLen, l3) /\ DOMAIN l3 = Fields /\ l3["requestId"] = r.requestId
  BY <1>1, <1>2, <1>5, <1>6, HeadReads
<1> DEFINE l4 == Assign(l3, "service", r.service)
           l5 == Assign(l4, "method", r.method)
           l6 == Assign(l5, "payload", r.payload)
<1>8. "service" \in StringFields /\ "method" \in StringFields /\ "payload" \in StringFields
  BY Kinds
<1>9. Stands(c[4], m, i4, l4)
  BY <1>1, <1>2, <1>3, <1>5, <1>7, <1>8, StringLoads, Zenon DEF i4
<1>10. DOMAIN l4 = Fields /\ l4["requestId"] = r.requestId /\ l4["service"] = r.service
  BY <1>7, FieldsAre, Assigns
<1> HIDE DEF l4
<1>11. Stands(c[5], m, i5, l5)
  BY <1>1, <1>2, <1>3, <1>5, <1>9, <1>8, StringLoads, Zenon DEF i5
<1>12. /\ DOMAIN l5 = Fields /\ l5["requestId"] = r.requestId /\ l5["service"] = r.service
       /\ l5["method"] = r.method
  BY <1>10, FieldsAre, Assigns
<1> HIDE DEF l5
<1>13. Stands(c[6], m, i6, l6)
  BY <1>1, <1>2, <1>3, <1>5, <1>11, <1>8, StringLoads, Zenon DEF i6
<1>14. /\ DOMAIN l6 = Fields /\ l6["requestId"] = r.requestId /\ l6["service"] = r.service
       /\ l6["method"] = r.method /\ l6["payload"] = r.payload
  BY <1>12, FieldsAre, Assigns
<1> HIDE DEF l6
<1>15. decode(class, m).refused = FALSE /\ decode(class, m).leftLen = 0 /\ decode(class, m).local = l6
  BY <1>2, <1>3, <1>5, <1>13 DEF Stands
<1>16. Accepts(class, decode(class, m))
  BY <1>15 DEF Accepts, class
<1>17. [f \in Members[class] |-> l6[f]] = r
  <2>1. Members[class] = DOMAIN r
    BY <1>1, MembersAre DEF class
  <2>2. \A f \in DOMAIN r : l6[f] = r[f]
    BY <1>1, <1>14
  <2>3. r = [f \in DOMAIN r |-> r[f]]
    BY DEF Requests
  <2> QED BY <2>1, <2>2, <2>3, Zenon
<1>18. \A old : Decoded(class, decode(class, m), old) = r
  BY <1>15, <1>16, <1>17 DEF Decoded
<1>19. decodeHead(m) = class
  BY <1>2, <1>6, HeadNames DEF class
<1> QED BY <1>2, <1>16, <1>18, <1>19 DEF class

\* The responses that the server encodes.
Responses == [requestId : RequestIds, responseResult : Nat, errorCode : Nat,
              payload : Seq(Bytes), errorMessage : Seq(Bytes)]

\* The parts of a response, where they stand, and its size.
LEMMA ResponseParts ==
  ASSUME NEW r \in Responses, encodes("RpcResponse", r), NEW m, m = encode("RpcResponse", r)
  PROVE  /\ m \in Seq(Bytes)
         /\ Len(m) = ResponseLen(r.payload, r.errorMessage)
         /\ HeadAt(m, "RpcResponse", r.requestId)
         /\ At(m, CancelLen, hton(r.responseResult, RESPONSE_RESULT_LEN))
         /\ At(m, CancelLen + RESPONSE_RESULT_LEN, hton(r.errorCode, ERROR_CODE_LEN))
         /\ At(m, (CancelLen + RESPONSE_RESULT_LEN) + ERROR_CODE_LEN, Prefixed(r.payload))
         /\ At(m, ((CancelLen + RESPONSE_RESULT_LEN) + ERROR_CODE_LEN)
                    + (STRING_LEN + Len(r.payload)),
               Prefixed(r.errorMessage))
<1> DEFINE v == hton(kRpcProtocolVersion, VERSION_LEN)
           t == hton(TypeOf["RpcResponse"], REQUEST_TYPE_LEN)
           n == hton(r.requestId, REQUEST_ID_LEN)
           x == hton(r.responseResult, RESPONSE_RESULT_LEN)
           y == hton(r.errorCode, ERROR_CODE_LEN)
           s1 == r.payload
           s2 == r.errorMessage
           p1 == Prefixed(s1)
           p2 == Prefixed(s2)
           u == Joined(v, t, n, x, y, p1)
<1>1. /\ s1 \in Seq(Bytes) /\ s2 \in Seq(Bytes) /\ r.requestId \in RequestIds
      /\ FitsLength(s1) /\ FitsLength(s2) /\ r.errorCode \in Nat /\ r.errorCode < ERROR_CODE_CNT
      /\ r.responseResult \in {kSuccess, kUnsuccess}
  BY DEF Responses, encodes, Consistent
<1>2. /\ v \in Seq(Bytes) /\ Len(v) = VERSION_LEN
      /\ t \in Seq(Bytes) /\ Len(t) = REQUEST_TYPE_LEN
      /\ n \in Seq(Bytes) /\ Len(n) = REQUEST_ID_LEN
      /\ x \in Seq(Bytes) /\ Len(x) = RESPONSE_RESULT_LEN
      /\ y \in Seq(Bytes) /\ Len(y) = ERROR_CODE_LEN
  <2>1. r.errorCode \in 0..(Pow[ERROR_CODE_LEN] - 1)
    BY <1>1, NumbersFit
  <2>2. r.responseResult \in 0..(Pow[RESPONSE_RESULT_LEN] - 1)
    BY <1>1, NumbersFit
  <2>3. y \in Seq(Bytes) /\ Len(y) = ERROR_CODE_LEN
    BY <2>1, Widths, NumberBytes
  <2>4. x \in Seq(Bytes) /\ Len(x) = RESPONSE_RESULT_LEN
    BY <2>2, Widths, NumberBytes
  <2> QED BY <1>1, <2>3, <2>4, Widths, NumbersFit, NumberBytes DEF Classes
<1>3. m = u \o p2
  BY Zenon DEF Joined, encode, ResponseBytes, HeadBytes
<1> HIDE DEF v, t, n, x, y, s1, s2
<1>4. /\ p1 \in Seq(Bytes) /\ Len(p1) = STRING_LEN + Len(s1)
      /\ p2 \in Seq(Bytes) /\ Len(p2) = STRING_LEN + Len(s2)
      /\ Len(s1) \in Nat /\ Len(s2) \in Nat
  BY <1>1, StringBytes
<1> HIDE DEF p1, p2
<1>5. /\ v \in Seq(Bytes) /\ t \in Seq(Bytes) /\ n \in Seq(Bytes)
      /\ x \in Seq(Bytes) /\ y \in Seq(Bytes) /\ p1 \in Seq(Bytes)
  BY <1>2, <1>4
<1>6. u \in Seq(Bytes) /\ Len(u) = Len(v) + Len(t) + Len(n) + Len(x) + Len(y) + Len(p1)
  BY <1>5, SixLen, SMT
<1> HIDE DEF u
<1>7. m \in Seq(Bytes) /\ Len(m) = Len(u) + Len(p2)
  BY <1>3, <1>4, <1>6, ConcatLen
<1>8. At(m, 0, u) /\ At(m, 0 + Len(u), p2)
  <2>1. At(m, 0, u \o p2)
    BY <1>3, <1>7, AtWhole
  <2> QED BY <1>4, <1>6, <1>7, <2>1, AtConcat
<1>9. PartsAt(m, v, t, n, x, y, p1)
  <2>1. m \in Seq(Bytes)
    BY <1>7
  <2>2. \A a, b, c, d, e, f \in Seq(Bytes) :
          At(m, 0, Joined(a, b, c, d, e, f)) => PartsAt(m, a, b, c, d, e, f)
    BY <2>1, SixParts, Zenon
  <2>3. At(m, 0, Joined(v, t, n, x, y, p1))
    BY <1>8 DEF u
  <2> QED BY <1>5, <2>2, <2>3, SMT
<1>10. /\ Len(v) + Len(t) = VERSION_LEN + REQUEST_TYPE_LEN
       /\ Len(v) + Len(t) + Len(n) = CancelLen
       /\ Len(v) + Len(t) + Len(n) + Len(x) = CancelLen + RESPONSE_RESULT_LEN
       /\ Len(v) + Len(t) + Len(n) + Len(x) + Len(y)
            = (CancelLen + RESPONSE_RESULT_LEN) + ERROR_CODE_LEN
       /\ 0 + Len(u) = ((CancelLen + RESPONSE_RESULT_LEN) + ERROR_CODE_LEN)
                         + (STRING_LEN + Len(s1))
       /\ Len(u) + Len(p2) = ResponseLen(s1, s2)
  BY <1>2, <1>4, <1>6, Widths DEF CancelLen, ResponseLen
<1>11. /\ At(m, 0, v) /\ At(m, VERSION_LEN, t) /\ At(m, VERSION_LEN + REQUEST_TYPE_LEN, n)
       /\ At(m, CancelLen, x) /\ At(m, CancelLen + RESPONSE_RESULT_LEN, y)
       /\ At(m, (CancelLen + RESPONSE_RESULT_LEN) + ERROR_CODE_LEN, p1)
       /\ At(m, ((CancelLen + RESPONSE_RESULT_LEN) + ERROR_CODE_LEN) + (STRING_LEN + Len(s1)), p2)
       /\ Len(m) = ResponseLen(s1, s2)
  BY <1>2, <1>7, <1>8, <1>9, <1>10, Zenon DEF PartsAt
<1> QED BY <1>7, <1>11 DEF HeadAt, v, t, n, x, y, p1, p2, s1, s2

\* RpcClient::onRpcMessage reads the response that the server has encoded.
LEMMA ResponseArrives ==
  ASSUME NEW r \in Responses, encodes("RpcResponse", r), NEW m, m = encode("RpcResponse", r)
  PROVE  /\ Len(m) = ResponseLen(r.payload, r.errorMessage)
         /\ decodeHead(m) = "RpcResponse"
         /\ Accepts("RpcResponse", decode("RpcResponse", m))
         /\ \A old : Decoded("RpcResponse", decode("RpcResponse", m), old) = r
<1> DEFINE class == "RpcResponse"
           i4 == CancelLen + RESPONSE_RESULT_LEN
           i5 == i4 + ERROR_CODE_LEN
           i6 == i5 + (STRING_LEN + Len(r.payload))
           i7 == i6 + (STRING_LEN + Len(r.errorMessage))
<1>1. /\ r.payload \in Seq(Bytes) /\ r.errorMessage \in Seq(Bytes) /\ r.requestId \in RequestIds
      /\ FitsLength(r.payload) /\ FitsLength(r.errorMessage)
      /\ r.errorCode \in Nat /\ r.errorCode < ERROR_CODE_CNT
      /\ r.responseResult \in {kSuccess, kUnsuccess} /\ Consistent(r)
      /\ DOMAIN r = {"requestId", "responseResult", "errorCode", "payload", "errorMessage"}
  BY DEF Responses, encodes, Consistent
<1>2. /\ m \in Seq(Bytes) /\ Len(m) = ResponseLen(r.payload, r.errorMessage)
      /\ HeadAt(m, class, r.requestId)
      /\ At(m, CancelLen, hton(r.responseResult, RESPONSE_RESULT_LEN))
      /\ At(m, i4, hton(r.errorCode, ERROR_CODE_LEN))
      /\ At(m, i5, Prefixed(r.payload)) /\ At(m, i6, Prefixed(r.errorMessage))
  BY ResponseParts
<1>3. /\ CancelLen \in Nat /\ i4 \in Nat /\ i5 \in Nat /\ i6 \in Nat
      /\ i7 = ResponseLen(r.payload, r.errorMessage)
      /\ Len(m) \in Nat
  <2>1. Len(m) \in Nat
    BY <1>2
  <2> DEFINE a == Len(r.payload)
             b == Len(r.errorMessage)
  <2>2. a \in Nat /\ b \in Nat
    BY <1>1
  <2>3. ResponseLen(r.payload, r.errorMessage) =
          VERSION_LEN + REQUEST_TYPE_LEN + REQUEST_ID_LEN + RESPONSE_RESULT_LEN + ERROR_CODE_LEN
            + STRING_LEN + STRING_LEN + a + b
    BY Zenon DEF ResponseLen
  <2> HIDE DEF a, b
  <2>4. /\ CancelLen \in Nat /\ i4 \in Nat /\ i5 \in Nat /\ i5 + (STRING_LEN + a) \in Nat
        /\ (i5 + (STRING_LEN + a)) + (STRING_LEN + b) =
              VERSION_LEN + REQUEST_TYPE_LEN + REQUEST_ID_LEN + RESPONSE_RESULT_LEN
                + ERROR_CODE_LEN + STRING_LEN + STRING_LEN + a + b
    BY <2>2, Widths DEF CancelLen
  <2> QED BY <2>1, <2>3, <2>4 DEF a, b
<1> HIDE DEF i4, i5, i6, i7
<1>4. class \in Classes
  BY DEF Classes
<1> DEFINE n == 7
<1>5. PICK c : Unrolled(c, class, m, n)
  <2>1. Len(DecodeOrder[class]) = n /\ n \in Nat
    BY Orders
  <2> HIDE DEF class, n
  <2> QED BY <2>1, DecodeUnrolls
<1>6. /\ c[0] = Start(class, m) /\ decode(class, m) = c[7]
      /\ c[1] = loadField(class, m, c[0], "version") /\ c[2] = loadField(class, m, c[1], "type")
      /\ c[3] = loadField(class, m, c[2], "requestId")
      /\ c[4] = loadField(class, m, c[3], "responseResult")
      /\ c[5] = loadField(class, m, c[4], "errorCode")
      /\ c[6] = loadField(class, m, c[5], "payload")
      /\ c[7] = loadField(class, m, c[6], "errorMessage")
  BY <1>5, Orders DEF Unrolled
<1> HIDE DEF class
<1>7. PICK l3 : Stands(c[3], m, CancelLen, l3) /\ DOMAIN l3 = Fields /\ l3["requestId"] = r.requestId
  BY <1>1, <1>2, <1>4, <1>6, HeadReads
<1> DEFINE l4 == Assign(l3, "responseResult", r.responseResult)
           l5 == Assign(l4, "errorCode", r.errorCode)
           l6 == Assign(l5, "payload", r.payload)
           l7 == Assign(l6, "errorMessage", r.errorMessage)
<1>8. "payload" \in StringFields /\ "errorMessage" \in StringFields
  BY Kinds
<1>9. Stands(c[4], m, i4, l4)
  <2>1. /\ "responseResult" \notin StringFields /\ RESPONSE_RESULT_LEN \in Nat
        /\ Width["responseResult"] = RESPONSE_RESULT_LEN
        /\ r.responseResult \in 0..(Pow[RESPONSE_RESULT_LEN] - 1)
    BY <1>1, Widths, Kinds, NumbersFit
  <2>2. Legal(class, c[3], "responseResult", r.responseResult)
    BY <1>1 DEF Legal
  <2> QED BY <1>2, <1>3, <1>6, <1>7, <2>1, <2>2, NumberLoads, Zenon DEF i4
<1>10. /\ DOMAIN l4 = Fields /\ l4["requestId"] = r.requestId
       /\ l4["responseResult"] = r.responseResult
  BY <1>7, FieldsAre, Assigns
<1> HIDE DEF l4
<1>11. Stands(c[5], m, i5, l5)
  <2>1. /\ "errorCode" \notin StringFields /\ ERROR_CODE_LEN \in Nat
        /\ Width["errorCode"] = ERROR_CODE_LEN /\ r.errorCode \in 0..(Pow[ERROR_CODE_LEN] - 1)
    BY <1>1, Widths, Kinds, NumbersFit
  <2>2. c[4].local = l4
    BY <1>9 DEF Stands
  <2>3. c[4].local.responseResult = r.responseResult
    BY <1>10, <2>2
  <2>4. Legal(class, c[4], "errorCode", r.errorCode)
    BY <1>1, <2>3 DEF Legal, Consistent
  <2> QED BY <1>2, <1>3, <1>6, <1>9, <2>1, <2>4, NumberLoads, Zenon DEF i5
<1>12. /\ DOMAIN l5 = Fields /\ l5["requestId"] = r.requestId
       /\ l5["responseResult"] = r.responseResult /\ l5["errorCode"] = r.errorCode
  BY <1>10, FieldsAre, Assigns
<1> HIDE DEF l5
<1>13. Stands(c[6], m, i6, l6)
  BY <1>1, <1>2, <1>3, <1>6, <1>8, <1>11, StringLoads, Zenon DEF i6
<1>14. /\ DOMAIN l6 = Fields /\ l6["requestId"] = r.requestId /\ l6["payload"] = r.payload
       /\ l6["responseResult"] = r.responseResult /\ l6["errorCode"] = r.errorCode
  BY <1>12, FieldsAre, Assigns
<1> HIDE DEF l6
<1>15. Stands(c[7], m, i7, l7)
  <2>1. /\ m \in Seq(Bytes) /\ i6 \in Nat /\ r.errorMessage \in Seq(Bytes)
        /\ FitsLength(r.errorMessage) /\ At(m, i6, Prefixed(r.errorMessage))
        /\ c[7] = loadField(class, m, c[6], "errorMessage")
    BY <1>1, <1>2, <1>3, <1>6
  <2> QED BY <1>8, <1>13, <2>1, StringLoads, Zenon DEF i7
<1>16. /\ DOMAIN l7 = Fields /\ l7["requestId"] = r.requestId /\ l7["payload"] = r.payload
       /\ l7["responseResult"] = r.responseResult /\ l7["errorCode"] = r.errorCode
       /\ l7["errorMessage"] = r.errorMessage
  BY <1>14, FieldsAre, Assigns
<1> HIDE DEF l7
<1>17. decode(class, m).refused = FALSE /\ decode(class, m).leftLen = 0 /\ decode(class, m).local = l7
  BY <1>2, <1>3, <1>6, <1>15 DEF Stands
<1>18. Accepts(class, decode(class, m))
  <2>1. Consistent(l7)
    BY <1>1, <1>16 DEF Consistent
  <2> QED BY <1>17, <2>1 DEF Accepts
<1>19. [f \in Members[class] |-> l7[f]] = r
  <2>1. Members[class] = DOMAIN r
    BY <1>1, MembersAre DEF class
  <2>2. \A f \in DOMAIN r : l7[f] = r[f]
    BY <1>1, <1>16
  <2>3. r = [f \in DOMAIN r |-> r[f]]
    BY DEF Responses
  <2> QED BY <2>1, <2>2, <2>3, Zenon
<1>20. \A old : Decoded(class, decode(class, m), old) = r
  BY <1>17, <1>18, <1>19 DEF Decoded
<1>21. decodeHead(m) = class
  BY <1>2, <1>4, HeadNames
<1> QED BY <1>2, <1>18, <1>20, <1>21 DEF class
-----------------------------------------------------------------------------
(***************************************************************************)
(* One call                                                                *)
(***************************************************************************)
Calls == [requestId : RequestIds, service : Strings, method : Strings,
          payload : Strings]

Replies == [responseResult : Nat, errorCode : Nat, payload : Seq(Bytes),
            errorMessage : Seq(Bytes)]

\* What the server sends instead of r.
Fitting(r) == IF Fits(r) THEN r ELSE Failure(MESSAGE_TOO_LARGE, TooLargeText)

LEMMA CallsAreRequests == Calls \subseteq Requests
<1>1. Strings \subseteq Seq(Bytes)
  BY ExchangeAssumption
<1> QED BY <1>1 DEF Calls, Requests

LEMMA LimitFacts ==
  ASSUME NEW n \in Sizes
  PROVE  n \in Nat /\ n < CancelLen + Pow[STRING_LEN] /\ Pow[STRING_LEN] \in Nat
  BY ExchangeAssumption, Widths, PowFacts, PowerOf

\* encode() refuses no request that has passed the client's limit ...
LEMMA RequestEncodes ==
  ASSUME NEW r \in Requests, NEW n \in Sizes, RequestLen(r.service, r.method, r.payload) <= n
  PROVE  encodes("RpcRequest", r)
<1> DEFINE a == Len(r.service)
           b == Len(r.method)
           c == Len(r.payload)
<1>1. a \in Nat /\ b \in Nat /\ c \in Nat
  BY DEF Requests
<1>2. VERSION_LEN + REQUEST_TYPE_LEN + REQUEST_ID_LEN + STRING_LEN + STRING_LEN + STRING_LEN
        + a + b + c <= n
  BY Zenon DEF RequestLen
<1> HIDE DEF a, b, c
<1>3. a < Pow[STRING_LEN] /\ b < Pow[STRING_LEN] /\ c < Pow[STRING_LEN]
  BY <1>1, <1>2, LimitFacts, Widths DEF CancelLen
<1> QED BY <1>3 DEF encodes, FitsLength, a, b, c

\* ... and no proper response that has passed the server's.
LEMMA ResponseEncodes ==
  ASSUME NEW r \in Replies, Consistent(r), NEW id, NEW n \in Sizes,
         ResponseLen(r.payload, r.errorMessage) <= n
  PROVE  encodes("RpcResponse", r) /\ encodes("RpcResponse", Response(id, r))
<1> DEFINE a == Len(r.payload)
           b == Len(r.errorMessage)
<1>1. a \in Nat /\ b \in Nat
  BY DEF Replies
<1>2. VERSION_LEN + REQUEST_TYPE_LEN + REQUEST_ID_LEN + RESPONSE_RESULT_LEN + ERROR_CODE_LEN
        + STRING_LEN + STRING_LEN + a + b <= n
  BY Zenon DEF ResponseLen
<1> HIDE DEF a, b
<1>3. a < Pow[STRING_LEN] /\ b < Pow[STRING_LEN]
  BY <1>1, <1>2, LimitFacts, Widths DEF CancelLen
<1>4. FitsLength(r.payload) /\ FitsLength(r.errorMessage)
  BY <1>3 DEF FitsLength, a, b
<1> DEFINE q == Response(id, r)
<1>5. /\ q.payload = r.payload /\ q.errorMessage = r.errorMessage
      /\ q.responseResult = r.responseResult /\ q.errorCode = r.errorCode
  BY DEF Response
<1> HIDE DEF q
<1>6. encodes("RpcResponse", r)
  BY <1>4 DEF encodes
<1>7. Consistent(q)
  BY <1>5 DEF Consistent
<1>8. encodes("RpcResponse", q)
  BY <1>4, <1>5, <1>7 DEF encodes
<1> QED BY <1>6, <1>8 DEF q

\* The server's own answers are proper ones.
LEMMA FailureFacts ==
  ASSUME NEW code \in {METHOD_NOT_FOUND, MESSAGE_TOO_LARGE, INTERNAL_ERROR},
         NEW text \in Seq(Bytes)
  PROVE  /\ Failure(code, text) \in Replies /\ Consistent(Failure(code, text))
         /\ Failure(code, text).payload = <<>> /\ Failure(code, text).errorMessage = text
<1>1. code \in Nat /\ code # NO_ERROR /\ code < ERROR_CODE_CNT
  BY ExchangeAssumption, MessageAssumption
     DEF METHOD_NOT_FOUND, MESSAGE_TOO_LARGE, INTERNAL_ERROR, NO_ERROR
<1>2. <<>> \in Seq(Bytes) /\ kUnsuccess \in Nat /\ kUnsuccess # kSuccess
  BY DEF kUnsuccess, kSuccess
<1> QED BY <1>1, <1>2 DEF Failure, Replies, Consistent

\* The two copies of the server's check agree with the encoder's.
LEMMA ChecksAgree ==
  ASSUME NEW r \in Replies
  PROVE  (invalidSyncResult(r) <=> ~Consistent(r)) /\ (invalidReply(r) <=> ~Consistent(r))
<1>1. r.errorCode >= ERROR_CODE_CNT <=> ~(r.errorCode < ERROR_CODE_CNT)
  BY MessageAssumption DEF Replies
<1> QED BY <1>1 DEF invalidSyncResult, invalidReply, Consistent, kSuccess, kUnsuccess

LEMMA TextFacts ==
  /\ TooLargeText \in Seq(Bytes) /\ InvalidText \in Seq(Bytes)
  /\ NotFoundText \in Seq(Bytes) /\ ExceptionText \in Seq(Bytes)
  BY ExchangeAssumption

\* What is sent instead of a proper answer is one, and it fits, unless not even
\* the smallest error response does.
LEMMA FittingFacts ==
  ASSUME serverMax \in Sizes, NEW r \in Replies, Consistent(r)
  PROVE  /\ Fitting(r) \in Replies /\ Consistent(Fitting(r))
         /\ serverMax >= ResponseLen(<<>>, TooLargeText) => Fits(Fitting(r))
         /\ Fits(r) => Fitting(r) = r /\ Fits(Fitting(r))
<1> DEFINE large == Failure(MESSAGE_TOO_LARGE, TooLargeText)
<1>1. /\ large \in Replies /\ Consistent(large) /\ large.payload = <<>>
      /\ large.errorMessage = TooLargeText
  BY FailureFacts, TextFacts
<1>2. ResponseLen(<<>>, TooLargeText) \in Nat /\ serverMax \in Nat
  <2> DEFINE k == Len(TooLargeText)
             e == Len(<<>>)
  <2>1. k \in Nat /\ e \in Nat
    BY TextFacts
  <2>2. ResponseLen(<<>>, TooLargeText) =
          VERSION_LEN + REQUEST_TYPE_LEN + REQUEST_ID_LEN + RESPONSE_RESULT_LEN + ERROR_CODE_LEN
            + STRING_LEN + STRING_LEN + e + k
    BY Zenon DEF ResponseLen
  <2> HIDE DEF k, e
  <2> QED BY <2>1, <2>2, Widths, LimitFacts
<1> HIDE DEF large
<1>3. Fits(large) <=> ResponseLen(<<>>, TooLargeText) <= serverMax
  BY <1>1 DEF Fits
<1>4. Fitting(r) = IF Fits(r) THEN r ELSE large
  BY Zenon DEF Fitting, large
<1>5. serverMax >= ResponseLen(<<>>, TooLargeText) => Fits(large)
  BY <1>2, <1>3
<1> QED BY <1>1, <1>4, <1>5, Zenon

\* sendResponse answers with what fits, or closes the connection because nothing
\* does.
LEMMA Sends ==
  ASSUME serverMax \in Sizes, NEW r \in Replies, Consistent(r), sendResponse(r)
  PROVE  \/ /\ closedBy' = "server" /\ at' = "done"
            /\ serverMax < ResponseLen(<<>>, TooLargeText)
         \/ /\ wire' = encode("RpcResponse", Response(request.requestId, Fitting(r)))
            /\ at' = "toClient" /\ closedBy' = closedBy /\ outcome' = outcome
            /\ Fits(Fitting(r))
<1> DEFINE size == ResponseLen(r.payload, r.errorMessage)
           small == ResponseLen(<<>>, TooLargeText)
           reply == IF size > serverMax THEN Failure(MESSAGE_TOO_LARGE, TooLargeText) ELSE r
<1>1. size \in Nat /\ small \in Nat /\ serverMax \in Nat
  <2>1. \A s, t \in Seq(Bytes) : ResponseLen(s, t) \in Nat
    <3> SUFFICES ASSUME NEW s \in Seq(Bytes), NEW t \in Seq(Bytes) PROVE ResponseLen(s, t) \in Nat
      OBVIOUS
    <3>1. Len(s) \in Nat /\ Len(t) \in Nat
      OBVIOUS
    <3> QED BY <3>1, Widths DEF ResponseLen
  <2>2. r.payload \in Seq(Bytes) /\ r.errorMessage \in Seq(Bytes) /\ <<>> \in Seq(Bytes)
    BY DEF Replies
  <2> QED BY <2>1, <2>2, TextFacts, LimitFacts
<1>2. IF (size > serverMax /\ serverMax < small) \/ ~encodes("RpcResponse", reply)
      THEN CloseBy("server")
      ELSE /\ wire' = encode("RpcResponse", Response(request.requestId, reply))
           /\ at' = "toClient" /\ UNCHANGED <<closedBy, outcome>>
  BY Zenon DEF sendResponse
<1>3. Fits(r) <=> ~(size > serverMax)
  <2>1. Fits(r) <=> size <= serverMax
    BY Zenon DEF Fits
  <2> HIDE DEF size
  <2> QED BY <1>1, <2>1
<1> HIDE DEF size, small
<1>4. reply = Fitting(r)
  BY <1>3, Zenon DEF Fitting
<1> HIDE DEF reply
<1>5. Fitting(r) \in Replies /\ Consistent(Fitting(r))
      /\ (serverMax >= small => Fits(Fitting(r))) /\ (Fits(r) => Fits(Fitting(r)))
  BY FittingFacts DEF small
<1>6. Fits(Fitting(r)) => encodes("RpcResponse", reply)
  BY <1>4, <1>5, ResponseEncodes DEF Fits
<1>7. CASE size > serverMax /\ serverMax < small
  BY <1>2, <1>7 DEF CloseBy, small
<1>8. CASE ~(size > serverMax /\ serverMax < small)
  <2>1. Fits(Fitting(r))
    BY <1>1, <1>3, <1>5, <1>8
  <2> QED BY <1>2, <1>4, <1>6, <1>8, <2>1
<1> QED BY <1>7, <1>8

\* Where a call is, what the message under way is, and what each end knows.
ExchangeInv ==
  /\ clientMax \in Sizes /\ serverMax \in Sizes /\ call \in Calls
  /\ at \in {"caller", "toServer", "handler", "toClient", "done"}
  /\ result \in Replies
  /\ at \in {"caller", "toServer"} => request # call
  /\ at # "done" => closedBy = "nobody"
  /\ at = "toServer" => /\ wire = encode("RpcRequest", call)
                        /\ RequestLen(call.service, call.method, call.payload) <= clientMax
  /\ at \in {"handler", "toClient"} => request = call
  /\ at = "toClient" => /\ wire = encode("RpcResponse", Response(call.requestId, Promised))
                        /\ Fits(Promised)
  /\ at = "done" /\ closedBy = "nobody" /\ request = call =>
       outcome = Response(call.requestId, Promised)
  /\ OnlySmallLimitsClose

\* The handler's answer, before its size is looked at.
Answered(k, r) == IF k = "unregistered" THEN Failure(METHOD_NOT_FOUND, NotFoundText)
                  ELSE IF Consistent(r) THEN r
                  ELSE Failure(INTERNAL_ERROR, InvalidText)

LEMMA AnsweredFacts ==
  ASSUME NEW k, NEW r \in Replies
  PROVE  Answered(k, r) \in Replies /\ Consistent(Answered(k, r))
  BY FailureFacts, TextFacts DEF Answered

LEMMA PromisedIs == Promised = Fitting(Answered(kind, result))
  BY Zenon DEF Promised, Fitting, Answered

\* Whatever the handler does, the server answers with what is promised.
LEMMA AnswerStep ==
  ASSUME ExchangeInv, at = "handler", NEW r, r = Answered(kind, result'), result' \in Replies,
         sendResponse(r), UNCHANGED <<config, request>>
  PROVE  ExchangeInv'
<1>1. /\ clientMax' = clientMax /\ serverMax' = serverMax /\ kind' = kind /\ call' = call
      /\ request' = request /\ request = call /\ closedBy = "nobody"
      /\ serverMax \in Sizes /\ clientMax \in Sizes /\ call \in Calls
  BY DEF ExchangeInv, config
<1>2. r \in Replies /\ Consistent(r)
  BY AnsweredFacts
<1>4. Promised' = Fitting(r)
  BY <1>1 DEF Promised, Fitting, Answered, Fits
<1>5. CASE closedBy' = "server" /\ at' = "done" /\ serverMax < ResponseLen(<<>>, TooLargeText)
  <2>1. serverMax \in Nat /\ ResponseLen(<<>>, TooLargeText) \in Nat
    <3>1. Len(<<>>) \in Nat /\ Len(TooLargeText) \in Nat
      BY TextFacts
    <3> QED BY <1>1, <3>1, LimitFacts, Widths DEF ResponseLen
  <2>2. ~(serverMax >= ResponseLen(<<>>, TooLargeText))
    BY <1>5, <2>1
  <2>3. OnlySmallLimitsClose'
    BY <1>1, <2>2 DEF OnlySmallLimitsClose
  <2> QED BY <1>1, <1>5, <2>3 DEF ExchangeInv
<1>6. CASE /\ wire' = encode("RpcResponse", Response(request.requestId, Fitting(r)))
           /\ at' = "toClient" /\ closedBy' = closedBy /\ outcome' = outcome
           /\ Fits(Fitting(r))
  <2>1. /\ wire' = encode("RpcResponse", Response(call'.requestId, Promised'))
        /\ Fits(Promised')
    BY <1>1, <1>4, <1>6
  <2>2. Fits(Promised)'
    BY <1>1, <2>1 DEF Fits
  <2>3. OnlySmallLimitsClose'
    BY <1>1, <1>6 DEF OnlySmallLimitsClose
  <2> QED BY <1>1, <1>6, <2>1, <2>2, <2>3 DEF ExchangeInv
<1> QED BY <1>1, <1>2, <1>5, <1>6, Sends

\* What callInLoop, onRequest, the handler and onResponse keep.
THEOREM ExchangeInvariant == Spec => []ExchangeInv
<1>1. Init => ExchangeInv
  <2> SUFFICES ASSUME Init PROVE ExchangeInv
    OBVIOUS
  <2>1. /\ clientMax \in Sizes /\ serverMax \in Sizes /\ call \in Calls /\ at = "caller"
        /\ closedBy = "nobody" /\ request = Blank("RpcRequest")
        /\ result = Failure(INTERNAL_ERROR, <<>>)
    BY DEF Init, Calls
  <2>2. result \in Replies
    <3>1. <<>> \in Seq(Bytes)
      OBVIOUS
    <3> QED BY <2>1, <3>1, FailureFacts
  <2>3. request # call
    <3>1. Blank("RpcRequest").requestId = 0
      BY MembersAre DEF Blank, StringFields
    <3>2. call.requestId # 0
      BY <2>1, ExchangeAssumption DEF Calls
    <3> QED BY <2>1, <3>1, <3>2
  <2> QED BY <2>1, <2>2, <2>3 DEF ExchangeInv, OnlySmallLimitsClose
<1>2. ExchangeInv /\ [Next]_vars => ExchangeInv'
  <2> SUFFICES ASSUME ExchangeInv, [Next]_vars PROVE ExchangeInv'
    OBVIOUS
  <2>0. /\ clientMax \in Sizes /\ serverMax \in Sizes /\ call \in Calls /\ call \in Requests
        /\ result \in Replies /\ clientMax \in Nat /\ serverMax \in Nat
    BY CallsAreRequests, LimitFacts DEF ExchangeInv
  <2> DEFINE size == RequestLen(call.service, call.method, call.payload)
  <2>10. size \in Nat
    <3>1. Len(call.service) \in Nat /\ Len(call.method) \in Nat /\ Len(call.payload) \in Nat
      BY <2>0 DEF Requests
    <3> DEFINE a == Len(call.service)
               b == Len(call.method)
               c == Len(call.payload)
    <3>2. size = VERSION_LEN + REQUEST_TYPE_LEN + REQUEST_ID_LEN + STRING_LEN + STRING_LEN
                   + STRING_LEN + a + b + c
      BY Zenon DEF RequestLen
    <3>3. a \in Nat /\ b \in Nat /\ c \in Nat
      BY <3>1
    <3> HIDE DEF size, a, b, c
    <3> QED BY <3>2, <3>3, Widths
  <2>1. CASE callInLoop
    <3>1. /\ at = "caller" /\ clientMax' = clientMax /\ serverMax' = serverMax /\ call' = call
          /\ kind' = kind /\ request' = request /\ result' = result /\ closedBy' = closedBy
          /\ request # call /\ closedBy = "nobody"
      BY <2>1 DEF callInLoop, config, ExchangeInv
    <3>2. OnlySmallLimitsClose'
      BY <3>1 DEF OnlySmallLimitsClose
    <3>3. CASE size > clientMax
      <4>1. at' = "done"
        BY <2>1, <3>3 DEF callInLoop
      <4> QED BY <2>0, <3>1, <3>2, <4>1 DEF ExchangeInv
    <3>4. CASE ~(size > clientMax)
      <4>1. at' = "toServer" /\ wire' = encode("RpcRequest", call)
        BY <2>1, <3>4 DEF callInLoop
      <4>2. size <= clientMax
        BY <2>0, <2>10, <3>4
      <4> QED BY <2>0, <3>1, <3>2, <4>1, <4>2 DEF ExchangeInv
    <3> QED BY <3>3, <3>4
  <2>2. CASE onRequest
    <3>1. /\ at = "toServer" /\ clientMax' = clientMax /\ serverMax' = serverMax /\ call' = call
          /\ kind' = kind /\ result' = result
          /\ closedBy = "nobody" /\ wire = encode("RpcRequest", call) /\ size <= clientMax
      BY <2>2 DEF onRequest, config, ExchangeInv
    <3>2. encodes("RpcRequest", call)
      BY <2>0, <3>1, RequestEncodes
    <3>3. /\ Len(wire) = size /\ decodeHead(wire) = "RpcRequest"
          /\ Accepts("RpcRequest", decode("RpcRequest", wire))
          /\ \A old : Decoded("RpcRequest", decode("RpcRequest", wire), old) = call
      BY <2>0, <3>1, <3>2, RequestArrives
    <3> HIDE DEF size
    <3>4. CASE ~Acceptable("RpcRequest", serverMax)
      <4>1. closedBy' = "server" /\ at' = "done"
        BY <2>2, <3>4 DEF onRequest, CloseBy
      <4>2. clientMax # serverMax
        BY <3>1, <3>3, <3>4 DEF Acceptable
      <4>3. OnlySmallLimitsClose'
        BY <3>1, <4>2 DEF OnlySmallLimitsClose
      <4> QED BY <2>0, <3>1, <4>1, <4>3 DEF ExchangeInv
    <3>5. CASE Acceptable("RpcRequest", serverMax)
      <4>1. request' = call /\ at' = "handler" /\ closedBy' = closedBy
        BY <2>2, <3>3, <3>5 DEF onRequest
      <4>2. OnlySmallLimitsClose'
        BY <3>1, <4>1 DEF OnlySmallLimitsClose
      <4> QED BY <2>0, <3>1, <4>1, <4>2 DEF ExchangeInv
    <3> QED BY <3>4, <3>5
  <2>3. CASE AnswerUnknown
    <3>1. Failure(METHOD_NOT_FOUND, NotFoundText) = Answered(kind, result')
      BY <2>3 DEF AnswerUnknown, Answered
    <3> QED BY <2>0, <2>3, <3>1, AnswerStep DEF AnswerUnknown
  <2>4. CASE HandlerThrows
    <3> DEFINE thrown == Failure(INTERNAL_ERROR, ExceptionText)
    <3>1. thrown \in Replies /\ Consistent(thrown)
      BY FailureFacts, TextFacts
    <3> HIDE DEF thrown
    <3>2. /\ at = "handler" /\ kind # "unregistered" /\ result' = thrown /\ sendResponse(thrown)
          /\ UNCHANGED <<config, request>>
      BY <2>4 DEF HandlerThrows, thrown
    <3>3. thrown = Answered(kind, result')
      BY <3>1, <3>2 DEF Answered
    <3> QED BY <3>1, <3>2, <3>3, AnswerStep
  <2>5. ASSUME NEW r \in Results, HandlerAnswers(r) PROVE ExchangeInv'
    <3>1. r \in Replies
      <4>1. \A s \in Strings : s \in Seq(Bytes)
        BY ExchangeAssumption
      <4>2. \A n \in ErrorCodes : n \in Nat
        BY ExchangeAssumption
      <4>3. kSuccess \in Nat /\ kUnsuccess \in Nat /\ 2 \in Nat
        BY DEF kSuccess, kUnsuccess
      <4> QED BY <4>1, <4>2, <4>3 DEF Results, Replies
    <3> DEFINE invalid == IF kind = "sync" THEN invalidSyncResult(r) ELSE invalidReply(r)
               sent == IF invalid THEN Failure(INTERNAL_ERROR, InvalidText) ELSE r
    <3>2. invalid <=> ~Consistent(r)
      BY <3>1, ChecksAgree
    <3>3. /\ at = "handler" /\ kind # "unregistered" /\ result' = r /\ sendResponse(sent)
          /\ UNCHANGED <<config, request>>
      BY <2>5, Zenon DEF HandlerAnswers
    <3> HIDE DEF invalid
    <3>4. sent = Answered(kind, result')
      BY <3>2, <3>3 DEF Answered
    <3> HIDE DEF sent
    <3> QED BY <3>1, <3>3, <3>4, AnswerStep
  <2>6. CASE onResponse
    <3> DEFINE q == Response(call.requestId, Promised)
               response == Decoded("RpcResponse", decode("RpcResponse", wire), outcome)
    <3>1. /\ at = "toClient" /\ clientMax' = clientMax /\ serverMax' = serverMax /\ call' = call
          /\ kind' = kind /\ result' = result /\ request' = request
          /\ closedBy = "nobody" /\ request = call /\ wire = encode("RpcResponse", q)
          /\ Fits(Promised)
      BY <2>6 DEF onResponse, config, ExchangeInv
    <3>2. Promised \in Replies /\ Consistent(Promised)
      BY <2>0, PromisedIs, AnsweredFacts, FittingFacts
    <3>3. ResponseLen(Promised.payload, Promised.errorMessage) <= serverMax
      BY <3>1 DEF Fits
    <3>4. encodes("RpcResponse", q)
      BY <2>0, <3>2, <3>3, ResponseEncodes
    <3>5. /\ q \in Responses /\ q.requestId = call.requestId /\ q.payload = Promised.payload
          /\ q.errorMessage = Promised.errorMessage
      <4>1. call.requestId \in RequestIds
        BY <2>0 DEF Requests
      <4> QED BY <3>2, <4>1 DEF Response, Responses, Replies
    <3>6. Promised' = Promised
      BY <3>1 DEF Promised, Fits
    <3>7. q' = q
      BY <3>1, <3>6 DEF Response
    <3> HIDE DEF q
    <3>8. /\ Len(wire) = ResponseLen(q.payload, q.errorMessage)
          /\ decodeHead(wire) = "RpcResponse"
          /\ Accepts("RpcResponse", decode("RpcResponse", wire))
          /\ \A old : Decoded("RpcResponse", decode("RpcResponse", wire), old) = q
      BY <3>1, <3>4, <3>5, ResponseArrives
    <3>9. Len(wire) <= serverMax
      BY <3>3, <3>5, <3>8
    <3>10. response = q
      BY <3>8
    <3>11. IF ~Acceptable("RpcResponse", clientMax) \/ response.requestId # call.requestId
           THEN CloseBy("client")
           ELSE outcome' = response /\ at' = "done" /\ UNCHANGED <<wire, closedBy>>
      BY <2>6, Zenon DEF onResponse
    <3> HIDE DEF response
    <3>12. CASE ~Acceptable("RpcResponse", clientMax)
      <4>1. closedBy' = "client" /\ at' = "done"
        BY <3>11, <3>12 DEF CloseBy
      <4>2. clientMax # serverMax
        BY <3>8, <3>9, <3>12 DEF Acceptable
      <4>3. OnlySmallLimitsClose'
        BY <3>1, <4>2 DEF OnlySmallLimitsClose
      <4> QED BY <2>0, <3>1, <4>1, <4>3 DEF ExchangeInv
    <3>13. CASE Acceptable("RpcResponse", clientMax)
      <4>1. outcome' = q /\ at' = "done" /\ closedBy' = closedBy
        BY <3>5, <3>10, <3>11, <3>13
      <4>2. OnlySmallLimitsClose'
        BY <3>1, <4>1 DEF OnlySmallLimitsClose
      <4>3. outcome' = Response(call.requestId, Promised)'
        BY <3>7, <4>1 DEF q
      <4> QED BY <2>0, <3>1, <4>1, <4>2, <4>3 DEF ExchangeInv
    <3> QED BY <3>12, <3>13
  <2>7. CASE UNCHANGED vars
    BY <2>7 DEF vars, ExchangeInv, OnlySmallLimitsClose, Promised, Fits
  <2> QED BY <2>1, <2>2, <2>3, <2>4, <2>5, <2>6, <2>7 DEF Next
<1> QED BY <1>1, <1>2, PTL DEF Spec

\* The server sees the arguments of the call, byte for byte, and the callback sees
\* the handler's result or the error that stands for it, whatever the strings, the
\* ids and the two limits are.
THEOREM ResultsArrive == Spec => []ResultArrives
<1>1. ExchangeInv => ResultArrives
  BY DEF ExchangeInv, ResultArrives
<1> QED BY <1>1, ExchangeInvariant, PTL

\* With the same limit at both ends nothing that the code itself sends closes the
\* connection, as long as the limit has room for the smallest error response.
THEOREM LimitsClose == Spec => []OnlySmallLimitsClose
<1>1. ExchangeInv => OnlySmallLimitsClose
  BY DEF ExchangeInv
<1> QED BY <1>1, ExchangeInvariant, PTL
=============================================================================
