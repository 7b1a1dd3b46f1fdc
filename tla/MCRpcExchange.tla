---------------------------- MODULE MCRpcExchange ----------------------------
(***************************************************************************)
(* RpcExchange instantiated for TLC: two-byte numbers, and texts whose     *)
(* lengths are ordered as those in the code ("handler exception" 17, "rpc  *)
(* message too large" 21, "invalid handler result" 22, "service or method  *)
(* not exist" 27).                                                         *)
(***************************************************************************)
EXTENDS RpcExchange

ShortStrings == {<<>>, <<1>>, <<2, 0, 3>>}
Text1 == <<1>>
Text2 == <<1, 1>>
Text3 == <<1, 1, 1>>
Text4 == <<1, 1, 1, 1>>

\* Around the sizes of the messages: a request has 11 to 20 bytes, a response 12
\* to 16, the error response that replaces one that is too large 14.  The largest
\* limit is the largest that the two-byte lengths allow.
SizesAround == {11, 12, 13, 14, 15, 17, 20}
=============================================================================
