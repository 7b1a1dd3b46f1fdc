---------------------------- MODULE MCRpcClient ----------------------------
(***************************************************************************)
(* RpcClient instantiated for TLC.                                         *)
(***************************************************************************)
EXTENDS RpcClient

Param(timeout, allowReconnect, resendLimit, tooLarge) ==
  [timeout |-> timeout, allowReconnect |-> allowReconnect,
   resendLimit |-> resendLimit, tooLarge |-> tooLarge]

\* A timed call that may be resent, an untimed one that may not, and one that
\* is too large to be sent.
MixedParams ==
  {Param(TRUE, TRUE, 1, FALSE), Param(FALSE, FALSE, 1, FALSE), Param(FALSE, TRUE, 1, TRUE)}

\* One call, every combination of its arguments.
EveryParam == AllParams

\* Calls that may be resent more than once.
ResendParams == {Param(TRUE, TRUE, 2, FALSE), Param(FALSE, TRUE, 2, FALSE)}
=============================================================================
