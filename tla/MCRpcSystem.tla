---------------------------- MODULE MCRpcSystem ----------------------------
(***************************************************************************)
(* RpcSystem instantiated for TLC.                                         *)
(***************************************************************************)
EXTENDS RpcSystem

Timed(allowReconnect, limit) == [timeout |-> TRUE, allowReconnect |-> allowReconnect,
                                 resendLimit |-> limit, tooLarge |-> FALSE]

\* A call that may be sent again, that may not, and one that might but has no
\* resend to spend.
SomeCall == {Timed(TRUE, 1), Timed(FALSE, 1), Timed(TRUE, 0)}
=============================================================================
