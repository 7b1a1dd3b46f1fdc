------------------------------- MODULE RpcCall -------------------------------
(***************************************************************************)
(* What RpcClient promises the user of call(): the life of a single call,  *)
(* with no connection, no timer and no container.  A call is submitted,    *)
(* sent, perhaps parked while the connection is down and sent again, then  *)
(* settled with one result, which its callback receives.                   *)
(***************************************************************************)
CONSTANT Calls

VARIABLES state, result

callVars == <<state, result>>

States == {"unused", "submitted", "sent", "parked", "settled", "done", "dropped"}

\* How a call can end, by the state it was in.  Only a call that was never
\* sent is rejected, only one on the wire times out waiting for a response,
\* only a parked one times out waiting for a connection.
Results ==
  [unused    |-> {"CONNECTION_UNAVAILABLE", "MESSAGE_TOO_LARGE", "RESOURCE_EXHAUSTED"},
   submitted |-> {"CONNECTION_UNAVAILABLE", "MESSAGE_TOO_LARGE", "RESOURCE_EXHAUSTED"},
   sent      |-> {"RESPONSE", "REQUEST_TIMEOUT", "REQUEST_CANCELED", "CONNECTION_CLOSED"},
   parked    |-> {"RESPONSE", "RECONNECT_TIMEOUT", "REQUEST_CANCELED", "CONNECTION_CLOSED"}]

Init ==
  /\ state = [c \in Calls |-> "unused"]
  /\ result = [c \in Calls |-> "none"]

\* A change of state that settles nothing.
Moves == {<<"unused", "submitted">>, <<"unused", "sent">>, <<"submitted", "sent">>,
          <<"sent", "parked">>, <<"parked", "sent">>, <<"settled", "done">>,
          <<"sent", "dropped">>, <<"parked", "dropped">>}

Move(c) ==
  /\ <<state[c], state'[c]>> \in Moves
  /\ result'[c] = result[c]

\* The one decision about a call; it is final.
Settle(c) ==
  /\ state[c] \in DOMAIN Results
  /\ state'[c] = "settled"
  /\ result'[c] \in Results[state[c]]

\* One step of the client may move several calls: a lost connection does.
Next ==
  \A c \in Calls : \/ Move(c)
                   \/ Settle(c)
                   \/ state'[c] = state[c] /\ result'[c] = result[c]

Spec == Init /\ [][Next]_callVars
=============================================================================
