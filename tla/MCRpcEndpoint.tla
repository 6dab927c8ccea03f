---------------------------- MODULE MCRpcEndpoint ----------------------------
(* Two clients and a server.  The servants of "a" and "b" may call the client *)
(* back ("m", "n").                                                          *)
EXTENDS RpcEndpoint

Four  == {"a", "m", "b", "n"}

Server == "server"
ClientOf(r) == IF r \in {"b", "n"} THEN "right" ELSE "left"
Nested == {"m", "n"}

MCCaller(R) == [r \in R |-> IF r \in Nested THEN Server ELSE ClientOf(r)]
MCCallee(R) == [r \in R |-> IF r \in Nested THEN ClientOf(r) ELSE Server]
MCParent(R) == [r \in R |-> CASE r = "m" -> "a" [] r = "n" -> "b" [] OTHER -> "none"]

CallerFour == MCCaller(Four)
CalleeFour == MCCallee(Four)
ParentFour == MCParent(Four)

AllPeers  == {"left", "right", "server"}

\* A connection that may be lost, with timeouts, a pool of two workers and of one; no
\* timeouts, and one worker more than there are servants that wait.
Lossy(n) == [workers |-> n, untimed |-> {}, fragile |-> {{"left", "server"}}]
Patient  == [workers |-> 3, untimed |-> Four, fragile |-> {}]
LossyAndPatient == {Lossy(2), Lossy(1), Patient}
=============================================================================
