---------------------------- MODULE MCRpcFutures ----------------------------
(* Two concurrent calls of a subprocess, one of them without a timeout, and   *)
(* both cancelling loops: a response is processed while a loop is between two *)
(* futures and another call registers.                                        *)
EXTENDS RpcFutures
CONSTANTS c1, c2
TwoCalls   == {c1, c2}
OneUntimed == {c1}
StopClose  == {"stop", "close"}
=============================================================================
