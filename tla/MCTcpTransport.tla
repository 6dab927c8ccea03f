--------------------------- MODULE MCTcpTransport ---------------------------
(* Two calls and their replies: a race of two threads for the cache, of two   *)
(* servants for a connection, and a connection lost at any moment.           *)
EXTENDS TcpTransport

TwoCalls == {"a", "b"}
Replies  == [c \in TwoCalls |-> IF c = "a" THEN "ra" ELSE "rb"]
=============================================================================
