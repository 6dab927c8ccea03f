------------------------- MODULE MCSubprocessServer -------------------------
(* Two subprocesses, of which one makes a call and one may end by itself. *)
EXTENDS SubprocessServer

CONSTANTS s1, s2

MCSubprocess == {s1, s2}
MCCallers == {s1}
=============================================================================
