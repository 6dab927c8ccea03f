----------------------------- MODULE RemoteCall -----------------------------
(***************************************************************************)
(* What a remote call promises to the program that makes it: the servant   *)
(* runs at most once; a call that returns, or raises the servant's error,  *)
(* does so after the servant ran and with what it produced; a call whose   *)
(* request could not be sent never runs.  A call that gave up waiting      *)
(* promises nothing: the servant may have run, may run later, or never.    *)
(***************************************************************************)
CONSTANTS Request

VARIABLES
    call,    \* how the call stands at the caller
    ran      \* what its servant produced: "no", "running", "result" or "error"

vars == <<call, ran>>

Init ==
    /\ call = [r \in Request |-> "idle"]
    /\ ran = [r \in Request |-> "no"]

Begin(r) ==
    /\ call[r] = "idle"
    /\ \E how \in {"waiting", "sendfailed"} : call' = [call EXCEPT ![r] = how]
    /\ UNCHANGED ran

Run(r) ==
    /\ call[r] \notin {"idle", "sendfailed"}
    /\ ran[r] = "no"
    /\ ran' = [ran EXCEPT ![r] = "running"]
    /\ UNCHANGED call

Produce(r) ==
    /\ ran[r] = "running"
    /\ \E k \in {"result", "error"} : ran' = [ran EXCEPT ![r] = k]
    /\ UNCHANGED call

End(r) ==
    /\ call[r] = "waiting"
    /\ \/ /\ ran[r] \in {"result", "error"}
          /\ call' = [call EXCEPT ![r] = ran[r]]
       \/ call' = [call EXCEPT ![r] = "timeout"]
    /\ UNCHANGED ran

Next == \E r \in Request : Begin(r) \/ Run(r) \/ Produce(r) \/ End(r)

Spec == Init /\ [][Next]_vars
=============================================================================
