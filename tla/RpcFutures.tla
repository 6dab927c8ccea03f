----------------------------- MODULE RpcFutures -----------------------------
(***************************************************************************)
(* The registry of pending remote calls of ONE process:                    *)
(* base/rpc/rpc_call.dyn.py (the calling threads) and the response half of *)
(* base/rpc/rpc_endpoint.dyn.py (the endpoint pool workers, and the two    *)
(* places that cancel every pending call).                                 *)
(*                                                                         *)
(* A call registers its Future in the dict rpc_request_futures, sends the  *)
(* request and waits.  A worker that gets the response pops the Future     *)
(* from the dict and then completes it: two steps, and no lock is held     *)
(* over them.  "stop" (the connection to the master process is closed) and *)
(* "close" (the finalizer run by System.close) iterate over the same dict  *)
(* from other threads, cancelling; "stop" then clears it.                  *)
(*                                                                         *)
(* Each member of Call is one call, its uuid and the thread that makes it. *)
(***************************************************************************)
EXTENDS Naturals, FiniteSets

CONSTANTS
    Call,       \* request ids; one thread each
    Untimed,    \* calls made with timeout_sec=None
    Stopper     \* the cancelling loops: only a subprocess has the "stop" one

ASSUME CallAssumption == IsFiniteSet(Call) /\ Untimed \subseteq Call
ASSUME StopperAssumption == Stopper \subseteq {"stop", "close"}

Reply   == {"result", "error"}
Ended   == {"result", "error", "cancelled", "timeout", "sendfailed"}

VARIABLES
    thread,      \* thread[c]: the position of the calling thread, or how its call ended
    future,      \* future[c]: state of the concurrent.futures.Future
    registered,  \* keys of rpc_request_futures
    reply,       \* reply[c]: the response the remote side has sent, or "none"
    inbox,       \* calls whose response waits for an endpoint pool worker
    popped,      \* calls whose future a worker has popped and not yet completed
    phase,       \* phase[s]: progress of the cancelling loop s
    visited,     \* visited[s]: futures the loop s has cancelled
    size,        \* size[s]: length of the dict when the loop s started
    failures     \* reasons given to system_failed or raised by System.close

callVars   == <<thread, future>>
answerVars == <<reply, inbox, popped>>
stopVars   == <<phase, visited, size>>
vars == <<callVars, registered, answerVars, stopVars, failures>>

TypeOK ==
    /\ thread \in [Call -> {"idle", "registered", "waiting"} \cup Ended]
    /\ future \in [Call -> {"none", "pending", "cancelled"} \cup Reply]
    /\ registered \subseteq Call
    /\ reply \in [Call -> {"none"} \cup Reply]
    /\ inbox \subseteq Call
    /\ popped \subseteq Call
    /\ phase \in [Stopper -> {"idle", "iterating", "clearing", "done", "failed"}]
    /\ visited \in [Stopper -> SUBSET Call]
    /\ size \in [Stopper -> Nat]
    /\ failures \subseteq {"KeyError", "InvalidState", "DictChanged", "UnknownRef"}

Init ==
    /\ thread = [c \in Call |-> "idle"]
    /\ future = [c \in Call |-> "none"]
    /\ registered = {}
    /\ reply = [c \in Call |-> "none"]
    /\ inbox = {}
    /\ popped = {}
    /\ phase = [s \in Stopper |-> "idle"]
    /\ visited = [s \in Stopper |-> {}]
    /\ size = [s \in Stopper |-> 0]
    /\ failures = {}

-----------------------------------------------------------------------------
(* The calling threads. *)

\* Up to rpc_request_futures[request_id] = future.  The mutated form sends the
\* request of a future it has not registered.
RegisterLate(c) ==
    /\ thread[c] = "idle"
    /\ thread' = [thread EXCEPT ![c] = "waiting"]
    /\ future' = [future EXCEPT ![c] = "pending"]
    /\ UNCHANGED <<registered, answerVars, stopVars, failures>>
Register(c) ==
    /\ thread[c] = "idle"
    /\ thread' = [thread EXCEPT ![c] = "registered"]
    /\ future' = [future EXCEPT ![c] = "pending"]
    /\ registered' = registered \cup {c}
    /\ UNCHANGED <<answerVars, stopVars, failures>>

\* transport.send succeeds; the thread goes on to future.result(timeout_sec).
SendRequest(c) ==
    /\ thread[c] = "registered"
    /\ thread' = [thread EXCEPT ![c] = "waiting"]
    /\ UNCHANGED <<future, registered, answerVars, stopVars, failures>>

\* transport.send raises; nothing removes the future from the dict.
SendFails(c) ==
    /\ thread[c] = "registered"
    /\ thread' = [thread EXCEPT ![c] = "sendfailed"]
    /\ UNCHANGED <<future, registered, answerVars, stopVars, failures>>

\* future.result returns, or raises what the future was completed with.
Return(c) ==
    /\ thread[c] = "waiting"
    /\ future[c] \in Reply \cup {"cancelled"}
    /\ thread' = [thread EXCEPT ![c] = future[c]]
    /\ UNCHANGED <<future, registered, answerVars, stopVars, failures>>

\* future.result raises TimeoutError; the future stays in the dict.  Mutated
\* form: a timeout that reports the error of a reply.
TimeOutAsError(c) ==
    /\ thread[c] = "waiting"
    /\ c \notin Untimed
    /\ future[c] = "pending"
    /\ thread' = [thread EXCEPT ![c] = "error"]
    /\ UNCHANGED <<future, registered, answerVars, stopVars, failures>>
TimeOut(c) ==
    /\ thread[c] = "waiting"
    /\ c \notin Untimed
    /\ future[c] = "pending"
    /\ thread' = [thread EXCEPT ![c] = "timeout"]
    /\ UNCHANGED <<future, registered, answerVars, stopVars, failures>>

-----------------------------------------------------------------------------
(* The remote side, and the workers that process its responses. *)

\* The remote side answers a request it got, once (on_rpc_request sends one
\* response per request), whether or not anybody still waits for it.
Answer(c, k) ==
    /\ thread[c] \notin {"idle", "registered", "sendfailed"}
    /\ reply[c] = "none"
    /\ reply' = [reply EXCEPT ![c] = k]
    /\ inbox' = inbox \cup {c}
    /\ UNCHANGED <<callVars, registered, popped, stopVars, failures>>

\* rpc_request_futures.pop(response.request_id) of on_rpc_response and
\* on_rpc_error_response; a KeyError ends in system_failed.  The mutated form
\* looks the future up without removing it.
GetFuture(c) ==
    /\ c \in inbox
    /\ inbox' = inbox \ {c}
    /\ popped' = IF c \in registered THEN popped \cup {c} ELSE popped
    /\ failures' = IF c \in registered THEN failures ELSE failures \cup {"KeyError"}
    /\ UNCHANGED <<callVars, reply, registered, stopVars>>
PopFuture(c) ==
    /\ c \in inbox
    /\ inbox' = inbox \ {c}
    /\ registered' = registered \ {c}
    /\ popped' = IF c \in registered THEN popped \cup {c} ELSE popped
    /\ failures' = IF c \in registered THEN failures ELSE failures \cup {"KeyError"}
    /\ UNCHANGED <<callVars, reply, stopVars>>

\* mosaic.resolve_ref fails before the pop: the result was not in the bundle.
ResolveFails(c) ==
    /\ c \in inbox
    /\ inbox' = inbox \ {c}
    /\ failures' = failures \cup {"UnknownRef"}
    /\ UNCHANGED <<callVars, registered, reply, popped, stopVars>>

\* future.set_result or set_exception; InvalidStateError if it was cancelled.
CompleteFuture(c) ==
    /\ c \in popped
    /\ popped' = popped \ {c}
    /\ \/ /\ future[c] = "pending"
          /\ future' = [future EXCEPT ![c] = reply[c]]
          /\ UNCHANGED failures
       \/ /\ future[c] # "pending"
          /\ failures' = failures \cup {"InvalidState"}
          /\ UNCHANGED future
    /\ UNCHANGED <<thread, registered, reply, inbox, stopVars>>

-----------------------------------------------------------------------------
(* The cancelling loops.  Python checks the length of the dict at every     *)
(* step of an iteration over it, and that it yields no more items than the  *)
(* dict had at the start.                                                   *)

BeginCancel(s) ==
    /\ phase[s] = "idle"
    /\ phase' = [phase EXCEPT ![s] = "iterating"]
    /\ size' = [size EXCEPT ![s] = Cardinality(registered)]
    /\ UNCHANGED <<callVars, registered, answerVars, visited, failures>>

DictChanged(s) ==
    \/ Cardinality(registered) # size[s]
    \/ Cardinality(visited[s]) = size[s] /\ registered \ visited[s] # {}

\* A mutated form: the loop skips the futures it meets.
SkipNext(s) ==
    /\ phase[s] = "iterating"
    /\ ~DictChanged(s)
    /\ \E c \in registered \ visited[s] :
        visited' = [visited EXCEPT ![s] = @ \cup {c}]
    /\ UNCHANGED <<callVars, registered, answerVars, phase, size, failures>>

\* future.cancel() on the next future; it has no effect on a completed one.
CancelNext(s) ==
    /\ phase[s] = "iterating"
    /\ ~DictChanged(s)
    /\ \E c \in registered \ visited[s] :
        /\ visited' = [visited EXCEPT ![s] = @ \cup {c}]
        /\ future' = [future EXCEPT ![c] = IF @ = "pending" THEN "cancelled" ELSE @]
    /\ UNCHANGED <<thread, registered, answerVars, phase, size, failures>>

\* RuntimeError "dictionary changed size during iteration" (or "keys changed").
IterationFails(s) ==
    /\ phase[s] = "iterating"
    /\ DictChanged(s)
    /\ phase' = [phase EXCEPT ![s] = "failed"]
    /\ failures' = failures \cup {"DictChanged"}
    /\ UNCHANGED <<callVars, registered, answerVars, visited, size>>

EndIteration(s) ==
    /\ phase[s] = "iterating"
    /\ ~DictChanged(s)
    /\ registered \subseteq visited[s]
    /\ phase' = [phase EXCEPT ![s] = IF s = "stop" THEN "clearing" ELSE "done"]
    /\ UNCHANGED <<callVars, registered, answerVars, visited, size, failures>>

\* rpc_request_futures.clear()
Clear(s) ==
    /\ phase[s] = "clearing"
    /\ phase' = [phase EXCEPT ![s] = "done"]
    /\ registered' = {}
    /\ UNCHANGED <<callVars, answerVars, visited, size, failures>>

CancelStep(s) == CancelNext(s) \/ IterationFails(s) \/ EndIteration(s)

Next ==
    \/ \E c \in Call :
        \/ Register(c) \/ SendRequest(c) \/ SendFails(c)
        \/ Return(c) \/ TimeOut(c)
        \/ \E k \in Reply : Answer(c, k)
        \/ PopFuture(c) \/ ResolveFails(c) \/ CompleteFuture(c)
    \/ \E s \in Stopper : BeginCancel(s) \/ CancelStep(s) \/ Clear(s)

\* Threads that can run do run.  Nothing obliges a program to make a call, a
\* remote side to answer, or a process to stop.
Fairness ==
    /\ \A c \in Call :
        /\ WF_vars(SendRequest(c) \/ SendFails(c))
        /\ WF_vars(Return(c))
        /\ WF_vars(TimeOut(c))
        /\ WF_vars(PopFuture(c) \/ ResolveFails(c))
        /\ WF_vars(CompleteFuture(c))
    /\ \A s \in Stopper : WF_vars(CancelStep(s)) /\ WF_vars(Clear(s))

Spec     == Init /\ [][Next]_vars
FairSpec == Spec /\ Fairness

-----------------------------------------------------------------------------
(* Safety *)

Stopping == \E s \in Stopper : phase[s] # "idle"
Cleared  == \E s \in Stopper \ {"close"} : phase[s] = "done"

\* Responses alone never bring the process down: a worker misses a future only
\* after the dict was cleared, completes a cancelled one only while or after a
\* cancelling loop, and only those loops trip over a changing dict.
FailureOnlyWhenStopping ==
    /\ "KeyError" \in failures => Cleared
    /\ "InvalidState" \in failures => Stopping
    /\ "DictChanged" \in failures => Stopping

\* The dict holds only calls that still may be answered: a future leaves it
\* before it is completed, so a completed one is never cancelled or popped twice.
RegisteredIsOpen ==
    \A c \in registered :
        /\ future[c] \in {"pending", "cancelled"}
        /\ c \notin popped
        /\ future[c] = "cancelled" => Stopping

\* A call that returns a result, or raises the error of the remote side,
\* returns what the response to that very request said.
OutcomeIsReply ==
    \A c \in Call : thread[c] \in Reply => thread[c] = reply[c]

\* A call ends with CancelledError only in a process that is being stopped, and
\* never after a worker has completed it.
CancelledOnlyWhenStopping ==
    \A c \in Call : thread[c] = "cancelled" => Stopping /\ c \in UNION {visited[s] : s \in Stopper}

\* The strengthening that makes the four invariants inductive: a sent call stays
\* in the dict until a worker takes its response or the dict is cleared; what a
\* worker holds is open; a cancelled future was met by a loop that has started.
CallInv(c) ==
    /\ reply[c] # "none" => thread[c] \notin {"idle", "registered", "sendfailed"}
    /\ c \in inbox \cup popped => reply[c] # "none"
    /\ ~(c \in inbox /\ c \in popped)
    /\ c \in registered => thread[c] # "idle"
    /\ (thread[c] # "idle" /\ (reply[c] = "none" \/ c \in inbox) /\ ~Cleared) => c \in registered
    /\ c \in popped => future[c] \in {"pending", "cancelled"}
    /\ future[c] \in Reply => future[c] = reply[c]
    /\ future[c] = "cancelled" \/ thread[c] = "cancelled" => \E s \in Stopper : c \in visited[s]

StopperInv(s) ==
    /\ visited[s] # {} => phase[s] # "idle"
    /\ phase[s] = "clearing" => s # "close"

IInv ==
    /\ TypeOK
    /\ \A c \in Call : CallInv(c)
    /\ \A s \in Stopper : StopperInv(s)
    /\ FailureOnlyWhenStopping
    /\ RegisteredIsOpen
    /\ OutcomeIsReply
    /\ CancelledOnlyWhenStopping

(* Liveness *)

\* A response that reaches the process releases the thread that waits for it,
\* or brings the process down: no call hangs with its response processed.
AnswerReleases == \A c \in Call : c \in inbox ~> (thread[c] \in Ended \/ failures # {})

\* A subprocess whose master goes away releases every call registered before the
\* loop ends, timed or not, or goes down with an error.  (A call registered
\* between the end of the loop and clear() is covered by neither: untimed, it hangs.)
StopReleases ==
    \A c \in Call, s \in Stopper \ {"close"} :
        (phase[s] = "iterating" /\ c \in registered) ~> (thread[c] \in Ended \/ failures # {})

\* Nobody waits for ever: the two above.
CallsAreReleased == AnswerReleases /\ StopReleases
=============================================================================
