---------------------------- MODULE RpcEndpoint ----------------------------
(***************************************************************************)
(* Remote calls between processes: base/rpc/rpc_endpoint.dyn.py on top of  *)
(* base/transport/endpoint.dyn.py.  Each process has one reading thread,   *)
(* which hands every message it gets to the endpoint thread pool, and a    *)
(* pool of worker threads that takes them in order.  Requests AND         *)
(* responses are processed by that pool, and the servant of a request may  *)
(* itself call its client back and wait, keeping its worker meanwhile.     *)
(*                                                                         *)
(* RpcFutures has the inside of the response step; here it is one step.    *)
(***************************************************************************)
EXTENDS Naturals, Sequences, FiniteSets

CONSTANTS
    Peer,       \* processes
    Request,    \* the calls made, one thread each, or a worker for nested ones
    Caller,     \* Caller[r], Callee[r]: who makes the call and who serves it
    Callee,
    Parent,     \* Parent[r]: the request whose servant makes the call, or NoRequest
    NoRequest,
    Settings    \* records: untimed, the calls made with timeout_sec=None; workers,
                \* max_workers of the endpoint thread pool (5 in the code); fragile,
                \* the pairs of peers whose connection may be lost

ASSUME EndpointAssumption ==
    /\ Caller \in [Request -> Peer] /\ Callee \in [Request -> Peer]
    /\ \A r \in Request : Caller[r] # Callee[r]
    /\ NoRequest \notin Request /\ Parent \in [Request -> Request \cup {NoRequest}]
    /\ \A r \in Request : Parent[r] # NoRequest => Callee[Parent[r]] = Caller[r]
    /\ Settings \subseteq [untimed : SUBSET Request, workers : Nat \ {0},
                            fragile : SUBSET {{Caller[r], Callee[r]} : r \in Request}]

VARIABLES
    setting,   \* the setting, which does not change
    call,      \* call[r]: "idle", "waiting", or how the call ended
    servant,   \* servant[r]: "no", "running", or what it produced
    wire,      \* wire[p][q]: messages sent by p that q has not read
    queue,     \* queue[p]: messages submitted to the thread pool of p
    lost,      \* pairs of peers whose connection is gone
    failed     \* peers that called system_failed

vars == <<setting, call, servant, wire, queue, lost, failed>>

Reply   == {"result", "error"}
Message == [kind : {"request"} \cup Reply, id : Request]

TypeOK ==
    /\ setting \in Settings
    /\ call \in [Request -> {"idle", "waiting", "timeout", "sendfailed"} \cup Reply]
    /\ servant \in [Request -> {"no", "running"} \cup Reply]
    /\ wire \in [Peer -> [Peer -> Seq(Message)]]
    /\ queue \in [Peer -> Seq(Message)]
    /\ lost \subseteq setting.fragile
    /\ failed \subseteq Peer

Init ==
    /\ setting \in Settings
    /\ call = [r \in Request |-> "idle"]
    /\ servant = [r \in Request |-> "no"]
    /\ wire = [p \in Peer |-> [q \in Peer |-> <<>>]]
    /\ queue = [p \in Peer |-> <<>>]
    /\ lost = {}
    /\ failed = {}

Connected(r) == {Caller[r], Callee[r]} \notin lost

\* The nested calls that the servant of r waits for.
Waiting(r) == {n \in Request : Parent[n] = r /\ call[n] = "waiting"}

\* A worker serves one request until its response is sent.
Busy(p) == {r \in Request : Callee[r] = p /\ servant[r] = "running"}

\* The mutated form loses one worker to the reading thread.
FewerWorkers(p) == Cardinality(Busy(p)) + 1 < setting.workers
FreeWorker(p) == Cardinality(Busy(p)) < setting.workers

Ready(r) ==
    /\ call[r] = "idle"
    /\ Parent[r] # NoRequest => servant[Parent[r]] = "running" /\ Waiting(Parent[r]) = {}

\* rpc_submit_target_factory and rpc_wait_for_future: the request is sent, or
\* transport.send raises in the calling thread.
Call(r) ==
    /\ Ready(r)
    /\ Connected(r)
    /\ call' = [call EXCEPT ![r] = "waiting"]
    /\ wire' = [wire EXCEPT ![Caller[r]][Callee[r]] = Append(@, [kind |-> "request", id |-> r])]
    /\ UNCHANGED <<setting, servant, queue, lost, failed>>

CallFails(r) ==
    /\ Ready(r)
    /\ ~Connected(r)
    /\ call' = [call EXCEPT ![r] = "sendfailed"]
    /\ UNCHANGED <<setting, servant, wire, queue, lost, failed>>

\* future.result(timeout_sec) gives up; the thread, or the worker of the
\* enclosing request, goes on.
TimeOut(r) ==
    /\ call[r] = "waiting"
    /\ r \notin setting.untimed
    /\ call' = [call EXCEPT ![r] = "timeout"]
    /\ UNCHANGED <<setting, servant, wire, queue, lost, failed>>

\* The reading thread of q: LocalRoute.send registers the bundle and submits
\* _process_endpoint to the pool.  The mutated form submits it twice.
DeliverTwice(p, q) ==
    /\ wire[p][q] # <<>>
    /\ queue' = [queue EXCEPT ![q] = @ \o <<Head(wire[p][q]), Head(wire[p][q])>>]
    /\ wire' = [wire EXCEPT ![p][q] = Tail(@)]
    /\ UNCHANGED <<setting, call, servant, lost, failed>>
Deliver(p, q) ==
    /\ wire[p][q] # <<>>
    /\ queue' = [queue EXCEPT ![q] = Append(@, Head(wire[p][q]))]
    /\ wire' = [wire EXCEPT ![p][q] = Tail(@)]
    /\ UNCHANGED <<setting, call, servant, lost, failed>>

\* A free worker takes a request: on_rpc_request up to the call of the servant.
StartRequest(p) ==
    /\ FreeWorker(p)
    /\ queue[p] # <<>>
    /\ LET m == Head(queue[p]) IN
        /\ m.kind = "request"
        /\ servant' = [servant EXCEPT ![m.id] = "running"]
    /\ queue' = [queue EXCEPT ![p] = Tail(@)]
    /\ UNCHANGED <<setting, call, wire, lost, failed>>

\* The servant returns or raises: result -> response, exception -> error_response.
\* It waits for no nested call then.
Respond(r, k) ==
    /\ servant[r] = "running"
    /\ Waiting(r) = {}
    /\ Connected(r)
    /\ servant' = [servant EXCEPT ![r] = k]
    /\ wire' = [wire EXCEPT ![Callee[r]][Caller[r]] = Append(@, [kind |-> k, id |-> r])]
    /\ UNCHANGED <<setting, call, queue, lost, failed>>

\* The mutated form reports every response as a failure.
RespondAndFail(r, k) ==
    /\ servant[r] = "running"
    /\ Waiting(r) = {}
    /\ servant' = [servant EXCEPT ![r] = k]
    /\ failed' = failed \cup {Callee[r]}
    /\ UNCHANGED <<setting, call, wire, queue, lost>>

\* transport.send of the response raises: it stands outside the try block, so
\* _process_endpoint of LocalRoute reports system_failed.
RespondFails(r, k) ==
    /\ servant[r] = "running"
    /\ Waiting(r) = {}
    /\ ~Connected(r)
    /\ servant' = [servant EXCEPT ![r] = k]
    /\ failed' = failed \cup {Callee[r]}
    /\ UNCHANGED <<setting, call, wire, queue, lost>>

\* A free worker takes a response: on_rpc_response, on_rpc_error_response.  The
\* future of a call that has timed out is still registered, and is completed in vain.
\* Mutated form: the response completes a future that has timed out.
OnLateResponse(p) ==
    /\ FreeWorker(p)
    /\ queue[p] # <<>>
    /\ LET m == Head(queue[p]) IN
        /\ m.kind # "request"
        /\ call' = [call EXCEPT ![m.id] = m.kind]
    /\ queue' = [queue EXCEPT ![p] = Tail(@)]
    /\ UNCHANGED <<setting, servant, wire, lost, failed>>
OnResponse(p) ==
    /\ FreeWorker(p)
    /\ queue[p] # <<>>
    /\ LET m == Head(queue[p]) IN
        /\ m.kind # "request"
        /\ call' = [call EXCEPT ![m.id] = IF @ = "waiting" THEN m.kind ELSE @]
    /\ queue' = [queue EXCEPT ![p] = Tail(@)]
    /\ UNCHANGED <<setting, servant, wire, lost, failed>>

\* A connection closes; what was not read yet is lost.
LoseConnection(p, q) ==
    /\ {p, q} \in setting.fragile \ lost
    /\ lost' = lost \cup {{p, q}}
    /\ wire' = [wire EXCEPT ![p][q] = <<>>, ![q][p] = <<>>]
    /\ UNCHANGED <<setting, call, servant, queue, failed>>

Next ==
    \/ \E r \in Request :
        \/ Call(r) \/ CallFails(r) \/ TimeOut(r)
        \/ \E k \in Reply : Respond(r, k) \/ RespondFails(r, k)
    \/ \E p \in Peer : StartRequest(p) \/ OnResponse(p)
    \/ \E p, q \in Peer : Deliver(p, q) \/ LoseConnection(p, q)

\* The threads run and servants return once their nested calls have ended.  A
\* servant need not make the nested calls it might make.
Fairness ==
    /\ \A r \in Request :
        /\ WF_vars(TimeOut(r))
        /\ WF_vars(\E k \in Reply : Respond(r, k) \/ RespondFails(r, k))
    /\ \A p \in Peer : WF_vars(StartRequest(p)) /\ WF_vars(OnResponse(p))
    /\ \A p, q \in Peer : WF_vars(Deliver(p, q))

Spec     == Init /\ [][Next]_vars
FairSpec == Spec /\ Fairness

-----------------------------------------------------------------------------
\* Calls keep the promise of RemoteCall: at most once, and the servant's own
\* outcome, with any number of peers, nested calls and lost connections.
Promise == INSTANCE RemoteCall WITH ran <- servant
KeepsPromise == Promise!Spec

\* A process is brought down only by a client that left before its response:
\* system_failed is called at a peer that served a request over a lost connection.
FailedOnlyByLoss ==
    \A p \in failed : \E r \in Request :
        /\ Callee[r] = p /\ ~Connected(r)
        /\ servant[r] \in Reply
        /\ call[r] \notin Reply

\* The messages of call r that are on a wire or wait for a worker.
Messages(r) ==
    LET Count(seq) == Cardinality({i \in DOMAIN seq : seq[i].id = r})
    IN  Count(wire[Caller[r]][Callee[r]]) + Count(wire[Callee[r]][Caller[r]])
        + Count(queue[Caller[r]]) + Count(queue[Callee[r]])

\* Nothing is lost or doubled: while its connection stands, a call that is waited
\* for is in exactly one place, as a message or in a servant; any call is in at
\* most one, also after its caller gave up.
InOnePlace ==
    /\ TypeOK
    /\ \A r \in Request :
        LET places == Messages(r) + IF servant[r] = "running" THEN 1 ELSE 0 IN
        /\ places <= 1
        /\ call[r] = "waiting" /\ Connected(r) => places = 1

\* A request handed to the pool is served in the end, though every worker may be
\* blocked by a callback whose response is behind it in the queue: the timeout of
\* the callback frees the worker.
RequestServed ==
    \A r \in Request :
        (\E i \in DOMAIN queue[Callee[r]] : queue[Callee[r]][i] = [kind |-> "request", id |-> r])
            ~> servant[r] # "no"

\* More workers at each peer than servants that call back, and no lost connections.
Roomy ==
    /\ setting.fragile = {}
    /\ \A p \in Peer :
        Cardinality({Parent[n] : n \in {m \in Request : Caller[m] = p}} \ {NoRequest}) < setting.workers

\* With room in its pools every call is answered though it has no timeout: workers
\* that wait in servants do not starve the responses that they wait for.
CallAnswered ==
    \A r \in Request : Roomy /\ r \in setting.untimed /\ call[r] = "waiting" ~> call[r] \in Reply

\* Requests are served and calls with room are answered: the two above.
EachIsServed == RequestServed /\ CallAnswered
=============================================================================
