-------------------------- MODULE SubprocessServer --------------------------
(***************************************************************************)
(* RPC servers in subprocesses, as the master sees them: the context       *)
(* managers that start one, wait for its callback and leave it, the thread *)
(* that reads the connections of all of them, the workers that handle what *)
(* it read, and the children.                                              *)
(*                                                                         *)
(* What a thread does in one go is one step where another thread, coming   *)
(* in between, could bring nothing about that it cannot bring about before *)
(* or after.  The loop of the server thread is taken apart where it can: it *)
(* lists the connections, takes their handles, polls them, and looks each  *)
(* ready one up twice.                                                     *)
(*                                                                         *)
(* A connection that is closed while the server thread polls it stays alive in the      *)
(* kernel until poll returns: only then does the other side see its end.   *)
(***************************************************************************)
EXTENDS Naturals, Sequences, FiniteSets, SequencesExt, Functions

CONSTANTS
    Subprocess, \* subprocesses started, each by a thread of its own
    Callers,    \* bound: the ones whose thread makes a call
    Signal,     \* the signal connection of the server thread
    MaxDeaths   \* bound: children that end by themselves

ASSUME SubprocessAssumption ==
    /\ IsFiniteSet(Subprocess)
    /\ Callers \subseteq Subprocess
    /\ Signal \notin Subprocess
    /\ MaxDeaths \in Nat

VARIABLES
    user,       \* where the thread of a subprocess is
    child,      \* what the child does
    inbox,      \* sent by the child and not read: "callback", "answer"
    requests,   \* subprocesses that have a request they have not answered
    open,       \* subprocesses whose connection the master has open
    conns,      \* _server_connections, in order
    signals,    \* what is unread in the signal connection
    server,     \* the server thread: where it is, what it waits for, what is ready
    task,       \* the callback of a subprocess, as a worker handles it
    peers,      \* _subprocess_peer
    events,     \* _callback_signals that are set
    failed,     \* subprocesses whose response failed in a worker: system_failed
    stopping,   \* _is_stopping
    deaths

vars == <<user, child, inbox, requests, open, conns, signals, server, task,
          peers, events, failed, stopping, deaths>>

userVars  == <<user, open, requests>>
childVars == <<child, inbox, deaths>>
threadVars  == <<task, peers, events, failed>>

Left == {"remove", "joining", "done"}

Init ==
    /\ user = [s \in Subprocess |-> "idle"]
    /\ child = [s \in Subprocess |-> "none"]
    /\ inbox = [s \in Subprocess |-> <<>>]
    /\ requests = {}
    /\ open = {}
    /\ conns = <<>>
    /\ signals = 0
    /\ server = [at |-> "list", list |-> <<>>, ready |-> <<>>]
    /\ task = [s \in Subprocess |-> "none"]
    /\ peers = {} /\ events = {} /\ failed = {}
    /\ stopping = FALSE
    /\ deaths = 0

TypeOK ==
    /\ user \in [Subprocess -> {"idle", "waiting", "running", "calling", "closing"} \cup Left]
    /\ child \in [Subprocess -> {"none", "starting", "called", "ended"}]
    /\ inbox \in [Subprocess -> Seq({"callback", "answer"})]
    /\ requests \cup open \cup peers \cup events \cup failed \subseteq Subprocess
    /\ conns \in Seq(Subprocess) /\ IsInjective(conns)
    /\ signals \in Nat
    /\ server \in [at : {"list", "register", "registered", "polling", "ready", "lookup",
                         "finished", "failed"},
                   list : Seq(Subprocess), ready : Seq(Subprocess \cup {Signal})]
    /\ task \in [Subprocess -> {"none", "queued", "stored", "called", "done"}]
    /\ stopping \in BOOLEAN
    /\ deaths \in 0 .. MaxDeaths

-----------------------------------------------------------------------------
(* The context managers *)

Goes(s, from, to) == user[s] = from /\ user' = [user EXCEPT ![s] = to]

\* The connections but that of s: a key is in a dict once.
Without(seq, s) ==
    IF s \in Range(seq) THEN RemoveAt(seq, CHOOSE i \in DOMAIN seq : seq[i] = s) ELSE seq

Wake == signals' = signals + 1

\* subprocess_running: a pipe and a process; add_server_connection puts the
\* connection in the dict and wakes the server thread up.
Add(s) ==
    /\ ~stopping
    /\ Goes(s, "idle", "waiting")
    /\ child' = [child EXCEPT ![s] = "starting"]
    /\ open' = open \cup {s}
    /\ conns' = Append(conns, s)
    /\ UNCHANGED <<inbox, requests, server, threadVars, stopping, deaths>>

\* Mutated form: the server thread is not told.
StartQuietly(s) ==
    /\ Add(s)
    /\ signals' = signals

Start(s) ==
    /\ Add(s)
    /\ Wake

\* event.wait: the subprocess called back, or has not for start_timeout_sec.
Started(s) ==
    /\ s \in events
    /\ Goes(s, "waiting", "running")
    /\ UNCHANGED <<childVars, requests, open, conns, signals, server, threadVars, stopping>>

StartTimesOut(s) ==
    /\ s \notin events
    /\ Goes(s, "waiting", "closing")
    /\ UNCHANGED <<childVars, requests, open, conns, signals, server, threadVars, stopping>>

\* rpc_call: a request.  The master keeps its copy of the child's end while the context
\* is entered (child_connection and subprocess_args, in the frame of the context
\* manager), so that a send to a child that has ended goes into the buffer.
Call(s) ==
    /\ s \in Callers
    /\ Goes(s, "running", "calling")
    /\ requests' = requests \cup {s}
    /\ UNCHANGED <<childVars, open, conns, signals, server, threadVars, stopping>>

\* The body of the context ends: it made no call, or its call was answered or
\* timed out.
Leave(s) ==
    /\ Goes(s, "running", "closing") \/ Goes(s, "calling", "closing")
    /\ UNCHANGED <<childVars, requests, open, conns, signals, server, threadVars, stopping>>

\* ConnectionRec.close and server_connection_closed.
Close(s) ==
    /\ Goes(s, "closing", "remove")
    /\ open' = open \ {s}
    /\ UNCHANGED <<childVars, requests, conns, signals, server, threadVars, stopping>>

\* Mutated form: the server thread is not told.
RemoveQuietly(s) ==
    /\ Goes(s, "remove", "joining")
    /\ conns' = Without(conns, s)
    /\ UNCHANGED <<childVars, requests, open, signals, server, threadVars, stopping>>

RemoveClosed(s) ==
    /\ Goes(s, "remove", "joining")
    /\ conns' = Without(conns, s)
    /\ IF s \in Range(conns) THEN Wake ELSE signals' = signals
    /\ UNCHANGED <<childVars, requests, open, server, threadVars, stopping>>

\* process.join
Join(s) ==
    /\ child[s] = "ended"
    /\ Goes(s, "joining", "done")
    /\ UNCHANGED <<childVars, requests, open, conns, signals, server, threadVars, stopping>>

-----------------------------------------------------------------------------
(* The children *)

\* The other end of the connection of s is gone.
Eof(s) == s \notin open /\ ~(server.at = "polling" /\ s \in Range(server.list))

\* rpc_server_main: the callback, sent when the child is ready for requests.
CallBack(s) ==
    /\ child[s] = "starting"
    /\ ~Eof(s)
    /\ child' = [child EXCEPT ![s] = "called"]
    /\ inbox' = [inbox EXCEPT ![s] = Append(@, "callback")]
    /\ UNCHANGED <<userVars, conns, signals, server, threadVars, stopping, deaths>>

\* Requests are served by workers, also before the callback has returned.
Answer(s) ==
    /\ child[s] = "called"
    /\ s \in requests
    /\ ~Eof(s)
    /\ requests' = requests \ {s}
    /\ inbox' = [inbox EXCEPT ![s] = Append(@, "answer")]
    /\ UNCHANGED <<user, open, child, conns, signals, server, threadVars, stopping, deaths>>

\* _stop, or a send that fails, when the master's end is closed.
End(s) ==
    /\ child[s] \in {"starting", "called"}
    /\ Eof(s)
    /\ child' = [child EXCEPT ![s] = "ended"]
    /\ UNCHANGED <<userVars, inbox, conns, signals, server, threadVars, stopping, deaths>>

\* It fails to start, or crashes.
Die(s) ==
    /\ child[s] \in {"starting", "called"}
    /\ deaths < MaxDeaths
    /\ deaths' = deaths + 1
    /\ child' = [child EXCEPT ![s] = "ended"]
    /\ UNCHANGED <<userVars, inbox, conns, signals, server, threadVars, stopping>>

-----------------------------------------------------------------------------
(* The workers: _rpc_subprocess_callback and the response to it *)

StorePeer(s) ==
    /\ task[s] = "queued"
    /\ task' = [task EXCEPT ![s] = "stored"]
    /\ peers' = peers \cup {s}
    /\ UNCHANGED <<userVars, childVars, conns, signals, server, events, failed, stopping>>

SetEvent(s) ==
    /\ task[s] = "stored"
    /\ task' = [task EXCEPT ![s] = "called"]
    /\ events' = events \cup {s}
    /\ UNCHANGED <<userVars, childVars, conns, signals, server, peers, failed, stopping>>

\* SubprocessRoute.send raises when the connection is closed: system_failed.
Respond(s) ==
    /\ task[s] = "called"
    /\ task' = [task EXCEPT ![s] = "done"]
    /\ failed' = IF s \in open THEN failed ELSE failed \cup {s}
    /\ UNCHANGED <<userVars, childVars, conns, signals, server, peers, events, stopping>>

-----------------------------------------------------------------------------
(* The server thread *)

At(place) == server.at = place

To(place) == server' = [server EXCEPT !.at = place]

\* The next of the ready connections.
NextReady == LET rest == Tail(server.ready)
         IN  server' = [server EXCEPT !.at = IF rest = <<>> THEN "list" ELSE "ready", !.ready = rest]

\* The head of the loop: the connections to wait for.
ListConnections ==
    /\ At("list")
    /\ server' = IF stopping THEN [server EXCEPT !.at = "finished"]
                 ELSE [server EXCEPT !.at = "register", !.list = conns]
    /\ UNCHANGED <<userVars, childVars, conns, signals, threadVars, stopping>>

\* wait() takes the handles of the connections; a closed one raises OSError.
Register ==
    /\ At("register")
    /\ To(IF Range(server.list) \subseteq open THEN "registered" ELSE "failed")
    /\ UNCHANGED <<userVars, childVars, conns, signals, threadVars, stopping>>

\* A child that has ended does not make its connection ready: its end is open in the
\* master as well.
Readable(s) == inbox[s] # <<>>

\* What wait() finds ready, the connections in closed among it.
ReadyOnes(closed) ==
    closed \cup {s \in Range(server.list) : Readable(s)}
           \cup {c \in {Signal} : signals > 0}

\* It returns them in the order it was given: the signal connection comes first.
Place(c) == IF c = Signal THEN 0 ELSE CHOOSE i \in DOMAIN server.list : server.list[i] = c

Returns(ones) ==
    \E ready \in SetToSeqs(ones) :
        /\ \A i, j \in DOMAIN ready : i < j => Place(ready[i]) < Place(ready[j])
        /\ server' = [at |-> "ready", list |-> <<>>, ready |-> ready]

\* poll: a handle that is closed by now is ready at once; one closed later is
\* not.
EnterPoll ==
    /\ At("registered")
    /\ LET closed == Range(server.list) \ open
       IN  IF closed = {} THEN To("polling") ELSE Returns(ReadyOnes(closed))
    /\ UNCHANGED <<userVars, childVars, conns, signals, threadVars, stopping>>

Poll ==
    /\ At("polling")
    /\ ReadyOnes({}) # {}
    /\ Returns(ReadyOnes({}))
    /\ UNCHANGED <<userVars, childVars, conns, signals, threadVars, stopping>>

ClearSignal ==
    /\ At("ready")
    /\ Head(server.ready) = Signal
    /\ signals' = signals - 1
    /\ NextReady
    /\ UNCHANGED <<userVars, childVars, conns, threadVars, stopping>>

\* "connection in self._server_connections", and the lookup after it, which
\* raises KeyError when the connection was removed in between.
Check ==
    /\ At("ready")
    /\ Head(server.ready) # Signal
    /\ IF Head(server.ready) \in Range(conns) THEN To("lookup") ELSE NextReady
    /\ UNCHANGED <<userVars, childVars, conns, signals, threadVars, stopping>>

\* rec.read: a message for a worker.  The mutated form goes on to what follows
\* "return  # Keep connection".
ReadAndRemove(s) ==
    /\ inbox[s] # <<>>
    /\ inbox' = [inbox EXCEPT ![s] = Tail(@)]
    /\ task' = IF Head(inbox[s]) = "callback" THEN [task EXCEPT ![s] = "queued"] ELSE task
    /\ conns' = Without(conns, s)
    /\ Wake
ReadMessage(s) ==
    /\ inbox[s] # <<>>
    /\ inbox' = [inbox EXCEPT ![s] = Tail(@)]
    /\ task' = IF Head(inbox[s]) = "callback" THEN [task EXCEPT ![s] = "queued"] ELSE task
    /\ UNCHANGED <<conns, signals>>

\* A closed connection raises OSError and is removed, unless server_connection_closed
\* was first.
RemoveEnded(s) ==
    /\ conns' = Without(conns, s)
    /\ Wake
    /\ UNCHANGED <<inbox, task>>

ProcessReadyConnection ==
    /\ At("lookup")
    /\ LET s == Head(server.ready)
       IN  IF s \notin Range(conns)
           THEN To("failed") /\ UNCHANGED <<conns, signals, inbox, task>>
           ELSE /\ NextReady
                /\ IF s \in open THEN ReadMessage(s) ELSE RemoveEnded(s)
    /\ UNCHANGED <<userVars, child, deaths, peers, events, failed, stopping>>

\* SubprocessTransport.stop, the finalizer, once the contexts have ended.
Stop ==
    /\ ~stopping
    /\ \A s \in Subprocess : user[s] \in {"idle", "done"}
    /\ stopping' = TRUE
    /\ Wake
    /\ UNCHANGED <<userVars, childVars, conns, server, threadVars>>

-----------------------------------------------------------------------------
Serves ==
    \/ ListConnections \/ Register \/ EnterPoll \/ Poll \/ ClearSignal
    \/ Check \/ ProcessReadyConnection

Proceeds(s) ==
    Started(s) \/ Close(s) \/ RemoveClosed(s) \/ Join(s)

Works(s) == StorePeer(s) \/ SetEvent(s) \/ Respond(s)

Lives(s) == CallBack(s) \/ Answer(s) \/ End(s)

Next ==
    \/ \E s \in Subprocess :
        \/ Start(s) \/ StartTimesOut(s) \/ Call(s) \/ Leave(s)
        \/ Proceeds(s) \/ Works(s) \/ Lives(s) \/ Die(s)
    \/ Serves
    \/ Stop

Spec == Init /\ [][Next]_vars

\* The server thread runs, and so do those of each subprocess: its user, a worker and
\* the child, which have finitely many steps together.  No user needs to leave a
\* subprocess, to call it, or to lose patience with it.
FairSpec ==
    /\ Spec
    /\ WF_vars(Serves)
    /\ \A s \in Subprocess : WF_vars(Proceeds(s) \/ Works(s) \/ Lives(s))

-----------------------------------------------------------------------------
(* Properties *)

\* Who goes on after the callback has the peer of the subprocess.  The server thread
\* ends before it is told to only when a connection in its list was closed by the
\* thread that uses it; a worker fails only with a subprocess that was left; and no
\* connection is dropped before its user closes it, whatever it brings and whatever
\* its child does.  About _rpc_subprocess_callback, _server_thread_main and
\* _process_ready_connection with its handlers of errors.
FailsOnlyByClosing ==
    /\ TypeOK
    /\ \A s \in Subprocess : user[s] \in {"running", "calling"} => s \in peers
    /\ At("failed") => \E s \in Subprocess :
                         /\ s \in Range(server.list) \cup Range(server.ready)
                         /\ user[s] \in Left
    /\ \A s \in failed : user[s] \in Left
    /\ open \subseteq Range(conns)

\* What a subprocess has sent is read, while its connection is open and the
\* server thread goes on.  About the signal of add_server_connection.
SentIsRead ==
    \A s \in Subprocess :
        (s \in open /\ inbox[s] # <<>>)
            ~> (inbox[s] = <<>> \/ s \notin open \/ At("failed"))

\* Who waits for a thread or a process to end does not wait for ever.  A context that
\* is left ends: the child hears of the closed connection and is joined, whatever the
\* server thread was doing; stop() joins the server thread.  About the order of close,
\* removal and signals.
EndIsJoined ==
    /\ \A s \in Subprocess : (user[s] = "closing") ~> (user[s] = "done")
    /\ stopping ~> At("finished") \/ At("failed")
=============================================================================
