---------------------------- MODULE TcpTransport ----------------------------
(***************************************************************************)
(* Parcels between a client and a server: base/transport/transport.dyn.py,  *)
(* route_table.dyn.py and tcp_transport.dyn.py.  Each process has one       *)
(* selector thread that reads all its connections; parcels are sent by any  *)
(* thread, without a lock.  The client finds a connection in its cache or   *)
(* makes one; the server answers over the connection a parcel came from.    *)
(*                                                                         *)
(* A parcel is one ref of its sender's mosaic in an encrypted message, and   *)
(* the types of the parcel around it.  Both are left out of a bundle when    *)
(* the other side is thought to have them: `content' and `types' say which.  *)
(* A packet goes out in chunks 1 and 2, as the socket takes them.            *)
(***************************************************************************)
EXTENDS Naturals, Sequences, FiniteSets, Functions

CONSTANTS
    Call,        \* parcels sent by the client, by a thread each
    Reply,       \* Reply[c]: the parcel that the server answers c with
    MaxLost,     \* bound on the number of connections lost
    None

Parcel == Call \cup {Reply[c] : c \in Call}
Side   == {"client", "server"}
Conn   == 1 .. Cardinality(Call)   \* a call makes at most one

ASSUME TransportAssumption ==
    /\ IsInjective(Reply) /\ DOMAIN Reply = Call
    /\ Call \cap {Reply[c] : c \in Call} = {}
    /\ IsFiniteSet(Call) /\ MaxLost \in Nat /\ None \notin Conn

VARIABLES
    sender,     \* sender[p]: "idle", "route", "connect", "bundle", "write", or how send ended
    via,        \* via[p]: the connection that p is sent by, or None
    packet,     \* packet[p]: the chunks of p not written yet
    content,    \* parcels whose message bundle has the content
    types,      \* parcels whose transport bundle has the types
    peerSeen,   \* sides whose Transport takes the content for seen by the peer
    connSeen,   \* connSeen[k]: sides that take the types for seen
    known,      \* known[s]: what the mosaic of s has, of "content" and "types"
    made,       \* connections made
    lost,       \* connections that the network has lost
    closed,     \* closed[k]: sides whose Connection has no socket any more
    cache,      \* _address_to_tcp_conn of the client, None or a connection
    doomed,     \* the selector thread is about to remove the cache entry
    routes,     \* _peer2route_list of the server, for the client
    wire,       \* wire[k][s]: chunks sent to s
    buffer,     \* buffer[k][s]: chunks that s has read
    log,        \* parcels in the order they were handed to the endpoint of their side
    unresolved, \* parcels handed over whose content is not known there
    failed,     \* sides whose selector thread has failed
    overlap,    \* history: ends of connections on which two parcels were sent at a time
    rushed      \* history: parcels sent while their side was sending another

sendVars == <<sender, via, packet, content, types>>
seenVars == <<peerSeen, connSeen>>
connVars == <<made, lost, closed, cache, doomed>>
wireVars == <<wire, buffer>>
endVars  == <<known, routes, log, unresolved, failed>>
history == <<overlap, rushed>>
vars == <<sendVars, seenVars, connVars, wireVars, endVars, history>>

From(p)  == IF p \in Call THEN "client" ELSE "server"
Other(s) == IF s = "client" THEN "server" ELSE "client"
Active   == {p \in Parcel : sender[p] \in {"route", "connect", "bundle", "write"}}
Sending(s) == {p \in Active : From(p) = s}
Writers(k, s) == {p \in Parcel : sender[p] = "write" /\ via[p] = k /\ From(p) = s}

TypeOK ==
    /\ sender \in [Parcel -> {"idle", "route", "connect", "bundle", "write",
                              "sent", "broken", "gone", "none", "noroute"}]
    /\ via \in [Parcel -> Conn \cup {None}]
    /\ packet \in [Parcel -> Seq(Parcel \X {1, 2})]
    /\ content \subseteq Parcel /\ types \subseteq Parcel
    /\ peerSeen \subseteq Side /\ connSeen \in [Conn -> SUBSET Side]
    /\ known \in [Side -> SUBSET {"content", "types"}]
    /\ made \in 0 .. Cardinality(Call) /\ lost \subseteq 1 .. made
    /\ closed \in [Conn -> SUBSET Side]
    /\ cache \in (1 .. made) \cup {None} /\ doomed \in BOOLEAN
    /\ routes \in Seq(1 .. made)
    /\ wire \in [Conn -> [Side -> Seq(Parcel \X {1, 2})]]
    /\ buffer \in [Conn -> [Side -> Seq(Parcel \X {1, 2})]]
    /\ log \in Seq(Parcel) /\ unresolved \subseteq Parcel
    /\ failed \subseteq Side /\ overlap \subseteq Conn \X Side /\ rushed \subseteq Parcel

Init ==
    /\ sender = [p \in Parcel |-> "idle"] /\ via = [p \in Parcel |-> None]
    /\ packet = [p \in Parcel |-> <<>>] /\ content = {} /\ types = {}
    /\ peerSeen = {} /\ connSeen = [k \in Conn |-> {}]
    /\ known = [s \in Side |-> IF s = "client" THEN {"content", "types"} ELSE {}]
    /\ made = 0 /\ lost = {} /\ closed = [k \in Conn |-> {}]
    /\ cache = None /\ doomed = FALSE
    /\ routes = <<>>
    /\ wire = [k \in Conn |-> [s \in Side |-> <<>>]]
    /\ buffer = [k \in Conn |-> [s \in Side |-> <<>>]]
    /\ log = <<>> /\ unresolved = {} /\ failed = {} /\ overlap = {} /\ rushed = {}

-----------------------------------------------------------------------------
(* Sending *)

\* Transport.send: the message bundle leaves out what the peer has seen, and what
\* is put in it is seen from now on, whatever becomes of the parcel.  The mutated form
\* marks it first.
SendUnseen(p) ==
    /\ sender[p] = "idle"
    /\ p \notin Call => \E c \in Call : Reply[c] = p /\ c \in Range(log) \ unresolved
    /\ peerSeen' = peerSeen \cup {From(p)}
    /\ rushed' = IF Sending(From(p)) = {} THEN rushed ELSE rushed \cup {p}
    /\ sender' = [sender EXCEPT ![p] = "route"]
    /\ UNCHANGED <<via, packet, content, types, connSeen, connVars, wireVars, endVars, overlap>>
TransportSend(p) ==
    /\ sender[p] = "idle"
    /\ p \notin Call => \E c \in Call : Reply[c] = p /\ c \in Range(log) \ unresolved
    /\ content' = IF From(p) \in peerSeen THEN content ELSE content \cup {p}
    /\ peerSeen' = peerSeen \cup {From(p)}
    /\ rushed' = IF Sending(From(p)) = {} THEN rushed ELSE rushed \cup {p}
    /\ sender' = [sender EXCEPT ![p] = "route"]
    /\ UNCHANGED <<via, packet, types, connSeen, connVars, wireVars, endVars, overlap>>

\* Transport.send_parcel and Route.send: the cached connection, if there is one.
PickCached(p) ==
    /\ sender[p] = "route" /\ From(p) = "client"
    /\ IF cache # None
       THEN via' = [via EXCEPT ![p] = cache] /\ sender' = [sender EXCEPT ![p] = "bundle"]
       ELSE UNCHANGED via /\ sender' = [sender EXCEPT ![p] = "connect"]
    /\ UNCHANGED <<packet, content, types, seenVars, connVars, wireVars, endVars, history>>

\* tcp_connection_factory: another thread may have made one meanwhile.
Connect(p) ==
    /\ sender[p] = "connect"
    /\ made' = made + 1
    /\ cache' = made + 1
    /\ via' = [via EXCEPT ![p] = made + 1]
    /\ sender' = [sender EXCEPT ![p] = "bundle"]
    /\ UNCHANGED <<packet, content, types, seenVars, lost, closed, doomed, wireVars, endVars, history>>

\* The server: the first route to the client, an IncomingConnectionRoute; it raises
\* RemoteIsGoneError when its connection is closed.
PickRoute(p) ==
    /\ sender[p] = "route" /\ From(p) = "server"
    /\ IF routes = <<>>
       THEN UNCHANGED via /\ sender' = [sender EXCEPT ![p] = "noroute"]
       ELSE IF "server" \in closed[Head(routes)]
       THEN UNCHANGED via /\ sender' = [sender EXCEPT ![p] = "gone"]
       ELSE via' = [via EXCEPT ![p] = Head(routes)] /\ sender' = [sender EXCEPT ![p] = "bundle"]
    /\ UNCHANGED <<packet, content, types, seenVars, connVars, wireVars, endVars, history>>

\* Connection.send up to its loop.  Mutated form: a new connection is taken to have
\* seen what the last one had.
BundleForPeer(p) ==
    /\ sender[p] = "bundle"
    /\ LET k == via[p]  s == From(p) IN
        /\ types' = IF \E j \in Conn : s \in connSeen[j] THEN types ELSE types \cup {p}
        /\ connSeen' = [connSeen EXCEPT ![k] = @ \cup {s}]
        /\ overlap' = IF Writers(k, s) = {} THEN overlap ELSE overlap \cup {<<k, s>>}
    /\ packet' = [packet EXCEPT ![p] = <<<<p, 1>>, <<p, 2>>>>]
    /\ sender' = [sender EXCEPT ![p] = "write"]
    /\ UNCHANGED <<via, content, peerSeen, connVars, wireVars, endVars, rushed>>
Bundle(p) ==
    /\ sender[p] = "bundle"
    /\ LET k == via[p]  s == From(p) IN
        /\ types' = IF s \in connSeen[k] THEN types ELSE types \cup {p}
        /\ connSeen' = [connSeen EXCEPT ![k] = @ \cup {s}]
        /\ overlap' = IF Writers(k, s) = {} THEN overlap ELSE overlap \cup {<<k, s>>}
    /\ packet' = [packet EXCEPT ![p] = <<<<p, 1>>, <<p, 2>>>>]
    /\ sender' = [sender EXCEPT ![p] = "write"]
    /\ UNCHANGED <<via, content, peerSeen, connVars, wireVars, endVars, rushed>>

\* One iteration of the loop of Connection.send: the socket takes some chunks.
Write(p, n) ==
    /\ sender[p] = "write"
    /\ From(p) \notin closed[via[p]] /\ via[p] \notin lost
    /\ n \in 1 .. Len(packet[p])
    /\ wire' = [wire EXCEPT ![via[p]][Other(From(p))] = @ \o SubSeq(packet[p], 1, n)]
    /\ packet' = [packet EXCEPT ![p] = SubSeq(@, n + 1, Len(@))]
    /\ sender' = [sender EXCEPT ![p] = IF packet'[p] = <<>> THEN "sent" ELSE @]
    /\ UNCHANGED <<via, content, types, seenVars, connVars, buffer, endVars, history>>

\* The socket of a lost connection takes the data in vain, or raises.
WriteToLost(p) ==
    /\ sender[p] = "write"
    /\ From(p) \notin closed[via[p]] /\ via[p] \in lost
    /\ packet' = [packet EXCEPT ![p] = <<>>]
    /\ \E end \in {"sent", "broken"} : sender' = [sender EXCEPT ![p] = end]
    /\ UNCHANGED <<via, content, types, seenVars, connVars, wireVars, endVars, history>>

\* The selector thread has taken the socket away: None has no attribute 'send'.
WriteToNone(p) ==
    /\ sender[p] = "write"
    /\ From(p) \in closed[via[p]]
    /\ packet' = [packet EXCEPT ![p] = <<>>]
    /\ sender' = [sender EXCEPT ![p] = "none"]
    /\ UNCHANGED <<via, content, types, seenVars, connVars, wireVars, endVars, history>>

-----------------------------------------------------------------------------
(* The selector thread *)

Reads(k, s) == s \notin failed /\ s \notin closed[k] /\ Len(buffer[k][s]) < 2

\* Connection.on_read: recv.  The mutated form forgets what it had.
ReadAfresh(k, s) ==
    /\ Reads(k, s)
    /\ wire[k][s] # <<>>
    /\ buffer' = [buffer EXCEPT ![k][s] = wire[k][s]]
    /\ wire' = [wire EXCEPT ![k][s] = <<>>]
    /\ UNCHANGED <<sendVars, seenVars, connVars, endVars, history>>
Read(k, s) ==
    /\ Reads(k, s)
    /\ wire[k][s] # <<>>
    /\ buffer' = [buffer EXCEPT ![k][s] = @ \o wire[k][s]]
    /\ wire' = [wire EXCEPT ![k][s] = <<>>]
    /\ UNCHANGED <<sendVars, seenVars, connVars, endVars, history>>

\* Connection.on_read: the end of the stream, or a reset.
Close(k, s) ==
    /\ Reads(k, s)
    /\ k \in lost /\ wire[k][s] = <<>>
    /\ closed' = [closed EXCEPT ![k] = @ \cup {s}]
    /\ UNCHANGED <<sendVars, seenVars, made, lost, cache, doomed, wireVars, endVars, history>>

Learned(p) == (IF p \in content THEN {"content"} ELSE {}) \cup (IF p \in types THEN {"types"} ELSE {})

\* _process_bundle: what came is seen by the other side, except what was known here
\* before (register_capsule returns no ref for it); the route back is added before the
\* parcel is processed.  Mutated form: it is not added.
Enter(p, k, s) ==
    /\ known' = [known EXCEPT ![s] = @ \cup Learned(p)]
    /\ connSeen' = IF p \in types /\ "types" \notin known[s] THEN [connSeen EXCEPT ![k] = @ \cup {s}] ELSE connSeen
    /\ log' = Append(log, p)
    /\ unresolved' = IF "content" \in known'[s] THEN unresolved ELSE unresolved \cup {p}
DeliverOnly(p, k, s) ==
    /\ Enter(p, k, s)
    /\ UNCHANGED routes
Deliver(p, k, s) ==
    /\ Enter(p, k, s)
    /\ routes' = IF s = "server" /\ routes = <<>> THEN <<k>> ELSE routes

\* One packet of _process_buffer.  The mutated form leaves it in the buffer.
ProcessPacketAgain(k, s) ==
    /\ s \notin failed /\ Len(buffer[k][s]) >= 2
    /\ LET p == buffer[k][s][1][1] IN
        /\ SubSeq(buffer[k][s], 1, 2) = <<<<p, 1>>, <<p, 2>>>>
        /\ "types" \in known[s] \cup Learned(p)
        /\ Deliver(p, k, s)
    /\ UNCHANGED <<sendVars, peerSeen, connVars, wireVars, failed, history>>
ProcessPacket(k, s) ==
    /\ s \notin failed /\ Len(buffer[k][s]) >= 2
    /\ LET p == buffer[k][s][1][1] IN
        /\ SubSeq(buffer[k][s], 1, 2) = <<<<p, 1>>, <<p, 2>>>>
        /\ "types" \in known[s] \cup Learned(p)
        /\ Deliver(p, k, s)
    /\ buffer' = [buffer EXCEPT ![k][s] = SubSeq(@, 3, Len(@))]
    /\ UNCHANGED <<sendVars, peerSeen, connVars, wire, failed, history>>

\* The packet has parts of several, or types that are not known: the exception ends
\* the selector thread, and system_failed is called.
ProcessFails(k, s) ==
    /\ s \notin failed /\ Len(buffer[k][s]) >= 2
    /\ LET p == buffer[k][s][1][1] IN
        \/ SubSeq(buffer[k][s], 1, 2) # <<<<p, 1>>, <<p, 2>>>>
        \/ "types" \notin known[s] \cup Learned(p)
    /\ failed' = failed \cup {s}
    /\ UNCHANGED <<sendVars, seenVars, connVars, wireVars, known, routes, log, unresolved, history>>

\* The loop over closed connections after the events.
FindClosed ==
    /\ "client" \notin failed /\ cache # None /\ ~doomed
    /\ "client" \in closed[cache]
    /\ doomed' = TRUE
    /\ UNCHANGED <<sendVars, seenVars, made, lost, closed, cache, wireVars, endVars, history>>
RemoveClosed ==
    /\ "client" \notin failed /\ doomed
    /\ doomed' = FALSE
    /\ cache' = None
    /\ UNCHANGED <<sendVars, seenVars, made, lost, closed, wireVars, endVars, history>>

\* The network: chunks on their way are lost, in both directions or in one.
LoseConnection(k) ==
    /\ k \in (1 .. made) \ lost /\ Cardinality(lost) < MaxLost
    /\ lost' = lost \cup {k}
    /\ \E sides \in SUBSET Side :
        wire' = [wire EXCEPT ![k] = [s \in Side |-> IF s \in sides THEN <<>> ELSE @[s]]]
    /\ UNCHANGED <<sendVars, seenVars, made, closed, cache, doomed, buffer, endVars, history>>

Step(p) ==
    \/ PickCached(p) \/ Connect(p) \/ PickRoute(p) \/ Bundle(p)
    \/ \E n \in 1 .. 2 : Write(p, n)
    \/ WriteToLost(p) \/ WriteToNone(p)
Select(k, s) == Read(k, s) \/ Close(k, s) \/ ProcessPacket(k, s) \/ ProcessFails(k, s)

Next ==
    \/ \E p \in Parcel : TransportSend(p) \/ Step(p)
    \/ \E k \in Conn : LoseConnection(k) \/ \E s \in Side : Select(k, s)
    \/ FindClosed \/ RemoveClosed

\* Threads run; the network need not lose anything and nobody need send.
Fairness ==
    /\ \A p \in Parcel : WF_vars(Step(p))
    /\ \A k \in Conn, s \in Side : WF_vars(Select(k, s))
    /\ WF_vars(FindClosed) /\ WF_vars(RemoveClosed)

Spec     == Init /\ [][Next]_vars
FairSpec == Spec /\ Fairness

-----------------------------------------------------------------------------
\* A selector thread, and with it the process, fails only when two threads of the
\* other side sent by one connection at a time: chunks of packets then mix, or a
\* packet without the types overtakes the one that has them.  Reconnecting, losing
\* a connection in the middle of a packet, and any timing of one sender are safe.
FailsOnlyByOverlap ==
    \A s \in failed : \E k \in Conn : <<k, Other(s)>> \in overlap

\* Parcels are not made up, doubled or joined from parts of two: each is handed over
\* at most once, and after its last chunk was written.  One whose send raised, as the
\* connection was lost or closed in the middle of the loop, is never handed over: the
\* caller may send it again.
DeliveredOnce ==
    /\ TypeOK
    /\ IsInjective(log)
    /\ \A p \in Range(log) : sender[p] = "sent"

\* "Add route before sending parcel - it may be used during parcel processing": a
\* reply always finds a route, and when it is refused the connection of the first
\* parcel that came from the client was lost, though not that of the request.
ReplyHasRoute ==
    \A p \in Parcel :
        /\ sender[p] # "noroute"
        /\ sender[p] = "gone" => routes[1] \in lost

\* A parcel comes without the content its receiver needs only after a connection was
\* lost, or when two threads of a side were sending.
UnresolvedOnlyByLoss == unresolved # {} => lost # {} \/ rushed # {}

\* A parcel whose send returned is handed over, or its connection was lost, or the
\* receiver's selector thread has failed.
SentArrives ==
    \A p \in Parcel :
        sender[p] = "sent" ~> p \in Range(log) \/ via[p] \in lost \/ Other(From(p)) \in failed
=============================================================================
