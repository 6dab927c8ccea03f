-------------------------- MODULE TcpTransportProofs --------------------------
(* Parcels over connections, for any calls: chunks are not doubled, streams   *)
(* are whole packets while one thread sends at a time, and the receiver has   *)
(* what a packet leaves out.                                                 *)
EXTENDS TcpTransport, SequenceTheorems, FiniteSetTheorems, TLAPS

Chunk  == Parcel \X {1, 2}
Begun  == {"write", "sent", "broken", "none"}

\* The chunks that s has yet to process of connection k.
Stream(b, w, k, s) == b[k][s] \o w[k][s]

\* Every connection was made by a call of its own.
Connected(snd) == {p \in Call : snd[p] \notin {"idle", "route", "connect"}}
MadeInv == made <= Cardinality(Connected(sender))

\* How far the packet of a parcel is, and where it goes.
PacketOf(p, snd, pkt, v, n) ==
    /\ pkt \in {<<>>, <<<<p, 2>>>>, <<<<p, 1>>, <<p, 2>>>>}
    /\ snd = "write" <=> pkt # <<>>
    /\ snd \in Begun \cup {"bundle"} => v \in 1 .. n
    /\ snd = "connect" => p \in Call
PacketInv == \A p \in Parcel : PacketOf(p, sender[p], packet[p], via[p], made)

\* A chunk in a stream was written by its parcel, which is not handed over yet.
ChunkOf(c, k, s, snd, pkt, v, l) ==
    LET p == c[1] IN
    /\ v[p] = k /\ From(p) = Other(s)
    /\ snd[p] \in Begun /\ p \notin Range(l)
    /\ c[2] = 1 => Len(pkt[p]) < 2
    /\ c[2] = 2 => snd[p] = "sent"
ChunkInv ==
    \A k \in Conn, s \in Side :
        /\ IsInjective(Stream(buffer, wire, k, s))
        /\ \A i \in DOMAIN Stream(buffer, wire, k, s) :
            ChunkOf(Stream(buffer, wire, k, s)[i], k, s, sender, packet, via, log)

LogInv ==
    /\ IsInjective(log)
    /\ \A p \in Range(log) : sender[p] = "sent"

\* A reply is sent after its call was handed over, and then there is a route.
RouteInv ==
    /\ \A c \in Call : c \in Range(log) => routes # <<>>
    /\ \A c \in Call : sender[Reply[c]] # "idle" => c \in Range(log)
    /\ \A p \in Parcel : sender[p] # "noroute"
    /\ \A p \in Parcel : sender[p] = "gone" => routes # <<>> /\ routes[1] \in lost
    /\ \A k \in Conn : closed[k] # {} => k \in lost

IInv == TypeOK /\ MadeInv /\ PacketInv /\ ChunkInv /\ LogInv /\ RouteInv

\* A stream that no two threads wrote to at a time is whole packets, and maybe the first
\* chunk of one that is being written, unless the connection is lost.
Whole(st) ==
    /\ st # <<>> => st[1][2] = 1
    /\ \A i \in DOMAIN st : i + 1 \in DOMAIN st =>
        IF st[i][2] = 1 THEN st[i + 1] = <<st[i][1], 2>> ELSE st[i + 1][2] = 1
Ends(st, p) == st # <<>> /\ st[Len(st)] = <<p, 1>>
InOrder(st, w, pkt, cut) ==
    /\ \A p, q \in w : p = q
    /\ Whole(st)
    /\ cut \/ \A p \in Parcel : Ends(st, p) <=> (p \in w /\ Len(pkt[p]) = 1)
WriterSet(snd, v, k, o) == {p \in Parcel : snd[p] = "write" /\ v[p] = k /\ From(p) = o}
OrderInv ==
    \A k \in Conn, s \in Side :
        <<k, Other(s)>> \in overlap \/
        InOrder(Stream(buffer, wire, k, s), WriterSet(sender, via, k, Other(s)), packet, k \in lost)

\* The types that a packet leaves out were sent by its connection before it, or are known.
TypesFirst(st, w, ty, seen, cut) ==
    /\ st # <<>> => st[1][1] \in ty
    /\ "client" \in seen /\ st = <<>> => cut \/ \E p \in w : p \in ty
TypesInv ==
    /\ "types" \in known["client"]
    /\ \A p \in Parcel : sender[p] \in Begun => From(p) \in connSeen[via[p]]
    /\ \A k \in Conn :
        \/ <<k, "client">> \in overlap
        \/ "types" \in known["server"]
        \/ TypesFirst(Stream(buffer, wire, k, "server"), WriterSet(sender, via, k, "client"),
                      types, connSeen[k], k \in lost)
EndInv == \A s \in failed : \E k \in Conn : <<k, Other(s)>> \in overlap
OInv == OrderInv /\ TypesInv /\ EndInv

\* With no connection lost and one sender at a time there is one connection, and the
\* content that a parcel leaves out was sent before it, or is known.
QuietInv ==
    /\ \A s \in Side : \A p, q \in Sending(s) : p = q
    /\ \A p \in Call : sender[p] \in Begun \cup {"bundle"} => cache = via[p]
    /\ \A p \in Call : sender[p] = "connect" => cache = None
    /\ ~doomed /\ unresolved = {}
    /\ "content" \in known["server"] \/
        /\ \A k \in Conn : LET st == Stream(buffer, wire, k, "server") IN
            st # <<>> => st[1][1] \in content
        /\ "client" \in peerSeen =>
            \/ \E p \in Sending("client") : p \in content
            \/ \E k \in Conn : Stream(buffer, wire, k, "server") # <<>>
CInv ==
    /\ "content" \in known["client"]
    /\ \A p \in Parcel : sender[p] # "idle" => From(p) \in peerSeen
    /\ (lost = {} /\ rushed = {} => QuietInv)

-----------------------------------------------------------------------------
\* The two sides, and which one a parcel comes from.
LEMMA Sides ==
  /\ \A s \in Side : Other(s) \in Side /\ Other(s) # s /\ Other(Other(s)) = s
  /\ \A p : From(p) \in Side
  BY DEF Side, Other, From

\* Calls and replies are different parcels, a reply for each call.
LEMMA Parcels ==
  /\ \A c \in Call : c \in Parcel /\ Reply[c] \in Parcel /\ Reply[c] \notin Call
  /\ \A c, d \in Call : Reply[c] = Reply[d] => c = d
  BY TransportAssumption DEF Parcel, IsInjective

\* The calls are finitely many.
LEMMA CallCount == IsFiniteSet(Call) /\ Cardinality(Call) \in Nat
  BY TransportAssumption, FS_CardinalityType

\* Streams: of what they are made, and what reading, writing, processing and losing
\* chunks do to them.
LEMMA StreamParts ==
  ASSUME NEW b \in [Conn -> [Side -> Seq(Chunk)]], NEW w \in [Conn -> [Side -> Seq(Chunk)]],
         NEW k \in Conn, NEW s \in Side
  PROVE  /\ b[k][s] \in Seq(Chunk) /\ w[k][s] \in Seq(Chunk)
         /\ Stream(b, w, k, s) \in Seq(Chunk)
         /\ Len(Stream(b, w, k, s)) = Len(b[k][s]) + Len(w[k][s])
         /\ Len(b[k][s]) \in Nat /\ Len(w[k][s]) \in Nat /\ Len(Stream(b, w, k, s)) \in Nat
         /\ DOMAIN Stream(b, w, k, s) = 1 .. Len(Stream(b, w, k, s))
         /\ \A i \in 1 .. Len(b[k][s]) : Stream(b, w, k, s)[i] = b[k][s][i]
<1>1. b[k][s] \in Seq(Chunk) /\ w[k][s] \in Seq(Chunk)
  OBVIOUS
<1>2. PICK x \in Seq(Chunk), y \in Seq(Chunk) : x = b[k][s] /\ y = w[k][s]
  BY <1>1
<1>3. PICK z : z = x \o y
  OBVIOUS
<1>4. /\ z \in Seq(Chunk) /\ Len(z) = Len(x) + Len(y)
      /\ \A i \in 1 .. Len(x) + Len(y) : z[i] = IF i <= Len(x) THEN x[i] ELSE y[i - Len(x)]
  BY <1>3, ConcatProperties
<1>5. Len(x) \in Nat /\ Len(y) \in Nat /\ Len(z) \in Nat /\ DOMAIN z = 1 .. Len(z)
  BY <1>4, LenProperties
<1>6. \A i \in 1 .. Len(x) : z[i] = x[i]
  BY <1>4, <1>5
<1> QED
  BY <1>1, <1>2, <1>3, <1>4, <1>5, <1>6 DEF Stream

\* x is what is left of y at its beginning.
IsBegin(x, y) == Len(x) <= Len(y) /\ \A i \in 1 .. Len(x) : x[i] = y[i]

\* An empty read changes no stream.
LEMMA NoneRead ==
  ASSUME NEW x \in Seq(Chunk), NEW y \in Seq(Chunk)
  PROVE  (x \o y) \o <<>> = x \o y /\ x \o <<>> = x
  BY ConcatProperties, ConcatEmptySeq

\* What remains of a stream after a packet was taken from the buffer.
LEMMA Taken ==
  ASSUME NEW x \in Seq(Chunk), NEW y \in Seq(Chunk), 2 <= Len(x),
         NEW r, r = SubSeq(x, 3, Len(x)) \o y
  PROVE  /\ SubSeq(x, 3, Len(x)) \in Seq(Chunk)
         /\ Len(r) = Len(x \o y) - 2
         /\ \A i \in 1 .. Len(r) : r[i] = (x \o y)[i + 2]
<1>1. PICK t : t = SubSeq(x, 3, Len(x))
  OBVIOUS
<1>2. PICK z : z = x \o y
  OBVIOUS
<1>3. Len(x) \in Nat /\ Len(y) \in Nat
  BY LenProperties
<1>4. PICK m \in Int, n \in Int : m = 3 /\ n = Len(x)
  BY <1>3
<1>5. \A i \in m .. n : x[i] \in Chunk
  BY <1>3, <1>4, ElementOfSeq
<1>6. /\ t \in Seq(Chunk) /\ Len(t) = Len(x) - 2
      /\ \A i \in 1 .. Len(t) : t[i] = x[i + 2]
  <2>1. /\ SubSeq(x, m, n) \in Seq(Chunk) /\ Len(SubSeq(x, m, n)) = IF m <= n THEN n - m + 1 ELSE 0
        /\ \A i \in 1 .. n - m + 1 : SubSeq(x, m, n)[i] = x[m + i - 1]
    BY <1>5, SubSeqProperties
  <2>2. t = SubSeq(x, m, n)
    BY <1>1, <1>4
  <2>3. t \in Seq(Chunk) /\ Len(t) = Len(x) - 2
    BY <1>3, <1>4, <2>1, <2>2
  <2>4. ASSUME NEW i \in 1 .. Len(t)
        PROVE  t[i] = x[i + 2]
    <3>1. i \in 1 .. n - m + 1 /\ m + i - 1 = i + 2
      BY <1>3, <1>4, <2>3
    <3> QED
      BY <2>1, <2>2, <3>1
  <2> QED
    BY <2>3, <2>4
<1>7. /\ Len(z) = Len(x) + Len(y)
      /\ \A i \in 1 .. Len(x) + Len(y) : z[i] = IF i <= Len(x) THEN x[i] ELSE y[i - Len(x)]
  BY <1>2, ConcatProperties
<1>8. /\ Len(r) = Len(t) + Len(y)
      /\ \A i \in 1 .. Len(t) + Len(y) : r[i] = IF i <= Len(t) THEN t[i] ELSE y[i - Len(t)]
  BY <1>1, <1>6, ConcatProperties
<1>9. Len(r) = Len(z) - 2
  BY <1>3, <1>6, <1>7, <1>8
<1>10. ASSUME NEW i \in 1 .. Len(r)
       PROVE  r[i] = z[i + 2]
  <2>1. i + 2 \in 1 .. Len(x) + Len(y) /\ i \in 1 .. Len(t) + Len(y) /\ i \in Int
    BY <1>3, <1>6, <1>7, <1>8
  <2>2. CASE i <= Len(t)
    <3>1. r[i] = t[i] /\ t[i] = x[i + 2] /\ i + 2 <= Len(x)
      BY <1>3, <1>6, <1>8, <2>1, <2>2
    <3> QED
      BY <1>7, <2>1, <3>1
  <2>3. CASE ~(i <= Len(t))
    <3>1. r[i] = y[i - Len(t)] /\ ~(i + 2 <= Len(x)) /\ (i + 2) - Len(x) = i - Len(t)
      BY <1>3, <1>6, <1>8, <2>1, <2>3
    <3> QED
      BY <1>7, <2>1, <3>1
  <2> QED
    BY <2>2, <2>3
<1> QED
  BY <1>1, <1>2, <1>6, <1>9, <1>10

\* A sequence of one chunk.
LEMMA OneChunk ==
  ASSUME NEW c \in Chunk, NEW t \in Seq(Chunk), Len(t) = 1, t[1] = c
  PROVE  t = <<c>>
<1>1. <<c>> \in Seq(Chunk) /\ Len(<<c>>) = 1 /\ <<c>>[1] = c
  OBVIOUS
<1> QED
  BY <1>1, SeqEqual

\* A packet, and what is left of it when its first chunk is written.
Half(p) == <<<<p, 2>>>>
Full(p) == <<<<p, 1>>, <<p, 2>>>>

\* What a writer takes from its packet, and leaves.
Parts(pkt, n, new, rest) == new = SubSeq(pkt, 1, n) /\ rest = SubSeq(pkt, n + 1, Len(pkt))

\* It takes the first chunk, or all.
LEMMA PacketParts ==
  ASSUME NEW p \in Parcel, NEW pkt, NEW n \in 1 .. 2, n \in 1 .. Len(pkt), pkt \in {Half(p), Full(p)},
         NEW new, NEW rest, Parts(pkt, n, new, rest)
  PROVE  \/ pkt = Half(p) /\ new = Half(p) /\ rest = <<>>
         \/ pkt = Full(p) /\ new = <<<<p, 1>>>> /\ rest = Half(p)
         \/ pkt = Full(p) /\ new = Full(p) /\ rest = <<>>
<1> USE DEF Half, Full, Parts
<1> DEFINE half == <<<<p, 2>>>>
           full == <<<<p, 1>>, <<p, 2>>>>
<1>1. /\ half \in Seq(Chunk) /\ Len(half) = 1 /\ half[1] = <<p, 2>>
      /\ full \in Seq(Chunk) /\ Len(full) = 2 /\ full[1] = <<p, 1>> /\ full[2] = <<p, 2>>
  BY DEF Chunk
<1>2. CASE pkt = half
  <2>1. n = 1
    BY <1>1, <1>2
  <2>2. SubSeq(half, 1, 1) = half
    BY <1>1, SubSeqFull
  <2>3. SubSeq(half, 2, 1) = <<>>
    BY SubSeqEmpty
  <2> QED
    BY <1>1, <1>2, <2>1, <2>2, <2>3
<1>3. CASE pkt = full /\ n = 2
  <2>1. SubSeq(full, 1, 2) = full
    BY <1>1, SubSeqFull
  <2>2. SubSeq(full, 3, 2) = <<>>
    BY SubSeqEmpty
  <2> QED
    BY <1>1, <1>3, <2>1, <2>2
<1>4. CASE pkt = full /\ n = 1
  <2> DEFINE one == SubSeq(full, 1, 1)
             two == SubSeq(full, 2, 2)
  <2>1. \A i \in 1 .. 1 : full[i] \in Chunk
    BY <1>1 DEF Chunk
  <2>2. \A i \in 2 .. 2 : full[i] \in Chunk
    BY <1>1 DEF Chunk
  <2>3. one \in Seq(Chunk) /\ Len(one) = 1 /\ one[1] = full[1]
    <3> HIDE DEF full
    <3> QED
      BY <2>1, SubSeqProperties
  <2>4. two \in Seq(Chunk) /\ Len(two) = 1 /\ two[1] = full[2]
    <3> HIDE DEF full
    <3> QED
      BY <2>2, SubSeqProperties
  <2>5. one = <<<<p, 1>>>>
    BY <1>1, <2>3, OneChunk DEF Chunk
  <2>6. two = <<<<p, 2>>>>
    BY <1>1, <2>4, OneChunk DEF Chunk
  <2> QED
    BY <1>1, <1>4, <2>5, <2>6
<1> QED
  BY <1>2, <1>3, <1>4

-----------------------------------------------------------------------------
\* What steps that only take from the end of streams leave of the chunks.
LEMMA KeepChunks ==
  ASSUME IInv,
         buffer' \in [Conn -> [Side -> Seq(Chunk)]], wire' \in [Conn -> [Side -> Seq(Chunk)]],
         \A k \in Conn, s \in Side : IsBegin(Stream(buffer', wire', k, s), Stream(buffer, wire, k, s)),
         log' = log,
         \A p \in Parcel : sender[p] \in Begun =>
            /\ via'[p] = via[p] /\ sender'[p] \in Begun
            /\ sender[p] = "sent" => sender'[p] = "sent"
            /\ Len(packet[p]) < 2 => Len(packet'[p]) < 2
  PROVE  ChunkInv'
<1> SUFFICES ASSUME NEW k \in Conn, NEW s \in Side
             PROVE  /\ IsInjective(Stream(buffer', wire', k, s))
                    /\ \A i \in DOMAIN Stream(buffer', wire', k, s) :
                        ChunkOf(Stream(buffer', wire', k, s)[i], k, s, sender', packet', via', log')
  BY DEF ChunkInv
<1>1. buffer \in [Conn -> [Side -> Seq(Chunk)]] /\ wire \in [Conn -> [Side -> Seq(Chunk)]]
  BY DEF IInv, TypeOK, Chunk
<1>2. PICK x, y : x = Stream(buffer, wire, k, s) /\ y = Stream(buffer', wire', k, s)
  OBVIOUS
<1>3. /\ x \in Seq(Chunk) /\ y \in Seq(Chunk) /\ Len(x) \in Nat /\ Len(y) \in Nat
      /\ DOMAIN x = 1 .. Len(x) /\ DOMAIN y = 1 .. Len(y)
      /\ Len(y) <= Len(x) /\ \A i \in 1 .. Len(y) : y[i] = x[i]
  <2>1. IsBegin(y, x)
    BY <1>2
  <2>2. x \in Seq(Chunk) /\ y \in Seq(Chunk)
    <3>1. Stream(buffer, wire, k, s) \in Seq(Chunk)
      BY <1>1, StreamParts
    <3>2. Stream(buffer', wire', k, s) \in Seq(Chunk)
      BY StreamParts
    <3> QED
      BY <1>2, <3>1, <3>2
  <2>3. Len(x) \in Nat /\ DOMAIN x = 1 .. Len(x) /\ Len(y) \in Nat /\ DOMAIN y = 1 .. Len(y)
    BY <2>2, LenProperties
  <2> QED
    BY <2>1, <2>2, <2>3 DEF IsBegin
<1>4. /\ IsInjective(x)
      /\ \A i \in DOMAIN x : ChunkOf(x[i], k, s, sender, packet, via, log)
  BY <1>2 DEF IInv, ChunkInv
<1>5. \A i \in DOMAIN y : i \in DOMAIN x /\ y[i] = x[i]
  BY <1>3
<1>6. IsInjective(y)
  BY <1>4, <1>5 DEF IsInjective
<1>7. ASSUME NEW i \in DOMAIN y
      PROVE  ChunkOf(y[i], k, s, sender', packet', via', log')
  <2>1. PICK c \in Chunk : c = y[i]
    BY <1>3, ElementOfSeq
  <2>2. ChunkOf(c, k, s, sender, packet, via, log) /\ c[1] \in Parcel
    BY <1>4, <1>5, <2>1 DEF Chunk
  <2>3. ChunkOf(c, k, s, sender', packet', via', log')
    BY <2>2 DEF ChunkOf
  <2> QED
    BY <2>1, <2>3
<1> QED
  BY <1>2, <1>6, <1>7

\* A step that reads and writes nothing leaves the streams.
LEMMA SameStreams ==
  ASSUME IInv, UNCHANGED wireVars
  PROVE  /\ buffer' \in [Conn -> [Side -> Seq(Chunk)]] /\ wire' \in [Conn -> [Side -> Seq(Chunk)]]
         /\ \A k \in Conn, s \in Side :
             /\ Stream(buffer', wire', k, s) = Stream(buffer, wire, k, s)
             /\ IsBegin(Stream(buffer', wire', k, s), Stream(buffer, wire, k, s))
<1>1. /\ buffer \in [Conn -> [Side -> Seq(Chunk)]] /\ wire \in [Conn -> [Side -> Seq(Chunk)]]
      /\ buffer' = buffer /\ wire' = wire
  BY DEF IInv, TypeOK, Chunk, wireVars
<1>2. \A k \in Conn, s \in Side : Len(Stream(buffer, wire, k, s)) \in Nat
  BY <1>1, StreamParts
<1> QED
  BY <1>1, <1>2 DEF IsBegin

\* The number of connections stays within that of calls that connected.
LEMMA KeepMade ==
  ASSUME MadeInv, made \in Nat, made' = made, \A p \in Call : p \in Connected(sender) => p \in Connected(sender')
  PROVE  MadeInv'
<1>1. PICK S, T : S = Connected(sender') /\ T = Connected(sender)
  OBVIOUS
<1>2. S \subseteq Call /\ T \in SUBSET S
  BY <1>1 DEF Connected
<1>3. IsFiniteSet(S) /\ IsFiniteSet(T)
  BY <1>2, CallCount, FS_Subset
<1>4. Cardinality(T) <= Cardinality(S) /\ Cardinality(S) \in Nat /\ Cardinality(T) \in Nat
  BY <1>2, <1>3, FS_Subset, FS_CardinalityType
<1>5. made <= Cardinality(T)
  BY <1>1 DEF MadeInv
<1>6. made' <= Cardinality(S)
  BY <1>4, <1>5
<1> QED
  BY <1>1, <1>6 DEF MadeInv

\* A parcel is given to the transport.
LEMMA TransportSendInv ==
  ASSUME IInv, NEW p \in Parcel, TransportSend(p)
  PROVE  IInv'
<1>1. /\ sender[p] = "idle" /\ sender' = [sender EXCEPT ![p] = "route"]
      /\ p \notin Call => \E c \in Call : Reply[c] = p /\ c \in Range(log)
      /\ content' \subseteq Parcel /\ peerSeen' \subseteq Side /\ rushed' \subseteq Parcel
      /\ UNCHANGED <<via, packet, types, connSeen>> /\ UNCHANGED connVars /\ UNCHANGED wireVars
      /\ UNCHANGED endVars /\ UNCHANGED overlap
  BY Sides DEF TransportSend, IInv, TypeOK
<1>2. /\ sender \in [Parcel -> {"idle", "route", "connect", "bundle", "write",
                                "sent", "broken", "gone", "none", "noroute"}]
      /\ sender' \in [Parcel -> {"idle", "route", "connect", "bundle", "write",
                                "sent", "broken", "gone", "none", "noroute"}]
      /\ sender'[p] = "route" /\ \A q \in Parcel \ {p} : sender'[q] = sender[q]
  BY <1>1 DEF IInv, TypeOK
<1>3. TypeOK'
  BY <1>1, <1>2 DEF IInv, TypeOK, connVars, wireVars, endVars
<1>4. MadeInv'
  BY <1>1, <1>2, KeepMade DEF IInv, TypeOK, Connected, Parcel, connVars
<1>5. PacketInv'
  BY <1>1, <1>2 DEF IInv, PacketInv, PacketOf, Begun, connVars
<1>6. ChunkInv'
  BY <1>1, <1>2, SameStreams, KeepChunks DEF Begun, endVars
<1>7. LogInv'
  BY <1>1, <1>2, RangeOfSeq DEF IInv, TypeOK, LogInv, endVars
<1>8. RouteInv'
  <2>1. \A c \in Call : sender'[Reply[c]] # "idle" => c \in Range(log)
    BY <1>1, <1>2, Parcels DEF IInv, RouteInv
  <2> QED
    BY <1>1, <1>2, <2>1 DEF IInv, RouteInv, connVars, endVars
<1> QED
  BY <1>3, <1>4, <1>5, <1>6, <1>7, <1>8 DEF IInv

\* Steps of a sender before it writes: they choose a connection, and bundle the parcel.
LEMMA SenderTypes ==
  ASSUME IInv, NEW p \in Parcel, NEW x,
         x \in {"idle", "route", "connect", "bundle", "write", "sent", "broken", "gone", "none", "noroute"},
         sender' = [sender EXCEPT ![p] = x]
  PROVE  /\ sender' \in [Parcel -> {"idle", "route", "connect", "bundle", "write",
                                    "sent", "broken", "gone", "none", "noroute"}]
         /\ sender'[p] = x /\ \A q \in Parcel \ {p} : sender'[q] = sender[q]
  BY DEF IInv, TypeOK

\* The sender takes the connection from the cache, or has to make one.
LEMMA PickCachedInv ==
  ASSUME IInv, NEW p \in Parcel, PickCached(p)
  PROVE  IInv'
<1>1. /\ sender[p] = "route" /\ p \in Call
      /\ UNCHANGED <<packet, content, types>> /\ UNCHANGED seenVars /\ UNCHANGED connVars
      /\ UNCHANGED wireVars /\ UNCHANGED endVars /\ UNCHANGED history
  BY DEF PickCached, From
<1>2. PICK x \in {"bundle", "connect"} :
        /\ sender' = [sender EXCEPT ![p] = x]
        /\ via' \in [Parcel -> Conn \cup {None}]
        /\ \A q \in Parcel \ {p} : via'[q] = via[q]
        /\ x = "bundle" => via'[p] \in 1 .. made
  <2>1. CASE cache # None
    <3>1. cache \in 1 .. made /\ cache \in Conn
      BY <2>1, CallCount DEF IInv, TypeOK, Conn
    <3>2. via' = [via EXCEPT ![p] = cache] /\ sender' = [sender EXCEPT ![p] = "bundle"]
      BY <2>1 DEF PickCached
    <3>3. via \in [Parcel -> Conn \cup {None}]
      BY DEF IInv, TypeOK
    <3>4. via' \in [Parcel -> Conn \cup {None}] /\ via'[p] = cache /\ \A q \in Parcel \ {p} : via'[q] = via[q]
      BY <3>1, <3>2, <3>3
    <3> QED
      BY <3>1, <3>2, <3>4
  <2>2. CASE cache = None
    BY <2>2 DEF PickCached, IInv, TypeOK
  <2> QED
    BY <2>1, <2>2
<1>3. /\ sender' \in [Parcel -> {"idle", "route", "connect", "bundle", "write",
                                "sent", "broken", "gone", "none", "noroute"}]
      /\ sender'[p] = x /\ \A q \in Parcel \ {p} : sender'[q] = sender[q]
  BY <1>2, SenderTypes
<1>4. TypeOK'
  BY <1>1, <1>2, <1>3 DEF IInv, TypeOK, connVars, wireVars, endVars, seenVars, history
<1>5. MadeInv'
  BY <1>1, <1>3, KeepMade DEF IInv, TypeOK, Connected, Parcel, connVars
<1>6. PacketInv'
  BY <1>1, <1>2, <1>3 DEF IInv, PacketInv, PacketOf, Begun, connVars
<1>7. ChunkInv'
  BY <1>1, <1>2, <1>3, SameStreams, KeepChunks DEF Begun, endVars
<1>8. LogInv'
  BY <1>1, <1>3, RangeOfSeq DEF IInv, TypeOK, LogInv, endVars
<1>9. RouteInv'
  BY <1>1, <1>2, <1>3, Parcels DEF IInv, RouteInv, connVars, endVars
<1> QED
  BY <1>4, <1>5, <1>6, <1>7, <1>8, <1>9 DEF IInv

\* A new connection: its streams are empty.
LEMMA ConnectInv ==
  ASSUME IInv, NEW p \in Parcel, Connect(p)
  PROVE  IInv'
<1>1. /\ sender[p] = "connect" /\ p \in Call /\ sender' = [sender EXCEPT ![p] = "bundle"]
      /\ made \in Nat /\ made' = made + 1 /\ cache' = made + 1
      /\ via' = [via EXCEPT ![p] = made + 1]
      /\ UNCHANGED <<packet, content, types, lost, closed, doomed>> /\ UNCHANGED seenVars
      /\ UNCHANGED wireVars /\ UNCHANGED endVars /\ UNCHANGED history
  BY DEF Connect, IInv, TypeOK, PacketInv, PacketOf
<1>2. /\ sender' \in [Parcel -> {"idle", "route", "connect", "bundle", "write",
                                "sent", "broken", "gone", "none", "noroute"}]
      /\ sender'[p] = "bundle" /\ \A q \in Parcel \ {p} : sender'[q] = sender[q]
  BY <1>1, SenderTypes
<1>3. made + 1 <= Cardinality(Connected(sender')) /\ made + 1 <= Cardinality(Call)
  <2>1. PICK S, T : S = Connected(sender') /\ T = Connected(sender)
    OBVIOUS
  <2>2. S \subseteq Call /\ T \subseteq Call /\ S = T \cup {p} /\ p \notin T
    BY <1>1, <1>2, <2>1 DEF Connected, Parcel
  <2>3. IsFiniteSet(S) /\ IsFiniteSet(T) /\ Cardinality(S) \in Nat /\ Cardinality(T) \in Nat
        /\ Cardinality(S) <= Cardinality(Call)
    BY <2>2, CallCount, FS_Subset, FS_CardinalityType
  <2>4. Cardinality(S) = Cardinality(T) + 1
    BY <2>2, <2>3, FS_AddElement
  <2>5. made <= Cardinality(T)
    BY <2>1 DEF IInv, MadeInv
  <2>6. made + 1 <= Cardinality(S) /\ made + 1 <= Cardinality(Call)
    BY <1>1, <2>3, <2>4, <2>5, CallCount
  <2> QED
    BY <2>1, <2>6
<1>4. made + 1 \in Conn
  BY <1>1, <1>3, CallCount DEF Conn
<1>5. /\ via' \in [Parcel -> Conn \cup {None}]
      /\ via'[p] = made + 1 /\ \A q \in Parcel \ {p} : via'[q] = via[q]
  BY <1>1, <1>4 DEF IInv, TypeOK
<1>6. routes' \in Seq(1 .. made')
  <2>1. routes \in Seq(1 .. made) /\ (1 .. made) \subseteq 1 .. made'
    BY <1>1 DEF IInv, TypeOK
  <2> QED
    BY <1>1, <2>1, SeqMonotonic DEF endVars
<1>7. made' \in 0 .. Cardinality(Call) /\ lost' \subseteq 1 .. made' /\ cache' \in (1 .. made') \cup {None}
  BY <1>1, <1>3, CallCount DEF IInv, TypeOK
<1>8. TypeOK'
  BY <1>1, <1>2, <1>5, <1>6, <1>7 DEF IInv, TypeOK, wireVars, endVars, seenVars, history
<1>9. MadeInv'
  BY <1>1, <1>3 DEF MadeInv
<1>10. PacketInv'
  BY <1>1, <1>2, <1>5 DEF IInv, PacketInv, PacketOf, Begun
<1>11. ChunkInv'
  BY <1>1, <1>2, <1>5, SameStreams, KeepChunks DEF Begun, endVars
<1>12. LogInv'
  BY <1>1, <1>2, RangeOfSeq DEF IInv, TypeOK, LogInv, endVars
<1>13. RouteInv'
  BY <1>1, <1>2, Parcels DEF IInv, RouteInv, endVars
<1> QED
  BY <1>8, <1>9, <1>10, <1>11, <1>12, <1>13 DEF IInv

\* A reply takes the route its request has left.
LEMMA PickRouteInv ==
  ASSUME IInv, NEW p \in Parcel, PickRoute(p)
  PROVE  IInv'
<1>1. /\ sender[p] = "route" /\ p \notin Call
      /\ UNCHANGED <<packet, content, types>> /\ UNCHANGED seenVars /\ UNCHANGED connVars
      /\ UNCHANGED wireVars /\ UNCHANGED endVars /\ UNCHANGED history
  BY DEF PickRoute, From
<1>2. routes # <<>> /\ Head(routes) = routes[1] /\ routes[1] \in 1 .. made /\ routes[1] \in Conn
  <2>1. PICK c \in Call : Reply[c] = p
    BY <1>1 DEF Parcel
  <2>2. routes # <<>>
    BY <1>1, <2>1 DEF IInv, RouteInv
  <2>3. routes \in Seq(1 .. made) /\ made \in 0 .. Cardinality(Call)
    BY DEF IInv, TypeOK
  <2>4. Head(routes) = routes[1] /\ Head(routes) \in 1 .. made
    BY <2>2, <2>3, HeadTailProperties
  <2> QED
    BY <2>2, <2>3, <2>4, CallCount DEF Conn
<1>3. PICK x \in {"bundle", "gone"} :
        /\ sender' = [sender EXCEPT ![p] = x]
        /\ via' \in [Parcel -> Conn \cup {None}]
        /\ \A q \in Parcel \ {p} : via'[q] = via[q]
        /\ x = "bundle" => via'[p] \in 1 .. made
        /\ x = "gone" => routes[1] \in lost
  <2>1. CASE "server" \in closed[Head(routes)]
    BY <1>2, <2>1 DEF PickRoute, IInv, TypeOK, RouteInv
  <2>2. CASE "server" \notin closed[Head(routes)]
    BY <1>2, <2>2 DEF PickRoute, IInv, TypeOK
  <2> QED
    BY <2>1, <2>2
<1>4. /\ sender' \in [Parcel -> {"idle", "route", "connect", "bundle", "write",
                                "sent", "broken", "gone", "none", "noroute"}]
      /\ sender'[p] = x /\ \A q \in Parcel \ {p} : sender'[q] = sender[q]
  BY <1>3, SenderTypes
<1>5. TypeOK'
  BY <1>1, <1>3, <1>4 DEF IInv, TypeOK, connVars, wireVars, endVars, seenVars, history
<1>6. MadeInv'
  BY <1>1, <1>4, KeepMade DEF IInv, TypeOK, Connected, Parcel, connVars
<1>7. PacketInv'
  BY <1>1, <1>3, <1>4 DEF IInv, PacketInv, PacketOf, Begun, connVars
<1>8. ChunkInv'
  BY <1>1, <1>3, <1>4, SameStreams, KeepChunks DEF Begun, endVars
<1>9. LogInv'
  BY <1>1, <1>4, RangeOfSeq DEF IInv, TypeOK, LogInv, endVars
<1>10. RouteInv'
  BY <1>1, <1>2, <1>3, <1>4, Parcels DEF IInv, RouteInv, connVars, endVars
<1> QED
  BY <1>5, <1>6, <1>7, <1>8, <1>9, <1>10 DEF IInv

\* The packet of a parcel is made.
LEMMA BundleInv ==
  ASSUME IInv, NEW p \in Parcel, Bundle(p)
  PROVE  IInv'
<1> DEFINE full == <<<<p, 1>>, <<p, 2>>>>
<1>1. full \in Seq(Chunk) /\ full # <<>>
  BY DEF Chunk
<1>2. /\ sender[p] = "bundle" /\ sender' = [sender EXCEPT ![p] = "write"]
      /\ packet' = [packet EXCEPT ![p] = full] /\ via[p] \in 1 .. made /\ via[p] \in Conn
      /\ UNCHANGED <<via, content, peerSeen>> /\ UNCHANGED connVars /\ UNCHANGED wireVars
      /\ UNCHANGED endVars /\ UNCHANGED rushed
  BY CallCount DEF Bundle, IInv, TypeOK, PacketInv, PacketOf, Conn
<1>3. /\ types' \subseteq Parcel /\ connSeen' \in [Conn -> SUBSET Side] /\ overlap' \subseteq Conn \X Side
  BY <1>2, Sides DEF Bundle, IInv, TypeOK
<1>4. /\ sender' \in [Parcel -> {"idle", "route", "connect", "bundle", "write",
                                "sent", "broken", "gone", "none", "noroute"}]
      /\ sender'[p] = "write" /\ \A q \in Parcel \ {p} : sender'[q] = sender[q]
  BY <1>2, SenderTypes
<1>5. /\ packet' \in [Parcel -> Seq(Parcel \X {1, 2})]
      /\ packet'[p] = full /\ \A q \in Parcel \ {p} : packet'[q] = packet[q]
  <2>1. packet \in [Parcel -> Seq(Chunk)]
    BY DEF IInv, TypeOK, Chunk
  <2> HIDE DEF full
  <2> QED
    BY <1>1, <1>2, <2>1 DEF Chunk
<1>6. TypeOK'
  BY <1>2, <1>3, <1>4, <1>5 DEF IInv, TypeOK, connVars, wireVars, endVars
<1>7. MadeInv'
  BY <1>2, <1>4, KeepMade DEF IInv, TypeOK, Connected, Parcel, connVars
<1>8. PacketInv'
  <2>1. PacketOf(p, sender'[p], packet'[p], via'[p], made')
    BY <1>1, <1>2, <1>4, <1>5 DEF PacketOf, connVars
  <2> QED
    BY <1>2, <1>4, <1>5, <2>1 DEF IInv, PacketInv, PacketOf, connVars
<1>9. ChunkInv'
  <2>1. \A q \in Parcel : sender[q] \in Begun => q # p
    BY <1>2 DEF Begun
  <2> HIDE DEF full
  <2> QED
    BY <1>2, <1>4, <1>5, <2>1, SameStreams, KeepChunks DEF endVars
<1>10. LogInv'
  BY <1>2, <1>4, RangeOfSeq DEF IInv, TypeOK, LogInv, endVars
<1>11. RouteInv'
  BY <1>2, <1>4, Parcels DEF IInv, RouteInv, connVars, endVars
<1> QED
  BY <1>6, <1>7, <1>8, <1>9, <1>10, <1>11 DEF IInv

-----------------------------------------------------------------------------
\* y is x and what was written after it.
Extends(y, x, new) ==
    /\ Len(y) = Len(x) + Len(new)
    /\ \A i \in 1 .. Len(x) : y[i] = x[i]
    /\ \A j \in 1 .. Len(new) : y[Len(x) + j] = new[j]

\* Chunks written to the wire come at the end of the stream.
LEMMA ExtendStream ==
  ASSUME NEW x \in Seq(Chunk), NEW y \in Seq(Chunk), NEW new \in Seq(Chunk)
  PROVE  /\ y \o new \in Seq(Chunk)
         /\ Extends(x \o (y \o new), x \o y, new)
<1>1. PICK z \in Seq(Chunk) : z = x \o y
  BY ConcatProperties
<1>2. PICK w \in Seq(Chunk) : w = y \o new
  BY ConcatProperties
<1>3. PICK r \in Seq(Chunk) : r = x \o w
  BY ConcatProperties
<1>4. Len(x) \in Nat /\ Len(y) \in Nat /\ Len(new) \in Nat
  BY LenProperties
<1>5. /\ Len(z) = Len(x) + Len(y)
      /\ \A i \in 1 .. Len(x) + Len(y) : z[i] = IF i <= Len(x) THEN x[i] ELSE y[i - Len(x)]
  BY <1>1, ConcatProperties
<1>6. /\ Len(w) = Len(y) + Len(new)
      /\ \A i \in 1 .. Len(y) + Len(new) : w[i] = IF i <= Len(y) THEN y[i] ELSE new[i - Len(y)]
  BY <1>2, ConcatProperties
<1>7. /\ Len(r) = Len(x) + Len(w)
      /\ \A i \in 1 .. Len(x) + Len(w) : r[i] = IF i <= Len(x) THEN x[i] ELSE w[i - Len(x)]
  BY <1>3, ConcatProperties
<1>8. ASSUME NEW i \in 1 .. Len(z)
      PROVE  r[i] = z[i]
  <2>1. CASE i <= Len(x)
    <3>1. i \in 1 .. Len(x) + Len(w) /\ i \in 1 .. Len(x) + Len(y)
      BY <1>4, <1>5, <1>6
    <3> QED
      BY <1>5, <1>7, <2>1, <3>1
  <2>2. CASE ~(i <= Len(x))
    <3>1. i - Len(x) \in 1 .. Len(y) /\ i \in 1 .. Len(x) + Len(w) /\ i \in 1 .. Len(x) + Len(y)
      BY <1>4, <1>5, <1>6, <2>2
    <3>2. i - Len(x) \in 1 .. Len(y) + Len(new) /\ i - Len(x) <= Len(y)
      BY <1>4, <3>1
    <3>3. r[i] = w[i - Len(x)] /\ z[i] = y[i - Len(x)]
      BY <1>5, <1>7, <2>2, <3>1
    <3>4. w[i - Len(x)] = y[i - Len(x)]
      BY <1>6, <3>2
    <3> QED
      BY <3>3, <3>4
  <2> QED
    BY <2>1, <2>2
<1>9. ASSUME NEW j \in 1 .. Len(new)
      PROVE  r[Len(z) + j] = new[j]
  <2>1. PICK i : i = Len(z) + j
    OBVIOUS
  <2>2. i \in 1 .. Len(x) + Len(w) /\ ~(i <= Len(x)) /\ i - Len(x) = Len(y) + j
    BY <1>4, <1>5, <1>6, <2>1
  <2>3. Len(y) + j \in 1 .. Len(y) + Len(new) /\ ~(Len(y) + j <= Len(y)) /\ (Len(y) + j) - Len(y) = j
    BY <1>4
  <2>4. w[Len(y) + j] = new[j]
    BY <1>6, <2>3
  <2>5. r[i] = w[Len(y) + j]
    BY <1>7, <2>2
  <2> QED
    BY <2>1, <2>4, <2>5
<1>10. Len(r) = Len(z) + Len(new)
  BY <1>4, <1>5, <1>6, <1>7
<1>11. Extends(r, z, new)
  BY <1>8, <1>9, <1>10 DEF Extends
<1> QED
  BY <1>1, <1>2, <1>3, <1>11

\* One iteration of the loop of Connection.send: `new' goes from the packet to the end
\* of the stream.
Moved(p, new) ==
    \/ packet[p] = Half(p) /\ new = Half(p) /\ packet'[p] = <<>> /\ sender'[p] = "sent"
    \/ packet[p] = Full(p) /\ new = <<<<p, 1>>>> /\ packet'[p] = Half(p) /\ sender'[p] = "write"
    \/ packet[p] = Full(p) /\ new = Full(p) /\ packet'[p] = <<>> /\ sender'[p] = "sent"

\* The whole packet and the rest of one.
LEMMA Packets ==
  ASSUME NEW p \in Parcel
  PROVE  /\ Half(p) \in Seq(Chunk) /\ Len(Half(p)) = 1 /\ Half(p)[1] = <<p, 2>>
         /\ Full(p) \in Seq(Chunk) /\ Len(Full(p)) = 2 /\ Full(p)[1] = <<p, 1>> /\ Full(p)[2] = <<p, 2>>
         /\ <<<<p, 1>>>> \in Seq(Chunk) /\ Len(<<<<p, 1>>>>) = 1 /\ <<<<p, 1>>>>[1] = <<p, 1>>
         /\ <<>> \in Seq(Chunk) /\ Len(<<>>) = 0
         /\ Half(p) # <<>> /\ Full(p) # <<>>
  BY DEF Chunk, Half, Full

\* The chunks of one write are those of one parcel, and the last comes last.
LEMMA MovedChunks ==
  ASSUME NEW p \in Parcel, NEW new \in Seq(Chunk), Moved(p, new)
  PROVE  /\ Len(new) \in 1 .. 2
         /\ \A j \in 1 .. Len(new) :
             /\ new[j] \in Chunk /\ new[j][1] = p /\ new[j][2] \in {1, 2}
             /\ new[j][2] = 2 => sender'[p] = "sent"
         /\ \A i, j \in 1 .. Len(new) : new[i] = new[j] => i = j
         /\ Len(packet'[p]) < 2 /\ sender'[p] \in {"write", "sent"}
         /\ Len(packet[p]) < 2 => sender'[p] = "sent" /\ \A j \in 1 .. Len(new) : new[j][2] = 2
<1>0. <<p, 1>> \in Chunk /\ <<p, 2>> \in Chunk
  BY DEF Chunk
<1>1. \A n : Len(n) = 1 => 1 .. Len(n) = {1}
  OBVIOUS
<1>2. \A n : Len(n) = 2 => 1 .. Len(n) = {1, 2}
  OBVIOUS
<1>3. CASE packet[p] = Half(p) /\ new = Half(p) /\ packet'[p] = <<>> /\ sender'[p] = "sent"
  <2>1. Len(new) = 1 /\ new[1] = <<p, 2>> /\ new[1] \in Chunk
    BY <1>0, <1>3, Packets
  <2>2. Len(packet'[p]) = 0 /\ 1 .. Len(new) = {1}
    BY <1>1, <1>3, <2>1, Packets
  <2> QED
    BY <1>3, <2>1, <2>2
<1>4. CASE packet[p] = Full(p) /\ new = <<<<p, 1>>>> /\ packet'[p] = Half(p) /\ sender'[p] = "write"
  <2>1. 1 .. Len(new) = {1} /\ new[1] = <<p, 1>> /\ Len(new) = 1 /\ Len(packet'[p]) = 1 /\ new[1] \in Chunk
        /\ Len(packet[p]) = 2
    BY <1>0, <1>1, <1>4, Packets
  <2> QED
    BY <1>4, <2>1
<1>5. CASE packet[p] = Full(p) /\ new = Full(p) /\ packet'[p] = <<>> /\ sender'[p] = "sent"
  <2>1. /\ Len(new) = 2 /\ new[1] = <<p, 1>> /\ new[2] = <<p, 2>>
        /\ new[1] \in Chunk /\ new[2] \in Chunk
    BY <1>0, <1>5, Packets
  <2>2. Len(packet'[p]) = 0 /\ Len(packet[p]) = 2 /\ 1 .. Len(new) = {1, 2}
    BY <1>2, <1>5, <2>1, Packets
  <2> QED
    BY <1>5, <2>1, <2>2
<1> QED
  BY <1>3, <1>4, <1>5 DEF Moved

\* `new' goes from the packet of p to the end of the stream to s on k.
Extended(p, new, k, s) ==
    /\ Moved(p, new)
    /\ \A l \in Conn, t \in Side :
        IF l = k /\ t = s
        THEN Extends(Stream(buffer', wire', l, t), Stream(buffer, wire, l, t), new)
        ELSE Stream(buffer', wire', l, t) = Stream(buffer, wire, l, t)

\* A write extends one stream by chunks of one parcel, and touches no other.
LEMMA WriteStep ==
  ASSUME IInv, NEW p \in Parcel, NEW n \in 1 .. 2, Write(p, n)
  PROVE  /\ sender[p] = "write" /\ via[p] \in Conn /\ via[p] \in 1 .. made /\ via[p] \notin lost
         /\ sender' \in [Parcel -> {"idle", "route", "connect", "bundle", "write",
                                    "sent", "broken", "gone", "none", "noroute"}]
         /\ packet' \in [Parcel -> Seq(Chunk)] /\ wire' \in [Conn -> [Side -> Seq(Chunk)]] /\ buffer' = buffer
         /\ \A q \in Parcel \ {p} : sender'[q] = sender[q] /\ packet'[q] = packet[q]
         /\ \E new \in Seq(Chunk) : Extended(p, new, via[p], Other(From(p)))
<1>1. /\ sender[p] = "write" /\ via[p] \in 1 .. made /\ via[p] \in Conn /\ via[p] \notin lost
      /\ packet[p] \in {Half(p), Full(p)}
  BY CallCount DEF Write, IInv, TypeOK, PacketInv, PacketOf, Begun, Half, Full, Conn
<1>2. PICK k \in Conn, s \in Side : k = via[p] /\ s = Other(From(p))
  BY <1>1, Sides
<1>3. PICK new, rest : new = SubSeq(packet[p], 1, n) /\ rest = SubSeq(packet[p], n + 1, Len(packet[p]))
  OBVIOUS
<1>4. /\ n \in 1 .. Len(packet[p])
      /\ wire' = [wire EXCEPT ![k][s] = wire[k][s] \o new]
      /\ packet' = [packet EXCEPT ![p] = rest]
      /\ sender' = [sender EXCEPT ![p] = IF packet'[p] = <<>> THEN "sent" ELSE sender[p]]
      /\ buffer' = buffer
  BY <1>2, <1>3 DEF Write
<1>5. \/ packet[p] = Half(p) /\ new = Half(p) /\ rest = <<>>
      \/ packet[p] = Full(p) /\ new = <<<<p, 1>>>> /\ rest = Half(p)
      \/ packet[p] = Full(p) /\ new = Full(p) /\ rest = <<>>
  <2>1. PICK pkt : pkt = packet[p]
    OBVIOUS
  <2>2. n \in 1 .. Len(pkt) /\ pkt \in {Half(p), Full(p)}
    BY <1>1, <1>4, <2>1
  <2>3. Parts(pkt, n, new, rest)
    BY <1>3, <2>1 DEF Parts
  <2>4. \/ pkt = Half(p) /\ new = Half(p) /\ rest = <<>>
        \/ pkt = Full(p) /\ new = <<<<p, 1>>>> /\ rest = Half(p)
        \/ pkt = Full(p) /\ new = Full(p) /\ rest = <<>>
    BY <2>2, <2>3, PacketParts
  <2> QED
    BY <2>1, <2>4
<1>6. new \in Seq(Chunk) /\ rest \in Seq(Chunk)
  BY <1>5, Packets
<1>7. /\ packet \in [Parcel -> Seq(Chunk)] /\ wire \in [Conn -> [Side -> Seq(Chunk)]]
      /\ buffer \in [Conn -> [Side -> Seq(Chunk)]]
  BY DEF IInv, TypeOK, Chunk
<1>8. /\ packet' \in [Parcel -> Seq(Chunk)] /\ packet'[p] = rest
      /\ \A q \in Parcel \ {p} : packet'[q] = packet[q]
  BY <1>4, <1>6, <1>7
<1>9. PICK x \in {"sent", "write"} : sender' = [sender EXCEPT ![p] = x] /\ x = IF rest = <<>> THEN "sent" ELSE "write"
  BY <1>1, <1>4, <1>8
<1>10. /\ sender' \in [Parcel -> {"idle", "route", "connect", "bundle", "write",
                                 "sent", "broken", "gone", "none", "noroute"}]
       /\ sender'[p] = x /\ \A q \in Parcel \ {p} : sender'[q] = sender[q]
  BY <1>9, SenderTypes
<1>11. Moved(p, new)
  BY <1>5, <1>8, <1>9, <1>10, Packets DEF Moved
<1>12. PICK a \in Seq(Chunk), b \in Seq(Chunk) : a = buffer[k][s] /\ b = wire[k][s]
  BY <1>7
<1>13. b \o new \in Seq(Chunk) /\ Extends(a \o (b \o new), a \o b, new)
  BY <1>6, ExtendStream
<1>14. /\ wire' \in [Conn -> [Side -> Seq(Chunk)]]
       /\ wire'[k][s] = b \o new
       /\ \A l \in Conn, t \in Side : (l = k /\ t = s) \/ wire'[l][t] = wire[l][t]
  BY <1>4, <1>7, <1>12, <1>13
<1>15. Extends(Stream(buffer', wire', k, s), Stream(buffer, wire, k, s), new)
  BY <1>4, <1>12, <1>13, <1>14 DEF Stream
<1>16. ASSUME NEW l \in Conn, NEW t \in Side, ~(l = k /\ t = s)
       PROVE  Stream(buffer', wire', l, t) = Stream(buffer, wire, l, t)
  BY <1>4, <1>14, <1>16 DEF Stream
<1>17. \A l \in Conn, t \in Side :
         IF l = via[p] /\ t = Other(From(p))
         THEN Extends(Stream(buffer', wire', l, t), Stream(buffer, wire, l, t), new)
         ELSE Stream(buffer', wire', l, t) = Stream(buffer, wire, l, t)
  BY <1>2, <1>15, <1>16
<1>19. Extended(p, new, via[p], Other(From(p)))
  BY <1>11, <1>17 DEF Extended
<1>18. \A q \in Parcel \ {p} : sender'[q] = sender[q] /\ packet'[q] = packet[q]
  BY <1>8, <1>10
<1> QED
  BY <1>1, <1>4, <1>6, <1>8, <1>10, <1>14, <1>18, <1>19

\* A write keeps the invariant.
LEMMA WriteInv ==
  ASSUME IInv, NEW p \in Parcel, NEW n \in 1 .. 2, Write(p, n)
  PROVE  IInv'
<1>1. PICK k \in Conn, s \in Side : k = via[p] /\ s = Other(From(p)) /\ From(p) = Other(s)
  BY WriteStep, Sides
<1>2. PICK new \in Seq(Chunk) :
        /\ Moved(p, new)
        /\ \A l \in Conn, t \in Side :
            IF l = k /\ t = s
            THEN Extends(Stream(buffer', wire', l, t), Stream(buffer, wire, l, t), new)
            ELSE Stream(buffer', wire', l, t) = Stream(buffer, wire, l, t)
  <2>1. \E new \in Seq(Chunk) : Extended(p, new, k, s)
    <3>1. \E new \in Seq(Chunk) : Extended(p, new, via[p], Other(From(p)))
      BY WriteStep
    <3> QED
      BY <1>1, <3>1
  <2> QED
    BY <2>1 DEF Extended
<1>3. /\ UNCHANGED <<via, content, types>> /\ UNCHANGED seenVars /\ UNCHANGED connVars
      /\ UNCHANGED endVars /\ UNCHANGED history
  BY DEF Write
<1>4. /\ sender[p] = "write" /\ via[p] \in 1 .. made
      /\ sender' \in [Parcel -> {"idle", "route", "connect", "bundle", "write",
                                 "sent", "broken", "gone", "none", "noroute"}]
      /\ packet' \in [Parcel -> Seq(Chunk)] /\ wire' \in [Conn -> [Side -> Seq(Chunk)]] /\ buffer' = buffer
      /\ \A q \in Parcel \ {p} : sender'[q] = sender[q] /\ packet'[q] = packet[q]
  BY WriteStep
<1>5. sender'[p] \in {"sent", "write"} /\ packet'[p] \in {<<>>, Half(p)}
      /\ (sender'[p] = "write" <=> packet'[p] # <<>>)
  BY <1>2, Packets DEF Moved
<1>6. TypeOK'
  BY <1>3, <1>4 DEF IInv, TypeOK, Chunk, seenVars, connVars, endVars, history
<1>7. MadeInv'
  BY <1>3, <1>4, <1>5, KeepMade DEF IInv, TypeOK, Connected, Parcel, connVars
<1>8. PacketInv'
  <2>1. PacketOf(p, sender'[p], packet'[p], via'[p], made')
    BY <1>3, <1>4, <1>5 DEF PacketOf, connVars, Half
  <2>2. \A q \in Parcel \ {p} : PacketOf(q, sender'[q], packet'[q], via'[q], made')
    BY <1>3, <1>4 DEF IInv, PacketInv, connVars
  <2> QED
    BY <2>1, <2>2 DEF PacketInv
\* No chunk of the packet was in the stream, and what was there stays as it was.
<1>9. ASSUME NEW c \in Chunk, NEW l \in Conn, NEW t \in Side, ChunkOf(c, l, t, sender, packet, via, log)
      PROVE  /\ ChunkOf(c, l, t, sender', packet', via', log')
             /\ \A j \in 1 .. Len(new) : c # new[j]
  <2>1. c[1] \in Parcel /\ c[2] \in {1, 2}
    BY DEF Chunk
  <2>2. CASE c[1] # p
    <3>1. \A j \in 1 .. Len(new) : new[j][1] = p
      BY <1>2, MovedChunks
    <3> QED
      BY <1>3, <1>4, <1>9, <2>1, <2>2, <3>1 DEF ChunkOf, endVars
  <2>3. CASE c[1] = p
    <3>1. c[2] = 1 /\ Len(packet[p]) < 2
      BY <1>4, <1>9, <2>1, <2>3 DEF ChunkOf
    <3>2. sender'[p] = "sent" /\ Len(packet'[p]) < 2 /\ \A j \in 1 .. Len(new) : new[j][2] = 2
      BY <1>2, <3>1, MovedChunks
    <3> QED
      BY <1>3, <1>9, <2>3, <3>1, <3>2 DEF ChunkOf, Begun, endVars
  <2> QED
    BY <2>2, <2>3
<1>10. /\ \A i, j \in 1 .. Len(new) : new[i] = new[j] => i = j
       /\ \A j \in 1 .. Len(new) : new[j] \in Chunk /\ ChunkOf(new[j], k, s, sender', packet', via', log')
  <2>1. p \notin Range(log')
    BY <1>3, <1>4 DEF IInv, LogInv, endVars
  <2>2. \A j \in 1 .. Len(new) : new[j][1] = p /\ (new[j][2] = 2 => sender'[p] = "sent")
    BY <1>2, MovedChunks
  <2>3. Len(packet'[p]) < 2 /\ sender'[p] \in Begun
    BY <1>2, MovedChunks DEF Begun
  <2>4. via'[p] = k /\ From(p) = Other(s)
    BY <1>1, <1>3
  <2>5. \A j \in 1 .. Len(new) : ChunkOf(new[j], k, s, sender', packet', via', log')
    BY <2>1, <2>2, <2>3, <2>4 DEF ChunkOf
  <2> QED
    BY <1>2, <2>5, MovedChunks
<1>11. ChunkInv'
  <2> SUFFICES ASSUME NEW l \in Conn, NEW t \in Side
               PROVE  /\ IsInjective(Stream(buffer', wire', l, t))
                      /\ \A i \in DOMAIN Stream(buffer', wire', l, t) :
                          ChunkOf(Stream(buffer', wire', l, t)[i], l, t, sender', packet', via', log')
    BY DEF ChunkInv
  <2>1. PICK x, y : x = Stream(buffer, wire, l, t) /\ y = Stream(buffer', wire', l, t)
    OBVIOUS
  <2>2. buffer \in [Conn -> [Side -> Seq(Chunk)]] /\ wire \in [Conn -> [Side -> Seq(Chunk)]]
    BY DEF IInv, TypeOK, Chunk
  <2>3. x \in Seq(Chunk) /\ y \in Seq(Chunk)
    <3>1. Stream(buffer, wire, l, t) \in Seq(Chunk)
      BY <2>2, StreamParts
    <3>2. Stream(buffer, wire', l, t) \in Seq(Chunk)
      BY <1>4, <2>2, StreamParts
    <3> QED
      BY <1>4, <2>1, <3>1, <3>2
  <2>4. Len(x) \in Nat /\ DOMAIN x = 1 .. Len(x) /\ Len(y) \in Nat /\ DOMAIN y = 1 .. Len(y) /\ Len(new) \in Nat
    BY <2>3, LenProperties
  <2>5. IsInjective(x) /\ \A i \in DOMAIN x : x[i] \in Chunk /\ ChunkOf(x[i], l, t, sender, packet, via, log)
    BY <2>1, <2>3, <2>4, ElementOfSeq DEF IInv, ChunkInv
  <2>6. \A i \in DOMAIN x : ChunkOf(x[i], l, t, sender', packet', via', log') /\ \A j \in 1 .. Len(new) : x[i] # new[j]
    BY <1>9, <2>5
  <2>7. CASE ~(l = k /\ t = s)
    BY <1>2, <2>1, <2>5, <2>6, <2>7
  <2>8. CASE l = k /\ t = s
    <3>1. Extends(y, x, new)
      BY <1>2, <2>1, <2>8
    <3>2. ASSUME NEW i \in DOMAIN y
          PROVE  (i \in DOMAIN x /\ y[i] = x[i]) \/ (i - Len(x) \in 1 .. Len(new) /\ y[i] = new[i - Len(x)])
      BY <2>4, <3>1 DEF Extends
    <3>3. IsInjective(y)
      <4> SUFFICES ASSUME NEW i \in DOMAIN y, NEW j \in DOMAIN y, y[i] = y[j] PROVE i = j
        BY DEF IsInjective
      <4>1. (i \in DOMAIN x /\ y[i] = x[i]) \/ (i - Len(x) \in 1 .. Len(new) /\ y[i] = new[i - Len(x)])
        BY <3>2
      <4>2. (j \in DOMAIN x /\ y[j] = x[j]) \/ (j - Len(x) \in 1 .. Len(new) /\ y[j] = new[j - Len(x)])
        BY <3>2
      <4>3. i \in Int /\ j \in Int
        BY <2>4
      <4>4. CASE i \in DOMAIN x /\ j \in DOMAIN x
        BY <2>4, <2>5, <3>1, <4>4 DEF IsInjective, Extends
      <4>5. CASE i \notin DOMAIN x /\ j \notin DOMAIN x
        <5>1. i - Len(x) = j - Len(x)
          BY <1>10, <4>1, <4>2, <4>5
        <5> QED
          BY <2>4, <4>3, <5>1
      <4> QED
        BY <2>6, <4>1, <4>2, <4>4, <4>5
    <3>4. \A i \in DOMAIN y : ChunkOf(y[i], l, t, sender', packet', via', log')
      BY <1>10, <2>6, <2>8, <3>2
    <3> QED
      BY <2>1, <3>3, <3>4
  <2> QED
    BY <2>7, <2>8
<1>12. LogInv'
  BY <1>3, <1>4, RangeOfSeq DEF IInv, TypeOK, LogInv, endVars
<1>13. RouteInv'
  BY <1>3, <1>4, <1>5, Parcels DEF IInv, RouteInv, connVars, endVars
<1> QED
  BY <1>6, <1>7, <1>8, <1>11, <1>12, <1>13 DEF IInv

\* The two ways in which a write ends in vain.
LEMMA VainWriteInv ==
  ASSUME IInv, NEW p \in Parcel, WriteToLost(p) \/ WriteToNone(p)
  PROVE  IInv' /\ via[p] \in lost
<1>1. PICK x \in {"sent", "broken", "none"} :
        /\ sender[p] = "write" /\ sender' = [sender EXCEPT ![p] = x]
        /\ packet' = [packet EXCEPT ![p] = <<>>]
        /\ UNCHANGED <<via, content, types>> /\ UNCHANGED seenVars /\ UNCHANGED connVars
        /\ UNCHANGED wireVars /\ UNCHANGED endVars /\ UNCHANGED history
  BY DEF WriteToLost, WriteToNone
<1>2. via[p] \in lost
  <2>1. via[p] \in Conn
    BY <1>1, CallCount DEF IInv, TypeOK, PacketInv, PacketOf, Begun, Conn
  <2> QED
    BY <2>1 DEF WriteToLost, WriteToNone, IInv, RouteInv
<1>3. /\ sender' \in [Parcel -> {"idle", "route", "connect", "bundle", "write",
                                "sent", "broken", "gone", "none", "noroute"}]
      /\ sender'[p] = x /\ \A q \in Parcel \ {p} : sender'[q] = sender[q]
  BY <1>1, SenderTypes
<1>4. /\ packet' \in [Parcel -> Seq(Chunk)] /\ packet'[p] = <<>> /\ Len(packet'[p]) < 2
      /\ \A q \in Parcel \ {p} : packet'[q] = packet[q]
  BY <1>1, Packets DEF IInv, TypeOK, Chunk
<1>5. TypeOK'
  BY <1>1, <1>3, <1>4 DEF IInv, TypeOK, Chunk, seenVars, connVars, wireVars, endVars, history
<1>6. MadeInv'
  BY <1>1, <1>3, KeepMade DEF IInv, TypeOK, Connected, Parcel, connVars
<1>7. PacketInv'
  BY <1>1, <1>3, <1>4 DEF IInv, PacketInv, PacketOf, Begun, connVars
<1>8. ChunkInv'
  BY <1>1, <1>3, <1>4, SameStreams, KeepChunks DEF Begun, endVars
<1>9. LogInv'
  BY <1>1, <1>3, RangeOfSeq DEF IInv, TypeOK, LogInv, endVars
<1>10. RouteInv'
  BY <1>1, <1>3, Parcels DEF IInv, RouteInv, connVars, endVars
<1> QED
  BY <1>2, <1>5, <1>6, <1>7, <1>8, <1>9, <1>10 DEF IInv

\* A read moves chunks from the wire to the buffer: no stream changes.
LEMMA ReadStep ==
  ASSUME IInv, NEW k \in Conn, NEW s \in Side, Read(k, s)
  PROVE  /\ buffer' \in [Conn -> [Side -> Seq(Chunk)]] /\ wire' \in [Conn -> [Side -> Seq(Chunk)]]
         /\ \A l \in Conn, t \in Side : Stream(buffer', wire', l, t) = Stream(buffer, wire, l, t)
<1>1. /\ buffer' = [buffer EXCEPT ![k][s] = buffer[k][s] \o wire[k][s]]
      /\ wire' = [wire EXCEPT ![k][s] = <<>>]
  BY DEF Read
<1>2. buffer \in [Conn -> [Side -> Seq(Chunk)]] /\ wire \in [Conn -> [Side -> Seq(Chunk)]]
  BY DEF IInv, TypeOK, Chunk
<1>3. PICK x \in Seq(Chunk), y \in Seq(Chunk) : x = buffer[k][s] /\ y = wire[k][s]
  BY <1>2
<1>4. x \o y \in Seq(Chunk) /\ <<>> \in Seq(Chunk) /\ (x \o y) \o <<>> = x \o y
  BY ConcatProperties, NoneRead
<1>5. /\ buffer' \in [Conn -> [Side -> Seq(Chunk)]] /\ buffer'[k][s] = x \o y
      /\ \A l \in Conn, t \in Side : (l = k /\ t = s) \/ buffer'[l][t] = buffer[l][t]
  BY <1>1, <1>2, <1>3, <1>4
<1>6. /\ wire' \in [Conn -> [Side -> Seq(Chunk)]] /\ wire'[k][s] = <<>>
      /\ \A l \in Conn, t \in Side : (l = k /\ t = s) \/ wire'[l][t] = wire[l][t]
  BY <1>1, <1>2, <1>4
<1>7. ASSUME NEW l \in Conn, NEW t \in Side
      PROVE  Stream(buffer', wire', l, t) = Stream(buffer, wire, l, t)
  <2>1. CASE l = k /\ t = s
    BY <1>3, <1>4, <1>5, <1>6, <2>1 DEF Stream
  <2>2. CASE ~(l = k /\ t = s)
    BY <1>5, <1>6, <2>2 DEF Stream
  <2> QED
    BY <2>1, <2>2
<1> QED
  BY <1>5, <1>6, <1>7

\* A read keeps the invariant.
LEMMA ReadInv ==
  ASSUME IInv, NEW k \in Conn, NEW s \in Side, Read(k, s)
  PROVE  IInv'
<1>1. /\ UNCHANGED sendVars /\ UNCHANGED seenVars /\ UNCHANGED connVars
      /\ UNCHANGED endVars /\ UNCHANGED history
  BY DEF Read
<1>2. /\ buffer' \in [Conn -> [Side -> Seq(Chunk)]] /\ wire' \in [Conn -> [Side -> Seq(Chunk)]]
      /\ \A l \in Conn, t \in Side : Stream(buffer', wire', l, t) = Stream(buffer, wire, l, t)
  BY ReadStep
<1>3. TypeOK'
  BY <1>1, <1>2 DEF IInv, TypeOK, Chunk, sendVars, seenVars, connVars, endVars, history
<1>4. ChunkInv'
  BY <1>1, <1>2 DEF IInv, ChunkInv, sendVars, endVars
<1>5. MadeInv' /\ PacketInv' /\ LogInv' /\ RouteInv'
  BY <1>1 DEF IInv, MadeInv, PacketInv, LogInv, RouteInv, sendVars, connVars, endVars
<1> QED
  BY <1>3, <1>4, <1>5 DEF IInv

\* Steps that change neither streams nor parcels: a socket that is closed, a selector
\* thread that fails, the cache entry of a closed connection.
LEMMA ConnectionInv ==
  ASSUME IInv, UNCHANGED sendVars, UNCHANGED seenVars, UNCHANGED wireVars, UNCHANGED history,
         UNCHANGED <<made, lost, known, routes, log, unresolved>>,
         closed' \in [Conn -> SUBSET Side], cache' \in {cache, None}, doomed' \in BOOLEAN, failed' \subseteq Side,
         \A k \in Conn : closed'[k] # {} => k \in lost
  PROVE  IInv'
<1>1. TypeOK'
  BY DEF IInv, TypeOK, sendVars, seenVars, wireVars, history
<1>2. ChunkInv'
  BY SameStreams DEF IInv, ChunkInv, sendVars
<1>3. MadeInv' /\ PacketInv' /\ LogInv' /\ RouteInv'
  BY DEF IInv, MadeInv, PacketInv, LogInv, RouteInv, sendVars
<1> QED
  BY <1>1, <1>2, <1>3 DEF IInv

\* A side learns that a connection was lost.
LEMMA CloseInv ==
  ASSUME IInv, NEW k \in Conn, NEW s \in Side, Close(k, s)
  PROVE  IInv'
<1>1. /\ k \in lost /\ closed' = [closed EXCEPT ![k] = closed[k] \cup {s}]
      /\ UNCHANGED sendVars /\ UNCHANGED seenVars /\ UNCHANGED wireVars /\ UNCHANGED history
      /\ UNCHANGED endVars /\ UNCHANGED <<made, lost, cache, doomed>>
  BY DEF Close
<1>2. /\ closed' \in [Conn -> SUBSET Side] /\ \A l \in Conn : closed'[l] # {} => l \in lost
      /\ doomed' \in BOOLEAN /\ failed' \subseteq Side
  BY <1>1 DEF IInv, TypeOK, RouteInv, endVars
<1> QED
  BY <1>1, <1>2, ConnectionInv DEF endVars

\* A packet cannot be decoded: the selector thread ends.
LEMMA ProcessFailsInv ==
  ASSUME IInv, NEW k \in Conn, NEW s \in Side, ProcessFails(k, s)
  PROVE  IInv'
<1>1. /\ failed' = failed \cup {s}
      /\ UNCHANGED sendVars /\ UNCHANGED seenVars /\ UNCHANGED wireVars /\ UNCHANGED history
      /\ UNCHANGED connVars /\ UNCHANGED <<known, routes, log, unresolved>>
  BY DEF ProcessFails
<1>2. /\ closed' \in [Conn -> SUBSET Side] /\ \A l \in Conn : closed'[l] # {} => l \in lost
      /\ doomed' \in BOOLEAN /\ failed' \subseteq Side
  BY <1>1 DEF IInv, TypeOK, RouteInv, connVars
<1> QED
  BY <1>1, <1>2, ConnectionInv DEF connVars

\* A closed connection is found, then removed from the cache.
LEMMA CacheInv ==
  ASSUME IInv, FindClosed \/ RemoveClosed
  PROVE  IInv'
<1>1. /\ UNCHANGED sendVars /\ UNCHANGED seenVars /\ UNCHANGED wireVars /\ UNCHANGED history
      /\ UNCHANGED endVars /\ UNCHANGED <<made, lost, closed>>
      /\ doomed' \in BOOLEAN /\ cache' \in {cache, None}
  BY DEF FindClosed, RemoveClosed
<1>2. /\ closed' \in [Conn -> SUBSET Side] /\ \A l \in Conn : closed'[l] # {} => l \in lost
      /\ failed' \subseteq Side
  BY <1>1 DEF IInv, TypeOK, RouteInv, endVars
<1> QED
  BY <1>1, <1>2, ConnectionInv DEF endVars
-----------------------------------------------------------------------------
\* The two chunks at the start of a buffer.
LEMMA FirstTwo ==
  ASSUME NEW x \in Seq(Chunk), 2 <= Len(x),
         NEW c \in Chunk, NEW d \in Chunk, SubSeq(x, 1, 2) = <<c, d>>
  PROVE  x[1] = c /\ x[2] = d
<1>1. \A i \in 1 .. 2 : x[i] \in Chunk
  BY ElementOfSeq, LenProperties
<1>2. PICK z : z = SubSeq(x, 1, 2)
  OBVIOUS
<1>3. z[1] = x[1] /\ z[2] = x[2]
  BY <1>1, <1>2, SubSeqProperties
<1>4. PICK t : t = <<c, d>>
  OBVIOUS
<1>5. t[1] = c /\ t[2] = d
  BY <1>4
<1>6. t = z
  BY <1>2, <1>4
<1> QED
  BY <1>3, <1>5, <1>6

\* A packet of a stream is processed: its two chunks are taken from the beginning.
LEMMA ProcessStep ==
  ASSUME IInv, NEW k \in Conn, NEW s \in Side, ProcessPacket(k, s)
  PROVE  \E p \in Parcel :
         /\ p = buffer[k][s][1][1]
         /\ Deliver(p, k, s) /\ "types" \in known[s] \cup Learned(p)
         /\ 2 <= Len(Stream(buffer, wire, k, s))
         /\ Stream(buffer, wire, k, s)[1] = <<p, 1>> /\ Stream(buffer, wire, k, s)[2] = <<p, 2>>
         /\ buffer' \in [Conn -> [Side -> Seq(Chunk)]] /\ wire' = wire
         /\ Len(Stream(buffer', wire', k, s)) = Len(Stream(buffer, wire, k, s)) - 2
         /\ \A i \in 1 .. Len(Stream(buffer', wire', k, s)) :
              Stream(buffer', wire', k, s)[i] = Stream(buffer, wire, k, s)[i + 2]
         /\ \A l \in Conn, t \in Side : (l = k /\ t = s) \/ Stream(buffer', wire', l, t) = Stream(buffer, wire, l, t)
<1>1. buffer \in [Conn -> [Side -> Seq(Chunk)]] /\ wire \in [Conn -> [Side -> Seq(Chunk)]]
  BY DEF IInv, TypeOK, Chunk
<1>2. PICK x \in Seq(Chunk), y \in Seq(Chunk) : x = buffer[k][s] /\ y = wire[k][s]
  BY <1>1
<1>3. PICK p : p = x[1][1]
  OBVIOUS
<1>4. /\ 2 <= Len(x) /\ SubSeq(x, 1, 2) = <<<<p, 1>>, <<p, 2>>>>
      /\ "types" \in known[s] \cup Learned(p) /\ Deliver(p, k, s)
      /\ wire' = wire
      /\ buffer' = [buffer EXCEPT ![k][s] = SubSeq(x, 3, Len(x))]
  BY <1>2, <1>3 DEF ProcessPacket
<1>5. p \in Parcel
  <2>1. x[1] \in Chunk
    BY <1>4, ElementOfSeq, LenProperties
  <2> QED
    BY <1>3, <2>1 DEF Chunk
<1>6. <<p, 1>> \in Chunk /\ <<p, 2>> \in Chunk
  BY <1>5 DEF Chunk
<1>7. x[1] = <<p, 1>> /\ x[2] = <<p, 2>>
  BY <1>4, <1>6, FirstTwo
<1>8. PICK r : r = SubSeq(x, 3, Len(x)) \o y
  OBVIOUS
<1>9. /\ SubSeq(x, 3, Len(x)) \in Seq(Chunk)
      /\ Len(r) = Len(x \o y) - 2
      /\ \A i \in 1 .. Len(r) : r[i] = (x \o y)[i + 2]
  BY <1>4, <1>8, Taken
<1>10. PICK t \in Seq(Chunk) : t = SubSeq(x, 3, Len(x))
  BY <1>9
<1>11. /\ buffer' \in [Conn -> [Side -> Seq(Chunk)]] /\ buffer'[k][s] = t
       /\ \A l \in Conn, u \in Side : (l = k /\ u = s) \/ buffer'[l][u] = buffer[l][u]
  BY <1>1, <1>4, <1>10
<1>12. Stream(buffer', wire', k, s) = r /\ Stream(buffer, wire, k, s) = x \o y
  BY <1>2, <1>4, <1>8, <1>10, <1>11 DEF Stream
<1>13. \A l \in Conn, u \in Side : (l = k /\ u = s) \/ Stream(buffer', wire', l, u) = Stream(buffer, wire, l, u)
  BY <1>4, <1>11 DEF Stream
<1>14. /\ 2 <= Len(x \o y) /\ (x \o y)[1] = x[1] /\ (x \o y)[2] = x[2]
  <2>1. Len(x) \in Nat /\ Len(y) \in Nat
    BY LenProperties
  <2>2. 1 \in 1 .. Len(x) + Len(y) /\ 2 \in 1 .. Len(x) + Len(y)
    BY <1>4, <2>1
  <2> QED
    BY <1>4, <2>1, <2>2, ConcatProperties
<1>15. p = buffer[k][s][1][1]
  BY <1>2, <1>3
<1>16. /\ 2 <= Len(Stream(buffer, wire, k, s))
       /\ Stream(buffer, wire, k, s)[1] = <<p, 1>> /\ Stream(buffer, wire, k, s)[2] = <<p, 2>>
  BY <1>7, <1>12, <1>14
<1>17. /\ Len(Stream(buffer', wire', k, s)) = Len(Stream(buffer, wire, k, s)) - 2
       /\ \A i \in 1 .. Len(Stream(buffer', wire', k, s)) :
            Stream(buffer', wire', k, s)[i] = Stream(buffer, wire, k, s)[i + 2]
  BY <1>9, <1>12
<1> QED
  BY <1>4, <1>5, <1>11, <1>13, <1>15, <1>16, <1>17

\* A packet leaves its stream when its parcel is delivered.
LEMMA ProcessPacketInv ==
  ASSUME IInv, NEW k \in Conn, NEW s \in Side, ProcessPacket(k, s)
  PROVE  IInv'
<1>1. PICK p \in Parcel :
         /\ Deliver(p, k, s)
         /\ 2 <= Len(Stream(buffer, wire, k, s))
         /\ Stream(buffer, wire, k, s)[1] = <<p, 1>> /\ Stream(buffer, wire, k, s)[2] = <<p, 2>>
         /\ buffer' \in [Conn -> [Side -> Seq(Chunk)]] /\ wire' = wire
         /\ Len(Stream(buffer', wire', k, s)) = Len(Stream(buffer, wire, k, s)) - 2
         /\ \A i \in 1 .. Len(Stream(buffer', wire', k, s)) :
              Stream(buffer', wire', k, s)[i] = Stream(buffer, wire, k, s)[i + 2]
         /\ \A l \in Conn, t \in Side : (l = k /\ t = s) \/ Stream(buffer', wire', l, t) = Stream(buffer, wire, l, t)
  BY ProcessStep
<1>2. /\ UNCHANGED sendVars /\ UNCHANGED peerSeen /\ UNCHANGED connVars
      /\ UNCHANGED wire /\ UNCHANGED failed /\ UNCHANGED history
  BY DEF ProcessPacket
<1>3. PICK st, nx : st = Stream(buffer, wire, k, s) /\ nx = Stream(buffer', wire', k, s)
  OBVIOUS
<1>4. buffer \in [Conn -> [Side -> Seq(Chunk)]] /\ wire \in [Conn -> [Side -> Seq(Chunk)]]
      /\ wire' \in [Conn -> [Side -> Seq(Chunk)]]
  BY <1>1 DEF IInv, TypeOK, Chunk
<1>5. /\ st \in Seq(Chunk) /\ Len(st) \in Nat /\ DOMAIN st = 1 .. Len(st)
      /\ 2 <= Len(st) /\ st[1] = <<p, 1>> /\ st[2] = <<p, 2>>
      /\ IsInjective(st) /\ \A i \in DOMAIN st : ChunkOf(st[i], k, s, sender, packet, via, log)
  <2>1. st \in Seq(Chunk)
    BY <1>3, <1>4, StreamParts
  <2>2. Len(st) \in Nat /\ DOMAIN st = 1 .. Len(st)
    BY <2>1, LenProperties
  <2>3. IsInjective(st) /\ \A i \in DOMAIN st : ChunkOf(st[i], k, s, sender, packet, via, log)
    BY <1>3 DEF IInv, ChunkInv
  <2> QED
    BY <1>1, <1>3, <2>1, <2>2, <2>3
<1>6. /\ via[p] = k /\ From(p) = Other(s) /\ sender[p] = "sent" /\ p \notin Range(log)
  <2>1. ChunkOf(<<p, 2>>, k, s, sender, packet, via, log)
    BY <1>5
  <2> QED
    BY <2>1 DEF ChunkOf
<1>7. k \in 1 .. made
  BY <1>6 DEF IInv, PacketInv, PacketOf, Begun
<1>8. log \in Seq(Parcel) /\ log' \in Seq(Parcel) /\ log' = Append(log, p) /\ Range(log') = Range(log) \cup {p}
  <2>1. log \in Seq(Parcel) /\ log' = Append(log, p)
    BY <1>1 DEF IInv, TypeOK, Deliver, Enter
  <2>2. /\ log' \in Seq(Parcel) /\ Len(log) \in Nat /\ Len(log') = Len(log) + 1
        /\ \A i \in 1 .. Len(log) : log'[i] = log[i]
        /\ log'[Len(log) + 1] = p
    BY <2>1, AppendProperties
  <2>3. /\ \A x : x \in Range(log) <=> \E i \in 1 .. Len(log) : log[i] = x
        /\ \A x : x \in Range(log') <=> \E i \in 1 .. Len(log') : log'[i] = x
    BY <2>1, <2>2, LenProperties DEF Range
  <2>4. \A x : x \in Range(log') <=> x \in Range(log) \/ x = p
    BY <2>2, <2>3
  <2> QED
    BY <2>1, <2>2, <2>4
<1>9. /\ routes' \in Seq(1 .. made)
      /\ routes # <<>> => routes' = routes
      /\ s = "server" => routes' # <<>>
  <2>1. CASE s = "server" /\ routes = <<>>
    BY <1>1, <1>7, <2>1 DEF Deliver
  <2>2. CASE ~(s = "server" /\ routes = <<>>)
    BY <1>1, <2>2 DEF Deliver, IInv, TypeOK
  <2> QED
    BY <2>1, <2>2
<1>10. TypeOK'
  <2>1. known' \in [Side -> SUBSET {"content", "types"}]
    BY <1>1 DEF Deliver, Enter, Learned, IInv, TypeOK
  <2>2. connSeen' \in [Conn -> SUBSET Side]
    BY <1>1 DEF Deliver, Enter, IInv, TypeOK
  <2>3. unresolved' \subseteq Parcel
    BY <1>1 DEF Deliver, Enter, IInv, TypeOK
  <2>4. buffer' \in [Conn -> [Side -> Seq(Parcel \X {1, 2})]]
    BY <1>1 DEF Chunk
  <2> QED
    BY <1>2, <1>8, <1>9, <2>1, <2>2, <2>3, <2>4 DEF IInv, TypeOK, sendVars, connVars, history
<1>11. MadeInv' /\ PacketInv'
  BY <1>2 DEF IInv, MadeInv, PacketInv, sendVars, connVars
<1>12. ChunkInv'
  <2> SUFFICES ASSUME NEW l \in Conn, NEW t \in Side
               PROVE  /\ IsInjective(Stream(buffer', wire', l, t))
                      /\ \A i \in DOMAIN Stream(buffer', wire', l, t) :
                          ChunkOf(Stream(buffer', wire', l, t)[i], l, t, sender', packet', via', log')
    BY DEF ChunkInv
  <2>1. PICK x, y : x = Stream(buffer, wire, l, t) /\ y = Stream(buffer', wire', l, t)
    OBVIOUS
  <2>2. x \in Seq(Chunk) /\ y \in Seq(Chunk)
    <3>1. Stream(buffer, wire, l, t) \in Seq(Chunk)
      BY <1>4, StreamParts
    <3>2. Stream(buffer', wire', l, t) \in Seq(Chunk)
      BY <1>1, <1>4, StreamParts
    <3> QED
      BY <2>1, <3>1, <3>2
  <2>3. Len(x) \in Nat /\ DOMAIN x = 1 .. Len(x) /\ Len(y) \in Nat /\ DOMAIN y = 1 .. Len(y)
    BY <2>2, LenProperties
  <2>4. IsInjective(x) /\ \A i \in DOMAIN x : x[i] \in Chunk /\ ChunkOf(x[i], l, t, sender, packet, via, log)
    BY <2>1, <2>2, <2>3, ElementOfSeq DEF IInv, ChunkInv
  \* What stays in streams is not of the parcel: its chunks were the two that are taken.
  <2>5. ASSUME NEW c \in Chunk, ChunkOf(c, l, t, sender, packet, via, log), c[1] # p
        PROVE  ChunkOf(c, l, t, sender', packet', via', log')
    BY <1>2, <1>8, <2>5 DEF ChunkOf, sendVars
  <2>6. CASE ~(l = k /\ t = s)
    <3>1. y = x
      BY <1>1, <2>1, <2>6
    <3>2. ASSUME NEW i \in DOMAIN x PROVE x[i][1] # p
      <4>1. l # k \/ Other(t) # Other(s)
        BY <2>6, Sides
      <4> QED
        BY <1>6, <2>4, <3>2, <4>1 DEF ChunkOf
    <3>3. \A i \in DOMAIN x : ChunkOf(x[i], l, t, sender', packet', via', log')
      BY <2>4, <2>5, <3>2
    <3> QED
      BY <2>1, <2>4, <3>1, <3>3
  <2>7. CASE l = k /\ t = s
    <3>1. /\ x = st /\ Len(y) = Len(x) - 2 /\ \A i \in 1 .. Len(y) : y[i] = x[i + 2]
      BY <1>1, <1>3, <2>1, <2>7
    <3>2. ASSUME NEW i \in DOMAIN y PROVE i \in Nat /\ i + 2 \in DOMAIN x /\ i + 2 # 1 /\ i + 2 # 2 /\ y[i] = x[i + 2]
      BY <2>3, <3>1
    <3>3. 1 \in DOMAIN x /\ 2 \in DOMAIN x
      BY <1>5, <3>1
    <3>4. ASSUME NEW i \in DOMAIN y PROVE y[i] # <<p, 1>> /\ y[i] # <<p, 2>>
      <4>1. \A a, b \in DOMAIN x : x[a] = x[b] => a = b
        BY <2>4 DEF IsInjective
      <4>2. PICK j \in DOMAIN x : j # 1 /\ j # 2 /\ y[i] = x[j]
        BY <3>2
      <4>3. x[j] # x[1] /\ x[j] # x[2]
        BY <3>3, <4>1, <4>2
      <4>4. x[1] = <<p, 1>> /\ x[2] = <<p, 2>>
        BY <1>5, <3>1
      <4> QED
        BY <4>2, <4>3, <4>4
    <3>5. ASSUME NEW i \in DOMAIN y PROVE y[i] \in Chunk /\ y[i][1] # p
      <4>1. y[i] \in Chunk
        BY <2>4, <3>2
      <4>2. PICK q \in Parcel, n \in {1, 2} : y[i] = <<q, n>>
        BY <4>1 DEF Chunk
      <4> QED
        BY <3>4, <4>1, <4>2
    <3>6. \A i \in DOMAIN y : ChunkOf(y[i], l, t, sender', packet', via', log')
      BY <2>4, <2>5, <3>2, <3>5
    <3>7. IsInjective(y)
      <4> SUFFICES ASSUME NEW i \in DOMAIN y, NEW j \in DOMAIN y, y[i] = y[j] PROVE i = j
        BY DEF IsInjective
      <4>1. x[i + 2] = x[j + 2] /\ i + 2 \in DOMAIN x /\ j + 2 \in DOMAIN x /\ i \in Nat /\ j \in Nat
        BY <3>2
      <4>2. i + 2 = j + 2
        BY <2>4, <4>1 DEF IsInjective
      <4> QED
        BY <4>1, <4>2
    <3> QED
      BY <2>1, <3>6, <3>7
  <2> QED
    BY <2>6, <2>7
<1>13. LogInv'
  <2>1. IsInjective(log')
    <3>1. IsInjective(log) /\ log \in Seq(Parcel)
      BY DEF IInv, TypeOK, LogInv
    <3>2. /\ Len(log) \in Nat /\ Len(log') = Len(log) + 1 /\ DOMAIN log' = 1 .. Len(log) + 1 /\ DOMAIN log = 1 .. Len(log)
          /\ \A i \in 1 .. Len(log) : log'[i] = log[i] /\ log[i] \in Range(log)
          /\ log'[Len(log) + 1] = p
      BY <1>8, <3>1, AppendProperties, LenProperties DEF Range
    <3> QED
      BY <1>6, <3>1, <3>2 DEF IsInjective
  <2> QED
    BY <1>2, <1>6, <1>8, <2>1 DEF IInv, LogInv, sendVars
<1>14. RouteInv'
  <2>1. \A c \in Call : c \in Range(log') => routes' # <<>>
    <3>1. p \in Call => s = "server"
      BY <1>6 DEF From, Other, Side
    <3> QED
      BY <1>8, <1>9, <3>1 DEF IInv, RouteInv
  <2>2. \A c \in Call : sender'[Reply[c]] # "idle" => c \in Range(log')
    BY <1>2, <1>8 DEF IInv, RouteInv, sendVars
  <2>3. \A q \in Parcel : sender'[q] = "gone" => routes' # <<>> /\ routes'[1] \in lost'
    BY <1>2, <1>9 DEF IInv, RouteInv, sendVars, connVars
  <2> QED
    BY <1>2, <2>1, <2>2, <2>3 DEF IInv, RouteInv, sendVars, connVars
<1> QED
  BY <1>10, <1>11, <1>12, <1>13, <1>14 DEF IInv

\* The network loses a connection: streams lose what is not read.
LEMMA LoseStep ==
  ASSUME IInv, NEW k \in Conn, LoseConnection(k)
  PROVE  /\ lost' = lost \cup {k} /\ k \in 1 .. made /\ k \notin lost /\ buffer' = buffer
         /\ wire' \in [Conn -> [Side -> Seq(Chunk)]]
         /\ \A l \in Conn, t \in Side :
             /\ IsBegin(Stream(buffer', wire', l, t), Stream(buffer, wire, l, t))
             /\ l # k => Stream(buffer', wire', l, t) = Stream(buffer, wire, l, t)
<1>1. PICK sides \in SUBSET Side :
        /\ k \in (1 .. made) \ lost /\ lost' = lost \cup {k} /\ buffer' = buffer
        /\ wire' = [wire EXCEPT ![k] = [t \in Side |-> IF t \in sides THEN <<>> ELSE wire[k][t]]]
  BY DEF LoseConnection
<1>2. buffer \in [Conn -> [Side -> Seq(Chunk)]] /\ wire \in [Conn -> [Side -> Seq(Chunk)]]
  BY DEF IInv, TypeOK, Chunk
<1>3. [t \in Side |-> IF t \in sides THEN <<>> ELSE wire[k][t]] \in [Side -> Seq(Chunk)]
  BY <1>2
<1>4. PICK f \in [Side -> Seq(Chunk)] :
        /\ f = [t \in Side |-> IF t \in sides THEN <<>> ELSE wire[k][t]]
        /\ \A t \in Side : f[t] = <<>> \/ f[t] = wire[k][t]
  BY <1>3
<1>5. /\ wire' \in [Conn -> [Side -> Seq(Chunk)]] /\ wire'[k] = f
      /\ \A l \in Conn \ {k} : wire'[l] = wire[l]
  BY <1>1, <1>2, <1>4
<1>6. ASSUME NEW l \in Conn, NEW t \in Side
      PROVE  /\ IsBegin(Stream(buffer', wire', l, t), Stream(buffer, wire, l, t))
             /\ l # k => Stream(buffer', wire', l, t) = Stream(buffer, wire, l, t)
  <2>1. PICK x \in Seq(Chunk), y \in Seq(Chunk) : x = buffer[l][t] /\ y = wire[l][t]
    BY <1>2
  <2>2. Len(x \o y) = Len(x) + Len(y) /\ Len(x) \in Nat /\ Len(y) \in Nat
        /\ \A i \in 1 .. Len(x) : (x \o y)[i] = x[i]
    BY <1>2, <2>1, StreamParts DEF Stream
  <2>3. wire'[l][t] = <<>> \/ wire'[l][t] = wire[l][t]
    BY <1>4, <1>5
  <2>4. Stream(buffer', wire', l, t) = x \/ Stream(buffer', wire', l, t) = x \o y
    BY <1>1, <2>1, <2>3, NoneRead DEF Stream
  <2>5. IsBegin(x, x \o y) /\ IsBegin(x \o y, x \o y)
    BY <2>2 DEF IsBegin
  <2>6. l # k => Stream(buffer', wire', l, t) = Stream(buffer, wire, l, t)
    BY <1>1, <1>5 DEF Stream
  <2> QED
    BY <2>1, <2>4, <2>5, <2>6 DEF Stream
<1> QED
  BY <1>1, <1>5, <1>6

\* What a lost connection keeps is the beginning of what it had.
LEMMA LoseConnectionInv ==
  ASSUME IInv, NEW k \in Conn, LoseConnection(k)
  PROVE  IInv'
<1>1. /\ UNCHANGED sendVars /\ UNCHANGED seenVars /\ UNCHANGED <<made, closed, cache, doomed, buffer>>
      /\ UNCHANGED endVars /\ UNCHANGED history
  BY DEF LoseConnection
<1>2. /\ lost' = lost \cup {k} /\ k \in 1 .. made
      /\ wire' \in [Conn -> [Side -> Seq(Chunk)]]
      /\ \A l \in Conn, t \in Side : IsBegin(Stream(buffer', wire', l, t), Stream(buffer, wire, l, t))
  BY LoseStep
<1>3. TypeOK'
  BY <1>1, <1>2 DEF IInv, TypeOK, Chunk, sendVars, seenVars, endVars, history
<1>4. MadeInv' /\ PacketInv' /\ LogInv' /\ RouteInv'
  BY <1>1, <1>2 DEF IInv, MadeInv, PacketInv, LogInv, RouteInv, sendVars, endVars
<1>5. ChunkInv'
  <2>1. buffer' \in [Conn -> [Side -> Seq(Chunk)]]
    BY <1>1 DEF IInv, TypeOK, Chunk
  <2> QED
    BY <1>1, <1>2, <2>1, KeepChunks DEF sendVars, endVars
<1> QED
  BY <1>3, <1>4, <1>5 DEF IInv

\* Nothing was sent.
LEMMA InitInv == Init => IInv
<1> SUFFICES ASSUME Init PROVE IInv
  OBVIOUS
<1>1. TypeOK
  <2>1. /\ sender \in [Parcel -> {"idle", "route", "connect", "bundle", "write",
                                  "sent", "broken", "gone", "none", "noroute"}]
        /\ via \in [Parcel -> Conn \cup {None}] /\ packet \in [Parcel -> Seq(Parcel \X {1, 2})]
        /\ content \subseteq Parcel /\ types \subseteq Parcel
    BY DEF Init
  <2>2. known \in [Side -> SUBSET {"content", "types"}]
    BY DEF Init, Side
  <2>3. /\ peerSeen \subseteq Side /\ connSeen \in [Conn -> SUBSET Side]
        /\ closed \in [Conn -> SUBSET Side] /\ doomed \in BOOLEAN
    BY DEF Init
  <2>6. made \in 0 .. Cardinality(Call) /\ lost \subseteq 1 .. made /\ cache \in (1 .. made) \cup {None}
    BY CallCount DEF Init
  <2>4. /\ routes \in Seq(1 .. made) /\ log \in Seq(Parcel) /\ unresolved \subseteq Parcel
        /\ failed \subseteq Side /\ overlap \subseteq Conn \X Side /\ rushed \subseteq Parcel
    BY DEF Init
  <2>5. /\ wire \in [Conn -> [Side -> Seq(Parcel \X {1, 2})]]
        /\ buffer \in [Conn -> [Side -> Seq(Parcel \X {1, 2})]]
    BY DEF Init
  <2> QED
    BY <2>1, <2>2, <2>3, <2>4, <2>5, <2>6 DEF TypeOK
<1>2. MadeInv
  <2>1. Connected(sender) \subseteq Call
    BY DEF Connected
  <2>2. Cardinality(Connected(sender)) \in Nat
    BY <2>1, CallCount, FS_Subset, FS_CardinalityType
  <2> QED
    BY <2>2 DEF Init, MadeInv
<1>3. PacketInv
  BY DEF Init, PacketInv, PacketOf, Begun
<1>4. ChunkInv
  <2>1. \A k \in Conn, s \in Side : Stream(buffer, wire, k, s) = <<>>
    BY NoneRead DEF Init, Stream
  <2> QED
    BY <2>1 DEF ChunkInv, IsInjective
<1>5. LogInv /\ RouteInv
  BY Parcels DEF Init, LogInv, RouteInv, IsInjective, Range
<1> QED
  BY <1>1, <1>2, <1>3, <1>4, <1>5 DEF IInv

\* Every step keeps the invariant.
LEMMA StepInv == IInv /\ [Next]_vars => IInv'
<1> SUFFICES ASSUME IInv, [Next]_vars PROVE IInv'
  OBVIOUS
<1>1. CASE \E p \in Parcel : TransportSend(p) \/ Step(p)
  BY <1>1, TransportSendInv, PickCachedInv, ConnectInv, PickRouteInv, BundleInv, WriteInv, VainWriteInv DEF Step
<1>2. CASE \E k \in Conn : LoseConnection(k) \/ \E s \in Side : Select(k, s)
  BY <1>2, LoseConnectionInv, ReadInv, CloseInv, ProcessPacketInv, ProcessFailsInv DEF Select
<1>3. CASE FindClosed \/ RemoveClosed
  BY <1>3, CacheInv
<1>4. CASE UNCHANGED vars
  <2>1. UNCHANGED sendVars /\ UNCHANGED seenVars /\ UNCHANGED wireVars /\ UNCHANGED history
        /\ UNCHANGED connVars /\ UNCHANGED endVars
    BY <1>4 DEF vars
  <2>2. closed' \in [Conn -> SUBSET Side] /\ cache' \in {cache, None} /\ doomed' \in BOOLEAN /\ failed' \subseteq Side
        /\ \A k \in Conn : closed'[k] # {} => k \in lost
    BY <2>1 DEF IInv, TypeOK, RouteInv, connVars, endVars
  <2> QED
    BY <2>1, <2>2, ConnectionInv DEF connVars, endVars
<1> QED
  BY <1>1, <1>2, <1>3, <1>4 DEF Next

\* The invariant that the properties of parcels rest on: chunks of streams are those that
\* their senders have written, each once, and parcels handed over were sent.
THEOREM Invariance == Spec => []IInv
  BY InitInv, StepInv, PTL DEF Spec

\* For any number of calls and losses: a parcel is handed over at most once, to the side
\* it is for, and only when its send has returned.
THEOREM HandedOverOnce == Spec => []DeliveredOnce
<1>1. IInv => DeliveredOnce
  BY DEF IInv, LogInv, DeliveredOnce
<1> QED
  BY <1>1, Invariance, PTL

\* For any number of calls and losses: a reply always finds a route to the client.
THEOREM RepliesAreRouted == Spec => []ReplyHasRoute
<1>1. IInv => ReplyHasRoute
  BY DEF IInv, RouteInv, ReplyHasRoute
<1> QED
  BY <1>1, Invariance, PTL
-----------------------------------------------------------------------------
(* The order of chunks in streams *)

\* The beginning of a stream of whole packets is one.
LEMMA BeginWhole ==
  ASSUME NEW x \in Seq(Chunk), NEW y \in Seq(Chunk), Whole(x), IsBegin(y, x)
  PROVE  Whole(y) /\ (y # <<>> => x # <<>> /\ y[1] = x[1])
<1>1. /\ Len(x) \in Nat /\ Len(y) \in Nat /\ DOMAIN x = 1 .. Len(x) /\ DOMAIN y = 1 .. Len(y)
      /\ Len(y) <= Len(x) /\ \A i \in 1 .. Len(y) : y[i] = x[i]
  BY LenProperties DEF IsBegin
<1>2. (y # <<>> => 1 <= Len(y)) /\ (x = <<>> => Len(x) = 0)
  BY <1>1, EmptySeq
<1>3. y # <<>> => x # <<>> /\ y[1] = x[1]
  BY <1>1, <1>2
<1>4. ASSUME NEW i \in DOMAIN y, i + 1 \in DOMAIN y
      PROVE  IF y[i][2] = 1 THEN y[i + 1] = <<y[i][1], 2>> ELSE y[i + 1][2] = 1
  BY <1>1, <1>4 DEF Whole
<1> QED
  BY <1>3, <1>4 DEF Whole

\* So is a stream whose first packet was taken.
LEMMA RestWhole ==
  ASSUME NEW x \in Seq(Chunk), NEW y \in Seq(Chunk), NEW p \in Parcel, Whole(x),
         2 <= Len(x), x[1] = <<p, 1>>, x[2] = <<p, 2>>,
         Len(y) = Len(x) - 2, \A i \in 1 .. Len(y) : y[i] = x[i + 2]
  PROVE  Whole(y) /\ \A q \in Parcel : Ends(y, q) <=> Ends(x, q)
<1>1. /\ Len(x) \in Nat /\ Len(y) \in Nat /\ DOMAIN x = 1 .. Len(x) /\ DOMAIN y = 1 .. Len(y)
  BY LenProperties
<1>2. ASSUME y # <<>>
      PROVE  1 <= Len(y) /\ y[1] = x[3] /\ y[Len(y)] = x[Len(x)] /\ x[3][2] = 1
  <2>1. 1 <= Len(y)
    BY <1>1, <1>2, EmptySeq
  <2>2. 2 \in DOMAIN x /\ 2 + 1 \in DOMAIN x /\ x[2][2] = 2 /\ Len(y) \in 1 .. Len(y) /\ Len(y) + 2 = Len(x)
    BY <1>1, <2>1
  <2> QED
    BY <1>1, <2>1, <2>2 DEF Whole
<1>3. ASSUME NEW i \in DOMAIN y, i + 1 \in DOMAIN y
      PROVE  IF y[i][2] = 1 THEN y[i + 1] = <<y[i][1], 2>> ELSE y[i + 1][2] = 1
  <2>1. /\ i + 2 \in DOMAIN x /\ (i + 2) + 1 \in DOMAIN x /\ (i + 1) + 2 = (i + 2) + 1
        /\ y[i] = x[i + 2] /\ y[i + 1] = x[(i + 1) + 2]
    BY <1>1, <1>3
  <2>2. IF x[i + 2][2] = 1 THEN x[(i + 2) + 1] = <<x[i + 2][1], 2>> ELSE x[(i + 2) + 1][2] = 1
    BY <2>1 DEF Whole
  <2>3. y[i + 1] = x[(i + 2) + 1]
    BY <2>1
  <2> QED
    BY <2>1, <2>2, <2>3
<1>4. Whole(y)
  BY <1>2, <1>3 DEF Whole
<1>5. ASSUME NEW q \in Parcel PROVE Ends(y, q) <=> Ends(x, q)
  <2>1. CASE y # <<>>
    BY <1>1, <1>2, <2>1 DEF Ends
  <2>2. CASE y = <<>>
    <3>1. Len(x) = 2
      BY <1>1, <2>2
    <3> QED
      BY <2>2, <3>1 DEF Ends
  <2> QED
    BY <2>1, <2>2
<1> QED
  BY <1>4, <1>5

\* The first chunk of a stream that was empty is that of the write.
LEMMA FirstExtended ==
  ASSUME NEW p \in Parcel, NEW x \in Seq(Chunk), NEW y \in Seq(Chunk), NEW new \in Seq(Chunk),
         Moved(p, new), Extends(y, x, new)
  PROVE  y # <<>> /\ y[1] = (IF x = <<>> THEN new[1] ELSE x[1]) /\ new[1][1] = p
<1>1. Len(x) \in Nat /\ Len(new) \in Nat /\ 1 \in 1 .. Len(new) /\ new[1][1] = p
  <2>1. Len(new) \in 1 .. 2 /\ \A j \in 1 .. Len(new) : new[j][1] = p
    BY MovedChunks
  <2>2. \A n : n \in 1 .. 2 => n \in Nat /\ 1 \in 1 .. n
    OBVIOUS
  <2> QED
    BY <2>1, <2>2, LenProperties
<1>2. /\ Len(y) = Len(x) + Len(new)
      /\ \A i \in 1 .. Len(x) : y[i] = x[i]
      /\ \A j \in 1 .. Len(new) : y[Len(x) + j] = new[j]
  BY DEF Extends
<1>3. y # <<>> /\ (x = <<>> <=> Len(x) = 0)
  BY <1>1, <1>2, EmptySeq
<1>4. CASE x = <<>>
  <2>1. Len(x) + 1 = 1
    BY <1>3, <1>4
  <2>2. y[Len(x) + 1] = new[1]
    BY <1>1, <1>2
  <2> QED
    BY <1>1, <1>3, <1>4, <2>1, <2>2
<1>5. CASE x # <<>>
  <2>1. 1 \in 1 .. Len(x)
    BY <1>1, <1>3, <1>5
  <2> QED
    BY <1>1, <1>2, <1>3, <1>5, <2>1
<1> QED
  BY <1>4, <1>5

\* A write by the only sender keeps the packets of a stream whole.
LEMMA MoreWhole ==
  ASSUME NEW p \in Parcel, NEW x \in Seq(Chunk), NEW y \in Seq(Chunk), NEW new \in Seq(Chunk), Whole(x),
         Moved(p, new), Extends(y, x, new), \A q \in Parcel : Ends(x, q) <=> (q = p /\ Len(packet[q]) = 1)
  PROVE  /\ Whole(y) /\ y # <<>>
         /\ y[1] = IF x = <<>> THEN new[1] ELSE x[1]
         /\ \A q \in Parcel : Ends(y, q) <=> (q = p /\ sender'[q] = "write" /\ Len(packet'[q]) = 1)
<1>1. /\ Len(x) \in Nat /\ Len(y) \in Nat /\ DOMAIN x = 1 .. Len(x) /\ DOMAIN y = 1 .. Len(y)
      /\ Len(new) \in Nat /\ (Len(new) = 1 \/ Len(new) = 2)
      /\ 1 \in 1 .. Len(new) /\ Len(new) \in 1 .. Len(new)
  <2>1. Len(new) \in 1 .. 2
    BY MovedChunks
  <2>2. \A n : n \in 1 .. 2 => n \in Nat /\ (n = 1 \/ n = 2) /\ 1 \in 1 .. n /\ n \in 1 .. n
    OBVIOUS
  <2>3. Len(new) \in Nat /\ (Len(new) = 1 \/ Len(new) = 2) /\ 1 \in 1 .. Len(new) /\ Len(new) \in 1 .. Len(new)
    BY <2>1, <2>2
  <2> QED
    BY <2>3, LenProperties
<1>2. /\ Len(y) = Len(x) + Len(new)
      /\ \A i \in 1 .. Len(x) : y[i] = x[i]
      /\ \A j \in 1 .. Len(new) : y[Len(x) + j] = new[j]
  BY DEF Extends
<1>3. y # <<>> /\ (x = <<>> <=> Len(x) = 0)
  BY <1>1, <1>2, EmptySeq
<1>4. y[1] = IF x = <<>> THEN new[1] ELSE x[1]
  BY FirstExtended
\* The last chunk that was there, if any, is a second one, or the first of this packet.
<1>5. x # <<>> => /\ x[Len(x)] \in Chunk /\ Len(x) \in DOMAIN x
                  /\ x[Len(x)][2] = IF Len(packet[p]) = 1 THEN 1 ELSE 2
                  /\ Len(packet[p]) = 1 => x[Len(x)] = <<p, 1>>
  <2> SUFFICES ASSUME x # <<>>
               PROVE  /\ x[Len(x)] \in Chunk /\ Len(x) \in DOMAIN x
                      /\ x[Len(x)][2] = IF Len(packet[p]) = 1 THEN 1 ELSE 2
                      /\ Len(packet[p]) = 1 => x[Len(x)] = <<p, 1>>
    OBVIOUS
  <2>1. Len(x) \in DOMAIN x /\ x[Len(x)] \in Chunk
    BY <1>1, <1>3, ElementOfSeq
  <2>2. PICK q \in Parcel, n \in {1, 2} : x[Len(x)] = <<q, n>>
    BY <2>1 DEF Chunk
  <2>3. CASE Len(packet[p]) = 1
    <3>1. x[Len(x)] = <<p, 1>>
      BY <2>3 DEF Ends
    <3> QED
      BY <2>1, <2>3, <3>1
  <2>4. CASE Len(packet[p]) # 1
    <3>1. x[Len(x)] # <<q, 1>>
      BY <2>4 DEF Ends
    <3>2. n = 2
      BY <2>2, <3>1
    <3> QED
      BY <2>1, <2>2, <2>4, <3>2
  <2> QED
    BY <2>3, <2>4
<1>6. Len(packet[p]) = 1 => x # <<>>
  BY DEF Ends
\* The first chunk that is written follows what was there.
<1>7. /\ x = <<>> => new[1][2] = 1
      /\ x # <<>> => IF x[Len(x)][2] = 1 THEN new[1] = <<x[Len(x)][1], 2>> ELSE new[1][2] = 1
  <2>1. CASE packet[p] = Half(p) /\ new = Half(p)
    <3>1. Len(packet[p]) = 1 /\ new[1] = <<p, 2>>
      BY <2>1, Packets
    <3>2. x # <<>> /\ x[Len(x)] = <<p, 1>>
      BY <1>5, <1>6, <3>1
    <3> QED
      BY <3>1, <3>2
  <2>2. CASE packet[p] = Full(p) /\ (new = <<<<p, 1>>>> \/ new = Full(p))
    <3>1. Len(packet[p]) = 2 /\ new[1] = <<p, 1>>
      BY <2>2, Packets
    <3> QED
      BY <1>5, <3>1
  <2> QED
    BY <2>1, <2>2 DEF Moved
<1>8. Len(new) = 2 => new[1] = <<p, 1>> /\ new[2] = <<p, 2>>
  BY Packets DEF Moved
<1>9. ASSUME NEW i \in DOMAIN y, i + 1 \in DOMAIN y
      PROVE  IF y[i][2] = 1 THEN y[i + 1] = <<y[i][1], 2>> ELSE y[i + 1][2] = 1
  <2>1. i \in Int
    BY <1>1
  <2>2. CASE i < Len(x)
    <3>1. i \in DOMAIN x /\ i + 1 \in DOMAIN x /\ y[i] = x[i] /\ y[i + 1] = x[i + 1]
      BY <1>1, <1>2, <2>1, <2>2
    <3> QED
      BY <3>1 DEF Whole
  <2>3. CASE i = Len(x)
    <3>1. y[i] = x[Len(x)] /\ 1 \in 1 .. Len(new) /\ x # <<>>
      BY <1>1, <1>2, <1>3, <2>3
    <3>2. y[i + 1] = new[1]
      BY <1>2, <2>3, <3>1
    <3> QED
      BY <1>7, <3>1, <3>2
  <2>4. CASE i > Len(x)
    <3>1. Len(new) = 2 /\ i = Len(x) + 1 /\ i + 1 = Len(x) + 2
      <4>1. \A m, n, j \in Int : n \in {1, 2} /\ j > m /\ j + 1 <= m + n => n = 2 /\ j = m + 1 /\ j + 1 = m + 2
        OBVIOUS
      <4>2. Len(x) \in Int /\ Len(new) \in Int /\ Len(new) \in {1, 2} /\ i + 1 <= Len(x) + Len(new)
        BY <1>1, <1>2, <1>9
      <4> QED
        BY <2>1, <2>4, <4>1, <4>2
    <3>2. y[i] = new[1] /\ y[i + 1] = new[2]
      BY <1>2, <3>1
    <3> QED
      BY <1>8, <3>1, <3>2
  <2> QED
    BY <1>1, <2>1, <2>2, <2>3, <2>4
<1>10. Whole(y)
  <2>1. y[1][2] = 1
    BY <1>4, <1>7 DEF Whole
  <2> QED
    BY <1>9, <2>1 DEF Whole
<1>11. y[Len(y)] = new[Len(new)]
  BY <1>1, <1>2
<1>12. ASSUME NEW q \in Parcel
       PROVE  Ends(y, q) <=> (q = p /\ sender'[q] = "write" /\ Len(packet'[q]) = 1)
  <2>1. CASE new = Half(p) /\ sender'[p] = "sent"
    <3>1. y[Len(y)] = <<p, 2>>
      BY <1>11, <2>1, Packets
    <3> QED
      BY <2>1, <3>1 DEF Ends
  <2>2. CASE new = Full(p) /\ sender'[p] = "sent"
    <3>1. y[Len(y)] = <<p, 2>>
      BY <1>11, <2>2, Packets
    <3> QED
      BY <2>2, <3>1 DEF Ends
  <2>3. CASE new = <<<<p, 1>>>> /\ sender'[p] = "write" /\ packet'[p] = Half(p)
    <3>1. y[Len(y)] = <<p, 1>> /\ Len(packet'[p]) = 1
      BY <1>11, <2>3, Packets
    <3> QED
      BY <1>3, <2>3, <3>1 DEF Ends
  <2> QED
    BY <2>1, <2>2, <2>3 DEF Moved
<1> QED
  BY <1>3, <1>4, <1>10, <1>12
\* The steps that write nothing and process nothing, as far as the order of chunks goes.
LEMMA KeepOrder ==
  ASSUME IInv, OInv, UNCHANGED <<packet, types, connSeen, known, overlap, lost, failed>>,
         \A q \in Parcel : sender[q] \in Begun \/ sender'[q] \in Begun => sender'[q] = sender[q] /\ via'[q] = via[q],
         \A k \in Conn, s \in Side : Stream(buffer', wire', k, s) = Stream(buffer, wire, k, s)
  PROVE  OInv'
<1>1. \A k, o : WriterSet(sender', via', k, o) = WriterSet(sender, via, k, o)
  BY DEF WriterSet, Begun
<1>2. OrderInv'
  BY <1>1 DEF OInv, OrderInv
<1>3. TypesInv'
  BY <1>1, Sides DEF OInv, TypesInv, Side
<1>4. EndInv'
  BY DEF OInv, EndInv
<1> QED
  BY <1>2, <1>3, <1>4 DEF OInv

\* Steps that touch no stream keep the order.
LEMMA QuietOrder ==
  ASSUME IInv, OInv, NEW p \in Parcel, TransportSend(p) \/ PickCached(p) \/ Connect(p) \/ PickRoute(p)
  PROVE  OInv'
<1>1. /\ sender[p] \in {"idle", "route", "connect"}
      /\ UNCHANGED <<packet, types, connSeen, known, overlap, lost, failed>> /\ UNCHANGED wireVars
  BY DEF TransportSend, PickCached, Connect, PickRoute, seenVars, connVars, endVars, history
<1>2. PICK x \in {"route", "bundle", "connect", "noroute", "gone"} : sender' = [sender EXCEPT ![p] = x]
  BY DEF TransportSend, PickCached, Connect, PickRoute
<1>3. sender'[p] = x /\ \A q \in Parcel \ {p} : sender'[q] = sender[q]
  BY <1>2, SenderTypes
<1>4. \A q \in Parcel \ {p} : via'[q] = via[q]
  BY DEF TransportSend, PickCached, Connect, PickRoute, IInv, TypeOK
<1>5. sender[p] \notin Begun /\ sender'[p] \notin Begun
  BY <1>1, <1>3 DEF Begun
<1>6. \A k \in Conn, s \in Side : Stream(buffer', wire', k, s) = Stream(buffer, wire, k, s)
  BY <1>1, SameStreams
<1> QED
  BY <1>1, <1>3, <1>4, <1>5, <1>6, KeepOrder

\* Reads and closed connections keep the order.
LEMMA SelectOrder ==
  ASSUME IInv, OInv, (\E k \in Conn, s \in Side : Read(k, s) \/ Close(k, s)) \/ FindClosed \/ RemoveClosed
  PROVE  OInv'
<1>1. UNCHANGED <<packet, types, connSeen, known, overlap, lost, failed, sender, via>>
  BY DEF Read, Close, FindClosed, RemoveClosed, sendVars, seenVars, connVars, endVars, history
<1>2. \A k \in Conn, s \in Side : Stream(buffer', wire', k, s) = Stream(buffer, wire, k, s)
  <2>1. CASE \E k \in Conn, s \in Side : Read(k, s)
    BY <2>1, ReadStep
  <2>2. CASE (\E k \in Conn, s \in Side : Close(k, s)) \/ FindClosed \/ RemoveClosed
    <3>1. UNCHANGED wireVars
      BY <2>2 DEF Close, FindClosed, RemoveClosed
    <3> QED
      BY <3>1, SameStreams
  <2> QED
    BY <2>1, <2>2
<1> QED
  BY <1>1, <1>2, KeepOrder

\* A sender that begins is the only one, or overlap is noted.
LEMMA BundleOrder ==
  ASSUME IInv, OInv, NEW p \in Parcel, Bundle(p)
  PROVE  OInv'
<1>1. PICK k \in Conn, s \in Side : k = via[p] /\ From(p) = Other(s) /\ s = Other(From(p)) /\ From(p) \in Side
  <2>1. via[p] \in Conn
    BY CallCount DEF Bundle, IInv, TypeOK, PacketInv, PacketOf, Conn
  <2> QED
    BY <2>1, Sides
<1>2. /\ sender[p] = "bundle" /\ sender' = [sender EXCEPT ![p] = "write"]
      /\ packet' = [packet EXCEPT ![p] = Full(p)]
      /\ types' = IF From(p) \in connSeen[k] THEN types ELSE types \cup {p}
      /\ connSeen' = [connSeen EXCEPT ![k] = connSeen[k] \cup {From(p)}]
      /\ overlap' = IF Writers(k, From(p)) = {} THEN overlap ELSE overlap \cup {<<k, From(p)>>}
      /\ UNCHANGED via /\ UNCHANGED connVars /\ UNCHANGED wireVars /\ UNCHANGED endVars
  BY <1>1 DEF Bundle, Full
<1>3. /\ sender'[p] = "write" /\ \A q \in Parcel \ {p} : sender'[q] = sender[q]
  BY <1>2, SenderTypes
<1>4. packet \in [Parcel -> Seq(Chunk)] /\ connSeen \in [Conn -> SUBSET Side]
  BY DEF IInv, TypeOK, Chunk
<1>5. /\ packet'[p] = Full(p) /\ \A q \in Parcel \ {p} : packet'[q] = packet[q]
  BY <1>2, <1>4
<1>6. /\ \A l \in Conn : connSeen[l] \subseteq connSeen'[l]
      /\ \A l \in Conn \ {k} : connSeen'[l] = connSeen[l]
      /\ connSeen'[k] = connSeen[k] \cup {From(p)}
  BY <1>2, <1>4
<1>7. \A l \in Conn, t \in Side : Stream(buffer', wire', l, t) = Stream(buffer, wire, l, t)
  BY <1>2, SameStreams
<1>8. /\ \A l \in Conn, o \in Side : (l = k /\ o = From(p)) \/ WriterSet(sender', via', l, o) = WriterSet(sender, via, l, o)
      /\ WriterSet(sender', via', k, From(p)) = WriterSet(sender, via, k, From(p)) \cup {p}
      /\ p \notin WriterSet(sender, via, k, From(p))
  BY <1>1, <1>2, <1>3 DEF WriterSet
<1>9. OrderInv'
  <2> SUFFICES ASSUME NEW l \in Conn, NEW t \in Side, <<l, Other(t)>> \notin overlap'
               PROVE  InOrder(Stream(buffer', wire', l, t), WriterSet(sender', via', l, Other(t)), packet', l \in lost')
    BY DEF OrderInv
  <2>1. PICK st, w, w2 : /\ st = Stream(buffer, wire, l, t) /\ st = Stream(buffer', wire', l, t)
                         /\ w = WriterSet(sender, via, l, Other(t)) /\ w2 = WriterSet(sender', via', l, Other(t))
    BY <1>7
  <2>2. <<l, Other(t)>> \notin overlap /\ lost' = lost
    BY <1>2 DEF connVars
  <2>3. InOrder(st, w, packet, l \in lost)
    BY <2>1, <2>2 DEF OInv, OrderInv
  <2>4. w \subseteq Parcel
    BY <2>1 DEF WriterSet
  <2>5. CASE l = k /\ Other(t) = From(p)
    <3>1. w = {} /\ w2 = {p}
      BY <1>1, <1>2, <1>8, <2>1, <2>5 DEF Writers, WriterSet
    <3>2. Len(packet'[p]) # 1
      <4>1. Len(Full(p)) = 2
        BY Packets
      <4> QED
        BY <1>5, <4>1
    <3> QED
      BY <2>1, <2>2, <2>3, <3>1, <3>2 DEF InOrder
  <2>6. CASE ~(l = k /\ Other(t) = From(p))
    <3>1. w2 = w /\ p \notin w
      BY <1>2, <1>8, <2>1, <2>6, Sides DEF WriterSet
    <3>2. \A q \in Parcel : q \in w => packet'[q] = packet[q]
      BY <1>5, <3>1
    <3>3. \A q \in Parcel : (q \in w /\ Len(packet[q]) = 1) <=> (q \in w2 /\ Len(packet'[q]) = 1)
      BY <3>1, <3>2
    <3> QED
      BY <2>1, <2>2, <2>3, <3>1, <3>3 DEF InOrder
  <2> QED
    BY <2>5, <2>6
<1>10. TypesInv'
  <2>1. "types" \in known'["client"] /\ known' = known /\ lost' = lost
    BY <1>2 DEF OInv, TypesInv, endVars, connVars
  <2>2. ASSUME NEW q \in Parcel, sender'[q] \in Begun PROVE From(q) \in connSeen'[via'[q]]
    <3>1. CASE q = p
      BY <1>1, <1>2, <1>6, <3>1
    <3>2. CASE q # p
      <4>1. sender[q] \in Begun /\ via'[q] = via[q] /\ via[q] \in 1 .. made
        BY <1>2, <1>3, <2>2, <3>2 DEF IInv, PacketInv, PacketOf
      <4>2. via[q] \in Conn
        BY <4>1, CallCount DEF IInv, TypeOK, Conn
      <4> QED
        BY <1>6, <4>1, <4>2 DEF OInv, TypesInv
    <3> QED
      BY <3>1, <3>2
  <2>3. ASSUME NEW l \in Conn, <<l, "client">> \notin overlap', "types" \notin known'["server"]
        PROVE  TypesFirst(Stream(buffer', wire', l, "server"), WriterSet(sender', via', l, "client"),
                          types', connSeen'[l], l \in lost')
    <3>1. PICK st, w, w2 : /\ st = Stream(buffer, wire, l, "server") /\ st = Stream(buffer', wire', l, "server")
                           /\ w = WriterSet(sender, via, l, "client") /\ w2 = WriterSet(sender', via', l, "client")
      BY <1>7 DEF Side
    <3>2. <<l, "client">> \notin overlap
      BY <1>2, <2>3
    <3>3. TypesFirst(st, w, types, connSeen[l], l \in lost)
      BY <2>1, <2>3, <3>1, <3>2 DEF OInv, TypesInv
    <3>4. w \subseteq w2 /\ types \subseteq types'
      BY <1>2, <1>8, <3>1 DEF Side
    <3>5. "client" \in connSeen'[l] => "client" \in connSeen[l] \/ (p \in w2 /\ p \in types')
      BY <1>2, <1>6, <1>8, <3>1
    <3>6. TypesFirst(st, w2, types', connSeen'[l], l \in lost)
      BY <3>3, <3>4, <3>5 DEF TypesFirst
    <3> QED
      BY <2>1, <3>1, <3>6
  <2> QED
    BY <2>1, <2>2, <2>3 DEF TypesInv
<1>11. EndInv'
  BY <1>2 DEF OInv, EndInv, endVars
<1> QED
  BY <1>9, <1>10, <1>11 DEF OInv
\* A write keeps the order, by MoreWhole.
LEMMA WriteOrder ==
  ASSUME IInv, OInv, NEW p \in Parcel, NEW n \in 1 .. 2, Write(p, n)
  PROVE  OInv'
<1>1. PICK k \in Conn, s \in Side : k = via[p] /\ s = Other(From(p)) /\ From(p) = Other(s) /\ From(p) \in Side
  BY WriteStep, Sides
<1>2. PICK new \in Seq(Chunk) :
        /\ Moved(p, new)
        /\ \A l \in Conn, t \in Side :
            IF l = k /\ t = s
            THEN Extends(Stream(buffer', wire', l, t), Stream(buffer, wire, l, t), new)
            ELSE Stream(buffer', wire', l, t) = Stream(buffer, wire, l, t)
  <2>1. \E new \in Seq(Chunk) : Extended(p, new, k, s)
    <3>1. \E new \in Seq(Chunk) : Extended(p, new, via[p], Other(From(p)))
      BY WriteStep
    <3> QED
      BY <1>1, <3>1
  <2> QED
    BY <2>1 DEF Extended
<1>3. /\ via' = via /\ types' = types /\ connSeen' = connSeen /\ known' = known /\ failed' = failed
      /\ overlap' = overlap /\ lost' = lost
  BY DEF Write, seenVars, connVars, endVars, history
<1>4. /\ sender[p] = "write" /\ k \notin lost
      /\ \A q \in Parcel \ {p} : sender'[q] = sender[q] /\ packet'[q] = packet[q]
      /\ wire' \in [Conn -> [Side -> Seq(Chunk)]] /\ buffer' = buffer
  BY <1>1, WriteStep
<1>5. sender'[p] \in {"sent", "write"}
  BY <1>2 DEF Moved
<1>6. /\ \A l \in Conn, o \in Side : WriterSet(sender', via', l, o) \subseteq WriterSet(sender, via, l, o)
      /\ \A l \in Conn, o \in Side : (l = k /\ o = From(p)) \/ WriterSet(sender', via', l, o) = WriterSet(sender, via, l, o)
      /\ p \in WriterSet(sender, via, k, From(p))
  BY <1>1, <1>3, <1>4, <1>5 DEF WriterSet
<1>7. buffer \in [Conn -> [Side -> Seq(Chunk)]] /\ wire \in [Conn -> [Side -> Seq(Chunk)]]
  BY DEF IInv, TypeOK, Chunk
<1>8. PICK x, y : x = Stream(buffer, wire, k, s) /\ y = Stream(buffer', wire', k, s)
  OBVIOUS
<1>9. x \in Seq(Chunk) /\ y \in Seq(Chunk) /\ Extends(y, x, new)
  <2>1. Stream(buffer, wire, k, s) \in Seq(Chunk)
    BY <1>7, StreamParts
  <2>2. Stream(buffer, wire', k, s) \in Seq(Chunk)
    BY <1>4, <1>7, StreamParts
  <2> QED
    BY <1>2, <1>4, <1>8, <2>1, <2>2
\* The writer is alone, so that the stream is as it left it.
<1>10. ASSUME <<k, From(p)>> \notin overlap
       PROVE  /\ WriterSet(sender, via, k, From(p)) = {p}
              /\ Whole(y) /\ y # <<>>
              /\ y[1] = IF x = <<>> THEN new[1] ELSE x[1]
              /\ \A q \in Parcel : Ends(y, q) <=> (q = p /\ sender'[q] = "write" /\ Len(packet'[q]) = 1)
  <2>1. InOrder(x, WriterSet(sender, via, k, From(p)), packet, k \in lost)
    BY <1>1, <1>8, <1>10 DEF OInv, OrderInv
  <2>2. WriterSet(sender, via, k, From(p)) = {p}
    BY <1>6, <2>1 DEF InOrder
  <2>3. Whole(x) /\ \A q \in Parcel : Ends(x, q) <=> (q = p /\ Len(packet[q]) = 1)
    BY <1>4, <2>1, <2>2 DEF InOrder
  <2> QED
    BY <1>2, <1>9, <2>2, <2>3, MoreWhole
<1>11. OrderInv'
  <2> SUFFICES ASSUME NEW l \in Conn, NEW t \in Side, <<l, Other(t)>> \notin overlap'
               PROVE  InOrder(Stream(buffer', wire', l, t), WriterSet(sender', via', l, Other(t)), packet', l \in lost')
    BY DEF OrderInv
  <2>1. CASE l = k /\ t = s
    <3>1. PICK w2 : w2 = WriterSet(sender', via', k, From(p))
      OBVIOUS
    <3>2. w2 \subseteq {p} /\ (p \in w2 <=> sender'[p] = "write")
      BY <1>1, <1>3, <1>6, <1>10, <2>1, <3>1 DEF WriterSet
    <3>3. \A q \in Parcel : Ends(y, q) <=> (q \in w2 /\ Len(packet'[q]) = 1)
      BY <1>1, <1>3, <1>10, <2>1, <3>2
    <3>4. InOrder(y, w2, packet', k \in lost')
      BY <1>1, <1>3, <1>10, <2>1, <3>2, <3>3 DEF InOrder
    <3> QED
      BY <1>1, <1>8, <2>1, <3>1, <3>4
  <2>2. CASE ~(l = k /\ t = s)
    <3>1. PICK st, w : /\ st = Stream(buffer, wire, l, t) /\ st = Stream(buffer', wire', l, t)
                       /\ w = WriterSet(sender, via, l, Other(t))
      BY <1>2, <2>2
    <3>2. InOrder(st, w, packet, l \in lost)
      BY <1>3, <3>1 DEF OInv, OrderInv
    <3>3. ~(l = k /\ Other(t) = From(p)) /\ Other(t) \in Side
      BY <1>1, <2>2, Sides
    <3>4. WriterSet(sender', via', l, Other(t)) = w /\ p \notin w
      BY <1>1, <1>6, <3>1, <3>3 DEF WriterSet
    <3>5. \A q \in Parcel : (q \in w /\ Len(packet[q]) = 1) <=> (q \in w /\ Len(packet'[q]) = 1)
      BY <1>4, <3>4
    <3>6. InOrder(st, w, packet', l \in lost')
      BY <1>3, <3>2, <3>5 DEF InOrder
    <3> QED
      BY <3>1, <3>4, <3>6
  <2> QED
    BY <2>1, <2>2
<1>12. TypesInv'
  <2>1. ASSUME NEW q \in Parcel, sender'[q] \in Begun PROVE From(q) \in connSeen'[via'[q]]
    <3>1. sender[q] \in Begun
      BY <1>4, <2>1 DEF Begun
    <3> QED
      BY <1>3, <3>1 DEF OInv, TypesInv
  <2>2. ASSUME NEW l \in Conn, <<l, "client">> \notin overlap', "types" \notin known'["server"]
        PROVE  TypesFirst(Stream(buffer', wire', l, "server"), WriterSet(sender', via', l, "client"),
                          types', connSeen'[l], l \in lost')
    <3>1. TypesFirst(Stream(buffer, wire, l, "server"), WriterSet(sender, via, l, "client"),
                     types, connSeen[l], l \in lost)
      BY <1>3, <2>2 DEF OInv, TypesInv
    <3>2. CASE l = k /\ s = "server"
      <4>1. From(p) = "client"
        BY <1>1, <3>2 DEF Other
      <4>2. WriterSet(sender, via, k, "client") = {p} /\ y # <<>> /\ y[1] = IF x = <<>> THEN new[1] ELSE x[1]
        BY <1>3, <1>10, <2>2, <3>2, <4>1
      <4>3. x = <<>> => p \in types
        <5>1. "client" \in connSeen[k]
          BY <1>1, <1>4, <4>1 DEF OInv, TypesInv, Begun
        <5> QED
          BY <1>4, <1>8, <3>1, <3>2, <4>2, <5>1 DEF TypesFirst
      <4>4. new[1][1] = p
        <5>1. Len(new) \in 1 .. 2 /\ \A j \in 1 .. Len(new) : new[j][1] = p
          BY <1>2, MovedChunks
        <5>2. \A m : m \in 1 .. 2 => 1 \in 1 .. m
          OBVIOUS
        <5> QED
          BY <5>1, <5>2
      <4>5. x # <<>> => x[1][1] \in types
        BY <1>8, <3>1, <3>2 DEF TypesFirst
      <4>6. y[1][1] \in types
        BY <4>2, <4>3, <4>4, <4>5
      <4> QED
        BY <1>3, <1>8, <3>2, <4>2, <4>6 DEF TypesFirst
    <3>3. CASE ~(l = k /\ s = "server")
      <4>1. Stream(buffer', wire', l, "server") = Stream(buffer, wire, l, "server")
        BY <1>2, <3>3 DEF Side
      <4>2. WriterSet(sender', via', l, "client") = WriterSet(sender, via, l, "client")
        <5>1. ~(l = k /\ "client" = From(p))
          BY <1>1, <3>3 DEF Other, Side
        <5> QED
          BY <1>6, <5>1 DEF Side
      <4> QED
        BY <1>3, <3>1, <4>1, <4>2
    <3> QED
      BY <3>2, <3>3
  <2>3. "types" \in known'["client"]
    BY <1>3 DEF OInv, TypesInv
  <2> QED
    BY <2>1, <2>2, <2>3 DEF TypesInv
<1>13. EndInv'
  BY <1>3 DEF OInv, EndInv
<1> QED
  BY <1>11, <1>12, <1>13 DEF OInv

\* Steps by which a lost connection may lose chunks, and those who write to it.
LEMMA LostOrder ==
  ASSUME IInv, OInv, UNCHANGED <<types, connSeen, known, overlap, failed, via>>, lost \subseteq lost',
         buffer' \in [Conn -> [Side -> Seq(Chunk)]], wire' \in [Conn -> [Side -> Seq(Chunk)]],
         \A k \in Conn, s \in Side :
            /\ IsBegin(Stream(buffer', wire', k, s), Stream(buffer, wire, k, s))
            /\ k \in lost' \/ Stream(buffer', wire', k, s) = Stream(buffer, wire, k, s),
         \A q \in Parcel : sender'[q] \in Begun => sender[q] \in Begun,
         \A q \in Parcel : sender'[q] = "write" => sender[q] = "write",
         \A q \in Parcel : via[q] \in lost' \/ (sender'[q] = sender[q] /\ packet'[q] = packet[q])
  PROVE  OInv'
<1>1. buffer \in [Conn -> [Side -> Seq(Chunk)]] /\ wire \in [Conn -> [Side -> Seq(Chunk)]]
  BY DEF IInv, TypeOK, Chunk
<1>2. ASSUME NEW l \in Conn, NEW t \in Side
      PROVE  Stream(buffer, wire, l, t) \in Seq(Chunk) /\ Stream(buffer', wire', l, t) \in Seq(Chunk)
  <2>1. Stream(buffer, wire, l, t) \in Seq(Chunk)
    BY <1>1, StreamParts
  <2>2. Stream(buffer', wire', l, t) \in Seq(Chunk)
    BY StreamParts
  <2> QED
    BY <2>1, <2>2
<1>3. ASSUME NEW l \in Conn, NEW o
      PROVE  /\ WriterSet(sender', via', l, o) \subseteq WriterSet(sender, via, l, o)
             /\ l \in lost' \/ WriterSet(sender', via', l, o) = WriterSet(sender, via, l, o)
  BY DEF WriterSet
<1>4. OrderInv'
  <2> SUFFICES ASSUME NEW l \in Conn, NEW t \in Side, <<l, Other(t)>> \notin overlap'
               PROVE  InOrder(Stream(buffer', wire', l, t), WriterSet(sender', via', l, Other(t)), packet', l \in lost')
    BY DEF OrderInv
  <2>1. PICK x \in Seq(Chunk), y \in Seq(Chunk) : x = Stream(buffer, wire, l, t) /\ y = Stream(buffer', wire', l, t)
    BY <1>2
  <2>2. PICK w, w2 : w = WriterSet(sender, via, l, Other(t)) /\ w2 = WriterSet(sender', via', l, Other(t))
    OBVIOUS
  <2>3. InOrder(x, w, packet, l \in lost) /\ IsBegin(y, x) /\ w2 \subseteq w
    BY <1>3, <2>1, <2>2 DEF OInv, OrderInv
  <2>4. Whole(y)
    BY <2>3, BeginWhole DEF InOrder
  <2>5. CASE l \in lost'
    <3>1. InOrder(y, w2, packet', l \in lost')
      BY <2>3, <2>4, <2>5 DEF InOrder
    <3> QED
      BY <2>1, <2>2, <3>1
  <2>6. CASE l \notin lost'
    <3>1. y = x /\ w2 = w /\ l \notin lost
      BY <1>3, <2>1, <2>2, <2>6
    <3>2. \A q \in w : packet'[q] = packet[q]
      BY <2>2, <2>6 DEF WriterSet
    <3>3. \A q \in Parcel : (q \in w /\ Len(packet[q]) = 1) <=> (q \in w /\ Len(packet'[q]) = 1)
      BY <3>2
    <3>4. InOrder(y, w2, packet', l \in lost')
      BY <2>3, <2>6, <3>1, <3>3 DEF InOrder
    <3> QED
      BY <2>1, <2>2, <3>4
  <2> QED
    BY <2>5, <2>6
<1>5. TypesInv'
  <2>1. ASSUME NEW l \in Conn, <<l, "client">> \notin overlap', "types" \notin known'["server"]
        PROVE  TypesFirst(Stream(buffer', wire', l, "server"), WriterSet(sender', via', l, "client"),
                          types', connSeen'[l], l \in lost')
    <3>1. PICK x \in Seq(Chunk), y \in Seq(Chunk) :
            x = Stream(buffer, wire, l, "server") /\ y = Stream(buffer', wire', l, "server")
      BY <1>2 DEF Side
    <3>2. PICK w, w2 : w = WriterSet(sender, via, l, "client") /\ w2 = WriterSet(sender', via', l, "client")
      OBVIOUS
    <3>3. TypesFirst(x, w, types, connSeen[l], l \in lost) /\ IsBegin(y, x)
      BY <2>1, <3>1, <3>2 DEF OInv, TypesInv, Side
    <3>4. InOrder(x, WriterSet(sender, via, l, Other("server")), packet, l \in lost)
      BY <2>1, <3>1 DEF OInv, OrderInv, Side, Other
    <3>5. y # <<>> => x # <<>> /\ y[1] = x[1]
      BY <3>3, <3>4, BeginWhole DEF InOrder
    <3>6. CASE l \in lost'
      BY <3>1, <3>3, <3>5, <3>6 DEF TypesFirst
    <3>7. CASE l \notin lost'
      <4>1. y = x /\ w2 = w /\ l \notin lost
        BY <1>3, <3>1, <3>2, <3>7 DEF Side
      <4>2. TypesFirst(y, w2, types', connSeen'[l], l \in lost')
        BY <3>3, <3>7, <4>1
      <4> QED
        BY <3>1, <3>2, <4>2
    <3> QED
      BY <3>6, <3>7
  <2> QED
    BY <2>1 DEF OInv, TypesInv
<1>6. EndInv'
  BY DEF OInv, EndInv
<1> QED
  BY <1>4, <1>5, <1>6 DEF OInv
\* A write that fails touches no stream.
LEMMA VainWriteOrder ==
  ASSUME IInv, OInv, NEW p \in Parcel, WriteToLost(p) \/ WriteToNone(p)
  PROVE  OInv'
<1>1. PICK x \in {"sent", "broken", "none"} :
        /\ sender[p] = "write" /\ sender' = [sender EXCEPT ![p] = x]
        /\ packet' = [packet EXCEPT ![p] = <<>>]
        /\ UNCHANGED <<via, types, connSeen, known, overlap, failed, lost>> /\ UNCHANGED wireVars
  BY DEF WriteToLost, WriteToNone, seenVars, connVars, endVars, history
<1>2. via[p] \in lost
  BY VainWriteInv
<1>3. sender'[p] = x /\ \A q \in Parcel \ {p} : sender'[q] = sender[q]
  BY <1>1, SenderTypes
<1>4. \A q \in Parcel \ {p} : packet'[q] = packet[q]
  BY <1>1 DEF IInv, TypeOK
<1>5. /\ buffer' \in [Conn -> [Side -> Seq(Chunk)]] /\ wire' \in [Conn -> [Side -> Seq(Chunk)]]
      /\ \A k \in Conn, s \in Side :
             /\ Stream(buffer', wire', k, s) = Stream(buffer, wire, k, s)
             /\ IsBegin(Stream(buffer', wire', k, s), Stream(buffer, wire, k, s))
  BY <1>1, SameStreams
<1>6. /\ \A q \in Parcel : sender'[q] \in Begun => sender[q] \in Begun
      /\ \A q \in Parcel : sender'[q] = "write" => sender[q] = "write"
      /\ \A q \in Parcel : via[q] \in lost' \/ (sender'[q] = sender[q] /\ packet'[q] = packet[q])
  BY <1>1, <1>2, <1>3, <1>4 DEF Begun
<1> QED
  BY <1>1, <1>5, <1>6, LostOrder

\* A loss cuts streams, which stay in order.
LEMMA LoseConnectionOrder ==
  ASSUME IInv, OInv, NEW k \in Conn, LoseConnection(k)
  PROVE  OInv'
<1>1. UNCHANGED <<sender, via, packet, types, connSeen, known, overlap, failed>>
  BY DEF LoseConnection, sendVars, seenVars, endVars, history
<1>2. /\ lost' = lost \cup {k} /\ buffer' = buffer
      /\ wire' \in [Conn -> [Side -> Seq(Chunk)]]
      /\ \A l \in Conn, t \in Side :
             /\ IsBegin(Stream(buffer', wire', l, t), Stream(buffer, wire, l, t))
             /\ l # k => Stream(buffer', wire', l, t) = Stream(buffer, wire, l, t)
  BY LoseStep
<1>3. buffer' \in [Conn -> [Side -> Seq(Chunk)]]
  BY <1>2 DEF IInv, TypeOK, Chunk
<1> QED
  BY <1>1, <1>2, <1>3, LostOrder

\* A packet that is taken leaves the others in order.
LEMMA ProcessPacketOrder ==
  ASSUME IInv, OInv, NEW k \in Conn, NEW s \in Side, ProcessPacket(k, s)
  PROVE  OInv'
<1>1. PICK p \in Parcel :
         /\ Deliver(p, k, s) /\ "types" \in known[s] \cup Learned(p)
         /\ 2 <= Len(Stream(buffer, wire, k, s))
         /\ Stream(buffer, wire, k, s)[1] = <<p, 1>> /\ Stream(buffer, wire, k, s)[2] = <<p, 2>>
         /\ buffer' \in [Conn -> [Side -> Seq(Chunk)]] /\ wire' = wire
         /\ Len(Stream(buffer', wire', k, s)) = Len(Stream(buffer, wire, k, s)) - 2
         /\ \A i \in 1 .. Len(Stream(buffer', wire', k, s)) :
              Stream(buffer', wire', k, s)[i] = Stream(buffer, wire, k, s)[i + 2]
         /\ \A l \in Conn, t \in Side : (l = k /\ t = s) \/ Stream(buffer', wire', l, t) = Stream(buffer, wire, l, t)
  BY ProcessStep
<1>2. UNCHANGED <<sender, via, packet, types, overlap, lost, failed>>
  BY DEF ProcessPacket, sendVars, connVars, history
<1>3. /\ known' = [known EXCEPT ![s] = known[s] \cup Learned(p)]
      /\ connSeen' = IF p \in types /\ "types" \notin known[s] THEN [connSeen EXCEPT ![k] = connSeen[k] \cup {s}] ELSE connSeen
  BY <1>1 DEF Deliver, Enter
<1>4. /\ \A t \in Side : known[t] \subseteq known'[t]
      /\ "types" \in known'[s] /\ \A t \in Side \ {s} : known'[t] = known[t]
      /\ \A l \in Conn : connSeen[l] \subseteq connSeen'[l] /\ connSeen'[l] \subseteq connSeen[l] \cup {s}
      /\ s = "client" => connSeen' = connSeen
  BY <1>1, <1>3 DEF IInv, TypeOK, OInv, TypesInv
<1>5. \A l, o : WriterSet(sender', via', l, o) = WriterSet(sender, via, l, o)
  BY <1>2 DEF WriterSet
<1>6. OrderInv'
  <2> SUFFICES ASSUME NEW l \in Conn, NEW t \in Side, <<l, Other(t)>> \notin overlap'
               PROVE  InOrder(Stream(buffer', wire', l, t), WriterSet(sender', via', l, Other(t)), packet', l \in lost')
    BY DEF OrderInv
  <2>1. InOrder(Stream(buffer, wire, l, t), WriterSet(sender, via, l, Other(t)), packet, l \in lost)
    BY <1>2 DEF OInv, OrderInv
  <2>2. CASE l = k /\ t = s
    <3>1. buffer \in [Conn -> [Side -> Seq(Chunk)]] /\ wire \in [Conn -> [Side -> Seq(Chunk)]]
      BY DEF IInv, TypeOK, Chunk
    <3>2. Stream(buffer, wire, k, s) \in Seq(Chunk)
      BY <3>1, StreamParts
    <3>3. Stream(buffer', wire', k, s) \in Seq(Chunk)
      BY <1>1, <3>1, StreamParts
    <3>4. PICK x \in Seq(Chunk), y \in Seq(Chunk) : x = Stream(buffer, wire, k, s) /\ y = Stream(buffer', wire', k, s)
      BY <3>2, <3>3
    <3>5. /\ Whole(x) /\ 2 <= Len(x) /\ x[1] = <<p, 1>> /\ x[2] = <<p, 2>>
          /\ Len(y) = Len(x) - 2 /\ \A i \in 1 .. Len(y) : y[i] = x[i + 2]
      BY <1>1, <2>1, <2>2, <3>4 DEF InOrder
    <3>6. Whole(y) /\ \A q \in Parcel : Ends(y, q) <=> Ends(x, q)
      BY <3>5, RestWhole
    <3>7. PICK w : w = WriterSet(sender, via, k, Other(s)) /\ w = WriterSet(sender', via', k, Other(s))
      BY <1>5
    <3>8. InOrder(x, w, packet, k \in lost)
      BY <2>1, <2>2, <3>4, <3>7
    <3>9. InOrder(y, w, packet', k \in lost')
      BY <1>2, <3>6, <3>8 DEF InOrder
    <3> QED
      BY <2>2, <3>4, <3>7, <3>9
  <2>3. CASE ~(l = k /\ t = s)
    BY <1>1, <1>2, <1>5, <2>1, <2>3
  <2> QED
    BY <2>2, <2>3
<1>7. TypesInv'
  <2>1. "types" \in known'["client"]
    BY <1>4 DEF OInv, TypesInv, Side
  <2>2. ASSUME NEW q \in Parcel, sender'[q] \in Begun PROVE From(q) \in connSeen'[via'[q]]
    <3>1. From(q) \in connSeen[via[q]] /\ via[q] \in 1 .. made
      BY <1>2, <2>2 DEF OInv, TypesInv, IInv, PacketInv, PacketOf
    <3>2. via[q] \in Conn
      BY <3>1, CallCount DEF IInv, TypeOK, Conn
    <3> QED
      BY <1>2, <1>4, <3>1, <3>2
  <2>3. CASE s = "server"
    BY <1>4, <2>1, <2>2, <2>3 DEF TypesInv
  <2>4. CASE s = "client"
    <3>1. \A l \in Conn : Stream(buffer', wire', l, "server") = Stream(buffer, wire, l, "server")
      BY <1>1, <2>4 DEF Side
    <3>2. connSeen' = connSeen /\ known'["server"] = known["server"]
      BY <1>4, <2>4 DEF Side
    <3>3. \A l \in Conn :
            \/ <<l, "client">> \in overlap'
            \/ "types" \in known'["server"]
            \/ TypesFirst(Stream(buffer', wire', l, "server"), WriterSet(sender', via', l, "client"),
                          types', connSeen'[l], l \in lost')
      BY <1>2, <1>5, <3>1, <3>2 DEF OInv, TypesInv
    <3> QED
      BY <2>1, <2>2, <3>3 DEF TypesInv
  <2> QED
    BY <2>3, <2>4 DEF Side
<1>8. EndInv'
  BY <1>2 DEF OInv, EndInv
<1> QED
  BY <1>6, <1>7, <1>8 DEF OInv

\* Where no two threads sent at a time, two chunks in a buffer are a packet that can be read.
LEMMA ProcessFailsOrder ==
  ASSUME IInv, OInv, NEW k \in Conn, NEW s \in Side, ProcessFails(k, s)
  PROVE  OInv'
<1>1. /\ UNCHANGED <<sender, via, packet, types, connSeen, known, overlap, lost>> /\ UNCHANGED wireVars
      /\ failed' = failed \cup {s}
  BY DEF ProcessFails, sendVars, seenVars, connVars, history
<1>2. \A l \in Conn, t \in Side : Stream(buffer', wire', l, t) = Stream(buffer, wire, l, t)
  BY <1>1, SameStreams
<1>3. \A l, o : WriterSet(sender', via', l, o) = WriterSet(sender, via, l, o)
  BY <1>1 DEF WriterSet
<1>4. OrderInv'
  BY <1>1, <1>2, <1>3 DEF OInv, OrderInv
<1>5. TypesInv'
  BY <1>1, <1>2, <1>3 DEF OInv, TypesInv, Side
<1>6. <<k, Other(s)>> \in overlap
  <2> SUFFICES ASSUME <<k, Other(s)>> \notin overlap PROVE FALSE
    OBVIOUS
  <2>1. buffer \in [Conn -> [Side -> Seq(Chunk)]] /\ wire \in [Conn -> [Side -> Seq(Chunk)]]
    BY DEF IInv, TypeOK, Chunk
  <2>2. PICK x \in Seq(Chunk), st \in Seq(Chunk) :
          /\ x = buffer[k][s] /\ st = Stream(buffer, wire, k, s)
          /\ Len(x) <= Len(st) /\ DOMAIN st = 1 .. Len(st)
          /\ \A i \in 1 .. Len(x) : st[i] = x[i]
    <3>1. PICK x \in Seq(Chunk), y \in Seq(Chunk) : x = buffer[k][s] /\ y = wire[k][s]
      BY <2>1
    <3>2. PICK st : st = x \o y
      OBVIOUS
    <3>3. /\ st \in Seq(Chunk) /\ Len(st) = Len(x) + Len(y)
          /\ \A i \in 1 .. Len(x) + Len(y) : st[i] = IF i <= Len(x) THEN x[i] ELSE y[i - Len(x)]
      BY <3>2, ConcatProperties
    <3>4. Len(x) \in Nat /\ Len(y) \in Nat /\ DOMAIN st = 1 .. Len(st)
      BY <3>3, LenProperties
    <3>5. Len(x) <= Len(st) /\ \A i \in 1 .. Len(x) : st[i] = x[i]
      BY <3>3, <3>4
    <3>6. st = Stream(buffer, wire, k, s)
      BY <3>1, <3>2 DEF Stream
    <3> QED
      BY <3>1, <3>3, <3>4, <3>5, <3>6
  <2>3. Len(x) \in Nat /\ Len(st) \in Nat /\ 2 <= Len(x)
    BY <2>2, LenProperties DEF ProcessFails
  <2>4. Whole(st)
    BY <2>2 DEF OInv, OrderInv, InOrder
  <2>5. x[1] \in Chunk /\ x[2] \in Chunk
    BY <2>3, ElementOfSeq
  <2>6. PICK p \in Parcel : x[1] = <<p, 1>> /\ x[2] = <<p, 2>>
    <3>1. 1 \in DOMAIN st /\ 1 + 1 \in DOMAIN st /\ st[1] = x[1] /\ st[1 + 1] = x[2] /\ st # <<>>
      BY <2>2, <2>3
    <3>2. st[1][2] = 1 /\ st[1 + 1] = <<st[1][1], 2>>
      BY <2>4, <3>1 DEF Whole
    <3> QED
      BY <2>5, <3>1, <3>2 DEF Chunk
  <2>7. SubSeq(x, 1, 2) = <<<<p, 1>>, <<p, 2>>>>
    <3>1. PICK z : z = SubSeq(x, 1, 2)
      OBVIOUS
    <3>2. \A i \in 1 .. 2 : x[i] \in Chunk
      BY <2>3, ElementOfSeq
    <3>3. z \in Seq(Chunk) /\ Len(z) = 2 /\ z[1] = x[1] /\ z[2] = x[2]
      BY <3>1, <3>2, SubSeqProperties
    <3>4. Full(p) \in Seq(Chunk) /\ Len(Full(p)) = 2 /\ Full(p)[1] = <<p, 1>> /\ Full(p)[2] = <<p, 2>>
      BY Packets
    <3>5. \A i \in 1 .. 2 : z[i] = Full(p)[i]
      <4>1. \A i \in 1 .. 2 : i = 1 \/ i = 2
        OBVIOUS
      <4> QED
        BY <2>6, <3>3, <3>4, <4>1
    <3>6. z = Full(p)
      BY <3>3, <3>4, <3>5, SeqEqual
    <3> QED
      BY <3>1, <3>6 DEF Full
  <2>8. "types" \in known[s] \cup Learned(p)
    <3>1. CASE s = "client"
      BY <3>1 DEF OInv, TypesInv
    <3>2. CASE s = "server"
      <4>1. <<k, "client">> \notin overlap
        BY <3>2 DEF Other
      <4>2. st # <<>> /\ st[1] = x[1]
        BY <2>2, <2>3
      <4>3. "types" \in known["server"] \/ p \in types
        <5>1. "types" \in known["server"] \/ st[1][1] \in types
          BY <2>2, <3>2, <4>1, <4>2 DEF OInv, TypesInv, TypesFirst
        <5> QED
          BY <2>6, <4>2, <5>1
      <4> QED
        BY <3>2, <4>3 DEF Learned
    <3> QED
      BY <3>1, <3>2 DEF Side
  <2>9. x[1][1] = p
    BY <2>6
  <2> QED
    BY <2>2, <2>7, <2>8, <2>9 DEF ProcessFails
<1>7. EndInv'
  BY <1>1, <1>6 DEF OInv, EndInv
<1> QED
  BY <1>4, <1>5, <1>7 DEF OInv

\* Empty streams are in order.
LEMMA InitOrder == Init => OInv
<1> SUFFICES ASSUME Init PROVE OInv
  OBVIOUS
<1>1. \A k \in Conn, s \in Side : Stream(buffer, wire, k, s) = <<>>
  BY NoneRead DEF Init, Stream
<1>2. \A k, o : WriterSet(sender, via, k, o) = {}
  BY DEF Init, WriterSet
<1>3. OrderInv
  BY <1>1, <1>2 DEF OrderInv, InOrder, Whole, Ends
<1>4. TypesInv
  <2>1. "types" \in known["client"] /\ \A p \in Parcel : sender[p] \notin Begun
    BY DEF Init, Side, Begun
  <2>2. \A k \in Conn : TypesFirst(Stream(buffer, wire, k, "server"), WriterSet(sender, via, k, "client"),
                                   types, connSeen[k], k \in lost)
    BY <1>1 DEF Init, TypesFirst, Side
  <2> QED
    BY <2>1, <2>2 DEF TypesInv
<1>5. EndInv
  BY DEF Init, EndInv
<1> QED
  BY <1>3, <1>4, <1>5 DEF OInv

\* Every step keeps the order.
LEMMA StepOrder == IInv /\ OInv /\ [Next]_vars => OInv'
<1> SUFFICES ASSUME IInv, OInv, [Next]_vars PROVE OInv'
  OBVIOUS
<1>1. CASE \E p \in Parcel : TransportSend(p) \/ Step(p)
  BY <1>1, QuietOrder, BundleOrder, WriteOrder, VainWriteOrder DEF Step
<1>2. CASE \E k \in Conn : LoseConnection(k) \/ \E s \in Side : Select(k, s)
  BY <1>2, LoseConnectionOrder, SelectOrder, ProcessPacketOrder, ProcessFailsOrder DEF Select
<1>3. CASE FindClosed \/ RemoveClosed
  BY <1>3, SelectOrder
<1>4. CASE UNCHANGED vars
  <2>1. /\ UNCHANGED <<packet, types, connSeen, known, overlap, lost, failed, sender, via>> /\ UNCHANGED wireVars
    BY <1>4 DEF vars, sendVars, seenVars, connVars, endVars, history
  <2>2. \A k \in Conn, s \in Side : Stream(buffer', wire', k, s) = Stream(buffer, wire, k, s)
    BY <2>1, SameStreams
  <2> QED
    BY <2>1, <2>2, KeepOrder
<1> QED
  BY <1>1, <1>2, <1>3, <1>4 DEF Next

\* For any number of calls and losses, and whatever the chunks: a selector thread fails only
\* when two threads of the other side sent by one connection at a time.
THEOREM OneSenderIsSafe == Spec => []FailsOnlyByOverlap
<1>1. Init => IInv /\ OInv
  BY InitInv, InitOrder
<1>2. (IInv /\ OInv) /\ [Next]_vars => (IInv /\ OInv)'
  BY StepInv, StepOrder
<1>3. IInv /\ OInv => FailsOnlyByOverlap
  BY DEF OInv, EndInv, FailsOnlyByOverlap
<1> QED
  BY <1>1, <1>2, <1>3, PTL DEF Spec
-----------------------------------------------------------------------------
(* The content that parcels leave out *)

\* Senders that go on as they were, by the connection that is cached.
LEMMA KeepQuiet ==
  ASSUME QuietInv, UNCHANGED <<content, peerSeen, known, doomed, unresolved>>,
         \A k \in Conn : Stream(buffer', wire', k, "server") = Stream(buffer, wire, k, "server"),
         \A q \in Parcel : q \in Active' => q \in Active,
         \A q \in Call : q \in Active => q \in Active',
         \A q \in Call : sender'[q] \in Begun \cup {"bundle"} => cache' = via'[q],
         \A q \in Call : sender'[q] = "connect" => cache' = None
  PROVE  QuietInv'
<1>1. \A s : Sending(s)' \subseteq Sending(s)
  BY DEF Sending, Active
<1>2. Sending("client") \subseteq Sending("client")'
  BY DEF Sending, Active, From
<1>3. \A s \in Side : \A p, q \in Sending(s)' : p = q
  BY <1>1 DEF QuietInv
<1>4. "content" \in known'["server"] \/
        /\ \A k \in Conn : LET st == Stream(buffer', wire', k, "server") IN
            st # <<>> => st[1][1] \in content'
        /\ "client" \in peerSeen' =>
            \/ \E p \in Sending("client")' : p \in content'
            \/ \E k \in Conn : Stream(buffer', wire', k, "server") # <<>>
  BY <1>2 DEF QuietInv
<1> QED
  BY <1>3, <1>4 DEF QuietInv

\* A message bundle leaves out its content only when an earlier parcel has it.
LEMMA TransportSendContent ==
  ASSUME IInv, CInv, NEW p \in Parcel, TransportSend(p)
  PROVE  CInv'
<1>1. /\ sender[p] = "idle" /\ sender' = [sender EXCEPT ![p] = "route"]
      /\ content' = IF From(p) \in peerSeen THEN content ELSE content \cup {p}
      /\ peerSeen' = peerSeen \cup {From(p)}
      /\ rushed' = IF Sending(From(p)) = {} THEN rushed ELSE rushed \cup {p}
      /\ via' = via /\ UNCHANGED connVars /\ UNCHANGED wireVars /\ UNCHANGED endVars
  BY DEF TransportSend
<1>2. sender'[p] = "route" /\ \A q \in Parcel \ {p} : sender'[q] = sender[q]
  BY <1>1, SenderTypes
<1>3. "content" \in known'["client"] /\ \A q \in Parcel : sender'[q] # "idle" => From(q) \in peerSeen'
  BY <1>1, <1>2 DEF CInv, endVars
<1>4. ASSUME lost' = {}, rushed' = {} PROVE QuietInv'
  <2>1. QuietInv /\ Sending(From(p)) = {}
    BY <1>1, <1>4 DEF CInv, connVars
  <2>2. /\ \A s \in Side : s # From(p) => Sending(s)' \subseteq Sending(s)
        /\ Sending(From(p))' = {p}
        /\ From(p) # "client" => Sending("client") \subseteq Sending("client")'
    BY <1>2, <2>1 DEF Sending, Active
  <2>3. \A s \in Side : \A q, r \in Sending(s)' : q = r
    BY <2>1, <2>2, Sides DEF QuietInv
  <2>4. /\ \A q \in Call : sender'[q] \in Begun \cup {"bundle"} => cache' = via'[q]
        /\ \A q \in Call : sender'[q] = "connect" => cache' = None
    BY <1>1, <1>2, <2>1 DEF QuietInv, Begun, Parcel, connVars
  <2>5. \A k \in Conn : Stream(buffer', wire', k, "server") = Stream(buffer, wire, k, "server")
    BY <1>1, SameStreams DEF Side
  <2>6. ASSUME "content" \notin known["server"]
        PROVE  /\ \A k \in Conn : LET st == Stream(buffer', wire', k, "server") IN
                    st # <<>> => st[1][1] \in content'
               /\ "client" \in peerSeen' =>
                    \/ \E q \in Sending("client")' : q \in content'
                    \/ \E k \in Conn : Stream(buffer', wire', k, "server") # <<>>
    <3>1. content \subseteq content'
      BY <1>1
    <3>2. /\ \A k \in Conn : LET st == Stream(buffer, wire, k, "server") IN st # <<>> => st[1][1] \in content
          /\ "client" \in peerSeen =>
               \/ \E q \in Sending("client") : q \in content
               \/ \E k \in Conn : Stream(buffer, wire, k, "server") # <<>>
      BY <2>1, <2>6 DEF QuietInv
    <3>3. CASE From(p) = "client" /\ "client" \notin peerSeen
      <4>1. p \in Sending("client")' /\ p \in content'
        BY <1>1, <2>2, <3>3
      <4> QED
        BY <2>5, <3>1, <3>2, <4>1
    <3>4. CASE ~(From(p) = "client" /\ "client" \notin peerSeen)
      <4>1. "client" \in peerSeen' => "client" \in peerSeen
        BY <1>1, <3>4
      <4>2. "client" \in peerSeen =>
               \/ \E q \in Sending("client")' : q \in content
               \/ \E k \in Conn : Stream(buffer, wire, k, "server") # <<>>
        BY <2>1, <2>2, <3>2
      <4> QED
        BY <2>5, <3>1, <3>2, <4>1, <4>2
    <3> QED
      BY <3>3, <3>4
  <2> QED
    BY <1>1, <2>1, <2>3, <2>4, <2>6 DEF QuietInv, connVars, endVars
<1> QED
  BY <1>3, <1>4 DEF CInv

\* A transport bundle leaves out the types only when an earlier packet of the connection has them.
LEMMA SenderContent ==
  ASSUME IInv, CInv, NEW p \in Parcel, PickCached(p) \/ Connect(p) \/ PickRoute(p) \/ Bundle(p)
  PROVE  CInv'
<1>1. /\ sender[p] \in {"route", "connect", "bundle"}
      /\ UNCHANGED <<content, peerSeen, known, doomed, unresolved, lost, rushed>> /\ UNCHANGED wireVars
  BY DEF PickCached, Connect, PickRoute, Bundle, seenVars, connVars, endVars, history
<1>2. PICK x \in {"bundle", "connect", "noroute", "gone", "write"} :
        /\ sender' = [sender EXCEPT ![p] = x]
        /\ p \in Call => x \in {"bundle", "connect", "write"}
  BY DEF PickCached, Connect, PickRoute, Bundle, From
<1>3. sender'[p] = x /\ \A q \in Parcel \ {p} : sender'[q] = sender[q]
  BY <1>2, SenderTypes
<1>4. "content" \in known'["client"] /\ \A q \in Parcel : sender'[q] # "idle" => From(q) \in peerSeen'
  BY <1>1, <1>3 DEF CInv
<1>5. ASSUME lost' = {}, rushed' = {} PROVE QuietInv'
  <2>1. QuietInv
    BY <1>1, <1>5 DEF CInv
  <2>2. \A k \in Conn : Stream(buffer', wire', k, "server") = Stream(buffer, wire, k, "server")
    BY <1>1, SameStreams DEF Side
  <2>3. /\ \A q \in Parcel : q \in Active' => q \in Active
        /\ \A q \in Call : q \in Active => q \in Active'
    BY <1>1, <1>2, <1>3 DEF Active, Parcel
  <2>4. /\ \A q \in Call : sender'[q] \in Begun \cup {"bundle"} => cache' = via'[q]
        /\ \A q \in Call : sender'[q] = "connect" => cache' = None
    <3>1. CASE PickCached(p)
      <4>1. /\ cache' = cache /\ \A q \in Parcel \ {p} : via'[q] = via[q]
            /\ sender'[p] = "bundle" => via'[p] = cache
            /\ sender'[p] = "connect" => cache = None
            /\ sender'[p] \in {"bundle", "connect"}
        BY <1>3, <3>1 DEF PickCached, IInv, TypeOK, connVars
      <4> QED
        BY <1>3, <2>1, <4>1 DEF QuietInv, Begun, Parcel
    <3>2. CASE Connect(p)
      <4>1. /\ cache' = made + 1 /\ \A q \in Parcel \ {p} : via'[q] = via[q]
            /\ via' = [via EXCEPT ![p] = made + 1] /\ sender[p] = "connect" /\ sender'[p] = "bundle"
        BY <1>3, <3>2 DEF Connect, IInv, TypeOK
      <4>2. via'[p] = made + 1
        BY <4>1 DEF IInv, TypeOK
      <4>3. p \in Call /\ cache = None
        BY <2>1, <4>1 DEF IInv, PacketInv, PacketOf, QuietInv
      <4>4. ASSUME NEW q \in Call, q # p PROVE sender'[q] \notin Begun \cup {"bundle", "connect"}
        <5>1. p \in Sending("client")
          BY <4>1, <4>3 DEF Sending, Active, From, Parcel
        <5>2. q \notin Sending("client")
          BY <2>1, <4>4, <5>1 DEF QuietInv, Side
        <5>3. sender[q] \notin {"write", "bundle", "connect"}
          BY <5>2 DEF Sending, Active, From, Parcel
        <5>4. sender[q] \notin Begun
          <6> SUFFICES ASSUME sender[q] \in Begun PROVE FALSE
            OBVIOUS
          <6>1. via[q] = None
            BY <2>1, <4>3 DEF QuietInv
          <6>2. via[q] \in 1 .. made
            BY DEF IInv, PacketInv, PacketOf, Parcel
          <6>3. None \in Conn
            BY <6>1, <6>2, CallCount DEF IInv, TypeOK, Conn
          <6> QED
            BY <6>3, TransportAssumption
        <5> QED
          BY <1>3, <4>4, <5>3, <5>4 DEF Parcel
      <4> QED
        BY <4>1, <4>2, <4>4
    <3>3. CASE PickRoute(p)
      <4>1. p \notin Call /\ cache' = cache /\ \A q \in Parcel \ {p} : via'[q] = via[q]
        BY <3>3 DEF PickRoute, From, IInv, TypeOK, connVars
      <4> QED
        BY <1>3, <2>1, <4>1 DEF QuietInv, Parcel
    <3>4. CASE Bundle(p)
      <4>1. cache' = cache /\ via' = via /\ sender[p] = "bundle" /\ sender'[p] = "write"
        BY <1>3, <3>4 DEF Bundle, connVars, IInv, TypeOK
      <4> QED
        BY <1>3, <2>1, <4>1 DEF QuietInv, Parcel
    <3> QED
      BY <3>1, <3>2, <3>3, <3>4
  <2> QED
    BY <1>1, <2>1, <2>2, <2>3, <2>4, KeepQuiet
<1> QED
  BY <1>4, <1>5 DEF CInv

\* A write that fails sends nothing.
LEMMA VainWriteContent ==
  ASSUME IInv, CInv, NEW p \in Parcel, WriteToLost(p) \/ WriteToNone(p)
  PROVE  CInv'
<1>1. /\ sender[p] = "write" /\ UNCHANGED <<peerSeen, known, lost>>
      /\ \E x \in {"sent", "broken", "none"} : sender' = [sender EXCEPT ![p] = x]
  BY DEF WriteToLost, WriteToNone, seenVars, connVars, endVars
<1>2. \A q \in Parcel \ {p} : sender'[q] = sender[q]
  BY <1>1, SenderTypes
<1>3. via[p] \in lost
  BY VainWriteInv
<1> QED
  BY <1>1, <1>2, <1>3 DEF CInv

\* What is lost was noted as lost.
LEMMA LoseConnectionContent ==
  ASSUME CInv, NEW k \in Conn, LoseConnection(k)
  PROVE  CInv'
<1>1. UNCHANGED <<sender, peerSeen, known>> /\ k \in lost'
  BY DEF LoseConnection, sendVars, seenVars, endVars
<1> QED
  BY <1>1 DEF CInv

\* The steps of a selector thread that deliver nothing.
LEMMA SelectContent ==
  ASSUME IInv, CInv,
         (\E k \in Conn, s \in Side : Read(k, s) \/ Close(k, s) \/ ProcessFails(k, s)) \/ FindClosed \/ RemoveClosed
  PROVE  CInv'
<1>1. UNCHANGED <<sender, via, content, peerSeen, known, unresolved, lost, rushed>>
  BY DEF Read, Close, ProcessFails, FindClosed, RemoveClosed, sendVars, seenVars, connVars, endVars, history
<1>2. ASSUME lost' = {}, rushed' = {} PROVE QuietInv'
  <2>1. QuietInv /\ ~doomed /\ lost = {}
    BY <1>1, <1>2 DEF CInv, QuietInv
  <2>2. cache' = cache /\ doomed' = doomed
    <3>1. ~FindClosed
      <4> SUFFICES ASSUME FindClosed PROVE FALSE
        OBVIOUS
      <4>1. cache \in Conn /\ closed[cache] # {}
        BY CallCount DEF FindClosed, IInv, TypeOK, Conn
      <4> QED
        BY <2>1, <4>1 DEF IInv, RouteInv
    <3>2. ~RemoveClosed
      BY <2>1 DEF RemoveClosed
    <3> QED
      BY <3>1, <3>2 DEF Read, Close, ProcessFails, connVars
  <2>3. \A k \in Conn : Stream(buffer', wire', k, "server") = Stream(buffer, wire, k, "server")
    <3>1. CASE \E k \in Conn, s \in Side : Read(k, s)
      BY <3>1, ReadStep DEF Side
    <3>2. CASE (\E k \in Conn, s \in Side : Close(k, s) \/ ProcessFails(k, s)) \/ FindClosed \/ RemoveClosed
      <4>1. UNCHANGED wireVars
        BY <3>2 DEF Close, ProcessFails, FindClosed, RemoveClosed
      <4> QED
        BY <4>1, SameStreams DEF Side
    <3> QED
      BY <3>1, <3>2
  <2>4. /\ Active' = Active
        /\ \A q \in Call : sender'[q] \in Begun \cup {"bundle"} => cache' = via'[q]
        /\ \A q \in Call : sender'[q] = "connect" => cache' = None
    BY <1>1, <2>1, <2>2 DEF QuietInv, Active
  <2> QED
    BY <1>1, <2>1, <2>2, <2>3, <2>4, KeepQuiet
<1> QED
  BY <1>1, <1>2 DEF CInv
\* A written packet is in its stream or delivered.
LEMMA WriteContent ==
  ASSUME IInv, CInv, NEW p \in Parcel, NEW n \in 1 .. 2, Write(p, n)
  PROVE  CInv'
<1>1. PICK k \in Conn, s \in Side : k = via[p] /\ s = Other(From(p)) /\ From(p) = Other(s) /\ From(p) \in Side
  BY WriteStep, Sides
<1>2. PICK new \in Seq(Chunk) :
        /\ Moved(p, new)
        /\ \A l \in Conn, t \in Side :
            IF l = k /\ t = s
            THEN Extends(Stream(buffer', wire', l, t), Stream(buffer, wire, l, t), new)
            ELSE Stream(buffer', wire', l, t) = Stream(buffer, wire, l, t)
  <2>1. \E new \in Seq(Chunk) : Extended(p, new, k, s)
    <3>1. \E new \in Seq(Chunk) : Extended(p, new, via[p], Other(From(p)))
      BY WriteStep
    <3> QED
      BY <1>1, <3>1
  <2> QED
    BY <2>1 DEF Extended
<1>3. UNCHANGED <<via, content, peerSeen, known, cache, doomed, unresolved, lost, rushed>>
  BY DEF Write, seenVars, connVars, endVars, history
<1>4. /\ sender[p] = "write" /\ buffer' = buffer /\ wire' \in [Conn -> [Side -> Seq(Chunk)]]
      /\ \A q \in Parcel \ {p} : sender'[q] = sender[q]
  BY <1>1, WriteStep
<1>5. sender'[p] \in {"sent", "write"}
  BY <1>2 DEF Moved
<1>6. "content" \in known'["client"] /\ \A q \in Parcel : sender'[q] # "idle" => From(q) \in peerSeen'
  BY <1>3, <1>4, <1>5 DEF CInv
<1>7. ASSUME lost' = {}, rushed' = {} PROVE QuietInv'
  <2>1. QuietInv
    BY <1>3, <1>7 DEF CInv
  <2>2. /\ \A o : Sending(o)' \subseteq Sending(o)
        /\ \A o : o # From(p) => Sending(o) \subseteq Sending(o)'
        /\ p \in Sending(From(p))
    BY <1>4, <1>5 DEF Sending, Active
  <2>3. \A o \in Side : \A q, r \in Sending(o)' : q = r
    BY <2>1, <2>2 DEF QuietInv
  <2>4. /\ \A q \in Call : sender'[q] \in Begun \cup {"bundle"} => cache' = via'[q]
        /\ \A q \in Call : sender'[q] = "connect" => cache' = None
    BY <1>3, <1>4, <1>5, <2>1 DEF QuietInv, Begun, Parcel
  <2>5. ASSUME "content" \notin known["server"]
        PROVE  /\ \A l \in Conn : LET st == Stream(buffer', wire', l, "server") IN
                    st # <<>> => st[1][1] \in content'
               /\ "client" \in peerSeen' =>
                    \/ \E q \in Sending("client")' : q \in content'
                    \/ \E l \in Conn : Stream(buffer', wire', l, "server") # <<>>
    <3>1. /\ \A l \in Conn : Stream(buffer, wire, l, "server") # <<>> => Stream(buffer, wire, l, "server")[1][1] \in content
          /\ "client" \in peerSeen =>
               \/ \E q \in Sending("client") : q \in content
               \/ \E l \in Conn : Stream(buffer, wire, l, "server") # <<>>
      BY <2>1, <2>5 DEF QuietInv
    <3>2. CASE s = "client"
      <4>1. \A l \in Conn : Stream(buffer', wire', l, "server") = Stream(buffer, wire, l, "server")
        BY <1>2, <3>2 DEF Side
      <4>2. Sending("client") \subseteq Sending("client")'
        BY <1>1, <2>2, <3>2 DEF Side, Other
      <4> QED
        BY <1>3, <3>1, <4>1, <4>2
    <3>3. CASE s = "server"
      <4>1. PICK x \in Seq(Chunk), y \in Seq(Chunk) : x = Stream(buffer, wire, k, "server") /\ y = Stream(buffer', wire', k, "server")
        <5>1. buffer \in [Conn -> [Side -> Seq(Chunk)]] /\ wire \in [Conn -> [Side -> Seq(Chunk)]]
          BY DEF IInv, TypeOK, Chunk
        <5>2. Stream(buffer, wire, k, "server") \in Seq(Chunk)
          BY <5>1, StreamParts DEF Side
        <5>3. Stream(buffer, wire', k, "server") \in Seq(Chunk)
          BY <1>4, <5>1, StreamParts DEF Side
        <5> QED
          BY <1>4, <5>2, <5>3
      <4>2. y # <<>> /\ y[1] = (IF x = <<>> THEN new[1] ELSE x[1]) /\ new[1][1] = p
        <5>1. Extends(y, x, new)
          BY <1>2, <3>3, <4>1
        <5> QED
          BY <1>2, <5>1, FirstExtended
      <4>3. From(p) = "client" /\ p \in Call
        BY <1>1, <3>3 DEF Other, From
      \* The only connection has no packet to the server, so that the sender must have the content.
      <4>4. ASSUME x = <<>> PROVE p \in content
        <5>1. "client" \in peerSeen
          BY <1>4, <4>3 DEF CInv
        <5>2. ASSUME NEW l \in Conn, Stream(buffer, wire, l, "server") # <<>> PROVE FALSE
          <6>1. PICK z \in Seq(Chunk) : z = Stream(buffer, wire, l, "server")
            <7>1. buffer \in [Conn -> [Side -> Seq(Chunk)]] /\ wire \in [Conn -> [Side -> Seq(Chunk)]]
              BY DEF IInv, TypeOK, Chunk
            <7> QED
              BY <7>1, StreamParts DEF Side
          <6>2. 1 \in DOMAIN z /\ z[1] \in Chunk
            <7>1. Len(z) \in Nat /\ Len(z) # 0 /\ DOMAIN z = 1 .. Len(z)
              BY <5>2, <6>1, EmptySeq, LenProperties
            <7>2. 1 \in 1 .. Len(z)
              BY <7>1
            <7> QED
              BY <7>1, <7>2, ElementOfSeq
          <6>3. ChunkOf(z[1], l, "server", sender, packet, via, log)
            BY <6>1, <6>2 DEF IInv, ChunkInv, Side
          <6>4. PICK q \in Parcel : via[q] = l /\ From(q) = "client" /\ sender[q] \in Begun
            BY <6>2, <6>3 DEF ChunkOf, Chunk, Other
          <6>5. q \in Call
            BY <6>4 DEF From
          <6>6. cache = l /\ cache = k
            BY <1>1, <1>4, <2>1, <4>3, <6>4, <6>5 DEF QuietInv, Begun
          <6> QED
            BY <4>1, <4>4, <5>2, <6>6
        <5>3. PICK q \in Sending("client") : q \in content
          BY <3>1, <5>1, <5>2
        <5> QED
          BY <2>1, <2>2, <4>3, <5>3 DEF QuietInv, Side
      <4>5. y[1][1] \in content
        <5>1. x # <<>> => x[1][1] \in content
          BY <3>1, <4>1
        <5> QED
          BY <4>2, <4>4, <5>1
      <4>6. \A l \in Conn : l # k => Stream(buffer', wire', l, "server") = Stream(buffer, wire, l, "server")
        BY <1>2 DEF Side
      <4> QED
        BY <1>3, <3>1, <4>1, <4>2, <4>5, <4>6
    <3> QED
      BY <3>2, <3>3 DEF Side
  <2> QED
    BY <1>3, <2>1, <2>3, <2>4, <2>5 DEF QuietInv
<1> QED
  BY <1>6, <1>7 DEF CInv

\* A delivered parcel leaves its content and types with the receiver.
LEMMA ProcessPacketContent ==
  ASSUME IInv, CInv, NEW k \in Conn, NEW s \in Side, ProcessPacket(k, s)
  PROVE  CInv'
<1>1. PICK p \in Parcel :
         /\ Deliver(p, k, s)
         /\ 2 <= Len(Stream(buffer, wire, k, s))
         /\ Stream(buffer, wire, k, s)[1] = <<p, 1>>
         /\ \A l \in Conn, t \in Side : (l = k /\ t = s) \/ Stream(buffer', wire', l, t) = Stream(buffer, wire, l, t)
  BY ProcessStep
<1>2. UNCHANGED <<sender, via, content, peerSeen, cache, doomed, lost, rushed>>
  BY DEF ProcessPacket, sendVars, connVars, history
<1>3. /\ known' = [known EXCEPT ![s] = known[s] \cup Learned(p)]
      /\ unresolved' = IF "content" \in known'[s] THEN unresolved ELSE unresolved \cup {p}
  BY <1>1 DEF Deliver, Enter
<1>4. /\ \A t \in Side : known[t] \subseteq known'[t]
      /\ known'[s] = known[s] \cup Learned(p) /\ \A t \in Side \ {s} : known'[t] = known[t]
  BY <1>3 DEF IInv, TypeOK
<1>5. "content" \in known'["client"] /\ \A q \in Parcel : sender'[q] # "idle" => From(q) \in peerSeen'
  BY <1>2, <1>4 DEF CInv, Side
<1>6. ASSUME lost' = {}, rushed' = {} PROVE QuietInv'
  <2>1. QuietInv
    BY <1>2, <1>6 DEF CInv
  <2>2. /\ Active' = Active
        /\ \A q \in Call : sender'[q] \in Begun \cup {"bundle"} => cache' = via'[q]
        /\ \A q \in Call : sender'[q] = "connect" => cache' = None
    BY <1>2, <2>1 DEF QuietInv, Active
  <2>3. CASE s = "client"
    <3>1. unresolved' = unresolved
      BY <1>3, <1>5, <2>3
    <3>2. \A l \in Conn : Stream(buffer', wire', l, "server") = Stream(buffer, wire, l, "server")
      BY <1>1, <2>3 DEF Side
    <3>3. known'["server"] = known["server"]
      BY <1>4, <2>3 DEF Side
    <3>4. /\ \A o : Sending(o)' = Sending(o)
      BY <1>2 DEF Sending, Active
    <3> QED
      BY <1>2, <2>1, <2>2, <3>1, <3>2, <3>3, <3>4 DEF QuietInv
  <2>4. CASE s = "server"
    <3>1. "content" \in known'["server"]
      <4>1. CASE "content" \in known["server"]
        BY <1>4, <2>4, <4>1
      <4>2. CASE "content" \notin known["server"]
        <5>1. Stream(buffer, wire, k, "server") # <<>>
          BY <1>1, <2>4
        <5>2. p \in content
          BY <1>1, <2>1, <2>4, <4>2, <5>1 DEF QuietInv
        <5> QED
          BY <1>4, <2>4, <5>2 DEF Learned
      <4> QED
        BY <4>1, <4>2
    <3>2. unresolved' = unresolved
      BY <1>3, <2>4, <3>1
    <3>3. \A o : Sending(o)' = Sending(o)
      BY <1>2 DEF Sending, Active
    <3> QED
      BY <1>2, <2>1, <2>2, <3>1, <3>2, <3>3 DEF QuietInv
  <2> QED
    BY <2>3, <2>4 DEF Side
<1> QED
  BY <1>5, <1>6 DEF CInv

\* Nobody has seen anything.
LEMMA InitContent == Init => CInv
<1> SUFFICES ASSUME Init PROVE CInv
  OBVIOUS
<1>1. \A k \in Conn : Stream(buffer, wire, k, "server") = <<>>
  BY NoneRead DEF Init, Stream, Side
<1>2. \A s : Sending(s) = {}
  BY DEF Init, Sending, Active
<1>3. "content" \in known["client"]
  BY DEF Init, Side
<1>4. \A p \in Parcel : sender[p] = "idle"
  BY DEF Init
<1>5. QuietInv
  BY <1>1, <1>2, <1>4 DEF Init, QuietInv, Begun, Parcel
<1> QED
  BY <1>3, <1>4, <1>5 DEF CInv

\* Every step keeps what is known of content and types.
LEMMA StepContent == IInv /\ CInv /\ [Next]_vars => CInv'
<1> SUFFICES ASSUME IInv, CInv, [Next]_vars PROVE CInv'
  OBVIOUS
<1>1. CASE \E p \in Parcel : TransportSend(p) \/ Step(p)
  BY <1>1, TransportSendContent, SenderContent, WriteContent, VainWriteContent DEF Step
<1>2. CASE \E k \in Conn : LoseConnection(k) \/ \E s \in Side : Select(k, s)
  BY <1>2, LoseConnectionContent, SelectContent, ProcessPacketContent DEF Select
<1>3. CASE FindClosed \/ RemoveClosed
  BY <1>3, SelectContent
<1>4. CASE UNCHANGED vars
  BY <1>4 DEF vars, sendVars, seenVars, connVars, wireVars, endVars, history,
              CInv, QuietInv, Sending, Active, Stream
<1> QED
  BY <1>1, <1>2, <1>3, <1>4 DEF Next

\* For any number of calls: a parcel lacks what its receiver needs only after a connection
\* was lost or two threads of a side were sending.
THEOREM ContentComes == Spec => []UnresolvedOnlyByLoss
<1>1. Init => IInv /\ CInv
  BY InitInv, InitContent
<1>2. (IInv /\ CInv) /\ [Next]_vars => (IInv /\ CInv)'
  BY StepInv, StepContent
<1>3. IInv /\ CInv => UnresolvedOnlyByLoss
  BY DEF CInv, QuietInv, UnresolvedOnlyByLoss
<1> QED
  BY <1>1, <1>2, <1>3, PTL DEF Spec
=============================================================================
