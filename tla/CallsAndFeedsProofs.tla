------------------------- MODULE CallsAndFeedsProofs ------------------------
(* Proofs about what programs send to each other: where the messages of remote *)
(* calls between any peers are, and what the program that makes a call is       *)
(* promised; and the feeds, and the lists that they keep up to date.            *)
EXTENDS RpcEndpoint, Feeds, Functions, SequenceTheorems, FiniteSetTheorems, WellFoundedInduction, TLAPS

-----------------------------------------------------------------------------
(* Remote calls *)

\* No call has two messages in a sequence.
Once(seq) == \A i, j \in DOMAIN seq : seq[i].id = seq[j].id => i = j

FromOf(m) == IF m.kind = "request" THEN Caller[m.id] ELSE Callee[m.id]
ToOf(m)   == IF m.kind = "request" THEN Callee[m.id] ELSE Caller[m.id]

\* A message belongs to a call that is made: its request while no servant has run, and
\* then the response with what the servant produced.
Placed(c, s, m) ==
    /\ c[m.id] \in {"waiting", "timeout"}
    /\ s[m.id] = IF m.kind = "request" THEN "no" ELSE m.kind

\* Every message is on its way between the two peers of its call, and has no double.
NetInv(w, q, c, s) ==
    /\ \A a, b \in Peer :
        /\ Once(w[a][b])
        /\ \A m \in Range(w[a][b]) : Placed(c, s, m) /\ a = FromOf(m) /\ b = ToOf(m)
    /\ \A b \in Peer :
        /\ Once(q[b])
        /\ \A m \in Range(q[b]) : Placed(c, s, m) /\ b = ToOf(m)
    /\ \A a, b, d \in Peer : \A m \in Range(w[a][b]), n \in Range(q[d]) : m.id # n.id

OnWire(w, r)  == \E a, b \in Peer : \E m \in Range(w[a][b]) : m.id = r
InQueue(q, r) == \E b \in Peer : \E m \in Range(q[b]) : m.id = r
InNet(w, q, r) == OnWire(w, r) \/ InQueue(q, r)

\* A call ends with what its servant produced; one that is waited for has a message or
\* a servant while its connection stands.
CallInv(w, q, c, s, l) ==
    \A r \in Request :
        /\ c[r] \in {"idle", "sendfailed"} => s[r] = "no"
        /\ c[r] \in Reply => s[r] = c[r]
        /\ c[r] = "waiting" /\ {Caller[r], Callee[r]} \notin l => s[r] = "running" \/ InNet(w, q, r)

\* A peer that has failed served a call whose connection is lost, and whose response
\* will never come: it is in no wire and no queue.
FailInv(w, q, c, s, l, f) ==
    \A p \in f : \E r \in Request :
        /\ Callee[r] = p /\ {Caller[r], Callee[r]} \in l
        /\ s[r] \in Reply /\ c[r] \notin Reply
        /\ ~InNet(w, q, r)

IInv ==
    /\ TypeOK
    /\ NetInv(wire, queue, call, servant)
    /\ CallInv(wire, queue, call, servant, lost)
    /\ FailInv(wire, queue, call, servant, lost, failed)

-----------------------------------------------------------------------------
\* Sequences of messages: one more at the end, one less at the head, none.
LEMMA AppendMessage ==
  ASSUME NEW seq \in Seq(Message), NEW m \in Message
  PROVE  /\ Append(seq, m) \in Seq(Message)
         /\ Range(Append(seq, m)) = Range(seq) \cup {m}
         /\ Once(seq) /\ (\A n \in Range(seq) : n.id # m.id) => Once(Append(seq, m))
<1> DEFINE new == Append(seq, m)
<1>1. /\ new \in Seq(Message) /\ Len(new) = Len(seq) + 1 /\ new[Len(seq) + 1] = m
      /\ \A i \in 1 .. Len(seq) : new[i] = seq[i]
      /\ Len(seq) \in Nat /\ DOMAIN seq = 1 .. Len(seq) /\ DOMAIN new = 1 .. Len(seq) + 1
  BY AppendProperties, LenProperties
<1> HIDE DEF new
<1>2. Range(new) = Range(seq) \cup {m}
  BY <1>1 DEF Range
<1>3. ASSUME Once(seq), \A n \in Range(seq) : n.id # m.id
      PROVE  Once(new)
  BY <1>1, <1>3 DEF Once, Range
<1> QED
  BY <1>1, <1>2, <1>3 DEF new

\* A queue after its first message was taken.
LEMMA TailMessage ==
  ASSUME NEW seq \in Seq(Message), seq # <<>>
  PROVE  /\ Head(seq) \in Message /\ Tail(seq) \in Seq(Message)
         /\ Range(seq) = Range(Tail(seq)) \cup {Head(seq)}
         /\ Once(seq) => Once(Tail(seq)) /\ \A n \in Range(Tail(seq)) : n.id # Head(seq).id
<1> DEFINE tail == Tail(seq)
           head == Head(seq)
<1>1. /\ head \in Message /\ tail \in Seq(Message) /\ Len(tail) = Len(seq) - 1
      /\ \A i \in 1 .. Len(tail) : tail[i] = seq[i + 1]
  BY HeadTailProperties
<1>2. Len(seq) \in Nat \ {0} /\ DOMAIN seq = 1 .. Len(seq) /\ DOMAIN tail = 1 .. Len(tail) /\ head = seq[1]
  BY <1>1, EmptySeq, LenProperties
<1> HIDE DEF tail, head
<1>3. Range(tail) \cup {head} \subseteq Range(seq)
  <2>1. ASSUME NEW i \in DOMAIN tail PROVE tail[i] \in Range(seq)
    <3>1. i + 1 \in DOMAIN seq /\ tail[i] = seq[i + 1]
      BY <1>1, <1>2
    <3> QED
      BY <3>1 DEF Range
  <2>2. head \in Range(seq)
    BY <1>2 DEF Range
  <2> QED
    BY <2>1, <2>2 DEF Range
<1>4. ASSUME NEW i \in DOMAIN seq, i # 1
      PROVE  seq[i] \in Range(tail)
  <2>1. i - 1 \in DOMAIN tail /\ tail[i - 1] = seq[i]
    BY <1>1, <1>2, <1>4
  <2> QED
    BY <2>1 DEF Range
<1>5. Range(seq) \subseteq Range(tail) \cup {head}
  BY <1>2, <1>4 DEF Range
<1>6. ASSUME Once(seq)
      PROVE  Once(tail) /\ \A n \in Range(tail) : n.id # head.id
  <2>1. \A i \in DOMAIN tail : i + 1 \in DOMAIN seq /\ i + 1 # 1 /\ tail[i] = seq[i + 1]
    BY <1>1, <1>2
  <2>2. Once(tail)
    <3> SUFFICES ASSUME NEW i \in DOMAIN tail, NEW j \in DOMAIN tail, tail[i].id = tail[j].id PROVE i = j
      BY DEF Once
    <3>1. i + 1 = j + 1
      BY <1>6, <2>1 DEF Once
    <3> QED
      BY <1>1, <1>2, <3>1
  <2>3. 1 \in DOMAIN seq
    BY <1>2
  <2>4. \A n \in Range(tail) : n.id # head.id
    BY <1>2, <1>6, <2>1, <2>3 DEF Once, Range
  <2> QED
    BY <2>2, <2>4
<1> QED
  BY <1>1, <1>3, <1>5, <1>6 DEF tail, head

\* An empty queue.
LEMMA NoMessages == <<>> \in Seq(Message) /\ Range(<<>>) = {} /\ Once(<<>>)
<1>1. <<>> \in Seq(Message) /\ DOMAIN <<>> = {}
  OBVIOUS
<1> QED
  BY <1>1 DEF Range, Once

\* Messages are from one of the two peers of their call to the other.
LEMMA Ends ==
  ASSUME NEW m \in Message
  PROVE  /\ m.id \in Request /\ m.kind \in {"request"} \cup Reply
         /\ FromOf(m) \in Peer /\ ToOf(m) \in Peer
         /\ {FromOf(m), ToOf(m)} = {Caller[m.id], Callee[m.id]}
  BY EndpointAssumption DEF Message, FromOf, ToOf

\* What is on a wire or in a queue is a message.
LEMMA MessagesOf ==
  ASSUME NEW w \in [Peer -> [Peer -> Seq(Message)]], NEW q \in [Peer -> Seq(Message)],
         NEW a \in Peer, NEW b \in Peer
  PROVE  Range(w[a][b]) \subseteq Message /\ Range(q[b]) \subseteq Message
<1>1. w[a][b] \in Seq(Message) /\ q[b] \in Seq(Message)
  OBVIOUS
<1> QED
  BY <1>1, RangeOfSeq

\* One direction between two peers gets another queue.
LEMMA NewWire ==
  ASSUME NEW w \in [Peer -> [Peer -> Seq(Message)]], NEW a \in Peer, NEW b \in Peer, NEW x \in Seq(Message),
         NEW w2, w2 = [w EXCEPT ![a][b] = x]
  PROVE  /\ w2 \in [Peer -> [Peer -> Seq(Message)]]
         /\ w2[a][b] = x
         /\ \A c, d \in Peer : (c = a /\ d = b) \/ w2[c][d] = w[c][d]
  OBVIOUS

-----------------------------------------------------------------------------
\* What the steps do to the messages: one is sent, handed from a wire to a queue, or
\* taken from a queue; or none moves.
LEMMA SendMessage ==
  ASSUME wire \in [Peer -> [Peer -> Seq(Message)]], queue \in [Peer -> Seq(Message)],
         NetInv(wire, queue, call, servant),
         NEW m \in Message, ~InNet(wire, queue, m.id),
         wire' = [wire EXCEPT ![FromOf(m)][ToOf(m)] = Append(wire[FromOf(m)][ToOf(m)], m)],
         \A r \in Request \ {m.id} : call'[r] = call[r] /\ servant'[r] = servant[r],
         Placed(call', servant', m)
  PROVE  /\ wire' \in [Peer -> [Peer -> Seq(Message)]]
         /\ NetInv(wire', queue, call', servant')
         /\ \A r \in Request : InNet(wire', queue, r) <=> InNet(wire, queue, r) \/ r = m.id
<1>1. PICK a \in Peer, b \in Peer : a = FromOf(m) /\ b = ToOf(m)
  BY Ends
<1>2. /\ Append(wire[a][b], m) \in Seq(Message)
      /\ Range(Append(wire[a][b], m)) = Range(wire[a][b]) \cup {m}
      /\ Once(wire[a][b]) /\ (\A n \in Range(wire[a][b]) : n.id # m.id) => Once(Append(wire[a][b], m))
  BY AppendMessage
<1>3. /\ wire' \in [Peer -> [Peer -> Seq(Message)]]
      /\ wire'[a][b] = Append(wire[a][b], m)
      /\ \A x, y \in Peer : (x = a /\ y = b) \/ wire'[x][y] = wire[x][y]
  BY <1>1, <1>2, NewWire
<1>4. /\ \A n : n \in Range(wire'[a][b]) <=> n \in Range(wire[a][b]) \/ n = m
      /\ \A x, y \in Peer : (x = a /\ y = b) \/ Range(wire'[x][y]) = Range(wire[x][y])
  <2>1. Range(wire'[a][b]) = Range(wire[a][b]) \cup {m}
    BY <1>2, <1>3, Zenon
  <2>2. ASSUME NEW x \in Peer, NEW y \in Peer, ~(x = a /\ y = b)
        PROVE  Range(wire'[x][y]) = Range(wire[x][y])
    <3>1. wire'[x][y] = wire[x][y]
      BY <1>3, <2>2, Zenon
    <3> QED
      BY <3>1, Zenon
  <2> QED
    BY <2>1, <2>2, Zenon
<1>5. \A x, y \in Peer : \A n \in Range(wire[x][y]) : n.id # m.id /\ n \in Message
  BY MessagesOf DEF InNet, OnWire
<1>6. \A y \in Peer : \A n \in Range(queue[y]) : n.id # m.id /\ n \in Message
  BY MessagesOf DEF InNet, InQueue
<1>7. \A n \in Message : n.id # m.id => (Placed(call, servant, n) => Placed(call', servant', n))
  BY Ends DEF Placed
<1>8. ASSUME NEW x \in Peer, NEW y \in Peer
      PROVE  /\ Once(wire'[x][y])
             /\ \A n \in Range(wire'[x][y]) : Placed(call', servant', n) /\ x = FromOf(n) /\ y = ToOf(n)
  <2>1. Once(wire[x][y]) /\ \A n \in Range(wire[x][y]) : Placed(call, servant, n) /\ x = FromOf(n) /\ y = ToOf(n)
    BY DEF NetInv
  <2>2. Once(wire'[x][y])
    <3>1. CASE x = a /\ y = b
      <4>1. Once(wire[a][b]) /\ \A n \in Range(wire[a][b]) : n.id # m.id
        BY <1>5, <2>1, <3>1, Zenon
      <4>2. Once(Append(wire[a][b], m))
        BY <1>2, <4>1, Zenon
      <4> QED
        BY <1>3, <3>1, <4>2, Zenon
    <3>2. CASE ~(x = a /\ y = b)
      BY <1>3, <2>1, <3>2
    <3> QED
      BY <3>1, <3>2
  <2>3. ASSUME NEW n \in Range(wire[x][y])
        PROVE  Placed(call', servant', n) /\ x = FromOf(n) /\ y = ToOf(n)
    BY <1>5, <1>7, <2>1
  <2>4. CASE x = a /\ y = b
    BY <1>1, <1>4, <2>2, <2>3, <2>4
  <2>5. CASE ~(x = a /\ y = b)
    BY <1>4, <2>2, <2>3, <2>5
  <2> QED
    BY <2>4, <2>5
<1>9. \A y \in Peer : Once(queue[y]) /\ \A n \in Range(queue[y]) : Placed(call', servant', n) /\ y = ToOf(n)
  BY <1>6, <1>7 DEF NetInv
<1>10. ASSUME NEW x \in Peer, NEW y \in Peer, NEW d \in Peer, NEW n \in Range(wire'[x][y]), NEW o \in Range(queue[d])
       PROVE  n.id # o.id
  <2>1. n \in Range(wire[x][y]) \/ n = m
    BY <1>4
  <2>2. \A e \in Range(wire[x][y]), f \in Range(queue[d]) : e.id # f.id
    BY DEF NetInv
  <2>3. o.id # m.id
    BY <1>6
  <2>4. CASE n = m
    BY <2>3, <2>4
  <2>5. CASE n \in Range(wire[x][y])
    BY <2>2, <2>5
  <2> QED
    BY <2>1, <2>4, <2>5
<1>11. NetInv(wire', queue, call', servant')
  BY <1>8, <1>9, <1>10 DEF NetInv
<1>12. ASSUME NEW r \in Request
       PROVE  OnWire(wire', r) <=> OnWire(wire, r) \/ r = m.id
  <2>1. ASSUME NEW x \in Peer, NEW y \in Peer, NEW n \in Range(wire'[x][y]), n.id = r
        PROVE  OnWire(wire, r) \/ r = m.id
    <3>1. n \in Range(wire[x][y]) \/ n = m
      BY <1>4
    <3> QED
      BY <2>1, <3>1 DEF OnWire
  <2>2. ASSUME NEW x \in Peer, NEW y \in Peer, NEW n \in Range(wire[x][y]), n.id = r
        PROVE  OnWire(wire', r)
    <3>1. n \in Range(wire'[x][y])
      BY <1>4
    <3> QED
      BY <2>2, <3>1 DEF OnWire
  <2>3. m \in Range(wire'[a][b])
    BY <1>4
  <2>4. OnWire(wire', m.id)
    BY <2>3 DEF OnWire
  <2>5. OnWire(wire', r) => OnWire(wire, r) \/ r = m.id
    BY <2>1, Zenon DEF OnWire
  <2>6. OnWire(wire, r) => OnWire(wire', r)
    BY <2>2, Zenon DEF OnWire
  <2> QED
    BY <2>4, <2>5, <2>6
<1> QED
  BY <1>3, <1>11, <1>12 DEF InNet

\* A message moves from the wire to the pool: it is in one place after as before.
LEMMA HandMessage ==
  ASSUME wire \in [Peer -> [Peer -> Seq(Message)]], queue \in [Peer -> Seq(Message)],
         NetInv(wire, queue, call, servant),
         NEW a \in Peer, NEW b \in Peer, wire[a][b] # <<>>,
         wire' = [wire EXCEPT ![a][b] = Tail(wire[a][b])],
         queue' = [queue EXCEPT ![b] = Append(queue[b], Head(wire[a][b]))]
  PROVE  /\ wire' \in [Peer -> [Peer -> Seq(Message)]] /\ queue' \in [Peer -> Seq(Message)]
         /\ NetInv(wire', queue', call, servant)
         /\ \A r \in Request : InNet(wire', queue', r) <=> InNet(wire, queue, r)
<1>1. PICK m : m = Head(wire[a][b])
  OBVIOUS
<1>2. /\ m \in Message /\ Tail(wire[a][b]) \in Seq(Message)
      /\ Range(wire[a][b]) = Range(Tail(wire[a][b])) \cup {m}
      /\ Once(wire[a][b]) => Once(Tail(wire[a][b])) /\ \A n \in Range(Tail(wire[a][b])) : n.id # m.id
  BY <1>1, TailMessage
<1>3. /\ Append(queue[b], m) \in Seq(Message)
      /\ Range(Append(queue[b], m)) = Range(queue[b]) \cup {m}
      /\ Once(queue[b]) /\ (\A n \in Range(queue[b]) : n.id # m.id) => Once(Append(queue[b], m))
  BY <1>2, AppendMessage
<1>4. /\ wire' \in [Peer -> [Peer -> Seq(Message)]]
      /\ wire'[a][b] = Tail(wire[a][b])
      /\ \A x, y \in Peer : (x = a /\ y = b) \/ wire'[x][y] = wire[x][y]
  BY <1>2, NewWire
<1>5. /\ queue' \in [Peer -> Seq(Message)]
      /\ queue'[b] = Append(queue[b], m)
      /\ \A y \in Peer : y = b \/ queue'[y] = queue[y]
  BY <1>1, <1>3
<1>6. m \in Range(wire[a][b]) /\ Placed(call, servant, m) /\ a = FromOf(m) /\ b = ToOf(m)
  BY <1>2 DEF NetInv
<1>7. \A x, y \in Peer : Range(wire'[x][y]) \subseteq Range(wire[x][y])
  BY <1>2, <1>4
<1>8. \A x, y \in Peer : \A n \in Range(wire'[x][y]) : n.id # m.id
  <2> SUFFICES ASSUME NEW x \in Peer, NEW y \in Peer, NEW n \in Range(wire'[x][y]), n.id = m.id PROVE FALSE
    OBVIOUS
  <2>1. n \in Range(wire[x][y]) /\ n \in Message
    BY <1>7, MessagesOf
  <2>2. Placed(call, servant, n) /\ x = FromOf(n) /\ y = ToOf(n)
    BY <2>1 DEF NetInv
  <2>3. n.kind = m.kind
    BY <1>2, <1>6, <2>1, <2>2, Ends DEF Placed, Reply
  <2>4. x = a /\ y = b
    BY <1>6, <2>2, <2>3 DEF FromOf, ToOf
  <2> QED
    BY <1>2, <1>4, <2>4 DEF NetInv
<1>9. ASSUME NEW y \in Peer, NEW n
      PROVE  n \in Range(queue'[y]) <=> n \in Range(queue[y]) \/ (y = b /\ n = m)
  <2>1. CASE y = b
    <3>1. Range(queue'[y]) = Range(queue[y]) \cup {m}
      BY <1>3, <1>5, <2>1, Zenon
    <3> QED
      BY <2>1, <3>1
  <2>2. CASE y # b
    <3>1. Range(queue'[y]) = Range(queue[y])
      BY <1>5, <2>2, Zenon
    <3> QED
      BY <2>2, <3>1
  <2> QED
    BY <2>1, <2>2
<1>10. ASSUME NEW x \in Peer, NEW y \in Peer
       PROVE  /\ Once(wire'[x][y])
              /\ \A n \in Range(wire'[x][y]) : Placed(call, servant, n) /\ x = FromOf(n) /\ y = ToOf(n)
  <2>1. Once(wire[x][y]) /\ \A n \in Range(wire[x][y]) : Placed(call, servant, n) /\ x = FromOf(n) /\ y = ToOf(n)
    BY DEF NetInv
  <2>2. Once(wire'[x][y])
    <3>1. CASE x = a /\ y = b
      BY <1>2, <1>4, <2>1, <3>1
    <3>2. CASE ~(x = a /\ y = b)
      BY <1>4, <2>1, <3>2
    <3> QED
      BY <3>1, <3>2
  <2> QED
    BY <1>7, <2>1, <2>2
<1>11. ASSUME NEW y \in Peer
       PROVE  Once(queue'[y]) /\ \A n \in Range(queue'[y]) : Placed(call, servant, n) /\ y = ToOf(n)
  <2>1. \A n \in Range(queue[b]) : n.id # m.id
    BY <1>6 DEF NetInv
  <2>2. Once(queue'[y])
    BY <1>3, <1>5, <2>1 DEF NetInv
  <2>3. \A n \in Range(queue[y]) : Placed(call, servant, n) /\ y = ToOf(n)
    BY DEF NetInv
  <2>4. \A n \in Range(queue'[y]) : Placed(call, servant, n) /\ y = ToOf(n)
    BY <1>6, <1>9, <2>3
  <2> QED
    BY <2>2, <2>4
<1>12. ASSUME NEW x \in Peer, NEW y \in Peer, NEW d \in Peer, NEW n \in Range(wire'[x][y]), NEW o \in Range(queue'[d])
       PROVE  n.id # o.id
  <2>1. n \in Range(wire[x][y]) /\ n.id # m.id
    BY <1>7, <1>8
  <2>2. \A i, j, k \in Peer : \A e \in Range(wire[i][j]), f \in Range(queue[k]) : e.id # f.id
    BY DEF NetInv
  <2> QED
    BY <1>9, <2>1, <2>2
<1>13. NetInv(wire', queue', call, servant)
  BY <1>10, <1>11, <1>12 DEF NetInv
<1>14. ASSUME NEW r \in Request
       PROVE  InNet(wire', queue', r) <=> InNet(wire, queue, r)
  <2>1. CASE r = m.id
    BY <1>6, <1>9, <2>1 DEF InNet, OnWire, InQueue
  <2>2. CASE r # m.id
    <3>1. OnWire(wire', r) => OnWire(wire, r)
      BY <1>7 DEF OnWire
    <3>2. OnWire(wire, r) => OnWire(wire', r)
      <4> SUFFICES ASSUME NEW x \in Peer, NEW y \in Peer, NEW n \in Range(wire[x][y]), n.id = r PROVE OnWire(wire', r)
        BY DEF OnWire
      <4>1. n \in Range(wire'[x][y])
        <5>1. CASE x = a /\ y = b
          BY <1>2, <1>4, <2>2, <5>1, Zenon
        <5>2. CASE ~(x = a /\ y = b)
          BY <1>2, <1>4, <5>2, Zenon
        <5> QED
          BY <5>1, <5>2
      <4> QED
        BY <4>1 DEF OnWire
    <3>3. InQueue(queue', r) <=> InQueue(queue, r)
      BY <1>9, <2>2 DEF InQueue
    <3> QED
      BY <3>1, <3>2, <3>3 DEF InNet
  <2> QED
    BY <2>1, <2>2
<1> QED
  BY <1>4, <1>5, <1>13, <1>14

\* A worker takes a message: none of that request is left.
LEMMA TakeMessage ==
  ASSUME wire \in [Peer -> [Peer -> Seq(Message)]], queue \in [Peer -> Seq(Message)],
         NetInv(wire, queue, call, servant),
         NEW p \in Peer, queue[p] # <<>>, NEW m, m = Head(queue[p]),
         queue' = [queue EXCEPT ![p] = Tail(queue[p])],
         \A r \in Request \ {m.id} : call'[r] = call[r] /\ servant'[r] = servant[r]
  PROVE  /\ m \in Message /\ Placed(call, servant, m) /\ p = ToOf(m)
         /\ queue' \in [Peer -> Seq(Message)]
         /\ NetInv(wire, queue', call', servant')
         /\ \A r \in Request : InNet(wire, queue', r) <=> InNet(wire, queue, r) /\ r # m.id
<1>1. /\ m \in Message /\ Tail(queue[p]) \in Seq(Message)
      /\ Range(queue[p]) = Range(Tail(queue[p])) \cup {m}
      /\ Once(queue[p]) => Once(Tail(queue[p])) /\ \A n \in Range(Tail(queue[p])) : n.id # m.id
  BY TailMessage
<1>2. queue' \in [Peer -> Seq(Message)] /\ queue'[p] = Tail(queue[p]) /\ \A y \in Peer : y = p \/ queue'[y] = queue[y]
  BY <1>1
<1>3. m \in Range(queue[p]) /\ Placed(call, servant, m) /\ p = ToOf(m)
  BY <1>1 DEF NetInv
<1>4. \A y \in Peer : Range(queue'[y]) \subseteq Range(queue[y])
  BY <1>1, <1>2
<1>5. \A y \in Peer : \A n \in Range(queue'[y]) : n.id # m.id
  <2> SUFFICES ASSUME NEW y \in Peer, NEW n \in Range(queue'[y]), n.id = m.id PROVE FALSE
    OBVIOUS
  <2>1. n \in Range(queue[y]) /\ n \in Message
    BY <1>4, MessagesOf
  <2>2. Placed(call, servant, n) /\ y = ToOf(n)
    BY <2>1 DEF NetInv
  <2>3. n.kind = m.kind
    BY <1>1, <1>3, <2>1, <2>2, Ends DEF Placed, Reply
  <2>4. y = p
    BY <1>3, <2>2, <2>3 DEF ToOf
  <2> QED
    BY <1>1, <1>2, <2>4 DEF NetInv
<1>6. ASSUME NEW x \in Peer, NEW y \in Peer, NEW n \in Range(wire[x][y])
      PROVE  n.id # m.id /\ n \in Message
  <2>1. n \in Message
    BY MessagesOf
  <2> QED
    BY <1>3, <2>1 DEF NetInv
<1>7. \A n \in Message : n.id # m.id => (Placed(call, servant, n) => Placed(call', servant', n))
  BY Ends DEF Placed
<1>8. ASSUME NEW x \in Peer, NEW y \in Peer
      PROVE  Once(wire[x][y]) /\ \A n \in Range(wire[x][y]) : Placed(call', servant', n) /\ x = FromOf(n) /\ y = ToOf(n)
  <2>1. Once(wire[x][y]) /\ \A n \in Range(wire[x][y]) : Placed(call, servant, n) /\ x = FromOf(n) /\ y = ToOf(n)
    BY DEF NetInv
  <2> QED
    BY <1>6, <1>7, <2>1
<1>9. ASSUME NEW y \in Peer
      PROVE  Once(queue'[y]) /\ \A n \in Range(queue'[y]) : Placed(call', servant', n) /\ y = ToOf(n)
  <2>1. Once(queue'[y])
    BY <1>1, <1>2 DEF NetInv
  <2>2. \A n \in Range(queue'[y]) : n \in Range(queue[y]) /\ n \in Message /\ n.id # m.id
    BY <1>4, <1>5, MessagesOf
  <2> QED
    BY <1>7, <2>1, <2>2 DEF NetInv
<1>10. \A x, y, d \in Peer : \A n \in Range(wire[x][y]), o \in Range(queue'[d]) : n.id # o.id
  <2>1. \A d \in Peer : Range(queue'[d]) \subseteq Range(queue[d])
    BY <1>4
  <2>2. \A x, y, d \in Peer : \A n \in Range(wire[x][y]), o \in Range(queue[d]) : n.id # o.id
    BY Zenon DEF NetInv
  <2> SUFFICES ASSUME NEW x \in Peer, NEW y \in Peer, NEW d \in Peer,
                      NEW n \in Range(wire[x][y]), NEW o \in Range(queue'[d])
               PROVE  n.id # o.id
    OBVIOUS
  <2>3. o \in Range(queue[d])
    BY <2>1, Zenon
  <2>4. \A k \in Range(wire[x][y]), l \in Range(queue[d]) : k.id # l.id
    BY <2>2, Zenon
  <2> QED
    BY <2>3, <2>4, Zenon
<1>11. NetInv(wire, queue', call', servant')
  BY <1>8, <1>9, <1>10 DEF NetInv
<1>12. ASSUME NEW r \in Request
       PROVE  InNet(wire, queue', r) <=> InNet(wire, queue, r) /\ r # m.id
  <2>1. InNet(wire, queue', r) => InNet(wire, queue, r) /\ r # m.id
    <3>1. OnWire(wire, r) => r # m.id
      BY <1>6, Zenon DEF OnWire
    <3>2. InQueue(queue', r) => InQueue(queue, r) /\ r # m.id
      BY <1>4, <1>5, Zenon DEF InQueue
    <3> QED
      BY <3>1, <3>2 DEF InNet
  <2>2. InQueue(queue, r) /\ r # m.id => InQueue(queue', r)
    BY <1>1, <1>2 DEF InQueue
  <2> QED
    BY <2>1, <2>2 DEF InNet
<1> QED
  BY <1>1, <1>2, <1>3, <1>11, <1>12

\* A change of one request leaves the messages of all others where they belong.
LEMMA NoneMoves ==
  ASSUME NEW w \in [Peer -> [Peer -> Seq(Message)]], NEW q \in [Peer -> Seq(Message)],
         NEW c, NEW s, NEW c2, NEW s2, NetInv(w, q, c, s), NEW r \in Request,
         \A n \in Request \ {r} : c2[n] = c[n] /\ s2[n] = s[n],
         InNet(w, q, r) => s2[r] = s[r] /\ c2[r] \in {"waiting", "timeout"}
  PROVE  NetInv(w, q, c2, s2)
<1>1. ASSUME NEW m \in Message, Placed(c, s, m), InNet(w, q, m.id)
      PROVE  Placed(c2, s2, m)
  BY <1>1, Ends DEF Placed
<1>2. \A x, y \in Peer : \A n \in Range(w[x][y]) : n \in Message /\ InNet(w, q, n.id)
  BY MessagesOf DEF InNet, OnWire
<1>3. \A y \in Peer : \A n \in Range(q[y]) : n \in Message /\ InNet(w, q, n.id)
  BY MessagesOf DEF InNet, InQueue
<1>4. ASSUME NEW x \in Peer, NEW y \in Peer
      PROVE  Once(w[x][y]) /\ \A n \in Range(w[x][y]) : Placed(c2, s2, n) /\ x = FromOf(n) /\ y = ToOf(n)
  <2>1. Once(w[x][y]) /\ \A n \in Range(w[x][y]) : Placed(c, s, n) /\ x = FromOf(n) /\ y = ToOf(n)
    BY DEF NetInv
  <2> QED
    BY <1>1, <1>2, <2>1
<1>5. ASSUME NEW y \in Peer
      PROVE  Once(q[y]) /\ \A n \in Range(q[y]) : Placed(c2, s2, n) /\ y = ToOf(n)
  <2>1. Once(q[y]) /\ \A n \in Range(q[y]) : Placed(c, s, n) /\ y = ToOf(n)
    BY DEF NetInv
  <2> QED
    BY <1>1, <1>3, <2>1
<1>6. \A x, y, d \in Peer : \A n \in Range(w[x][y]), o \in Range(q[d]) : n.id # o.id
  BY DEF NetInv
<1> QED
  BY <1>4, <1>5, <1>6 DEF NetInv

\* A call that has a message is waited for or timed out, and its servant does not run.
LEMMA WithMessage ==
  ASSUME NEW w \in [Peer -> [Peer -> Seq(Message)]], NEW q \in [Peer -> Seq(Message)],
         NEW c, NEW s, NetInv(w, q, c, s), NEW r \in Request, InNet(w, q, r)
  PROVE  c[r] \in {"waiting", "timeout"} /\ s[r] # "running"
<1>1. PICK m \in Message : m.id = r /\ Placed(c, s, m)
  BY MessagesOf DEF NetInv, InNet, OnWire, InQueue
<1> QED
  BY <1>1, Ends DEF Placed, Reply

-----------------------------------------------------------------------------
\* What every step leaves of the invariant, from what it does to the messages.
LEMMA CallStep ==
  ASSUME IInv, NEW r \in Request, Call(r)
  PROVE  IInv'
<1> DEFINE m == [kind |-> "request", id |-> r]
<1>1. /\ m \in Message /\ m.id = r /\ FromOf(m) = Caller[r] /\ ToOf(m) = Callee[r]
  BY DEF Message, FromOf, ToOf
<1>2. call[r] = "idle" /\ servant[r] = "no"
  BY DEF IInv, CallInv, Call, Ready
<1>3. ~InNet(wire, queue, r)
  BY <1>2, WithMessage DEF IInv, TypeOK
<1>4. /\ call' \in [Request -> {"idle", "waiting", "timeout", "sendfailed"} \cup Reply]
      /\ call'[r] = "waiting" /\ \A n \in Request \ {r} : call'[n] = call[n]
      /\ UNCHANGED <<setting, servant, queue, lost, failed>>
      /\ wire' = [wire EXCEPT ![FromOf(m)][ToOf(m)] = Append(wire[FromOf(m)][ToOf(m)], m)]
  BY <1>1 DEF IInv, TypeOK, Call
<1>5. Placed(call', servant', m)
  BY <1>1, <1>2, <1>4 DEF Placed
<1> HIDE DEF m
<1>6. /\ wire \in [Peer -> [Peer -> Seq(Message)]] /\ queue \in [Peer -> Seq(Message)]
      /\ NetInv(wire, queue, call, servant) /\ ~InNet(wire, queue, m.id)
      /\ \A n \in Request \ {m.id} : call'[n] = call[n] /\ servant'[n] = servant[n]
      /\ queue' = queue
  BY <1>1, <1>3, <1>4 DEF IInv, TypeOK
<1>7. /\ wire' \in [Peer -> [Peer -> Seq(Message)]]
      /\ NetInv(wire', queue, call', servant')
      /\ \A n \in Request : InNet(wire', queue, n) <=> InNet(wire, queue, n) \/ n = m.id
  BY <1>1, <1>4, <1>5, <1>6, SendMessage
<1>8. TypeOK'
  BY <1>4, <1>7 DEF IInv, TypeOK
<1>9. CallInv(wire', queue', call', servant', lost')
  BY <1>1, <1>2, <1>4, <1>7 DEF IInv, CallInv, Reply
<1>10. FailInv(wire', queue', call', servant', lost', failed')
  <2> SUFFICES ASSUME NEW p \in failed'
               PROVE  \E n \in Request :
                        /\ Callee[n] = p /\ {Caller[n], Callee[n]} \in lost'
                        /\ servant'[n] \in Reply /\ call'[n] \notin Reply
                        /\ ~InNet(wire', queue', n)
    BY DEF FailInv
  <2>1. PICK n \in Request :
          /\ Callee[n] = p /\ {Caller[n], Callee[n]} \in lost
          /\ servant[n] \in Reply /\ call[n] \notin Reply
          /\ ~InNet(wire, queue, n)
    BY <1>4 DEF IInv, FailInv
  <2>2. n # r
    BY <1>1, <1>2, <2>1 DEF Reply
  <2> QED
    BY <1>1, <1>2, <1>4, <1>7, <2>1, <2>2
<1> QED
  BY <1>4, <1>7, <1>8, <1>9, <1>10 DEF IInv

\* A call that cannot be sent ends with no message of it anywhere.
LEMMA CallFailsStep ==
  ASSUME IInv, NEW r \in Request, CallFails(r)
  PROVE  IInv'
<1>1. call[r] = "idle" /\ servant[r] = "no"
  BY DEF IInv, CallInv, CallFails, Ready
<1>2. ~InNet(wire, queue, r)
  BY <1>1, WithMessage DEF IInv, TypeOK
<1>3. /\ call' \in [Request -> {"idle", "waiting", "timeout", "sendfailed"} \cup Reply]
      /\ call'[r] = "sendfailed" /\ \A n \in Request \ {r} : call'[n] = call[n]
      /\ UNCHANGED <<setting, servant, wire, queue, lost, failed>>
  BY DEF IInv, TypeOK, CallFails
<1>4. NetInv(wire', queue', call', servant')
  BY <1>2, <1>3, NoneMoves DEF IInv, TypeOK
<1>5. TypeOK'
  BY <1>3 DEF IInv, TypeOK
<1>6. CallInv(wire', queue', call', servant', lost')
  BY <1>1, <1>3 DEF IInv, CallInv, Reply
<1>7. FailInv(wire', queue', call', servant', lost', failed')
  BY <1>1, <1>3 DEF IInv, FailInv, Reply
<1> QED
  BY <1>4, <1>5, <1>6, <1>7 DEF IInv

\* A caller gives up; the message or response of the call stays where it is.
LEMMA TimeOutStep ==
  ASSUME IInv, NEW r \in Request, TimeOut(r)
  PROVE  IInv'
<1>1. /\ call[r] = "waiting"
      /\ call' \in [Request -> {"idle", "waiting", "timeout", "sendfailed"} \cup Reply]
      /\ call'[r] = "timeout" /\ \A n \in Request \ {r} : call'[n] = call[n]
      /\ UNCHANGED <<setting, servant, wire, queue, lost, failed>>
  BY DEF IInv, TypeOK, TimeOut
<1>2. NetInv(wire', queue', call', servant')
  BY <1>1, NoneMoves DEF IInv, TypeOK
<1>3. TypeOK'
  BY <1>1 DEF IInv, TypeOK
<1>4. CallInv(wire', queue', call', servant', lost')
  BY <1>1 DEF IInv, CallInv, Reply
<1>5. FailInv(wire', queue', call', servant', lost', failed')
  BY <1>1 DEF IInv, FailInv, Reply
<1> QED
  BY <1>2, <1>3, <1>4, <1>5 DEF IInv

\* A response takes the place of the request that a servant had.
LEMMA RespondStep ==
  ASSUME IInv, NEW r \in Request, NEW k \in Reply, Respond(r, k)
  PROVE  IInv'
<1> DEFINE m == [kind |-> k, id |-> r]
<1>1. /\ m \in Message /\ m.id = r /\ m.kind = k /\ FromOf(m) = Callee[r] /\ ToOf(m) = Caller[r]
  BY DEF Message, FromOf, ToOf, Reply
<1>2. servant[r] = "running" /\ call[r] \in {"waiting", "timeout"}
  BY DEF IInv, TypeOK, CallInv, Respond, Reply
<1>3. ~InNet(wire, queue, r)
  BY <1>2, WithMessage DEF IInv, TypeOK
<1>4. /\ servant' \in [Request -> {"no", "running"} \cup Reply]
      /\ servant'[r] = k /\ \A n \in Request \ {r} : servant'[n] = servant[n]
      /\ UNCHANGED <<setting, call, queue, lost, failed>>
      /\ wire' = [wire EXCEPT ![FromOf(m)][ToOf(m)] = Append(wire[FromOf(m)][ToOf(m)], m)]
  BY <1>1 DEF IInv, TypeOK, Respond
<1>5. Placed(call', servant', m)
  BY <1>1, <1>2, <1>4 DEF Placed, Reply
<1> HIDE DEF m
<1>6. /\ wire \in [Peer -> [Peer -> Seq(Message)]] /\ queue \in [Peer -> Seq(Message)]
      /\ NetInv(wire, queue, call, servant) /\ ~InNet(wire, queue, m.id)
      /\ \A n \in Request \ {m.id} : call'[n] = call[n] /\ servant'[n] = servant[n]
      /\ queue' = queue
  BY <1>1, <1>3, <1>4 DEF IInv, TypeOK
<1>7. /\ wire' \in [Peer -> [Peer -> Seq(Message)]]
      /\ NetInv(wire', queue, call', servant')
      /\ \A n \in Request : InNet(wire', queue, n) <=> InNet(wire, queue, n) \/ n = m.id
  BY <1>1, <1>4, <1>5, <1>6, SendMessage
<1>8. TypeOK'
  BY <1>4, <1>7 DEF IInv, TypeOK
<1>9. CallInv(wire', queue', call', servant', lost')
  BY <1>1, <1>2, <1>4, <1>7 DEF IInv, CallInv, Reply
<1>10. FailInv(wire', queue', call', servant', lost', failed')
  <2> SUFFICES ASSUME NEW p \in failed'
               PROVE  \E n \in Request :
                        /\ Callee[n] = p /\ {Caller[n], Callee[n]} \in lost'
                        /\ servant'[n] \in Reply /\ call'[n] \notin Reply
                        /\ ~InNet(wire', queue', n)
    BY DEF FailInv
  <2>1. PICK n \in Request :
          /\ Callee[n] = p /\ {Caller[n], Callee[n]} \in lost
          /\ servant[n] \in Reply /\ call[n] \notin Reply
          /\ ~InNet(wire, queue, n)
    BY <1>4 DEF IInv, FailInv
  <2>2. n # r
    BY <1>1, <1>2, <2>1 DEF Reply
  <2> QED
    BY <1>1, <1>2, <1>4, <1>7, <2>1, <2>2
<1> QED
  BY <1>4, <1>7, <1>8, <1>9, <1>10 DEF IInv

\* A response that cannot be sent: the request is gone.
LEMMA RespondFailsStep ==
  ASSUME IInv, NEW r \in Request, NEW k \in Reply, RespondFails(r, k)
  PROVE  IInv'
<1>1. servant[r] = "running" /\ call[r] \in {"waiting", "timeout"}
  BY DEF IInv, TypeOK, CallInv, RespondFails, Reply
<1>2. ~InNet(wire, queue, r)
  BY <1>1, WithMessage DEF IInv, TypeOK
<1>3. /\ servant' \in [Request -> {"no", "running"} \cup Reply]
      /\ servant'[r] = k /\ \A n \in Request \ {r} : servant'[n] = servant[n]
      /\ UNCHANGED <<setting, call, wire, queue, lost>>
      /\ failed' = failed \cup {Callee[r]}
      /\ {Caller[r], Callee[r]} \in lost
  BY DEF IInv, TypeOK, RespondFails, Connected
<1>4. NetInv(wire', queue', call', servant')
  BY <1>2, <1>3, NoneMoves DEF IInv, TypeOK
<1>5. TypeOK'
  <2>1. failed' \subseteq Peer
    BY <1>3, EndpointAssumption DEF IInv, TypeOK
  <2> QED
    BY <1>3, <2>1 DEF IInv, TypeOK
<1>6. CallInv(wire', queue', call', servant', lost')
  BY <1>1, <1>3 DEF IInv, CallInv, Reply
<1>7. FailInv(wire', queue', call', servant', lost', failed')
  <2> SUFFICES ASSUME NEW p \in failed'
               PROVE  \E n \in Request :
                        /\ Callee[n] = p /\ {Caller[n], Callee[n]} \in lost
                        /\ servant'[n] \in Reply /\ call[n] \notin Reply
                        /\ ~InNet(wire, queue, n)
    BY <1>3 DEF FailInv
  <2>1. CASE p = Callee[r]
    BY <1>1, <1>2, <1>3, <2>1 DEF Reply
  <2>2. CASE p \in failed
    BY <1>1, <1>3, <2>2 DEF IInv, FailInv, Reply
  <2> QED
    BY <1>3, <2>1, <2>2
<1> QED
  BY <1>4, <1>5, <1>6, <1>7 DEF IInv

\* A reading thread hands a message to the pool.
LEMMA DeliverStep ==
  ASSUME IInv, NEW p \in Peer, NEW q \in Peer, Deliver(p, q)
  PROVE  IInv'
<1>1. /\ wire[p][q] # <<>>
      /\ queue' = [queue EXCEPT ![q] = Append(queue[q], Head(wire[p][q]))]
      /\ wire' = [wire EXCEPT ![p][q] = Tail(wire[p][q])]
      /\ UNCHANGED <<setting, call, servant, lost, failed>>
  BY DEF Deliver
<1>2. /\ wire \in [Peer -> [Peer -> Seq(Message)]] /\ queue \in [Peer -> Seq(Message)]
      /\ NetInv(wire, queue, call, servant)
  BY DEF IInv, TypeOK
<1>3. /\ wire' \in [Peer -> [Peer -> Seq(Message)]] /\ queue' \in [Peer -> Seq(Message)]
      /\ NetInv(wire', queue', call, servant)
      /\ \A r \in Request : InNet(wire', queue', r) <=> InNet(wire, queue, r)
  BY <1>1, <1>2, HandMessage
<1>4. TypeOK'
  BY <1>1, <1>3 DEF IInv, TypeOK
<1>5. CallInv(wire', queue', call', servant', lost')
  BY <1>1, <1>3 DEF IInv, CallInv
<1>6. FailInv(wire', queue', call', servant', lost', failed')
  BY <1>1, <1>3 DEF IInv, FailInv
<1> QED
  BY <1>1, <1>3, <1>4, <1>5, <1>6 DEF IInv

\* The message that a worker takes.
LEMMA TakenMessage ==
  ASSUME IInv, NEW p \in Peer, queue[p] # <<>>
  PROVE  /\ Head(queue[p]) \in Message /\ Head(queue[p]).id \in Request
         /\ Head(queue[p]).kind \in {"request"} \cup Reply
         /\ Placed(call, servant, Head(queue[p]))
         /\ InNet(wire, queue, Head(queue[p]).id)
<1>1. PICK m : m = Head(queue[p])
  OBVIOUS
<1>2. m \in Message /\ m \in Range(queue[p])
  BY <1>1, TailMessage DEF IInv, TypeOK
<1>3. Placed(call, servant, m)
  BY <1>2 DEF IInv, NetInv
<1>4. InNet(wire, queue, m.id)
  BY <1>2 DEF InNet, InQueue
<1> QED
  BY <1>1, <1>2, <1>3, <1>4, Ends

\* A worker takes a request and runs its servant.
LEMMA StartRequestStep ==
  ASSUME IInv, NEW p \in Peer, StartRequest(p)
  PROVE  IInv'
<1>1. PICK m : m = Head(queue[p])
  OBVIOUS
<1>2. m \in Message /\ Placed(call, servant, m) /\ m.id \in Request
  BY <1>1, TakenMessage DEF StartRequest
<1>3. /\ queue[p] # <<>> /\ m.kind = "request"
      /\ queue' = [queue EXCEPT ![p] = Tail(queue[p])]
      /\ servant' \in [Request -> {"no", "running"} \cup Reply]
      /\ servant'[m.id] = "running" /\ \A n \in Request \ {m.id} : servant'[n] = servant[n]
      /\ UNCHANGED <<setting, call, wire, lost, failed>>
  BY <1>1, <1>2 DEF IInv, TypeOK, StartRequest
<1>4. /\ wire \in [Peer -> [Peer -> Seq(Message)]] /\ queue \in [Peer -> Seq(Message)]
      /\ NetInv(wire, queue, call, servant)
      /\ \A n \in Request \ {m.id} : call'[n] = call[n] /\ servant'[n] = servant[n]
      /\ wire' = wire
  BY <1>3 DEF IInv, TypeOK
<1>5. /\ queue' \in [Peer -> Seq(Message)]
      /\ NetInv(wire, queue', call', servant')
      /\ \A r \in Request : InNet(wire, queue', r) <=> InNet(wire, queue, r) /\ r # m.id
  BY <1>1, <1>3, <1>4, TakeMessage
<1>6. call[m.id] \in {"waiting", "timeout"} /\ servant[m.id] = "no"
  BY <1>2, <1>3 DEF Placed
<1>7. TypeOK'
  BY <1>3, <1>5 DEF IInv, TypeOK
<1>8. CallInv(wire', queue', call', servant', lost')
  BY <1>3, <1>5, <1>6 DEF IInv, CallInv, Reply
<1>9. \A r \in Request : servant[r] \in Reply => servant'[r] = servant[r]
  BY <1>3, <1>6 DEF Reply
<1>10. FailInv(wire', queue', call', servant', lost', failed')
  <2> SUFFICES ASSUME NEW d \in failed'
               PROVE  \E r \in Request :
                        /\ Callee[r] = d /\ {Caller[r], Callee[r]} \in lost'
                        /\ servant'[r] \in Reply /\ call'[r] \notin Reply
                        /\ ~InNet(wire', queue', r)
    BY DEF FailInv
  <2>1. PICK r \in Request :
          /\ Callee[r] = d /\ {Caller[r], Callee[r]} \in lost
          /\ servant[r] \in Reply /\ call[r] \notin Reply
          /\ ~InNet(wire, queue, r)
    BY <1>3 DEF IInv, FailInv
  <2>2. ~InNet(wire', queue', r) /\ servant'[r] = servant[r] /\ call'[r] = call[r]
    BY <1>3, <1>5, <1>9, <2>1
  <2> QED
    BY <1>3, <2>1, <2>2
<1> QED
  BY <1>3, <1>5, <1>7, <1>8, <1>10 DEF IInv

\* A worker takes a response and completes the call, or finds it gone.
LEMMA OnResponseStep ==
  ASSUME IInv, NEW p \in Peer, OnResponse(p)
  PROVE  IInv'
<1>1. PICK m : m = Head(queue[p])
  OBVIOUS
<1>2. /\ m \in Message /\ Placed(call, servant, m) /\ m.id \in Request /\ m.kind \in {"request"} \cup Reply
      /\ InNet(wire, queue, m.id)
  BY <1>1, TakenMessage DEF OnResponse
<1>3. /\ queue[p] # <<>> /\ m.kind \in Reply
      /\ queue' = [queue EXCEPT ![p] = Tail(queue[p])]
      /\ call' \in [Request -> {"idle", "waiting", "timeout", "sendfailed"} \cup Reply]
      /\ call'[m.id] = (IF call[m.id] = "waiting" THEN m.kind ELSE call[m.id])
      /\ \A n \in Request \ {m.id} : call'[n] = call[n]
      /\ UNCHANGED <<setting, servant, wire, lost, failed>>
  BY <1>1, <1>2 DEF IInv, TypeOK, OnResponse
<1>4. /\ wire \in [Peer -> [Peer -> Seq(Message)]] /\ queue \in [Peer -> Seq(Message)]
      /\ NetInv(wire, queue, call, servant)
      /\ \A n \in Request \ {m.id} : call'[n] = call[n] /\ servant'[n] = servant[n]
      /\ wire' = wire
  BY <1>3 DEF IInv, TypeOK
<1>5. /\ queue' \in [Peer -> Seq(Message)]
      /\ NetInv(wire, queue', call', servant')
      /\ \A r \in Request : InNet(wire, queue', r) <=> InNet(wire, queue, r) /\ r # m.id
  BY <1>1, <1>3, <1>4, TakeMessage
<1>6. call[m.id] \in {"waiting", "timeout"} /\ servant[m.id] = m.kind
  BY <1>2, <1>3 DEF Placed, Reply
<1>7. TypeOK'
  BY <1>3, <1>5 DEF IInv, TypeOK
<1>8. CallInv(wire', queue', call', servant', lost')
  BY <1>3, <1>5, <1>6 DEF IInv, CallInv, Reply
<1>9. \A r \in Request : ~InNet(wire, queue, r) => call'[r] = call[r]
  BY <1>2, <1>3
<1>10. FailInv(wire', queue', call', servant', lost', failed')
  <2> SUFFICES ASSUME NEW d \in failed'
               PROVE  \E r \in Request :
                        /\ Callee[r] = d /\ {Caller[r], Callee[r]} \in lost'
                        /\ servant'[r] \in Reply /\ call'[r] \notin Reply
                        /\ ~InNet(wire', queue', r)
    BY DEF FailInv
  <2>1. PICK r \in Request :
          /\ Callee[r] = d /\ {Caller[r], Callee[r]} \in lost
          /\ servant[r] \in Reply /\ call[r] \notin Reply
          /\ ~InNet(wire, queue, r)
    BY <1>3 DEF IInv, FailInv
  <2>2. ~InNet(wire', queue', r) /\ servant'[r] = servant[r] /\ call'[r] = call[r]
    BY <1>3, <1>5, <1>9, <2>1
  <2> QED
    BY <1>3, <2>1, <2>2
<1> QED
  BY <1>3, <1>5, <1>7, <1>8, <1>10 DEF IInv

\* What was on the wire is lost, in both directions.
LEMMA LoseConnectionStep ==
  ASSUME IInv, NEW p \in Peer, NEW q \in Peer, LoseConnection(p, q)
  PROVE  IInv'
<1>1. /\ lost' = lost \cup {{p, q}} /\ lost' \subseteq setting.fragile
      /\ wire' = [wire EXCEPT ![p][q] = <<>>, ![q][p] = <<>>]
      /\ UNCHANGED <<setting, call, servant, queue, failed>>
  BY DEF IInv, TypeOK, LoseConnection
<1>2. PICK w : w = [wire EXCEPT ![p][q] = <<>>]
  OBVIOUS
<1>3. wire \in [Peer -> [Peer -> Seq(Message)]] /\ queue \in [Peer -> Seq(Message)]
  BY DEF IInv, TypeOK
<1>4. /\ w \in [Peer -> [Peer -> Seq(Message)]] /\ w[p][q] = <<>>
      /\ \A a, b \in Peer : (a = p /\ b = q) \/ w[a][b] = wire[a][b]
  BY <1>2, <1>3, NewWire, NoMessages
<1>5. wire' = [w EXCEPT ![q][p] = <<>>]
  BY <1>1, <1>2
<1>6. /\ wire' \in [Peer -> [Peer -> Seq(Message)]] /\ wire'[q][p] = <<>>
      /\ \A a, b \in Peer : (a = q /\ b = p) \/ wire'[a][b] = w[a][b]
  BY <1>4, <1>5, NewWire, NoMessages
<1>7. ASSUME NEW a \in Peer, NEW b \in Peer
      PROVE  /\ wire'[a][b] = <<>> \/ wire'[a][b] = wire[a][b]
             /\ {a, b} # {p, q} => wire'[a][b] = wire[a][b]
  <2>1. CASE a = p /\ b = q
    BY <1>4, <1>6, <2>1
  <2>2. CASE a = q /\ b = p
    BY <1>6, <2>2
  <2>3. CASE ~(a = p /\ b = q) /\ ~(a = q /\ b = p)
    <3>1. w[a][b] = wire[a][b]
      BY <1>4, <2>3, Zenon
    <3>2. wire'[a][b] = w[a][b]
      BY <1>6, <2>3, Zenon
    <3> QED
      BY <3>1, <3>2, Zenon
  <2> QED
    BY <2>1, <2>2, <2>3
<1>8. ASSUME NEW a \in Peer, NEW b \in Peer
      PROVE  Once(wire'[a][b]) /\ Range(wire'[a][b]) \subseteq Range(wire[a][b])
  <2>1. Once(wire[a][b])
    BY DEF IInv, NetInv
  <2>2. CASE wire'[a][b] = <<>>
    BY <2>2, NoMessages
  <2>3. CASE wire'[a][b] = wire[a][b]
    BY <2>1, <2>3
  <2> QED
    BY <1>7, <2>2, <2>3
<1>9. NetInv(wire', queue', call', servant')
  <2>1. ASSUME NEW a \in Peer, NEW b \in Peer, NEW m \in Range(wire'[a][b])
        PROVE  /\ Placed(call, servant, m) /\ a = FromOf(m) /\ b = ToOf(m)
               /\ \A d \in Peer : \A n \in Range(queue[d]) : m.id # n.id
    BY <1>8 DEF IInv, NetInv
  <2>2. \A b \in Peer : Once(queue[b]) /\ \A m \in Range(queue[b]) : Placed(call, servant, m) /\ b = ToOf(m)
    BY DEF IInv, NetInv
  <2>3. NetInv(wire', queue, call, servant)
    BY <1>8, <2>1, <2>2 DEF NetInv
  <2> QED
    BY <1>1, <2>3
<1>10. ASSUME NEW r \in Request, OnWire(wire', r)
       PROVE  OnWire(wire, r)
  BY <1>8, <1>10 DEF OnWire
<1>11. ASSUME NEW r \in Request, {Caller[r], Callee[r]} # {p, q}, OnWire(wire, r)
       PROVE  OnWire(wire', r)
  <2>0. PICK a \in Peer, b \in Peer : \E m \in Range(wire[a][b]) : m.id = r
    BY <1>11 DEF OnWire
  <2>1. PICK m \in Range(wire[a][b]) : m.id = r
    BY <2>0
  <2>2. m \in Message /\ a = FromOf(m) /\ b = ToOf(m)
    BY <1>3, MessagesOf DEF IInv, NetInv
  <2>3. {a, b} = {Caller[r], Callee[r]}
    BY <2>1, <2>2, Ends
  <2>4. wire'[a][b] = wire[a][b]
    BY <1>7, <1>11, <2>3
  <2> QED
    BY <2>1, <2>4 DEF OnWire
<1>12. TypeOK'
  BY <1>1, <1>6 DEF IInv, TypeOK
<1>13. CallInv(wire', queue', call', servant', lost')
  BY <1>1, <1>11 DEF IInv, CallInv, InNet
<1>14. FailInv(wire', queue', call', servant', lost', failed')
  BY <1>1, <1>10 DEF IInv, FailInv, InNet
<1> QED
  BY <1>9, <1>12, <1>13, <1>14 DEF IInv

\* Nothing was called.
LEMMA InitInv == Init => IInv
<1> SUFFICES ASSUME Init PROVE IInv
  OBVIOUS
<1>1. TypeOK
  BY NoMessages DEF Init, TypeOK
<1>2. \A a, b \in Peer : wire[a][b] = <<>> /\ queue[b] = <<>>
  BY DEF Init
<1>3. NetInv(wire, queue, call, servant)
  BY <1>2, NoMessages DEF NetInv
<1>4. CallInv(wire, queue, call, servant, lost) /\ FailInv(wire, queue, call, servant, lost, failed)
  BY DEF Init, CallInv, FailInv, Reply
<1> QED
  BY <1>1, <1>3, <1>4 DEF IInv

\* Every message of a call is where its caller, its servant and the connection say, in
\* every reachable state.
THEOREM Invariance == Spec => []IInv
<1>1. Init => IInv
  BY InitInv
<1>2. IInv /\ [Next]_vars => IInv'
  <2> SUFFICES ASSUME IInv, [Next]_vars PROVE IInv'
    OBVIOUS
  <2>1. CASE UNCHANGED vars
    BY <2>1 DEF IInv, TypeOK, vars
  <2>2. CASE Next
    BY <2>2, CallStep, CallFailsStep, TimeOutStep, RespondStep, RespondFailsStep, StartRequestStep,
       OnResponseStep, DeliverStep, LoseConnectionStep DEF Next
  <2> QED
    BY <2>1, <2>2
<1> QED
  BY <1>1, <1>2, PTL DEF Spec

-----------------------------------------------------------------------------
\* Only a peer that served a request over a lost connection calls system_failed:
\* RespondFails is the only such end of a request, and its caller has no outcome.
THEOREM FailsByLossOnly == Spec => []FailedOnlyByLoss
<1>1. IInv => FailedOnlyByLoss
  BY DEF IInv, FailInv, FailedOnlyByLoss, Connected
<1> QED
  BY <1>1, Invariance, PTL

\* In a queue without repetition a request is counted once or not at all.
LEMMA CountMessages ==
  ASSUME NEW seq \in Seq(Message), Once(seq), NEW r
  PROVE  Cardinality({i \in DOMAIN seq : seq[i].id = r}) = IF \E m \in Range(seq) : m.id = r THEN 1 ELSE 0
<1>1. CASE \E m \in Range(seq) : m.id = r
  <2>1. PICK k \in DOMAIN seq : seq[k].id = r
    BY <1>1 DEF Range
  <2>2. {i \in DOMAIN seq : seq[i].id = r} = {k}
    BY <2>1 DEF Once
  <2> QED
    BY <1>1, <2>2, FS_Singleton
<1>2. CASE ~\E m \in Range(seq) : m.id = r
  <2>1. {i \in DOMAIN seq : seq[i].id = r} = {}
    BY <1>2 DEF Range
  <2> QED
    BY <1>2, <2>1, FS_EmptySet
<1> QED
  BY <1>1, <1>2

\* A call that is waited for over a connection that stands is in one place: a message
\* or a servant; and no call is in two, whatever its caller does.
THEOREM OnePlace == Spec => []InOnePlace
<1>1. ASSUME IInv, NEW r \in Request
      PROVE  LET places == Messages(r) + IF servant[r] = "running" THEN 1 ELSE 0 IN
             /\ places <= 1
             /\ call[r] = "waiting" /\ Connected(r) => places = 1
  <2> DEFINE Has(seq) == \E m \in Range(seq) : m.id = r
             Count(seq) == Cardinality({i \in DOMAIN seq : seq[i].id = r})
  <2>1. PICK a \in Peer, b \in Peer : a = Caller[r] /\ b = Callee[r] /\ a # b
    BY EndpointAssumption
  <2>2. /\ wire \in [Peer -> [Peer -> Seq(Message)]] /\ queue \in [Peer -> Seq(Message)]
        /\ NetInv(wire, queue, call, servant)
    BY <1>1 DEF IInv, TypeOK
  <2>3. ASSUME NEW x \in Peer, NEW y \in Peer
        PROVE  /\ Count(wire[x][y]) = IF Has(wire[x][y]) THEN 1 ELSE 0
               /\ Count(queue[y]) = IF Has(queue[y]) THEN 1 ELSE 0
    <3>1. wire[x][y] \in Seq(Message) /\ queue[y] \in Seq(Message) /\ Once(wire[x][y]) /\ Once(queue[y])
      BY <2>2 DEF NetInv
    <3> QED
      BY <3>1, CountMessages
  <2>4. ASSUME NEW x \in Peer, NEW y \in Peer, NEW m \in Range(wire[x][y]), m.id = r
        PROVE  (x = a /\ y = b /\ servant[r] = "no") \/ (x = b /\ y = a /\ servant[r] \in Reply)
    <3>1. m \in Message /\ Placed(call, servant, m) /\ x = FromOf(m) /\ y = ToOf(m)
      BY <2>2, MessagesOf DEF NetInv
    <3> QED
      BY <2>1, <2>4, <3>1, Ends DEF Placed, FromOf, ToOf
  <2>5. ASSUME NEW y \in Peer, NEW m \in Range(queue[y]), m.id = r
        PROVE  (y = b /\ servant[r] = "no") \/ (y = a /\ servant[r] \in Reply)
    <3>1. m \in Message /\ Placed(call, servant, m) /\ y = ToOf(m)
      BY <2>2, MessagesOf DEF NetInv
    <3> QED
      BY <2>1, <2>5, <3>1, Ends DEF Placed, FromOf, ToOf
  <2>6. ASSUME NEW x \in Peer, NEW y \in Peer, NEW d \in Peer
        PROVE  ~(Has(wire[x][y]) /\ Has(queue[d]))
    <3>1. \A m \in Range(wire[x][y]), n \in Range(queue[d]) : m.id # n.id
      <4>1. \A u, v, z \in Peer : \A m \in Range(wire[u][v]), n \in Range(queue[z]) : m.id # n.id
        BY <2>2, Zenon DEF NetInv
      <4> QED
        BY <4>1, Zenon
    <3> QED
      BY <3>1, Zenon
  <2>7. /\ Has(wire[a][b]) => servant[r] = "no"
        /\ Has(wire[b][a]) => servant[r] \in Reply
        /\ Has(queue[b]) => servant[r] = "no"
        /\ Has(queue[a]) => servant[r] \in Reply
    BY <2>1, <2>4, <2>5
  <2>8. call[r] = "waiting" /\ Connected(r) =>
          servant[r] = "running" \/ Has(wire[a][b]) \/ Has(wire[b][a]) \/ Has(queue[b]) \/ Has(queue[a])
    <3> SUFFICES ASSUME call[r] = "waiting", Connected(r), servant[r] # "running"
                 PROVE  Has(wire[a][b]) \/ Has(wire[b][a]) \/ Has(queue[b]) \/ Has(queue[a])
      OBVIOUS
    <3>1. InNet(wire, queue, r)
      BY <1>1 DEF IInv, CallInv, Connected
    <3>2. OnWire(wire, r) => Has(wire[a][b]) \/ Has(wire[b][a])
      BY <2>4 DEF OnWire
    <3>3. InQueue(queue, r) => Has(queue[b]) \/ Has(queue[a])
      BY <2>5 DEF InQueue
    <3> QED
      BY <3>1, <3>2, <3>3 DEF InNet
  <2>9. Messages(r) = Count(wire[a][b]) + Count(wire[b][a]) + Count(queue[a]) + Count(queue[b])
    BY <2>1 DEF Messages
  <2> HIDE DEF Has, Count
  <2>10. /\ Count(wire[a][b]) = IF Has(wire[a][b]) THEN 1 ELSE 0
         /\ Count(wire[b][a]) = IF Has(wire[b][a]) THEN 1 ELSE 0
         /\ Count(queue[a]) = IF Has(queue[a]) THEN 1 ELSE 0
         /\ Count(queue[b]) = IF Has(queue[b]) THEN 1 ELSE 0
         /\ ~(Has(wire[a][b]) /\ Has(queue[a])) /\ ~(Has(wire[a][b]) /\ Has(queue[b]))
         /\ ~(Has(wire[b][a]) /\ Has(queue[a])) /\ ~(Has(wire[b][a]) /\ Has(queue[b]))
    BY <2>1, <2>3, <2>6
  <2> QED
    BY <2>7, <2>8, <2>9, <2>10 DEF Reply
<1>2. IInv => InOnePlace
  BY <1>1 DEF InOnePlace, IInv
<1> QED
  BY <1>2, Invariance, PTL

-----------------------------------------------------------------------------
\* The endpoints implement RemoteCall: each step of theirs begins a call, starts or ends
\* a servant, ends a call with what the servant produced or with a timeout, or is hidden
\* from the program.
THEOREM PromiseKept == Spec => KeepsPromise
<1>1. Init => Promise!Init
  BY DEF Init, Promise!Init
<1>2. IInv /\ [Next]_vars => [Promise!Next]_Promise!vars
  <2> SUFFICES ASSUME IInv, [Next]_vars
               PROVE  Promise!Next \/ UNCHANGED <<call, servant>>
    BY DEF Promise!vars
  <2> USE DEF Promise!Next, Promise!Begin, Promise!Run, Promise!Produce, Promise!End
  <2>1. ASSUME NEW r \in Request, Call(r) \/ CallFails(r)
        PROVE  Promise!Begin(r)
    BY <2>1 DEF Call, CallFails, Ready
  <2>2. ASSUME NEW r \in Request, TimeOut(r)
        PROVE  Promise!End(r)
    BY <2>2 DEF TimeOut
  <2>3. ASSUME NEW r \in Request, NEW k \in Reply, Respond(r, k) \/ RespondFails(r, k)
        PROVE  Promise!Produce(r)
    BY <2>3 DEF Respond, RespondFails, Reply
  <2>4. ASSUME NEW p \in Peer, StartRequest(p)
        PROVE  \E r \in Request : Promise!Run(r)
    <3>1. PICK m : m = Head(queue[p])
      OBVIOUS
    <3>2. /\ queue[p] # <<>> /\ m.kind = "request" /\ servant' = [servant EXCEPT ![m.id] = "running"]
          /\ call' = call
      BY <2>4, <3>1 DEF StartRequest
    <3>3. m.id \in Request /\ Placed(call, servant, m)
      BY <3>1, <3>2, TakenMessage
    <3> QED
      BY <3>2, <3>3 DEF Placed
  <2>5. ASSUME NEW p \in Peer, OnResponse(p)
        PROVE  (\E r \in Request : Promise!End(r)) \/ UNCHANGED <<call, servant>>
    <3>1. PICK m : m = Head(queue[p])
      OBVIOUS
    <3>2. /\ queue[p] # <<>> /\ m.kind # "request" /\ servant' = servant
          /\ call' = [call EXCEPT ![m.id] = IF @ = "waiting" THEN m.kind ELSE @]
      BY <2>5, <3>1 DEF OnResponse
    <3>3. m.id \in Request /\ Placed(call, servant, m) /\ m.kind \in Reply
      BY <3>1, <3>2, TakenMessage
    <3>4. CASE call[m.id] = "waiting"
      BY <3>2, <3>3, <3>4 DEF Placed, Reply
    <3>5. CASE call[m.id] # "waiting"
      BY <3>2, <3>5 DEF IInv, TypeOK
    <3> QED
      BY <3>4, <3>5
  <2>6. ASSUME NEW p \in Peer, NEW q \in Peer, Deliver(p, q) \/ LoseConnection(p, q)
        PROVE  UNCHANGED <<call, servant>>
    BY <2>6 DEF Deliver, LoseConnection
  <2> QED
    BY <2>1, <2>2, <2>3, <2>4, <2>5, <2>6 DEF Next, vars
<1> QED
  BY <1>1, <1>2, Invariance, PTL DEF Spec, KeepsPromise, Promise!Spec

-----------------------------------------------------------------------------
(* Feeds *)

\* The subscription that the server feed has for a live process is in its feed, and is
\* of a list that the process shows or is about to unsubscribe from.  Who shows the list
\* is subscribed to the feed of the map, or was cut off from it.
SubsInv ==
    /\ \A r \in Remotes :
        adapter[r].state # "none" \/ unsub[r] # "no" \/ ownDiff[r] # Nothing => r \in alive
    /\ \A r \in alive :
        served[r] # NoFeed => r \in subs[served[r]] /\ (IsOpen(r) \/ unsub[r] # "no")
    /\ \A p \in OpenProcs \ cut : mapFeed # NoFeed /\ p \in subs[mapFeed]

UniqueKeys(list) == \A i, j \in DOMAIN list : list[i].key = list[j].key => i = j

\* The index of an adapter is right, until something was removed.
Indexed(a) == ~a.shifted => \A i \in DOMAIN a.list : a.index[a.list[i].key] = i

\* The list has what the diff is about, or has not what it appends.
Fits(list, d) ==
    IF d.kind = "append" THEN d.item.key \notin KeysOf(list) ELSE d.item.key \in KeysOf(list)

\* The thread has a diff that p is to get; p is to get the diff of its own command.
JobFor(w, p) == job[w] # Nothing /\ (~job[w].sending \/ p \in job[w].left)
OwnFor(p) == p \in Remotes /\ ownDiff[p] # Nothing

\* There is one diff that p is to get, or none.
OneAwaited(p, d) ==
    \/ \E w \in Writers : /\ JobFor(w, p) /\ job[w].diff = d /\ ~OwnFor(p)
                          /\ \A u \in Writers \ {w} : ~JobFor(u, p)
    \/ OwnFor(p) /\ ownDiff[p] = d /\ \A w \in Writers : ~JobFor(w, p)

\* The list is that of Home, or will be when p gets the diff.
Follows(p, list) ==
    /\ UniqueKeys(list)
    /\ \/ ~Awaits(p) /\ list = data
       \/ \E d \in Diff : Fits(list, d) /\ data = After(list, d) /\ OneAwaited(p, d)

\* What p shows, and what it is reading.
CurrentOf(p) ==
    /\ adapter[p].list # Unread =>
        adapter[p].reading = Unread /\ Follows(p, adapter[p].list) /\ Indexed(adapter[p])
    /\ adapter[p].reading # Unread => Follows(p, adapter[p].reading)

CurrentInv ==
    /\ UniqueKeys(data)
    /\ \A p \in OpenProcs \ (spoiled \union cut) : CurrentOf(p)

\* Who is to be sent a diff is a subscriber of a feed that was looked up; the hook has its own.
JobsInv ==
    \A w \in Writers : job[w] # Nothing =>
        /\ IF job[w].sending THEN job[w].feed \in Feeds ELSE job[w].left = {}
        /\ w = "hook" => job[w].feed = HookFeed

\* A command of Home is about to send its diff to a feed that is not in the map any more:
\* nobody it should reach has read the list.
Late ==
    /\ job["ui"] # Nothing
    /\ ~job["ui"].sending
    /\ job["ui"].feed \in Feeds \ {mapFeed}

LateInv ==
    Late => \A p \in OpenProcs \ (spoiled \union cut) :
                adapter[p].list = Unread /\ adapter[p].reading = Unread

FeedsInv == FeedsTypeOK /\ SubsInv /\ JobsInv /\ LateInv /\ CurrentInv

-----------------------------------------------------------------------------
(* Lists *)

\* Some of the first n numbers is the last one of a set of them.
LEMMA LastOf ==
    ASSUME NEW n \in Nat, NEW S, S \subseteq 1 .. n, S # {}
    PROVE  \E i \in S : \A j \in S : j <= i
<1> DEFINE back == {m \in Nat : n - m \in S}
           less == {p \in Nat \X Nat : p[1] < p[2]}
<1>1. IsWellFoundedOn(less, Nat)
  <2>1. OpToRel(<, Nat) = less
    BY DEF OpToRel
  <2> QED BY <2>1, NatLessThanWellFounded
<1>2. \A i \in S : n - i \in back /\ n - (n - i) = i
  <2> SUFFICES ASSUME NEW i \in S PROVE n - i \in back /\ n - (n - i) = i
    OBVIOUS
  <2>1. n - i \in Nat /\ n - (n - i) = i
    OBVIOUS
  <2>2. n - (n - i) \in S
    BY <2>1
  <2> QED BY <2>1, <2>2
<1>3. back \subseteq Nat /\ back # {}
  BY <1>2
<1> HIDE DEF less
<1>4. PICK m \in back : \A k \in back : <<k, m>> \notin less
  BY <1>1, <1>3, WFMin, Zenon
<1>5. \A k \in back : ~(k < m)
  BY <1>4 DEF less
<1>6. ASSUME NEW j \in S PROVE j <= n - m
  <2>1. j \in Nat /\ n - j \in Nat /\ ~(n - j < m)
    BY <1>2, <1>5
  <2> QED BY <2>1, <1>4
<1> QED BY <1>4, <1>6

\* The index has rows; it has the row of each item when no two have the same key.
LEMMA IndexFinds ==
    ASSUME NEW list \in Lists
    PROVE  /\ IndexOf(list) \in [Keys -> Nat]
           /\ UniqueKeys(list) => \A i \in DOMAIN list : IndexOf(list)[list[i].key] = i
<1> DEFINE rows(k) == {i \in DOMAIN list : list[i].key = k}
           last(k) == CHOOSE i \in rows(k) : \A j \in rows(k) : j <= i
<1>1. /\ DOMAIN list = 1 .. Len(list) /\ Len(list) \in Nat
      /\ \A i \in DOMAIN list : list[i] \in Item /\ list[i].key \in Keys
  <2>1. list \in Seq(Item)
    BY DEF Lists
  <2>2. DOMAIN list = 1 .. Len(list) /\ Len(list) \in Nat
    BY <2>1, LenProperties
  <2>3. \A i \in 1 .. Len(list) : list[i] \in Item
    BY <2>1, ElementOfSeq
  <2> QED BY <2>2, <2>3 DEF Item
<1>2. ASSUME NEW k \in Keys, rows(k) # {} PROVE last(k) \in rows(k)
  <2>1. rows(k) \subseteq 1 .. Len(list)
    BY <1>1
  <2> DEFINE S == rows(k)
  <2>2. \E i \in S : \A j \in S : j <= i
    <3> HIDE DEF S
    <3>1. S \subseteq 1 .. Len(list) /\ S # {}
      BY <1>2, <2>1 DEF S
    <3> QED BY <3>1, <1>1, LastOf
  <2> QED BY <2>2
<1>3. \A k \in Keys : IndexOf(list)[k] = IF rows(k) = {} THEN 0 ELSE last(k)
  BY DEF IndexOf
<1> HIDE DEF last
<1>4. IndexOf(list) \in [Keys -> Nat]
  <2>1. \A k \in Keys : IndexOf(list)[k] \in Nat
    BY <1>1, <1>2, <1>3
  <2>2. DOMAIN IndexOf(list) = Keys /\ IndexOf(list) = [k \in Keys |-> IndexOf(list)[k]]
    BY DEF IndexOf
  <2> QED BY <2>1, <2>2
<1>5. ASSUME UniqueKeys(list), NEW i \in DOMAIN list PROVE IndexOf(list)[list[i].key] = i
  <2>1. list[i].key \in Keys /\ i \in rows(list[i].key)
    BY <1>1
  <2>2. last(list[i].key) \in rows(list[i].key)
    BY <2>1, <1>2
  <2>3. last(list[i].key) = i
    BY <2>2, <1>5 DEF UniqueKeys
  <2> QED BY <2>1, <2>3, <1>3
<1> QED BY <1>4, <1>5

\* Removing a row.
LEMMA RowRemoved ==
    ASSUME NEW S, NEW list \in Seq(S), NEW i \in DOMAIN list
    PROVE  /\ RemoveAt(list, i) \in Seq(S)
           /\ Len(RemoveAt(list, i)) = Len(list) - 1
           /\ \A j \in 1 .. Len(list) - 1 :
                RemoveAt(list, i)[j] = IF j < i THEN list[j] ELSE list[j + 1]
<1> DEFINE a == SubSeq(list, 1, i - 1)
           b == SubSeq(list, i + 1, Len(list))
<1>1. Len(list) \in Nat /\ DOMAIN list = 1 .. Len(list) /\ i \in 1 .. Len(list)
  BY LenProperties
<1>2. /\ a \in Seq(S) /\ Len(a) = i - 1
      /\ \A j \in 1 .. i - 1 : a[j] = list[j]
  <2>1. PICK m \in Int, n \in Int : m = 1 /\ n = i - 1
    BY <1>1
  <2>2. \A j \in m .. n : list[j] \in S
    BY <2>1, <1>1, ElementOfSeq
  <2> QED BY <2>1, <2>2, <1>1, SubSeqProperties
<1>3. /\ b \in Seq(S) /\ Len(b) = Len(list) - i
      /\ \A j \in 1 .. Len(list) - i : b[j] = list[i + j]
  <2>1. PICK m \in Int, n \in Int : m = i + 1 /\ n = Len(list)
    <3>1. i + 1 \in Int /\ Len(list) \in Int
      BY <1>1
    <3> QED BY <3>1
  <2>2. \A j \in m .. n : list[j] \in S
    BY <2>1, <1>1, ElementOfSeq
  <2> QED BY <2>1, <2>2, <1>1, SubSeqProperties
<1> HIDE DEF a, b
<1>4. RemoveAt(list, i) = a \o b
  BY DEF RemoveAt, a, b
<1>5. /\ a \o b \in Seq(S) /\ Len(a \o b) = Len(list) - 1
      /\ \A j \in 1 .. Len(list) - 1 :
            (a \o b)[j] = IF j < i THEN list[j] ELSE list[j + 1]
  <2>1. /\ a \o b \in Seq(S) /\ Len(a \o b) = Len(a) + Len(b)
        /\ \A j \in 1 .. Len(a) + Len(b) :
              (a \o b)[j] = IF j <= Len(a) THEN a[j] ELSE b[j - Len(a)]
    BY <1>2, <1>3, ConcatProperties
  <2>2. Len(a) + Len(b) = Len(list) - 1
    BY <1>1, <1>2, <1>3
  <2>3. ASSUME NEW j \in 1 .. Len(list) - 1
        PROVE  (a \o b)[j] = IF j < i THEN list[j] ELSE list[j + 1]
    <3>1. CASE j < i
      BY <3>1, <2>1, <2>2, <1>1, <1>2
    <3>2. CASE ~(j < i)
      <4>1. ~(j <= Len(a)) /\ j - Len(a) \in 1 .. Len(list) - i /\ i + (j - Len(a)) = j + 1
        BY <3>2, <1>1, <1>2
      <4>2. (a \o b)[j] = b[j - Len(a)]
        BY <4>1, <2>1, <2>2
      <4> QED BY <3>2, <4>1, <4>2, <1>3
    <3> QED BY <3>1, <3>2
  <2> QED BY <2>1, <2>2, <2>3
<1> QED BY <1>4, <1>5

\* The row of a key that the list has.
LEMMA RowFound ==
    ASSUME NEW list \in Lists, NEW k \in KeysOf(list)
    PROVE  RowOf(list, k) \in DOMAIN list /\ list[RowOf(list, k)].key = k
<1>1. \E i \in DOMAIN list : list[i].key = k
  BY DEF KeysOf
<1> QED BY <1>1 DEF RowOf

\* A change keeps the keys different.
LEMMA AfterUnique ==
    ASSUME NEW list \in Lists, UniqueKeys(list), NEW d \in Diff, Fits(list, d)
    PROVE  After(list, d) \in Lists /\ UniqueKeys(After(list, d))
<1>1. /\ d.kind \in {"append", "replace", "remove"} /\ d.item \in Item /\ d.item.key \in Keys
      /\ DOMAIN list = 1 .. Len(list) /\ Len(list) \in Nat /\ list \in Seq(Item)
  BY DEF Diff, Item, Lists
<1>2. CASE d.kind = "append"
  <2> DEFINE new == Append(list, d.item)
  <2>1. new = After(list, d)
    BY <1>2 DEF After
  <2>2. new \in Lists
    BY <1>1 DEF Lists
  <2>3. DOMAIN new = 1 .. Len(list) + 1 /\ new[Len(list) + 1] = d.item
        /\ \A i \in DOMAIN list : new[i] = list[i]
    BY <1>1
  <2>4. \A i \in DOMAIN list : list[i].key # d.item.key
    BY <1>2 DEF Fits, KeysOf
  <2> HIDE DEF new
  <2>5. UniqueKeys(new)
    BY <2>3, <2>4, <1>1 DEF UniqueKeys
  <2> QED BY <2>1, <2>2, <2>5
<1>3. CASE d.kind # "append"
  <2> DEFINE row == RowOf(list, d.item.key)
  <2>1. row \in DOMAIN list /\ list[row].key = d.item.key
    BY <1>3, RowFound DEF Fits
  <2> HIDE DEF row
  <2>2. CASE d.kind = "remove"
    <3> DEFINE new == RemoveAt(list, row)
    <3>1. new = After(list, d)
      BY <2>2 DEF After, row
    <3>2. /\ new \in Seq(Item) /\ Len(new) = Len(list) - 1
          /\ \A j \in 1 .. Len(list) - 1 : new[j] = IF j < row THEN list[j] ELSE list[j + 1]
      BY <1>1, <2>1, RowRemoved
    <3> HIDE DEF new
    <3>3. DOMAIN new = 1 .. Len(list) - 1
      BY <3>2
    <3>4. UniqueKeys(new)
      <4> DEFINE was(j) == IF j < row THEN j ELSE j + 1
      <4>1. \A j \in DOMAIN new : was(j) \in DOMAIN list /\ new[j] = list[was(j)]
        BY <3>2, <3>3, <2>1, <1>1
      <4>2. \A i, j \in DOMAIN new : was(i) = was(j) => i = j
        BY <3>3, <2>1, <1>1
      <4> HIDE DEF was
      <4> QED BY <4>1, <4>2 DEF UniqueKeys
    <3> QED BY <3>1, <3>2, <3>4 DEF Lists
  <2>3. CASE d.kind = "replace"
    <3>1. After(list, d) = [list EXCEPT ![row] = d.item]
      BY <2>3 DEF After, row
    <3>2. After(list, d) \in Lists
      BY <3>1, <2>1, <1>1 DEF Lists
    <3>3. UniqueKeys(After(list, d))
      BY <3>1, <2>1, <1>1 DEF UniqueKeys
    <3> QED BY <3>2, <3>3
  <2> QED BY <2>2, <2>3, <1>1, <1>3
<1> QED BY <1>2, <1>3

-----------------------------------------------------------------------------
(* Adapters *)

OpenAdapters ==
    [state : {"open"}, list : Lists \union {Unread}, index : [Keys -> Nat],
     reading : Lists \union {Unread}, shifted : BOOLEAN]

ClosedAdapters == [state : {"none", "opening"}]

\* A list that was read is none that was not.
LEMMA ReadIsList == Unread \notin Lists
<1> SUFFICES ASSUME Unread \in Lists PROVE FALSE
  OBVIOUS
<1>1. Len(Unread) = 1 /\ Unread[1].key = "None"
  BY DEF Unread
<1>2. PICK u \in Seq(Item) : u = Unread
  BY DEF Lists
<1>3. u[1] \in Item
  BY <1>1, <1>2, ElementOfSeq
<1> QED BY <1>1, <1>2, <1>3, UnreadIsNoList DEF Item

\* An adapter that has read the list takes a diff that it can apply.
LEMMA AppliedType ==
    ASSUME NEW a \in OpenAdapters, a.list \in Lists, NEW d \in Diff, CanApply(a, d)
    PROVE  Applied(a, d) \in OpenAdapters /\ Applied(a, d).list \in Lists
<1>1. /\ d.kind \in {"append", "replace", "remove"} /\ d.item \in Item /\ d.item.key \in Keys
      /\ a.list \in Seq(Item) /\ Len(a.list) \in Nat
      /\ a.index \in [Keys -> Nat]
  BY DEF Diff, Item, Lists, OpenAdapters
<1>2. CASE d.kind = "append"
  <2> DEFINE new == Append(a.list, d.item)
             ix == [a.index EXCEPT ![d.item.key] = Len(a.list) + 1]
  <2>1. Applied(a, d) = [a EXCEPT !.list = new, !.index = ix]
    BY <1>2 DEF Applied, OpenAdapters
  <2>2. new \in Lists /\ ix \in [Keys -> Nat]
    BY <1>1 DEF Lists
  <2> HIDE DEF new, ix
  <2> QED BY <2>1, <2>2 DEF OpenAdapters
<1>3. CASE d.kind = "replace"
  <2> DEFINE new == [a.list EXCEPT ![Row(a, d)] = d.item]
  <2>1. Applied(a, d) = [a EXCEPT !.list = new]
    BY <1>3 DEF Applied, OpenAdapters
  <2>2. new \in Lists
    <3>1. Row(a, d) \in DOMAIN a.list
      BY <1>3 DEF CanApply
    <3> QED BY <3>1, <1>1 DEF Lists
  <2> HIDE DEF new
  <2> QED BY <2>1, <2>2 DEF OpenAdapters
<1>4. CASE d.kind = "remove"
  <2> DEFINE new == RemoveAt(a.list, Row(a, d))
  <2>1. Applied(a, d) = [a EXCEPT !.list = new, !.shifted = TRUE]
    BY <1>4 DEF Applied, OpenAdapters
  <2>2. new \in Lists
    BY <1>1, <1>4, RowRemoved DEF Lists, CanApply
  <2> HIDE DEF new
  <2> QED BY <2>1, <2>2 DEF OpenAdapters
<1> QED BY <1>1, <1>2, <1>3, <1>4

\* A right index has the row of the item: taking the diff makes the list that the
\* change made of it, and leaves a right index or none to rely on.
LEMMA AppliedRight ==
    ASSUME NEW a \in OpenAdapters, a.list \in Lists, UniqueKeys(a.list), Indexed(a),
           NEW d \in Diff, Fits(a.list, d), d.kind = "append" \/ ~a.shifted
    PROVE  /\ CanApply(a, d)
           /\ Applied(a, d).list = After(a.list, d) /\ Applied(a, d).reading = a.reading
           /\ Indexed(Applied(a, d))
<1>1. /\ d.kind \in {"append", "replace", "remove"} /\ d.item \in Item /\ d.item.key \in Keys
      /\ a.list \in Seq(Item) /\ Len(a.list) \in Nat /\ DOMAIN a.list = 1 .. Len(a.list)
      /\ a.index \in [Keys -> Nat]
  BY LenProperties DEF Diff, Item, Lists, OpenAdapters
<1>2. CASE d.kind = "append"
  <2> DEFINE new == Append(a.list, d.item)
             ix == [a.index EXCEPT ![d.item.key] = Len(a.list) + 1]
  <2>1. Applied(a, d) = [a EXCEPT !.list = new, !.index = ix] /\ new = After(a.list, d)
    BY <1>2 DEF Applied, OpenAdapters, After
  <2>2. DOMAIN new = 1 .. Len(a.list) + 1 /\ new[Len(a.list) + 1] = d.item
        /\ \A i \in DOMAIN a.list : new[i] = a.list[i]
    BY <1>1
  <2>3. \A i \in DOMAIN a.list : a.list[i].key # d.item.key
    BY <1>2 DEF Fits, KeysOf
  <2>4. ASSUME ~a.shifted, NEW i \in DOMAIN new PROVE ix[new[i].key] = i
    <3>1. CASE i \in DOMAIN a.list
      BY <3>1, <2>2, <2>3, <2>4, <1>1 DEF Indexed
    <3>2. CASE i \notin DOMAIN a.list
      BY <3>2, <2>2, <1>1
    <3> QED BY <3>1, <3>2
  <2> HIDE DEF new, ix
  <2>5. /\ Applied(a, d).list = new /\ Applied(a, d).reading = a.reading
        /\ Applied(a, d).index = ix /\ Applied(a, d).shifted = a.shifted
    BY <2>1 DEF OpenAdapters
  <2> QED BY <2>1, <2>4, <2>5, <1>2 DEF CanApply, Indexed
<1>3. CASE d.kind # "append"
  <2> DEFINE row == Row(a, d)
  <2>1. row \in DOMAIN a.list /\ row = RowOf(a.list, d.item.key) /\ a.list[row].key = d.item.key
    <3>1. d.item.key \in KeysOf(a.list)
      BY <1>3 DEF Fits
    <3>2. RowOf(a.list, d.item.key) \in DOMAIN a.list /\ a.list[RowOf(a.list, d.item.key)].key = d.item.key
      BY <3>1, RowFound
    <3>3. a.index[d.item.key] = RowOf(a.list, d.item.key)
      BY <3>2, <1>3 DEF Indexed
    <3> QED BY <3>2, <3>3 DEF Row
  <2>2. CanApply(a, d)
    BY <2>1 DEF CanApply
  <2> HIDE DEF row
  <2>3. CASE d.kind = "replace"
    <3> DEFINE new == [a.list EXCEPT ![row] = d.item]
    <3>1. Applied(a, d) = [a EXCEPT !.list = new] /\ new = After(a.list, d)
      BY <2>3, <2>1 DEF Applied, OpenAdapters, After, row
    <3>2. DOMAIN new = DOMAIN a.list /\ \A i \in DOMAIN new : new[i].key = a.list[i].key
      BY <2>1, <1>1
    <3> HIDE DEF new
    <3>3. /\ Applied(a, d).list = new /\ Applied(a, d).reading = a.reading
          /\ Applied(a, d).index = a.index /\ Applied(a, d).shifted = a.shifted
      BY <3>1 DEF OpenAdapters
    <3> QED BY <3>1, <3>2, <3>3, <2>2 DEF Indexed
  <2>4. CASE d.kind = "remove"
    <3> DEFINE new == RemoveAt(a.list, row)
    <3>1. Applied(a, d) = [a EXCEPT !.list = new, !.shifted = TRUE] /\ new = After(a.list, d)
      BY <2>4, <2>1 DEF Applied, OpenAdapters, After, row
    <3> HIDE DEF new
    <3>2. /\ Applied(a, d).list = new /\ Applied(a, d).reading = a.reading
          /\ Applied(a, d).shifted = TRUE
      BY <3>1 DEF OpenAdapters
    <3> QED BY <3>1, <3>2, <2>2 DEF Indexed
  <2> QED BY <2>3, <2>4, <1>1, <1>3
<1> QED BY <1>2, <1>3

\* Reading the list makes the index.
LEMMA PopulatedType ==
    ASSUME NEW a \in OpenAdapters, NEW list \in Lists
    PROVE  /\ Populated(a, list) \in OpenAdapters
           /\ Populated(a, list).list = list /\ Populated(a, list).reading = a.reading
           /\ UniqueKeys(list) => Indexed(Populated(a, list))
<1> DEFINE ix == IndexOf(list)
<1>1. ix \in [Keys -> Nat] /\ (UniqueKeys(list) => \A i \in DOMAIN list : ix[list[i].key] = i)
  BY IndexFinds
<1>2. Populated(a, list) = [a EXCEPT !.list = list, !.index = ix]
  BY DEF Populated
<1> HIDE DEF ix
<1>3. /\ Populated(a, list) \in OpenAdapters
      /\ Populated(a, list).list = list /\ Populated(a, list).reading = a.reading
      /\ Populated(a, list).index = ix
  BY <1>1, <1>2 DEF OpenAdapters
<1> QED BY <1>1, <1>3 DEF Indexed

-----------------------------------------------------------------------------
(* Types, and what a step leaves alone *)

Sendings ==
    [diff : Diff, feed : Feeds \union {NoFeed, Missed}, sending : BOOLEAN, left : SUBSET Procs]

\* TypeOK, conjunct by conjunct.
LEMMA Types ==
    ASSUME FeedsTypeOK
    PROVE  /\ data \in Lists /\ ops \in 0..MaxOps
           /\ mapFeed \in Feeds \union {NoFeed} /\ made \in Feeds
           /\ subs \in [Feeds -> SUBSET Procs]
           /\ served \in [Remotes -> Feeds \union {NoFeed}]
           /\ adapter \in [Procs -> ClosedAdapters \union OpenAdapters]
           /\ found \in [Procs -> Feeds \union {NoFeed, Missed}]
           /\ \A p \in Procs : adapter[p].state = "opening" => found[p] # NoFeed
           /\ unsub \in [Remotes -> {"no", "ui", "rpc"}]
           /\ job \in [Writers -> {Nothing} \union Sendings]
           /\ ownDiff \in [Remotes -> {Nothing} \union Diff]
           /\ alive \subseteq Remotes /\ spoiled \subseteq Procs /\ cut \subseteq Procs
BY DEF FeedsTypeOK, ClosedAdapters, OpenAdapters, Sendings

\* TypeOK after a step.
LEMMA IsTyped ==
    ASSUME data' \in Lists, ops' \in 0..MaxOps,
           mapFeed' \in Feeds \union {NoFeed}, made' \in Feeds,
           subs' \in [Feeds -> SUBSET Procs],
           served' \in [Remotes -> Feeds \union {NoFeed}],
           adapter' \in [Procs -> ClosedAdapters \union OpenAdapters],
           found' \in [Procs -> Feeds \union {NoFeed, Missed}],
           \A p \in Procs : adapter'[p].state = "opening" => found'[p] # NoFeed,
           unsub' \in [Remotes -> {"no", "ui", "rpc"}],
           job' \in [Writers -> {Nothing} \union Sendings],
           ownDiff' \in [Remotes -> {Nothing} \union Diff],
           alive' \subseteq Remotes, spoiled' \subseteq Procs, cut' \subseteq Procs
    PROVE  FeedsTypeOK'
BY DEF FeedsTypeOK, ClosedAdapters, OpenAdapters, Sendings

\* The state of an adapter says which fields it has.
LEMMA AdapterTypes ==
    ASSUME FeedsTypeOK, NEW p \in Procs
    PROVE  /\ IsOpen(p) <=> adapter[p] \in OpenAdapters
           /\ IsOpen(p) => adapter[p].list \in Lists \union {Unread}
                           /\ adapter[p].reading \in Lists \union {Unread}
           /\ ~IsOpen(p) <=> adapter[p] \in ClosedAdapters
           /\ adapter[p].state \in {"none", "opening", "open"}
<1>1. adapter[p] \in ClosedAdapters \union OpenAdapters
  BY Types
<1> QED BY <1>1 DEF IsOpen, ClosedAdapters, OpenAdapters

\* Home is not a remote process, and no feed is NoFeed.
LEMMA ProcNames ==
    /\ Home \in Procs /\ Home \notin Remotes /\ Remotes \subseteq Procs
    /\ \A p \in Procs : p = Home \/ p \in Remotes
    /\ NoFeed \notin Feeds /\ HookFeed \in Feeds
    /\ Missed \notin Feeds /\ Missed # NoFeed
    /\ NoAdapter \in ClosedAdapters /\ NoAdapter.state = "none"
    /\ "ui" \in Writers /\ "hook" \in Writers
BY FeedsAssumption DEF Procs, Feeds, NoFeed, Missed, HookFeed, NoAdapter, ClosedAdapters, Writers

\* The feeds are left alone, and adapters are open and closed as before.
LEMMA SubsStay ==
    ASSUME FeedsTypeOK, SubsInv, UNCHANGED <<mapFeed, subs, served, unsub, alive, cut>>,
           \A p \in Procs : adapter'[p].state = adapter[p].state,
           \A r \in Remotes : ownDiff'[r] # Nothing => ownDiff[r] # Nothing \/ IsOpen(r)
    PROVE  SubsInv'
<1>1. Remotes \subseteq Procs /\ alive \subseteq Remotes
  BY Types, ProcNames
<1>2. OpenProcs' = OpenProcs /\ \A p \in Procs : IsOpen(p)' <=> IsOpen(p)
  BY DEF OpenProcs, IsOpen
<1>3. \A r \in Remotes : IsOpen(r) => adapter[r].state # "none"
  BY DEF IsOpen
<1> QED BY <1>1, <1>2, <1>3 DEF SubsInv

\* The diffs that p is to get are left alone, and its adapter.
SameDiffs(p) ==
    /\ \A w \in Writers : /\ JobFor(w, p)' <=> JobFor(w, p)
                          /\ JobFor(w, p) => job'[w].diff = job[w].diff
    /\ p \in Remotes => ownDiff'[p] = ownDiff[p]

SameFor(p) == adapter'[p] = adapter[p] /\ SameDiffs(p)

\* A copy that follows the list does so as long as the list and the diffs under way stay.
LEMMA FollowsStays ==
    ASSUME NEW p, NEW list, Follows(p, list), SameDiffs(p), data' = data
    PROVE  Follows(p, list)'
<1>1. \A w \in Writers : /\ JobFor(w, p)' <=> JobFor(w, p)
                         /\ JobFor(w, p) => job'[w].diff = job[w].diff
  BY DEF SameDiffs
<1>2. OwnFor(p)' <=> OwnFor(p)
  BY DEF SameDiffs, OwnFor
<1>3. OwnFor(p) => ownDiff'[p] = ownDiff[p]
  BY DEF SameDiffs, OwnFor
<1>4. Awaits(p)' <=> Awaits(p)
  BY <1>1, <1>2 DEF Awaits, JobFor, OwnFor
<1>5. \A d \in Diff : OneAwaited(p, d) => OneAwaited(p, d)'
  BY <1>1, <1>2, <1>3 DEF OneAwaited
<1>6. UniqueKeys(list)
  BY DEF Follows
<1>7. CASE ~Awaits(p) /\ list = data
  BY <1>4, <1>6, <1>7 DEF Follows
<1>8. CASE \E d \in Diff : Fits(list, d) /\ data = After(list, d) /\ OneAwaited(p, d)
  BY <1>5, <1>6, <1>8 DEF Follows
<1> QED BY <1>7, <1>8 DEF Follows

\* What p shows stays current.
LEMMA CurrentStays ==
    ASSUME NEW p, CurrentOf(p), SameFor(p), data' = data
    PROVE  CurrentOf(p)'
<1>1. adapter'[p] = adapter[p] /\ SameDiffs(p)
  BY DEF SameFor
<1>2. PICK a : a = adapter[p]
  OBVIOUS
<1>3. Follows(p, a.list) => Follows(p, a.list)'
  <2>1. PICK list : list = a.list
    OBVIOUS
  <2>2. Follows(p, list) => Follows(p, list)'
    BY <1>1, FollowsStays
  <2> QED BY <2>1, <2>2
<1>4. Follows(p, a.reading) => Follows(p, a.reading)'
  <2>1. PICK list : list = a.reading
    OBVIOUS
  <2>2. Follows(p, list) => Follows(p, list)'
    BY <1>1, FollowsStays
  <2> QED BY <2>1, <2>2
<1> QED BY <1>1, <1>2, <1>3, <1>4 DEF CurrentOf

\* A step that does not change the list, and by which those that show it stay as they
\* were, have opened it anew, are current or go wrong in one of the known ways.
LEMMA AllCurrent ==
    ASSUME CurrentInv, data' = data,
           \A p \in Procs : adapter'[p].state = "open" /\ p \notin spoiled' \union cut' =>
                \/ adapter'[p].list = Unread /\ adapter'[p].reading = Unread
                \/ IsOpen(p) /\ p \notin spoiled \union cut /\ SameFor(p)
                \/ CurrentOf(p)'
    PROVE  CurrentInv'
<1>1. ASSUME NEW p \in Procs, adapter'[p].state = "open", p \notin spoiled' \union cut'
      PROVE  CurrentOf(p)'
  <2>1. CASE adapter'[p].list = Unread /\ adapter'[p].reading = Unread
    BY <2>1 DEF CurrentOf
  <2>2. CASE IsOpen(p) /\ p \notin spoiled \union cut /\ SameFor(p)
    <3>1. CurrentOf(p)
      BY <1>1, <2>2 DEF CurrentInv, OpenProcs
    <3> QED BY <3>1, <2>2, CurrentStays
  <2>3. CASE CurrentOf(p)'
    BY <2>3
  <2> QED BY <1>1, <2>1, <2>2, <2>3
<1> QED BY <1>1 DEF CurrentInv, OpenProcs, IsOpen

\* While a command is late, those that it should reach have opened the list anew or stay
\* as they were.
LEMMA LateStays ==
    ASSUME LateInv,
           \A p \in Procs : adapter'[p].state = "open" /\ p \notin spoiled' \union cut' /\ Late' =>
              \/ adapter'[p].list = Unread /\ adapter'[p].reading = Unread
              \/ Late /\ IsOpen(p) /\ p \notin spoiled \union cut /\ adapter'[p] = adapter[p]
    PROVE  LateInv'
<1>1. ASSUME Late', NEW p \in Procs, adapter'[p].state = "open", p \notin spoiled' \union cut'
      PROVE  adapter'[p].list = Unread /\ adapter'[p].reading = Unread
  BY <1>1 DEF LateInv, OpenProcs
<1> QED BY <1>1 DEF LateInv, OpenProcs, IsOpen

\* No job is begun or aborted, and none gets another feed.
LEMMA JobsStay ==
    ASSUME JobsInv, UNCHANGED job
    PROVE  JobsInv'
BY DEF JobsInv

\* With the same jobs and the same feed in the map no command becomes late.
LEMMA LateSame ==
    ASSUME UNCHANGED <<job, mapFeed>>
    PROVE  Late' => Late
BY DEF Late

\* Whoever shows the list and was not cut off is one of those subscribed to the feed of the map.
LEMMA LinkedMapped ==
    ASSUME FeedsTypeOK, SubsInv
    PROVE  Mapped \subseteq Procs /\ \A p \in OpenProcs \ cut : mapFeed # NoFeed /\ p \in Mapped
<1>1. subs \in [Feeds -> SUBSET Procs] /\ mapFeed \in Feeds \union {NoFeed}
  BY Types
<1> QED BY <1>1 DEF Mapped, SubsInv

\* A feed put into the map cuts off all who show the list.
LEMMA InsertCutsOff ==
    ASSUME FeedsTypeOK, SubsInv, Insert
    PROVE  /\ made' \in Feeds /\ mapFeed' = made' /\ cut' \subseteq Procs
           /\ OpenProcs \subseteq cut'
<1>1. made' \in Feeds /\ mapFeed' = made' /\ cut' = cut \union Mapped
  BY Types, FeedsAssumption DEF Insert, Feeds
<1>2. \A p \in OpenProcs : p \in cut \/ p \in Mapped
  BY LinkedMapped
<1> QED BY <1>1, <1>2, LinkedMapped, Types

\* A feed that was found is made and known before anyone subscribes to it.
LEMMA FindFeedStep ==
    ASSUME FeedsInv, NEW p \in Procs, FindFeed(p)
    PROVE  FeedsInv'
<1> USE DEF FeedsInv
<1>2. /\ adapter[p].state = "none" /\ p \in alive \union {Home}
      /\ adapter' = [adapter EXCEPT ![p] = [state |-> "opening"]]
      /\ found' = [found EXCEPT ![p] = Lookup]
      /\ UNCHANGED <<data, ops, mapFeed, made, subs, served, unsub, alive, job, ownDiff, spoiled, cut>>
  BY DEF FindFeed
<1>3. Lookup \in Feeds \union {Missed} /\ Lookup # NoFeed
  BY Types, ProcNames DEF Lookup
<1>4. /\ \A q \in Procs \ {p} : adapter'[q] = adapter[q] /\ found'[q] = found[q]
      /\ adapter'[p] = [state |-> "opening"] /\ found'[p] = Lookup
      /\ adapter' \in [Procs -> ClosedAdapters \union OpenAdapters]
      /\ found' \in [Procs -> Feeds \union {NoFeed, Missed}]
  BY <1>2, <1>3, Types DEF ClosedAdapters
<1>5. FeedsTypeOK'
  <2>1. \A q \in Procs : adapter'[q].state = "opening" => found'[q] # NoFeed
    BY <1>3, <1>4, Types
  <2> QED BY <1>2, <1>4, <2>1, Types, IsTyped
<1>6. OpenProcs' = OpenProcs /\ \A q \in Procs : IsOpen(q)' <=> IsOpen(q)
  BY <1>2, <1>4 DEF OpenProcs, IsOpen
<1>7. SubsInv'
  <2>1. \A r \in Remotes : adapter'[r].state # "none" \/ unsub'[r] # "no" \/ ownDiff'[r] # Nothing => r \in alive'
    BY <1>2, <1>4, ProcNames DEF SubsInv
  <2>2. \A r \in alive' : served'[r] # NoFeed => r \in subs'[served'[r]] /\ (IsOpen(r)' \/ unsub'[r] # "no")
    BY <1>2, <1>6, Types, ProcNames DEF SubsInv
  <2> QED BY <1>2, <1>6, <2>1, <2>2 DEF SubsInv
<1>8. CurrentInv' /\ LateInv'
  <2>1. ASSUME NEW q \in Procs, adapter'[q].state = "open", q \notin spoiled' \union cut'
        PROVE  IsOpen(q) /\ q \notin spoiled \union cut /\ SameFor(q)
    <3>1. q # p
      BY <2>1, <1>4
    <3> QED BY <2>1, <3>1, <1>2, <1>4 DEF SameFor, SameDiffs, JobFor, IsOpen
  <2>2. Late' => Late
    BY <1>2, LateSame
  <2> QED BY <2>1, <2>2, <1>2, AllCurrent, LateStays DEF SameFor
<1> QED BY <1>2, <1>5, <1>7, <1>8, JobsStay

\* A feed that is made when the map had none cuts off whoever is subscribed to another
\* that came there meanwhile.
LEMMA MakeFeedStep ==
    ASSUME FeedsInv, NEW p \in Procs, MakeFeed(p)
    PROVE  FeedsInv'
<1> USE DEF FeedsInv
<1>1. /\ Insert
      /\ found' = [found EXCEPT ![p] = mapFeed']
      /\ UNCHANGED <<data, ops, subs, served, adapter, unsub, alive, job, ownDiff, spoiled>>
  BY DEF MakeFeed
<1>2. made' \in Feeds /\ mapFeed' = made' /\ cut' \subseteq Procs /\ OpenProcs \subseteq cut'
  BY <1>1, InsertCutsOff
<1>3. /\ found' \in [Procs -> Feeds \union {NoFeed, Missed}]
      /\ found'[p] # NoFeed /\ \A q \in Procs \ {p} : found'[q] = found[q]
  BY <1>1, <1>2, Types, ProcNames
<1>4. FeedsTypeOK'
  <2>1. \A q \in Procs : adapter'[q].state = "opening" => found'[q] # NoFeed
    BY <1>1, <1>3, Types
  <2> QED BY <2>1, <1>1, <1>2, <1>3, Types, IsTyped
<1>5. OpenProcs' \subseteq cut' /\ \A q \in Procs : IsOpen(q)' <=> IsOpen(q)
  BY <1>1, <1>2 DEF OpenProcs, IsOpen
<1>6. SubsInv'
  <2>1. alive \subseteq Procs
    BY Types, ProcNames
  <2> QED BY <2>1, <1>1, <1>5 DEF SubsInv
<1>7. CurrentInv' /\ LateInv'
  <2>1. \A q \in Procs : adapter'[q].state = "open" => q \in cut'
    BY <1>5 DEF OpenProcs, IsOpen
  <2> QED BY <2>1, <1>1, AllCurrent, LateStays
<1> QED BY <1>1, <1>4, <1>6, <1>7, JobsStay

\* The feed of the map stays when a feed loses a subscriber, and so does whoever shows the
\* list and is not cut off by that.
LEMMA OthersStay ==
    ASSUME FeedsTypeOK, SubsInv, NEW feed \in Feeds, NEW p,
           CloseIfUnused(feed, subs[feed] \ {p}), Bereft(feed, subs[feed] \ {p}) \subseteq cut',
           NEW q \in (OpenProcs \ cut) \ {p}, q \notin cut'
    PROVE  mapFeed' = mapFeed /\ mapFeed # NoFeed /\ q \in subs[mapFeed]
<1>1. mapFeed # NoFeed /\ q \in Mapped /\ Mapped = subs[mapFeed]
  BY LinkedMapped DEF Mapped
<1>2. subs[feed] \ {p} # {}
  <2> SUFFICES ASSUME subs[feed] \ {p} = {} PROVE FALSE
    OBVIOUS
  <2>1. feed # mapFeed
    BY <1>1
  <2>2. Bereft(feed, subs[feed] \ {p}) = Mapped
    BY <2>1 DEF Bereft
  <2> QED BY <2>2, <1>1
<1> QED BY <1>1, <1>2 DEF CloseIfUnused

\* A new subscription is that of the feed the adapter has found.
LEMMA SubscribeStep ==
    ASSUME FeedsInv, NEW p \in Procs, Subscribe(p)
    PROVE  FeedsInv'
<1> USE DEF FeedsInv
<1> DEFINE feed == found[p]
           old  == IF p = Home \/ served[p] = feed THEN NoFeed ELSE served[p]
<1>1. /\ adapter[p].state = "opening" /\ feed \in Feeds
      /\ subs' = [f \in Feeds |-> IF f = feed THEN subs[f] \union {p}
                                  ELSE IF f = old THEN subs[f] \ {p} ELSE subs[f]]
      /\ IF old = NoFeed THEN UNCHANGED mapFeed ELSE CloseIfUnused(old, subs[old] \ {p})
      /\ served' = IF p = Home THEN served ELSE [served EXCEPT ![p] = feed]
      /\ found' = [found EXCEPT ![p] = NoFeed]
      /\ adapter' = [adapter EXCEPT ![p] = NewAdapter]
      /\ cut' = (cut \ {p})
                 \union (IF feed = mapFeed' THEN {} ELSE {p})
                 \union (IF old = NoFeed THEN {} ELSE Bereft(old, subs[old] \ {p}))
      /\ spoiled' = spoiled \ {p}
      /\ UNCHANGED <<data, ops, made, unsub, alive, job, ownDiff>>
  BY DEF Subscribe
<1>2. feed \in Feeds /\ old \in Feeds \union {NoFeed} /\ (p # Home => p \in Remotes)
  BY <1>1, Types, ProcNames
<1> HIDE DEF feed, old
<1>3. NewAdapter \in OpenAdapters /\ NewAdapter.state = "open"
      /\ NewAdapter.list = Unread /\ NewAdapter.reading = Unread
  <2>1. PICK none \in Lists : none = <<>>
    <3>1. <<>> \in Lists
      BY DEF Lists
    <3> QED BY <3>1
  <2>2. IndexOf(<<>>) \in [Keys -> Nat]
    BY <2>1, IndexFinds
  <2> DEFINE ix == IndexOf(<<>>)
  <2> HIDE DEF ix
  <2>3. NewAdapter = [state |-> "open", list |-> Unread, index |-> ix,
                      reading |-> Unread, shifted |-> FALSE] /\ ix \in [Keys -> Nat]
    BY <2>2 DEF NewAdapter, ix
  <2> QED BY <2>3 DEF OpenAdapters
<1>4. /\ \A q \in Procs \ {p} : adapter'[q] = adapter[q] /\ found'[q] = found[q]
      /\ adapter'[p] = NewAdapter
      /\ adapter' \in [Procs -> ClosedAdapters \union OpenAdapters]
      /\ found' \in [Procs -> Feeds \union {NoFeed, Missed}]
  BY <1>1, <1>3, Types
<1>5. subs' \in [Feeds -> SUBSET Procs] /\ \A f \in Feeds : subs'[f] =
        IF f = feed THEN subs[f] \union {p} ELSE IF f = old THEN subs[f] \ {p} ELSE subs[f]
  BY <1>1, <1>2, Types
<1>6. mapFeed' \in Feeds \union {NoFeed}
  BY <1>1, Types DEF CloseIfUnused
<1>7. served' \in [Remotes -> Feeds \union {NoFeed}]
      /\ (p \in Remotes => served'[p] = feed) /\ \A r \in Remotes \ {p} : served'[r] = served[r]
  BY <1>1, <1>2, Types, ProcNames
<1>8. FeedsTypeOK'
  <2>1. \A q \in Procs : adapter'[q].state = "opening" => found'[q] # NoFeed
    BY <1>3, <1>4, Types
  <2>2. cut' \subseteq Procs /\ spoiled' \subseteq Procs
    BY <1>1, Types, LinkedMapped DEF Bereft
  <2> QED BY <1>1, <1>4, <1>5, <1>6, <1>7, <2>1, <2>2, Types, IsTyped
<1>9. \A q \in Procs : IsOpen(q)' <=> q = p \/ IsOpen(q)
  BY <1>3, <1>4 DEF IsOpen
<1>10. \A q \in (OpenProcs \ cut) \ {p} : q \notin cut' =>
            mapFeed' = mapFeed /\ mapFeed # NoFeed /\ q \in subs[mapFeed]
  <2>1. CASE old = NoFeed
    BY <2>1, <1>1 DEF SubsInv
  <2>2. CASE old # NoFeed
    <3>1. old \in Feeds /\ CloseIfUnused(old, subs[old] \ {p}) /\ Bereft(old, subs[old] \ {p}) \subseteq cut'
      BY <2>2, <1>1, <1>2
    <3> QED BY <3>1, OthersStay
  <2> QED BY <2>1, <2>2
<1>11. SubsInv'
  <2>1. p \in Remotes => p \in alive
    BY <1>1 DEF SubsInv
  <2>2. \A r \in Remotes : adapter'[r].state # "none" \/ unsub'[r] # "no" \/ ownDiff'[r] # Nothing => r \in alive'
    BY <1>1, <1>4, <2>1, ProcNames DEF SubsInv
  <2>3. ASSUME NEW r \in alive', served'[r] # NoFeed
        PROVE  r \in subs'[served'[r]] /\ (IsOpen(r)' \/ unsub'[r] # "no")
    <3>1. r \in Remotes /\ r \in Procs /\ r \in alive
      BY <1>1, Types, ProcNames
    <3>2. CASE r = p
      BY <3>1, <3>2, <1>2, <1>5, <1>7, <1>9
    <3>3. CASE r # p
      <4>1. served[r] # NoFeed /\ served'[r] = served[r] /\ served[r] \in Feeds
        BY <2>3, <3>1, <3>3, <1>7, Types
      <4>2. r \in subs[served[r]] /\ (IsOpen(r) \/ unsub[r] # "no")
        BY <3>1, <4>1 DEF SubsInv
      <4> QED BY <3>1, <3>3, <4>1, <4>2, <1>1, <1>5, <1>9
    <3> QED BY <3>2, <3>3
  <2>4. ASSUME NEW q \in OpenProcs' \ cut' PROVE mapFeed' # NoFeed /\ q \in subs'[mapFeed']
    <3>1. CASE q = p
      BY <3>1, <2>4, <1>1, <1>2, <1>5, ProcNames
    <3>2. CASE q # p
      <4>1. q \in Procs /\ q \in OpenProcs \ cut
        BY <2>4, <3>2, <1>1, <1>9 DEF OpenProcs
      <4>2. mapFeed' = mapFeed /\ mapFeed # NoFeed /\ q \in subs[mapFeed]
        BY <4>1, <2>4, <3>2, <1>10
      <4>3. mapFeed \in Feeds
        BY <4>2, Types
      <4> QED BY <4>2, <4>3, <3>2, <1>5
    <3> QED BY <3>1, <3>2
  <2> QED BY <2>2, <2>3, <2>4 DEF SubsInv
<1>12. CurrentInv' /\ LateInv'
  <2>1. ASSUME NEW q \in Procs, adapter'[q].state = "open", q \notin spoiled' \union cut'
        PROVE  \/ adapter'[q].list = Unread /\ adapter'[q].reading = Unread
               \/ IsOpen(q) /\ q \notin spoiled \union cut /\ SameFor(q) /\ (Late' => Late)
    <3>1. CASE q = p
      BY <3>1, <1>3, <1>4
    <3>2. CASE q # p
      <4>1. IsOpen(q) /\ q \notin spoiled \union cut /\ SameFor(q)
        BY <2>1, <3>2, <1>1, <1>4 DEF SameFor, SameDiffs, JobFor, IsOpen
      <4>2. mapFeed' = mapFeed
        BY <4>1, <2>1, <3>2, <1>10 DEF OpenProcs
      <4> QED BY <4>1, <4>2, <1>1, LateSame
    <3> QED BY <3>1, <3>2
  <2> QED BY <2>1, <1>1, AllCurrent, LateStays DEF SameFor
<1> QED BY <1>1, <1>8, <1>11, <1>12, JobsStay

\* The view asks for a row, or gets the answer.
LEMMA ReadListStep ==
    ASSUME FeedsInv, NEW p \in Procs, ReadList(p)
    PROVE  FeedsInv'
<1> USE DEF FeedsInv
<1>1. /\ IsOpen(p) /\ adapter[p].list = Unread /\ adapter[p].reading = Unread
      /\ adapter' = [adapter EXCEPT ![p].reading = data]
      /\ spoiled' = IF Awaits(p) THEN spoiled \union {p} ELSE spoiled
      /\ UNCHANGED <<data, ops, alive, job, ownDiff, feedVars>>
  BY DEF ReadList
<1>2. UNCHANGED <<mapFeed, made, subs, served, found, unsub, cut>>
  BY <1>1 DEF feedVars
<1>3. /\ \A q \in Procs \ {p} : adapter'[q] = adapter[q]
      /\ adapter'[p] = [adapter[p] EXCEPT !.reading = data]
      /\ adapter'[p] \in OpenAdapters /\ adapter'[p].state = "open"
      /\ adapter'[p].reading = data /\ adapter'[p].list = Unread
      /\ adapter' \in [Procs -> ClosedAdapters \union OpenAdapters]
  <2>1. adapter[p] \in OpenAdapters /\ data \in Lists
        /\ adapter \in [Procs -> ClosedAdapters \union OpenAdapters]
    BY <1>1, AdapterTypes, Types
  <2>2. adapter'[p] = [adapter[p] EXCEPT !.reading = data]
    BY <1>1, <2>1
  <2>3. /\ adapter'[p] \in OpenAdapters /\ adapter'[p].state = "open"
        /\ adapter'[p].reading = data /\ adapter'[p].list = Unread
    BY <1>1, <2>1, <2>2 DEF OpenAdapters
  <2> QED BY <1>1, <2>1, <2>2, <2>3
<1>4. \A q \in Procs : adapter'[q].state = adapter[q].state
  BY <1>1, <1>3 DEF IsOpen
<1>5. FeedsTypeOK'
  BY <1>1, <1>2, <1>3, <1>4, Types, IsTyped
<1>6. SubsInv'
  BY <1>1, <1>2, <1>4, SubsStay
<1>7. CurrentInv'
  <2>1. ASSUME NEW q \in Procs, adapter'[q].state = "open", q \notin spoiled' \union cut'
        PROVE  \/ IsOpen(q) /\ q \notin spoiled \union cut /\ SameFor(q)
               \/ CurrentOf(q)'
    <3>1. CASE q # p
      BY <2>1, <3>1, <1>1, <1>2, <1>3 DEF SameFor, SameDiffs, JobFor, IsOpen
    <3>2. CASE q = p
      <4>1. ~Awaits(p)
        BY <2>1, <3>2, <1>1, ProcNames
      <4>2. ~Awaits(p)' /\ data' = data
        BY <4>1, <1>1 DEF Awaits
      <4>3. UniqueKeys(data)
        BY DEF CurrentInv
      <4>4. UniqueKeys(data)'
        BY <4>3, <1>1 DEF UniqueKeys
      <4>5. Follows(p, data)'
        BY <4>2, <4>4 DEF Follows
      <4>6. adapter'[p].list = Unread /\ adapter'[p].reading = data'
        BY <1>3, <4>2
      <4> QED BY <3>2, <4>5, <4>6 DEF CurrentOf
    <3> QED BY <3>1, <3>2
  <2> QED BY <2>1, <1>1, <1>2, AllCurrent
<1>8. LateInv'
  <2>1. ASSUME NEW q \in Procs, adapter'[q].state = "open", q \notin spoiled' \union cut', Late'
        PROVE  Late /\ IsOpen(q) /\ q \notin spoiled \union cut /\ adapter'[q] = adapter[q]
    <3>1. Late /\ job["ui"] # Nothing /\ ~job["ui"].sending /\ "ui" \in Writers
      BY <2>1, <1>1, <1>2, LateSame, ProcNames DEF Late
    <3>2. Awaits(p)
      BY <3>1 DEF Awaits
    <3>3. q # p
      BY <2>1, <3>2, <1>1
    <3> QED BY <2>1, <3>1, <3>3, <1>1, <1>2, <1>3 DEF IsOpen
  <2> QED BY <2>1, LateStays
<1> QED BY <1>1, <1>5, <1>6, <1>7, <1>8, JobsStay

\* A list that is stored was read after the subscription, so it misses no diff that was not marked.
LEMMA StoreListStep ==
    ASSUME FeedsInv, NEW p \in Procs, StoreList(p)
    PROVE  FeedsInv'
<1> USE DEF FeedsInv
<1> DEFINE list == adapter[p].reading
           old  == Populated(adapter[p], list)
<1>1. /\ IsOpen(p) /\ list # Unread
      /\ adapter' = [adapter EXCEPT ![p] = [Populated(@, @.reading) EXCEPT !.reading = Unread]]
      /\ UNCHANGED <<data, ops, alive, job, ownDiff, spoiled, feedVars>>
  BY DEF StoreList
<1>2. UNCHANGED <<mapFeed, made, subs, served, found, unsub, cut>>
  BY <1>1 DEF feedVars
<1>3. adapter[p] \in OpenAdapters /\ list \in Lists
      /\ adapter \in [Procs -> ClosedAdapters \union OpenAdapters]
  BY <1>1, AdapterTypes, Types
<1>4. old \in OpenAdapters /\ old.list = list /\ (UniqueKeys(list) => Indexed(old))
  <2>1. PICK a \in OpenAdapters, l \in Lists : a = adapter[p] /\ l = list
    BY <1>3
  <2>2. /\ Populated(a, l) \in OpenAdapters /\ Populated(a, l).list = l
        /\ UniqueKeys(l) => Indexed(Populated(a, l))
    BY PopulatedType
  <2> QED BY <2>1, <2>2
<1>5. adapter'[p] = [old EXCEPT !.reading = Unread] /\ \A q \in Procs \ {p} : adapter'[q] = adapter[q]
  BY <1>1, <1>3
<1> HIDE DEF old
<1>6. /\ adapter'[p] \in OpenAdapters /\ adapter'[p].state = "open"
      /\ adapter'[p].reading = Unread /\ adapter'[p].list = list
      /\ adapter'[p].index = old.index /\ adapter'[p].shifted = old.shifted
  BY <1>4, <1>5 DEF OpenAdapters
<1>7. \A q \in Procs : adapter'[q].state = adapter[q].state
  BY <1>1, <1>5, <1>6 DEF IsOpen
<1>8. adapter' \in [Procs -> ClosedAdapters \union OpenAdapters]
  BY <1>1, <1>3, <1>5, <1>6
<1>9. FeedsTypeOK'
  BY <1>1, <1>2, <1>7, <1>8, Types, IsTyped
<1>10. SubsInv'
  BY <1>1, <1>2, <1>7, SubsStay
<1>11. CurrentInv'
  <2>1. ASSUME NEW q \in Procs, adapter'[q].state = "open", q \notin spoiled' \union cut'
        PROVE  \/ IsOpen(q) /\ q \notin spoiled \union cut /\ SameFor(q)
               \/ CurrentOf(q)'
    <3>1. CASE q # p
      BY <2>1, <3>1, <1>1, <1>2, <1>5 DEF SameFor, SameDiffs, JobFor, IsOpen
    <3>2. CASE q = p
      <4>1. CurrentOf(p)
        BY <2>1, <3>2, <1>1, <1>2 DEF CurrentInv, OpenProcs
      <4>2. Follows(p, list)
        BY <4>1, <1>1 DEF CurrentOf
      <4>3. SameDiffs(p)
        BY <1>1 DEF SameDiffs, JobFor
      <4>4. PICK l : l = list
        OBVIOUS
      <4>5. Follows(p, l)'
        BY <4>2, <4>3, <4>4, <1>1, FollowsStays
      <4>6. Indexed(adapter'[p])
        BY <4>2, <1>4, <1>6 DEF Follows, Indexed
      <4> HIDE DEF list
      <4> QED BY <3>2, <4>4, <4>5, <4>6, <1>6 DEF CurrentOf, Indexed
    <3> QED BY <3>1, <3>2
  <2> QED BY <2>1, <1>1, <1>2, AllCurrent
<1>12. LateInv'
  <2>1. ASSUME NEW q \in Procs, adapter'[q].state = "open", q \notin spoiled' \union cut', Late'
        PROVE  Late /\ IsOpen(q) /\ q \notin spoiled \union cut /\ adapter'[q] = adapter[q]
    <3>1. Late /\ q \in OpenProcs \ (spoiled \union cut)
      BY <2>1, <1>1, <1>2, <1>7, LateSame DEF OpenProcs, IsOpen
    <3>2. q # p
      BY <3>1, <1>1 DEF LateInv
    <3> QED BY <3>1, <3>2, <1>5 DEF OpenProcs
  <2> QED BY <2>1, LateStays
<1> QED BY <1>1, <1>9, <1>10, <1>11, <1>12, JobsStay

\* Dropping a subscriber leaves the others.
LEMMA DroppedType ==
    ASSUME FeedsTypeOK, NEW feed \in Feeds, NEW p, Dropped(feed, p)
    PROVE  /\ subs' \in [Feeds -> SUBSET Procs] /\ mapFeed' \in Feeds \union {NoFeed}
           /\ \A f \in Feeds, q \in Procs : q # p /\ q \in subs[f] => q \in subs'[f]
<1>1. subs \in [Feeds -> SUBSET Procs] /\ mapFeed \in Feeds \union {NoFeed}
  BY Types
<1> QED BY <1>1 DEF Dropped, CloseIfUnused

\* The adapter of Home is dropped with its subscription.
LEMMA CloseHomeStep ==
    ASSUME FeedsInv, CloseHome
    PROVE  FeedsInv'
<1> USE DEF FeedsInv
<1>1. /\ IsOpen(Home)
      /\ adapter' = [adapter EXCEPT ![Home] = NoAdapter]
      /\ UNCHANGED <<data, ops, made, served, found, unsub, alive, job, ownDiff, spoiled>>
  BY DEF CloseHome
<1>2. PICK feed \in Feeds :
        /\ Home \in subs[feed] /\ Dropped(feed, Home)
        /\ cut' = cut \union Bereft(feed, subs[feed] \ {Home})
  BY DEF CloseHome
<1>3. /\ subs' \in [Feeds -> SUBSET Procs] /\ mapFeed' \in Feeds \union {NoFeed}
      /\ \A f \in Feeds, q \in Procs : q # Home /\ q \in subs[f] => q \in subs'[f]
  <2>1. PICK h : h = Home
    OBVIOUS
  <2> QED BY <1>2, <2>1, DroppedType
<1>4. /\ \A q \in Procs \ {Home} : adapter'[q] = adapter[q]
      /\ adapter'[Home].state = "none"
      /\ adapter' \in [Procs -> ClosedAdapters \union OpenAdapters]
  BY <1>1, Types, ProcNames
<1>5. FeedsTypeOK'
  <2>1. cut' \subseteq Procs
    BY <1>2, Types, LinkedMapped DEF Bereft
  <2> QED BY <2>1, <1>1, <1>3, <1>4, Types, IsTyped
<1>6. OpenProcs' = OpenProcs \ {Home} /\ \A q \in Procs \ {Home} : IsOpen(q)' <=> IsOpen(q)
  BY <1>4 DEF OpenProcs, IsOpen
<1>9. \A q \in (OpenProcs \ cut) \ {Home} : q \notin cut' =>
            mapFeed' = mapFeed /\ mapFeed # NoFeed /\ q \in subs[mapFeed]
  <2>1. CloseIfUnused(feed, subs[feed] \ {Home}) /\ Bereft(feed, subs[feed] \ {Home}) \subseteq cut'
    BY <1>2 DEF Dropped
  <2>2. PICK h : h = Home
    OBVIOUS
  <2> QED BY <2>1, <2>2, OthersStay
<1>7. SubsInv'
  <2>1. \A r \in Remotes : adapter'[r].state # "none" \/ unsub'[r] # "no" \/ ownDiff'[r] # Nothing => r \in alive'
    BY <1>1, <1>4, ProcNames DEF SubsInv
  <2>2. ASSUME NEW r \in alive', served'[r] # NoFeed
        PROVE  r \in subs'[served'[r]] /\ (IsOpen(r)' \/ unsub'[r] # "no")
    <3>1. r \in alive /\ r \in Procs \ {Home} /\ served[r] \in Feeds /\ served'[r] = served[r]
      BY <2>2, <1>1, Types, ProcNames
    <3> QED BY <3>1, <2>2, <1>1, <1>3, <1>6 DEF SubsInv
  <2>3. ASSUME NEW q \in OpenProcs' \ cut' PROVE mapFeed' # NoFeed /\ q \in subs'[mapFeed']
    <3>1. q \in (OpenProcs \ cut) \ {Home} /\ q \in Procs
      BY <2>3, <1>2, <1>6 DEF OpenProcs
    <3>2. mapFeed' = mapFeed /\ mapFeed # NoFeed /\ q \in subs[mapFeed]
      BY <2>3, <3>1, <1>9
    <3> QED BY <3>1, <3>2, <1>3, Types
  <2> QED BY <2>1, <2>2, <2>3 DEF SubsInv
<1>8. CurrentInv' /\ LateInv'
  <2>1. ASSUME NEW q \in Procs, adapter'[q].state = "open", q \notin spoiled' \union cut'
        PROVE  IsOpen(q) /\ q \notin spoiled \union cut /\ SameFor(q) /\ (Late' => Late)
    <3>1. q # Home
      BY <2>1, <1>4
    <3>2. IsOpen(q) /\ q \notin spoiled \union cut /\ SameFor(q)
      BY <2>1, <3>1, <1>1, <1>2, <1>4 DEF SameFor, SameDiffs, JobFor, IsOpen
    <3>3. mapFeed' = mapFeed
      BY <2>1, <3>1, <3>2, <1>9 DEF OpenProcs
    <3> QED BY <3>2, <3>3, <1>1, LateSame
  <2> QED BY <2>1, <1>1, AllCurrent, LateStays DEF SameFor
<1> QED BY <1>1, <1>5, <1>7, <1>8, JobsStay

\* A process that does not show the list any more: nothing about the others changes.
LEMMA ClosedIsCurrent ==
    ASSUME CurrentInv, LateInv, UNCHANGED <<data, mapFeed, job, spoiled, cut>>, NEW p,
           adapter'[p].state # "open",
           \A q \in Procs \ {p} : adapter'[q] = adapter[q],
           \A r \in Remotes \ {p} : ownDiff'[r] = ownDiff[r]
    PROVE  CurrentInv' /\ LateInv'
<1>1. ASSUME NEW q \in Procs, adapter'[q].state = "open", q \notin spoiled' \union cut'
      PROVE  IsOpen(q) /\ q \notin spoiled \union cut /\ SameFor(q)
  <2>1. q # p
    BY <1>1
  <2> QED BY <1>1, <2>1 DEF SameFor, SameDiffs, JobFor, IsOpen
<1>2. Late' => Late
  BY LateSame
<1> QED BY <1>1, <1>2, AllCurrent, LateStays DEF SameFor

\* A remote adapter goes before its subscription does.
LEMMA CloseRemoteStep ==
    ASSUME FeedsInv, NEW r \in Remotes, CloseRemote(r)
    PROVE  FeedsInv'
<1> USE DEF FeedsInv
<1>1. /\ IsOpen(r)
      /\ adapter' = [adapter EXCEPT ![r] = NoAdapter]
      /\ UNCHANGED <<data, ops, mapFeed, made, subs, served, found, alive, job, ownDiff, spoiled, cut>>
  BY DEF CloseRemote
<1>2. PICK thread \in {"ui", "rpc"} : unsub' = [unsub EXCEPT ![r] = thread]
  BY DEF CloseRemote
<1>3. /\ \A q \in Procs \ {r} : adapter'[q] = adapter[q]
      /\ adapter'[r].state = "none"
      /\ adapter' \in [Procs -> ClosedAdapters \union OpenAdapters]
      /\ unsub'[r] # "no" /\ \A q \in Remotes \ {r} : unsub'[q] = unsub[q]
      /\ unsub' \in [Remotes -> {"no", "ui", "rpc"}]
  BY <1>1, <1>2, Types, ProcNames
<1>4. FeedsTypeOK'
  BY <1>1, <1>3, Types, IsTyped
<1>5. OpenProcs' = OpenProcs \ {r} /\ \A q \in Procs \ {r} : IsOpen(q)' <=> IsOpen(q)
  BY <1>3 DEF OpenProcs, IsOpen
<1>6. SubsInv'
  <2>1. r \in alive
    BY <1>1 DEF SubsInv, IsOpen
  <2>2. \A q \in Remotes : adapter'[q].state # "none" \/ unsub'[q] # "no" \/ ownDiff'[q] # Nothing => q \in alive'
    BY <2>1, <1>1, <1>3, ProcNames DEF SubsInv
  <2>3. \A q \in alive' : served'[q] # NoFeed => q \in subs'[served'[q]] /\ (IsOpen(q)' \/ unsub'[q] # "no")
    BY <1>1, <1>3, <1>5, Types, ProcNames DEF SubsInv
  <2>4. \A q \in OpenProcs' \ cut' : mapFeed' # NoFeed /\ q \in subs'[mapFeed']
    BY <1>1, <1>5 DEF SubsInv
  <2> QED BY <2>2, <2>3, <2>4 DEF SubsInv
<1>7. CurrentInv' /\ LateInv'
  BY <1>1, <1>3, ClosedIsCurrent
<1> QED BY <1>1, <1>4, <1>6, <1>7, JobsStay

\* The unsubscription of a process arrives, also when a newer subscription has come.
LEMMA UnsubscribeStep ==
    ASSUME FeedsInv, NEW r \in Remotes, Unsubscribe(r)
    PROVE  FeedsInv'
<1> USE DEF FeedsInv
<1>1. /\ unsub[r] # "no"
      /\ unsub' = [unsub EXCEPT ![r] = "no"]
      /\ served' = [served EXCEPT ![r] = NoFeed]
      /\ served[r] # NoFeed =>
            /\ Dropped(served[r], r)
            /\ cut' = cut \union Bereft(served[r], subs[served[r]] \ {r})
                            \union (IF IsOpen(r) THEN {r} ELSE {})
      /\ served[r] = NoFeed => UNCHANGED <<subs, mapFeed, cut>>
      /\ UNCHANGED <<data, ops, made, adapter, found, alive, job, ownDiff, spoiled>>
  BY DEF Unsubscribe
<1>2. /\ unsub' \in [Remotes -> {"no", "ui", "rpc"}] /\ served' \in [Remotes -> Feeds \union {NoFeed}]
      /\ unsub'[r] = "no" /\ \A q \in Remotes \ {r} : unsub'[q] = unsub[q]
      /\ served'[r] = NoFeed /\ \A q \in Remotes \ {r} : served'[q] = served[q]
      /\ served[r] \in Feeds \union {NoFeed}
  BY <1>1, Types
<1>3. /\ subs' \in [Feeds -> SUBSET Procs] /\ mapFeed' \in Feeds \union {NoFeed}
      /\ \A f \in Feeds, q \in Procs : q # r /\ q \in subs[f] => q \in subs'[f]
  <2>1. CASE served[r] = NoFeed
    BY <2>1, <1>1, Types
  <2>2. CASE served[r] # NoFeed
    <3>1. PICK feed \in Feeds : feed = served[r]
      BY <2>2, <1>2
    <3>2. Dropped(feed, r)
      BY <3>1, <2>2, <1>1
    <3> QED BY <3>2, DroppedType
  <2> QED BY <2>1, <2>2
<1>4. cut' \subseteq Procs /\ cut \subseteq cut'
  BY <1>1, Types, ProcNames, LinkedMapped DEF Bereft
<1>5. FeedsTypeOK'
  BY <1>1, <1>2, <1>3, <1>4, Types, IsTyped
<1>6. OpenProcs' = OpenProcs /\ \A q \in Procs : IsOpen(q)' <=> IsOpen(q)
  BY <1>1 DEF OpenProcs, IsOpen
<1>7. ASSUME NEW q \in OpenProcs, q \notin cut'
      PROVE  mapFeed' = mapFeed /\ mapFeed # NoFeed /\ q \in subs'[mapFeed]
  <2>1. q \in OpenProcs \ cut /\ mapFeed # NoFeed /\ q \in subs[mapFeed]
    BY <1>4, <1>7 DEF SubsInv
  <2>2. CASE served[r] = NoFeed
    BY <2>1, <2>2, <1>1
  <2>3. CASE served[r] # NoFeed
    <3>1. PICK feed \in Feeds : feed = served[r]
      BY <2>3, <1>2
    <3>2. CloseIfUnused(feed, subs[feed] \ {r}) /\ Bereft(feed, subs[feed] \ {r}) \subseteq cut'
      BY <3>1, <2>3, <1>1 DEF Dropped
    <3>3. q # r
      BY <2>1, <2>3, <1>1, <1>7 DEF OpenProcs
    <3>4. mapFeed' = mapFeed
      BY <2>1, <3>2, <3>3, <1>7, OthersStay
    <3> QED BY <2>1, <3>3, <3>4, <1>3, Types DEF OpenProcs
  <2> QED BY <2>2, <2>3
<1>8. SubsInv'
  <2>1. r \in alive
    BY <1>1 DEF SubsInv
  <2>2. \A q \in Remotes : adapter'[q].state # "none" \/ unsub'[q] # "no" \/ ownDiff'[q] # Nothing => q \in alive'
    BY <1>1, <1>2 DEF SubsInv
  <2>3. ASSUME NEW q \in alive', served'[q] # NoFeed
        PROVE  q \in subs'[served'[q]] /\ (IsOpen(q)' \/ unsub'[q] # "no")
    <3>1. q \in alive /\ q \in Remotes /\ q \in Procs /\ q # r
      BY <2>3, <1>1, <1>2, Types, ProcNames
    <3>2. served[q] \in Feeds /\ served'[q] = served[q] /\ unsub'[q] = unsub[q]
      BY <3>1, <2>3, <1>2, Types
    <3>3. q \in subs[served[q]] /\ (IsOpen(q) \/ unsub[q] # "no")
      BY <3>1, <3>2, <2>3 DEF SubsInv
    <3> QED BY <3>1, <3>2, <3>3, <1>3, <1>6
  <2>4. \A q \in OpenProcs' \ cut' : mapFeed' # NoFeed /\ q \in subs'[mapFeed']
    BY <1>6, <1>7
  <2> QED BY <2>2, <2>3, <2>4 DEF SubsInv
<1>9. CurrentInv' /\ LateInv'
  <2>1. ASSUME NEW q \in Procs, adapter'[q].state = "open", q \notin spoiled' \union cut'
        PROVE  IsOpen(q) /\ q \notin spoiled \union cut /\ SameFor(q) /\ (Late' => Late)
    <3>1. IsOpen(q) /\ q \notin spoiled \union cut /\ SameFor(q)
      BY <2>1, <1>1, <1>4 DEF SameFor, SameDiffs, JobFor, IsOpen
    <3>2. mapFeed' = mapFeed
      BY <2>1, <3>1, <1>7 DEF OpenProcs
    <3> QED BY <3>1, <3>2, <1>1, LateSame
  <2> QED BY <2>1, <1>1, AllCurrent, LateStays DEF SameFor
<1> QED BY <1>1, <1>5, <1>8, <1>9, JobsStay

\* A remote process dies: what it showed is gone.
LEMMA DieStep ==
    ASSUME FeedsInv, NEW r \in Remotes, Die(r)
    PROVE  FeedsInv'
<1> USE DEF FeedsInv
<1>1. /\ r \in alive /\ alive' = alive \ {r}
      /\ adapter' = [adapter EXCEPT ![r] = NoAdapter]
      /\ found' = [found EXCEPT ![r] = NoFeed]
      /\ unsub' = [unsub EXCEPT ![r] = "no"]
      /\ ownDiff' = [ownDiff EXCEPT ![r] = Nothing]
      /\ UNCHANGED <<data, ops, mapFeed, made, subs, served, job, spoiled, cut>>
  BY DEF Die
<1>2. /\ \A q \in Procs \ {r} : adapter'[q] = adapter[q] /\ found'[q] = found[q]
      /\ adapter'[r].state = "none"
      /\ adapter' \in [Procs -> ClosedAdapters \union OpenAdapters]
      /\ found' \in [Procs -> Feeds \union {NoFeed, Missed}]
  BY <1>1, Types, ProcNames
<1>3. /\ unsub'[r] = "no" /\ \A q \in Remotes \ {r} : unsub'[q] = unsub[q]
      /\ unsub' \in [Remotes -> {"no", "ui", "rpc"}]
      /\ ownDiff'[r] = Nothing /\ \A q \in Remotes \ {r} : ownDiff'[q] = ownDiff[q]
      /\ ownDiff' \in [Remotes -> {Nothing} \union Diff]
  BY <1>1, Types
<1>4. FeedsTypeOK'
  <2>1. \A q \in Procs : adapter'[q].state = "opening" => found'[q] # NoFeed
    BY <1>2, Types
  <2> QED BY <2>1, <1>1, <1>2, <1>3, Types, IsTyped
<1>5. OpenProcs' = OpenProcs \ {r} /\ \A q \in Procs \ {r} : IsOpen(q)' <=> IsOpen(q)
  BY <1>2 DEF OpenProcs, IsOpen
<1>6. SubsInv'
  <2>1. \A q \in Remotes : adapter'[q].state # "none" \/ unsub'[q] # "no" \/ ownDiff'[q] # Nothing => q \in alive'
    BY <1>1, <1>2, <1>3, ProcNames DEF SubsInv
  <2>2. \A q \in alive' : served'[q] # NoFeed => q \in subs'[served'[q]] /\ (IsOpen(q)' \/ unsub'[q] # "no")
    BY <1>1, <1>3, <1>5, Types, ProcNames DEF SubsInv
  <2>3. \A q \in OpenProcs' \ cut' : mapFeed' # NoFeed /\ q \in subs'[mapFeed']
    BY <1>1, <1>5 DEF SubsInv
  <2> QED BY <2>1, <2>2, <2>3 DEF SubsInv
<1>7. CurrentInv' /\ LateInv'
  BY <1>1, <1>2, <1>3, ClosedIsCurrent
<1> QED BY <1>1, <1>4, <1>6, <1>7, JobsStay

-----------------------------------------------------------------------------
(* Sending *)

\* What a writer has under way.
LEMMA JobTypes ==
    ASSUME FeedsTypeOK, NEW w \in Writers, job[w] # Nothing
    PROVE  /\ job[w] \in Sendings /\ job[w].diff \in Diff
           /\ job[w].feed \in Feeds \union {NoFeed, Missed} /\ job[w].left \subseteq Procs
           /\ job[w].sending \in BOOLEAN
<1>1. job[w] \in Sendings
  BY Types
<1> QED BY <1>1 DEF Sendings

\* Nothing is no sending and no diff.
LEMMA IsNoSending == Nothing \notin Sendings /\ Nothing \notin Diff
BY DEF Nothing, Sendings, Diff

\* A sending ends when it is sent to all, so no copy lacks its diff.
LEMMA EndSendStep ==
    ASSUME FeedsInv, NEW w \in Writers, EndSend(w)
    PROVE  FeedsInv'
<1> USE DEF FeedsInv
<1>1. /\ job[w] # Nothing /\ job[w].sending /\ job[w].left = {}
      /\ job' = [job EXCEPT ![w] = Nothing]
      /\ UNCHANGED <<data, ops, adapter, alive, ownDiff, spoiled, feedVars>>
  BY DEF EndSend
<1>2. UNCHANGED <<mapFeed, made, subs, served, found, unsub, cut>>
  BY <1>1 DEF feedVars
<1>3. /\ job' \in [Writers -> {Nothing} \union Sendings]
      /\ job'[w] = Nothing /\ \A u \in Writers \ {w} : job'[u] = job[u]
  BY <1>1, Types
<1>4. FeedsTypeOK'
  BY <1>1, <1>2, <1>3, Types, IsTyped
<1>5. SubsInv'
  BY <1>1, <1>2, SubsStay
<1>6. CurrentInv' /\ LateInv'
  <2>1. \A q : SameFor(q)
    BY <1>1, <1>3 DEF SameFor, SameDiffs, JobFor
  <2>2. ASSUME NEW q \in Procs, adapter'[q].state = "open", q \notin spoiled' \union cut'
        PROVE  IsOpen(q) /\ q \notin spoiled \union cut /\ SameFor(q)
    BY <2>1, <2>2, <1>1, <1>2 DEF IsOpen
  <2>3. Late' => Late
    BY <1>2, <1>3, ProcNames DEF Late
  <2> QED BY <2>2, <2>3, <1>1, <1>2, AllCurrent, LateStays DEF SameFor
<1>7. JobsInv'
  BY <1>3 DEF JobsInv
<1> QED BY <1>4, <1>5, <1>6, <1>7

\* A sending starts with all subscribers that there are.
LEMMA StartSendStep ==
    ASSUME FeedsInv, NEW w \in Writers, StartSend(w)
    PROVE  FeedsInv'
<1> USE DEF FeedsInv
<1> DEFINE feed == job[w].feed
<1>1. /\ job[w] # Nothing /\ feed \in Feeds /\ ~job[w].sending
      /\ job' = [job EXCEPT ![w].sending = TRUE, ![w].left = subs[feed]]
      /\ spoiled' = IF w = "hook" /\ mapFeed # HookFeed THEN spoiled \union OpenProcs ELSE spoiled
      /\ UNCHANGED <<data, ops, adapter, alive, ownDiff, feedVars>>
  BY DEF StartSend
<1>2. UNCHANGED <<mapFeed, made, subs, served, found, unsub, cut>>
  BY <1>1 DEF feedVars
<1>3. /\ job[w] \in Sendings /\ job \in [Writers -> {Nothing} \union Sendings]
      /\ subs \in [Feeds -> SUBSET Procs]
  BY <1>1, JobTypes, Types
<1>4. /\ job'[w] = [job[w] EXCEPT !.sending = TRUE, !.left = subs[feed]]
      /\ \A u \in Writers \ {w} : job'[u] = job[u]
      /\ DOMAIN job' = Writers
  BY <1>1, <1>3
<1>5. /\ job'[w] \in Sendings /\ job'[w] # Nothing /\ job'[w].sending = TRUE
      /\ job'[w].feed = feed /\ job'[w].left = subs[feed] /\ job'[w].diff = job[w].diff
  <2>1. /\ job'[w] \in Sendings /\ job'[w].sending = TRUE
        /\ job'[w].feed = feed /\ job'[w].left = subs[feed] /\ job'[w].diff = job[w].diff
    BY <1>1, <1>3, <1>4 DEF Sendings
  <2> QED BY <2>1, IsNoSending
<1>6. job' \in [Writers -> {Nothing} \union Sendings]
  BY <1>1, <1>3, <1>4, <1>5
<1>7. spoiled' \subseteq Procs
  BY <1>1, Types DEF OpenProcs
<1>8. FeedsTypeOK'
  BY <1>1, <1>2, <1>6, <1>7, Types, IsTyped
<1>9. SubsInv'
  BY <1>1, <1>2, SubsStay
<1>10. CurrentInv'
  <2>1. ASSUME NEW q \in Procs, adapter'[q].state = "open", q \notin spoiled' \union cut'
        PROVE  \/ adapter'[q].list = Unread /\ adapter'[q].reading = Unread
               \/ IsOpen(q) /\ q \notin spoiled \union cut /\ SameFor(q)
    <3>1. IsOpen(q) /\ q \in OpenProcs /\ q \notin spoiled \union cut /\ (w = "hook" => mapFeed = HookFeed)
      BY <2>1, <1>1, <1>2 DEF IsOpen, OpenProcs
    <3>2. mapFeed # NoFeed /\ q \in subs[mapFeed]
      BY <3>1 DEF SubsInv
    <3>3. CASE feed = mapFeed
      <4>1. JobFor(w, q) /\ JobFor(w, q)'
        BY <3>2, <3>3, <1>1, <1>5 DEF JobFor
      <4>2. SameDiffs(q)
        BY <4>1, <1>1, <1>4, <1>5 DEF SameDiffs, JobFor
      <4> QED BY <3>1, <4>2, <1>1 DEF SameFor
    <3>4. CASE feed # mapFeed
      <4>1. w = "ui"
        BY <3>1, <3>4, <1>1 DEF JobsInv, Writers
      <4>2. Late
        BY <4>1, <3>4, <1>1 DEF Late
      <4> QED BY <4>2, <3>1, <1>1 DEF LateInv
    <3> QED BY <3>3, <3>4
  <2> QED BY <2>1, <1>1, AllCurrent
<1>11. LateInv'
  <2>1. Late' => Late
    BY <1>2, <1>4, <1>5, ProcNames DEF Late
  <2>2. ASSUME NEW q \in Procs, adapter'[q].state = "open", q \notin spoiled' \union cut'
        PROVE  IsOpen(q) /\ q \notin spoiled \union cut /\ adapter'[q] = adapter[q]
    BY <2>2, <1>1, <1>2 DEF IsOpen
  <2> QED BY <2>1, <2>2, LateStays
<1>12. JobsInv'
  BY <1>1, <1>4, <1>5 DEF JobsInv
<1> QED BY <1>8, <1>9, <1>10, <1>11, <1>12

\* A command that finds a feed for its diff finds that of the map, or none.
LEMMA FindFeedToSendStep ==
    ASSUME FeedsInv, FindFeedToSend
    PROVE  FeedsInv'
<1> USE DEF FeedsInv
<1>1. /\ job["ui"] # Nothing /\ job["ui"].feed = NoFeed
      /\ job' = [job EXCEPT !["ui"].feed = Lookup]
      /\ UNCHANGED <<data, ops, adapter, alive, ownDiff, spoiled, feedVars>>
  BY DEF FindFeedToSend
<1>2. UNCHANGED <<mapFeed, made, subs, served, found, unsub, cut>>
  BY <1>1 DEF feedVars
<1>3. /\ job["ui"] \in Sendings /\ job \in [Writers -> {Nothing} \union Sendings]
      /\ Lookup \in Feeds \union {Missed} /\ ~job["ui"].sending
      /\ Lookup \notin Feeds \ {mapFeed}
  BY <1>1, JobTypes, Types, ProcNames DEF JobsInv, Lookup
<1>4. /\ job'["ui"] = [job["ui"] EXCEPT !.feed = Lookup]
      /\ \A u \in Writers \ {"ui"} : job'[u] = job[u]
      /\ DOMAIN job' = Writers
  BY <1>1, <1>3, ProcNames
<1>5. /\ job'["ui"] \in Sendings /\ job'["ui"] # Nothing /\ job'["ui"].feed = Lookup
      /\ job'["ui"].sending = job["ui"].sending /\ job'["ui"].left = job["ui"].left
      /\ job'["ui"].diff = job["ui"].diff
  <2>1. /\ job'["ui"] \in Sendings /\ job'["ui"].feed = Lookup
        /\ job'["ui"].sending = job["ui"].sending /\ job'["ui"].left = job["ui"].left
        /\ job'["ui"].diff = job["ui"].diff
    BY <1>3, <1>4 DEF Sendings
  <2> QED BY <2>1, IsNoSending
<1>6. job' \in [Writers -> {Nothing} \union Sendings]
  BY <1>1, <1>3, <1>4, <1>5
<1>7. FeedsTypeOK'
  BY <1>1, <1>2, <1>6, Types, IsTyped
<1>8. SubsInv'
  BY <1>1, <1>2, SubsStay
<1>9. JobsInv'
  BY <1>1, <1>3, <1>4, <1>5 DEF JobsInv
<1>10. CurrentInv' /\ LateInv'
  <2>1. ~Late'
    BY <1>2, <1>3, <1>5 DEF Late
  <2>2. ASSUME NEW q \in Procs, adapter'[q].state = "open", q \notin spoiled' \union cut'
        PROVE  IsOpen(q) /\ q \notin spoiled \union cut /\ SameFor(q)
    BY <2>2, <1>1, <1>2, <1>3, <1>4, <1>5 DEF SameFor, SameDiffs, JobFor, IsOpen
  <2> QED BY <2>1, <2>2, <1>1, AllCurrent, LateStays
<1> QED BY <1>7, <1>8, <1>9, <1>10

\* A command that found no feed makes one and sends to that.
LEMMA MakeFeedToSendStep ==
    ASSUME FeedsInv, MakeFeedToSend
    PROVE  FeedsInv'
<1> USE DEF FeedsInv
<1>1. /\ job["ui"] # Nothing /\ job["ui"].feed = Missed /\ Insert
      /\ job' = [job EXCEPT !["ui"].feed = mapFeed']
      /\ UNCHANGED <<data, ops, subs, served, adapter, found, unsub, alive, ownDiff, spoiled>>
  BY DEF MakeFeedToSend
<1>2. made' \in Feeds /\ mapFeed' = made' /\ cut' \subseteq Procs /\ OpenProcs \subseteq cut'
  BY <1>1, InsertCutsOff
<1>3. /\ job["ui"] \in Sendings /\ job \in [Writers -> {Nothing} \union Sendings]
      /\ ~job["ui"].sending
  BY <1>1, JobTypes, Types, ProcNames DEF JobsInv
<1>4. /\ job'["ui"] = [job["ui"] EXCEPT !.feed = mapFeed']
      /\ \A u \in Writers \ {"ui"} : job'[u] = job[u]
      /\ DOMAIN job' = Writers
  BY <1>1, <1>3, ProcNames
<1>5. /\ job'["ui"] \in Sendings /\ job'["ui"].feed = mapFeed'
      /\ job'["ui"].sending = job["ui"].sending /\ job'["ui"].left = job["ui"].left
  BY <1>2, <1>3, <1>4 DEF Sendings
<1>6. job' \in [Writers -> {Nothing} \union Sendings]
  BY <1>1, <1>3, <1>4, <1>5
<1>7. FeedsTypeOK'
  BY <1>1, <1>2, <1>6, Types, IsTyped
<1>8. OpenProcs' \subseteq cut' /\ \A q \in Procs : IsOpen(q)' <=> IsOpen(q)
  BY <1>1, <1>2 DEF OpenProcs, IsOpen
<1>9. SubsInv'
  <2>1. alive \subseteq Procs
    BY Types, ProcNames
  <2> QED BY <2>1, <1>1, <1>8 DEF SubsInv
<1>10. JobsInv'
  BY <1>1, <1>3, <1>4, <1>5 DEF JobsInv
<1>11. CurrentInv' /\ LateInv'
  <2>1. \A q \in Procs : adapter'[q].state = "open" => q \in cut'
    BY <1>8 DEF OpenProcs, IsOpen
  <2> QED BY <2>1, <1>1, AllCurrent, LateStays
<1> QED BY <1>7, <1>9, <1>10, <1>11

\* A subscriber that is dead is dropped while a diff is sent.
LEMMA DropGoneStep ==
    ASSUME FeedsInv, NEW w \in Writers, NEW r \in Remotes, DropGone(w, r)
    PROVE  FeedsInv'
<1> USE DEF FeedsInv
<1>1. /\ job[w] # Nothing /\ r \in job[w].left \ alive
      /\ subs' = [subs EXCEPT ![job[w].feed] = @ \ {r}]
      /\ job' = [job EXCEPT ![w].left = @ \ {r}]
      /\ UNCHANGED <<data, ops, mapFeed, made, served, adapter, found, unsub, alive, ownDiff, spoiled, cut>>
  BY DEF DropGone
<1>2. /\ job[w] \in Sendings /\ job \in [Writers -> {Nothing} \union Sendings]
      /\ subs \in [Feeds -> SUBSET Procs] /\ job[w].sending = TRUE
  BY <1>1, JobTypes, Types DEF JobsInv
<1>3. /\ job'[w] = [job[w] EXCEPT !.left = @ \ {r}]
      /\ \A u \in Writers \ {w} : job'[u] = job[u]
  BY <1>1, <1>2
<1>4. /\ job'[w] \in Sendings /\ job'[w] # Nothing /\ job'[w].sending = TRUE
      /\ job'[w].feed = job[w].feed /\ job'[w].left = job[w].left \ {r} /\ job'[w].diff = job[w].diff
  <2>1. /\ job'[w] \in Sendings /\ job'[w].sending = TRUE
        /\ job'[w].feed = job[w].feed /\ job'[w].left = job[w].left \ {r} /\ job'[w].diff = job[w].diff
    BY <1>2, <1>3 DEF Sendings
  <2> QED BY <2>1, IsNoSending
<1>5. job' \in [Writers -> {Nothing} \union Sendings]
  BY <1>1, <1>2, <1>3, <1>4
<1>6. /\ subs' \in [Feeds -> SUBSET Procs]
      /\ \A f \in Feeds : subs'[f] \subseteq subs[f] /\ \A q \in Procs \ {r} : q \in subs[f] => q \in subs'[f]
  BY <1>1, <1>2
<1>7. FeedsTypeOK'
  BY <1>1, <1>5, <1>6, Types, IsTyped
<1>8. OpenProcs' = OpenProcs /\ (\A q \in Procs : IsOpen(q)' <=> IsOpen(q)) /\ r \notin OpenProcs
  BY <1>1 DEF OpenProcs, IsOpen, SubsInv
<1>9. SubsInv'
  <2>1. \A q \in Remotes : adapter'[q].state # "none" \/ unsub'[q] # "no" \/ ownDiff'[q] # Nothing => q \in alive'
    BY <1>1 DEF SubsInv
  <2>2. ASSUME NEW q \in alive', served'[q] # NoFeed
        PROVE  q \in subs'[served'[q]] /\ (IsOpen(q)' \/ unsub'[q] # "no")
    <3>1. q \in alive /\ q \in Procs \ {r} /\ served[q] \in Feeds
      BY <2>2, <1>1, Types, ProcNames
    <3> QED BY <3>1, <2>2, <1>1, <1>6, <1>8 DEF SubsInv
  <2>3. ASSUME NEW q \in OpenProcs' \ cut' PROVE mapFeed' # NoFeed /\ q \in subs'[mapFeed']
    <3>1. mapFeed # NoFeed /\ q \in subs[mapFeed]
      BY <2>3, <1>1, <1>8 DEF SubsInv
    <3>2. q \in Procs \ {r}
      BY <2>3, <1>8 DEF OpenProcs
    <3> QED BY <3>1, <3>2, <1>1, <1>6, Types
  <2> QED BY <2>1, <2>2, <2>3 DEF SubsInv
<1>10. CurrentInv' /\ LateInv'
  <2>1. ASSUME NEW q \in Procs, adapter'[q].state = "open", q \notin spoiled' \union cut'
        PROVE  IsOpen(q) /\ q \notin spoiled \union cut /\ SameFor(q)
    <3>1. IsOpen(q) /\ q # r
      BY <2>1, <1>1, <1>8 DEF IsOpen, OpenProcs
    <3> QED BY <2>1, <3>1, <1>1, <1>2, <1>3, <1>4 DEF SameFor, SameDiffs, JobFor
  <2>2. Late' => Late
    BY <1>1, <1>2, <1>3, <1>4, ProcNames DEF Late
  <2> QED BY <2>1, <2>2, <1>1, AllCurrent, LateStays DEF SameFor
<1>11. JobsInv'
  BY <1>1, <1>2, <1>3, <1>4 DEF JobsInv
<1> QED BY <1>7, <1>9, <1>10, <1>11

-----------------------------------------------------------------------------
(* Changes *)

\* The list is changed with no diff under way: who is current is to get this one.
LEMMA ChangeAwaited ==
    ASSUME FeedsTypeOK, UniqueKeys(data), NEW d \in Diff, Fits(data, d), data' = After(data, d),
           ~Overlaps, NEW p \in Procs, CurrentOf(p), adapter' = adapter,
           OneAwaited(p, d)'
    PROVE  CurrentOf(p)'
<1>1. ~Awaits(p)
  BY ProcNames DEF Awaits, Overlaps
<1>2. ASSUME NEW list, Follows(p, list) PROVE Follows(p, list)'
  <2>1. ~\E e \in Diff : OneAwaited(p, e)
    BY <1>1 DEF OneAwaited, Awaits, JobFor, OwnFor
  <2>2. list = data
    BY <1>2, <2>1 DEF Follows
  <2> QED BY <2>2 DEF Follows
<1>3. PICK a : a = adapter[p]
  OBVIOUS
<1>4. Follows(p, a.list) => Follows(p, a.list)'
  <2>1. PICK list : list = a.list
    OBVIOUS
  <2> QED BY <2>1, <1>2
<1>5. Follows(p, a.reading) => Follows(p, a.reading)'
  <2>1. PICK list : list = a.reading
    OBVIOUS
  <2> QED BY <2>1, <1>2
<1> QED BY <1>3, <1>4, <1>5 DEF CurrentOf, Indexed

\* The diffs of the changes that can be made.
LEMMA DiffsFit ==
    ASSUME FeedsTypeOK, NEW p, NEW d \in Diffs(p) \union Replacements
    PROVE  d \in Diff /\ Fits(data, d)
<1>1. /\ data \in Seq(Item) /\ \A i \in DOMAIN data : data[i] \in Item /\ data[i].key \in Keys
  <2>1. data \in Seq(Item)
    BY Types DEF Lists
  <2>2. \A i \in DOMAIN data : data[i] \in Item
    BY <2>1
  <2> QED BY <2>1, <2>2 DEF Item
<1>2. KeysOf(data) \subseteq Keys
  BY <1>1 DEF KeysOf
<1>3. CASE d \in Diffs(p)
  <2>1. PICK kind \in {"append", "remove"}, item \in Item :
            /\ d.kind = kind /\ d.item = item /\ d \in Diff
            /\ kind = "append" => item.key \notin KeysOf(data)
            /\ kind = "remove" => item.key \in KeysOf(data)
    BY <1>2, <1>3 DEF Diffs, Diff, Item
  <2> QED BY <2>1 DEF Fits
<1>4. CASE d \in Replacements
  <2>1. PICK i \in DOMAIN data : d = [kind |-> "replace", item |-> [data[i] EXCEPT !.ver = 1 - @]]
    BY <1>4 DEF Replacements
  <2> DEFINE item == [data[i] EXCEPT !.ver = 1 - @]
  <2>2. item \in Item /\ item.key = data[i].key
    <3>1. PICK was \in Item : was = data[i]
      BY <1>1
    <3>2. was.ver \in {0, 1} /\ 1 - was.ver \in {0, 1}
      BY DEF Item
    <3> QED BY <3>1, <3>2 DEF Item
  <2> HIDE DEF item
  <2>3. d = [kind |-> "replace", item |-> item]
    BY <2>1 DEF item
  <2>4. d \in Diff /\ d.kind = "replace" /\ d.item.key = data[i].key
    BY <2>2, <2>3 DEF Diff
  <2>5. d.item.key \in KeysOf(data)
    BY <2>4 DEF KeysOf
  <2> QED BY <2>4, <2>5 DEF Fits
<1> QED BY <1>3, <1>4

\* A change of the list leaves its diff for whoever showed the list before.
LEMMA ChangedStep ==
    ASSUME FeedsInv, NEW w \in Writers, NEW d \in Diff, Fits(data, d), Changed(w, d)
    PROVE  FeedsInv'
<1> USE DEF FeedsInv
<1> DEFINE new == [diff |-> d, feed |-> IF w = "hook" THEN HookFeed ELSE NoFeed,
                   sending |-> FALSE, left |-> {}]
<1>1. /\ ops < MaxOps /\ ops' = ops + 1
      /\ job[w] = Nothing
      /\ data' = After(data, d)
      /\ job' = [job EXCEPT ![w] = new]
      /\ spoiled' = IF Overlaps THEN spoiled \union OpenProcs ELSE spoiled
      /\ UNCHANGED <<adapter, alive, ownDiff, feedVars>>
  BY DEF Changed, Counted
<1>2. UNCHANGED <<mapFeed, made, subs, served, found, unsub, cut>>
  BY <1>1 DEF feedVars
<1>3. data' \in Lists /\ UniqueKeys(data')
  BY <1>1, Types, AfterUnique DEF CurrentInv
<1>4. /\ new \in Sendings /\ new # Nothing /\ new.diff = d /\ ~new.sending /\ new.left = {}
      /\ new.feed = IF w = "hook" THEN HookFeed ELSE NoFeed
  <2>1. new \in Sendings
    BY ProcNames DEF Sendings
  <2> QED BY <2>1, IsNoSending
<1> HIDE DEF new
<1>5. job' \in [Writers -> {Nothing} \union Sendings]
      /\ job'[w] = new /\ \A u \in Writers \ {w} : job'[u] = job[u]
  BY <1>1, <1>4, Types
<1>6. ops' \in 0..MaxOps /\ spoiled' \subseteq Procs
  <2>1. ops' \in 0..MaxOps
    BY <1>1, Types, FeedsAssumption
  <2>2. spoiled' \subseteq Procs
    BY <1>1, Types DEF OpenProcs
  <2> QED BY <2>1, <2>2
<1>7. FeedsTypeOK'
  BY <1>1, <1>2, <1>3, <1>5, <1>6, Types, IsTyped
<1>8. SubsInv'
  BY <1>1, <1>2, SubsStay
<1>9. CurrentInv'
  <2>1. ASSUME NEW p \in OpenProcs' \ (spoiled' \union cut') PROVE CurrentOf(p)'
    <3>1. p \in OpenProcs /\ p \in Procs
      BY <2>1, <1>1 DEF OpenProcs, IsOpen
    <3>2. ~Overlaps /\ p \notin spoiled \union cut
      BY <3>1, <2>1, <1>1, <1>2
    <3>3. CurrentOf(p)
      BY <3>1, <3>2, <2>1, <1>2 DEF CurrentInv
    <3>4. ~OwnFor(p)' /\ \A u \in Writers \ {w} : ~JobFor(u, p)'
      BY <3>2, <1>1, <1>5 DEF Overlaps, OwnFor, JobFor
    <3>5. JobFor(w, p)' /\ job'[w].diff = d
      BY <1>4, <1>5 DEF JobFor
    <3>6. OneAwaited(p, d)'
      BY <3>4, <3>5 DEF OneAwaited
    <3>7. UniqueKeys(data) /\ adapter' = adapter
      BY <1>1 DEF CurrentInv
    <3> QED BY <3>1, <3>2, <3>3, <3>6, <3>7, <1>1, ChangeAwaited
  <2> QED BY <2>1, <1>3 DEF CurrentInv, UniqueKeys
<1>10. JobsInv'
  BY <1>4, <1>5 DEF JobsInv
<1>11. LateInv'
  <2>1. Late' => Late
    BY <1>2, <1>4, <1>5, ProcNames DEF Late
  <2>2. ASSUME NEW q \in Procs, adapter'[q].state = "open", q \notin spoiled' \union cut'
        PROVE  IsOpen(q) /\ q \notin spoiled \union cut /\ adapter'[q] = adapter[q]
    BY <2>2, <1>1, <1>2 DEF IsOpen
  <2> QED BY <2>1, <2>2, LateStays
<1> QED BY <1>7, <1>8, <1>9, <1>10, <1>11

\* A command of Home, or the hook of the log, changes the list.
LEMMA CommandStep ==
    ASSUME FeedsInv, RunCommand \/ CallHook
    PROVE  FeedsInv'
<1>1. FeedsTypeOK
  BY DEF FeedsInv
<1>2. CASE RunCommand
  <2>1. PICK d \in Diffs(Home) \union Replacements : Changed("ui", d)
    BY <1>2 DEF RunCommand
  <2>2. d \in Diff /\ Fits(data, d)
    <3>1. PICK h : h = Home
      OBVIOUS
    <3> QED BY <3>1, <1>1, DiffsFit
  <2>3. PICK w \in Writers : Changed(w, d)
    BY <2>1 DEF Writers
  <2> QED BY <2>2, <2>3, ChangedStep
<1>3. CASE CallHook
  <2>1. PICK k \in Keys \ KeysOf(data) :
            Changed("hook", [kind |-> "append", item |-> [key |-> k, ver |-> 0]])
    BY <1>3 DEF CallHook
  <2>2. PICK item : item = [key |-> k, ver |-> 0]
    OBVIOUS
  <2>3. item \in Item /\ item.key = k
    BY <2>2 DEF Item
  <2>4. PICK d : d = [kind |-> "append", item |-> item]
    OBVIOUS
  <2>5. d \in Diff /\ d.kind = "append" /\ d.item = item
    BY <2>3, <2>4 DEF Diff
  <2>6. Fits(data, d)
    BY <2>3, <2>5 DEF Fits
  <2>7. PICK w \in Writers : Changed(w, d)
    BY <2>1, <2>2, <2>4 DEF Writers
  <2> QED BY <2>5, <2>6, <2>7, ChangedStep
<1> QED BY <1>2, <1>3

\* A command of a remote process changes the list; its diff goes to that process only.
LEMMA RunRemoteCommandStep ==
    ASSUME FeedsInv, NEW r \in Remotes, RunRemoteCommand(r)
    PROVE  FeedsInv'
<1> USE DEF FeedsInv
<1>1. /\ ops < MaxOps /\ ops' = ops + 1
      /\ Shows(r)
      /\ spoiled' = spoiled \union (IF Overlaps THEN OpenProcs ELSE OpenProcs \ {r})
      /\ UNCHANGED <<adapter, alive, job, feedVars>>
  BY DEF RunRemoteCommand, Counted
<1>2. UNCHANGED <<mapFeed, made, subs, served, found, unsub, cut>>
  BY <1>1 DEF feedVars
<1>3. PICK d \in Diffs(r) : data' = After(data, d) /\ ownDiff' = [ownDiff EXCEPT ![r] = d]
  BY DEF RunRemoteCommand
<1>4. d \in Diff /\ Fits(data, d) /\ d # Nothing
  BY DiffsFit, IsNoSending
<1>5. data' \in Lists /\ UniqueKeys(data')
  BY <1>3, <1>4, Types, AfterUnique DEF CurrentInv
<1>6. /\ ownDiff' \in [Remotes -> {Nothing} \union Diff]
      /\ ownDiff'[r] = d /\ \A q \in Remotes \ {r} : ownDiff'[q] = ownDiff[q]
  BY <1>3, <1>4, Types
<1>7. ops' \in 0..MaxOps /\ spoiled' \subseteq Procs
  <2>1. ops' \in 0..MaxOps
    BY <1>1, Types, FeedsAssumption
  <2>2. spoiled' \subseteq Procs
    BY <1>1, Types DEF OpenProcs
  <2> QED BY <2>1, <2>2
<1>8. FeedsTypeOK'
  BY <1>1, <1>2, <1>5, <1>6, <1>7, Types, IsTyped
<1>9. SubsInv'
  <2>1. \A q \in Remotes : ownDiff'[q] # Nothing => ownDiff[q] # Nothing \/ IsOpen(q)
    BY <1>1, <1>6 DEF Shows
  <2> QED BY <2>1, <1>1, <1>2, SubsStay
<1>10. CurrentInv'
  <2>1. ASSUME NEW p \in OpenProcs' \ (spoiled' \union cut') PROVE CurrentOf(p)'
    <3>1. p \in OpenProcs /\ p \in Procs
      BY <2>1, <1>1 DEF OpenProcs, IsOpen
    <3>2. ~Overlaps /\ p = r /\ p \notin spoiled \union cut
      BY <3>1, <2>1, <1>1, <1>2
    <3>3. CurrentOf(p)
      BY <3>1, <3>2, <2>1, <1>2 DEF CurrentInv
    <3>4. OwnFor(p)' /\ ownDiff'[p] = d /\ \A w \in Writers : ~JobFor(w, p)'
      BY <3>2, <1>1, <1>4, <1>6 DEF Overlaps, OwnFor, JobFor
    <3>5. OneAwaited(p, d)'
      BY <3>4 DEF OneAwaited
    <3>6. UniqueKeys(data) /\ adapter' = adapter
      BY <1>1 DEF CurrentInv
    <3> QED BY <3>1, <3>2, <3>3, <3>5, <3>6, <1>3, <1>4, ChangeAwaited
  <2> QED BY <2>1, <1>5 DEF CurrentInv, UniqueKeys
<1>11. LateInv'
  <2>1. Late' => Late
    BY <1>1, <1>2, LateSame
  <2>2. ASSUME NEW q \in Procs, adapter'[q].state = "open", q \notin spoiled' \union cut'
        PROVE  IsOpen(q) /\ q \notin spoiled \union cut /\ adapter'[q] = adapter[q]
    BY <2>2, <1>1, <1>2 DEF IsOpen
  <2> QED BY <2>1, <2>2, LateStays
<1> QED BY <1>1, <1>8, <1>9, <1>10, <1>11, JobsStay

-----------------------------------------------------------------------------
(* Taking diffs *)

\* The adapter that a diff is applied to.
LEMMA ReadyType ==
    ASSUME FeedsTypeOK, NEW p \in Procs, IsOpen(p)
    PROVE  Prepared(p) \in OpenAdapters /\ Prepared(p).list \in Lists
<1>1. adapter[p] \in OpenAdapters /\ data \in Lists
  BY AdapterTypes, Types
<1>2. CASE adapter[p].list = Unread
  <2>1. PICK a \in OpenAdapters, list \in Lists : a = adapter[p] /\ list = data
    BY <1>1
  <2>2. Populated(a, list) \in OpenAdapters /\ Populated(a, list).list = list
    BY PopulatedType
  <2> QED BY <2>1, <2>2, <1>2 DEF Prepared
<1>3. CASE adapter[p].list # Unread
  BY <1>1, <1>3 DEF Prepared, OpenAdapters
<1> QED BY <1>2, <1>3

\* Taking a diff or failing to is about one adapter, which stays open.
LEMMA DiffTaken ==
    ASSUME FeedsTypeOK, NEW p \in Procs, NEW d \in Diff, Takes(p, d) \/ Raises(p, d)
    PROVE  /\ adapter' \in [Procs -> ClosedAdapters \union OpenAdapters]
           /\ IsOpen(p) /\ \A q \in Procs \ {p} : adapter'[q] = adapter[q]
           /\ \A q \in Procs : adapter'[q].state = adapter[q].state
<1>1. IsOpen(p)
  BY DEF Takes, Raises
<1>2. PICK a \in OpenAdapters : a = Prepared(p) /\ a.list \in Lists
  BY <1>1, ReadyType
<1>3. PICK b \in OpenAdapters : adapter' = [adapter EXCEPT ![p] = b]
  <2>1. CASE Takes(p, d)
    <3>1. CanApply(a, d) /\ adapter' = [adapter EXCEPT ![p] = Applied(a, d)]
      BY <2>1, <1>2 DEF Takes
    <3>2. Applied(a, d) \in OpenAdapters
      BY <3>1, <1>2, AppliedType
    <3> QED BY <3>1, <3>2
  <2>2. CASE Raises(p, d)
    BY <2>2, <1>2 DEF Raises
  <2> QED BY <2>1, <2>2
<1>4. b.state = "open" /\ adapter[p].state = "open"
  BY <1>1 DEF OpenAdapters, IsOpen
<1> QED BY <1>1, <1>3, <1>4, Types

\* Who is current and gets the one diff it was to get, with nothing that spoils it, has
\* the list of Home then.
LEMMA TakenRight ==
    ASSUME FeedsTypeOK, UniqueKeys(data), NEW p \in Procs, NEW d \in Diff,
           Takes(p, d) \/ Raises(p, d), ~Spoils(p, d), CurrentOf(p),
           \A e \in Diff : OneAwaited(p, e) => e = d,
           Awaits(p), ~Awaits(p)', data' = data
    PROVE  CurrentOf(p)' /\ ~Raises(p, d)
<1>1. PICK a \in OpenAdapters : a = adapter[p] /\ IsOpen(p)
  BY AdapterTypes DEF Takes, Raises
<1>2. /\ a.list # Unread /\ a.reading = Unread /\ (d.kind = "append" \/ ~a.shifted)
      /\ a.list \in Lists
  BY <1>1, AdapterTypes DEF Spoils
<1>3. Follows(p, a.list) /\ Indexed(a)
  BY <1>1, <1>2 DEF CurrentOf
<1>4. UniqueKeys(a.list) /\ Fits(a.list, d) /\ data = After(a.list, d)
  BY <1>3 DEF Follows
<1>5. /\ CanApply(a, d)
      /\ Applied(a, d).list = After(a.list, d) /\ Applied(a, d).reading = a.reading
      /\ Indexed(Applied(a, d))
  BY <1>2, <1>3, <1>4, AppliedRight
<1>6. Prepared(p) = a
  BY <1>1, <1>2 DEF Prepared
<1>7. ~Raises(p, d) /\ adapter' = [adapter EXCEPT ![p] = Applied(a, d)]
  BY <1>5, <1>6 DEF Raises, Takes
<1>8. PICK b : b = Applied(a, d)
  OBVIOUS
<1>9. adapter'[p] = b /\ b.list = data /\ b.reading = Unread /\ Indexed(b)
  BY <1>2, <1>4, <1>5, <1>7, <1>8, Types
<1>10. Follows(p, data)'
  <2>1. UniqueKeys(data)'
    BY DEF UniqueKeys
  <2> QED BY <2>1 DEF Follows
<1>11. (adapter[p].list = data)' /\ (adapter[p].reading = Unread)' /\ Indexed(adapter[p])'
  BY <1>9 DEF Indexed
<1> QED BY <1>7, <1>10, <1>11 DEF CurrentOf

\* The process takes the diff of its own command.
LEMMA TakeOwnDiffStep ==
    ASSUME FeedsInv, NEW r \in Remotes, TakeOwnDiff(r)
    PROVE  FeedsInv'
<1> USE DEF FeedsInv
<1>1. /\ ownDiff[r] # Nothing
      /\ ownDiff' = [ownDiff EXCEPT ![r] = Nothing]
      /\ spoiled' = IF Spoils(r, ownDiff[r]) THEN spoiled \union {r} ELSE spoiled
      /\ UNCHANGED <<data, ops, alive, job, feedVars>>
  BY DEF TakeOwnDiff
<1>2. UNCHANGED <<mapFeed, made, subs, served, found, unsub, cut>>
  BY <1>1 DEF feedVars
<1>3. PICK d \in Diff : d = ownDiff[r] /\ (Takes(r, d) \/ Raises(r, d))
  BY <1>1, Types DEF TakeOwnDiff
<1>4. r \in Procs
  BY ProcNames
<1>5. /\ adapter' \in [Procs -> ClosedAdapters \union OpenAdapters]
      /\ \A q \in Procs \ {r} : adapter'[q] = adapter[q]
      /\ \A q \in Procs : adapter'[q].state = adapter[q].state
  BY <1>3, <1>4, DiffTaken
<1>6. /\ ownDiff' \in [Remotes -> {Nothing} \union Diff]
      /\ ownDiff'[r] = Nothing /\ \A q \in Remotes \ {r} : ownDiff'[q] = ownDiff[q]
  BY <1>1, Types
<1>7. spoiled' \subseteq Procs
  BY <1>1, <1>4, Types
<1>8. FeedsTypeOK'
  BY <1>1, <1>2, <1>5, <1>6, <1>7, Types, IsTyped
<1>9. SubsInv'
  BY <1>1, <1>2, <1>5, <1>6, SubsStay
<1>10. CurrentInv'
  <2>1. ASSUME NEW q \in Procs, adapter'[q].state = "open", q \notin spoiled' \union cut'
        PROVE  \/ IsOpen(q) /\ q \notin spoiled \union cut /\ SameFor(q)
               \/ CurrentOf(q)'
    <3>1. IsOpen(q) /\ q \notin spoiled \union cut
      BY <2>1, <1>1, <1>2, <1>5 DEF IsOpen
    <3>2. CASE q # r
      BY <3>1, <3>2, <1>1, <1>5, <1>6 DEF SameFor, SameDiffs, JobFor
    <3>3. CASE q = r
      <4>1. ~Spoils(r, d)
        BY <2>1, <3>3, <1>1, <1>3
      <4>2. CurrentOf(r) /\ UniqueKeys(data)
        BY <2>1, <3>1, <3>3, <1>2 DEF CurrentInv, OpenProcs
      <4>3. OwnFor(r) /\ Awaits(r)
        BY <1>1 DEF OwnFor, Awaits
      <4>4. \A e \in Diff : OneAwaited(r, e) => e = d /\ \A w \in Writers : ~JobFor(w, r)
        BY <4>3, <1>3 DEF OneAwaited
      <4>5. \E e \in Diff : OneAwaited(r, e)
        <5>1. adapter[r].list # Unread
          BY <4>1 DEF Spoils
        <5>2. Follows(r, adapter[r].list)
          BY <4>2, <5>1 DEF CurrentOf
        <5> QED BY <4>3, <5>2 DEF Follows
      <4>6. ~Awaits(r)'
        <5>1. \A w \in Writers : ~JobFor(w, r)
          BY <4>4, <4>5
        <5> QED BY <5>1, <1>1, <1>6 DEF Awaits, JobFor
      <4>7. CurrentOf(r)'
        BY <4>1, <4>2, <4>3, <4>4, <4>6, <1>1, <1>3, <1>4, TakenRight
      <4> QED BY <4>7, <3>3
    <3> QED BY <3>2, <3>3
  <2> QED BY <2>1, <1>1, <1>2, AllCurrent
<1>11. LateInv'
  <2>1. ASSUME NEW q \in Procs, adapter'[q].state = "open", q \notin spoiled' \union cut', Late'
        PROVE  Late /\ IsOpen(q) /\ q \notin spoiled \union cut /\ adapter'[q] = adapter[q]
    <3>1. Late /\ IsOpen(q) /\ q \notin spoiled \union cut
      BY <2>1, <1>1, <1>2, <1>5, LateSame DEF IsOpen
    <3>2. adapter[q].list = Unread
      BY <3>1 DEF LateInv, OpenProcs
    <3>3. q # r
      BY <2>1, <3>2, <1>1 DEF Spoils
    <3> QED BY <3>1, <3>3, <1>5
  <2> QED BY <2>1, LateStays
<1> QED BY <1>1, <1>8, <1>9, <1>10, <1>11, JobsStay

\* A subscriber applies the diff, or reads the list that has it already and is marked.
LEMMA SendToStep ==
    ASSUME FeedsInv, NEW w \in Writers, NEW p \in Procs, SendTo(w, p)
    PROVE  FeedsInv'
<1> USE DEF FeedsInv
<1>1. /\ job[w] # Nothing /\ p \in job[w].left
      /\ UNCHANGED <<data, ops, alive, ownDiff, feedVars>>
  BY DEF SendTo
<1>2. UNCHANGED <<mapFeed, made, subs, served, found, unsub, cut>>
  BY <1>1 DEF feedVars
<1>3. /\ job[w] \in Sendings /\ job \in [Writers -> {Nothing} \union Sendings]
      /\ job[w].sending = TRUE
  BY <1>1, JobTypes, Types DEF JobsInv
<1>4. PICK d \in Diff : d = job[w].diff
  BY <1>1, JobTypes
<1>5. \/ /\ IF IsOpen(p) THEN Takes(p, d) ELSE UNCHANGED adapter
         /\ job' = [job EXCEPT ![w].left = @ \ {p}]
         /\ spoiled' = IF IsOpen(p) /\ Spoils(p, d) THEN spoiled \union {p} ELSE spoiled
      \/ (Raises(p, d) \/ Takes(p, d) \/ UNCHANGED adapter) /\ Aborted(w)
  BY <1>4 DEF SendTo
<1>6. /\ adapter' \in [Procs -> ClosedAdapters \union OpenAdapters]
      /\ \A q \in Procs \ {p} : adapter'[q] = adapter[q]
      /\ \A q \in Procs : adapter'[q].state = adapter[q].state
  <2>1. CASE UNCHANGED adapter
    BY <2>1, Types
  <2>2. CASE Takes(p, d) \/ Raises(p, d)
    BY <2>2, DiffTaken
  <2> QED BY <2>1, <2>2, <1>5
<1>7. \A u \in Writers \ {w} : job'[u] = job[u]
  BY <1>3, <1>5 DEF Aborted
<1>8. /\ Aborted(w) => job'[w] = Nothing
      /\ ~Aborted(w) =>
            /\ job'[w] \in Sendings /\ job'[w] # Nothing /\ job'[w].sending = TRUE
            /\ job'[w].feed = job[w].feed /\ job'[w].left = job[w].left \ {p} /\ job'[w].diff = job[w].diff
  <2>1. CASE Aborted(w)
    BY <2>1, <1>3 DEF Aborted
  <2>2. CASE ~Aborted(w)
    <3>1. job'[w] = [job[w] EXCEPT !.left = @ \ {p}]
      BY <2>2, <1>3, <1>5
    <3>2. /\ job'[w] \in Sendings /\ job'[w].sending = TRUE
          /\ job'[w].feed = job[w].feed /\ job'[w].left = job[w].left \ {p} /\ job'[w].diff = job[w].diff
      BY <3>1, <1>3 DEF Sendings
    <3> QED BY <2>2, <3>2, IsNoSending
  <2> QED BY <2>1, <2>2
<1>9. job' \in [Writers -> {Nothing} \union Sendings]
  <2>1. DOMAIN job' = Writers /\ job' = [u \in Writers |-> job'[u]]
    BY <1>3, <1>5 DEF Aborted
  <2> QED BY <2>1, <1>3, <1>7, <1>8
<1>10. spoiled' \subseteq Procs
  BY <1>1, <1>5, JobTypes, Types DEF Aborted
<1>11. FeedsTypeOK'
  BY <1>1, <1>2, <1>6, <1>9, <1>10, Types, IsTyped
<1>12. SubsInv'
  BY <1>1, <1>2, <1>6, SubsStay
<1>13. CurrentInv'
  <2>1. ASSUME NEW q \in Procs, adapter'[q].state = "open", q \notin spoiled' \union cut'
        PROVE  \/ IsOpen(q) /\ q \notin spoiled \union cut /\ SameFor(q)
               \/ CurrentOf(q)'
    <3>1. IsOpen(q) /\ q \notin spoiled \union cut
      BY <2>1, <1>2, <1>5, <1>6 DEF IsOpen, Aborted
    <3>2. CASE Aborted(w)
      <4>1. q \notin job[w].left /\ q # p
        BY <2>1, <3>2, <1>1 DEF Aborted
      <4>2. ~JobFor(w, q) /\ ~JobFor(w, q)'
        BY <3>2, <4>1, <1>3 DEF JobFor, Aborted
      <4> QED BY <3>1, <4>1, <4>2, <1>1, <1>6, <1>7 DEF SameFor, SameDiffs, JobFor
    <3>3. CASE ~Aborted(w) /\ q # p
      BY <3>1, <3>3, <1>1, <1>3, <1>6, <1>7, <1>8 DEF SameFor, SameDiffs, JobFor
    <3>4. CASE ~Aborted(w) /\ q = p
      <4>1. Takes(p, d) /\ ~Spoils(p, d) /\ job' = [job EXCEPT ![w].left = @ \ {p}]
        BY <2>1, <3>1, <3>4, <1>5
      <4>2. CurrentOf(p) /\ UniqueKeys(data)
        BY <2>1, <3>1, <3>4, <1>2 DEF CurrentInv, OpenProcs
      <4>3. JobFor(w, p) /\ Awaits(p)
        BY <1>1 DEF JobFor, Awaits
      <4>4. \A e \in Diff : OneAwaited(p, e) =>
                e = d /\ ~OwnFor(p) /\ \A u \in Writers \ {w} : ~JobFor(u, p)
        BY <4>3, <1>4 DEF OneAwaited
      <4>5. \E e \in Diff : OneAwaited(p, e)
        <5>1. adapter[p].list # Unread
          BY <4>1 DEF Spoils
        <5>2. Follows(p, adapter[p].list)
          BY <4>2, <5>1 DEF CurrentOf
        <5> QED BY <4>3, <5>2 DEF Follows
      <4>6. ~Awaits(p)'
        <5>1. ~OwnFor(p)' /\ \A u \in Writers \ {w} : ~JobFor(u, p)'
          BY <4>4, <4>5, <1>1, <1>7 DEF OwnFor, JobFor
        <5>2. ~JobFor(w, p)'
          BY <1>3, <1>8, <3>4 DEF JobFor
        <5> QED BY <5>1, <5>2 DEF Awaits, JobFor, OwnFor
      <4>7. CurrentOf(p)'
        BY <4>1, <4>2, <4>3, <4>4, <4>6, <1>1, TakenRight
      <4> QED BY <4>7, <3>4
    <3> QED BY <3>2, <3>3, <3>4
  <2> QED BY <2>1, <1>1, <1>2, AllCurrent
<1>14. JobsInv'
  BY <1>1, <1>3, <1>7, <1>8 DEF JobsInv
<1>15. LateInv'
  <2>1. Late' => Late
    BY <1>2, <1>3, <1>7, <1>8, ProcNames DEF Late
  <2>2. ASSUME NEW q \in Procs, adapter'[q].state = "open", q \notin spoiled' \union cut', Late'
        PROVE  Late /\ IsOpen(q) /\ q \notin spoiled \union cut /\ adapter'[q] = adapter[q]
    <3>1. Late /\ IsOpen(q) /\ q \notin spoiled \union cut
      BY <2>1, <2>2, <1>2, <1>5, <1>6 DEF IsOpen, Aborted
    <3>2. adapter[q].list = Unread
      BY <3>1 DEF LateInv, OpenProcs
    <3>3. CASE q = p
      <4>1. ~Aborted(w)
        BY <2>2, <3>3, <1>1 DEF Aborted
      <4> QED BY <2>2, <3>1, <3>2, <3>3, <4>1, <1>5 DEF Spoils
    <3> QED BY <3>1, <3>3, <1>6
  <2> QED BY <2>2, LateStays
<1> QED BY <1>11, <1>12, <1>13, <1>14, <1>15

-----------------------------------------------------------------------------
(* Theorems *)

\* Nothing is shown, nobody is subscribed.
LEMMA FeedsInitInv ==
    ASSUME FeedsInit
    PROVE  FeedsInv
<1> USE DEF FeedsInit
<1>1. <<>> \in Lists
  BY DEF Lists
<1>2. FeedsTypeOK
  <2>1. data \in Lists /\ ops \in 0..MaxOps
    BY <1>1, FeedsAssumption
  <2>2. /\ mapFeed \in Feeds \union {NoFeed} /\ made \in Feeds
        /\ subs \in [Feeds -> SUBSET Procs]
        /\ served \in [Remotes -> Feeds \union {NoFeed}]
        /\ adapter \in [Procs -> ClosedAdapters \union OpenAdapters]
        /\ found \in [Procs -> Feeds \union {NoFeed, Missed}]
        /\ unsub \in [Remotes -> {"no", "ui", "rpc"}]
        /\ job \in [Writers -> {Nothing} \union Sendings]
        /\ ownDiff \in [Remotes -> {Nothing} \union Diff]
        /\ alive \subseteq Remotes /\ spoiled \subseteq Procs /\ cut \subseteq Procs
    BY ProcNames
  <2>3. \A p \in Procs : adapter[p].state = "opening" => found[p] # NoFeed
    BY ProcNames
  <2> QED BY <2>1, <2>2, <2>3 DEF FeedsTypeOK, ClosedAdapters, OpenAdapters, Sendings
<1>3. OpenProcs = {}
  BY ProcNames DEF OpenProcs, IsOpen
<1>4. SubsInv
  BY <1>3, ProcNames DEF SubsInv
<1>5. JobsInv
  BY DEF JobsInv
<1>6. CurrentInv
  BY <1>3 DEF CurrentInv, UniqueKeys
<1>7. LateInv
  BY <1>3 DEF LateInv
<1> QED BY <1>2, <1>4, <1>5, <1>6, <1>7 DEF FeedsInv

\* Every step keeps the invariant.
LEMMA NextInv ==
    ASSUME FeedsInv, [FeedsNext]_allVars
    PROVE  FeedsInv'
<1>1. CASE \E p \in Procs : FindFeed(p) \/ MakeFeed(p) \/ Subscribe(p) \/ ReadList(p) \/ StoreList(p)
  BY <1>1, FindFeedStep, MakeFeedStep, SubscribeStep, ReadListStep, StoreListStep
<1>2. CASE CloseHome
  BY <1>2, CloseHomeStep
<1>3. CASE \E r \in Remotes :
            CloseRemote(r) \/ Unsubscribe(r) \/ Die(r) \/ RunRemoteCommand(r) \/ TakeOwnDiff(r)
  BY <1>3, CloseRemoteStep, UnsubscribeStep, DieStep, RunRemoteCommandStep, TakeOwnDiffStep
<1>4. CASE RunCommand \/ CallHook
  BY <1>4, CommandStep
<1>9. CASE FindFeedToSend \/ MakeFeedToSend
  BY <1>9, FindFeedToSendStep, MakeFeedToSendStep
<1>5. CASE \E w \in Writers : StartSend(w) \/ EndSend(w)
  BY <1>5, StartSendStep, EndSendStep
<1>6. CASE \E w \in Writers : \E p \in Procs : SendTo(w, p)
  BY <1>6, SendToStep
<1>7. CASE \E w \in Writers : \E r \in Remotes : DropGone(w, r)
  BY <1>7, DropGoneStep
<1>8. CASE UNCHANGED allVars
  <2>1. UNCHANGED <<data, ops, mapFeed, made, subs, served, adapter, found, unsub, alive,
                    job, ownDiff, spoiled, cut>>
    BY <1>8 DEF allVars
  <2>2. FeedsTypeOK'
    BY <2>1, Types, IsTyped DEF FeedsInv
  <2>3. SubsInv'
    BY <2>1, SubsStay DEF FeedsInv
  <2>4. CurrentInv'
    <3>1. \A q : SameFor(q)
      BY <2>1 DEF SameFor, SameDiffs, JobFor
    <3> QED BY <3>1, <2>1, AllCurrent DEF FeedsInv, IsOpen
  <2>5. LateInv'
    BY <2>1, LateSame, LateStays DEF FeedsInv, IsOpen
  <2> QED BY <2>1, <2>2, <2>3, <2>4, <2>5, JobsStay DEF FeedsInv
<1> QED BY <1>1, <1>2, <1>3, <1>4, <1>5, <1>6, <1>7, <1>8, <1>9 DEF FeedsNext

\* The types, who is subscribed to what, and who is to get which diff: the invariant
\* that the properties of feeds and their lists follow from.
THEOREM FeedsInvariance == FeedsSpec => []FeedsInv
<1>1. FeedsInit => FeedsInv
  BY FeedsInitInv
<1>2. FeedsInv /\ [FeedsNext]_allVars => FeedsInv'
  BY NextInv
<1> QED BY <1>1, <1>2, PTL DEF FeedsSpec

\* When nothing is under way, whoever shows the list shows that of Home, but for the
\* known ways to go wrong: for every number of processes, keys and changes.
THEOREM ShownAreCurrent == FeedsSpec => []ShownIsCurrent
<1>1. FeedsInv => ShownIsCurrent
  <2> SUFFICES ASSUME FeedsInv, Quiet, NEW p \in Procs \ (spoiled \union cut),
                      Shows(p), adapter[p].reading = Unread
               PROVE  adapter[p].list = data
    BY DEF ShownIsCurrent
  <2>1. p \in OpenProcs \ (spoiled \union cut) /\ adapter[p].list # Unread
    BY DEF Shows, OpenProcs
  <2>2. Follows(p, adapter[p].list)
    BY <2>1 DEF FeedsInv, CurrentInv, CurrentOf
  <2>3. ~\E d \in Diff : OneAwaited(p, d)
    BY DEF Quiet, OneAwaited, JobFor, OwnFor
  <2> QED BY <2>2, <2>3 DEF Follows
<1> QED BY <1>1, FeedsInvariance, PTL

\* When nothing is under way, whoever shows the list is subscribed to the feed of the
\* map, unless it was cut off from it by the races of feed_factory, of closing feeds and of
\* unsubscriptions: whatever feeds are made, replaced and closed meanwhile.
THEOREM OpenAreSubscribed == FeedsSpec => []OpenIsSubscribed
<1>1. FeedsInv => OpenIsSubscribed
  BY DEF FeedsInv, SubsInv, OpenIsSubscribed
<1> QED BY <1>1, FeedsInvariance, PTL

\* When nothing is under way, server_feed has no subscription of a live process that
\* does not show the list, and those that it has are in their feeds.
THEOREM UnusedAreDropped == FeedsSpec => []UnusedIsDropped
<1>1. FeedsInv => UnusedIsDropped
  <2> SUFFICES ASSUME FeedsInv, Quiet, NEW r \in alive, served[r] # NoFeed
               PROVE  IsOpen(r) /\ r \in subs[served[r]]
    BY DEF UnusedIsDropped, FeedsInv
  <2>1. r \in Remotes
    BY Types DEF FeedsInv
  <2> QED BY <2>1 DEF FeedsInv, SubsInv, Quiet
<1> QED BY <1>1, FeedsInvariance, PTL

=============================================================================
