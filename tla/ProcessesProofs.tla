--------------------------- MODULE ProcessesProofs ---------------------------
(* Proofs about the processes that the program starts: the RPC servers in     *)
(* subprocesses, and the drivers that run the jobs of the resource compiler,  *)
(* with the targets that those jobs are for.                                   *)
EXTENDS SubprocessServer, RcRunner, TLAPS, SequenceTheorems, FiniteSetTheorems, WellFoundedInduction

(* The inductive invariant. *)

\* The master has the connection of a subprocess open between the start of its
\* context and the close, and in the dict of the transport; who is there, and who has a
\* child, was started.
UserInv ==
    \A s \in Subprocess :
        /\ s \in open <=> user[s] \in {"waiting", "running", "calling", "closing"}
        /\ s \in open => s \in Range(conns)
        /\ s \in Range(conns) => user[s] # "idle"
        /\ child[s] # "none" => user[s] # "idle"

\* The peer is stored before the event is set, and the event before the context
\* goes on.
TaskInv ==
    /\ events \subseteq peers
    /\ \A s \in Subprocess :
        /\ task[s] # "none" => user[s] # "idle"
        /\ task[s] \in {"stored", "called", "done"} => s \in peers
        /\ user[s] \in {"running", "calling"} => s \in peers

\* What the server thread waits for and what it found ready was started.  It has a
\* connection to look at where it looks at one; one that it found in the dict and
\* that is not there any more was left, as it is the only other one to remove any.
ServerInv ==
    /\ \A s \in Range(server.list) : user[s] # "idle"
    /\ \A s \in Range(server.ready) : s # Signal => user[s] # "idle"
    /\ IsInjective(server.ready)
    /\ server.at \in {"ready", "lookup"} => server.ready # <<>>
    /\ Signal \in Range(server.ready) => signals > 0
    /\ server.at = "lookup" =>
        /\ Head(server.ready) # Signal
        /\ Head(server.ready) \in Range(conns) \/ user[Head(server.ready)] \in Left
    /\ server.at = "failed" =>
        \E s \in Subprocess :
            s \in Range(server.list) \cup Range(server.ready) /\ user[s] \in Left

\* Who failed to respond had lost its connection.
FailInv == \A s \in failed : user[s] \in Left

ServersInv == TypeOK /\ UserInv /\ TaskInv /\ ServerInv /\ FailInv

-----------------------------------------------------------------------------
(* Sequences without repetition *)

\* The connections but one: each of the others is there once.
LEMMA WithoutOne ==
    ASSUME NEW T, NEW q \in Seq(T), IsInjective(q), NEW s
    PROVE  /\ Without(q, s) \in Seq(T)
           /\ IsInjective(Without(q, s))
           /\ \A c : c \in Range(Without(q, s)) => c \in Range(q)
           /\ \A c : c \in Range(q) /\ c # s => c \in Range(Without(q, s))
<1>1. CASE s \notin Range(q)
  BY <1>1 DEF Without
<1>2. CASE s \in Range(q)
  <2> DEFINE k == CHOOSE i \in DOMAIN q : q[i] = s
             a == SubSeq(q, 1, k - 1)
             b == SubSeq(q, k + 1, Len(q))
  <2>1. k \in DOMAIN q /\ q[k] = s
    BY <1>2 DEF Range
  <2>2. Len(q) \in Nat /\ DOMAIN q = 1 .. Len(q) /\ k \in 1 .. Len(q)
    BY <2>1, LenProperties
  <2>3. Without(q, s) = a \o b
    BY <1>2 DEF Without, RemoveAt
  <2> HIDE DEF k
  <2>4. /\ a \in Seq(T) /\ Len(a) = k - 1
        /\ \A i \in 1 .. k - 1 : a[i] = q[i]
    <3>1. PICK m \in Int, n \in Int : m = 1 /\ n = k - 1
      BY <2>2
    <3>2. \A i \in m .. n : q[i] \in T
      BY <3>1, <2>2, ElementOfSeq
    <3> QED BY <3>1, <3>2, <2>2, SubSeqProperties
  <2>5. /\ b \in Seq(T) /\ Len(b) = Len(q) - k
        /\ \A i \in 1 .. Len(q) - k : b[i] = q[k + i]
    <3>1. PICK m \in Int, n \in Int : m = k + 1 /\ n = Len(q)
      <4>1. k + 1 \in Int /\ Len(q) \in Int
        BY <2>2
      <4> QED BY <4>1
    <3>2. \A i \in m .. n : q[i] \in T
      BY <3>1, <2>2, ElementOfSeq
    <3> QED BY <3>1, <3>2, <2>2, SubSeqProperties
  <2> HIDE DEF a, b
  <2>6. /\ a \o b \in Seq(T) /\ Len(a \o b) = Len(q) - 1
        /\ \A i \in 1 .. k - 1 : (a \o b)[i] = q[i]
        /\ \A i \in k .. Len(q) - 1 : (a \o b)[i] = q[i + 1]
    <3>1. /\ a \o b \in Seq(T) /\ Len(a \o b) = Len(a) + Len(b)
          /\ \A i \in 1 .. Len(a) + Len(b) :
                (a \o b)[i] = IF i <= Len(a) THEN a[i] ELSE b[i - Len(a)]
      BY <2>4, <2>5, ConcatProperties
    <3>2. \A i \in 1 .. k - 1 : (a \o b)[i] = q[i]
      BY <3>1, <2>4, <2>5, <2>2
    <3>3. ASSUME NEW i \in k .. Len(q) - 1 PROVE (a \o b)[i] = q[i + 1]
      <4>1. i \in 1 .. Len(a) + Len(b) /\ ~(i <= Len(a)) /\ i - Len(a) \in 1 .. Len(q) - k
            /\ k + (i - Len(a)) = i + 1
        BY <2>4, <2>5, <2>2
      <4> QED BY <4>1, <3>1, <2>5
    <3> QED BY <3>1, <3>2, <3>3, <2>4, <2>5, <2>2
  <2> DEFINE w == Without(q, s)
  <2>7. DOMAIN w = 1 .. Len(q) - 1 /\ w \in Seq(T)
    BY <2>3, <2>6, LenProperties
  <2>8. \A i \in DOMAIN w : (i < k /\ i \in DOMAIN q /\ w[i] = q[i])
                            \/ (i >= k /\ i + 1 \in DOMAIN q /\ w[i] = q[i + 1])
    <3> SUFFICES ASSUME NEW i \in 1 .. Len(q) - 1
                 PROVE  (i < k /\ i \in 1 .. Len(q) /\ w[i] = q[i])
                        \/ (i >= k /\ i + 1 \in 1 .. Len(q) /\ w[i] = q[i + 1])
      BY <2>7, <2>2
    <3>1. CASE i < k
      <4>1. i \in 1 .. k - 1 /\ i \in 1 .. Len(q)
        BY <3>1, <2>2
      <4> QED BY <4>1, <3>1, <2>3, <2>6
    <3>2. CASE i >= k
      <4>1. i \in k .. Len(q) - 1 /\ i + 1 \in 1 .. Len(q)
        BY <3>2, <2>2
      <4> QED BY <4>1, <3>2, <2>3, <2>6
    <3> QED BY <3>1, <3>2, <2>2
  <2> HIDE DEF w
  <2>9. IsInjective(w)
    <3> SUFFICES ASSUME NEW i \in DOMAIN w, NEW j \in DOMAIN w, w[i] = w[j] PROVE i = j
      BY DEF IsInjective
    <3>1. i \in Int /\ j \in Int
      BY <2>7
    <3> QED BY <3>1, <2>8, <2>2 DEF IsInjective
  <2>10. \A c : c \in Range(w) => c \in Range(q)
    BY <2>8 DEF Range
  <2>11. ASSUME NEW c, c \in Range(q), c # s PROVE c \in Range(w)
    <3>1. PICK i \in DOMAIN q : q[i] = c
      BY <2>11 DEF Range
    <3>2. i # k /\ i \in 1 .. Len(q)
      BY <3>1, <2>11, <2>1, <2>2
    <3>3. CASE i < k
      BY <3>1, <3>2, <3>3, <2>7, <2>8, <2>2 DEF Range
    <3>4. CASE i > k
      <4>1. i - 1 \in DOMAIN w /\ i - 1 >= k /\ (i - 1) + 1 = i /\ ~(i - 1 < k)
        BY <3>2, <3>4, <2>7, <2>2
      <4>2. w[i - 1] = q[i]
        BY <4>1, <2>8
      <4> QED BY <4>1, <4>2, <3>1 DEF Range
    <3> QED BY <3>2, <3>3, <3>4, <2>2
  <2> QED BY <2>7, <2>9, <2>10, <2>11 DEF w
<1> QED BY <1>1, <1>2

\* One more, that was not there.
LEMMA AppendOne ==
    ASSUME NEW T, NEW q \in Seq(T), IsInjective(q), NEW s \in T, s \notin Range(q)
    PROVE  /\ Append(q, s) \in Seq(T)
           /\ IsInjective(Append(q, s))
           /\ \A c : c \in Range(Append(q, s)) <=> c \in Range(q) \/ c = s
<1> DEFINE w == Append(q, s)
<1>1. /\ w \in Seq(T) /\ Len(w) = Len(q) + 1
      /\ \A i \in 1 .. Len(q) : w[i] = q[i]
      /\ w[Len(q) + 1] = s
  BY AppendProperties
<1>2. Len(q) \in Nat /\ DOMAIN q = 1 .. Len(q) /\ DOMAIN w = 1 .. Len(q) + 1
  BY <1>1, LenProperties
<1> HIDE DEF w
<1>3. \A i \in DOMAIN w : i = Len(q) + 1 \/ i \in DOMAIN q
  BY <1>2
<1>4. DOMAIN q \subseteq DOMAIN w /\ Len(q) + 1 \in DOMAIN w
  BY <1>2
<1>5. IsInjective(w)
  BY <1>1, <1>2, <1>3 DEF IsInjective, Range
<1>6. \A c : c \in Range(w) <=> c \in Range(q) \/ c = s
  BY <1>1, <1>2, <1>3, <1>4 DEF Range
<1> QED BY <1>1, <1>5, <1>6 DEF w

\* The rest of a sequence without repetition does not have its head.
LEMMA RestOf ==
    ASSUME NEW T, NEW q \in Seq(T), IsInjective(q), q # <<>>
    PROVE  /\ Tail(q) \in Seq(T)
           /\ IsInjective(Tail(q))
           /\ Head(q) \in T /\ Head(q) \in Range(q)
           /\ \A c : c \in Range(Tail(q)) => c \in Range(q) /\ c # Head(q)
<1>1. /\ Len(q) \in Nat \ {0} /\ DOMAIN q = 1 .. Len(q)
      /\ Head(q) \in T /\ Head(q) = q[1]
      /\ Tail(q) \in Seq(T) /\ Len(Tail(q)) = Len(q) - 1
      /\ \A i \in 1 .. Len(Tail(q)) : Tail(q)[i] = q[i + 1]
  BY HeadTailProperties, LenProperties, EmptySeq
<1> DEFINE w == Tail(q)
           h == Head(q)
<1>2. DOMAIN w = 1 .. Len(q) - 1
  BY <1>1, LenProperties
<1>3. \A i \in DOMAIN w : i \in Int /\ i + 1 \in DOMAIN q /\ i + 1 # 1 /\ w[i] = q[i + 1]
  BY <1>1, <1>2
<1>4. 1 \in DOMAIN q /\ h = q[1]
  BY <1>1
<1> HIDE DEF w, h
<1>5. IsInjective(w)
  BY <1>3 DEF IsInjective
<1>6. h \in Range(q)
  BY <1>4 DEF Range
<1>7. \A c : c \in Range(w) => c \in Range(q) /\ c # h
  BY <1>3, <1>4 DEF IsInjective, Range
<1> QED BY <1>1, <1>5, <1>6, <1>7 DEF w, h

\* What wait() returns is what is ready, each once.
LEMMA OrderOf ==
    ASSUME NEW S, IsFiniteSet(S), NEW q \in SetToSeqs(S)
    PROVE  /\ q \in Seq(S)
           /\ IsInjective(q)
           /\ \A c : c \in Range(q) => c \in S
           /\ S # {} => q # <<>>
<1> DEFINE n == Cardinality(S)
<1>1. n \in Nat /\ (n = 0 <=> S = {})
  BY FS_CardinalityType, FS_EmptySet
<1>2. q \in [1 .. n -> S] /\ \A i, j \in 1 .. n : i # j => q[i] # q[j]
  BY DEF SetToSeqs
<1> HIDE DEF n
<1>3. q \in Seq(S)
  BY <1>1, <1>2, SeqDef
<1>4. S # {} => q # <<>>
  <2> SUFFICES ASSUME S # {}, q = <<>> PROVE FALSE
    OBVIOUS
  <2>1. 1 \in 1 .. n
    BY <1>1
  <2>2. DOMAIN q = 1 .. n
    BY <1>2
  <2>3. DOMAIN q = 1 .. 0
    BY EmptySeq, LenProperties
  <2> QED BY <2>1, <2>2, <2>3
<1>5. IsInjective(q)
  BY <1>2 DEF IsInjective
<1>6. \A c : c \in Range(q) => c \in S
  BY <1>2 DEF Range
<1> QED BY <1>3, <1>4, <1>5, <1>6

-----------------------------------------------------------------------------
(* The threads of the contexts and the children *)

\* What the type invariant says of the server thread and of the dict.
LEMMA ServerTypes ==
    ASSUME TypeOK
    PROVE  /\ signals \in Nat
           /\ conns \in Seq(Subprocess) /\ IsInjective(conns)
           /\ server.list \in Seq(Subprocess)
           /\ server.ready \in Seq(Subprocess \cup {Signal})
           /\ \A s \in Range(server.list) : s \in Subprocess
           /\ \A s \in Range(server.ready) : s # Signal => s \in Subprocess
           /\ server.ready # <<>> => Head(server.ready) \in Subprocess \cup {Signal}
           /\ user \in [Subprocess -> {"idle", "waiting", "running", "calling", "closing"} \cup Left]
           /\ child \in [Subprocess -> {"none", "starting", "called", "ended"}]
           /\ task \in [Subprocess -> {"none", "queued", "stored", "called", "done"}]
<1>0. /\ user \in [Subprocess -> {"idle", "waiting", "running", "calling", "closing"} \cup Left]
      /\ child \in [Subprocess -> {"none", "starting", "called", "ended"}]
      /\ task \in [Subprocess -> {"none", "queued", "stored", "called", "done"}]
  BY DEF TypeOK
<1>1. signals \in Nat /\ conns \in Seq(Subprocess) /\ IsInjective(conns)
  BY DEF TypeOK
<1>2. /\ server.list \in Seq(Subprocess)
      /\ server.ready \in Seq(Subprocess \cup {Signal})
  BY DEF TypeOK
<1>3. ASSUME NEW T, NEW q \in Seq(T) PROVE \A c \in Range(q) : c \in T
  BY <1>3, LenProperties DEF Range
<1>4. /\ \A s \in Range(server.list) : s \in Subprocess
      /\ \A s \in Range(server.ready) : s \in Subprocess \cup {Signal}
  BY <1>2, <1>3
<1>5. server.ready # <<>> => Head(server.ready) \in Subprocess \cup {Signal}
  BY <1>2, HeadTailProperties
<1> QED BY <1>0, <1>1, <1>2, <1>4, <1>5

\* More signals are a number as well.
LEMMA SignalsKept ==
    ASSUME TypeOK, signals' = signals \/ signals' = signals + 1
    PROVE  signals' \in Nat /\ signals' >= signals
BY ServerTypes

\* The server thread has nothing to do with a step that leaves it where it is, takes
\* no signal away, and removes a connection from the dict only when it was left.
LEMMA ServerStays ==
    ASSUME TypeOK, ServerInv, server' = server, signals' \in Nat, signals' >= signals,
           \A s \in Subprocess : user[s] # "idle" => user'[s] # "idle",
           \A s \in Subprocess : user[s] \in Left => user'[s] \in Left,
           \A s \in Subprocess :
               s \in Range(conns) => s \in Range(conns') \/ user'[s] \in Left
    PROVE  ServerInv'
<1>2. \A s \in Range(server.list) : s \in Subprocess
  BY ServerTypes
<1>3. \A s \in Range(server.ready) : s # Signal => s \in Subprocess
  BY ServerTypes
<1>4. /\ \A s \in Range(server'.list) : user'[s] # "idle"
      /\ \A s \in Range(server'.ready) : s # Signal => user'[s] # "idle"
  BY <1>2, <1>3 DEF ServerInv
<1>5. /\ IsInjective(server'.ready)
      /\ server'.at \in {"ready", "lookup"} => server'.ready # <<>>
  BY DEF ServerInv
<1>6. Signal \in Range(server'.ready) => signals' > 0
  <2>1. Signal \in Range(server.ready) => signals > 0
    BY DEF ServerInv
  <2> QED BY <2>1, ServerTypes
<1>7. server'.at = "lookup" =>
        /\ Head(server'.ready) # Signal
        /\ Head(server'.ready) \in Range(conns') \/ user'[Head(server'.ready)] \in Left
  <2> SUFFICES ASSUME server.at = "lookup"
               PROVE  /\ Head(server.ready) # Signal
                      /\ Head(server.ready) \in Range(conns') \/ user'[Head(server.ready)] \in Left
    OBVIOUS
  <2>1. /\ server.ready # <<>> /\ Head(server.ready) # Signal
        /\ Head(server.ready) \in Range(conns) \/ user[Head(server.ready)] \in Left
    BY DEF ServerInv
  <2>2. Head(server.ready) \in Subprocess
    BY <2>1, ServerTypes
  <2> QED BY <2>1, <2>2
<1>8. server'.at = "failed" =>
        \E s \in Subprocess :
            s \in Range(server'.list) \cup Range(server'.ready) /\ user'[s] \in Left
  BY DEF ServerInv
<1> QED BY <1>4, <1>5, <1>6, <1>7, <1>8 DEF ServerInv

\* A thread goes on with its context.
LEMMA UserStep ==
    ASSUME ServersInv, NEW s \in Subprocess, NEW from, NEW to, Goes(s, from, to),
           from # "idle", from \in Left => to \in Left,
           to \in {"waiting", "running", "calling", "closing"} \cup Left,
           to \in {"running", "calling"} => s \in peers,
           requests' \subseteq Subprocess, open' \subseteq Subprocess,
           s \in open' <=> to \in {"waiting", "running", "calling", "closing"},
           s \in open' => s \in open,
           \A t \in Subprocess : t # s => (t \in open' <=> t \in open),
           UNCHANGED <<childVars, conns, signals, server, threadVars, stopping>>
    PROVE  ServersInv'
<1> USE DEF ServersInv, childVars, threadVars
<1>1. user[s] = from /\ user' = [user EXCEPT ![s] = to]
  BY DEF Goes
<1>2. user' \in [Subprocess -> {"idle", "waiting", "running", "calling", "closing"} \cup Left]
  BY <1>1 DEF TypeOK
<1>3. user'[s] = to /\ \A t \in Subprocess : t # s => user'[t] = user[t]
  BY <1>1 DEF TypeOK
<1>4. \A t \in Subprocess : /\ user[t] # "idle" => user'[t] # "idle"
                            /\ user[t] \in Left => user'[t] \in Left
  BY <1>1, <1>3 DEF Left
<1>5. TypeOK'
  BY <1>2 DEF TypeOK
<1>6. UserInv'
  BY <1>3, <1>4 DEF UserInv
<1>7. TaskInv'
  BY <1>3, <1>4 DEF TaskInv
<1>8. ServerInv'
  <2>1. signals' \in Nat /\ signals' >= signals
    BY SignalsKept
  <2> QED BY <1>4, <2>1, ServerStays
<1>9. FailInv'
  BY <1>4 DEF FailInv, TypeOK
<1> QED BY <1>5, <1>6, <1>7, <1>8, <1>9

\* A connection joins the dict.
LEMMA StartStep ==
    ASSUME ServersInv, NEW s \in Subprocess, Start(s) PROVE ServersInv'
<1>t. TypeOK /\ UserInv /\ TaskInv /\ ServerInv /\ FailInv
  BY DEF ServersInv
<1> USE <1>t
<1>1. /\ user[s] = "idle" /\ user' = [user EXCEPT ![s] = "waiting"]
      /\ child' = [child EXCEPT ![s] = "starting"]
      /\ open' = open \cup {s} /\ conns' = Append(conns, s)
      /\ signals' = signals + 1
      /\ UNCHANGED <<inbox, requests, server, task, peers, events, failed, stopping, deaths>>
  BY DEF Start, Add, Wake, Goes, threadVars
<1>2. /\ user'[s] = "waiting" /\ child'[s] = "starting"
      /\ \A t \in Subprocess : t # s => user'[t] = user[t] /\ child'[t] = child[t]
  BY <1>1, ServerTypes
<1>3. \A t \in Subprocess : /\ user[t] # "idle" => user'[t] # "idle"
                            /\ user[t] \in Left => user'[t] \in Left
  BY <1>1, <1>2 DEF Left
<1>4. /\ conns' \in Seq(Subprocess) /\ IsInjective(conns')
      /\ \A c : c \in Range(conns') <=> c \in Range(conns) \/ c = s
  <2>1. s \notin Range(conns)
    BY <1>1 DEF UserInv
  <2>2. conns \in Seq(Subprocess) /\ IsInjective(conns)
    BY ServerTypes
  <2> QED BY <2>1, <2>2, <1>1, AppendOne
<1>5. TypeOK'
  <2>1. user' \in [Subprocess -> {"idle", "waiting", "running", "calling", "closing"} \cup Left]
    BY <1>1, ServerTypes
  <2>2. child' \in [Subprocess -> {"none", "starting", "called", "ended"}]
    BY <1>1, ServerTypes
  <2>3. signals' \in Nat
    BY <1>1, SignalsKept
  <2>4. requests' \cup open' \cup peers' \cup events' \cup failed' \subseteq Subprocess
    BY <1>1 DEF TypeOK
  <2> QED BY <2>1, <2>2, <2>3, <2>4, <1>1, <1>4 DEF TypeOK
<1>6. UserInv'
  BY <1>1, <1>2, <1>4 DEF UserInv
<1>7. TaskInv'
  <2>1. \A t \in Subprocess : user'[t] \in {"running", "calling"} => user[t] = user'[t]
    BY <1>2
  <2> QED BY <1>1, <1>3, <2>1 DEF TaskInv
<1>8. ServerInv'
  <2>1. signals' \in Nat /\ signals' >= signals
    BY <1>1, SignalsKept
  <2> QED BY <1>1, <1>3, <1>4, <2>1, ServerStays
<1>9. FailInv'
  <2> SUFFICES ASSUME NEW t \in Subprocess, t \in failed
               PROVE  user'[t] \in Left
    BY <1>1 DEF FailInv, TypeOK
  <2>1. user[t] \in Left
    BY DEF FailInv
  <2>2. t # s
    BY <2>1, <1>1 DEF UserInv, Left
  <2> QED BY <2>1, <2>2, <1>2
<1> QED BY <1>5, <1>6, <1>7, <1>8, <1>9 DEF ServersInv

\* A closed connection leaves the dict.
LEMMA RemoveClosedStep ==
    ASSUME ServersInv, NEW s \in Subprocess, RemoveClosed(s) PROVE ServersInv'
<1>t. TypeOK /\ UserInv /\ TaskInv /\ ServerInv /\ FailInv
  BY DEF ServersInv
<1> USE <1>t
<1>1. /\ user[s] = "remove" /\ user' = [user EXCEPT ![s] = "joining"]
      /\ conns' = Without(conns, s)
      /\ signals' = signals + 1 \/ signals' = signals
      /\ UNCHANGED <<child, inbox, deaths, requests, open, server, task, peers, events,
                     failed, stopping>>
  BY DEF RemoveClosed, Wake, Goes, childVars, threadVars
<1>2. user'[s] = "joining" /\ \A t \in Subprocess : t # s => user'[t] = user[t]
  BY <1>1, ServerTypes
<1>3. \A t \in Subprocess : /\ user[t] # "idle" => user'[t] # "idle"
                            /\ user[t] \in Left => user'[t] \in Left
  BY <1>1, <1>2 DEF Left
<1>4. /\ conns' \in Seq(Subprocess) /\ IsInjective(conns')
      /\ \A c : c \in Range(conns') => c \in Range(conns)
      /\ \A c : c \in Range(conns) /\ c # s => c \in Range(conns')
  <2>1. conns \in Seq(Subprocess) /\ IsInjective(conns)
    BY ServerTypes
  <2> QED BY <1>1, <2>1, WithoutOne
<1>5. TypeOK'
  <2>1. user' \in [Subprocess -> {"idle", "waiting", "running", "calling", "closing"} \cup Left]
    BY <1>1, ServerTypes DEF Left
  <2>2. signals' \in Nat
    BY <1>1, SignalsKept
  <2> QED BY <2>1, <2>2, <1>1, <1>4 DEF TypeOK
<1>6. UserInv'
  BY <1>1, <1>2, <1>3, <1>4 DEF UserInv
<1>7. TaskInv'
  BY <1>1, <1>2, <1>3 DEF TaskInv
<1>8. ServerInv'
  <2>1. signals' \in Nat /\ signals' >= signals
    BY <1>1, SignalsKept
  <2>2. \A t \in Subprocess : t \in Range(conns) => t \in Range(conns') \/ user'[t] \in Left
    BY <1>2, <1>4 DEF Left
  <2> QED BY <1>1, <1>3, <2>1, <2>2, ServerStays
<1>9. FailInv'
  BY <1>1, <1>3 DEF FailInv, TypeOK
<1> QED BY <1>5, <1>6, <1>7, <1>8, <1>9 DEF ServersInv

\* A child goes on.
LEMMA ChildStep ==
    ASSUME ServersInv, NEW s \in Subprocess, child[s] # "none",
           child' \in [Subprocess -> {"none", "starting", "called", "ended"}],
           \A t \in Subprocess : t # s => child'[t] = child[t],
           inbox' \in [Subprocess -> Seq({"callback", "answer"})],
           requests' \subseteq Subprocess, deaths' \in 0 .. MaxDeaths,
           UNCHANGED <<user, open, conns, signals, server, threadVars, stopping>>
    PROVE  ServersInv'
<1> USE DEF ServersInv, threadVars
<1>1. TypeOK'
  BY DEF TypeOK
<1>2. UserInv'
  BY DEF UserInv
<1>3. TaskInv'
  BY DEF TaskInv
<1>4. ServerInv'
  <2>1. signals' \in Nat /\ signals' >= signals
    BY SignalsKept
  <2> QED BY <2>1, ServerStays
<1>5. FailInv'
  BY DEF FailInv, TypeOK
<1> QED BY <1>1, <1>2, <1>3, <1>4, <1>5

\* A worker goes on with a callback.
LEMMA WorkerStep ==
    ASSUME ServersInv, NEW s \in Subprocess, Works(s) PROVE ServersInv'
<1>t. TypeOK /\ UserInv /\ TaskInv /\ ServerInv /\ FailInv
  BY DEF ServersInv
<1> USE <1>t
<1>1. /\ task[s] # "none" /\ task' = [task EXCEPT ![s] = task'[s]]
      /\ task'[s] \in {"stored", "called", "done"}
      /\ task[s] = "queued" => s \in peers'
      /\ peers \subseteq peers' /\ peers' \subseteq Subprocess
      /\ events' \subseteq peers' /\ events' \subseteq Subprocess
      /\ \A t \in failed' : t \in failed \/ (t = s /\ s \notin open)
      /\ UNCHANGED <<user, open, requests, child, inbox, deaths, conns, signals, server, stopping>>
  <2>1. CASE StorePeer(s)
    BY <2>1 DEF StorePeer, TypeOK, TaskInv, userVars, childVars
  <2>2. CASE SetEvent(s)
    BY <2>2 DEF SetEvent, TypeOK, TaskInv, userVars, childVars
  <2>3. CASE Respond(s)
    BY <2>3 DEF Respond, TypeOK, TaskInv, userVars, childVars
  <2> QED BY <2>1, <2>2, <2>3 DEF Works
<1>2. TypeOK'
  <2>1. task' \in [Subprocess -> {"none", "queued", "stored", "called", "done"}]
    BY <1>1, ServerTypes
  <2>2. requests' \cup open' \cup peers' \cup events' \cup failed' \subseteq Subprocess
    BY <1>1 DEF TypeOK
  <2> QED BY <1>1, <2>1, <2>2 DEF TypeOK
<1>3. UserInv'
  BY <1>1 DEF UserInv
<1>4. TaskInv'
  <2>1. \A t \in Subprocess : t # s => task'[t] = task[t]
    BY <1>1, ServerTypes
  <2>2. s \in peers'
    BY <1>1 DEF TaskInv, TypeOK
  <2> QED BY <1>1, <2>1, <2>2 DEF TaskInv
<1>5. ServerInv'
  <2>1. signals' \in Nat /\ signals' >= signals
    BY <1>1, SignalsKept
  <2> QED BY <1>1, <2>1, ServerStays
<1>6. FailInv'
  <2>1. s \notin open => user[s] \in Left
    BY <1>1 DEF UserInv, TaskInv, TypeOK
  <2> QED BY <1>1, <2>1 DEF FailInv
<1> QED BY <1>2, <1>3, <1>4, <1>5, <1>6 DEF ServersInv

-----------------------------------------------------------------------------
(* The server thread *)

ServerStates ==
    [at : {"list", "register", "registered", "polling", "ready", "lookup",
           "finished", "failed"},
     list : Seq(Subprocess), ready : Seq(Subprocess \cup {Signal})]

\* A step of the server thread that reads nothing and removes no connection.
LEMMA ServerStep ==
    ASSUME ServersInv, signals' \in Nat, server' \in ServerStates, ServerInv',
           stopping' \in BOOLEAN, UNCHANGED <<userVars, childVars, conns, threadVars>>
    PROVE  ServersInv'
<1> USE DEF ServersInv, userVars, childVars, threadVars
<1>1. TypeOK'
  BY DEF TypeOK, ServerStates
<1>2. UserInv' /\ TaskInv' /\ FailInv'
  BY DEF UserInv, TaskInv, FailInv
<1> QED BY <1>1, <1>2

\* The place alone changes.
LEMMA Moves ==
    ASSUME ServersInv, NEW place, To(place)
    PROVE  /\ server'.at = place /\ server'.list = server.list /\ server'.ready = server.ready
           /\ place \in {"register", "registered", "polling", "ready", "lookup", "failed",
                         "finished"} => server' \in ServerStates
BY DEF ServersInv, TypeOK, To, ServerStates

\* It moves on without anything to look at.
LEMMA MovesOn ==
    ASSUME ServersInv, NEW place \in {"registered", "polling"}, To(place),
           UNCHANGED <<userVars, childVars, conns, signals, threadVars, stopping>>
    PROVE  ServersInv'
<1>1. /\ server'.at = place /\ server'.list = server.list /\ server'.ready = server.ready
      /\ server' \in ServerStates
  BY Moves
<1>2. ServerInv'
  BY <1>1 DEF ServersInv, ServerInv, userVars
<1>3. signals' \in Nat /\ stopping' \in BOOLEAN
  BY DEF ServersInv, TypeOK
<1> QED BY <1>1, <1>2, <1>3, ServerStep

\* The server thread lists the connections of the dict.
LEMMA ListStep == ASSUME ServersInv, ListConnections PROVE ServersInv'
<1> USE DEF ListConnections, At, userVars
<1>1. UNCHANGED <<user, conns, signals, stopping>>
  OBVIOUS
<1>2. conns \in Seq(Subprocess) /\ \A s \in Range(conns) : s \in Subprocess /\ user[s] # "idle"
  <2>1. conns \in Seq(Subprocess)
    BY ServerTypes DEF ServersInv
  <2>2. \A s \in Range(conns) : s \in Subprocess
    BY <2>1, LenProperties DEF Range
  <2> QED BY <2>1, <2>2 DEF ServersInv, UserInv
<1>3. /\ server'.at \in {"finished", "register"}
      /\ server'.list = server.list \/ server'.list = conns
      /\ server'.ready = server.ready
      /\ server' \in ServerStates
  BY <1>2 DEF ServersInv, TypeOK, ServerStates
<1>4. ServerInv'
  <2>1. \A s \in Range(server'.list) : user'[s] # "idle"
    BY <1>1, <1>2, <1>3 DEF ServersInv, ServerInv
  <2> QED BY <2>1, <1>1, <1>3 DEF ServersInv, ServerInv
<1>5. signals' \in Nat /\ stopping' \in BOOLEAN
  BY <1>1 DEF ServersInv, TypeOK
<1> QED BY <1>3, <1>4, <1>5, ServerStep

\* A connection that was closed after it was listed was left.
LEMMA RegisterStep == ASSUME ServersInv, Register PROVE ServersInv'
<1> USE DEF Register, At
<1>1. CASE Range(server.list) \subseteq open
  BY <1>1, MovesOn
<1>2. CASE ~(Range(server.list) \subseteq open)
  <2>1. /\ server'.at = "failed" /\ server'.list = server.list /\ server'.ready = server.ready
        /\ server' \in ServerStates
    BY <1>2, Moves
  <2>2. PICK s \in Range(server.list) : s \notin open
    BY <1>2
  <2>3. s \in Subprocess /\ user[s] # "idle"
    BY ServerTypes DEF ServersInv, ServerInv
  <2>4. user[s] \in Left
    BY <2>2, <2>3 DEF ServersInv, UserInv, TypeOK
  <2>5. ServerInv'
    <3>1. \E t \in Subprocess :
              t \in Range(server.list) \cup Range(server.ready) /\ user[t] \in Left
      BY <2>2, <2>3, <2>4
    <3> QED BY <2>1, <3>1 DEF ServersInv, ServerInv, userVars
  <2>6. signals' \in Nat /\ stopping' \in BOOLEAN
    BY DEF ServersInv, TypeOK
  <2> QED BY <2>1, <2>5, <2>6, ServerStep
<1> QED BY <1>1, <1>2

\* wait() returns, with something.
LEMMA WaitStep ==
    ASSUME ServersInv, NEW closed, closed \subseteq Range(server.list),
           ReadyOnes(closed) # {}, Returns(ReadyOnes(closed)),
           UNCHANGED <<userVars, childVars, conns, signals, threadVars, stopping>>
    PROVE  ServersInv'
<1> DEFINE ones == ReadyOnes(closed)
<1>1. \A c \in ones : \/ c \in Range(server.list)
                      \/ c = Signal /\ signals > 0
  BY DEF ReadyOnes
<1>2. \A s \in Range(server.list) : s \in Subprocess /\ user[s] # "idle"
  BY ServerTypes DEF ServersInv, ServerInv
<1>3. PICK ready \in SetToSeqs(ones) : server' = [at |-> "ready", list |-> <<>>, ready |-> ready]
  BY DEF Returns
<1>4. IsFiniteSet(ones)
  <2>1. IsFiniteSet(Subprocess \cup {Signal})
    BY SubprocessAssumption, FS_AddElement
  <2>2. ones \subseteq Subprocess \cup {Signal}
    BY <1>1, <1>2
  <2> QED BY <2>1, <2>2, FS_Subset
<1> HIDE DEF ones
<1>5. /\ ready \in Seq(ones) /\ IsInjective(ready)
      /\ \A c : c \in Range(ready) => c \in ones
      /\ ready # <<>>
  BY <1>4, OrderOf DEF ones
<1>6. server' \in ServerStates
  <2>1. ready \in Seq(Subprocess \cup {Signal})
    <3>1. ones \subseteq Subprocess \cup {Signal}
      BY <1>1, <1>2
    <3> QED BY <3>1, <1>5, SeqMonotonic
  <2>2. <<>> \in Seq(Subprocess)
    BY EmptySeq
  <2> QED BY <2>1, <2>2, <1>3 DEF ServerStates
<1>7. /\ server'.at = "ready" /\ server'.list = <<>> /\ server'.ready = ready
  BY <1>3
<1>8. ServerInv'
  <2>1. \A s \in Range(server'.list) : user'[s] # "idle"
    <3>1. DOMAIN server'.list = 1 .. 0
      BY <1>7, EmptySeq, LenProperties
    <3> QED BY <3>1 DEF Range
  <2>2. \A s \in Range(ready) : s # Signal => user[s] # "idle"
    BY <1>5, <1>1, <1>2
  <2>3. Signal \in Range(ready) => signals > 0
    BY <1>5, <1>1, <1>2, SubprocessAssumption
  <2> QED BY <2>1, <2>2, <2>3, <1>5, <1>7 DEF ServerInv, userVars
<1>9. signals' \in Nat /\ stopping' \in BOOLEAN
  BY DEF ServersInv, TypeOK
<1> QED BY <1>6, <1>8, <1>9, ServerStep

\* It enters the poll, or returns at once with a connection that was closed meanwhile.
LEMMA EnterPollStep == ASSUME ServersInv, EnterPoll PROVE ServersInv'
<1> DEFINE closed == Range(server.list) \ open
<1>1. CASE closed = {}
  BY <1>1, MovesOn DEF EnterPoll
<1>2. CASE closed # {}
  <2>1. ReadyOnes(closed) # {}
    BY <1>2 DEF ReadyOnes
  <2> QED BY <1>2, <2>1, WaitStep DEF EnterPoll
<1> QED BY <1>1, <1>2

\* It goes on with the rest of what is ready.
LEMMA NextReadyInv ==
    ASSUME ServersInv, server.ready # <<>>, NextReady, user' = user, signals' \in Nat,
           Head(server.ready) = Signal \/ signals' >= signals
    PROVE  server' \in ServerStates /\ ServerInv'
<1> DEFINE rest == Tail(server.ready)
<1>1. /\ server'.at \in {"list", "ready"}
      /\ server'.at = "ready" => rest # <<>>
      /\ server'.list = server.list /\ server'.ready = rest
      /\ rest \in Seq(Subprocess \cup {Signal}) => server' \in ServerStates
  BY DEF NextReady, ServersInv, TypeOK, ServerStates
<1>2. /\ rest \in Seq(Subprocess \cup {Signal})
      /\ IsInjective(rest)
      /\ \A c : c \in Range(rest) => c \in Range(server.ready) /\ c # Head(server.ready)
  <2>1. server.ready \in Seq(Subprocess \cup {Signal}) /\ IsInjective(server.ready)
    BY ServerTypes DEF ServersInv, ServerInv
  <2> QED BY <2>1, RestOf
<1> HIDE DEF rest
<1>3. Signal \in Range(rest) => signals' > 0
  <2>1. Signal \in Range(rest) => signals > 0 /\ signals' >= signals
    BY <1>2 DEF ServersInv, ServerInv
  <2>2. signals \in Nat
    BY ServerTypes DEF ServersInv
  <2> QED BY <2>1, <2>2
<1>4. ServerInv'
  BY <1>1, <1>2, <1>3 DEF ServersInv, ServerInv
<1> QED BY <1>1, <1>2, <1>4

\* It clears the signal.
LEMMA ClearSignalStep == ASSUME ServersInv, ClearSignal PROVE ServersInv'
<1> USE DEF ClearSignal, At
<1>1. server.ready # <<>>
  BY DEF ServersInv, ServerInv
<1>2. Signal \in Range(server.ready)
  <2>1. server.ready \in Seq(Subprocess \cup {Signal}) /\ IsInjective(server.ready)
    BY ServerTypes DEF ServersInv, ServerInv
  <2> QED BY <2>1, <1>1, RestOf
<1>3. signals' \in Nat
  <2>1. signals > 0
    BY <1>2 DEF ServersInv, ServerInv
  <2>2. signals \in Nat
    BY ServerTypes DEF ServersInv
  <2> QED BY <2>1, <2>2
<1>4. server' \in ServerStates /\ ServerInv'
  BY <1>1, <1>3, NextReadyInv DEF userVars
<1>5. stopping' \in BOOLEAN
  BY DEF ServersInv, TypeOK
<1> QED BY <1>3, <1>4, <1>5, ServerStep

\* It looks up the connection that is ready.
LEMMA CheckStep == ASSUME ServersInv, Check PROVE ServersInv'
<1> USE DEF Check, At
<1>1. server.ready # <<>>
  BY DEF ServersInv, ServerInv
<1>2. signals' \in Nat /\ signals' >= signals /\ stopping' \in BOOLEAN
  <2>1. stopping' \in BOOLEAN
    BY DEF ServersInv, TypeOK
  <2> QED BY <2>1, SignalsKept DEF ServersInv
<1>3. CASE Head(server.ready) \in Range(conns)
  <2>1. /\ server'.at = "lookup" /\ server'.list = server.list /\ server'.ready = server.ready
        /\ server' \in ServerStates
    BY <1>3, Moves
  <2>2. ServerInv'
    BY <1>1, <1>3, <2>1 DEF ServersInv, ServerInv, userVars
  <2> QED BY <2>1, <2>2, <1>2, ServerStep
<1>4. CASE Head(server.ready) \notin Range(conns)
  <2>1. server' \in ServerStates /\ ServerInv'
    BY <1>1, <1>2, <1>4, NextReadyInv DEF userVars
  <2> QED BY <2>1, <1>2, ServerStep
<1> QED BY <1>3, <1>4

\* The connection looked up is read, removed, or gone.
LEMMA ProcessStep == ASSUME ServersInv, ProcessReadyConnection PROVE ServersInv'
<1> DEFINE s == Head(server.ready)
<1>1. /\ server.at = "lookup" /\ server.ready # <<>> /\ s # Signal
      /\ s \in Range(conns) \/ user[s] \in Left
  BY DEF ProcessReadyConnection, At, ServersInv, ServerInv
<1>2. s \in Subprocess /\ s \in Range(server.ready)
  <2>1. s \in Subprocess \cup {Signal}
    BY <1>1, ServerTypes DEF ServersInv
  <2>2. server.ready \in Seq(Subprocess \cup {Signal}) /\ IsInjective(server.ready)
    BY ServerTypes DEF ServersInv, ServerInv
  <2> QED BY <2>1, <2>2, <1>1, RestOf
<1> HIDE DEF s
<1>3. UNCHANGED <<user, open, requests, child, deaths, peers, events, failed, stopping>>
  BY DEF ProcessReadyConnection, userVars
<1>4. CASE s \notin Range(conns)
  <2>1. To("failed") /\ UNCHANGED <<conns, signals, inbox, task>>
    BY <1>4 DEF ProcessReadyConnection, s
  <2>2. /\ server'.at = "failed" /\ server'.list = server.list /\ server'.ready = server.ready
        /\ server' \in ServerStates
    BY <2>1, Moves
  <2>3. ServerInv'
    <3>1. \E t \in Subprocess :
              t \in Range(server.list) \cup Range(server.ready) /\ user[t] \in Left
      BY <1>1, <1>2, <1>4
    <3> QED BY <2>1, <2>2, <3>1, <1>3 DEF ServersInv, ServerInv
  <2>4. signals' \in Nat /\ stopping' \in BOOLEAN
    BY <2>1, <1>3 DEF ServersInv, TypeOK
  <2> QED BY <2>1, <2>2, <2>3, <2>4, <1>3, ServerStep DEF userVars, childVars, threadVars
<1>5. CASE s \in Range(conns) /\ s \in open
  <2>1. NextReady /\ ReadMessage(s) /\ inbox[s] # <<>>
    BY <1>5 DEF ProcessReadyConnection, ReadMessage, s
  <2>2. signals' \in Nat /\ signals' >= signals
    BY <2>1, SignalsKept DEF ReadMessage, ServersInv
  <2>3. server' \in ServerStates /\ ServerInv'
    BY <2>1, <2>2, <1>1, <1>3, NextReadyInv
  <2>4. inbox' \in [Subprocess -> Seq({"callback", "answer"})]
    <3>1. inbox \in [Subprocess -> Seq({"callback", "answer"})]
      BY DEF ServersInv, TypeOK
    <3>2. Tail(inbox[s]) \in Seq({"callback", "answer"})
      BY <3>1, <1>2, <2>1, HeadTailProperties
    <3> QED BY <3>1, <3>2, <2>1 DEF ReadMessage
  <2>5. /\ task' \in [Subprocess -> {"none", "queued", "stored", "called", "done"}]
        /\ \A t \in Subprocess : task'[t] = task[t] \/ (t = s /\ task'[t] = "queued")
    <3>1. task' = task \/ task' = [task EXCEPT ![s] = "queued"]
      BY <2>1 DEF ReadMessage
    <3> QED BY <3>1, <1>2 DEF ServersInv, TypeOK
  <2>6. TypeOK'
    BY <2>1, <2>2, <2>3, <2>4, <2>5, <1>3 DEF ServersInv, TypeOK, ServerStates, ReadMessage
  <2>7. UserInv' /\ FailInv'
    BY <2>1, <1>3 DEF ServersInv, UserInv, FailInv, ReadMessage
  <2>8. TaskInv'
    <3>1. user[s] # "idle"
      BY <1>5, <1>2 DEF ServersInv, UserInv
    <3> QED BY <3>1, <2>5, <1>3 DEF ServersInv, TaskInv
  <2> QED BY <2>3, <2>6, <2>7, <2>8 DEF ServersInv
<1>6. CASE s \in Range(conns) /\ s \notin open
  <2>1. NextReady /\ RemoveEnded(s)
    BY <1>6 DEF ProcessReadyConnection, s
  <2>2. signals' \in Nat /\ signals' >= signals
    BY <2>1, SignalsKept DEF RemoveEnded, Wake, ServersInv
  <2>3. server' \in ServerStates /\ ServerInv'
    BY <2>1, <2>2, <1>1, <1>3, NextReadyInv
  <2>4. /\ conns' \in Seq(Subprocess) /\ IsInjective(conns')
        /\ \A c : c \in Range(conns') => c \in Range(conns)
        /\ \A c : c \in Range(conns) /\ c # s => c \in Range(conns')
    <3>1. conns \in Seq(Subprocess) /\ IsInjective(conns)
      BY ServerTypes DEF ServersInv
    <3> QED BY <3>1, <2>1, WithoutOne DEF RemoveEnded
  <2>5. UNCHANGED <<inbox, task>>
    BY <2>1 DEF RemoveEnded
  <2>6. TypeOK'
    BY <2>2, <2>3, <2>4, <2>5, <1>3 DEF ServersInv, TypeOK, ServerStates
  <2>7. UserInv' /\ TaskInv' /\ FailInv'
    BY <1>6, <2>4, <2>5, <1>3 DEF ServersInv, UserInv, TaskInv, FailInv
  <2> QED BY <2>3, <2>6, <2>7 DEF ServersInv
<1> QED BY <1>4, <1>5, <1>6

-----------------------------------------------------------------------------
(* The invariant *)

\* No subprocess has started.
LEMMA InitInv == Init => ServersInv
<1> SUFFICES ASSUME Init PROVE ServersInv
  OBVIOUS
<1> USE DEF Init
<1>1. \A T : <<>> \in Seq(T)
  BY EmptySeq
<1>2. IsInjective(<<>>) /\ Range(<<>>) = {}
  BY DEF IsInjective, Range
<1>3. user \in [Subprocess -> {"idle", "waiting", "running", "calling", "closing"} \cup Left]
  OBVIOUS
<1>4. inbox \in [Subprocess -> Seq({"callback", "answer"})]
  BY <1>1
<1>5. server \in ServerStates
  BY <1>1 DEF ServerStates
<1>6. signals \in Nat /\ deaths \in 0 .. MaxDeaths
  BY SubprocessAssumption
<1>7. TypeOK
  BY <1>1, <1>2, <1>3, <1>4, <1>5, <1>6 DEF TypeOK, ServerStates
<1>8. UserInv
  BY <1>2 DEF UserInv
<1>9. TaskInv /\ FailInv
  BY DEF TaskInv, FailInv
<1>10. ServerInv
  BY <1>2 DEF ServerInv
<1> QED BY <1>7, <1>8, <1>9, <1>10 DEF ServersInv

\* The inductive invariant holds in every state.
THEOREM Invariance == Spec => []ServersInv
<1>1. ServersInv /\ [Next]_vars => ServersInv'
  <2> SUFFICES ASSUME ServersInv, [Next]_vars PROVE ServersInv'
    OBVIOUS
  <2>1. ASSUME NEW s \in Subprocess, Proceeds(s) \/ StartTimesOut(s) \/ Call(s) \/ Leave(s)
        PROVE  ServersInv'
    <3> USE DEF Left
    <3>1. CASE Started(s)
      <4>1. s \in peers
        BY <3>1 DEF ServersInv, TaskInv, Started
      <4> QED BY <3>1, <4>1, UserStep DEF Started, Goes, ServersInv, TypeOK, UserInv
    <3>2. CASE StartTimesOut(s)
      BY <3>2, UserStep DEF StartTimesOut, Goes, ServersInv, TypeOK, UserInv
    <3>3. CASE Call(s)
      <4>1. s \in peers
        BY <3>3 DEF Call, Goes, ServersInv, TaskInv
      <4>2. /\ Goes(s, "running", "calling")
            /\ UNCHANGED <<childVars, open, conns, signals, server, threadVars, stopping>>
            /\ requests' \subseteq Subprocess
        BY <3>3 DEF Call, ServersInv, TypeOK
      <4>3. s \in open
        BY <4>2 DEF Goes, ServersInv, UserInv
      <4>4. open' \subseteq Subprocess /\ \A t : t \in open' <=> t \in open
        BY <4>2 DEF ServersInv, TypeOK
      <4> QED BY <4>1, <4>2, <4>3, <4>4, UserStep
    <3>4. CASE Leave(s)
      <4>1. CASE Goes(s, "running", "closing")
        BY <3>4, <4>1, UserStep DEF Leave, Goes, ServersInv, TypeOK, UserInv
      <4>2. CASE Goes(s, "calling", "closing")
        BY <3>4, <4>2, UserStep DEF Leave, Goes, ServersInv, TypeOK, UserInv
      <4> QED BY <3>4, <4>1, <4>2 DEF Leave
    <3>5. CASE Close(s)
      BY <3>5, UserStep DEF Close, Goes, ServersInv, TypeOK, UserInv
    <3>6. CASE RemoveClosed(s)
      BY <3>6, RemoveClosedStep
    <3>7. CASE Join(s)
      BY <3>7, UserStep DEF Join, Goes, ServersInv, TypeOK, UserInv
    <3> QED BY <2>1, <3>1, <3>2, <3>3, <3>4, <3>5, <3>6, <3>7 DEF Proceeds
  <2>2. ASSUME NEW s \in Subprocess, Lives(s) \/ Die(s) PROVE ServersInv'
    <3>1. /\ child \in [Subprocess -> {"none", "starting", "called", "ended"}]
          /\ inbox \in [Subprocess -> Seq({"callback", "answer"})]
          /\ requests \subseteq Subprocess /\ deaths \in 0 .. MaxDeaths
      BY DEF ServersInv, TypeOK
    <3>2. \A m \in {"callback", "answer"} : Append(inbox[s], m) \in Seq({"callback", "answer"})
      BY <3>1, AppendProperties
    <3>3. CASE CallBack(s)
      BY <3>1, <3>2, <3>3, ChildStep DEF CallBack, userVars
    <3>4. CASE Answer(s)
      BY <3>1, <3>2, <3>4, ChildStep DEF Answer
    <3>5. CASE End(s)
      BY <3>1, <3>5, ChildStep DEF End, userVars
    <3>6. CASE Die(s)
      <4>1. deaths' \in 0 .. MaxDeaths
        BY <3>1, <3>6, SubprocessAssumption DEF Die
      <4> QED BY <3>1, <3>6, <4>1, ChildStep DEF Die, userVars
    <3> QED BY <2>2, <3>3, <3>4, <3>5, <3>6 DEF Lives
  <2>3. ASSUME Serves PROVE ServersInv'
    <3>1. CASE Poll
      BY <3>1, WaitStep DEF Poll
    <3> QED BY <2>3, <3>1, ListStep, RegisterStep, EnterPollStep, ClearSignalStep, CheckStep,
               ProcessStep DEF Serves
  <2>4. CASE Stop
    <3>1. UNCHANGED <<user, conns, server>> /\ stopping' = TRUE /\ signals' = signals + 1
      BY <2>4 DEF Stop, userVars, Wake
    <3>2. signals' \in Nat /\ signals' >= signals
      BY <3>1, SignalsKept DEF ServersInv
    <3>3. server' \in ServerStates
      BY <3>1 DEF ServersInv, TypeOK, ServerStates
    <3>4. ServerInv'
      BY <3>1, <3>2, ServerStays DEF ServersInv
    <3> QED BY <2>4, <3>1, <3>2, <3>3, <3>4, ServerStep DEF Stop
  <2>5. CASE UNCHANGED vars
    BY <2>5 DEF vars, ServersInv, TypeOK, UserInv, TaskInv, ServerInv, FailInv
  <2> QED BY <2>1, <2>2, <2>3, <2>4, <2>5, StartStep, WorkerStep DEF Next
<1> QED BY InitInv, <1>1, PTL DEF Spec

\* Who goes on after the callback has the peer; the server thread fails only by a
\* connection that was closed under it, and a worker only with a subprocess that was
\* left; what is open is in the dict.
THEOREM FailsByClosingOnly == Spec => []FailsOnlyByClosing
<1>1. ServersInv => FailsOnlyByClosing
  BY DEF ServersInv, TypeOK, UserInv, TaskInv, ServerInv, FailInv, FailsOnlyByClosing, At
<1> QED BY <1>1, Invariance, PTL

-----------------------------------------------------------------------------
(* The resource compiler *)

(* The inductive invariant: of a store *)

\* What a target waits for, by requirement.
NeedMaps == UNION {[reqs -> Target] : reqs \in SUBSET (Module \cup Item)}

Store ==
    [code : Programs,
     cache : [imports : SUBSET Module, stale : SUBSET Module, tests : SUBSET Module, staleTests : SUBSET Module],
     all : SUBSET Target, own : SUBSET Target, completed : SUBSET Target, ready : SUBSET Target,
     first : SUBSET Target, needs : UNION {[targets -> NeedMaps] : targets \in SUBSET Target},
     job : [Module -> Target], got : SUBSET Module, provided : SUBSET Item, resolved : SUBSET Item,
     items : [Module -> SUBSET Item], picked : SUBSET Item,
     test : [Module -> Target \cup {NoTarget}], testsImports : [Module -> SUBSET Module],
     testedBy : [Module -> SUBSET Module], failed : BOOLEAN]

\* A target that waits for another one, or that an item has, exists; so do the items
\* below it.
ItemClosed(w) ==
    /\ \A i \in Item : Resolved(i) \in w.all => Ready(i) \in w.all
    /\ \A i \in Item : Complete(i) \in w.all => ItemTargets(w, i) \subseteq w.all
NeedsExist(w) ==
    /\ \A t \in w.all : t.kind = "testjob" => t \in DOMAIN w.needs
    /\ DOMAIN w.needs \subseteq w.all
    /\ \A t \in DOMAIN w.needs : \A r \in DOMAIN w.needs[t] :
        /\ w.needs[t][r] \in w.all
        /\ r \in Module => w.needs[t][r] \in {Import(r), Resource(r)} /\ Resource(r) \in w.own
        /\ r \in Item => w.needs[t][r] \in {Resolved(r), Complete(r)}
ClosedInv(w) ==
    /\ w.own \subseteq w.all /\ w.completed \subseteq w.all
    /\ \A t \in w.ready : t \in w.all /\ t.kind \in {"job", "testjob"}
    /\ Known \in w.all /\ \A m \in Module : Import(m) \in w.all
    /\ ItemClosed(w) /\ NeedsExist(w)

\* What is completed stands over completed deps.
SatInv(w) == \A t \in w.completed : Satisfied(w, Deps(w, t))

\* An import is at one job, which is the last one, and has a result when that is
\* completed; the jobs before are completed.
JobsInv(w) ==
    \A m \in Module :
        /\ w.job[m] \in {Cached(m)} \cup {ImportJob(m, k) : k \in 1 .. MaxJobs}
        /\ w.job[m] \in w.own
        /\ w.job[m] \in w.completed <=> m \in w.got
        /\ \A k \in 1 .. MaxJobs : ImportJob(m, k) \in w.all =>
            /\ w.job[m].kind = "job" /\ k <= w.job[m].idx
            /\ k < w.job[m].idx => ImportJob(m, k) \in w.completed
        /\ Cached(m) \in w.all => w.job[m] = Cached(m) \/ Cached(m) \in w.completed

\* A test has a target when its module has been imported, and is at one job as well.
TestsInv(w) ==
    \A m \in Module :
        /\ w.test[m] \in {NoTarget, TestCached(m)} \cup {TestJob(m, k) : k \in 1 .. MaxJobs}
        /\ w.test[m] # NoTarget <=> m \in w.got /\ IsTests(w, m)
        /\ w.test[m] # NoTarget <=> Test(m) \in w.all
        /\ w.test[m] # NoTarget => w.test[m] \in w.own /\ \A n \in w.code.tests[m] : m \in w.testedBy[n]
        /\ \A k \in 1 .. MaxJobs : TestJob(m, k) \in w.all =>
            /\ w.test[m].kind = "testjob" /\ k <= w.test[m].idx
            /\ k < w.test[m].idx => TestJob(m, k) \in w.completed
        /\ TestCached(m) \in w.all =>
            w.test[m] = TestCached(m) \/ (TestCached(m) \in w.completed /\ w.test[m].kind = "testjob")

\* What a module tests is known when its first job is completed.
FoundInv(w) ==
    /\ w.first = {ImportJob(m, 1) : m \in Module \ w.cache.imports}
    /\ \A m \in Module : m \in w.cache.imports \/ ImportJob(m, 1) \in w.completed =>
            \A n \in w.code.tests[m] : m \in w.testsImports[n]

\* Items come with the result of an import.
ItemsInv(w) ==
    /\ \A i \in w.resolved : Resolved(i) \in w.own
    /\ \A i \in w.provided : \E m \in Module : i \in w.code.provides[m] /\ m \in w.got
    /\ \A i \in w.picked : Resolved(i) \in w.completed
    /\ \A i \in Item : Ready(i) \in w.completed => i \in w.provided
    /\ \A i \in Item : Complete(i) \in w.completed => i \in w.picked
    /\ \A m \in Module : m \notin w.got =>
        Import(m) \notin DOMAIN w.needs /\ Resource(m) \notin DOMAIN w.needs /\ w.items[m] = {}

\* The requirements that a test takes over from what it imports.
PickedReqs(w, t) == UNION {w.code.requires[m] : m \in {n \in Helpers(w, t.of) : Import(n) \in w.completed}}

\* Nothing is left to wait for, and a further update does not change that.
Settled(w, t) ==
    /\ Satisfied(w, Deps(w, t))
    /\ t.kind = "testjob" =>
        /\ PickedReqs(w, t) \subseteq DOMAIN Needs(w, t)
        /\ \A r \in DOMAIN Needs(w, t) : Needs(w, t)[r] = TargetIn(w, w.code.tests[t.of], r)
ReadyInv(w) == \A t \in w.ready : Settled(w, t)

StoreInv(w) ==
    /\ w \in Store /\ ClosedInv(w) /\ SatInv(w) /\ JobsInv(w) /\ TestsInv(w)
    /\ FoundInv(w) /\ ItemsInv(w) /\ ReadyInv(w) /\ ~w.failed

\* What every step from store w to v keeps: nothing is taken back, a job is followed
\* by a new one, what an import gave stays, and a target goes on to wait for the whole
\* of an item for whose constructor it has waited, or for a resource for whose
\* import it has waited.
Later(r, s, t) == t = s \/ (s = Resolved(r) /\ t = Complete(r)) \/ (s = Import(r) /\ t = Resource(r))
LaterNeeds(f, g) ==
    \A r \in DOMAIN f : r \in DOMAIN g /\ Later(r, f[r], g[r])
Grows(w, v) ==
    /\ v.code = w.code /\ v.cache = w.cache /\ v.first = w.first
    /\ w.all \subseteq v.all /\ w.own \subseteq v.own /\ w.completed \subseteq v.completed
    /\ w.got \subseteq v.got /\ w.provided \subseteq v.provided /\ w.resolved \subseteq v.resolved
    /\ w.picked \subseteq v.picked
    /\ \A m \in Module :
        /\ w.items[m] \subseteq v.items[m]
        /\ w.testsImports[m] \subseteq v.testsImports[m] /\ w.testedBy[m] \subseteq v.testedBy[m]
        /\ v.job[m] = w.job[m] \/ v.job[m] \notin w.all
        /\ v.test[m] = w.test[m] \/ v.test[m] \notin w.all
    /\ \A t \in w.all : t.kind # "test" => LaterNeeds(Needs(w, t), Needs(v, t))
    /\ \A m \in w.got : /\ v.items[m] = w.items[m] /\ Needs(v, Import(m)) = Needs(w, Import(m))
                        /\ Needs(v, Resource(m)) = Needs(w, Resource(m))

\* And what one that is about target u, updated or answered, leaves as it is.
Fixed(w, v, u) ==
    /\ v.completed \subseteq w.completed \cup {u}
    /\ \A t \in Target : t # u => (t \in v.ready <=> t \in w.ready)
    /\ \A t \in w.all : /\ t.kind \in {"job", "cached", "testjob", "testcached"}
                        /\ t = u => t.kind \in {"job", "testjob"} /\ Settled(w, t)
                        => Needs(v, t) = Needs(w, t)
    /\ \A i \in v.resolved \ w.resolved : Ready(i) \notin v.completed
    /\ \A i \in v.picked \ w.picked : u = Complete(i)
    /\ Known \in w.completed => v.testsImports = w.testsImports
    /\ \A n \in Module : \A m \in v.testedBy[n] \ w.testedBy[n] : m \notin w.got /\ n \in w.code.tests[m]
    /\ \A m \in Module : Test(m) \in w.completed => v.test[m] = w.test[m]
NewDone(w, v) == \A t \in v.completed \ w.completed : Satisfied(v, Deps(v, t))

Stable(w, t) == Updated(w, t) = w

-----------------------------------------------------------------------------
(* Targets *)

\* Each target is one of its kind, for a module or for an item.
OfItsKind(t) ==
    /\ t.kind \in {"known", "import", "job", "cached", "resource", "ready", "resolved", "complete",
                   "test", "testjob", "testcached"}
    /\ t.kind = "known" => t = Known
    /\ t.kind = "import" => t.of \in Module /\ t = Import(t.of)
    /\ t.kind = "job" => t.of \in Module /\ t.idx \in 1 .. MaxJobs /\ t = ImportJob(t.of, t.idx)
    /\ t.kind = "cached" => t.of \in Module /\ t = Cached(t.of)
    /\ t.kind = "resource" => t.of \in Module /\ t = Resource(t.of)
    /\ t.kind = "ready" => t.of \in Item /\ t = Ready(t.of)
    /\ t.kind = "resolved" => t.of \in Item /\ t = Resolved(t.of)
    /\ t.kind = "complete" => t.of \in Item /\ t = Complete(t.of)
    /\ t.kind = "test" => t.of \in Module /\ t = Test(t.of)
    /\ t.kind = "testjob" => t.of \in Module /\ t.idx \in 1 .. MaxJobs /\ t = TestJob(t.of, t.idx)
    /\ t.kind = "testcached" => t.of \in Module /\ t = TestCached(t.of)

\* A target is one of them.
LEMMA TargetShape == \A t \in Target : OfItsKind(t)
<1> SUFFICES ASSUME NEW t \in Target PROVE OfItsKind(t)
  OBVIOUS
<1>1. \/ t = Known
      \/ \E m \in Module :
            \/ t \in {Import(m), Cached(m), Resource(m), Test(m), TestCached(m)}
            \/ \E k \in 1 .. MaxJobs : t \in {ImportJob(m, k), TestJob(m, k)}
      \/ \E i \in Item : t \in {Ready(i), Resolved(i), Complete(i)}
  BY DEF Target
<1>2. CASE t = Known
  BY <1>2 DEF Known, OfItsKind
<1>3. ASSUME NEW m \in Module, t \in {Import(m), Cached(m), Resource(m), Test(m), TestCached(m)}
      PROVE  OfItsKind(t)
  BY <1>3 DEF Import, Cached, Resource, Test, TestCached, OfItsKind
<1>4. ASSUME NEW m \in Module, NEW k \in 1 .. MaxJobs, t \in {ImportJob(m, k), TestJob(m, k)}
      PROVE  OfItsKind(t)
  BY <1>4 DEF ImportJob, TestJob, OfItsKind
<1>5. ASSUME NEW i \in Item, t \in {Ready(i), Resolved(i), Complete(i)}
      PROVE  OfItsKind(t)
  BY <1>5 DEF Ready, Resolved, Complete, OfItsKind
<1> QED BY <1>1, <1>2, <1>3, <1>4, <1>5

\* Those of a module and of an item are targets.
LEMMA TargetsExist ==
    /\ Known \in Target /\ NoTarget \notin Target
    /\ \A m \in Module :
        /\ Import(m) \in Target /\ Cached(m) \in Target /\ Resource(m) \in Target
        /\ Test(m) \in Target /\ TestCached(m) \in Target
        /\ \A k \in 1 .. MaxJobs : ImportJob(m, k) \in Target /\ TestJob(m, k) \in Target
    /\ \A i \in Item : Ready(i) \in Target /\ Resolved(i) \in Target /\ Complete(i) \in Target
<1>1. \A t \in Target : t.kind # "none"
  BY TargetShape DEF OfItsKind
<1>2. NoTarget \notin Target
  BY <1>1 DEF NoTarget
<1>3. Known \in Target
  BY DEF Target
<1>4. ASSUME NEW m \in Module
      PROVE  /\ Import(m) \in Target /\ Cached(m) \in Target /\ Resource(m) \in Target
             /\ Test(m) \in Target /\ TestCached(m) \in Target
             /\ \A k \in 1 .. MaxJobs : ImportJob(m, k) \in Target /\ TestJob(m, k) \in Target
  BY DEF Target
<1>5. ASSUME NEW i \in Item PROVE Ready(i) \in Target /\ Resolved(i) \in Target /\ Complete(i) \in Target
  BY DEF Target
<1> QED BY <1>2, <1>3, <1>4, <1>5

\* What they are.
LEMMA TargetFields ==
    /\ Known.kind = "known" /\ NoTarget.kind = "none"
    /\ \A m : /\ Import(m).kind = "import" /\ Import(m).of = m
              /\ Cached(m).kind = "cached" /\ Cached(m).of = m
              /\ Resource(m).kind = "resource" /\ Resource(m).of = m
              /\ Test(m).kind = "test" /\ Test(m).of = m
              /\ TestCached(m).kind = "testcached" /\ TestCached(m).of = m
              /\ Ready(m).kind = "ready" /\ Ready(m).of = m
              /\ Resolved(m).kind = "resolved" /\ Resolved(m).of = m
              /\ Complete(m).kind = "complete" /\ Complete(m).of = m
              /\ \A k : /\ ImportJob(m, k).kind = "job" /\ ImportJob(m, k).of = m /\ ImportJob(m, k).idx = k
                        /\ TestJob(m, k).kind = "testjob" /\ TestJob(m, k).of = m /\ TestJob(m, k).idx = k
  BY DEF Known, NoTarget, Import, ImportJob, Cached, Resource, Ready, Resolved, Complete, Test, TestJob, TestCached

-----------------------------------------------------------------------------
(* Stores *)

\* The fields of a program.
LEMMA ProgramTypes ==
    ASSUME NEW p \in Programs
    PROVE  /\ \A m \in Module : /\ p.requires[m] \subseteq Module \cup Item /\ p.uses[m] \subseteq Module \cup Item
                                /\ p.provides[m] \subseteq Item /\ p.tests[m] \subseteq Module
                                /\ p.fixtures[m] \subseteq Module
           /\ p.actors \subseteq Item
           /\ \A i \in Item : p.service[i] \in Item \cup {None}
           /\ \A i \in Item : p.service[i] # None => p.service[i] \in Item /\ p.service[p.service[i]] = None
           /\ \A m, n \in Module, i \in Item : i \in p.provides[m] /\ i \in p.provides[n] => m = n
  BY TargetAssumption

\* The fields of a store.
LEMMA StoreTypes ==
    ASSUME NEW w \in Store
    PROVE  /\ w.code \in Programs
           /\ w.all \subseteq Target /\ w.own \subseteq Target /\ w.completed \subseteq Target
           /\ w.ready \subseteq Target /\ w.first \subseteq Target
           /\ w.job \in [Module -> Target] /\ w.got \subseteq Module
           /\ w.provided \subseteq Item /\ w.resolved \subseteq Item /\ w.picked \subseteq Item
           /\ w.items \in [Module -> SUBSET Item] /\ w.test \in [Module -> Target \cup {NoTarget}]
           /\ w.testsImports \in [Module -> SUBSET Module] /\ w.testedBy \in [Module -> SUBSET Module]
           /\ w.failed \in BOOLEAN
           /\ w.cache.imports \subseteq Module
           /\ DOMAIN w.needs \subseteq Target /\ \A t \in DOMAIN w.needs : w.needs[t] \in NeedMaps
<1>1. PICK targets \in SUBSET Target : w.needs \in [targets -> NeedMaps]
  BY DEF Store
<1> QED BY <1>1 DEF Store

\* What a target needs.
LEMMA NeedsTypes ==
    ASSUME NEW w \in Store, NEW t
    PROVE  /\ Needs(w, t) \in NeedMaps /\ DOMAIN Needs(w, t) \subseteq Module \cup Item
           /\ \A r \in DOMAIN Needs(w, t) : Needs(w, t)[r] \in Target
           /\ t \notin DOMAIN w.needs => DOMAIN Needs(w, t) = {} /\ Range(Needs(w, t)) = {}
<1>1. NoNeeds \in [{} -> Target] /\ DOMAIN NoNeeds = {}
  BY DEF NoNeeds
<1>2. Needs(w, t) \in NeedMaps
  <2>1. NoNeeds \in NeedMaps
    BY <1>1 DEF NeedMaps
  <2> QED BY <2>1, StoreTypes DEF Needs
<1>3. PICK reqs \in SUBSET (Module \cup Item) : Needs(w, t) \in [reqs -> Target]
  BY <1>2 DEF NeedMaps
<1>4. t \notin DOMAIN w.needs => DOMAIN Needs(w, t) = {} /\ Range(Needs(w, t)) = {}
  BY <1>1 DEF Needs, Range
<1> QED BY <1>2, <1>3, <1>4

\* A map of needs.
LEMMA NeedMapsAre ==
    ASSUME NEW reqs, reqs \subseteq Module \cup Item, NEW f, f \in [reqs -> Target]
    PROVE  f \in NeedMaps
  BY DEF NeedMaps

\* Deps by the kind of the target.
LEMMA DepsOf ==
    ASSUME NEW w
    PROVE  /\ Deps(w, Known) = w.first
           /\ \A m : Deps(w, Import(m)) =
                {w.job[m]} \cup Range(Needs(w, Import(m))) \cup IF m \in w.got THEN ImportsOf(Helpers(w, m)) ELSE {}
           /\ \A m, k : Deps(w, ImportJob(m, k)) = Range(Needs(w, ImportJob(m, k)))
           /\ \A m : Deps(w, Cached(m)) = Range(Needs(w, Cached(m)))
           /\ \A m : Deps(w, Resource(m)) =
                {Known, Import(m)} \cup Range(Needs(w, Resource(m))) \cup {Resolved(i) : i \in w.items[m]}
                \cup ImportsOf(w.testsImports[m]) \cup {Test(n) : n \in w.testedBy[m]}
           /\ \A i : Deps(w, Ready(i)) = IF Provided(w, i) THEN {Import(Provider(w, i))} ELSE {Known}
           /\ \A i : Deps(w, Resolved(i)) = {Ready(i)}
           /\ \A i : Deps(w, Complete(i)) =
                {Resolved(i)} \cup ServiceTarget(w, i) \cup IF i \in w.picked THEN {Resource(Provider(w, i))} ELSE {}
           /\ \A m : Deps(w, Test(m)) = ImportsOf(w.code.tests[m]) \cup {w.test[m]}
           /\ \A m, k : Deps(w, TestJob(m, k)) =
                ImportsOf({m} \cup Helpers(w, m)) \cup Range(Needs(w, TestJob(m, k)))
           /\ \A m : Deps(w, TestCached(m)) =
                ImportsOf({m} \cup Helpers(w, m)) \cup Range(Needs(w, TestCached(m)))
<1> USE TargetFields
<1>1. Deps(w, Known) = w.first
  BY DEF Deps
<1>2. ASSUME NEW m
      PROVE  Deps(w, Import(m)) =
                {w.job[m]} \cup Range(Needs(w, Import(m))) \cup IF m \in w.got THEN ImportsOf(Helpers(w, m)) ELSE {}
  BY DEF Deps
<1>3. ASSUME NEW m, NEW k
      PROVE  Deps(w, ImportJob(m, k)) = Range(Needs(w, ImportJob(m, k)))
  BY DEF Deps
<1>4. ASSUME NEW m
      PROVE  Deps(w, Cached(m)) = Range(Needs(w, Cached(m)))
  BY DEF Deps
<1>5. ASSUME NEW m
      PROVE  Deps(w, Resource(m)) =
                {Known, Import(m)} \cup Range(Needs(w, Resource(m))) \cup {Resolved(i) : i \in w.items[m]}
                \cup ImportsOf(w.testsImports[m]) \cup {Test(n) : n \in w.testedBy[m]}
  BY DEF Deps
<1>6. ASSUME NEW i
      PROVE  Deps(w, Ready(i)) = IF Provided(w, i) THEN {Import(Provider(w, i))} ELSE {Known}
  <2>1. Ready(i).kind = "ready" /\ Ready(i).of = i
    OBVIOUS
  <2> HIDE TargetFields
  <2> QED BY <2>1 DEF Deps
<1>7. ASSUME NEW i PROVE Deps(w, Resolved(i)) = {Ready(i)}
  BY DEF Deps
<1>8. ASSUME NEW i
      PROVE  Deps(w, Complete(i)) =
                {Resolved(i)} \cup ServiceTarget(w, i) \cup IF i \in w.picked THEN {Resource(Provider(w, i))} ELSE {}
  BY DEF Deps
<1>9. ASSUME NEW m PROVE Deps(w, Test(m)) = ImportsOf(w.code.tests[m]) \cup {w.test[m]}
  BY DEF Deps
<1>10. ASSUME NEW m, NEW k
       PROVE  Deps(w, TestJob(m, k)) = ImportsOf({m} \cup Helpers(w, m)) \cup Range(Needs(w, TestJob(m, k)))
  <2>1. TestJob(m, k).kind = "testjob" /\ TestJob(m, k).of = m
    OBVIOUS
  <2> HIDE TargetFields
  <2> QED BY <2>1 DEF Deps
<1>11. ASSUME NEW m
       PROVE  Deps(w, TestCached(m)) = ImportsOf({m} \cup Helpers(w, m)) \cup Range(Needs(w, TestCached(m)))
  BY DEF Deps
<1> QED BY <1>1, <1>2, <1>3, <1>4, <1>5, <1>6, <1>7, <1>8, <1>9, <1>10, <1>11

\* What jobs and cached results wait for.
LEMMA DepsOfJobs ==
    ASSUME NEW w, NEW t
    PROVE  /\ t.kind \in {"job", "cached"} => Deps(w, t) = Range(Needs(w, t))
           /\ t.kind \in {"testjob", "testcached"} =>
                Deps(w, t) = ImportsOf({t.of} \cup Helpers(w, t.of)) \cup Range(Needs(w, t))
<1>1. ASSUME t.kind \in {"job", "cached"} PROVE Deps(w, t) = Range(Needs(w, t))
  BY <1>1 DEF Deps
<1>2. ASSUME t.kind \in {"testjob", "testcached"}
      PROVE  Deps(w, t) = ImportsOf({t.of} \cup Helpers(w, t.of)) \cup Range(Needs(w, t))
  BY <1>2 DEF Deps
<1> QED BY <1>1, <1>2
-----------------------------------------------------------------------------
(* What the parts of the invariant say together *)

\* The provider of an item is the one module that has it.
LEMMA ProviderIs ==
    ASSUME NEW w, w.code \in Programs, NEW i \in Item, NEW m \in Module, i \in w.code.provides[m]
    PROVE  Provider(w, i) = m
<1>1. i \in w.code.provides[Provider(w, i)] /\ Provider(w, i) \in Module
  BY DEF Provider
<1> QED BY <1>1, ProgramTypes

\* What is below a completed import, resource or test is completed.
LEMMA Below ==
    ASSUME NEW w, SatInv(w), JobsInv(w), NEW m \in Module
    PROVE  /\ Import(m) \in w.completed => m \in w.got /\ w.job[m] \in w.completed
           /\ Resource(m) \in w.completed => Import(m) \in w.completed /\ Known \in w.completed
           /\ Test(m) \in w.completed => w.test[m] \in w.completed
<1>1. Import(m) \in w.completed => w.job[m] \in w.completed
  <2>1. w.job[m] \in Deps(w, Import(m))
    BY DepsOf
  <2> QED BY <2>1 DEF SatInv, Satisfied
<1>2. Resource(m) \in w.completed => Import(m) \in w.completed /\ Known \in w.completed
  <2>1. {Known, Import(m)} \subseteq Deps(w, Resource(m))
    BY DepsOf
  <2> QED BY <2>1 DEF SatInv, Satisfied
<1>3. Test(m) \in w.completed => w.test[m] \in w.completed
  <2>1. w.test[m] \in Deps(w, Test(m))
    BY DepsOf
  <2> QED BY <2>1 DEF SatInv, Satisfied
<1> QED BY <1>1, <1>2, <1>3 DEF JobsInv

\* When the imports are known, so are the modules that test a module.
LEMMA KnownTests ==
    ASSUME NEW w, SatInv(w), FoundInv(w), Known \in w.completed, NEW m \in Module, NEW n \in w.code.tests[m]
    PROVE  m \in w.testsImports[n]
<1>1. w.first \subseteq w.completed
  BY DepsOf DEF SatInv, Satisfied
<1> QED BY <1>1 DEF FoundInv

\* A resource is completed after the tests of its module.
LEMMA ResourceAfterTests ==
    ASSUME NEW w, w \in Store, SatInv(w), JobsInv(w), TestsInv(w), FoundInv(w),
           NEW m \in Module, NEW n \in w.code.tests[m], n \in Module, Resource(n) \in w.completed
    PROVE  m \in w.got /\ Test(m) \in w.completed
<1>1. Known \in w.completed /\ Deps(w, Resource(n)) \subseteq w.completed
  BY Below DEF SatInv, Satisfied
<1>2. m \in w.testsImports[n]
  BY <1>1, KnownTests
<1>3. Import(m) \in w.completed
  BY <1>1, <1>2, DepsOf DEF ImportsOf
<1>4. m \in w.got
  BY <1>3, Below
<1>5. IsTests(w, m)
  BY DEF IsTests
<1>6. m \in w.testedBy[n]
  BY <1>4, <1>5 DEF TestsInv
<1>7. Test(m) \in Deps(w, Resource(n))
  BY <1>6, DepsOf
<1> QED BY <1>1, <1>4, <1>7

-----------------------------------------------------------------------------
(* Steps *)

\* What is completed in v stands over completed deps, when that was so in w and what
\* is new does.
LEMMA SatKept ==
    ASSUME NEW w, StoreInv(w), NEW v, v \in Store, JobsInv(v), NEW u, u \notin w.completed,
           Grows(w, v), Fixed(w, v, u), NewDone(w, v)
    PROVE  SatInv(v)
<1> SUFFICES ASSUME NEW t \in w.completed PROVE Deps(v, t) \subseteq v.completed
  BY DEF SatInv, NewDone, Satisfied
<1>w. /\ w \in Store /\ SatInv(w) /\ JobsInv(w) /\ TestsInv(w) /\ FoundInv(w) /\ ItemsInv(w)
      /\ ClosedInv(w) /\ w.completed \subseteq w.all
  BY DEF StoreInv, ClosedInv
<1>d. Deps(w, t) \subseteq w.completed /\ w.completed \subseteq v.completed
  BY <1>w DEF SatInv, Satisfied, Grows
<1>t. t \in Target /\ OfItsKind(t) /\ t \in w.all /\ t # u
  BY <1>w, StoreTypes, TargetShape
<1>c. v.code = w.code /\ v.first = w.first
  BY DEF Grows
<1>1. CASE t.kind = "known"
  BY <1>1, <1>d, <1>t, <1>c, DepsOf DEF OfItsKind
<1>2. CASE t.kind = "import"
  <2> DEFINE m == t.of
  <2>1. m \in Module /\ t = Import(m)
    BY <1>2, <1>t DEF OfItsKind
  <2> HIDE DEF m
  <2>2. m \in w.got /\ m \in v.got
    BY <2>1, <1>w, Below DEF Grows
  <2>3. v.job[m] \in v.completed
    BY <2>1, <2>2 DEF JobsInv
  <2>4. Needs(v, Import(m)) = Needs(w, Import(m)) /\ Helpers(v, m) = Helpers(w, m)
    BY <2>2, <1>c DEF Grows, Helpers
  <2> QED BY <2>1, <2>2, <2>3, <2>4, <1>d, DepsOf
<1>3. CASE t.kind \in {"job", "cached", "testjob", "testcached"}
  <2>1. Needs(v, t) = Needs(w, t)
    BY <1>3, <1>t DEF Fixed
  <2>2. Helpers(v, t.of) = Helpers(w, t.of)
    BY <1>c DEF Helpers
  <2>3. Deps(v, t) = Deps(w, t)
    BY <2>1, <2>2, <1>3, DepsOfJobs
  <2> QED BY <2>3, <1>d
<1>4. CASE t.kind = "resource"
  <2> DEFINE m == t.of
  <2>1. m \in Module /\ t = Resource(m)
    BY <1>4, <1>t DEF OfItsKind
  <2> HIDE DEF m
  <2>2. m \in w.got /\ Known \in w.completed
    BY <2>1, <1>w, Below
  <2>3. v.items[m] = w.items[m] /\ Needs(v, Resource(m)) = Needs(w, Resource(m))
    BY <2>2 DEF Grows
  <2>4. v.testsImports[m] = w.testsImports[m]
    BY <2>2 DEF Fixed
  <2>5. v.testedBy[m] = w.testedBy[m]
    <3>1. ASSUME NEW n \in v.testedBy[m] \ w.testedBy[m] PROVE FALSE
      <4>1. n \in Module
        BY <2>1, StoreTypes
      <4>2. n \notin w.got /\ m \in w.code.tests[n]
        BY <2>1 DEF Fixed
      <4> QED BY <4>1, <4>2, <2>1, <1>w, ResourceAfterTests
    <3> QED BY <3>1, <2>1 DEF Grows
  <2> QED BY <2>1, <2>3, <2>4, <2>5, <1>d, DepsOf
<1>5. CASE t.kind = "ready"
  <2> DEFINE i == t.of
  <2>1. i \in Item /\ t = Ready(i)
    BY <1>5, <1>t DEF OfItsKind
  <2> HIDE DEF i
  <2>2. Provided(w, i) /\ Provided(v, i)
    BY <2>1, <1>w DEF ItemsInv, Provided, Grows
  <2>3. Provider(v, i) = Provider(w, i)
    BY <1>c DEF Provider
  <2> QED BY <2>1, <2>2, <2>3, <1>d, DepsOf
<1>6. CASE t.kind = "resolved"
  BY <1>6, <1>d, <1>t, DepsOf DEF OfItsKind
<1>7. CASE t.kind = "complete"
  <2> DEFINE i == t.of
  <2>1. i \in Item /\ t = Complete(i)
    BY <1>7, <1>t DEF OfItsKind
  <2> HIDE DEF i
  <2>2. i \in w.picked /\ i \in v.picked
    BY <2>1, <1>w DEF ItemsInv, Grows
  <2>3. Provider(v, i) = Provider(w, i) /\ ServiceTarget(v, i) = ServiceTarget(w, i)
    BY <1>c DEF Provider, ServiceTarget
  <2> QED BY <2>1, <2>2, <2>3, <1>d, DepsOf
<1>8. CASE t.kind = "test"
  <2> DEFINE m == t.of
  <2>1. m \in Module /\ t = Test(m)
    BY <1>8, <1>t DEF OfItsKind
  <2> HIDE DEF m
  <2>2. v.test[m] = w.test[m]
    BY <2>1 DEF Fixed
  <2> QED BY <2>1, <2>2, <1>c, <1>d, DepsOf
<1> QED BY <1>1, <1>2, <1>3, <1>4, <1>5, <1>6, <1>7, <1>8, <1>t DEF OfItsKind

\* A job that has nothing left to wait for has not in v.
LEMMA SettledKept ==
    ASSUME NEW w, StoreInv(w), NEW v, NEW u, Grows(w, v), Fixed(w, v, u),
           NEW t \in w.all, t.kind \in {"job", "testjob"}, Settled(w, t)
    PROVE  Settled(v, t) /\ Needs(v, t) = Needs(w, t) /\ Deps(v, t) = Deps(w, t)
<1>w. w \in Store /\ ClosedInv(w)
  BY DEF StoreInv
<1>t. t \in Target /\ OfItsKind(t)
  BY <1>w, StoreTypes, TargetShape
<1>c. v.code = w.code /\ w.completed \subseteq v.completed /\ w.code \in Programs
  BY <1>w, StoreTypes DEF Grows
<1>1. Needs(v, t) = Needs(w, t)
  BY DEF Fixed
<1>2. Helpers(v, t.of) = Helpers(w, t.of)
  BY <1>c DEF Helpers
<1>3. Deps(v, t) = Deps(w, t)
  BY <1>1, <1>2, DepsOfJobs
<1>4. Satisfied(v, Deps(v, t)) /\ Deps(w, t) \subseteq w.completed
  BY <1>3, <1>c DEF Satisfied, Settled
<1>5. ASSUME t.kind = "testjob"
      PROVE  /\ PickedReqs(v, t) \subseteq DOMAIN Needs(v, t)
             /\ \A r \in DOMAIN Needs(v, t) : Needs(v, t)[r] = TargetIn(v, v.code.tests[t.of], r)
  <2>1. PickedReqs(w, t) \subseteq DOMAIN Needs(w, t)
        /\ \A r \in DOMAIN Needs(w, t) : Needs(w, t)[r] = TargetIn(w, w.code.tests[t.of], r)
    BY <1>5 DEF Settled
  <2>2. \A n \in Helpers(w, t.of) : Import(n) \in w.completed
    BY <1>4, <1>5, <1>t, DepsOf DEF OfItsKind, ImportsOf
  <2>3. PickedReqs(v, t) = PickedReqs(w, t)
    BY <2>2, <1>2, <1>c DEF PickedReqs
  <2>4. ASSUME NEW r \in DOMAIN Needs(w, t)
        PROVE  TargetIn(v, w.code.tests[t.of], r) = TargetIn(w, w.code.tests[t.of], r)
    <3> DEFINE tested == w.code.tests[t.of]
    <3>1. Provider(v, r) = Provider(w, r)
      BY <1>c DEF Provider
    <3>2. Needs(w, t)[r] \in w.completed
      <4>1. Needs(w, t)[r] \in Range(Needs(w, t))
        BY DEF Range
      <4>2. Range(Needs(w, t)) \subseteq Deps(w, t)
        BY <1>5, DepsOfJobs
      <4> QED BY <4>1, <4>2, <1>4
    <3>3. CASE TargetIn(w, tested, r) = Resolved(r)
      <4>1. Resolved(r) \in w.completed
        BY <3>3, <3>2, <2>1
      <4> QED BY <4>1, <3>1, <1>c DEF TargetIn
    <3>4. CASE TargetIn(w, tested, r) # Resolved(r)
      BY <3>4, <3>1, <1>c DEF TargetIn
    <3> QED BY <3>3, <3>4
  <2> QED BY <2>1, <2>3, <2>4, <1>1, <1>c
<1> QED BY <1>1, <1>3, <1>4, <1>5 DEF Settled

\* What a target needs, for a requirement: the import or the resource of a module, an
\* item as it is resolved or completed.
LEMMA NeedsAre ==
    ASSUME NEW w, w \in Store, NeedsExist(w), NEW t, NEW r \in DOMAIN Needs(w, t)
    PROVE  /\ Needs(w, t)[r] \in w.all /\ t \in DOMAIN w.needs /\ t \in w.all
           /\ r \in Module \/ r \in Item
           /\ r \in Module => Needs(w, t)[r] \in {Import(r), Resource(r)} /\ Resource(r) \in w.own
           /\ r \in Item => Needs(w, t)[r] \in {Resolved(r), Complete(r)}
           /\ Needs(w, t)[r].of = r
           /\ Needs(w, t)[r].kind \in {"import", "resource", "resolved", "complete"}
<1>1. t \in DOMAIN w.needs /\ r \in Module \cup Item
  BY NeedsTypes
<1>2. Needs(w, t) = w.needs[t]
  BY <1>1 DEF Needs
<1>3. /\ r \in Module => Needs(w, t)[r] \in {Import(r), Resource(r)} /\ Resource(r) \in w.own
      /\ r \in Item => Needs(w, t)[r] \in {Resolved(r), Complete(r)}
      /\ Needs(w, t)[r] \in w.all /\ t \in w.all
  BY <1>1, <1>2 DEF NeedsExist
<1> QED BY <1>1, <1>3, TargetFields

\* The relation between needs is transitive.
LEMMA LaterNeedsTrans ==
    ASSUME NEW f, NEW g, NEW h, LaterNeeds(f, g), LaterNeeds(g, h)
    PROVE  LaterNeeds(f, h)
<1> SUFFICES ASSUME NEW r \in DOMAIN f
             PROVE  r \in DOMAIN h /\ Later(r, f[r], h[r])
  BY DEF LaterNeeds
<1>1. r \in DOMAIN g /\ Later(r, f[r], g[r])
  BY DEF LaterNeeds
<1>2. r \in DOMAIN h /\ Later(r, g[r], h[r])
  BY <1>1 DEF LaterNeeds
<1> QED BY <1>1, <1>2, TargetFields DEF Later

\* Several steps keep what each of them does.
LEMMA GrowsTrans ==
    ASSUME NEW w, NEW v, NEW x, Grows(w, v), Grows(v, x)
    PROVE  Grows(w, x)
<1>1. /\ x.code = w.code /\ x.cache = w.cache /\ x.first = w.first
      /\ w.all \subseteq x.all /\ w.own \subseteq x.own /\ w.completed \subseteq x.completed
      /\ w.got \subseteq x.got /\ w.provided \subseteq x.provided /\ w.resolved \subseteq x.resolved
      /\ w.picked \subseteq x.picked
  BY DEF Grows
<1>2. ASSUME NEW m \in Module
      PROVE  /\ w.items[m] \subseteq x.items[m]
             /\ w.testsImports[m] \subseteq x.testsImports[m] /\ w.testedBy[m] \subseteq x.testedBy[m]
             /\ x.job[m] = w.job[m] \/ x.job[m] \notin w.all
             /\ x.test[m] = w.test[m] \/ x.test[m] \notin w.all
  BY DEF Grows
<1>3. ASSUME NEW t \in w.all, t.kind # "test" PROVE LaterNeeds(Needs(w, t), Needs(x, t))
  <2>1. LaterNeeds(Needs(w, t), Needs(v, t)) /\ LaterNeeds(Needs(v, t), Needs(x, t))
    BY <1>3 DEF Grows
  <2> QED BY <2>1, LaterNeedsTrans
<1>4. ASSUME NEW m \in w.got
      PROVE  /\ x.items[m] = w.items[m] /\ Needs(x, Import(m)) = Needs(w, Import(m))
             /\ Needs(x, Resource(m)) = Needs(w, Resource(m))
  <2>1. m \in v.got
    BY DEF Grows
  <2> QED BY <2>1 DEF Grows
<1> QED BY <1>1, <1>2, <1>3, <1>4 DEF Grows

\* Needs that have changed do not change back.
LEMMA NeedsBack ==
    ASSUME NEW f, NEW g, NEW h, LaterNeeds(f, g), LaterNeeds(g, h), NEW set,
           \A t \in set : t.kind = "import",
           \A r \in DOMAIN f : f[r].of = r, \A r \in DOMAIN h : h[r].of = r,
           Range(h) \cup set = Range(f) \cup set
    PROVE  Range(g) \cup set = Range(f) \cup set
<1>1. ASSUME NEW r \in DOMAIN g PROVE g[r] \in Range(f) \cup set
  <2>1. r \in DOMAIN h /\ Later(r, g[r], h[r])
    BY DEF LaterNeeds
  <2>2. h[r] \in Range(f) \cup set
    BY <2>1 DEF Range
  <2>3. CASE g[r] # h[r]
    <3>1. h[r] \in {Complete(r), Resource(r)} /\ g[r] \in {Resolved(r), Import(r)}
      BY <2>1, <2>3 DEF Later
    <3>2. PICK s \in DOMAIN f : f[s] = h[r]
      BY <2>2, <3>1, TargetFields DEF Range
    <3>3. s = r
      BY <3>1, <3>2, TargetFields
    <3>4. Later(r, f[r], g[r])
      BY <3>2, <3>3 DEF LaterNeeds
    <3> QED BY <3>1, <3>2, <3>3, <3>4, <2>1, TargetFields DEF Later
  <2> QED BY <2>2, <2>3
<1>2. ASSUME NEW r \in DOMAIN f PROVE f[r] \in Range(g) \cup set
  <2>1. r \in DOMAIN g /\ Later(r, f[r], g[r])
    BY DEF LaterNeeds
  <2>2. CASE f[r] # g[r] /\ f[r] \notin set
    <3>1. f[r] \in {Resolved(r), Import(r)} /\ g[r] \in {Complete(r), Resource(r)}
      BY <2>1, <2>2 DEF Later
    <3>2. PICK s \in DOMAIN h : h[s] = f[r]
      <4>1. f[r] \in Range(h) \cup set
        BY DEF Range
      <4> QED BY <4>1, <2>2 DEF Range
    <3>3. s = r
      BY <3>1, <3>2, TargetFields
    <3>4. Later(r, g[r], h[r])
      BY <2>1 DEF LaterNeeds
    <3> QED BY <3>1, <3>2, <3>3, <3>4, TargetFields DEF Later
  <2> QED BY <2>1, <2>2 DEF Range
<1> QED BY <1>1, <1>2 DEF Range

\* Nor do deps.
LEMMA DepsBack ==
    ASSUME NEW w, StoreInv(w), NEW v, StoreInv(v), NEW x, StoreInv(x), Grows(w, v), Grows(v, x),
           NEW t \in w.all, Deps(x, t) = Deps(w, t)
    PROVE  Deps(v, t) = Deps(w, t)
<1>w. /\ w \in Store /\ NeedsExist(w) /\ NeedsExist(v) /\ NeedsExist(x) /\ JobsInv(w) /\ TestsInv(w)
      /\ v \in Store /\ x \in Store /\ ItemsInv(w) /\ ItemsInv(v) /\ ItemsInv(x)
      /\ w.own \subseteq w.all /\ TestsInv(x) /\ JobsInv(x)
  BY DEF StoreInv, ClosedInv
<1>t. t \in Target /\ OfItsKind(t)
  BY <1>w, StoreTypes, TargetShape
<1>c. /\ v.code = w.code /\ v.first = w.first /\ x.code = w.code /\ Grows(w, x)
      /\ w.got \subseteq v.got /\ v.got \subseteq x.got
  BY GrowsTrans DEF Grows
<1>h. \A n : Helpers(v, n) = Helpers(w, n) /\ Helpers(x, n) = Helpers(w, n)
  BY <1>c DEF Helpers
<1>1. CASE t.kind = "known"
  BY <1>1, <1>t, <1>c, DepsOf DEF OfItsKind
<1>2. CASE t.kind = "import"
  <2> DEFINE m == t.of
  <2>1. m \in Module /\ t = Import(m)
    BY <1>2, <1>t DEF OfItsKind
  <2> HIDE DEF m
  <2> DEFINE helpers == ImportsOf(Helpers(w, m))
             below(s) == IF m \in s.got THEN helpers ELSE {}
  <2>d. \A s : Deps(s, Import(m)) =
          {s.job[m]} \cup Range(Needs(s, Import(m))) \cup IF m \in s.got THEN ImportsOf(Helpers(s, m)) ELSE {}
    BY DepsOf
  <2>e. /\ Deps(w, t) = {w.job[m]} \cup Range(Needs(w, t)) \cup below(w)
        /\ Deps(v, t) = {v.job[m]} \cup Range(Needs(v, t)) \cup below(v)
        /\ Deps(x, t) = {x.job[m]} \cup Range(Needs(x, t)) \cup below(x)
    <3>1. Helpers(v, m) = Helpers(w, m) /\ Helpers(x, m) = Helpers(w, m)
      BY <1>h
    <3> QED BY <2>1, <2>d, <3>1
  <2>i. \A s \in helpers : s.kind = "import"
    BY TargetFields DEF ImportsOf
  <2>b. /\ below(w) = IF m \in w.got THEN helpers ELSE {}
        /\ below(v) = IF m \in v.got THEN helpers ELSE {}
        /\ below(x) = IF m \in x.got THEN helpers ELSE {}
    OBVIOUS
  <2> HIDE DEF helpers, below
  <2>2. /\ w.job[m].kind \in {"job", "cached"} /\ x.job[m].kind \in {"job", "cached"} /\ w.job[m] \in w.all
    BY <2>1, <1>w, TargetFields DEF JobsInv
  <2>3. x.job[m] = w.job[m]
    <3>1. w.job[m] \in Deps(x, t)
      BY <2>e
    <3>2. w.job[m] \notin Range(Needs(x, t))
      BY <2>2, <1>w, NeedsAre DEF Range
    <3>3. w.job[m] \notin below(x)
      <4>1. w.job[m].kind # "import"
        BY <2>2
      <4> QED BY <4>1, <2>i, <2>b
    <3> QED BY <2>e, <3>1, <3>2, <3>3
  <2>4. v.job[m] = w.job[m]
    <3>1. v.job[m] = w.job[m] \/ v.job[m] \notin w.all
      BY <2>1 DEF Grows
    <3>2. x.job[m] = v.job[m] \/ x.job[m] \notin v.all
      BY <2>1 DEF Grows
    <3>3. w.all \subseteq v.all
      BY DEF Grows
    <3> QED BY <3>1, <3>2, <3>3, <2>2, <2>3
  <2>5. CASE m \in w.got
    <3>1. Needs(v, t) = Needs(w, t) /\ m \in v.got
      BY <2>5, <2>1, <1>c DEF Grows
    <3>2. below(v) = below(w)
      BY <2>5, <3>1, <2>b
    <3> QED BY <2>4, <2>e, <3>1, <3>2
  <2>6. CASE m \notin w.got
    <3>1. Range(Needs(w, t)) = {}
      BY <2>6, <2>1, <1>w, NeedsTypes DEF ItemsInv
    <3>2. Deps(w, t) = {w.job[m]}
      BY <2>6, <2>b, <2>e, <3>1
    <3>3. CASE m \in v.got
      <4>1. Needs(x, t) = Needs(v, t) /\ m \in x.got
        BY <3>3, <2>1, <1>c DEF Grows
      <4>2. below(x) = below(v)
        BY <3>3, <4>1, <2>b
      <4>3. Deps(v, t) = Deps(x, t)
        BY <4>1, <4>2, <2>3, <2>4, <2>e
      <4> QED BY <4>3
    <3>4. CASE m \notin v.got
      <4>1. Range(Needs(v, t)) = {}
        BY <3>4, <2>1, <1>w, NeedsTypes DEF ItemsInv
      <4>2. below(v) = {}
        BY <3>4, <2>b
      <4> QED BY <4>1, <4>2, <3>2, <2>4, <2>e
    <3> QED BY <3>3, <3>4
  <2> QED BY <2>5, <2>6
<1>3. CASE t.kind \in {"job", "cached", "testjob", "testcached"}
  <2> DEFINE set == IF t.kind \in {"job", "cached"} THEN {} ELSE ImportsOf({t.of} \cup Helpers(w, t.of))
  <2>1. /\ Deps(w, t) = Range(Needs(w, t)) \cup set
        /\ Deps(v, t) = Range(Needs(v, t)) \cup set
        /\ Deps(x, t) = Range(Needs(x, t)) \cup set
    <3>1. Helpers(v, t.of) = Helpers(w, t.of) /\ Helpers(x, t.of) = Helpers(w, t.of)
      BY <1>h
    <3>2. CASE t.kind \in {"job", "cached"}
      <4>1. \A s : Deps(s, t) = Range(Needs(s, t))
        BY <3>2, DepsOfJobs
      <4> QED BY <3>2, <4>1
    <3>3. CASE t.kind \in {"testjob", "testcached"}
      <4>1. \A s : Deps(s, t) = ImportsOf({t.of} \cup Helpers(s, t.of)) \cup Range(Needs(s, t))
        BY <3>3, DepsOfJobs
      <4>2. set = ImportsOf({t.of} \cup Helpers(w, t.of))
        BY <3>3
      <4> QED BY <3>1, <4>1, <4>2
    <3> QED BY <1>3, <3>2, <3>3
  <2>2. \A s \in set : s.kind = "import"
    BY TargetFields DEF ImportsOf
  <2>3. LaterNeeds(Needs(w, t), Needs(v, t)) /\ LaterNeeds(Needs(v, t), Needs(x, t))
    BY <1>3 DEF Grows
  <2>4. (\A r \in DOMAIN Needs(w, t) : Needs(w, t)[r].of = r) /\ (\A r \in DOMAIN Needs(x, t) : Needs(x, t)[r].of = r)
    BY <1>w, NeedsAre
  <2> HIDE DEF set
  <2>5. Range(Needs(v, t)) \cup set = Range(Needs(w, t)) \cup set
    BY <2>1, <2>2, <2>3, <2>4, NeedsBack
  <2> QED BY <2>1, <2>5
<1>4. CASE t.kind = "resource"
  <2> DEFINE m == t.of
  <2>1. m \in Module /\ t = Resource(m)
    BY <1>4, <1>t DEF OfItsKind
  <2> HIDE DEF m
  <2>2. /\ w.testsImports[m] \subseteq v.testsImports[m] /\ v.testsImports[m] \subseteq x.testsImports[m]
        /\ w.testedBy[m] \subseteq v.testedBy[m] /\ v.testedBy[m] \subseteq x.testedBy[m]
        /\ w.items[m] \subseteq v.items[m] /\ v.items[m] \subseteq x.items[m]
    BY <2>1 DEF Grows
  <2>3. Range(Needs(w, t)) \subseteq Range(Needs(v, t)) /\ Range(Needs(v, t)) \subseteq Range(Needs(x, t))
    <3>1. m \in w.got => Needs(v, t) = Needs(w, t)
      BY <2>1 DEF Grows
    <3>2. m \in v.got => Needs(x, t) = Needs(v, t)
      BY <2>1 DEF Grows
    <3>3. m \notin w.got => Range(Needs(w, t)) = {}
      BY <2>1, <1>w, NeedsTypes DEF ItemsInv
    <3>4. m \notin v.got => Range(Needs(v, t)) = {}
      BY <2>1, <1>w, NeedsTypes DEF ItemsInv
    <3> QED BY <3>1, <3>2, <3>3, <3>4
  <2>d. \A s : Deps(s, t) = {Known, Import(m)} \cup Range(Needs(s, t)) \cup {Resolved(i) : i \in s.items[m]}
                          \cup ImportsOf(s.testsImports[m]) \cup {Test(n) : n \in s.testedBy[m]}
    BY <2>1, DepsOf
  <2>4. Deps(w, t) \subseteq Deps(v, t)
    BY <2>2, <2>3, <2>d DEF ImportsOf
  <2>5. Deps(v, t) \subseteq Deps(x, t)
    BY <2>2, <2>3, <2>d DEF ImportsOf
  <2> QED BY <2>4, <2>5
<1>5. CASE t.kind = "ready"
  <2> DEFINE i == t.of
  <2>1. i \in Item /\ t = Ready(i)
    BY <1>5, <1>t DEF OfItsKind
  <2> HIDE DEF i
  <2>2. Provider(v, i) = Provider(w, i) /\ Provider(x, i) = Provider(w, i)
    BY <1>c DEF Provider
  <2>3. (Provided(w, i) => Provided(v, i)) /\ (Provided(v, i) => Provided(x, i))
    BY DEF Provided, Grows
  <2>4. Known # Import(Provider(w, i))
    BY TargetFields
  <2>5. \A s : Deps(s, t) = IF Provided(s, i) THEN {Import(Provider(s, i))} ELSE {Known}
    BY <2>1, DepsOf
  <2> QED BY <2>2, <2>3, <2>4, <2>5
<1>6. CASE t.kind = "resolved"
  <2> DEFINE i == t.of
  <2>1. i \in Item /\ t = Resolved(i)
    BY <1>6, <1>t DEF OfItsKind
  <2> HIDE DEF i
  <2>2. \A s : Deps(s, t) = {Ready(i)}
    BY <2>1, DepsOf
  <2> QED BY <2>2
<1>7. CASE t.kind = "complete"
  <2> DEFINE i == t.of
  <2>1. i \in Item /\ t = Complete(i)
    BY <1>7, <1>t DEF OfItsKind
  <2> HIDE DEF i
  <2>2. /\ Provider(v, i) = Provider(w, i) /\ Provider(x, i) = Provider(w, i)
        /\ ServiceTarget(v, i) = ServiceTarget(w, i) /\ ServiceTarget(x, i) = ServiceTarget(w, i)
    BY <1>c DEF Provider, ServiceTarget
  <2>3. (i \in w.picked => i \in v.picked) /\ (i \in v.picked => i \in x.picked)
    BY DEF Grows
  <2>4. \A s : Deps(s, t) = {Resolved(i)} \cup ServiceTarget(s, i)
                          \cup IF i \in s.picked THEN {Resource(Provider(s, i))} ELSE {}
    BY <2>1, DepsOf
  <2> QED BY <2>2, <2>3, <2>4
<1>8. CASE t.kind = "test"
  <2> DEFINE m == t.of
  <2>1. m \in Module /\ t = Test(m)
    BY <1>8, <1>t DEF OfItsKind
  <2> HIDE DEF m
  <2>2. w.test[m] # NoTarget
    BY <2>1, <1>w DEF TestsInv
  <2>3. w.test[m].kind \in {"testjob", "testcached"} /\ w.test[m] \in w.all
    BY <2>1, <2>2, <1>w, TargetFields DEF TestsInv
  <2>6. \A s : Deps(s, t) = ImportsOf(s.code.tests[m]) \cup {s.test[m]}
    BY <2>1, DepsOf
  <2>4. x.test[m] = w.test[m]
    <3>1. w.test[m] \in Deps(x, t)
      BY <2>6
    <3>2. w.test[m] \notin ImportsOf(x.code.tests[m])
      BY <2>3, TargetFields DEF ImportsOf
    <3> QED BY <3>1, <3>2, <2>6
  <2>5. v.test[m] = w.test[m]
    <3>1. v.test[m] = w.test[m] \/ v.test[m] \notin w.all
      BY <2>1 DEF Grows
    <3>2. x.test[m] = v.test[m] \/ x.test[m] \notin v.all
      BY <2>1 DEF Grows
    <3>3. w.all \subseteq v.all
      BY DEF Grows
    <3> QED BY <3>1, <3>2, <3>3, <2>3, <2>4
  <2> QED BY <2>5, <2>6, <1>c
<1> QED BY <1>1, <1>2, <1>3, <1>4, <1>5, <1>6, <1>7, <1>8, <1>t DEF OfItsKind

-----------------------------------------------------------------------------
(* What the methods change *)

\* An item and its service.
LEMMA ItemTargetsAre ==
    ASSUME NEW w, w.code \in Programs, NEW i \in Item
    PROVE  /\ ItemTargets(w, i) \subseteq Target
           /\ {Ready(i), Resolved(i), Complete(i)} \subseteq ItemTargets(w, i)
           /\ \A t \in ItemTargets(w, i) : t.kind \in {"ready", "resolved", "complete"}
           /\ \A j \in Item : Resolved(j) \in ItemTargets(w, i) => Ready(j) \in ItemTargets(w, i)
           /\ \A j \in Item : Complete(j) \in ItemTargets(w, i) => ItemTargets(w, j) \subseteq ItemTargets(w, i)
           /\ ServiceTarget(w, i) \subseteq ItemTargets(w, i)
<1> DEFINE items(j) == {j} \cup ({w.code.service[j]} \ {None})
<1>1. \A j : ItemTargets(w, j) = UNION {{Ready(k), Resolved(k), Complete(k)} : k \in items(j)}
  BY DEF ItemTargets
<1>2. items(i) \subseteq Item
  BY ProgramTypes
<1>3. \A j \in items(i) : items(j) \subseteq items(i)
  BY ProgramTypes
<1>s. ServiceTarget(w, i) = {Complete(s) : s \in {w.code.service[i]} \ {None}}
  BY DEF ServiceTarget
<1>i. i \in items(i) /\ {w.code.service[i]} \ {None} \subseteq items(i)
  OBVIOUS
<1> HIDE DEF items
<1>4. ItemTargets(w, i) \subseteq Target
  <2> SUFFICES ASSUME NEW t \in ItemTargets(w, i) PROVE t \in Target
    OBVIOUS
  <2>1. PICK k \in items(i) : t \in {Ready(k), Resolved(k), Complete(k)}
    BY <1>1
  <2> QED BY <2>1, <1>2, TargetsExist
<1>5. {Ready(i), Resolved(i), Complete(i)} \subseteq ItemTargets(w, i) /\ ServiceTarget(w, i) \subseteq ItemTargets(w, i)
  BY <1>1, <1>s, <1>i
<1>6. ASSUME NEW t \in ItemTargets(w, i) PROVE t.kind \in {"ready", "resolved", "complete"}
  <2>1. PICK k \in items(i) : t \in {Ready(k), Resolved(k), Complete(k)}
    BY <1>1
  <2> QED BY <2>1, TargetFields
<1>7. ASSUME NEW j \in Item, Resolved(j) \in ItemTargets(w, i) PROVE Ready(j) \in ItemTargets(w, i)
  <2>1. PICK k \in items(i) : Resolved(j) \in {Ready(k), Resolved(k), Complete(k)}
    BY <1>1, <1>7
  <2>2. k = j
    BY <2>1, TargetFields
  <2> QED BY <2>2, <1>1
<1>8. ASSUME NEW j \in Item, Complete(j) \in ItemTargets(w, i) PROVE ItemTargets(w, j) \subseteq ItemTargets(w, i)
  <2>1. PICK k \in items(i) : Complete(j) \in {Ready(k), Resolved(k), Complete(k)}
    BY <1>1, <1>8
  <2>2. k = j
    BY <2>1, TargetFields
  <2> QED BY <2>2, <1>1, <1>3
<1> QED BY <1>4, <1>5, <1>6, <1>7, <1>8

\* The target of a requirement, and those that are made for it.
LEMMA TargetsForAre ==
    ASSUME NEW w, w.code \in Programs, NEW r \in Module \cup Item
    PROVE  /\ TargetsFor(w, r) \subseteq Target
           /\ \A t \in TargetsFor(w, r) : t.kind \in {"ready", "resolved", "complete"} \/ (t = Resource(r) /\ r \in Module)
           /\ \A j \in Item : Resolved(j) \in TargetsFor(w, r) => Ready(j) \in TargetsFor(w, r)
           /\ \A j \in Item : Complete(j) \in TargetsFor(w, r) => ItemTargets(w, j) \subseteq TargetsFor(w, r)
           /\ r \in Module => TargetsFor(w, r) = {Resource(r)}
           /\ \A tested : r \in Item /\ tested \subseteq Module =>
                TargetIn(w, tested, r) \in TargetsFor(w, r) \cap {Resolved(r), Complete(r)}
<1>1. CASE r \in Module
  <2>1. TargetsFor(w, r) = {Resource(r)} /\ r \notin Item
    BY <1>1, TargetAssumption DEF TargetsFor
  <2> QED BY <1>1, <2>1, TargetsExist, TargetFields
<1>2. CASE r \in Item
  <2>0. r \notin Module
    BY <1>2, TargetAssumption
  <2>1. \A tested : tested \subseteq Module => TargetIn(w, tested, r) \in {Resolved(r), Complete(r)}
    BY <2>0 DEF TargetIn
  <2>2. CASE TargetOf(w, r) = Resolved(r)
    <3>1. TargetsFor(w, r) = {Ready(r), Resolved(r)}
      BY <2>0, <2>2 DEF TargetsFor
    <3>2. ASSUME NEW tested, tested \subseteq Module PROVE TargetIn(w, tested, r) \in TargetsFor(w, r)
      <4>1. r \in w.code.actors /\ Resolved(r) \notin w.completed
        BY <2>2, <2>0, <1>2, TargetFields DEF TargetOf, TargetIn
      <4> QED BY <3>1, <4>1, <2>0, <3>2 DEF TargetIn
    <3>3. /\ TargetsFor(w, r) \subseteq Target
          /\ \A t \in TargetsFor(w, r) : t.kind \in {"ready", "resolved", "complete"}
          /\ \A j \in Item : Resolved(j) \in TargetsFor(w, r) => j = r
          /\ \A j \in Item : Complete(j) \notin TargetsFor(w, r)
      BY <1>2, <3>1, TargetsExist, TargetFields
    <3>4. \A tested : r \in Item /\ tested \subseteq Module =>
                TargetIn(w, tested, r) \in TargetsFor(w, r) \cap {Resolved(r), Complete(r)}
      BY <2>1, <3>2
    <3>5. \A j \in Item : Resolved(j) \in TargetsFor(w, r) => Ready(j) \in TargetsFor(w, r)
      BY <3>1, <3>3
    <3> QED BY <2>0, <3>3, <3>4, <3>5
  <2>3. CASE TargetOf(w, r) # Resolved(r)
    <3>1. TargetsFor(w, r) = ItemTargets(w, r)
      BY <2>0, <2>3 DEF TargetsFor
    <3>2. \A tested : tested \subseteq Module => TargetIn(w, tested, r) \in TargetsFor(w, r)
      BY <1>2, <2>1, <3>1, ItemTargetsAre
    <3>3. /\ TargetsFor(w, r) \subseteq Target
          /\ \A t \in TargetsFor(w, r) : t.kind \in {"ready", "resolved", "complete"}
          /\ \A j \in Item : Resolved(j) \in TargetsFor(w, r) => Ready(j) \in TargetsFor(w, r)
          /\ \A j \in Item : Complete(j) \in TargetsFor(w, r) => ItemTargets(w, j) \subseteq TargetsFor(w, r)
      BY <1>2, <3>1, ItemTargetsAre
    <3>4. \A tested : r \in Item /\ tested \subseteq Module =>
                TargetIn(w, tested, r) \in TargetsFor(w, r) \cap {Resolved(r), Complete(r)}
      BY <2>1, <3>2
    <3> QED BY <2>0, <3>3, <3>4
  <2> QED BY <2>2, <2>3
<1> QED BY <1>1, <1>2

\* They depend on the items that are resolved.
LEMMA TargetsForSame ==
    ASSUME NEW w, NEW v, v.code = w.code, \A i : Resolved(i) \in v.completed <=> Resolved(i) \in w.completed
    PROVE  /\ \A tested, r : TargetIn(v, tested, r) = TargetIn(w, tested, r)
           /\ \A r : TargetOf(v, r) = TargetOf(w, r)
           /\ \A r : TargetsFor(v, r) = TargetsFor(w, r)
           /\ \A i : ItemTargets(v, i) = ItemTargets(w, i)
           /\ \A tested, reqs : ResolveIn(v, tested, reqs) = ResolveIn(w, tested, reqs)
           /\ \A reqs : Resolve(v, reqs) = Resolve(w, reqs)
           /\ \A reqs : ImportNeeds(v, reqs) = ImportNeeds(w, reqs)
<1>1. \A i : Provider(v, i) = Provider(w, i)
  BY DEF Provider
<1>2. \A tested, r : TargetIn(v, tested, r) = TargetIn(w, tested, r)
  BY <1>1 DEF TargetIn
<1>3. \A r : TargetOf(v, r) = TargetOf(w, r)
  BY <1>2 DEF TargetOf
<1>4. \A i : ItemTargets(v, i) = ItemTargets(w, i)
  BY DEF ItemTargets
<1>5. \A r : TargetsFor(v, r) = TargetsFor(w, r)
  BY <1>3, <1>4 DEF TargetsFor
<1>6. \A tested, reqs : ResolveIn(v, tested, reqs) = ResolveIn(w, tested, reqs)
  BY <1>2 DEF ResolveIn
<1>7. \A reqs : Resolve(v, reqs) = Resolve(w, reqs)
  BY <1>6 DEF Resolve
<1>8. \A reqs : ImportNeeds(v, reqs) = ImportNeeds(w, reqs)
  BY <1>3 DEF ImportNeeds
<1> QED BY <1>2, <1>3, <1>4, <1>5, <1>6, <1>7, <1>8

-----------------------------------------------------------------------------
(* What a step leaves as it is *)

SameImports(w, v) ==
    v.code = w.code /\ v.cache = w.cache /\ v.first = w.first /\ v.job = w.job /\ v.got = w.got
SameItems(w, v) ==
    v.provided = w.provided /\ v.resolved = w.resolved /\ v.items = w.items /\ v.picked = w.picked
SameTests(w, v)  == v.test = w.test /\ v.testsImports = w.testsImports /\ v.testedBy = w.testedBy
SameStatus(w, v) == v.completed = w.completed /\ v.ready = w.ready /\ v.failed = w.failed

\* A step keeps the invariant when it keeps what is not about completed deps.
LEMMA StepKeeps ==
    ASSUME NEW w, StoreInv(w), NEW v, v \in Store, ClosedInv(v), JobsInv(v), TestsInv(v), FoundInv(v),
           ItemsInv(v), ~v.failed, NEW u, u \notin w.completed,
           Grows(w, v), Fixed(w, v, u), NewDone(w, v), \A t \in v.ready \ w.ready : Settled(v, t)
    PROVE  StoreInv(v)
<1>1. SatInv(v)
  BY SatKept
<1>2. ASSUME NEW t \in v.ready PROVE Settled(v, t)
  <2>1. CASE t \in w.ready
    <3>1. Settled(w, t) /\ t \in w.all /\ t.kind \in {"job", "testjob"}
      BY <2>1 DEF StoreInv, ReadyInv, ClosedInv
    <3> QED BY <3>1, SettledKept
  <2> QED BY <2>1
<1> QED BY <1>1, <1>2 DEF StoreInv, ReadyInv

\* The targets of some requirements.
LEMMA WithTargetsIs ==
    ASSUME NEW w, w \in Store, NEW reqs \in SUBSET (Module \cup Item)
    PROVE  LET v == WithTargets(w, reqs) IN
           /\ v \in Store /\ SameImports(w, v) /\ SameItems(w, v) /\ SameTests(w, v) /\ SameStatus(w, v)
           /\ v.all = w.all \cup UNION {TargetsFor(w, r) : r \in reqs}
           /\ v.own = w.own \cup {Resource(m) : m \in reqs \cap Module}
           /\ v.needs = w.needs /\ \A t : Needs(v, t) = Needs(w, t)
<1> DEFINE added == UNION {TargetsFor(w, r) : r \in reqs}
<1> DEFINE own == {Resource(m) : m \in reqs \cap Module}
<1>1. added \subseteq Target
  <2>1. \A r \in reqs : TargetsFor(w, r) \subseteq Target
    BY TargetsForAre, StoreTypes
  <2> QED BY <2>1
<1>2. own \subseteq Target
  BY TargetsExist
<1>v. WithTargets(w, reqs) = [w EXCEPT !.all = @ \cup added, !.own = @ \cup own]
  BY DEF WithTargets
<1> HIDE DEF added, own
<1> DEFINE v == [w EXCEPT !.all = @ \cup added, !.own = @ \cup own]
<1>3. v \in Store /\ v.all = w.all \cup added /\ v.own = w.own \cup own /\ v.needs = w.needs
  BY <1>1, <1>2 DEF Store
<1>4. SameImports(w, v) /\ SameItems(w, v) /\ SameTests(w, v) /\ SameStatus(w, v)
  BY DEF Store, SameImports, SameItems, SameTests, SameStatus
<1> HIDE DEF v
<1>5. \A t : Needs(v, t) = Needs(w, t)
  BY <1>3 DEF Needs
<1> QED BY <1>v, <1>3, <1>4, <1>5 DEF added, own, v

\* Other needs of a target.
LEMMA WithNeedsIs ==
    ASSUME NEW w, w \in Store, NEW t \in Target, NEW needs \in NeedMaps
    PROVE  LET v == WithNeeds(w, t, needs) IN
           /\ v \in Store /\ SameImports(w, v) /\ SameItems(w, v) /\ SameTests(w, v) /\ SameStatus(w, v)
           /\ v.all = w.all /\ v.own = w.own /\ DOMAIN v.needs = DOMAIN w.needs \cup {t}
           /\ v.needs[t] = needs /\ \A s \in DOMAIN w.needs : s # t => v.needs[s] = w.needs[s]
           /\ Needs(v, t) = needs /\ \A s : s # t => Needs(v, s) = Needs(w, s)
<1> DEFINE f == [u \in DOMAIN w.needs \cup {t} |-> IF u = t THEN needs ELSE w.needs[u]]
<1>1. f \in UNION {[targets -> NeedMaps] : targets \in SUBSET Target}
  <2>1. DOMAIN w.needs \cup {t} \in SUBSET Target
    BY StoreTypes
  <2>2. f \in [DOMAIN w.needs \cup {t} -> NeedMaps]
    BY StoreTypes
  <2> QED BY <2>1, <2>2
<1>2. DOMAIN f = DOMAIN w.needs \cup {t} /\ f[t] = needs /\ \A s \in DOMAIN w.needs : s # t => f[s] = w.needs[s]
  OBVIOUS
<1>v. WithNeeds(w, t, needs) = [w EXCEPT !.needs = f]
  BY DEF WithNeeds
<1> HIDE DEF f
<1> DEFINE v == [w EXCEPT !.needs = f]
<1>3. v \in Store /\ v.all = w.all /\ v.own = w.own /\ v.needs = f
  BY <1>1 DEF Store
<1>4. SameImports(w, v) /\ SameItems(w, v) /\ SameTests(w, v) /\ SameStatus(w, v)
  BY DEF Store, SameImports, SameItems, SameTests, SameStatus
<1> HIDE DEF v
<1>5. Needs(v, t) = needs /\ \A s : s # t => Needs(v, s) = Needs(w, s)
  BY <1>2, <1>3 DEF Needs
<1> QED BY <1>v, <1>2, <1>3, <1>4, <1>5 DEF v

-----------------------------------------------------------------------------
(* Steps that complete nothing *)

\* New targets that wait for nothing of their own.
LEMMA WithTargetsStep ==
    ASSUME NEW w, StoreInv(w), NEW reqs \in SUBSET (Module \cup Item)
    PROVE  LET v == WithTargets(w, reqs) IN
           StoreInv(v) /\ Grows(w, v) /\ (\A u : Fixed(w, v, u)) /\ NewDone(w, v)
<1> DEFINE v == WithTargets(w, reqs)
<1>w. /\ w \in Store /\ ClosedInv(w) /\ SatInv(w) /\ JobsInv(w) /\ TestsInv(w) /\ FoundInv(w) /\ ItemsInv(w)
      /\ ReadyInv(w) /\ ~w.failed /\ w.code \in Programs
  BY StoreTypes DEF StoreInv
<1>v. /\ v \in Store /\ SameImports(w, v) /\ SameItems(w, v) /\ SameTests(w, v) /\ SameStatus(w, v)
      /\ v.all = w.all \cup UNION {TargetsFor(w, r) : r \in reqs}
      /\ v.own = w.own \cup {Resource(m) : m \in reqs \cap Module}
      /\ v.needs = w.needs /\ \A t : Needs(v, t) = Needs(w, t)
  BY <1>w, WithTargetsIs
<1> HIDE DEF v
<1>n. \A t \in v.all \ w.all : t.kind \in {"ready", "resolved", "complete", "resource"}
  <2> SUFFICES ASSUME NEW r \in reqs, NEW t \in TargetsFor(w, r)
               PROVE  t.kind \in {"ready", "resolved", "complete", "resource"}
    BY <1>v
  <2> QED BY <1>w, TargetsForAre, TargetFields
<1>i. ItemClosed(v)
  <2>1. \A i : ItemTargets(v, i) = ItemTargets(w, i)
    BY <1>v DEF SameImports, ItemTargets
  <2>2. ASSUME NEW i \in Item, Resolved(i) \in v.all PROVE Ready(i) \in v.all
    BY <2>2, <1>v, <1>w, TargetsForAre DEF ClosedInv, ItemClosed
  <2>3. ASSUME NEW i \in Item, Complete(i) \in v.all PROVE ItemTargets(w, i) \subseteq v.all
    BY <2>3, <1>v, <1>w, TargetsForAre DEF ClosedInv, ItemClosed
  <2> QED BY <2>1, <2>2, <2>3 DEF ItemClosed
<1>c. ClosedInv(v)
  <2>1. v.own \subseteq v.all
    <3>1. ASSUME NEW m \in reqs \cap Module PROVE Resource(m) \in v.all
      BY <1>v, <1>w, TargetsForAre
    <3> QED BY <3>1, <1>v, <1>w DEF ClosedInv
  <2>2. NeedsExist(v)
    BY <1>v, <1>w, <1>n DEF ClosedInv, NeedsExist
  <2> QED BY <2>1, <2>2, <1>i, <1>v, <1>w DEF ClosedInv, SameStatus
<1>j. JobsInv(v)
  <2> SUFFICES ASSUME NEW m \in Module
               PROVE  /\ v.job[m] \in {Cached(m)} \cup {ImportJob(m, k) : k \in 1 .. MaxJobs}
                      /\ v.job[m] \in v.own
                      /\ v.job[m] \in v.completed <=> m \in v.got
                      /\ \A k \in 1 .. MaxJobs : ImportJob(m, k) \in v.all =>
                            /\ v.job[m].kind = "job" /\ k <= v.job[m].idx
                            /\ k < v.job[m].idx => ImportJob(m, k) \in v.completed
                      /\ Cached(m) \in v.all => v.job[m] = Cached(m) \/ Cached(m) \in v.completed
    BY DEF JobsInv
  <2>1. (Cached(m) \in v.all => Cached(m) \in w.all) /\ \A k : ImportJob(m, k) \in v.all => ImportJob(m, k) \in w.all
    BY <1>n, TargetFields
  <2>2. v.job = w.job /\ v.got = w.got /\ v.completed = w.completed /\ w.own \subseteq v.own
    BY <1>v DEF SameImports, SameStatus
  <2> QED BY <2>1, <2>2, <1>w DEF JobsInv
<1>t. TestsInv(v)
  <2> SUFFICES ASSUME NEW m \in Module
               PROVE  /\ v.test[m] \in {NoTarget, TestCached(m)} \cup {TestJob(m, k) : k \in 1 .. MaxJobs}
                      /\ v.test[m] # NoTarget <=> m \in v.got /\ IsTests(v, m)
                      /\ v.test[m] # NoTarget <=> Test(m) \in v.all
                      /\ v.test[m] # NoTarget => v.test[m] \in v.own /\ \A n \in v.code.tests[m] : m \in v.testedBy[n]
                      /\ \A k \in 1 .. MaxJobs : TestJob(m, k) \in v.all =>
                            /\ v.test[m].kind = "testjob" /\ k <= v.test[m].idx
                            /\ k < v.test[m].idx => TestJob(m, k) \in v.completed
                      /\ TestCached(m) \in v.all =>
                            v.test[m] = TestCached(m) \/ (TestCached(m) \in v.completed /\ v.test[m].kind = "testjob")
    BY DEF TestsInv
  <2>1. /\ (TestCached(m) \in v.all => TestCached(m) \in w.all) /\ (Test(m) \in v.all <=> Test(m) \in w.all)
        /\ \A k : TestJob(m, k) \in v.all => TestJob(m, k) \in w.all
    BY <1>n, <1>v, TargetFields
  <2>2. /\ v.test = w.test /\ v.got = w.got /\ v.completed = w.completed /\ w.own \subseteq v.own
        /\ v.testedBy = w.testedBy /\ v.code = w.code /\ (IsTests(v, m) <=> IsTests(w, m))
    BY <1>v DEF SameImports, SameStatus, SameTests, IsTests
  <2> QED BY <2>1, <2>2, <1>w DEF TestsInv
<1>f. FoundInv(v)
  BY <1>w, <1>v DEF FoundInv, SameImports, SameStatus, SameTests
<1>m. ItemsInv(v)
  BY <1>w, <1>v DEF ItemsInv, SameImports, SameStatus, SameItems
<1>g. Grows(w, v)
  BY <1>w, <1>v DEF Grows, SameImports, SameStatus, SameTests, SameItems, LaterNeeds, Later
<1>x. ASSUME NEW u PROVE Fixed(w, v, u)
  BY <1>w, <1>v DEF Fixed, SameImports, SameStatus, SameTests, SameItems
<1>d. NewDone(w, v)
  BY <1>v DEF NewDone, SameStatus
<1>s. StoreInv(v)
  <2>1. NoTarget \notin w.completed
    BY <1>w, StoreTypes, TargetsExist
  <2>2. ~v.failed /\ v.ready \ w.ready = {}
    BY <1>w, <1>v DEF SameStatus
  <2> QED BY <2>1, <2>2, <1>v, <1>w, <1>c, <1>j, <1>t, <1>f, <1>m, <1>g, <1>x, <1>d, StepKeeps
<1> QED BY <1>s, <1>g, <1>x, <1>d DEF v

\* A map of what a target may wait for.
GoodNeeds(w, needs) ==
    \A r \in DOMAIN needs :
        /\ needs[r] \in w.all
        /\ r \in Module => needs[r] \in {Import(r), Resource(r)} /\ Resource(r) \in w.own
        /\ r \in Item => needs[r] \in {Resolved(r), Complete(r)}

\* A target whose requirements are resolved again.
LEMMA WithNeedsStep ==
    ASSUME NEW w, StoreInv(w), NEW t \in w.all, t.kind \in {"cached", "testjob", "testcached"}, t \notin w.completed,
           NEW needs \in NeedMaps, GoodNeeds(w, needs), LaterNeeds(Needs(w, t), needs),
           t.kind = "testjob" /\ Settled(w, t) => needs = Needs(w, t)
    PROVE  LET v == WithNeeds(w, t, needs) IN
           StoreInv(v) /\ Grows(w, v) /\ Fixed(w, v, t) /\ NewDone(w, v)
<1> DEFINE v == WithNeeds(w, t, needs)
<1>w. /\ w \in Store /\ ClosedInv(w) /\ SatInv(w) /\ JobsInv(w) /\ TestsInv(w) /\ FoundInv(w) /\ ItemsInv(w)
      /\ ReadyInv(w) /\ ~w.failed /\ w.code \in Programs
  BY StoreTypes DEF StoreInv
<1>u. t \in Target
  BY <1>w, StoreTypes
<1>v. /\ v \in Store /\ SameImports(w, v) /\ SameItems(w, v) /\ SameTests(w, v) /\ SameStatus(w, v)
      /\ v.all = w.all /\ v.own = w.own /\ DOMAIN v.needs = DOMAIN w.needs \cup {t}
      /\ v.needs[t] = needs /\ \A s \in DOMAIN w.needs : s # t => v.needs[s] = w.needs[s]
      /\ Needs(v, t) = needs /\ \A s : s # t => Needs(v, s) = Needs(w, s)
  BY <1>w, <1>u, WithNeedsIs
<1> HIDE DEF v
<1>k. \A m : t # Import(m) /\ t # Resource(m)
  BY TargetFields
<1>c. ClosedInv(v)
  <2>1. NeedsExist(v)
    BY <1>v, <1>w DEF ClosedInv, NeedsExist, GoodNeeds
  <2>2. ItemClosed(v)
    BY <1>v, <1>w DEF ClosedInv, ItemClosed, ItemTargets, SameImports
  <2> QED BY <2>1, <2>2, <1>v, <1>w DEF ClosedInv, SameStatus
<1>j. JobsInv(v)
  BY <1>v, <1>w DEF JobsInv, SameImports, SameStatus
<1>t. TestsInv(v)
  BY <1>v, <1>w DEF TestsInv, IsTests, SameImports, SameStatus, SameTests
<1>f. FoundInv(v)
  BY <1>w, <1>v DEF FoundInv, SameImports, SameStatus, SameTests
<1>m. ItemsInv(v)
  BY <1>w, <1>v, <1>k DEF ItemsInv, SameImports, SameStatus, SameItems
<1>g. Grows(w, v)
  <2>1. ASSUME NEW s \in w.all PROVE LaterNeeds(Needs(w, s), Needs(v, s))
    BY <1>v DEF LaterNeeds, Later
  <2> QED BY <2>1, <1>w, <1>v, <1>k DEF Grows, SameImports, SameStatus, SameTests, SameItems
<1>x. Fixed(w, v, t)
  BY <1>w, <1>v DEF Fixed, SameImports, SameStatus, SameTests, SameItems
<1>d. NewDone(w, v)
  BY <1>v DEF NewDone, SameStatus
<1>s. StoreInv(v)
  <2>1. ~v.failed /\ v.ready \ w.ready = {}
    BY <1>w, <1>v DEF SameStatus
  <2> QED BY <2>1, <1>v, <1>w, <1>c, <1>j, <1>t, <1>f, <1>m, <1>g, <1>x, <1>d, StepKeeps
<1> QED BY <1>s, <1>g, <1>x, <1>d DEF v

\* Requirements as they are resolved are good to wait for when their targets exist.
LEMMA ResolveInIs ==
    ASSUME NEW w, StoreInv(w), NEW reqs \in SUBSET (Module \cup Item), NEW tested \in SUBSET Module,
           NEW v, v = WithTargets(w, reqs), NEW some \in SUBSET reqs
    PROVE  /\ ResolveIn(v, tested, some) = ResolveIn(w, tested, some)
           /\ ResolveIn(w, tested, some) \in NeedMaps /\ DOMAIN ResolveIn(w, tested, some) = some
           /\ GoodNeeds(v, ResolveIn(w, tested, some))
           /\ \A r \in some : ResolveIn(w, tested, some)[r] = TargetIn(w, tested, r)
<1> DEFINE needs == ResolveIn(w, tested, some)
<1>w. w \in Store /\ ClosedInv(w) /\ w.code \in Programs
  BY StoreTypes DEF StoreInv
<1>v. /\ v \in Store /\ SameImports(w, v) /\ SameStatus(w, v)
      /\ v.all = w.all \cup UNION {TargetsFor(w, r) : r \in reqs}
      /\ v.own = w.own \cup {Resource(m) : m \in reqs \cap Module}
  BY <1>w, WithTargetsIs
<1>1. ResolveIn(v, tested, some) = needs
  BY <1>v, TargetsForSame DEF SameImports, SameStatus
<1>2. DOMAIN needs = some /\ \A r \in some : needs[r] = TargetIn(w, tested, r)
  BY DEF ResolveIn
<1>3. ASSUME NEW r \in some, r \in Module
      PROVE  needs[r] \in {Import(r), Resource(r)} /\ needs[r] \in v.all /\ Resource(r) \in v.own
  <2>1. TargetIn(w, tested, r) \in {Import(r), Resource(r)}
    BY <1>3 DEF TargetIn
  <2>2. Import(r) \in v.all
    BY <1>3, <1>w, <1>v DEF ClosedInv
  <2>3. Resource(r) \in v.all
    BY <1>3, <1>w, <1>v, TargetsForAre
  <2> QED BY <2>1, <2>2, <2>3, <1>2, <1>3, <1>v
<1>4. ASSUME NEW r \in some, r \in Item
      PROVE  needs[r] \in {Resolved(r), Complete(r)} /\ needs[r] \in v.all
  <2>1. TargetIn(w, tested, r) \in TargetsFor(w, r) \cap {Resolved(r), Complete(r)}
    BY <1>4, <1>w, TargetsForAre
  <2> QED BY <2>1, <1>2, <1>v
<1>5. GoodNeeds(v, needs)
  BY <1>2, <1>3, <1>4, TargetAssumption DEF GoodNeeds
<1>6. needs \in NeedMaps
  <2>1. \A r \in some : needs[r] \in Target
    BY <1>3, <1>4, <1>v, StoreTypes
  <2>2. needs = [r \in some |-> TargetIn(w, tested, r)]
    BY DEF ResolveIn
  <2> HIDE DEF needs
  <2>3. needs \in [some -> Target]
    BY <2>1, <2>2
  <2> QED BY <2>3, NeedMapsAre
<1> QED BY <1>1, <1>2, <1>5, <1>6

\* And those of an import.
LEMMA ImportNeedsAre ==
    ASSUME NEW w, StoreInv(w), NEW reqs \in SUBSET (Module \cup Item),
           NEW v, v = WithTargets(w, reqs), NEW some \in SUBSET reqs
    PROVE  /\ ImportNeeds(v, some) = ImportNeeds(w, some)
           /\ ImportNeeds(w, some) \in NeedMaps /\ GoodNeeds(v, ImportNeeds(w, some))
<1> DEFINE needs == ImportNeeds(w, some)
<1>w. w \in Store /\ ClosedInv(w) /\ w.code \in Programs
  BY StoreTypes DEF StoreInv
<1>v. /\ v \in Store /\ SameImports(w, v) /\ SameStatus(w, v)
      /\ v.all = w.all \cup UNION {TargetsFor(w, r) : r \in reqs}
      /\ v.own = w.own \cup {Resource(m) : m \in reqs \cap Module}
  BY <1>w, WithTargetsIs
<1>1. ImportNeeds(v, some) = needs
  BY <1>v, TargetsForSame DEF SameImports, SameStatus
<1>2. /\ DOMAIN needs = some
      /\ \A r \in some : needs[r] = IF r \in Module THEN Import(r) ELSE TargetOf(w, r)
  BY DEF ImportNeeds
<1>3. ASSUME NEW r \in some, r \in Module
      PROVE  needs[r] = Import(r) /\ needs[r] \in v.all /\ Resource(r) \in v.own
  BY <1>2, <1>3, <1>w, <1>v DEF ClosedInv
<1>4. ASSUME NEW r \in some, r \in Item
      PROVE  needs[r] \in {Resolved(r), Complete(r)} /\ needs[r] \in v.all
  <2>1. TargetIn(w, {}, r) \in TargetsFor(w, r) \cap {Resolved(r), Complete(r)}
    BY <1>4, <1>w, TargetsForAre
  <2> QED BY <2>1, <1>2, <1>4, <1>v, TargetAssumption DEF TargetOf
<1>5. GoodNeeds(v, needs)
  BY <1>2, <1>3, <1>4, TargetAssumption DEF GoodNeeds
<1>6. needs \in NeedMaps
  <2>1. \A r \in some : needs[r] \in Target
    BY <1>3, <1>4, <1>v, StoreTypes
  <2>2. needs = [r \in some |-> IF r \in Module THEN Import(r) ELSE TargetOf(w, r)]
    BY DEF ImportNeeds
  <2> HIDE DEF needs
  <2>3. needs \in [some -> Target]
    BY <2>1, <2>2
  <2> QED BY <2>3, NeedMapsAre
<1> QED BY <1>1, <1>5, <1>6

-----------------------------------------------------------------------------
(* Steps that complete a target, or make a job ready *)

\* A target is completed, or an item has its provider as a dep.
LEMMA DoneStep ==
    ASSUME NEW w, StoreInv(w), NEW t \in w.all, t \notin w.completed, t.kind \notin {"job", "cached"},
           NEW v, v \in Store, SameImports(w, v), SameTests(w, v), v.all = w.all, v.needs = w.needs,
           v.ready = w.ready, ~v.failed,
           v.provided = w.provided, v.resolved = w.resolved, v.items = w.items,
           v.own \in {w.own, w.own \cup {t}},
           \/ v.picked = w.picked
           \/ \E i \in Item : t = Complete(i) /\ v.picked = w.picked \cup {i} /\ Resolved(i) \in w.completed,
           \/ v.completed = w.completed
           \/ /\ v.completed = w.completed \cup {t} /\ Satisfied(w, Deps(v, t))
              /\ t.kind = "ready" => t.of \in w.provided
              /\ t.kind = "complete" => t.of \in v.picked
    PROVE  StoreInv(v) /\ Grows(w, v) /\ Fixed(w, v, t) /\ NewDone(w, v)
<1>w. /\ w \in Store /\ ClosedInv(w) /\ SatInv(w) /\ JobsInv(w) /\ TestsInv(w) /\ FoundInv(w) /\ ItemsInv(w)
      /\ ReadyInv(w) /\ ~w.failed /\ w.code \in Programs
  BY StoreTypes DEF StoreInv
<1>u. t \in Target /\ OfItsKind(t)
  BY <1>w, StoreTypes, TargetShape
<1>v. \A s : Needs(v, s) = Needs(w, s)
  BY DEF Needs
<1>m. w.completed \subseteq v.completed /\ w.own \subseteq v.own /\ w.picked \subseteq v.picked
      /\ v.completed \subseteq w.completed \cup {t}
  OBVIOUS
<1>p. \A i \in v.picked : i \in w.picked \/ (t = Complete(i) /\ Resolved(i) \in w.completed)
  OBVIOUS
<1>c. ClosedInv(v)
  <2>1. NeedsExist(v)
    <3>1. NeedsExist(w)
      BY <1>w DEF ClosedInv
    <3> QED BY <3>1, <1>m DEF NeedsExist
  <2>2. ItemClosed(v)
    BY <1>w DEF ClosedInv, ItemClosed, ItemTargets, SameImports
  <2> QED BY <2>1, <2>2, <1>w DEF ClosedInv
<1>j. JobsInv(v)
  <2> SUFFICES ASSUME NEW m \in Module
               PROVE  /\ v.job[m] \in {Cached(m)} \cup {ImportJob(m, k) : k \in 1 .. MaxJobs}
                      /\ v.job[m] \in v.own
                      /\ v.job[m] \in v.completed <=> m \in v.got
                      /\ \A k \in 1 .. MaxJobs : ImportJob(m, k) \in v.all =>
                            /\ v.job[m].kind = "job" /\ k <= v.job[m].idx
                            /\ k < v.job[m].idx => ImportJob(m, k) \in v.completed
                      /\ Cached(m) \in v.all => v.job[m] = Cached(m) \/ Cached(m) \in v.completed
    BY DEF JobsInv
  <2>1. v.job = w.job /\ v.got = w.got
    BY DEF SameImports
  <2>2. w.job[m].kind \in {"cached", "job"}
    BY <1>w, TargetFields DEF JobsInv
  <2>3. v.job[m] # t
    BY <2>1, <2>2
  <2> QED BY <2>1, <2>3, <1>m, <1>w DEF JobsInv
<1>t. TestsInv(v)
  <2>1. v.test = w.test /\ v.got = w.got /\ v.testedBy = w.testedBy /\ v.code = w.code
    BY DEF SameImports, SameTests
  <2>2. \A m : IsTests(v, m) <=> IsTests(w, m)
    BY <2>1 DEF IsTests
  <2> QED BY <2>1, <2>2, <1>m, <1>w DEF TestsInv
<1>f. FoundInv(v)
  <2>1. \A m : ImportJob(m, 1) \in v.completed <=> ImportJob(m, 1) \in w.completed
    BY <1>m, TargetFields
  <2> QED BY <2>1, <1>w DEF FoundInv, SameImports, SameTests
<1>i. ItemsInv(v)
  <2>1. \A i \in Item : Ready(i) \in v.completed => i \in v.provided
    BY <1>m, <1>w, TargetFields DEF ItemsInv
  <2>2. \A i \in Item : Complete(i) \in v.completed => i \in v.picked
    BY <1>m, <1>w, TargetFields DEF ItemsInv
  <2> QED BY <2>1, <2>2, <1>m, <1>p, <1>w DEF ItemsInv, SameImports
<1>g. Grows(w, v)
  <2>1. ASSUME NEW s \in w.all PROVE LaterNeeds(Needs(w, s), Needs(v, s))
    BY <1>v DEF LaterNeeds, Later
  <2> QED BY <2>1, <1>m, <1>v DEF Grows, SameImports, SameTests
<1>x. Fixed(w, v, t)
  BY <1>v, <1>p DEF Fixed, SameImports, SameTests
<1>d. NewDone(w, v)
  BY <1>m DEF NewDone, Satisfied
<1>s. StoreInv(v)
  BY <1>w, <1>c, <1>j, <1>t, <1>f, <1>i, <1>g, <1>x, <1>d, StepKeeps
<1> QED BY <1>s, <1>g, <1>x, <1>d

\* A job that has nothing left to wait for is ready.
LEMMA ReadyStep ==
    ASSUME NEW w, StoreInv(w), NEW t \in w.all, t.kind \in {"job", "testjob"}, Settled(w, t),
           NEW v, v = [w EXCEPT !.ready = @ \cup {t}]
    PROVE  StoreInv(v) /\ Grows(w, v) /\ Fixed(w, v, t) /\ NewDone(w, v)
<1>w. /\ w \in Store /\ ClosedInv(w) /\ SatInv(w) /\ JobsInv(w) /\ TestsInv(w) /\ FoundInv(w) /\ ItemsInv(w)
      /\ ReadyInv(w) /\ ~w.failed /\ w.code \in Programs
  BY StoreTypes DEF StoreInv
<1>u. t \in Target /\ OfItsKind(t)
  BY <1>w, StoreTypes, TargetShape
<1>v. /\ v \in Store /\ SameImports(w, v) /\ SameTests(w, v) /\ SameItems(w, v) /\ v.all = w.all /\ v.own = w.own
      /\ v.needs = w.needs /\ v.completed = w.completed /\ v.failed = w.failed /\ v.ready = w.ready \cup {t}
  BY <1>w, <1>u DEF Store, SameImports, SameTests, SameItems
<1>n. \A s : Needs(v, s) = Needs(w, s)
  BY <1>v DEF Needs
<1>c. ClosedInv(v)
  <2>1. NeedsExist(v) /\ ItemClosed(v)
    BY <1>v, <1>w DEF ClosedInv, NeedsExist, ItemClosed, ItemTargets, SameImports
  <2> QED BY <2>1, <1>v, <1>w DEF ClosedInv
<1>j. JobsInv(v)
  BY <1>v, <1>w DEF JobsInv, SameImports
<1>t. TestsInv(v)
  BY <1>v, <1>w DEF TestsInv, IsTests, SameImports, SameTests
<1>f. FoundInv(v)
  BY <1>w, <1>v DEF FoundInv, SameImports, SameTests
<1>i. ItemsInv(v)
  BY <1>w, <1>v DEF ItemsInv, SameImports, SameItems
<1>g. Grows(w, v)
  <2>1. ASSUME NEW s \in w.all PROVE LaterNeeds(Needs(w, s), Needs(v, s))
    BY <1>n DEF LaterNeeds, Later
  <2> QED BY <2>1, <1>v, <1>n DEF Grows, SameImports, SameTests, SameItems
<1>x. Fixed(w, v, t)
  BY <1>v, <1>n DEF Fixed, SameImports, SameTests, SameItems
<1>d. NewDone(w, v)
  BY <1>v DEF NewDone
<1>s. StoreInv(v)
  <2>1. Settled(v, t)
    BY <1>g, <1>x, SettledKept
  <2>2. t \notin w.completed \/ t \in w.completed
    OBVIOUS
  <2>3. NoTarget \notin w.completed
    BY <1>w, StoreTypes, TargetsExist
  <2>4. SatInv(v)
    <3>1. ASSUME NEW s \in w.completed PROVE Deps(v, s) = Deps(w, s)
      <4>1. s \in Target /\ OfItsKind(s)
        BY <1>w, StoreTypes, TargetShape
      <4>2. \A m : Helpers(v, m) = Helpers(w, m) /\ Provider(v, m) = Provider(w, m)
                    /\ ServiceTarget(v, m) = ServiceTarget(w, m) /\ Provided(v, m) = Provided(w, m)
        BY <1>v DEF Helpers, Provider, ServiceTarget, Provided, SameImports, SameItems
      <4> QED BY <4>2, <1>v, <1>n DEF Deps, SameImports, SameItems, SameTests
    <3> QED BY <3>1, <1>v, <1>w DEF SatInv, Satisfied
  <2>5. ReadyInv(v)
    <3> SUFFICES ASSUME NEW s \in w.ready PROVE Settled(v, s)
      BY <2>1, <1>v DEF ReadyInv
    <3>1. Settled(w, s) /\ s \in w.all /\ s.kind \in {"job", "testjob"}
      BY <1>w DEF ReadyInv, ClosedInv
    <3> QED BY <3>1, <1>g, <1>x, SettledKept
  <2> QED BY <2>4, <2>5, <1>v, <1>w, <1>c, <1>j, <1>t, <1>f, <1>i DEF StoreInv
<1> QED BY <1>s, <1>g, <1>x, <1>d

\* Two steps about one target are one, when the first finds no items.
LEMMA FixedTrans ==
    ASSUME NEW w, StoreInv(w), NEW v, NEW x, NEW u,
           Grows(w, v), Fixed(w, v, u), Grows(v, x), Fixed(v, x, u), v.resolved = w.resolved
    PROVE  Fixed(w, x, u)
<1>c. /\ w.all \subseteq v.all /\ w.completed \subseteq v.completed /\ w.got \subseteq v.got /\ v.code = w.code
  BY DEF Grows
<1>1. \A t \in Target : t # u => (t \in x.ready <=> t \in w.ready)
  BY DEF Fixed
<1>2. ASSUME NEW t \in w.all, t.kind \in {"job", "cached", "testjob", "testcached"},
             t = u => t.kind \in {"job", "testjob"} /\ Settled(w, t)
      PROVE  Needs(x, t) = Needs(w, t)
  <2>1. Needs(v, t) = Needs(w, t)
    BY <1>2 DEF Fixed
  <2>2. t = u => t.kind \in {"job", "testjob"} /\ Settled(v, t)
    BY <1>2, SettledKept
  <2>3. Needs(x, t) = Needs(v, t)
    BY <1>2, <2>2, <1>c DEF Fixed
  <2> QED BY <2>1, <2>3
<1>3. \A i \in x.resolved \ w.resolved : Ready(i) \notin x.completed
  BY DEF Fixed
<1>4. \A i \in x.picked \ w.picked : u = Complete(i)
  BY DEF Fixed
<1>5. Known \in w.completed => x.testsImports = w.testsImports
  BY <1>c DEF Fixed
<1>6. \A n \in Module : \A m \in x.testedBy[n] \ w.testedBy[n] : m \notin w.got /\ n \in w.code.tests[m]
  BY <1>c DEF Fixed
<1>7. \A m \in Module : Test(m) \in w.completed => x.test[m] = w.test[m]
  BY <1>c DEF Fixed
<1>8. x.completed \subseteq w.completed \cup {u}
  BY DEF Fixed
<1> QED BY <1>1, <1>2, <1>3, <1>4, <1>5, <1>6, <1>7, <1>8 DEF Fixed

\* Before the result of an import there is nothing of it.
LEMMA NotGot ==
    ASSUME NEW w, StoreInv(w), NEW m \in Module, m \notin w.got
    PROVE  /\ Import(m) \notin w.completed /\ Resource(m) \notin w.completed
           /\ \A i \in w.code.provides[m] : i \notin w.provided /\ Ready(i) \notin w.completed
           /\ w.test[m] = NoTarget /\ Test(m) \notin w.all /\ TestCached(m) \notin w.all
           /\ \A k \in 1 .. MaxJobs : TestJob(m, k) \notin w.all
           /\ \A n \in w.code.tests[m] : Resource(n) \notin w.completed
           /\ Import(m) \notin DOMAIN w.needs /\ Resource(m) \notin DOMAIN w.needs /\ w.items[m] = {}
<1>w. /\ w \in Store /\ ClosedInv(w) /\ SatInv(w) /\ JobsInv(w) /\ TestsInv(w) /\ FoundInv(w) /\ ItemsInv(w)
      /\ w.code \in Programs
  BY StoreTypes DEF StoreInv
<1>1. Import(m) \notin w.completed /\ Resource(m) \notin w.completed
  BY <1>w, Below
<1>2. ASSUME NEW i \in w.code.provides[m] PROVE i \notin w.provided /\ Ready(i) \notin w.completed
  <2>1. i \in Item
    BY <1>w, ProgramTypes
  <2>2. i \notin w.provided
    <3>1. SUFFICES ASSUME i \in w.provided PROVE FALSE
      OBVIOUS
    <3>2. PICK n \in Module : i \in w.code.provides[n] /\ n \in w.got
      BY <3>1, <1>w DEF ItemsInv
    <3>3. n = m
      BY <3>2, <1>w, <2>1, ProgramTypes
    <3> QED BY <3>2, <3>3
  <2> QED BY <2>1, <2>2, <1>w DEF ItemsInv
<1>3. w.test[m] = NoTarget /\ Test(m) \notin w.all
  BY <1>w DEF TestsInv
<1>4. TestCached(m) \notin w.all /\ \A k \in 1 .. MaxJobs : TestJob(m, k) \notin w.all
  BY <1>w, <1>3, TargetFields DEF TestsInv
<1>5. \A n \in w.code.tests[m] : Resource(n) \notin w.completed
  BY <1>w, ResourceAfterTests, ProgramTypes
<1>6. Import(m) \notin DOMAIN w.needs /\ Resource(m) \notin DOMAIN w.needs /\ w.items[m] = {}
  BY <1>w DEF ItemsInv
<1> QED BY <1>1, <1>2, <1>3, <1>4, <1>5, <1>6

\* The tests of a module are known after its first job.
LEMMA FoundTests ==
    ASSUME NEW w, StoreInv(w), NEW m \in Module, w.job[m] \notin w.completed, Known \in w.completed,
           NEW n \in w.code.tests[m]
    PROVE  m \in w.testsImports[n]
<1>w. SatInv(w) /\ FoundInv(w)
  BY DEF StoreInv
<1> QED BY <1>w, KnownTests

-----------------------------------------------------------------------------
(* Steps that handle a result *)

\* m is found to test what it tests.
FoundFor(w, v, m) ==
    \A n \in Module : v.testsImports[n] = IF n \in w.code.tests[m] THEN w.testsImports[n] \cup {m} ELSE w.testsImports[n]

\* The targets of an import and of its test.
OfImport(m) == {Import(m), Resource(m), Test(m), TestCached(m), TestJob(m, 1)}

\* What the result of an import changes, with that of its test.
GotResult(w, v, m, t) ==
    /\ v \in Store /\ v.code = w.code /\ v.cache = w.cache /\ v.first = w.first /\ v.job = w.job
    /\ v.got = w.got \cup {m} /\ v.completed = w.completed \cup {t} /\ v.ready = w.ready /\ ~v.failed
    /\ ItemClosed(v) /\ NeedsExist(v) /\ v.own \subseteq v.all /\ w.all \subseteq v.all /\ w.own \subseteq v.own
    /\ \A s \in v.all \ w.all : s.kind \in {"ready", "resolved", "complete", "resource"} \/ s \in OfImport(m)
    /\ \A s : s \notin OfImport(m) => Needs(v, s) = Needs(w, s) /\ (s \in DOMAIN v.needs => s \in DOMAIN w.needs)
    /\ w.provided \subseteq v.provided /\ v.provided \subseteq w.provided \cup w.code.provides[m]
    /\ w.resolved \subseteq v.resolved /\ v.resolved \subseteq w.resolved \cup w.code.provides[m]
    /\ \A i \in v.resolved \ w.resolved : Resolved(i) \in v.own
    /\ \A n \in Module : n # m => v.items[n] = w.items[n]
    /\ v.picked = w.picked
    /\ \A n \in Module : n # m => v.test[n] = w.test[n]
    /\ v.test[m] \in {NoTarget, TestCached(m), TestJob(m, 1)}
    /\ v.test[m] # NoTarget <=> IsTests(w, m)
    /\ v.test[m] # NoTarget <=> Test(m) \in v.all
    /\ v.test[m] # NoTarget => v.test[m] \in v.own
    /\ TestJob(m, 1) \in v.all => v.test[m] = TestJob(m, 1)
    /\ TestCached(m) \in v.all => v.test[m] = TestCached(m)
    /\ FoundFor(w, v, m)
    /\ \A n \in Module : v.testedBy[n] = IF n \in w.code.tests[m] THEN w.testedBy[n] \cup {m} ELSE w.testedBy[n]

\* An import has a result.
LEMMA GotStep ==
    ASSUME NEW w, StoreInv(w), NEW m \in Module, NEW t, t = w.job[m], t \notin w.completed, Satisfied(w, Deps(w, t)),
           NEW v, GotResult(w, v, m, t)
    PROVE  StoreInv(v) /\ Grows(w, v) /\ Fixed(w, v, t) /\ NewDone(w, v)
<1> USE DEF GotResult
<1>w. /\ w \in Store /\ ClosedInv(w) /\ SatInv(w) /\ JobsInv(w) /\ TestsInv(w) /\ FoundInv(w) /\ ItemsInv(w)
      /\ ReadyInv(w) /\ ~w.failed /\ w.code \in Programs
  BY StoreTypes DEF StoreInv
<1>u. /\ t \in {Cached(m)} \cup {ImportJob(m, k) : k \in 1 .. MaxJobs} /\ t \in w.all /\ t.kind \in {"job", "cached"}
      /\ m \notin w.got /\ t.of = m
  BY <1>w, TargetFields DEF JobsInv, ClosedInv
<1>n. /\ Import(m) \notin w.completed /\ Resource(m) \notin w.completed
      /\ \A i \in w.code.provides[m] : i \notin w.provided /\ Ready(i) \notin w.completed
      /\ w.test[m] = NoTarget /\ Test(m) \notin w.all /\ TestCached(m) \notin w.all
      /\ \A k \in 1 .. MaxJobs : TestJob(m, k) \notin w.all
      /\ \A n \in w.code.tests[m] : Resource(n) \notin w.completed
      /\ Import(m) \notin DOMAIN w.needs /\ Resource(m) \notin DOMAIN w.needs /\ w.items[m] = {}
  BY <1>u, NotGot
<1>o. \A s \in OfImport(m) : s.kind \in {"import", "resource", "test", "testcached", "testjob"} /\ s.of = m
  BY TargetFields DEF OfImport
<1>a. 1 \in 1 .. MaxJobs
  BY OrderAssumption
<1>c. ClosedInv(v)
  BY <1>w, <1>u DEF ClosedInv
<1>j. JobsInv(v)
  <2> SUFFICES ASSUME NEW n \in Module
               PROVE  /\ v.job[n] \in {Cached(n)} \cup {ImportJob(n, k) : k \in 1 .. MaxJobs}
                      /\ v.job[n] \in v.own
                      /\ v.job[n] \in v.completed <=> n \in v.got
                      /\ \A k \in 1 .. MaxJobs : ImportJob(n, k) \in v.all =>
                            /\ v.job[n].kind = "job" /\ k <= v.job[n].idx
                            /\ k < v.job[n].idx => ImportJob(n, k) \in v.completed
                      /\ Cached(n) \in v.all => v.job[n] = Cached(n) \/ Cached(n) \in v.completed
    BY DEF JobsInv
  <2>1. (Cached(n) \in v.all => Cached(n) \in w.all) /\ \A k : ImportJob(n, k) \in v.all => ImportJob(n, k) \in w.all
    BY <1>o, TargetFields
  <2>2. v.job[n] \in v.completed <=> n \in v.got
    <3>1. w.job[n].of = n /\ (w.job[n] \in w.completed <=> n \in w.got)
      BY <1>w, TargetFields DEF JobsInv
    <3> QED BY <3>1, <1>u
  <2> QED BY <2>1, <2>2, <1>w DEF JobsInv
<1>t. TestsInv(v)
  <2> SUFFICES ASSUME NEW n \in Module
               PROVE  /\ v.test[n] \in {NoTarget, TestCached(n)} \cup {TestJob(n, k) : k \in 1 .. MaxJobs}
                      /\ v.test[n] # NoTarget <=> n \in v.got /\ IsTests(v, n)
                      /\ v.test[n] # NoTarget <=> Test(n) \in v.all
                      /\ v.test[n] # NoTarget => v.test[n] \in v.own /\ \A o \in v.code.tests[n] : n \in v.testedBy[o]
                      /\ \A k \in 1 .. MaxJobs : TestJob(n, k) \in v.all =>
                            /\ v.test[n].kind = "testjob" /\ k <= v.test[n].idx
                            /\ k < v.test[n].idx => TestJob(n, k) \in v.completed
                      /\ TestCached(n) \in v.all =>
                            v.test[n] = TestCached(n) \/ (TestCached(n) \in v.completed /\ v.test[n].kind = "testjob")
    BY DEF TestsInv
  <2>0. IsTests(v, n) <=> IsTests(w, n)
    BY DEF IsTests
  <2>1. CASE n = m
    <3>1. \A o \in v.code.tests[m] : m \in v.testedBy[o]
      <4>1. ASSUME NEW o \in v.code.tests[m] PROVE m \in v.testedBy[o]
        <5>1. o \in Module
          BY <1>w, <4>1, ProgramTypes
        <5> QED BY <5>1, <4>1
      <4> QED BY <4>1
    <3>2. ASSUME NEW k \in 1 .. MaxJobs, TestJob(m, k) \in v.all
          PROVE  /\ v.test[m].kind = "testjob" /\ k <= v.test[m].idx
                 /\ k < v.test[m].idx => TestJob(m, k) \in v.completed
      <4>1. TestJob(m, k) \in OfImport(m)
        BY <3>2, <1>n, TargetFields
      <4>2. TestJob(m, k) = TestJob(m, 1) /\ k = 1
        BY <4>1, TargetFields DEF OfImport
      <4>3. v.test[m].kind = "testjob" /\ v.test[m].idx = 1
        BY <3>2, <4>2, TargetFields
      <4> QED BY <4>2, <4>3
    <3> QED BY <2>0, <2>1, <3>1, <3>2, <1>a
  <2>2. CASE n # m
    <3>1. /\ (TestCached(n) \in v.all => TestCached(n) \in w.all) /\ (Test(n) \in v.all <=> Test(n) \in w.all)
          /\ \A k : TestJob(n, k) \in v.all => TestJob(n, k) \in w.all
      BY <2>2, <1>o, TargetFields
    <3>2. \A o \in Module : w.testedBy[o] \subseteq v.testedBy[o]
      OBVIOUS
    <3>3. w.code.tests[n] \subseteq Module
      BY <1>w, ProgramTypes
    <3> QED BY <2>0, <2>2, <3>1, <3>2, <3>3, <1>w DEF TestsInv
  <2> QED BY <2>1, <2>2
<1>f. FoundInv(v)
  <2>1. v.first = {ImportJob(n, 1) : n \in Module \ v.cache.imports}
    BY <1>w DEF FoundInv
  <2>2. ASSUME NEW n \in Module, n \in v.cache.imports \/ ImportJob(n, 1) \in v.completed,
               NEW o \in v.code.tests[n]
        PROVE  n \in v.testsImports[o]
    <3>1. o \in Module
      BY <1>w, ProgramTypes
    <3>2. CASE n = m
      BY <3>1, <3>2, <2>2 DEF FoundFor
    <3>3. CASE n # m
      <4>1. n \in w.cache.imports \/ ImportJob(n, 1) \in w.completed
        BY <3>3, <2>2, <1>u, TargetFields
      <4> QED BY <4>1, <3>1, <2>2, <1>w DEF FoundInv, FoundFor
    <3> QED BY <3>2, <3>3
  <2> QED BY <2>1, <2>2 DEF FoundInv
<1>i. ItemsInv(v)
  <2>1. \A i \in v.provided : \E n \in Module : i \in v.code.provides[n] /\ n \in v.got
    BY <1>w DEF ItemsInv
  <2>2. \A i \in Item : Ready(i) \in v.completed => i \in v.provided
    BY <1>w, <1>u, TargetFields DEF ItemsInv
  <2>3. \A i \in Item : Complete(i) \in v.completed => i \in v.picked
    BY <1>w, <1>u, TargetFields DEF ItemsInv
  <2>4. \A n \in Module : n \notin v.got =>
            Import(n) \notin DOMAIN v.needs /\ Resource(n) \notin DOMAIN v.needs /\ v.items[n] = {}
    BY <1>w, <1>o, TargetFields DEF ItemsInv
  <2> QED BY <2>1, <2>2, <2>3, <2>4, <1>w DEF ItemsInv
<1>g. Grows(w, v)
  <2>1. ASSUME NEW s \in w.all, s.kind # "test" PROVE LaterNeeds(Needs(w, s), Needs(v, s))
    <3>1. CASE s \in {Import(m), Resource(m)}
      <4>1. DOMAIN Needs(w, s) = {}
        BY <3>1, <1>n, <1>w, NeedsTypes
      <4> QED BY <4>1 DEF LaterNeeds, Later
    <3>2. CASE s \notin {Import(m), Resource(m)}
      <4>1. s \notin OfImport(m)
        BY <3>2, <2>1, <1>n, <1>a DEF OfImport
      <4> QED BY <4>1 DEF LaterNeeds, Later
    <3> QED BY <3>1, <3>2
  <2>2. ASSUME NEW n \in Module
        PROVE  /\ w.items[n] \subseteq v.items[n]
               /\ w.testsImports[n] \subseteq v.testsImports[n] /\ w.testedBy[n] \subseteq v.testedBy[n]
               /\ v.test[n] = w.test[n] \/ v.test[n] \notin w.all
    <3>1. w.items[n] \subseteq v.items[n]
      BY <1>n
    <3>2. w.testsImports[n] \subseteq v.testsImports[n]
      BY DEF FoundFor
    <3>3. w.testedBy[n] \subseteq v.testedBy[n]
      OBVIOUS
    <3>4. v.test[n] = w.test[n] \/ v.test[n] \notin w.all
      BY <1>n, <1>a
    <3> QED BY <3>1, <3>2, <3>3, <3>4
  <2>3. ASSUME NEW n \in w.got
        PROVE  /\ v.items[n] = w.items[n] /\ Needs(v, Import(n)) = Needs(w, Import(n))
               /\ Needs(v, Resource(n)) = Needs(w, Resource(n))
    <3>1. n # m /\ n \in Module
      BY <1>u, <1>w, StoreTypes
    <3>2. Import(n) \notin OfImport(m) /\ Resource(n) \notin OfImport(m)
      BY <3>1, <1>o, TargetFields
    <3> QED BY <3>1, <3>2
  <2> QED BY <2>1, <2>2, <2>3 DEF Grows
<1>x. Fixed(w, v, t)
  <2>1. ASSUME NEW s \in w.all, s.kind \in {"job", "cached", "testjob", "testcached"} PROVE Needs(v, s) = Needs(w, s)
    <3>1. s \notin OfImport(m)
      BY <2>1, <1>n, <1>a, TargetFields DEF OfImport
    <3> QED BY <3>1
  <2>2. ASSUME NEW i \in v.resolved \ w.resolved PROVE Ready(i) \notin v.completed
    BY <1>n, <1>u, TargetFields
  <2>3. ASSUME Known \in w.completed PROVE v.testsImports = w.testsImports
    <3>1. \A n \in Module : v.testsImports[n] = w.testsImports[n]
      <4>1. ASSUME NEW n \in w.code.tests[m] PROVE m \in w.testsImports[n]
        <5>1. SatInv(w) /\ FoundInv(w) /\ Known \in w.completed
          BY <1>w, <2>3
        <5> QED BY <5>1, KnownTests, Zenon
      <4>2. \A n \in w.code.tests[m] : w.testsImports[n] \cup {m} = w.testsImports[n]
        BY <4>1, Zenon
      <4> QED BY <4>2, Zenon DEF FoundFor
    <3>2. v.testsImports \in [Module -> SUBSET Module] /\ w.testsImports \in [Module -> SUBSET Module]
      BY <1>w, StoreTypes
    <3> QED BY <3>1, <3>2
  <2>4. \A n \in Module : \A o \in v.testedBy[n] \ w.testedBy[n] : o \notin w.got /\ n \in w.code.tests[o]
    <3>1. m \notin w.got
      BY <1>u
    <3>2. ASSUME NEW n \in Module, NEW o \in v.testedBy[n], o \notin w.testedBy[n]
          PROVE  o = m /\ n \in w.code.tests[o]
      <4>1. n \in w.code.tests[m] /\ v.testedBy[n] = w.testedBy[n] \cup {m}
        BY <3>2
      <4> QED BY <4>1, <3>2, Zenon
    <3> QED BY <3>1, <3>2, Zenon
  <2>5. \A n \in Module : Test(n) \in w.completed => v.test[n] = w.test[n]
    BY <1>n, <1>w DEF ClosedInv
  <2> QED BY <2>1, <2>2, <2>3, <2>4, <2>5 DEF Fixed
<1>d. NewDone(w, v)
  <2>1. Needs(v, t) = Needs(w, t)
    BY <1>u, <1>o
  <2>2. Deps(v, t) = Deps(w, t)
    <3>1. t.kind \in {"job", "cached"}
      BY <1>u
    <3>2. Deps(v, t) = Range(Needs(v, t)) /\ Deps(w, t) = Range(Needs(w, t))
      BY <3>1, DepsOfJobs, Zenon
    <3> QED BY <3>2, <2>1, Zenon
  <2> QED BY <2>2 DEF NewDone, Satisfied
<1>s. StoreInv(v)
  BY <1>w, <1>c, <1>j, <1>t, <1>f, <1>i, <1>g, <1>x, <1>d, StepKeeps
<1> QED BY <1>s, <1>g, <1>x, <1>d

\* An import goes on with another job.
LEMMA NextJobStep ==
    ASSUME NEW w, StoreInv(w), NEW m \in Module, NEW t, t = w.job[m], t \notin w.completed, Satisfied(w, Deps(w, t)),
           NEW k \in 1 .. MaxJobs, k = IF t.kind = "cached" THEN 1 ELSE t.idx + 1,
           NEW next, next = ImportJob(m, k),
           NEW v, v \in Store, v.code = w.code, v.cache = w.cache, v.first = w.first, v.got = w.got,
           v.job[m] = next, \A n \in Module : n # m => v.job[n] = w.job[n],
           v.completed = w.completed \cup {t}, v.ready = w.ready, ~v.failed,
           v.all = w.all \cup {next}, v.own = w.own \cup {next}, NeedsExist(v),
           \A s : s # next => Needs(v, s) = Needs(w, s) /\ (s \in DOMAIN v.needs => s \in DOMAIN w.needs),
           SameItems(w, v), v.test = w.test, v.testedBy = w.testedBy,
           FoundFor(w, v, m) \/ (v.testsImports = w.testsImports /\ t.kind = "cached")
    PROVE  StoreInv(v) /\ Grows(w, v) /\ Fixed(w, v, t) /\ NewDone(w, v)
<1>w. /\ w \in Store /\ ClosedInv(w) /\ SatInv(w) /\ JobsInv(w) /\ TestsInv(w) /\ FoundInv(w) /\ ItemsInv(w)
      /\ ReadyInv(w) /\ ~w.failed /\ w.code \in Programs
  BY StoreTypes DEF StoreInv
<1>u. /\ t \in {Cached(m)} \cup {ImportJob(m, j) : j \in 1 .. MaxJobs} /\ t \in w.all /\ t.kind \in {"job", "cached"}
      /\ m \notin w.got /\ t.of = m
  BY <1>w, TargetFields DEF JobsInv, ClosedInv
<1>k. next.kind = "job" /\ next.of = m /\ next.idx = k
  BY TargetFields
<1>n. next \notin w.all /\ next \notin w.completed /\ next # t
  <2>1. SUFFICES next \notin w.all
    BY <1>u, <1>w DEF ClosedInv
  <2>2. SUFFICES ASSUME next \in w.all PROVE FALSE
    OBVIOUS
  <2>3. t.kind = "job" /\ k <= t.idx
    BY <2>2, <1>w DEF JobsInv
  <2>4. t.idx \in 1 .. MaxJobs
    BY <2>3, <1>u, TargetFields
  <2> QED BY <2>3, <2>4, OrderAssumption
<1>e. w.completed \subseteq v.completed /\ w.own \subseteq v.own
  OBVIOUS
<1>c. ClosedInv(v)
  <2>1. ItemClosed(v)
    <3>1. \A i : ItemTargets(v, i) = ItemTargets(w, i)
      BY DEF ItemTargets
    <3>2. \A i : Resolved(i) # next /\ Complete(i) # next
      BY <1>k, TargetFields
    <3>3. ItemClosed(w)
      BY <1>w DEF ClosedInv
    <3> QED BY <3>1, <3>2, <3>3 DEF ItemClosed
  <2> QED BY <2>1, <1>w, <1>u DEF ClosedInv
<1>j. JobsInv(v)
  <2> SUFFICES ASSUME NEW n \in Module
               PROVE  /\ v.job[n] \in {Cached(n)} \cup {ImportJob(n, j) : j \in 1 .. MaxJobs}
                      /\ v.job[n] \in v.own
                      /\ v.job[n] \in v.completed <=> n \in v.got
                      /\ \A j \in 1 .. MaxJobs : ImportJob(n, j) \in v.all =>
                            /\ v.job[n].kind = "job" /\ j <= v.job[n].idx
                            /\ j < v.job[n].idx => ImportJob(n, j) \in v.completed
                      /\ Cached(n) \in v.all => v.job[n] = Cached(n) \/ Cached(n) \in v.completed
    BY DEF JobsInv
  <2>1. CASE n = m
    <3>1. v.job[m] = next /\ next \notin v.completed /\ next \in v.own
      BY <1>n
    <3>2. ASSUME NEW j \in 1 .. MaxJobs, ImportJob(m, j) \in v.all
          PROVE  j <= k /\ (j < k => ImportJob(m, j) \in v.completed)
      <4>1. CASE ImportJob(m, j) \in w.all
        <5>1. /\ t.kind = "job" /\ j <= t.idx
              /\ j < t.idx => ImportJob(m, j) \in w.completed
          BY <4>1, <1>w DEF JobsInv
        <5>2. t.idx \in 1 .. MaxJobs /\ t = ImportJob(m, t.idx)
          BY <5>1, <1>u, TargetFields
        <5>3. k = t.idx + 1
          BY <5>1
        <5>4. j = t.idx => ImportJob(m, j) \in v.completed
          BY <5>2
        <5> QED BY <5>1, <5>2, <5>3, <5>4, <1>e, OrderAssumption
      <4>2. CASE ImportJob(m, j) \notin w.all
        <5>1. ImportJob(m, j) = next
          BY <4>2, <3>2
        <5>2. j = k
          BY <5>1, TargetFields
        <5> QED BY <5>2, OrderAssumption
      <4> QED BY <4>1, <4>2
    <3>3. Cached(m) \in v.all => Cached(m) \in v.completed
      <4>1. Cached(m) \in v.all => Cached(m) \in w.all
        BY <1>k, TargetFields
      <4>2. Cached(m) \in w.all => t = Cached(m) \/ Cached(m) \in w.completed
        BY <1>w DEF JobsInv
      <4> QED BY <4>1, <4>2
    <3>4. m \notin v.got
      BY <1>u
    <3> QED BY <2>1, <3>1, <3>2, <3>3, <3>4, <1>k
  <2>2. CASE n # m
    <3>1. (Cached(n) \in v.all => Cached(n) \in w.all) /\ \A j : ImportJob(n, j) \in v.all => ImportJob(n, j) \in w.all
      BY <2>2, <1>k, TargetFields
    <3>2. v.job[n] = w.job[n] /\ w.job[n].of = n
      BY <2>2, <1>w, TargetFields DEF JobsInv
    <3>3. v.job[n] \in v.completed <=> n \in v.got
      <4>1. w.job[n] # t
        BY <3>2, <2>2, <1>u
      <4> QED BY <4>1, <3>2, <1>w DEF JobsInv
    <3> QED BY <3>1, <3>2, <3>3, <1>e, <1>w DEF JobsInv
  <2> QED BY <2>1, <2>2
<1>t. TestsInv(v)
  <2>1. \A n : /\ Test(n) \in v.all <=> Test(n) \in w.all
               /\ TestCached(n) \in v.all <=> TestCached(n) \in w.all
               /\ \A j : TestJob(n, j) \in v.all <=> TestJob(n, j) \in w.all
    BY <1>k, TargetFields
  <2>2. \A n : IsTests(v, n) <=> IsTests(w, n)
    BY DEF IsTests
  <2> QED BY <2>1, <2>2, <1>e, <1>w DEF TestsInv
<1>f. FoundInv(v)
  <2>1. v.first = {ImportJob(n, 1) : n \in Module \ v.cache.imports}
    BY <1>w DEF FoundInv
  <2>2. ASSUME NEW n \in Module, n \in v.cache.imports \/ ImportJob(n, 1) \in v.completed,
               NEW o \in v.code.tests[n]
        PROVE  n \in v.testsImports[o]
    <3>1. o \in Module
      BY <1>w, ProgramTypes
    <3>2. w.testsImports[o] \subseteq v.testsImports[o]
      BY <3>1, Zenon DEF FoundFor
    <3>3. CASE n = m /\ FoundFor(w, v, m)
      BY <3>1, <3>3, <2>2 DEF FoundFor
    <3>4. CASE n # m \/ t.kind = "cached"
      <4>1. n \in w.cache.imports \/ ImportJob(n, 1) \in w.completed
        BY <3>4, <2>2, <1>u, TargetFields
      <4> QED BY <4>1, <3>2, <2>2, <1>w DEF FoundInv
    <3> QED BY <3>3, <3>4
  <2> QED BY <2>1, <2>2 DEF FoundInv
<1>i. ItemsInv(v)
  <2>1. \A n : Ready(n) # t /\ Complete(n) # t /\ Import(n) # next /\ Resource(n) # next
    BY <1>u, <1>k, TargetFields
  <2>2. /\ \A i \in v.resolved : Resolved(i) \in v.own
        /\ \A i \in v.provided : \E n \in Module : i \in v.code.provides[n] /\ n \in v.got
        /\ \A i \in v.picked : Resolved(i) \in v.completed
    BY <1>w, <1>e DEF ItemsInv, SameItems
  <2>3. /\ \A i \in Item : Ready(i) \in v.completed => i \in v.provided
        /\ \A i \in Item : Complete(i) \in v.completed => i \in v.picked
    BY <1>w, <2>1 DEF ItemsInv, SameItems
  <2>4. \A n \in Module : n \notin v.got =>
            Import(n) \notin DOMAIN v.needs /\ Resource(n) \notin DOMAIN v.needs /\ v.items[n] = {}
    BY <1>w, <2>1 DEF ItemsInv, SameItems
  <2> QED BY <2>2, <2>3, <2>4 DEF ItemsInv
<1>g. Grows(w, v)
  <2>1. ASSUME NEW s \in w.all, s.kind # "test" PROVE LaterNeeds(Needs(w, s), Needs(v, s))
    BY <1>n DEF LaterNeeds, Later
  <2>2. ASSUME NEW n \in Module
        PROVE  /\ w.items[n] \subseteq v.items[n]
               /\ w.testsImports[n] \subseteq v.testsImports[n] /\ w.testedBy[n] \subseteq v.testedBy[n]
               /\ v.job[n] = w.job[n] \/ v.job[n] \notin w.all
    <3>1. w.testsImports[n] \subseteq v.testsImports[n]
      BY Zenon DEF FoundFor
    <3>2. v.job[n] = w.job[n] \/ v.job[n] \notin w.all
      BY <1>n
    <3> QED BY <3>1, <3>2 DEF SameItems
  <2>3. ASSUME NEW n \in w.got
        PROVE  /\ v.items[n] = w.items[n] /\ Needs(v, Import(n)) = Needs(w, Import(n))
               /\ Needs(v, Resource(n)) = Needs(w, Resource(n))
    <3>1. Import(n) # next /\ Resource(n) # next
      BY <1>k, TargetFields
    <3> QED BY <3>1 DEF SameItems
  <2> QED BY <2>1, <2>2, <2>3 DEF Grows, SameItems
<1>x. Fixed(w, v, t)
  <2>1. ASSUME NEW s \in w.all PROVE Needs(v, s) = Needs(w, s)
    BY <1>n
  <2>3. ASSUME Known \in w.completed PROVE v.testsImports = w.testsImports
    <3>1. CASE FoundFor(w, v, m)
      <4>1. ASSUME NEW n \in w.code.tests[m] PROVE m \in w.testsImports[n]
        <5>1. SatInv(w) /\ FoundInv(w) /\ Known \in w.completed
          BY <1>w, <2>3
        <5> QED BY <5>1, KnownTests, Zenon
      <4>2. \A n \in w.code.tests[m] : w.testsImports[n] \cup {m} = w.testsImports[n]
        BY <4>1, Zenon
      <4>3. \A n \in Module : v.testsImports[n] = w.testsImports[n]
        BY <4>2, <3>1, Zenon DEF FoundFor
      <4>4. v.testsImports \in [Module -> SUBSET Module] /\ w.testsImports \in [Module -> SUBSET Module]
        BY <1>w, StoreTypes
      <4> QED BY <4>3, <4>4
    <3> QED BY <3>1
  <2> QED BY <2>1, <2>3 DEF Fixed, SameItems
<1>d. NewDone(w, v)
  <2>1. Needs(v, t) = Needs(w, t)
    BY <1>n
  <2>2. Deps(v, t) = Deps(w, t)
    <3>1. t.kind \in {"job", "cached"}
      BY <1>u
    <3>2. Deps(v, t) = Range(Needs(v, t)) /\ Deps(w, t) = Range(Needs(w, t))
      BY <3>1, DepsOfJobs, Zenon
    <3> QED BY <3>2, <2>1, Zenon
  <2> QED BY <2>2 DEF NewDone, Satisfied
<1>s. StoreInv(v)
  BY <1>w, <1>c, <1>j, <1>t, <1>f, <1>i, <1>g, <1>x, <1>d, StepKeeps
<1> QED BY <1>s, <1>g, <1>x, <1>d

\* The deps of a job, or of a cached result, are its needs and the imports.
LEMMA SameJobDeps ==
    ASSUME NEW w, NEW v, v.code = w.code, NEW t, t.kind \in {"job", "cached", "testjob", "testcached"},
           Needs(v, t) = Needs(w, t)
    PROVE  Deps(v, t) = Deps(w, t)
<1>1. Helpers(v, t.of) = Helpers(w, t.of)
  BY DEF Helpers
<1>2. CASE t.kind \in {"job", "cached"}
  BY <1>2, DepsOfJobs
<1>3. CASE t.kind \in {"testjob", "testcached"}
  BY <1>1, <1>3, DepsOfJobs
<1> QED BY <1>2, <1>3

\* A test goes on with another job.
LEMMA NextTestJobStep ==
    ASSUME NEW w, StoreInv(w), NEW m \in Module, NEW t, t = w.test[m], t # NoTarget,
           t \notin w.completed, Satisfied(w, Deps(w, t)),
           NEW k \in 1 .. MaxJobs, k = IF t.kind = "testcached" THEN 1 ELSE t.idx + 1,
           NEW next, next = TestJob(m, k),
           NEW v, v \in Store, SameImports(w, v), SameItems(w, v),
           v.test[m] = next, \A n \in Module : n # m => v.test[n] = w.test[n],
           v.testsImports = w.testsImports, v.testedBy = w.testedBy,
           v.completed = w.completed \cup {t}, v.ready = w.ready, ~v.failed,
           v.all = w.all \cup {next}, v.own = w.own \cup {next}, NeedsExist(v),
           \A s : s \notin {next, Test(m)} => Needs(v, s) = Needs(w, s) /\ (s \in DOMAIN v.needs => s \in DOMAIN w.needs)
    PROVE  StoreInv(v) /\ Grows(w, v) /\ Fixed(w, v, t) /\ NewDone(w, v)
<1>w. /\ w \in Store /\ ClosedInv(w) /\ SatInv(w) /\ JobsInv(w) /\ TestsInv(w) /\ FoundInv(w) /\ ItemsInv(w)
      /\ ReadyInv(w) /\ ~w.failed /\ w.code \in Programs
  BY StoreTypes DEF StoreInv
<1>z. v.code = w.code /\ v.cache = w.cache /\ v.first = w.first /\ v.job = w.job /\ v.got = w.got
  BY DEF SameImports
<1>u. /\ t \in {TestCached(m)} \cup {TestJob(m, j) : j \in 1 .. MaxJobs} /\ t \in w.all /\ t.kind \in {"testjob", "testcached"}
      /\ t.of = m
  BY <1>w, TargetFields DEF TestsInv, ClosedInv
<1>k. next.kind = "testjob" /\ next.of = m /\ next.idx = k
  BY TargetFields
<1>n. next \notin w.all /\ next \notin w.completed /\ next # t
  <2>1. SUFFICES next \notin w.all
    BY <1>u, <1>w DEF ClosedInv
  <2>2. SUFFICES ASSUME next \in w.all PROVE FALSE
    OBVIOUS
  <2>3. t.kind = "testjob" /\ k <= t.idx
    BY <2>2, <1>w DEF TestsInv
  <2>4. t.idx \in 1 .. MaxJobs
    BY <2>3, <1>u, TargetFields
  <2> QED BY <2>3, <2>4, OrderAssumption
<1>e. w.completed \subseteq v.completed /\ w.own \subseteq v.own
  OBVIOUS
<1>c. ClosedInv(v)
  <2>1. ItemClosed(v)
    <3>1. \A i : ItemTargets(v, i) = ItemTargets(w, i)
      BY <1>z DEF ItemTargets
    <3>2. \A i : Resolved(i) # next /\ Complete(i) # next
      BY <1>k, TargetFields
    <3>3. ItemClosed(w)
      BY <1>w DEF ClosedInv
    <3> QED BY <3>1, <3>2, <3>3 DEF ItemClosed
  <2> QED BY <2>1, <1>w, <1>u DEF ClosedInv
<1>j. JobsInv(v)
  <2>1. \A n : /\ Cached(n) \in v.all <=> Cached(n) \in w.all
               /\ \A j : ImportJob(n, j) \in v.all <=> ImportJob(n, j) \in w.all
    BY <1>k, TargetFields
  <2>2. \A n \in Module : w.job[n] # t
    BY <1>u, <1>w, TargetFields DEF JobsInv
  <2> QED BY <2>1, <2>2, <1>e, <1>z, <1>w DEF JobsInv
<1>t. TestsInv(v)
  <2> SUFFICES ASSUME NEW n \in Module
               PROVE  /\ v.test[n] \in {NoTarget, TestCached(n)} \cup {TestJob(n, j) : j \in 1 .. MaxJobs}
                      /\ v.test[n] # NoTarget <=> n \in v.got /\ IsTests(v, n)
                      /\ v.test[n] # NoTarget <=> Test(n) \in v.all
                      /\ v.test[n] # NoTarget => v.test[n] \in v.own /\ \A o \in v.code.tests[n] : n \in v.testedBy[o]
                      /\ \A j \in 1 .. MaxJobs : TestJob(n, j) \in v.all =>
                            /\ v.test[n].kind = "testjob" /\ j <= v.test[n].idx
                            /\ j < v.test[n].idx => TestJob(n, j) \in v.completed
                      /\ TestCached(n) \in v.all =>
                            v.test[n] = TestCached(n) \/ (TestCached(n) \in v.completed /\ v.test[n].kind = "testjob")
    BY DEF TestsInv
  <2>0. (IsTests(v, n) <=> IsTests(w, n)) /\ (Test(n) \in v.all <=> Test(n) \in w.all)
    BY <1>z, <1>k, TargetFields DEF IsTests
  <2>1. CASE n = m
    <3>1. v.test[m] = next /\ next \notin v.completed /\ next \in v.own
      BY <1>n
    <3>2. ASSUME NEW j \in 1 .. MaxJobs, TestJob(m, j) \in v.all
          PROVE  j <= k /\ (j < k => TestJob(m, j) \in v.completed)
      <4>1. CASE TestJob(m, j) \in w.all
        <5>1. /\ t.kind = "testjob" /\ j <= t.idx
              /\ j < t.idx => TestJob(m, j) \in w.completed
          BY <4>1, <1>w DEF TestsInv
        <5>2. t.idx \in 1 .. MaxJobs /\ t = TestJob(m, t.idx)
          BY <5>1, <1>u, TargetFields
        <5>3. k = t.idx + 1
          BY <5>1
        <5>4. j = t.idx => TestJob(m, j) \in v.completed
          BY <5>2
        <5> QED BY <5>1, <5>2, <5>3, <5>4, <1>e, OrderAssumption
      <4>2. CASE TestJob(m, j) \notin w.all
        <5>1. TestJob(m, j) = next
          BY <4>2, <3>2
        <5>2. j = k
          BY <5>1, TargetFields
        <5> QED BY <5>2, OrderAssumption
      <4> QED BY <4>1, <4>2
    <3>3. TestCached(m) \in v.all => TestCached(m) \in v.completed
      <4>1. TestCached(m) \in v.all => TestCached(m) \in w.all
        BY <1>k, TargetFields
      <4>2. TestCached(m) \in w.all => t = TestCached(m) \/ TestCached(m) \in w.completed
        BY <1>w DEF TestsInv
      <4> QED BY <4>1, <4>2
    <3>4. m \in w.got /\ IsTests(w, m) /\ Test(m) \in w.all /\ \A o \in v.code.tests[m] : m \in v.testedBy[o]
      BY <1>w, <1>z DEF TestsInv
    <3>5. next # NoTarget
      BY <1>k, TargetFields
    <3> QED BY <2>0, <2>1, <3>1, <3>2, <3>3, <3>4, <3>5, <1>k, <1>z
  <2>2. CASE n # m
    <3>1. /\ TestCached(n) \in v.all => TestCached(n) \in w.all
          /\ \A j : TestJob(n, j) \in v.all => TestJob(n, j) \in w.all
      BY <2>2, <1>k, TargetFields
    <3> QED BY <2>0, <2>2, <3>1, <1>e, <1>z, <1>w DEF TestsInv
  <2> QED BY <2>1, <2>2
<1>f. FoundInv(v)
  <2>1. \A n : ImportJob(n, 1) # t
    BY <1>u, TargetFields
  <2> QED BY <2>1, <1>z, <1>w DEF FoundInv
<1>i. ItemsInv(v)
  <2>1. \A n : Ready(n) # t /\ Complete(n) # t /\ Import(n) \notin {next, Test(m)} /\ Resource(n) \notin {next, Test(m)}
    BY <1>u, <1>k, TargetFields
  <2>2. /\ \A i \in v.resolved : Resolved(i) \in v.own
        /\ \A i \in v.provided : \E n \in Module : i \in v.code.provides[n] /\ n \in v.got
        /\ \A i \in v.picked : Resolved(i) \in v.completed
    BY <1>w, <1>e, <1>z DEF ItemsInv, SameItems
  <2>3. /\ \A i \in Item : Ready(i) \in v.completed => i \in v.provided
        /\ \A i \in Item : Complete(i) \in v.completed => i \in v.picked
    BY <1>w, <2>1 DEF ItemsInv, SameItems
  <2>4. \A n \in Module : n \notin v.got =>
            Import(n) \notin DOMAIN v.needs /\ Resource(n) \notin DOMAIN v.needs /\ v.items[n] = {}
    BY <1>w, <2>1, <1>z DEF ItemsInv, SameItems
  <2> QED BY <2>2, <2>3, <2>4 DEF ItemsInv
<1>g. Grows(w, v)
  <2>1. ASSUME NEW s \in w.all, s.kind # "test" PROVE LaterNeeds(Needs(w, s), Needs(v, s))
    <3>1. s \notin {next, Test(m)}
      BY <2>1, <1>n, TargetFields
    <3> QED BY <3>1 DEF LaterNeeds, Later
  <2>2. ASSUME NEW n \in w.got
        PROVE  /\ v.items[n] = w.items[n] /\ Needs(v, Import(n)) = Needs(w, Import(n))
               /\ Needs(v, Resource(n)) = Needs(w, Resource(n))
    <3>1. Import(n) \notin {next, Test(m)} /\ Resource(n) \notin {next, Test(m)}
      BY <1>k, TargetFields
    <3> QED BY <3>1 DEF SameItems
  <2>3. \A n \in Module : v.test[n] = w.test[n] \/ v.test[n] \notin w.all
    BY <1>n
  <2> QED BY <2>1, <2>2, <2>3, <1>z DEF Grows, SameItems
<1>x. Fixed(w, v, t)
  <2>1. ASSUME NEW s \in w.all, s.kind \in {"job", "cached", "testjob", "testcached"} PROVE Needs(v, s) = Needs(w, s)
    <3>1. s \notin {next, Test(m)}
      BY <2>1, <1>n, TargetFields
    <3> QED BY <3>1
  <2>2. ASSUME NEW n \in Module, Test(n) \in w.completed PROVE v.test[n] = w.test[n]
    <3>1. n # m
      BY <2>2, <1>w, Below
    <3> QED BY <3>1
  <2> QED BY <2>1, <2>2, <1>z DEF Fixed, SameItems
<1>d. NewDone(w, v)
  <2>1. Needs(v, t) = Needs(w, t)
    <3>1. t \notin {next, Test(m)}
      BY <1>n, <1>u, TargetFields
    <3> QED BY <3>1
  <2>2. Deps(v, t) = Deps(w, t)
    <3>1. t.kind \in {"job", "cached", "testjob", "testcached"} /\ v.code = w.code
      BY <1>u, <1>z
    <3> QED BY <3>1, <2>1, SameJobDeps
  <2> QED BY <2>2 DEF NewDone, Satisfied
<1>s. StoreInv(v)
  BY <1>w, <1>z, <1>c, <1>j, <1>t, <1>f, <1>i, <1>g, <1>x, <1>d, StepKeeps
<1> QED BY <1>s, <1>g, <1>x, <1>d

\* A job is completed before or after new targets are made.
LEMMA CompletedLater ==
    ASSUME NEW w, w \in Store, NEW t \in Target, t.kind # "resolved", NEW reqs \in SUBSET (Module \cup Item)
    PROVE  WithTargets(Completed(w, t), reqs) = Completed(WithTargets(w, reqs), t)
<1>1. \A r : TargetsFor(Completed(w, t), r) = TargetsFor(w, r)
  <2>1. Completed(w, t).code = w.code /\ Completed(w, t).completed = w.completed \cup {t}
    BY DEF Completed, Store
  <2>2. \A i : Resolved(i) \in Completed(w, t).completed <=> Resolved(i) \in w.completed
    BY <2>1, TargetFields
  <2> HIDE DEF Completed
  <2> QED BY <2>1, <2>2, TargetsForSame
<1> DEFINE added == UNION {TargetsFor(w, r) : r \in reqs}
<1> DEFINE own == {Resource(m) : m \in reqs \cap Module}
<1>2. WithTargets(Completed(w, t), reqs) = [Completed(w, t) EXCEPT !.all = @ \cup added, !.own = @ \cup own]
  BY <1>1 DEF WithTargets
<1>3. WithTargets(w, reqs) = [w EXCEPT !.all = @ \cup added, !.own = @ \cup own]
  BY DEF WithTargets
<1> HIDE DEF added, own
<1>4. [Completed(w, t) EXCEPT !.all = @ \cup added, !.own = @ \cup own]
        = Completed([w EXCEPT !.all = @ \cup added, !.own = @ \cup own], t)
  BY DEF Completed, Store
<1> QED BY <1>2, <1>3, <1>4

\* An assertion that holds changes nothing.
LEMMA AssertedIs ==
    ASSUME NEW w, w \in Store, ~w.failed, NEW set, \A m \in set : Resource(m) \notin w.completed
    PROVE  Asserted(w, set) = w
  BY DEF Asserted, Store

\* The targets of some requirements and of some more.
LEMMA WithTargetsTwice ==
    ASSUME NEW w, w \in Store, NEW reqs \in SUBSET (Module \cup Item), NEW more \in SUBSET (Module \cup Item)
    PROVE  WithTargets(WithTargets(w, reqs), more) = WithTargets(w, reqs \cup more)
<1> DEFINE added(set) == UNION {TargetsFor(w, r) : r \in set}
<1> DEFINE own(set) == {Resource(m) : m \in set \cap Module}
<1> DEFINE v == WithTargets(w, reqs)
<1>1. \A r : TargetsFor(v, r) = TargetsFor(w, r)
  <2>1. v.code = w.code /\ v.completed = w.completed
    BY WithTargetsIs DEF SameImports, SameStatus
  <2> HIDE DEF v
  <2> QED BY <2>1, TargetsForSame
<1>2. WithTargets(v, more) = [v EXCEPT !.all = @ \cup added(more), !.own = @ \cup own(more)]
  <2> HIDE DEF v
  <2> QED BY <1>1 DEF WithTargets
<1>3. v = [w EXCEPT !.all = @ \cup added(reqs), !.own = @ \cup own(reqs)]
  BY DEF WithTargets
<1>4. WithTargets(w, reqs \cup more) = [w EXCEPT !.all = @ \cup added(reqs \cup more), !.own = @ \cup own(reqs \cup more)]
  BY DEF WithTargets
<1>5. added(reqs \cup more) = added(reqs) \cup added(more) /\ own(reqs \cup more) = own(reqs) \cup own(more)
  OBVIOUS
<1> HIDE DEF added, own, v
<1>6. v \in Store /\ v.all = w.all \cup added(reqs) /\ v.own = w.own \cup own(reqs)
  BY <1>3, WithTargetsIs DEF v
<1>7. /\ v.all \cup added(more) = w.all \cup added(reqs \cup more)
      /\ v.own \cup own(more) = w.own \cup own(reqs \cup more)
  BY <1>5, <1>6
<1>8. WithTargets(v, more) = [v EXCEPT !.all = w.all \cup added(reqs \cup more), !.own = w.own \cup own(reqs \cup more)]
  BY <1>2, <1>7
<1>9. WithTargets(w, reqs \cup more) = [w EXCEPT !.all = w.all \cup added(reqs \cup more), !.own = w.own \cup own(reqs \cup more)]
  BY <1>4
<1> QED BY <1>3, <1>8, <1>9 DEF Store, v

\* A target is completed.
LEMMA CompletedIs ==
    ASSUME NEW w, w \in Store, NEW t \in Target
    PROVE  LET v == Completed(w, t) IN
           /\ v \in Store /\ SameImports(w, v) /\ SameItems(w, v) /\ SameTests(w, v)
           /\ v.completed = w.completed \cup {t} /\ v.ready = w.ready /\ v.failed = w.failed
           /\ v.all = w.all /\ v.own = w.own /\ v.needs = w.needs /\ \A s : Needs(v, s) = Needs(w, s)
<1> DEFINE v == Completed(w, t)
<1>1. v \in Store /\ v.needs = w.needs
  BY DEF Completed, Store
<1>2. SameImports(w, v) /\ SameItems(w, v) /\ SameTests(w, v)
  BY DEF Completed, Store, SameImports, SameItems, SameTests
<1>3. /\ v.completed = w.completed \cup {t} /\ v.ready = w.ready /\ v.failed = w.failed
      /\ v.all = w.all /\ v.own = w.own
  BY DEF Completed, Store
<1>4. \A s : Needs(v, s) = Needs(w, s)
  BY <1>1 DEF Needs
<1> QED BY <1>1, <1>2, <1>3, <1>4

\* A target of the project is made.
LEMMA AdoptedIs ==
    ASSUME NEW w, w \in Store, NEW t \in Target
    PROVE  LET v == Adopted(w, t) IN
           /\ v \in Store /\ SameImports(w, v) /\ SameItems(w, v) /\ SameTests(w, v) /\ SameStatus(w, v)
           /\ v.all = w.all \cup {t} /\ v.own = w.own \cup {t} /\ v.needs = w.needs /\ \A s : Needs(v, s) = Needs(w, s)
<1> DEFINE v == Adopted(w, t)
<1>1. v \in Store /\ v.needs = w.needs /\ v.all = w.all \cup {t} /\ v.own = w.own \cup {t}
  BY DEF Adopted, Store
<1>2. SameImports(w, v) /\ SameItems(w, v) /\ SameTests(w, v) /\ SameStatus(w, v)
  BY DEF Adopted, Store, SameImports, SameItems, SameTests, SameStatus
<1>3. \A s : Needs(v, s) = Needs(w, s)
  BY <1>1 DEF Needs
<1> QED BY <1>1, <1>2, <1>3

\* An import has a result.
LEMMA GotIs ==
    ASSUME NEW w, w \in Store, NEW m \in Module, NEW v, v = [w EXCEPT !.got = @ \cup {m}]
    PROVE  /\ v \in Store /\ SameItems(w, v) /\ SameTests(w, v) /\ SameStatus(w, v)
           /\ v.code = w.code /\ v.cache = w.cache /\ v.first = w.first /\ v.job = w.job /\ v.got = w.got \cup {m}
           /\ v.all = w.all /\ v.own = w.own /\ v.needs = w.needs /\ \A s : Needs(v, s) = Needs(w, s)
<1>1. /\ v \in Store /\ v.needs = w.needs /\ v.all = w.all /\ v.own = w.own
      /\ v.code = w.code /\ v.cache = w.cache /\ v.first = w.first /\ v.job = w.job /\ v.got = w.got \cup {m}
  BY DEF Store
<1>2. SameItems(w, v) /\ SameTests(w, v) /\ SameStatus(w, v)
  BY DEF Store, SameItems, SameTests, SameStatus
<1>3. \A s : Needs(v, s) = Needs(w, s)
  BY <1>1 DEF Needs
<1> QED BY <1>1, <1>2, <1>3

\* An import has another job.
AtJob(w, m, t) == [w EXCEPT !.job[m] = t]
\* What that leaves as it is.
LEMMA JobIs ==
    ASSUME NEW w, w \in Store, NEW m \in Module, NEW t \in Target, NEW v, v = AtJob(w, m, t)
    PROVE  /\ v \in Store /\ SameItems(w, v) /\ SameTests(w, v) /\ SameStatus(w, v)
           /\ v.code = w.code /\ v.cache = w.cache /\ v.first = w.first /\ v.got = w.got
           /\ v.job[m] = t /\ \A n \in Module : n # m => v.job[n] = w.job[n]
           /\ v.all = w.all /\ v.own = w.own /\ v.needs = w.needs /\ \A s : Needs(v, s) = Needs(w, s)
<1>1. /\ v \in Store /\ v.needs = w.needs /\ v.all = w.all /\ v.own = w.own
      /\ v.code = w.code /\ v.cache = w.cache /\ v.first = w.first /\ v.got = w.got
      /\ v.job[m] = t /\ \A n \in Module : n # m => v.job[n] = w.job[n]
  BY DEF AtJob, Store
<1>2. SameItems(w, v) /\ SameTests(w, v) /\ SameStatus(w, v)
  BY DEF AtJob, Store, SameItems, SameTests, SameStatus
<1>3. \A s : Needs(v, s) = Needs(w, s)
  BY <1>1 DEF Needs
<1> QED BY <1>1, <1>2, <1>3

\* A test has another job.
LEMMA TestIs ==
    ASSUME NEW w, w \in Store, NEW m \in Module, NEW t \in Target, NEW v, v = [w EXCEPT !.test[m] = t]
    PROVE  /\ v \in Store /\ SameImports(w, v) /\ SameItems(w, v) /\ SameStatus(w, v)
           /\ v.testsImports = w.testsImports /\ v.testedBy = w.testedBy
           /\ v.test[m] = t /\ \A n \in Module : n # m => v.test[n] = w.test[n]
           /\ v.all = w.all /\ v.own = w.own /\ v.needs = w.needs /\ \A s : Needs(v, s) = Needs(w, s)
<1>1. /\ v \in Store /\ v.needs = w.needs /\ v.all = w.all /\ v.own = w.own
      /\ v.testsImports = w.testsImports /\ v.testedBy = w.testedBy
      /\ v.test[m] = t /\ \A n \in Module : n # m => v.test[n] = w.test[n]
  BY DEF Store
<1>2. SameImports(w, v) /\ SameItems(w, v) /\ SameStatus(w, v)
  BY DEF Store, SameItems, SameImports, SameStatus
<1>3. \A s : Needs(v, s) = Needs(w, s)
  BY <1>1 DEF Needs
<1> QED BY <1>1, <1>2, <1>3

\* Some modules have another one.
Plus(f, g, set, m) == \A n \in Module : g[n] = IF n \in set THEN f[n] \cup {m} ELSE f[n]

\* Modules wait for the import of their tests.
TestsFound(w, m, set) == [w EXCEPT !.testsImports = [n \in Module |-> IF n \in set THEN @[n] \cup {m} ELSE @[n]]]
\* What that leaves as it is, and what the others wait for.
LEMMA TestsImportsIs ==
    ASSUME NEW w, w \in Store, NEW m \in Module, NEW set, NEW v, v = TestsFound(w, m, set)
    PROVE  /\ v \in Store /\ SameImports(w, v) /\ SameItems(w, v) /\ SameStatus(w, v)
           /\ v.test = w.test /\ v.testedBy = w.testedBy
           /\ Plus(w.testsImports, v.testsImports, set, m)
           /\ v.all = w.all /\ v.own = w.own /\ v.needs = w.needs /\ \A s : Needs(v, s) = Needs(w, s)
<1> DEFINE f == [n \in Module |-> IF n \in set THEN w.testsImports[n] \cup {m} ELSE w.testsImports[n]]
<1>f. f \in [Module -> SUBSET Module]
  BY StoreTypes
<1>g. Plus(w.testsImports, f, set, m)
  BY DEF Plus
<1>v. v = [w EXCEPT !.testsImports = f]
  BY DEF TestsFound
<1> HIDE DEF f
<1>1. /\ v \in Store /\ v.needs = w.needs /\ v.all = w.all /\ v.own = w.own
      /\ v.test = w.test /\ v.testedBy = w.testedBy /\ v.testsImports = f
  BY <1>v, <1>f DEF Store
<1>2. SameImports(w, v) /\ SameItems(w, v) /\ SameStatus(w, v)
  BY <1>v DEF Store, SameItems, SameImports, SameStatus
<1>3. \A s : Needs(v, s) = Needs(w, s)
  BY <1>1 DEF Needs
<1> QED BY <1>g, <1>1, <1>2, <1>3

\* Modules wait for their test.
TestsMade(w, m, set) == [w EXCEPT !.testedBy = [n \in Module |-> IF n \in set THEN @[n] \cup {m} ELSE @[n]]]
\* What that leaves as it is, and what the others wait for.
LEMMA TestedByIs ==
    ASSUME NEW w, w \in Store, NEW m \in Module, NEW set, NEW v, v = TestsMade(w, m, set)
    PROVE  /\ v \in Store /\ SameImports(w, v) /\ SameItems(w, v) /\ SameStatus(w, v)
           /\ v.test = w.test /\ v.testsImports = w.testsImports
           /\ Plus(w.testedBy, v.testedBy, set, m)
           /\ v.all = w.all /\ v.own = w.own /\ v.needs = w.needs /\ \A s : Needs(v, s) = Needs(w, s)
<1> DEFINE f == [n \in Module |-> IF n \in set THEN w.testedBy[n] \cup {m} ELSE w.testedBy[n]]
<1>f. f \in [Module -> SUBSET Module]
  BY StoreTypes
<1>g. Plus(w.testedBy, f, set, m)
  BY DEF Plus
<1>v. v = [w EXCEPT !.testedBy = f]
  BY DEF TestsMade
<1> HIDE DEF f
<1>1. /\ v \in Store /\ v.needs = w.needs /\ v.all = w.all /\ v.own = w.own
      /\ v.test = w.test /\ v.testsImports = w.testsImports /\ v.testedBy = f
  BY <1>v, <1>f DEF Store
<1>2. SameImports(w, v) /\ SameItems(w, v) /\ SameStatus(w, v)
  BY <1>v DEF Store, SameItems, SameImports, SameStatus
<1>3. \A s : Needs(v, s) = Needs(w, s)
  BY <1>1 DEF Needs
<1> QED BY <1>g, <1>1, <1>2, <1>3

\* A step of one target, and what it keeps.
Step(w, v, u) == StoreInv(v) /\ Grows(w, v) /\ Fixed(w, v, u) /\ NewDone(w, v)
Done(w, v, u) == Step(w, v, u) /\ u \in v.completed

\* A step that makes targets first.
LEMMA AfterTargets ==
    ASSUME NEW w, StoreInv(w), NEW reqs \in SUBSET (Module \cup Item), NEW b, b = WithTargets(w, reqs),
           NEW v, NEW u, Step(b, v, u)
    PROVE  Step(w, v, u)
<1>1. StoreInv(b) /\ Grows(w, b) /\ Fixed(w, b, u) /\ NewDone(w, b)
  BY WithTargetsStep
<1>2. b.completed = w.completed /\ b.resolved = w.resolved
  BY WithTargetsIs DEF StoreInv, SameStatus, SameItems
<1>3. Grows(w, v)
  BY <1>1, GrowsTrans DEF Step
<1>4. Fixed(w, v, u)
  BY <1>1, <1>2, FixedTrans DEF Step
<1>5. NewDone(w, v)
  BY <1>2 DEF Step, NewDone
<1> QED BY <1>3, <1>4, <1>5 DEF Step

\* The base of the steps that follow: the targets of the requirements are there.
LEMMA TargetsBase ==
    ASSUME NEW w, StoreInv(w), NEW reqs \in SUBSET (Module \cup Item), NEW b, b = WithTargets(w, reqs),
           NEW t \in w.all, t.kind \in {"job", "cached", "testjob", "testcached"}, Satisfied(w, Deps(w, t))
    PROVE  /\ StoreInv(b) /\ b \in Store /\ SameImports(w, b) /\ SameItems(w, b) /\ SameTests(w, b) /\ SameStatus(w, b)
           /\ b.all = w.all \cup UNION {TargetsFor(w, r) : r \in reqs}
           /\ b.own = w.own \cup {Resource(m) : m \in reqs \cap Module}
           /\ b.needs = w.needs /\ \A s : Needs(b, s) = Needs(w, s)
           /\ Satisfied(b, Deps(b, t))
<1>w. w \in Store
  BY DEF StoreInv
<1>1. StoreInv(b)
  BY WithTargetsStep
<1>2. /\ b \in Store /\ SameImports(w, b) /\ SameItems(w, b) /\ SameTests(w, b) /\ SameStatus(w, b)
      /\ b.all = w.all \cup UNION {TargetsFor(w, r) : r \in reqs}
      /\ b.own = w.own \cup {Resource(m) : m \in reqs \cap Module}
      /\ b.needs = w.needs /\ \A s : Needs(b, s) = Needs(w, s)
  BY <1>w, WithTargetsIs
<1>3. Deps(b, t) = Deps(w, t)
  <2>1. b.code = w.code
    BY <1>2 DEF SameImports
  <2> QED BY <2>1, <1>2, SameJobDeps
<1>4. b.completed = w.completed
  BY <1>2 DEF SameStatus
<1> QED BY <1>1, <1>2, <1>3, <1>4 DEF Satisfied

\* What a new job changes.
LEMMA WithJobIs ==
    ASSUME NEW w, w \in Store, NEW m \in Module, NEW k \in 1 .. MaxJobs, NEW needs \in NeedMaps,
           NEW next, next = ImportJob(m, k)
    PROVE  LET v == WithJob(w, m, k, needs) IN
           /\ v \in Store /\ SameItems(w, v) /\ SameTests(w, v) /\ SameStatus(w, v)
           /\ v.code = w.code /\ v.cache = w.cache /\ v.first = w.first /\ v.got = w.got
           /\ v.job[m] = next /\ \A n \in Module : n # m => v.job[n] = w.job[n]
           /\ v.all = w.all \cup {next} /\ v.own = w.own \cup {next}
           /\ DOMAIN v.needs = DOMAIN w.needs \cup {next} /\ v.needs[next] = needs
           /\ \A s \in DOMAIN w.needs : s # next => v.needs[s] = w.needs[s]
           /\ \A s : s # next => Needs(v, s) = Needs(w, s)
<1> DEFINE a == Adopted(w, next)
<1> DEFINE j == AtJob(a, m, next)
<1> DEFINE v == WithNeeds(j, next, needs)
<1>t. next \in Target
  BY TargetsExist
<1>1. /\ a \in Store /\ SameImports(w, a) /\ SameItems(w, a) /\ SameTests(w, a) /\ SameStatus(w, a)
      /\ a.all = w.all \cup {next} /\ a.own = w.own \cup {next} /\ a.needs = w.needs /\ \A s : Needs(a, s) = Needs(w, s)
  BY <1>t, AdoptedIs
<1> HIDE DEF a
<1>2. /\ j \in Store /\ SameItems(a, j) /\ SameTests(a, j) /\ SameStatus(a, j)
      /\ j.code = a.code /\ j.cache = a.cache /\ j.first = a.first /\ j.got = a.got
      /\ j.job[m] = next /\ \A n \in Module : n # m => j.job[n] = a.job[n]
      /\ j.all = a.all /\ j.own = a.own /\ j.needs = a.needs /\ \A s : Needs(j, s) = Needs(a, s)
  BY <1>1, <1>t, JobIs
<1> HIDE DEF j
<1>3. /\ v \in Store /\ SameImports(j, v) /\ SameItems(j, v) /\ SameTests(j, v) /\ SameStatus(j, v)
      /\ v.all = j.all /\ v.own = j.own /\ DOMAIN v.needs = DOMAIN j.needs \cup {next}
      /\ v.needs[next] = needs /\ \A s \in DOMAIN j.needs : s # next => v.needs[s] = j.needs[s]
      /\ Needs(v, next) = needs /\ \A s : s # next => Needs(v, s) = Needs(j, s)
  BY <1>2, <1>t, WithNeedsIs
<1> HIDE DEF v
<1>4. SameItems(w, v) /\ SameTests(w, v) /\ SameStatus(w, v)
  BY <1>1, <1>2, <1>3 DEF SameItems, SameTests, SameStatus
<1>5. /\ v.code = w.code /\ v.cache = w.cache /\ v.first = w.first /\ v.got = w.got
      /\ v.job[m] = next /\ \A n \in Module : n # m => v.job[n] = w.job[n]
  BY <1>1, <1>2, <1>3 DEF SameImports
<1>6. WithJob(w, m, k, needs) = v
  BY DEF WithJob, AtJob, v, j, a
<1> QED BY <1>1, <1>2, <1>3, <1>4, <1>5, <1>6

\* What a new test job changes.
LEMMA WithTestJobIs ==
    ASSUME NEW w, w \in Store, NEW m \in Module, NEW k \in 1 .. MaxJobs, NEW needs \in NeedMaps,
           NEW next, next = TestJob(m, k)
    PROVE  LET v == WithTestJob(w, m, k, needs) IN
           /\ v \in Store /\ SameImports(w, v) /\ SameItems(w, v) /\ SameStatus(w, v)
           /\ v.testsImports = w.testsImports /\ v.testedBy = w.testedBy
           /\ v.test[m] = next /\ \A n \in Module : n # m => v.test[n] = w.test[n]
           /\ v.all = w.all \cup {next} /\ v.own = w.own \cup {next}
           /\ DOMAIN v.needs = DOMAIN w.needs \cup {next, Test(m)} /\ v.needs[next] = needs /\ v.needs[Test(m)] = needs
           /\ \A s \in DOMAIN w.needs : s \notin {next, Test(m)} => v.needs[s] = w.needs[s]
           /\ \A s : s \notin {next, Test(m)} => Needs(v, s) = Needs(w, s)
<1> DEFINE a == Adopted(w, next)
<1> DEFINE j == [a EXCEPT !.test[m] = next]
<1> DEFINE x == WithNeeds(j, next, needs)
<1> DEFINE v == WithNeeds(x, Test(m), needs)
<1>t. next \in Target /\ Test(m) \in Target /\ next # Test(m)
  BY TargetsExist, TargetFields
<1>1. /\ a \in Store /\ SameImports(w, a) /\ SameItems(w, a) /\ SameTests(w, a) /\ SameStatus(w, a)
      /\ a.all = w.all \cup {next} /\ a.own = w.own \cup {next} /\ a.needs = w.needs /\ \A s : Needs(a, s) = Needs(w, s)
  BY <1>t, AdoptedIs
<1> HIDE DEF a
<1>2. /\ j \in Store /\ SameImports(a, j) /\ SameItems(a, j) /\ SameStatus(a, j)
      /\ j.testsImports = a.testsImports /\ j.testedBy = a.testedBy
      /\ j.test[m] = next /\ \A n \in Module : n # m => j.test[n] = a.test[n]
      /\ j.all = a.all /\ j.own = a.own /\ j.needs = a.needs /\ \A s : Needs(j, s) = Needs(a, s)
  BY <1>1, <1>t, TestIs
<1> HIDE DEF j
<1>3. /\ x \in Store /\ SameImports(j, x) /\ SameItems(j, x) /\ SameTests(j, x) /\ SameStatus(j, x)
      /\ x.all = j.all /\ x.own = j.own /\ DOMAIN x.needs = DOMAIN j.needs \cup {next}
      /\ x.needs[next] = needs /\ \A s \in DOMAIN j.needs : s # next => x.needs[s] = j.needs[s]
      /\ Needs(x, next) = needs /\ \A s : s # next => Needs(x, s) = Needs(j, s)
  BY <1>2, <1>t, WithNeedsIs
<1> HIDE DEF x
<1>4. /\ v \in Store /\ SameImports(x, v) /\ SameItems(x, v) /\ SameTests(x, v) /\ SameStatus(x, v)
      /\ v.all = x.all /\ v.own = x.own /\ DOMAIN v.needs = DOMAIN x.needs \cup {Test(m)}
      /\ v.needs[Test(m)] = needs /\ \A s \in DOMAIN x.needs : s # Test(m) => v.needs[s] = x.needs[s]
      /\ Needs(v, Test(m)) = needs /\ \A s : s # Test(m) => Needs(v, s) = Needs(x, s)
  BY <1>3, <1>t, WithNeedsIs
<1> HIDE DEF v
<1>5. SameImports(w, v) /\ SameItems(w, v) /\ SameStatus(w, v)
  BY <1>1, <1>2, <1>3, <1>4 DEF SameImports, SameItems, SameStatus
<1>6. /\ v.testsImports = w.testsImports /\ v.testedBy = w.testedBy
      /\ v.test[m] = next /\ \A n \in Module : n # m => v.test[n] = w.test[n]
  BY <1>1, <1>2, <1>3, <1>4 DEF SameTests
<1>7. WithTestJob(w, m, k, needs) = v
  BY DEF WithTestJob, v, x, j, a
<1> QED BY <1>t, <1>1, <1>2, <1>3, <1>4, <1>5, <1>6, <1>7

\* A further job, when its targets are there.
LEMMA NextJob ==
    ASSUME NEW w, StoreInv(w), NEW m \in Module, NEW t, t = w.job[m], t \notin w.completed, Satisfied(w, Deps(w, t)),
           NEW k \in 1 .. MaxJobs, k = IF t.kind = "cached" THEN 1 ELSE t.idx + 1,
           NEW x, x \in Store, SameImports(w, x), SameItems(w, x), x.test = w.test, x.testedBy = w.testedBy,
           x.all = w.all, x.own = w.own, x.needs = w.needs,
           x.completed = w.completed \cup {t}, x.ready = w.ready, ~x.failed,
           FoundFor(w, x, m) \/ (x.testsImports = w.testsImports /\ t.kind = "cached"),
           NEW needs \in NeedMaps, GoodNeeds(w, needs)
    PROVE  Step(w, WithJob(x, m, k, needs), t)
<1> DEFINE next == ImportJob(m, k)
<1> DEFINE v == WithJob(x, m, k, needs)
<1>1. /\ v \in Store /\ SameItems(x, v) /\ SameTests(x, v) /\ SameStatus(x, v)
      /\ v.code = x.code /\ v.cache = x.cache /\ v.first = x.first /\ v.got = x.got
      /\ v.job[m] = next /\ \A n \in Module : n # m => v.job[n] = x.job[n]
      /\ v.all = x.all \cup {next} /\ v.own = x.own \cup {next}
      /\ DOMAIN v.needs = DOMAIN x.needs \cup {next} /\ v.needs[next] = needs
      /\ \A s \in DOMAIN x.needs : s # next => v.needs[s] = x.needs[s]
      /\ \A s : s # next => Needs(v, s) = Needs(x, s)
  BY WithJobIs
<1> HIDE DEF v
<1>2. \A s : Needs(x, s) = Needs(w, s)
  BY DEF Needs
<1>3. /\ v.code = w.code /\ v.cache = w.cache /\ v.first = w.first /\ v.got = w.got
      /\ \A n \in Module : n # m => v.job[n] = w.job[n]
  BY <1>1 DEF SameImports
<1>4. SameItems(w, v) /\ v.test = w.test /\ v.testedBy = w.testedBy /\ v.testsImports = x.testsImports
  BY <1>1 DEF SameItems, SameTests
<1>5. v.completed = w.completed \cup {t} /\ v.ready = w.ready /\ ~v.failed
  BY <1>1 DEF SameStatus
<1>6. NeedsExist(v)
  <2>1. NeedsExist(w)
    BY DEF StoreInv, ClosedInv
  <2>2. next.kind = "job"
    BY TargetFields
  <2>3. \A s \in v.all : s.kind = "testjob" => s \in DOMAIN v.needs
    BY <1>1, <2>1, <2>2 DEF NeedsExist
  <2>4. DOMAIN v.needs \subseteq v.all
    BY <1>1, <2>1 DEF NeedsExist
  <2>5. ASSUME NEW s \in DOMAIN v.needs, NEW r \in DOMAIN v.needs[s]
        PROVE  /\ v.needs[s][r] \in v.all
               /\ r \in Module => v.needs[s][r] \in {Import(r), Resource(r)} /\ Resource(r) \in v.own
               /\ r \in Item => v.needs[s][r] \in {Resolved(r), Complete(r)}
    <3>1. CASE s = next
      BY <3>1, <1>1 DEF GoodNeeds
    <3>2. CASE s # next
      BY <3>2, <1>1, <2>1 DEF NeedsExist
    <3> QED BY <3>1, <3>2
  <2> QED BY <2>3, <2>4, <2>5 DEF NeedsExist
<1>7. \A s : s # next => Needs(v, s) = Needs(w, s) /\ (s \in DOMAIN v.needs => s \in DOMAIN w.needs)
  BY <1>1, <1>2
<1>8. FoundFor(w, v, m) \/ (v.testsImports = w.testsImports /\ t.kind = "cached")
  BY <1>4 DEF FoundFor
<1>9. v.all = w.all \cup {next} /\ v.own = w.own \cup {next} /\ v.job[m] = next
  BY <1>1
<1> HIDE DEF next
<1>10. StoreInv(v) /\ Grows(w, v) /\ Fixed(w, v, t) /\ NewDone(w, v)
  BY <1>1, <1>3, <1>4, <1>5, <1>6, <1>7, <1>8, <1>9, NextJobStep DEF next
<1> QED BY <1>10 DEF Step, v

\* A further test job, when its targets are there.
LEMMA NextTestJob ==
    ASSUME NEW w, StoreInv(w), NEW m \in Module, NEW t, t = w.test[m], t # NoTarget,
           t \notin w.completed, Satisfied(w, Deps(w, t)),
           NEW k \in 1 .. MaxJobs, k = IF t.kind = "testcached" THEN 1 ELSE t.idx + 1,
           NEW x, x \in Store, SameImports(w, x), SameItems(w, x), SameTests(w, x),
           x.all = w.all, x.own = w.own, x.needs = w.needs,
           x.completed = w.completed \cup {t}, x.ready = w.ready, ~x.failed,
           NEW needs \in NeedMaps, GoodNeeds(w, needs)
    PROVE  Step(w, WithTestJob(x, m, k, needs), t)
<1> DEFINE next == TestJob(m, k)
<1> DEFINE v == WithTestJob(x, m, k, needs)
<1>1. /\ v \in Store /\ SameImports(x, v) /\ SameItems(x, v) /\ SameStatus(x, v)
      /\ v.testsImports = x.testsImports /\ v.testedBy = x.testedBy
      /\ v.test[m] = next /\ \A n \in Module : n # m => v.test[n] = x.test[n]
      /\ v.all = x.all \cup {next} /\ v.own = x.own \cup {next}
      /\ DOMAIN v.needs = DOMAIN x.needs \cup {next, Test(m)} /\ v.needs[next] = needs /\ v.needs[Test(m)] = needs
      /\ \A s \in DOMAIN x.needs : s \notin {next, Test(m)} => v.needs[s] = x.needs[s]
      /\ \A s : s \notin {next, Test(m)} => Needs(v, s) = Needs(x, s)
  BY WithTestJobIs
<1> HIDE DEF v
<1>2. \A s : Needs(x, s) = Needs(w, s)
  BY DEF Needs
<1>3. SameImports(w, v) /\ SameItems(w, v)
  BY <1>1 DEF SameImports, SameItems
<1>4. /\ v.testsImports = w.testsImports /\ v.testedBy = w.testedBy
      /\ \A n \in Module : n # m => v.test[n] = w.test[n]
  BY <1>1 DEF SameTests
<1>5. v.completed = w.completed \cup {t} /\ v.ready = w.ready /\ ~v.failed
  BY <1>1 DEF SameStatus
<1>6. NeedsExist(v)
  <2>1. NeedsExist(w) /\ Test(m) \in w.all
    BY DEF StoreInv, ClosedInv, TestsInv
  <2>3. \A s \in v.all : s.kind = "testjob" => s \in DOMAIN v.needs
    BY <1>1, <2>1 DEF NeedsExist
  <2>4. DOMAIN v.needs \subseteq v.all
    BY <1>1, <2>1 DEF NeedsExist
  <2>5. ASSUME NEW s \in DOMAIN v.needs, NEW r \in DOMAIN v.needs[s]
        PROVE  /\ v.needs[s][r] \in v.all
               /\ r \in Module => v.needs[s][r] \in {Import(r), Resource(r)} /\ Resource(r) \in v.own
               /\ r \in Item => v.needs[s][r] \in {Resolved(r), Complete(r)}
    <3>1. CASE s \in {next, Test(m)}
      BY <3>1, <1>1 DEF GoodNeeds
    <3>2. CASE s \notin {next, Test(m)}
      BY <3>2, <1>1, <2>1 DEF NeedsExist
    <3> QED BY <3>1, <3>2
  <2> QED BY <2>3, <2>4, <2>5 DEF NeedsExist
<1>7. \A s : s \notin {next, Test(m)} => Needs(v, s) = Needs(w, s) /\ (s \in DOMAIN v.needs => s \in DOMAIN w.needs)
  BY <1>1, <1>2
<1>9. v.all = w.all \cup {next} /\ v.own = w.own \cup {next} /\ v.test[m] = next
  BY <1>1
<1> HIDE DEF next
<1>10. StoreInv(v) /\ Grows(w, v) /\ Fixed(w, v, t) /\ NewDone(w, v)
  BY <1>1, <1>3, <1>4, <1>5, <1>6, <1>7, <1>9, NextTestJobStep DEF next
<1> QED BY <1>10 DEF Step, v

-----------------------------------------------------------------------------
(* Results of imports *)

\* UseResult, without what comes with the items or the tests.
GotOf(w, m) == [w EXCEPT !.got = @ \cup {m}]
ImportGot(w, t, m, needs) == WithNeeds(GotOf(Completed(w, t), m), Import(m), needs)

\* What it changes.
LEMMA ImportGotIs ==
    ASSUME NEW w, w \in Store, NEW m \in Module, NEW t \in Target, NEW needs \in NeedMaps
    PROVE  LET v == ImportGot(w, t, m, needs) IN
           /\ v \in Store /\ SameItems(w, v) /\ SameTests(w, v)
           /\ v.code = w.code /\ v.cache = w.cache /\ v.first = w.first /\ v.job = w.job /\ v.got = w.got \cup {m}
           /\ v.completed = w.completed \cup {t} /\ v.ready = w.ready /\ v.failed = w.failed
           /\ v.all = w.all /\ v.own = w.own
           /\ DOMAIN v.needs = DOMAIN w.needs \cup {Import(m)} /\ v.needs[Import(m)] = needs
           /\ \A s \in DOMAIN w.needs : s # Import(m) => v.needs[s] = w.needs[s]
           /\ \A s : s # Import(m) => Needs(v, s) = Needs(w, s)
<1> DEFINE c == Completed(w, t)
<1> DEFINE g == GotOf(c, m)
<1> DEFINE v == WithNeeds(g, Import(m), needs)
<1>1. /\ c \in Store /\ SameImports(w, c) /\ SameItems(w, c) /\ SameTests(w, c)
      /\ c.completed = w.completed \cup {t} /\ c.ready = w.ready /\ c.failed = w.failed
      /\ c.all = w.all /\ c.own = w.own /\ c.needs = w.needs /\ \A s : Needs(c, s) = Needs(w, s)
  BY CompletedIs
<1> HIDE DEF c
<1>2. /\ g \in Store /\ SameItems(c, g) /\ SameTests(c, g) /\ SameStatus(c, g)
      /\ g.code = c.code /\ g.cache = c.cache /\ g.first = c.first /\ g.job = c.job /\ g.got = c.got \cup {m}
      /\ g.all = c.all /\ g.own = c.own /\ g.needs = c.needs /\ \A s : Needs(g, s) = Needs(c, s)
  <2>1. g = [c EXCEPT !.got = @ \cup {m}]
    BY DEF GotOf
  <2> HIDE DEF g
  <2> QED BY <1>1, <2>1, GotIs
<1> HIDE DEF g
<1>3. /\ v \in Store /\ SameImports(g, v) /\ SameItems(g, v) /\ SameTests(g, v) /\ SameStatus(g, v)
      /\ v.all = g.all /\ v.own = g.own /\ DOMAIN v.needs = DOMAIN g.needs \cup {Import(m)}
      /\ v.needs[Import(m)] = needs /\ \A s \in DOMAIN g.needs : s # Import(m) => v.needs[s] = g.needs[s]
      /\ \A s : s # Import(m) => Needs(v, s) = Needs(g, s)
  <2>1. Import(m) \in Target
    BY TargetsExist
  <2> QED BY <1>2, <2>1, WithNeedsIs
<1> HIDE DEF v
<1>4. SameItems(w, v) /\ SameTests(w, v)
  BY <1>1, <1>2, <1>3 DEF SameItems, SameTests
<1>5. /\ v.code = w.code /\ v.cache = w.cache /\ v.first = w.first /\ v.job = w.job /\ v.got = w.got \cup {m}
      /\ v.completed = w.completed \cup {t} /\ v.ready = w.ready /\ v.failed = w.failed
  BY <1>1, <1>2, <1>3 DEF SameImports, SameStatus
<1>6. ImportGot(w, t, m, needs) = v
  BY DEF ImportGot, v, g, c
<1> QED BY <1>1, <1>2, <1>3, <1>4, <1>5, <1>6

\* The needs of an import and of other targets exist when their targets do.
LEMMA NeedsStillExist ==
    ASSUME NEW w, NeedsExist(w), NEW v, w.all \subseteq v.all, w.own \subseteq v.own,
           NEW new, new \subseteq v.all, DOMAIN v.needs \subseteq DOMAIN w.needs \cup new, DOMAIN w.needs \subseteq DOMAIN v.needs,
           \A s \in new \cap DOMAIN v.needs : GoodNeeds(v, v.needs[s]),
           \A s \in DOMAIN w.needs : s \notin new => v.needs[s] = w.needs[s],
           \A s \in v.all \ w.all : s.kind = "testjob" => s \in DOMAIN v.needs
    PROVE  NeedsExist(v)
<1>1. \A s \in v.all : s.kind = "testjob" => s \in DOMAIN v.needs
  BY DEF NeedsExist
<1>2. DOMAIN v.needs \subseteq v.all
  BY DEF NeedsExist
<1>3. ASSUME NEW s \in DOMAIN v.needs, NEW r \in DOMAIN v.needs[s]
      PROVE  /\ v.needs[s][r] \in v.all
             /\ r \in Module => v.needs[s][r] \in {Import(r), Resource(r)} /\ Resource(r) \in v.own
             /\ r \in Item => v.needs[s][r] \in {Resolved(r), Complete(r)}
  <2>1. CASE s \in new
    BY <2>1 DEF GoodNeeds
  <2>2. CASE s \notin new
    BY <2>2 DEF NeedsExist
  <2> QED BY <2>1, <2>2
<1> QED BY <1>1, <1>2, <1>3 DEF NeedsExist

\* The result of a module of fixtures.
LEMMA GotFixtures ==
    ASSUME NEW w, StoreInv(w), NEW m \in Module, NEW t, t = w.job[m], t \notin w.completed, Satisfied(w, Deps(w, t)),
           ~IsTests(w, m), NEW needs \in NeedMaps, GoodNeeds(w, needs)
    PROVE  Done(w, ImportGot(w, t, m, needs), t)
<1> DEFINE v == ImportGot(w, t, m, needs)
<1>w. w \in Store /\ ClosedInv(w) /\ JobsInv(w) /\ TestsInv(w) /\ ~w.failed /\ t \in Target /\ w.code \in Programs
  BY StoreTypes DEF StoreInv
<1>1. /\ v \in Store /\ SameItems(w, v) /\ SameTests(w, v)
      /\ v.code = w.code /\ v.cache = w.cache /\ v.first = w.first /\ v.job = w.job /\ v.got = w.got \cup {m}
      /\ v.completed = w.completed \cup {t} /\ v.ready = w.ready /\ v.failed = w.failed
      /\ v.all = w.all /\ v.own = w.own
      /\ DOMAIN v.needs = DOMAIN w.needs \cup {Import(m)} /\ v.needs[Import(m)] = needs
      /\ \A s \in DOMAIN w.needs : s # Import(m) => v.needs[s] = w.needs[s]
      /\ \A s : s # Import(m) => Needs(v, s) = Needs(w, s)
  BY <1>w, ImportGotIs
<1> HIDE DEF v
<1>n. /\ \A i \in w.code.provides[m] : i \notin w.provided /\ Ready(i) \notin w.completed
      /\ w.test[m] = NoTarget /\ Test(m) \notin w.all /\ TestCached(m) \notin w.all
      /\ \A k \in 1 .. MaxJobs : TestJob(m, k) \notin w.all
  BY <1>w, NotGot DEF JobsInv
<1>2. ItemClosed(v)
  BY <1>1, <1>w DEF ClosedInv, ItemClosed, ItemTargets
<1>3. NeedsExist(v)
  <2>1. GoodNeeds(v, needs)
    BY <1>1 DEF GoodNeeds
  <2>2. NeedsExist(w) /\ {Import(m)} \subseteq v.all
    BY <1>1, <1>w DEF ClosedInv
  <2> QED BY <2>1, <2>2, <1>1, NeedsStillExist
<1>4. w.code.tests[m] = {} /\ 1 \in 1 .. MaxJobs
  BY OrderAssumption DEF IsTests
<1>5. FoundFor(w, v, m) /\ \A n \in Module : v.testedBy[n] = IF n \in w.code.tests[m] THEN w.testedBy[n] \cup {m} ELSE w.testedBy[n]
  BY <1>1, <1>4 DEF FoundFor, SameTests
<1>6. \A s : s \notin OfImport(m) => Needs(v, s) = Needs(w, s) /\ (s \in DOMAIN v.needs => s \in DOMAIN w.needs)
  BY <1>1 DEF OfImport
<1>7. /\ v.own \subseteq v.all /\ w.all \subseteq v.all /\ w.own \subseteq v.own /\ v.all \ w.all = {}
      /\ v.provided = w.provided /\ v.resolved = w.resolved /\ v.items = w.items /\ v.picked = w.picked /\ v.test = w.test
      /\ ~v.failed
  BY <1>1, <1>w DEF ClosedInv, SameItems, SameTests
<1>8. /\ v.test[m] = NoTarget /\ Test(m) \notin v.all /\ TestCached(m) \notin v.all /\ TestJob(m, 1) \notin v.all
      /\ ~IsTests(w, m)
  BY <1>1, <1>4, <1>7, <1>n
<1>9. StoreInv(v) /\ Grows(w, v) /\ Fixed(w, v, t) /\ NewDone(w, v)
  <2>1. GotResult(w, v, m, t)
    BY <1>1, <1>2, <1>3, <1>5, <1>6, <1>7, <1>8 DEF GotResult
  <2> QED BY <2>1, GotStep
<1>10. t \in v.completed
  BY <1>1
<1> QED BY <1>9, <1>10 DEF Done, Step, v

\* The constructors of a module whose import was not completed complete nothing.
LEMMA ConstructedIs ==
    ASSUME NEW w, w \in Store, NEW m \in Module, \A i \in w.code.provides[m] : Ready(i) \notin w.completed
    PROVE  LET v == Constructed(w, m)  items == w.code.provides[m] IN
           /\ v \in Store /\ SameImports(w, v) /\ SameTests(w, v) /\ SameStatus(w, v)
           /\ v.all = w.all \cup UNION {ItemTargets(w, i) : i \in items}
           /\ v.own = w.own \cup {Ready(i) : i \in items} \cup {Resolved(i) : i \in items}
           /\ v.provided = w.provided \cup items /\ v.resolved = w.resolved \cup items /\ v.picked = w.picked
           /\ v.items[m] = w.items[m] \cup items /\ \A n \in Module : n # m => v.items[n] = w.items[n]
           /\ v.needs = w.needs /\ \A s : Needs(v, s) = Needs(w, s)
<1> DEFINE items == w.code.provides[m]
<1> DEFINE added == UNION {ItemTargets(w, i) : i \in items}
<1> DEFINE own == {Ready(i) : i \in items} \cup {Resolved(i) : i \in items}
<1> DEFINE v == [w EXCEPT !.all = w.all \cup added, !.own = w.own \cup own, !.completed = w.completed,
                          !.provided = w.provided \cup items, !.resolved = w.resolved \cup items,
                          !.items = [w.items EXCEPT ![m] = w.items[m] \cup items]]
<1>w. w.code \in Programs /\ items \subseteq Item
  BY StoreTypes, ProgramTypes
<1>1. Constructed(w, m) = v
  <2>1. w.completed \cup {Resolved(i) : i \in {j \in items : Ready(j) \in w.completed}} = w.completed
    OBVIOUS
  <2>2. w.own \cup {Ready(i) : i \in items} \cup {Resolved(i) : i \in items} = w.own \cup own
    OBVIOUS
  <2> HIDE DEF own
  <2> QED BY <2>1, <2>2 DEF Constructed
<1>2. added \subseteq Target /\ own \subseteq Target
  <2>1. \A i \in items : ItemTargets(w, i) \subseteq Target
    BY <1>w, ItemTargetsAre
  <2> QED BY <2>1, <1>w, TargetsExist
<1> HIDE DEF items, added, own
<1>3. [w.items EXCEPT ![m] = w.items[m] \cup items] \in [Module -> SUBSET Item]
  BY <1>w, StoreTypes
<1>4. /\ v \in Store /\ v.all = w.all \cup added /\ v.own = w.own \cup own
      /\ v.provided = w.provided \cup items /\ v.resolved = w.resolved \cup items /\ v.picked = w.picked
      /\ v.items = [w.items EXCEPT ![m] = w.items[m] \cup items] /\ v.needs = w.needs
  BY <1>w, <1>2, <1>3 DEF Store
<1>5. SameImports(w, v) /\ SameTests(w, v) /\ SameStatus(w, v)
  BY DEF Store, SameImports, SameTests, SameStatus
<1> HIDE DEF v
<1>6. v.items[m] = w.items[m] \cup items /\ \A n \in Module : n # m => v.items[n] = w.items[n]
  BY <1>4, StoreTypes
<1>7. \A s : Needs(v, s) = Needs(w, s)
  BY <1>4 DEF Needs
<1> QED BY <1>1, <1>4, <1>5, <1>6, <1>7 DEF items, added, own

\* The result of another module that is not of tests: its resource.
ResourceGot(w, t, m, needs, reqs) ==
    LET x == ImportGot(w, t, m, needs)
    IN  Constructed(WithNeeds(Adopted(Asserted(x, {m}), Resource(m)), Resource(m), reqs), m)

\* The result of a module that is not one of tests or fixtures.
LEMMA GotResource ==
    ASSUME NEW w, StoreInv(w), NEW m \in Module, NEW t, t = w.job[m], t \notin w.completed, Satisfied(w, Deps(w, t)),
           ~IsTests(w, m), NEW needs \in NeedMaps, GoodNeeds(w, needs), NEW reqs \in NeedMaps, GoodNeeds(w, reqs)
    PROVE  Done(w, ResourceGot(w, t, m, needs, reqs), t)
<1> DEFINE x == ImportGot(w, t, m, needs)
<1> DEFINE a == Adopted(x, Resource(m))
<1> DEFINE y == WithNeeds(a, Resource(m), reqs)
<1> DEFINE v == Constructed(y, m)
<1> DEFINE items == w.code.provides[m]
<1>w. /\ w \in Store /\ ClosedInv(w) /\ JobsInv(w) /\ TestsInv(w) /\ ~w.failed /\ t \in Target /\ w.code \in Programs
      /\ items \subseteq Item
  BY StoreTypes, ProgramTypes DEF StoreInv
<1>t. Resource(m) \in Target /\ Import(m) # Resource(m)
  BY TargetsExist, TargetFields
<1>n. /\ \A i \in w.code.provides[m] : i \notin w.provided /\ Ready(i) \notin w.completed
      /\ w.test[m] = NoTarget /\ Test(m) \notin w.all /\ TestCached(m) \notin w.all
      /\ \A k \in 1 .. MaxJobs : TestJob(m, k) \notin w.all
      /\ Resource(m) \notin w.completed
  BY <1>w, NotGot DEF JobsInv
<1>k. t.kind \in {"job", "cached"}
  BY <1>w, TargetFields DEF JobsInv
<1>1. /\ x \in Store /\ SameItems(w, x) /\ SameTests(w, x)
      /\ x.code = w.code /\ x.cache = w.cache /\ x.first = w.first /\ x.job = w.job /\ x.got = w.got \cup {m}
      /\ x.completed = w.completed \cup {t} /\ x.ready = w.ready /\ x.failed = w.failed
      /\ x.all = w.all /\ x.own = w.own
      /\ DOMAIN x.needs = DOMAIN w.needs \cup {Import(m)} /\ x.needs[Import(m)] = needs
      /\ \A s \in DOMAIN w.needs : s # Import(m) => x.needs[s] = w.needs[s]
      /\ \A s : s # Import(m) => Needs(x, s) = Needs(w, s)
  BY <1>w, ImportGotIs
<1> HIDE DEF x
<1>2. Asserted(x, {m}) = x
  <2>1. Resource(m) \notin x.completed
    BY <1>1, <1>n, <1>k, TargetFields
  <2> QED BY <2>1, <1>1, <1>w, AssertedIs
<1>3. /\ a \in Store /\ SameImports(x, a) /\ SameItems(x, a) /\ SameTests(x, a) /\ SameStatus(x, a)
      /\ a.all = x.all \cup {Resource(m)} /\ a.own = x.own \cup {Resource(m)}
      /\ a.needs = x.needs /\ \A s : Needs(a, s) = Needs(x, s)
  BY <1>1, <1>t, AdoptedIs
<1> HIDE DEF a
<1>4. /\ y \in Store /\ SameImports(a, y) /\ SameItems(a, y) /\ SameTests(a, y) /\ SameStatus(a, y)
      /\ y.all = a.all /\ y.own = a.own /\ DOMAIN y.needs = DOMAIN a.needs \cup {Resource(m)}
      /\ y.needs[Resource(m)] = reqs /\ \A s \in DOMAIN a.needs : s # Resource(m) => y.needs[s] = a.needs[s]
      /\ \A s : s # Resource(m) => Needs(y, s) = Needs(a, s)
  BY <1>3, <1>t, WithNeedsIs
<1> HIDE DEF y
<1>5. y.code = w.code /\ y.completed = w.completed \cup {t} /\ \A i \in items : Ready(i) \notin y.completed
  <2>1. y.code = w.code /\ y.completed = w.completed \cup {t}
    BY <1>1, <1>3, <1>4 DEF SameImports, SameStatus
  <2> QED BY <2>1, <1>n, <1>k, TargetFields
<1>6. /\ v \in Store /\ SameImports(y, v) /\ SameTests(y, v) /\ SameStatus(y, v)
      /\ v.all = y.all \cup UNION {ItemTargets(y, i) : i \in items}
      /\ v.own = y.own \cup {Ready(i) : i \in items} \cup {Resolved(i) : i \in items}
      /\ v.provided = y.provided \cup items /\ v.resolved = y.resolved \cup items /\ v.picked = y.picked
      /\ v.items[m] = y.items[m] \cup items /\ \A n \in Module : n # m => v.items[n] = y.items[n]
      /\ v.needs = y.needs /\ \A s : Needs(v, s) = Needs(y, s)
  BY <1>4, <1>5, ConstructedIs
<1> HIDE DEF v
<1>7. \A i : ItemTargets(v, i) = ItemTargets(w, i) /\ ItemTargets(y, i) = ItemTargets(w, i)
  BY <1>5, <1>6 DEF ItemTargets, SameImports
<1>8. /\ v.all = w.all \cup {Resource(m)} \cup UNION {ItemTargets(w, i) : i \in items}
      /\ v.own = w.own \cup {Resource(m)} \cup {Ready(i) : i \in items} \cup {Resolved(i) : i \in items}
  BY <1>1, <1>3, <1>4, <1>6, <1>7
<1>9. /\ v.code = w.code /\ v.cache = w.cache /\ v.first = w.first /\ v.job = w.job /\ v.got = w.got \cup {m}
      /\ v.completed = w.completed \cup {t} /\ v.ready = w.ready /\ ~v.failed
  BY <1>w, <1>1, <1>3, <1>4, <1>6 DEF SameImports, SameStatus
<1>10. /\ v.provided = w.provided \cup items /\ v.resolved = w.resolved \cup items /\ v.picked = w.picked
       /\ \A n \in Module : n # m => v.items[n] = w.items[n]
       /\ v.test = w.test /\ v.testsImports = w.testsImports /\ v.testedBy = w.testedBy
  BY <1>1, <1>3, <1>4, <1>6 DEF SameItems, SameTests
<1>11. /\ DOMAIN v.needs = DOMAIN w.needs \cup {Import(m), Resource(m)}
       /\ v.needs[Import(m)] = needs /\ v.needs[Resource(m)] = reqs
       /\ \A s \in DOMAIN w.needs : s \notin {Import(m), Resource(m)} => v.needs[s] = w.needs[s]
       /\ \A s : s \notin {Import(m), Resource(m)} => Needs(v, s) = Needs(w, s)
  BY <1>t, <1>1, <1>3, <1>4, <1>6
<1>i. \A i \in items : /\ {Ready(i), Resolved(i), Complete(i)} \subseteq ItemTargets(w, i)
                       /\ \A s \in ItemTargets(w, i) : s.kind \in {"ready", "resolved", "complete"}
                       /\ \A j \in Item : Resolved(j) \in ItemTargets(w, i) => Ready(j) \in ItemTargets(w, i)
                       /\ \A j \in Item : Complete(j) \in ItemTargets(w, i) => ItemTargets(w, j) \subseteq ItemTargets(w, i)
  BY <1>w, ItemTargetsAre
<1> HIDE DEF items
<1>12. ItemClosed(v)
  <2>1. \A j : Resolved(j) # Resource(m) /\ Complete(j) # Resource(m)
    BY TargetFields
  <2>2. ItemClosed(w)
    BY <1>w DEF ClosedInv
  <2>3. ASSUME NEW j \in Item, Resolved(j) \in v.all PROVE Ready(j) \in v.all
    BY <2>1, <2>2, <2>3, <1>8, <1>i DEF ItemClosed
  <2>4. ASSUME NEW j \in Item, Complete(j) \in v.all PROVE ItemTargets(w, j) \subseteq v.all
    BY <2>1, <2>2, <2>4, <1>8, <1>i DEF ItemClosed
  <2> QED BY <2>3, <2>4, <1>7 DEF ItemClosed
<1>13. \A s \in v.all \ w.all : s.kind \in {"ready", "resolved", "complete", "resource"}
  BY <1>8, <1>i, TargetFields
<1>14. w.all \subseteq v.all /\ w.own \subseteq v.own /\ v.own \subseteq v.all
  BY <1>8, <1>i, <1>w DEF ClosedInv
<1>15. NeedsExist(v)
  <2>1. GoodNeeds(v, needs) /\ GoodNeeds(v, reqs)
    BY <1>14 DEF GoodNeeds
  <2>2. NeedsExist(w) /\ {Import(m), Resource(m)} \subseteq v.all
    BY <1>8, <1>w DEF ClosedInv
  <2>3. \A s \in v.all \ w.all : s.kind = "testjob" => s \in DOMAIN v.needs
    BY <1>13
  <2> QED BY <2>1, <2>2, <2>3, <1>11, <1>14, NeedsStillExist
<1>16. w.code.tests[m] = {} /\ 1 \in 1 .. MaxJobs
  BY OrderAssumption DEF IsTests
<1>17. FoundFor(w, v, m) /\ \A n \in Module : v.testedBy[n] = IF n \in w.code.tests[m] THEN w.testedBy[n] \cup {m} ELSE w.testedBy[n]
  BY <1>10, <1>16 DEF FoundFor
<1>18. \A s : s \notin OfImport(m) => Needs(v, s) = Needs(w, s) /\ (s \in DOMAIN v.needs => s \in DOMAIN w.needs)
  BY <1>11 DEF OfImport
<1>19. \A i \in v.resolved \ w.resolved : Resolved(i) \in v.own
  BY <1>8, <1>10
<1>20. /\ v.test[m] = NoTarget /\ Test(m) \notin v.all /\ TestCached(m) \notin v.all /\ TestJob(m, 1) \notin v.all
       /\ ~IsTests(w, m)
  <2>1. Test(m) \notin v.all /\ TestCached(m) \notin v.all /\ TestJob(m, 1) \notin v.all
    BY <1>13, <1>16, <1>n, TargetFields
  <2> QED BY <2>1, <1>10, <1>n
<1>21. GotResult(w, v, m, t)
  BY <1>6, <1>9, <1>10, <1>12, <1>13, <1>14, <1>15, <1>17, <1>18, <1>19, <1>20 DEF GotResult, items
<1>22. StoreInv(v) /\ Grows(w, v) /\ Fixed(w, v, t) /\ NewDone(w, v)
  BY <1>21, GotStep
<1>23. ResourceGot(w, t, m, needs, reqs) = v
  BY <1>2 DEF ResourceGot, v, y, a, x
<1>24. t \in v.completed
  BY <1>21 DEF GotResult
<1> QED BY <1>22, <1>23, <1>24 DEF Done, Step

\* The parts of a test that an import finds, before it is known whether it has to run.
TestOf(w, m) ==
    LET v == Asserted(WithTargets(w, w.code.requires[m] \cup w.code.tests[m]), w.code.tests[m])
    IN  [Adopted(v, Test(m)) EXCEPT
            !.testedBy = [n \in Module |-> IF n \in w.code.tests[m] THEN @[n] \cup {m} ELSE @[n]]]

\* The targets for some requirements, in a store of the same program.
ForAll(w, reqs) == UNION {TargetsFor(w, r) : r \in reqs}

\* What add_tests_import changes.
LEMMA AddTestsImportIs ==
    ASSUME NEW w, w \in Store, NEW m \in Module
    PROVE  LET v == AddTestsImport(w, m)  tested == w.code.tests[m] IN
           /\ v \in Store /\ SameImports(w, v) /\ SameItems(w, v) /\ SameStatus(w, v)
           /\ v.test = w.test /\ v.testedBy = w.testedBy /\ FoundFor(w, v, m)
           /\ v.all = w.all \cup ForAll(w, tested) /\ v.own = w.own \cup {Resource(n) : n \in tested}
           /\ v.needs = w.needs /\ \A s : Needs(v, s) = Needs(w, s)
<1> DEFINE tested == w.code.tests[m]
<1> DEFINE p == WithTargets(w, tested)
<1> DEFINE v == AddTestsImport(w, m)
<1>w. tested \subseteq Module /\ tested \in SUBSET (Module \cup Item) /\ tested \cap Module = tested
  BY StoreTypes, ProgramTypes
<1>1. /\ p \in Store /\ SameImports(w, p) /\ SameItems(w, p) /\ SameTests(w, p) /\ SameStatus(w, p)
      /\ p.all = w.all \cup UNION {TargetsFor(w, r) : r \in tested}
      /\ p.own = w.own \cup {Resource(n) : n \in tested \cap Module}
      /\ p.needs = w.needs /\ \A s : Needs(p, s) = Needs(w, s)
  <2> HIDE DEF tested
  <2> QED BY <1>w, WithTargetsIs
<1>v. v = TestsFound(p, m, tested)
  BY DEF AddTestsImport, TestsFound
<1> HIDE DEF p, v, tested
<1>2. /\ v \in Store /\ SameImports(p, v) /\ SameItems(p, v) /\ SameStatus(p, v)
      /\ v.test = p.test /\ v.testedBy = p.testedBy
      /\ Plus(p.testsImports, v.testsImports, tested, m)
      /\ v.all = p.all /\ v.own = p.own /\ v.needs = p.needs /\ \A s : Needs(v, s) = Needs(p, s)
  BY <1>1, <1>v, TestsImportsIs
<1>3. SameImports(w, v) /\ SameItems(w, v) /\ SameStatus(w, v) /\ v.test = w.test /\ v.testedBy = w.testedBy
  BY <1>1, <1>2 DEF SameImports, SameItems, SameStatus, SameTests
<1>4. FoundFor(w, v, m)
  BY <1>1, <1>2 DEF FoundFor, SameTests, Plus, tested
<1> QED BY <1>w, <1>1, <1>2, <1>3, <1>4 DEF v, tested, ForAll

\* And what the test changes.
LEMMA TestOfIs ==
    ASSUME NEW w, w \in Store, NEW m \in Module, ~w.failed, \A n \in w.code.tests[m] : Resource(n) \notin w.completed
    PROVE  LET v == TestOf(w, m)  tested == w.code.tests[m]  reqs == w.code.requires[m] \cup tested IN
           /\ v \in Store /\ SameImports(w, v) /\ SameItems(w, v) /\ SameStatus(w, v)
           /\ v.test = w.test /\ v.testsImports = w.testsImports
           /\ Plus(w.testedBy, v.testedBy, tested, m)
           /\ v.all = w.all \cup ForAll(w, reqs) \cup {Test(m)}
           /\ v.own = w.own \cup {Resource(n) : n \in reqs \cap Module} \cup {Test(m)}
           /\ v.needs = w.needs /\ \A s : Needs(v, s) = Needs(w, s)
<1> DEFINE tested == w.code.tests[m]
<1> DEFINE reqs == w.code.requires[m] \cup tested
<1> DEFINE p == WithTargets(w, reqs)
<1> DEFINE a == Adopted(p, Test(m))
<1> DEFINE v == TestOf(w, m)
<1>w. reqs \in SUBSET (Module \cup Item) /\ Test(m) \in Target
  BY StoreTypes, ProgramTypes, TargetsExist
<1>1. /\ p \in Store /\ SameImports(w, p) /\ SameItems(w, p) /\ SameTests(w, p) /\ SameStatus(w, p)
      /\ p.all = w.all \cup UNION {TargetsFor(w, r) : r \in reqs}
      /\ p.own = w.own \cup {Resource(n) : n \in reqs \cap Module}
      /\ p.needs = w.needs /\ \A s : Needs(p, s) = Needs(w, s)
  <2> HIDE DEF reqs
  <2> QED BY <1>w, WithTargetsIs
<1>2. Asserted(p, tested) = p
  BY <1>1, AssertedIs DEF SameStatus
<1>3. v = TestsMade(a, m, tested)
  BY <1>2 DEF TestOf, TestsMade
<1> HIDE DEF p, v, tested, reqs
<1>4. /\ a \in Store /\ SameImports(p, a) /\ SameItems(p, a) /\ SameTests(p, a) /\ SameStatus(p, a)
      /\ a.all = p.all \cup {Test(m)} /\ a.own = p.own \cup {Test(m)} /\ a.needs = p.needs /\ \A s : Needs(a, s) = Needs(p, s)
  BY <1>w, <1>1, AdoptedIs
<1> HIDE DEF a
<1>5. /\ v \in Store /\ SameImports(a, v) /\ SameItems(a, v) /\ SameStatus(a, v)
      /\ v.test = a.test /\ v.testsImports = a.testsImports
      /\ Plus(a.testedBy, v.testedBy, tested, m)
      /\ v.all = a.all /\ v.own = a.own /\ v.needs = a.needs /\ \A s : Needs(v, s) = Needs(a, s)
  BY <1>3, <1>4, TestedByIs
<1>6. SameImports(w, v) /\ SameItems(w, v) /\ SameStatus(w, v) /\ v.test = w.test /\ v.testsImports = w.testsImports
  BY <1>1, <1>4, <1>5 DEF SameImports, SameItems, SameStatus, SameTests
<1>7. Plus(w.testedBy, v.testedBy, tested, m)
  BY <1>1, <1>4, <1>5 DEF SameTests
<1> QED BY <1>1, <1>4, <1>5, <1>6, <1>7 DEF v, tested, reqs, ForAll

\* The targets of requirements are the same when a job is completed.
LEMMA SameTargets ==
    ASSUME NEW w, NEW v, v.code = w.code, NEW t, t.kind # "resolved", v.completed \in {w.completed, w.completed \cup {t}}
    PROVE  /\ \A reqs : ForAll(v, reqs) = ForAll(w, reqs)
           /\ \A tested, reqs : ResolveIn(v, tested, reqs) = ResolveIn(w, tested, reqs)
           /\ \A reqs : Resolve(v, reqs) = Resolve(w, reqs)
           /\ \A reqs : ImportNeeds(v, reqs) = ImportNeeds(w, reqs)
<1>1. \A i : Resolved(i) \in v.completed <=> Resolved(i) \in w.completed
  BY TargetFields
<1>2. \A r : TargetsFor(v, r) = TargetsFor(w, r)
  BY <1>1, TargetsForSame
<1>3. \A reqs : ForAll(v, reqs) = ForAll(w, reqs)
  BY <1>2 DEF ForAll
<1>4. \A tested, reqs : ResolveIn(v, tested, reqs) = ResolveIn(w, tested, reqs)
  BY <1>1, TargetsForSame
<1>5. \A reqs : Resolve(v, reqs) = Resolve(w, reqs)
  BY <1>4 DEF Resolve
<1>6. \A reqs : ImportNeeds(v, reqs) = ImportNeeds(w, reqs)
  BY <1>1, TargetsForSame
<1> QED BY <1>3, <1>4, <1>5, <1>6

\* A cached test, as AddTest makes it.
CachedTestOf(w, m, needs, later) ==
    LET v == [Adopted(w, TestCached(m)) EXCEPT !.test[m] = TestCached(m)]
    IN  WithNeeds(WithNeeds(v, TestCached(m), later), Test(m), needs)

\* What that gives: one more target, and what it and the test wait for.
LEMMA CachedTestOfIs ==
    ASSUME NEW w, w \in Store, NEW m \in Module, NEW needs \in NeedMaps, NEW later \in NeedMaps
    PROVE  LET v == CachedTestOf(w, m, needs, later)  next == TestCached(m) IN
           /\ v \in Store /\ SameImports(w, v) /\ SameItems(w, v) /\ SameStatus(w, v)
           /\ v.testsImports = w.testsImports /\ v.testedBy = w.testedBy
           /\ v.test[m] = next /\ \A n \in Module : n # m => v.test[n] = w.test[n]
           /\ v.all = w.all \cup {next} /\ v.own = w.own \cup {next}
           /\ DOMAIN v.needs = DOMAIN w.needs \cup {next, Test(m)} /\ v.needs[next] = later /\ v.needs[Test(m)] = needs
           /\ \A s \in DOMAIN w.needs : s \notin {next, Test(m)} => v.needs[s] = w.needs[s]
           /\ \A s : s \notin {next, Test(m)} => Needs(v, s) = Needs(w, s)
<1> DEFINE next == TestCached(m)
<1> DEFINE a == Adopted(w, next)
<1> DEFINE j == [a EXCEPT !.test[m] = next]
<1> DEFINE x == WithNeeds(j, next, later)
<1> DEFINE v == WithNeeds(x, Test(m), needs)
<1>t. next \in Target /\ Test(m) \in Target /\ next # Test(m)
  BY TargetsExist, TargetFields
<1>v. CachedTestOf(w, m, needs, later) = v
  BY DEF CachedTestOf
<1> HIDE DEF next
<1>1. /\ a \in Store /\ SameImports(w, a) /\ SameItems(w, a) /\ SameTests(w, a) /\ SameStatus(w, a)
      /\ a.all = w.all \cup {next} /\ a.own = w.own \cup {next} /\ a.needs = w.needs /\ \A s : Needs(a, s) = Needs(w, s)
  BY <1>t, AdoptedIs
<1> HIDE DEF a
<1>2. /\ j \in Store /\ SameImports(a, j) /\ SameItems(a, j) /\ SameStatus(a, j)
      /\ j.testsImports = a.testsImports /\ j.testedBy = a.testedBy
      /\ j.test[m] = next /\ \A n \in Module : n # m => j.test[n] = a.test[n]
      /\ j.all = a.all /\ j.own = a.own /\ j.needs = a.needs /\ \A s : Needs(j, s) = Needs(a, s)
  BY <1>1, <1>t, TestIs
<1> HIDE DEF j
<1>3. /\ x \in Store /\ SameImports(j, x) /\ SameItems(j, x) /\ SameTests(j, x) /\ SameStatus(j, x)
      /\ x.all = j.all /\ x.own = j.own /\ DOMAIN x.needs = DOMAIN j.needs \cup {next}
      /\ x.needs[next] = later /\ \A s \in DOMAIN j.needs : s # next => x.needs[s] = j.needs[s]
      /\ Needs(x, next) = later /\ \A s : s # next => Needs(x, s) = Needs(j, s)
  BY <1>2, <1>t, WithNeedsIs
<1> HIDE DEF x
<1>4. /\ v \in Store /\ SameImports(x, v) /\ SameItems(x, v) /\ SameTests(x, v) /\ SameStatus(x, v)
      /\ v.all = x.all /\ v.own = x.own /\ DOMAIN v.needs = DOMAIN x.needs \cup {Test(m)}
      /\ v.needs[Test(m)] = needs /\ \A s \in DOMAIN x.needs : s # Test(m) => v.needs[s] = x.needs[s]
      /\ Needs(v, Test(m)) = needs /\ \A s : s # Test(m) => Needs(v, s) = Needs(x, s)
  BY <1>3, <1>t, WithNeedsIs
<1> HIDE DEF v
<1>5. SameImports(w, v) /\ SameItems(w, v) /\ SameStatus(w, v)
  BY <1>1, <1>2, <1>3, <1>4 DEF SameImports, SameItems, SameStatus
<1>6. /\ v.testsImports = w.testsImports /\ v.testedBy = w.testedBy
      /\ v.test[m] = next /\ \A n \in Module : n # m => v.test[n] = w.test[n]
  BY <1>1, <1>2, <1>3, <1>4 DEF SameTests
<1> QED BY <1>t, <1>v, <1>1, <1>2, <1>3, <1>4, <1>5, <1>6 DEF next

\* The result of a module of tests: its test, which is cached or has a job.
LEMMA GotTests ==
    ASSUME NEW w, StoreInv(w), NEW m \in Module, NEW t, t = w.job[m], t \notin w.completed, Satisfied(w, Deps(w, t)),
           IsTests(w, m), NEW ineeds \in NeedMaps, GoodNeeds(w, ineeds),
           NEW next \in {TestCached(m), TestJob(m, 1)},
           NEW needs \in NeedMaps, GoodNeeds(w, needs), NEW later \in NeedMaps, GoodNeeds(w, later),
           NEW v, v \in Store, SameItems(w, v),
           v.code = w.code, v.cache = w.cache, v.first = w.first, v.job = w.job, v.got = w.got \cup {m},
           v.completed = w.completed \cup {t}, v.ready = w.ready, ~v.failed,
           v.all = w.all \cup {Test(m), next}, v.own = w.own \cup {Test(m), next},
           FoundFor(w, v, m), Plus(w.testedBy, v.testedBy, w.code.tests[m], m),
           v.test[m] = next, \A n \in Module : n # m => v.test[n] = w.test[n],
           DOMAIN v.needs = DOMAIN w.needs \cup {Import(m), Test(m), next},
           v.needs[Import(m)] = ineeds, v.needs[Test(m)] = needs, v.needs[next] = later,
           \A s \in DOMAIN w.needs : s \notin {Import(m), Test(m), next} => v.needs[s] = w.needs[s],
           \A s : s \notin {Import(m), Test(m), next} => Needs(v, s) = Needs(w, s)
    PROVE  Step(w, v, t)
<1>w. w \in Store /\ ClosedInv(w) /\ JobsInv(w) /\ TestsInv(w) /\ ~w.failed /\ t \in Target /\ w.code \in Programs
  BY StoreTypes DEF StoreInv
<1>n. /\ w.test[m] = NoTarget /\ Test(m) \notin w.all /\ TestCached(m) \notin w.all
      /\ \A k \in 1 .. MaxJobs : TestJob(m, k) \notin w.all
  BY <1>w, NotGot DEF JobsInv
<1>k. next.kind \in {"testcached", "testjob"} /\ next # NoTarget /\ 1 \in 1 .. MaxJobs
  BY TargetFields, OrderAssumption
<1>o. {Import(m), Test(m), next} \subseteq OfImport(m)
  BY DEF OfImport
<1>1. ItemClosed(v)
  <2>1. \A i : ItemTargets(v, i) = ItemTargets(w, i)
    BY DEF ItemTargets
  <2>2. \A i : Resolved(i) \notin {Test(m), next} /\ Complete(i) \notin {Test(m), next}
    BY <1>k, TargetFields
  <2>3. ItemClosed(w)
    BY <1>w DEF ClosedInv
  <2> QED BY <2>1, <2>2, <2>3 DEF ItemClosed
<1>2. NeedsExist(v)
  <2>1. \A f : GoodNeeds(w, f) => GoodNeeds(v, f)
    BY DEF GoodNeeds
  <2>2. NeedsExist(w) /\ {Import(m), Test(m), next} \subseteq v.all
    BY <1>w DEF ClosedInv
  <2>3. \A s \in v.all \ w.all : s.kind = "testjob" => s \in DOMAIN v.needs
    OBVIOUS
  <2>4. \A s \in {Import(m), Test(m), next} \cap DOMAIN v.needs : GoodNeeds(v, v.needs[s])
    BY <2>1
  <2> DEFINE new == {Import(m), Test(m), next}
  <2>5. /\ w.all \subseteq v.all /\ w.own \subseteq v.own
        /\ DOMAIN v.needs = DOMAIN w.needs \cup new
        /\ \A s \in DOMAIN w.needs : s \notin new => v.needs[s] = w.needs[s]
    OBVIOUS
  <2>6. new \subseteq v.all /\ \A s \in new \cap DOMAIN v.needs : GoodNeeds(v, v.needs[s])
    BY <2>2, <2>4
  <2> HIDE DEF new
  <2>7. DOMAIN v.needs \subseteq DOMAIN w.needs \cup new /\ DOMAIN w.needs \subseteq DOMAIN v.needs
    BY <2>5
  <2> QED BY <2>2, <2>3, <2>5, <2>6, <2>7, NeedsStillExist
<1>3. \A s : s \notin OfImport(m) => Needs(v, s) = Needs(w, s) /\ (s \in DOMAIN v.needs => s \in DOMAIN w.needs)
  BY <1>o
<1>4. \A s \in v.all \ w.all : s \in OfImport(m)
  BY <1>o
<1>5. \A n \in Module : v.testedBy[n] = IF n \in w.code.tests[m] THEN w.testedBy[n] \cup {m} ELSE w.testedBy[n]
  BY DEF Plus
<1>6. /\ v.provided = w.provided /\ v.resolved = w.resolved /\ v.items = w.items /\ v.picked = w.picked
  BY DEF SameItems
<1>7. v.own \subseteq v.all /\ w.all \subseteq v.all /\ w.own \subseteq v.own
  BY <1>w DEF ClosedInv
<1>8. /\ v.test[m] \in {NoTarget, TestCached(m), TestJob(m, 1)} /\ v.test[m] # NoTarget
      /\ Test(m) \in v.all /\ v.test[m] \in v.own
  BY <1>k
<1>9. TestJob(m, 1) \in v.all => v.test[m] = TestJob(m, 1)
  BY <1>n, <1>k, TargetFields
<1>10. TestCached(m) \in v.all => v.test[m] = TestCached(m)
  BY <1>n, <1>k, TargetFields
<1>11. GotResult(w, v, m, t)
  BY <1>1, <1>2, <1>3, <1>4, <1>5, <1>6, <1>7, <1>8, <1>9, <1>10 DEF GotResult
<1> QED BY <1>11, GotStep DEF Step

\* What an import waits for is the same, whatever is there besides.
LEMMA ResultNeeds ==
    ASSUME NEW w, StoreInv(w), NEW reqs \in SUBSET (Module \cup Item), NEW more \in SUBSET (Module \cup Item),
           reqs \subseteq more, NEW b, b = WithTargets(w, more), NEW tested \in SUBSET Module
    PROVE  /\ ImportNeeds(w, reqs) \in NeedMaps /\ GoodNeeds(b, ImportNeeds(w, reqs))
           /\ ResolveIn(w, tested, reqs) \in NeedMaps /\ GoodNeeds(b, ResolveIn(w, tested, reqs))
           /\ Resolve(w, reqs) \in NeedMaps /\ GoodNeeds(b, Resolve(w, reqs))
<1>1. ImportNeeds(w, reqs) \in NeedMaps /\ GoodNeeds(b, ImportNeeds(w, reqs))
  BY ImportNeedsAre
<1>2. ResolveIn(w, tested, reqs) \in NeedMaps /\ GoodNeeds(b, ResolveIn(w, tested, reqs))
  BY ResolveInIs
<1>3. {} \in SUBSET Module
  OBVIOUS
<1>4. ResolveIn(w, {}, reqs) \in NeedMaps /\ GoodNeeds(b, ResolveIn(w, {}, reqs))
  BY <1>3, ResolveInIs
<1> QED BY <1>1, <1>2, <1>4 DEF Resolve

\* The result of an import, with the targets of its requirements made first.
LEMMA UseResultIs ==
    ASSUME NEW w, w \in Store, NEW t \in Target, t.kind # "resolved", NEW m \in Module,
           NEW reqs \in SUBSET (Module \cup Item), NEW b, b = WithTargets(w, reqs)
    PROVE  LET x == ImportGot(b, t, m, ImportNeeds(w, reqs)) IN
           UseResult(Completed(w, t), m, reqs) =
              IF IsTests(w, m) THEN AddTest(AddTestsImport(x, m), m)
              ELSE IF IsFixtures(w, m) THEN x
              ELSE ResourceGot(b, t, m, ImportNeeds(w, reqs), Resolve(w, reqs))
<1> DEFINE c == Completed(w, t)
<1> DEFINE x == ImportGot(b, t, m, ImportNeeds(w, reqs))
<1>1. c.code = w.code
  BY DEF Completed, Store
<1>2. (IsTests(c, m) <=> IsTests(w, m)) /\ (IsFixtures(c, m) <=> IsFixtures(w, m))
  BY <1>1 DEF IsTests, IsFixtures
<1>3. WithTargets(c, reqs) = Completed(b, t)
  BY CompletedLater
<1>4. /\ b \in Store /\ SameImports(w, b) /\ SameStatus(w, b)
  BY WithTargetsIs
<1>5. Completed(b, t).code = w.code /\ Completed(b, t).completed = w.completed \cup {t}
  BY <1>4, CompletedIs DEF SameImports, SameStatus
<1>6. ImportNeeds(Completed(b, t), reqs) = ImportNeeds(w, reqs) /\ Resolve(Completed(b, t), reqs) = Resolve(w, reqs)
  <2> DEFINE d == Completed(b, t)
  <2>1. d.code = w.code /\ d.completed \in {w.completed, w.completed \cup {t}}
    BY <1>5
  <2> HIDE DEF d
  <2>2. ImportNeeds(d, reqs) = ImportNeeds(w, reqs) /\ Resolve(d, reqs) = Resolve(w, reqs)
    BY <2>1, SameTargets
  <2> QED BY <2>2 DEF d
<1>7. WithNeeds([WithTargets(c, reqs) EXCEPT !.got = @ \cup {m}], Import(m), ImportNeeds(WithTargets(c, reqs), reqs)) = x
  BY <1>3, <1>6 DEF ImportGot, GotOf
<1>8. Resolve(WithTargets(c, reqs), reqs) = Resolve(w, reqs)
  BY <1>3, <1>6
<1> HIDE DEF c, x
<1>9. UseResult(c, m, reqs) =
        IF IsTests(c, m) THEN AddTest(AddTestsImport(x, m), m)
        ELSE IF IsFixtures(c, m) THEN x
        ELSE Constructed(WithNeeds(Adopted(Asserted(x, {m}), Resource(m)), Resource(m), Resolve(w, reqs)), m)
  BY <1>7, <1>8 DEF UseResult
<1>10. Constructed(WithNeeds(Adopted(Asserted(x, {m}), Resource(m)), Resource(m), Resolve(w, reqs)), m)
          = ResourceGot(b, t, m, ImportNeeds(w, reqs), Resolve(w, reqs))
  BY DEF ResourceGot, x
<1> QED BY <1>2, <1>9, <1>10 DEF c, x

\* The test that a result makes.
LEMMA AddTestIs ==
    ASSUME NEW w, NEW m
    PROVE  LET x == TestOf(w, m)  y == WithTargets(x, TestReqs(w, m))
               needs == ResolveIn(x, w.code.tests[m], w.code.requires[m]) IN
           AddTest(w, m) =
              IF m \in w.cache.tests
              THEN CachedTestOf(y, m, needs, ResolveIn(y, w.code.tests[m], TestReqs(w, m)))
              ELSE WithTestJob(x, m, 1, needs)
  BY DEF AddTest, TestOf, CachedTestOf

\* What the requirements of a test are.
LEMMA TestReqsAre ==
    ASSUME NEW w, w \in Store, NEW m \in Module
    PROVE  /\ TestReqs(w, m) \subseteq Module \cup Item /\ w.code.requires[m] \subseteq TestReqs(w, m)
           /\ \A v : v.code = w.code => TestReqs(v, m) = TestReqs(w, m)
<1>1. w.code \in Programs
  BY StoreTypes
<1>2. Helpers(w, m) \subseteq Module
  BY <1>1, ProgramTypes DEF Helpers
<1>3. \A n \in {m} \cup Helpers(w, m) : w.code.requires[n] \subseteq Module \cup Item
  BY <1>1, <1>2, ProgramTypes
<1>4. TestReqs(w, m) \subseteq Module \cup Item
  <2>1. w.code.uses[m] \subseteq Module \cup Item
    BY <1>1, ProgramTypes
  <2>2. UNION {w.code.requires[n] : n \in {m} \cup Helpers(w, m)} \subseteq Module \cup Item
    BY <1>3
  <2> QED BY <2>1, <2>2 DEF TestReqs
<1>5. w.code.requires[m] \subseteq TestReqs(w, m)
  BY DEF TestReqs
<1>6. ASSUME NEW v, v.code = w.code PROVE TestReqs(v, m) = TestReqs(w, m)
  BY <1>6 DEF TestReqs, Helpers
<1> QED BY <1>4, <1>5, <1>6

\* The result of a module of tests, before it has a job.
TestsGot(w, t, m, needs) == TestOf(AddTestsImport(ImportGot(w, t, m, needs), m), m)
\* What it changes.
TestsGotFrom(w, v, m, t, more, needs) ==
    /\ v \in Store /\ SameItems(w, v)
    /\ v.code = w.code /\ v.cache = w.cache /\ v.first = w.first /\ v.job = w.job /\ v.got = w.got \cup {m}
    /\ v.completed = w.completed \cup {t} /\ v.ready = w.ready /\ ~v.failed
    /\ v.all = w.all \cup ForAll(w, more) \cup {Test(m)}
    /\ v.own = w.own \cup {Resource(n) : n \in more \cap Module} \cup {Test(m)}
    /\ FoundFor(w, v, m) /\ Plus(w.testedBy, v.testedBy, w.code.tests[m], m) /\ v.test = w.test
    /\ DOMAIN v.needs = DOMAIN w.needs \cup {Import(m)} /\ v.needs[Import(m)] = needs
    /\ \A s \in DOMAIN w.needs : s # Import(m) => v.needs[s] = w.needs[s]
    /\ \A s : s # Import(m) => Needs(v, s) = Needs(w, s)
\* The result of a tests module, before its test has a job.
LEMMA TestsGotIs ==
    ASSUME NEW w, StoreInv(w), NEW m \in Module, NEW t, t = w.job[m], t \notin w.completed,
           NEW reqs \in SUBSET (Module \cup Item), NEW b, b = WithTargets(w, reqs),
           NEW needs \in NeedMaps, NEW more, more = reqs \cup w.code.tests[m] \cup w.code.requires[m],
           NEW v, v = TestsGot(b, t, m, needs)
    PROVE  TestsGotFrom(w, v, m, t, more, needs)
<1> DEFINE tested == w.code.tests[m]
<1> DEFINE x == ImportGot(b, t, m, needs)
<1> DEFINE a == AddTestsImport(x, m)
<1>y. v = TestOf(a, m)
  BY DEF TestsGot
<1>w. /\ w \in Store /\ JobsInv(w) /\ ~w.failed /\ w.code \in Programs /\ t \in Target
  BY StoreTypes DEF StoreInv
<1>k. t.kind \in {"job", "cached"}
  BY <1>w, TargetFields DEF JobsInv
<1>b. /\ b \in Store /\ SameImports(w, b) /\ SameItems(w, b) /\ SameTests(w, b) /\ SameStatus(w, b)
      /\ b.all = w.all \cup UNION {TargetsFor(w, r) : r \in reqs}
      /\ b.own = w.own \cup {Resource(n) : n \in reqs \cap Module}
      /\ b.needs = w.needs /\ \A s : Needs(b, s) = Needs(w, s)
  BY <1>w, WithTargetsIs
<1>x. /\ x \in Store /\ SameItems(b, x) /\ SameTests(b, x)
      /\ x.code = b.code /\ x.cache = b.cache /\ x.first = b.first /\ x.job = b.job /\ x.got = b.got \cup {m}
      /\ x.completed = b.completed \cup {t} /\ x.ready = b.ready /\ x.failed = b.failed
      /\ x.all = b.all /\ x.own = b.own
      /\ DOMAIN x.needs = DOMAIN b.needs \cup {Import(m)} /\ x.needs[Import(m)] = needs
      /\ \A s \in DOMAIN b.needs : s # Import(m) => x.needs[s] = b.needs[s]
      /\ \A s : s # Import(m) => Needs(x, s) = Needs(b, s)
  BY <1>w, <1>b, ImportGotIs
<1> HIDE DEF x
<1>xw. x.code = w.code /\ x.completed = w.completed \cup {t} /\ ~x.failed
  BY <1>w, <1>b, <1>x DEF SameImports, SameStatus
<1>a. /\ a \in Store /\ SameImports(x, a) /\ SameItems(x, a) /\ SameStatus(x, a)
      /\ a.test = x.test /\ a.testedBy = x.testedBy /\ FoundFor(x, a, m)
      /\ a.all = x.all \cup ForAll(x, tested) /\ a.own = x.own \cup {Resource(n) : n \in tested}
      /\ a.needs = x.needs /\ \A s : Needs(a, s) = Needs(x, s)
  BY <1>x, <1>xw, AddTestsImportIs
<1> HIDE DEF a
<1>aw. a.code = w.code /\ a.completed = w.completed \cup {t} /\ ~a.failed
  BY <1>a, <1>xw DEF SameImports, SameStatus
<1>n. \A n \in a.code.tests[m] : Resource(n) \notin a.completed
  <2>1. \A n \in w.code.tests[m] : Resource(n) \notin w.completed
    BY <1>w, NotGot DEF JobsInv
  <2> QED BY <2>1, <1>aw, <1>k, TargetFields
<1>v. /\ v \in Store /\ SameImports(a, v) /\ SameItems(a, v) /\ SameStatus(a, v)
      /\ v.test = a.test /\ v.testsImports = a.testsImports
      /\ Plus(a.testedBy, v.testedBy, tested, m)
      /\ v.all = a.all \cup ForAll(a, w.code.requires[m] \cup tested) \cup {Test(m)}
      /\ v.own = a.own \cup {Resource(n) : n \in (w.code.requires[m] \cup tested) \cap Module} \cup {Test(m)}
      /\ v.needs = a.needs /\ \A s : Needs(v, s) = Needs(a, s)
  BY <1>a, <1>n, <1>aw, <1>y, TestOfIs
<1>1. SameItems(w, v)
  BY <1>b, <1>x, <1>a, <1>v DEF SameItems
<1>2. v.code = w.code /\ v.cache = w.cache /\ v.first = w.first /\ v.job = w.job /\ v.got = w.got \cup {m}
  BY <1>b, <1>x, <1>a, <1>v DEF SameImports
<1>3. v.completed = w.completed \cup {t} /\ v.ready = w.ready /\ ~v.failed
  BY <1>w, <1>b, <1>x, <1>a, <1>v DEF SameStatus
<1>4. (\A set : ForAll(x, set) = ForAll(w, set)) /\ (\A set : ForAll(a, set) = ForAll(w, set))
  <2>1. t.kind # "resolved"
    BY <1>k
  <2>2. \A set : ForAll(x, set) = ForAll(w, set)
    BY <2>1, <1>xw, SameTargets
  <2>3. \A set : ForAll(a, set) = ForAll(w, set)
    BY <2>1, <1>aw, SameTargets
  <2> QED BY <2>2, <2>3
<1>5. v.all = w.all \cup ForAll(w, more) \cup {Test(m)}
  <2>1. b.all = w.all \cup ForAll(w, reqs)
    BY <1>b DEF ForAll
  <2>2. v.all = w.all \cup ForAll(w, reqs) \cup ForAll(w, tested) \cup ForAll(w, w.code.requires[m] \cup tested) \cup {Test(m)}
    BY <2>1, <1>x, <1>a, <1>v, <1>4
  <2>3. ForAll(w, more) = ForAll(w, reqs) \cup ForAll(w, tested) \cup ForAll(w, w.code.requires[m] \cup tested)
    BY DEF ForAll
  <2> QED BY <2>2, <2>3
<1>6. v.own = w.own \cup {Resource(n) : n \in more \cap Module} \cup {Test(m)}
  <2>0. tested \subseteq Module
    BY <1>w, ProgramTypes
  <2>1. v.own = w.own \cup {Resource(n) : n \in reqs \cap Module} \cup {Resource(n) : n \in tested}
                \cup {Resource(n) : n \in (w.code.requires[m] \cup tested) \cap Module} \cup {Test(m)}
    BY <1>b, <1>x, <1>a, <1>v
  <2>2. {Resource(n) : n \in more \cap Module} = {Resource(n) : n \in reqs \cap Module} \cup {Resource(n) : n \in tested}
                \cup {Resource(n) : n \in (w.code.requires[m] \cup tested) \cap Module}
    BY <2>0
  <2> QED BY <2>1, <2>2
<1>7. FoundFor(w, v, m)
  <2>1. v.testsImports = a.testsImports /\ x.testsImports = w.testsImports /\ x.code = w.code
    BY <1>b, <1>x, <1>xw, <1>v DEF SameTests
  <2>2. FoundFor(x, a, m)
    BY <1>a
  <2> QED BY <2>1, <2>2 DEF FoundFor
<1>8. Plus(w.testedBy, v.testedBy, tested, m) /\ v.test = w.test
  BY <1>b, <1>x, <1>a, <1>v DEF SameTests
<1>9. /\ DOMAIN v.needs = DOMAIN w.needs \cup {Import(m)} /\ v.needs[Import(m)] = needs
      /\ \A s \in DOMAIN w.needs : s # Import(m) => v.needs[s] = w.needs[s]
      /\ \A s : s # Import(m) => Needs(v, s) = Needs(w, s)
  BY <1>b, <1>x, <1>a, <1>v
<1> QED BY <1>v, <1>1, <1>2, <1>3, <1>5, <1>6, <1>7, <1>8, <1>9 DEF a, x, TestsGotFrom

\* The result of a module of tests with no cached result of theirs.
LEMMA GotNewTest ==
    ASSUME NEW w, StoreInv(w), NEW m \in Module, NEW t, t = w.job[m], t \notin w.completed, Satisfied(w, Deps(w, t)),
           IsTests(w, m), m \notin w.cache.tests, NEW reqs \in SUBSET (Module \cup Item), NEW b, b = WithTargets(w, reqs)
    PROVE  Done(w, AddTest(AddTestsImport(ImportGot(b, t, m, ImportNeeds(w, reqs)), m), m), t)
<1> DEFINE tested == w.code.tests[m]
<1> DEFINE more == reqs \cup tested \cup w.code.requires[m]
<1> DEFINE c == WithTargets(w, more)
<1> DEFINE a == AddTestsImport(ImportGot(b, t, m, ImportNeeds(w, reqs)), m)
<1> DEFINE x == TestsGot(b, t, m, ImportNeeds(w, reqs))
<1> DEFINE needs == ResolveIn(w, tested, w.code.requires[m])
<1> DEFINE one == 1
<1> DEFINE next == TestJob(m, one)
<1> DEFINE v == WithTestJob(x, m, one, needs)
<1>w. /\ w \in Store /\ JobsInv(w) /\ ~w.failed /\ w.code \in Programs /\ t \in Target /\ t \in w.all
  BY StoreTypes DEF StoreInv, JobsInv, ClosedInv
<1>k. t.kind \in {"job", "cached"}
  BY <1>w, TargetFields DEF JobsInv
<1>r. /\ w.code.requires[m] \in SUBSET (Module \cup Item) /\ tested \in SUBSET Module
      /\ more \in SUBSET (Module \cup Item) /\ reqs \subseteq more /\ w.code.requires[m] \subseteq more
  BY <1>w, ProgramTypes
<1>m. more = reqs \cup w.code.tests[m] \cup w.code.requires[m]
  OBVIOUS
<1>i. ImportNeeds(w, reqs) \in NeedMaps /\ GoodNeeds(c, ImportNeeds(w, reqs))
  <2> HIDE DEF more
  <2> QED BY <1>r, ResultNeeds
<1>d. needs \in NeedMaps /\ GoodNeeds(c, needs)
  <2> HIDE DEF more, tested
  <2> QED BY <1>r, ResultNeeds
<1>x. /\ x \in Store /\ SameItems(w, x)
      /\ x.code = w.code /\ x.cache = w.cache /\ x.first = w.first /\ x.job = w.job /\ x.got = w.got \cup {m}
      /\ x.completed = w.completed \cup {t} /\ x.ready = w.ready /\ ~x.failed
      /\ x.all = w.all \cup ForAll(w, more) \cup {Test(m)}
      /\ x.own = w.own \cup {Resource(n) : n \in more \cap Module} \cup {Test(m)}
      /\ FoundFor(w, x, m) /\ Plus(w.testedBy, x.testedBy, w.code.tests[m], m) /\ x.test = w.test
      /\ DOMAIN x.needs = DOMAIN w.needs \cup {Import(m)} /\ x.needs[Import(m)] = ImportNeeds(w, reqs)
      /\ \A s \in DOMAIN w.needs : s # Import(m) => x.needs[s] = w.needs[s]
      /\ \A s : s # Import(m) => Needs(x, s) = Needs(w, s)
  <2>1. x = TestsGot(b, t, m, ImportNeeds(w, reqs))
    OBVIOUS
  <2>2. ImportNeeds(w, reqs) \in NeedMaps
    BY <1>i
  <2> HIDE DEF more, x
  <2>3. TestsGotFrom(w, x, m, t, more, ImportNeeds(w, reqs))
    BY <2>2, <1>m, <2>1, TestsGotIs
  <2> QED BY <2>3 DEF TestsGotFrom
<1>a. a.code = w.code /\ a.cache = w.cache
  <2>1. b \in Store /\ SameImports(w, b)
    BY <1>w, WithTargetsIs
  <2>2. ImportGot(b, t, m, ImportNeeds(w, reqs)) \in Store
        /\ ImportGot(b, t, m, ImportNeeds(w, reqs)).code = b.code /\ ImportGot(b, t, m, ImportNeeds(w, reqs)).cache = b.cache
    BY <2>1, <1>w, <1>i, ImportGotIs
  <2>3. SameImports(ImportGot(b, t, m, ImportNeeds(w, reqs)), a)
    BY <2>2, AddTestsImportIs
  <2> QED BY <2>1, <2>2, <2>3 DEF SameImports
<1>v. AddTest(a, m) = v
  <2>1. TestOf(a, m) = x
    BY DEF TestsGot
  <2> HIDE DEF a, x
  <2>2. ResolveIn(x, tested, w.code.requires[m]) = needs
    BY <1>x, <1>k, SameTargets
  <2> QED BY <2>1, <2>2, <1>a, AddTestIs DEF v
<1>j. one \in 1 .. MaxJobs
  BY OrderAssumption
<1> HIDE DEF a, x, needs, one
<1>1. /\ v \in Store /\ SameImports(x, v) /\ SameItems(x, v) /\ SameStatus(x, v)
      /\ v.testsImports = x.testsImports /\ v.testedBy = x.testedBy
      /\ v.test[m] = next /\ \A n \in Module : n # m => v.test[n] = x.test[n]
      /\ v.all = x.all \cup {next} /\ v.own = x.own \cup {next}
      /\ DOMAIN v.needs = DOMAIN x.needs \cup {next, Test(m)} /\ v.needs[next] = needs /\ v.needs[Test(m)] = needs
      /\ \A s \in DOMAIN x.needs : s \notin {next, Test(m)} => v.needs[s] = x.needs[s]
      /\ \A s : s \notin {next, Test(m)} => Needs(v, s) = Needs(x, s)
  <2>1. next = TestJob(m, one)
    OBVIOUS
  <2>2. x \in Store
    BY <1>x
  <2>3. needs \in NeedMaps
    BY <1>d
  <2> HIDE DEF next
  <2> QED BY <2>2, <2>3, <1>j, <2>1, WithTestJobIs
<1> HIDE DEF v, more, c
<1>c. /\ StoreInv(c) /\ c \in Store /\ SameImports(w, c) /\ SameItems(w, c) /\ SameTests(w, c) /\ SameStatus(w, c)
      /\ c.all = w.all \cup UNION {TargetsFor(w, r) : r \in more}
      /\ c.own = w.own \cup {Resource(n) : n \in more \cap Module}
      /\ c.needs = w.needs /\ \A s : Needs(c, s) = Needs(w, s)
      /\ Satisfied(c, Deps(c, t))
  BY <1>w, <1>r, <1>k, TargetsBase DEF c
<1>2. SameItems(c, v)
  BY <1>x, <1>1, <1>c DEF SameItems
<1>3. /\ v.code = c.code /\ v.cache = c.cache /\ v.first = c.first /\ v.job = c.job /\ v.got = c.got \cup {m}
  BY <1>x, <1>1, <1>c DEF SameImports
<1>4. v.completed = c.completed \cup {t} /\ v.ready = c.ready /\ ~v.failed
  BY <1>x, <1>1, <1>c DEF SameStatus
<1>5. v.all = c.all \cup {Test(m), next} /\ v.own = c.own \cup {Test(m), next}
  BY <1>x, <1>1, <1>c DEF ForAll
<1>6. FoundFor(c, v, m) /\ Plus(c.testedBy, v.testedBy, c.code.tests[m], m)
  <2>1. FoundFor(w, x, m) /\ Plus(w.testedBy, x.testedBy, w.code.tests[m], m)
    BY <1>x
  <2>2. /\ c.code = w.code /\ c.testsImports = w.testsImports /\ c.testedBy = w.testedBy
        /\ v.testsImports = x.testsImports /\ v.testedBy = x.testedBy
    BY <1>1, <1>c DEF SameTests, SameImports
  <2>3. FoundFor(c, v, m)
    BY <2>1, <2>2 DEF FoundFor
  <2> QED BY <2>1, <2>2, <2>3
<1>7. v.test[m] = next /\ \A n \in Module : n # m => v.test[n] = c.test[n]
  BY <1>x, <1>1, <1>c DEF SameTests
<1>8. Import(m) \notin {next, Test(m)}
  BY TargetFields
<1>9. /\ DOMAIN v.needs = DOMAIN c.needs \cup {Import(m), Test(m), next}
      /\ v.needs[Import(m)] = ImportNeeds(w, reqs) /\ v.needs[Test(m)] = needs /\ v.needs[next] = needs
      /\ \A s \in DOMAIN c.needs : s \notin {Import(m), Test(m), next} => v.needs[s] = c.needs[s]
      /\ \A s : s \notin {Import(m), Test(m), next} => Needs(v, s) = Needs(c, s)
  BY <1>x, <1>1, <1>c, <1>8
<1>10. t = c.job[m] /\ t \notin c.completed /\ IsTests(c, m)
  BY <1>c DEF SameImports, SameStatus, IsTests
<1>11. Step(c, v, t)
  BY <1>1, <1>c, <1>i, <1>d, <1>2, <1>3, <1>4, <1>5, <1>6, <1>7, <1>9, <1>10, GotTests DEF one
<1>12. Done(w, v, t)
  BY <1>4, <1>11, <1>r, AfterTargets DEF Done, c
<1> QED BY <1>12, <1>v DEF a

\* The result of a module of tests that has a cached result of theirs.
LEMMA GotCachedTest ==
    ASSUME NEW w, StoreInv(w), NEW m \in Module, NEW t, t = w.job[m], t \notin w.completed, Satisfied(w, Deps(w, t)),
           IsTests(w, m), m \in w.cache.tests, NEW reqs \in SUBSET (Module \cup Item), NEW b, b = WithTargets(w, reqs)
    PROVE  Done(w, AddTest(AddTestsImport(ImportGot(b, t, m, ImportNeeds(w, reqs)), m), m), t)
<1> DEFINE tested == w.code.tests[m]
<1> DEFINE some == reqs \cup tested \cup w.code.requires[m]
<1> DEFINE all == TestReqs(w, m)
<1> DEFINE more == some \cup all
<1> DEFINE c == WithTargets(w, more)
<1> DEFINE a == AddTestsImport(ImportGot(b, t, m, ImportNeeds(w, reqs)), m)
<1> DEFINE x == TestsGot(b, t, m, ImportNeeds(w, reqs))
<1> DEFINE needs == ResolveIn(w, tested, w.code.requires[m])
<1> DEFINE y == WithTargets(x, all)
<1> DEFINE later == ResolveIn(w, tested, all)
<1> DEFINE next == TestCached(m)
<1> DEFINE v == CachedTestOf(y, m, needs, later)
<1>w. /\ w \in Store /\ JobsInv(w) /\ ~w.failed /\ w.code \in Programs /\ t \in Target /\ t \in w.all
  BY StoreTypes DEF StoreInv, JobsInv, ClosedInv
<1>k. t.kind \in {"job", "cached"}
  BY <1>w, TargetFields DEF JobsInv
<1>r. /\ w.code.requires[m] \in SUBSET (Module \cup Item) /\ tested \in SUBSET Module
      /\ all \in SUBSET (Module \cup Item)
      /\ more \in SUBSET (Module \cup Item) /\ all \subseteq more /\ reqs \subseteq more /\ w.code.requires[m] \subseteq more
  BY <1>w, ProgramTypes, TestReqsAre
<1>m. some = reqs \cup w.code.tests[m] \cup w.code.requires[m]
  OBVIOUS
<1>i. ImportNeeds(w, reqs) \in NeedMaps /\ GoodNeeds(c, ImportNeeds(w, reqs))
  <2> HIDE DEF more
  <2> QED BY <1>r, ResultNeeds
<1>e. later \in NeedMaps /\ GoodNeeds(c, later)
  <2> HIDE DEF more, tested, all
  <2> QED BY <1>r, ResultNeeds
<1>d. needs \in NeedMaps /\ GoodNeeds(c, needs)
  <2> HIDE DEF more, tested
  <2> QED BY <1>r, ResultNeeds
<1>x. /\ x \in Store /\ SameItems(w, x)
      /\ x.code = w.code /\ x.cache = w.cache /\ x.first = w.first /\ x.job = w.job /\ x.got = w.got \cup {m}
      /\ x.completed = w.completed \cup {t} /\ x.ready = w.ready /\ ~x.failed
      /\ x.all = w.all \cup ForAll(w, some) \cup {Test(m)}
      /\ x.own = w.own \cup {Resource(n) : n \in some \cap Module} \cup {Test(m)}
      /\ FoundFor(w, x, m) /\ Plus(w.testedBy, x.testedBy, w.code.tests[m], m) /\ x.test = w.test
      /\ DOMAIN x.needs = DOMAIN w.needs \cup {Import(m)} /\ x.needs[Import(m)] = ImportNeeds(w, reqs)
      /\ \A s \in DOMAIN w.needs : s # Import(m) => x.needs[s] = w.needs[s]
      /\ \A s : s # Import(m) => Needs(x, s) = Needs(w, s)
  <2>1. x = TestsGot(b, t, m, ImportNeeds(w, reqs))
    OBVIOUS
  <2>2. ImportNeeds(w, reqs) \in NeedMaps
    BY <1>i
  <2>  HIDE DEF some, x
  <2>3. TestsGotFrom(w, x, m, t, some, ImportNeeds(w, reqs))
    BY <2>2, <1>m, <2>1, TestsGotIs
  <2> QED BY <2>3 DEF TestsGotFrom
<1>a. a.code = w.code /\ a.cache = w.cache
  <2>1. b \in Store /\ SameImports(w, b)
    BY <1>w, WithTargetsIs
  <2>2. ImportGot(b, t, m, ImportNeeds(w, reqs)) \in Store
        /\ ImportGot(b, t, m, ImportNeeds(w, reqs)).code = b.code /\ ImportGot(b, t, m, ImportNeeds(w, reqs)).cache = b.cache
    BY <2>1, <1>w, <1>i, ImportGotIs
  <2>3. SameImports(ImportGot(b, t, m, ImportNeeds(w, reqs)), a)
    BY <2>2, AddTestsImportIs
  <2> QED BY <2>1, <2>2, <2>3 DEF SameImports
<1>f. TestReqs(a, m) = all
  BY <1>w, <1>a, TestReqsAre
<1> HIDE DEF a, x, needs, later, all
<1>y. /\ y \in Store /\ SameImports(x, y) /\ SameItems(x, y) /\ SameTests(x, y) /\ SameStatus(x, y)
      /\ y.all = x.all \cup UNION {TargetsFor(x, r) : r \in all}
      /\ y.own = x.own \cup {Resource(n) : n \in all \cap Module}
      /\ y.needs = x.needs /\ \A s : Needs(y, s) = Needs(x, s)
  <2>1. x \in Store
    BY <1>x
  <2> QED BY <2>1, <1>r, WithTargetsIs
<1> HIDE DEF y
<1>z. y.code = w.code /\ y.completed = w.completed \cup {t}
  BY <1>x, <1>y DEF SameImports, SameStatus
<1>v. AddTest(a, m) = v
  <2>1. TestOf(a, m) = x
    BY DEF TestsGot, a, x
  <2>2. ResolveIn(x, tested, w.code.requires[m]) = needs
    BY <1>x, <1>k, SameTargets DEF needs
  <2>3. ResolveIn(y, tested, all) = later
    BY <1>z, <1>k, SameTargets DEF later
  <2>4. WithTargets(TestOf(a, m), TestReqs(a, m)) = y
    BY <2>1, <1>f DEF y
  <2> QED BY <2>1, <2>2, <2>3, <2>4, <1>a, <1>f, AddTestIs DEF v
<1>1. /\ v \in Store /\ SameImports(y, v) /\ SameItems(y, v) /\ SameStatus(y, v)
      /\ v.testsImports = y.testsImports /\ v.testedBy = y.testedBy
      /\ v.test[m] = next /\ \A n \in Module : n # m => v.test[n] = y.test[n]
      /\ v.all = y.all \cup {next} /\ v.own = y.own \cup {next}
      /\ DOMAIN v.needs = DOMAIN y.needs \cup {next, Test(m)} /\ v.needs[next] = later /\ v.needs[Test(m)] = needs
      /\ \A s \in DOMAIN y.needs : s \notin {next, Test(m)} => v.needs[s] = y.needs[s]
      /\ \A s : s \notin {next, Test(m)} => Needs(v, s) = Needs(y, s)
  <2>1. y \in Store /\ needs \in NeedMaps /\ later \in NeedMaps
    BY <1>y, <1>d, <1>e
  <2> QED BY <2>1, CachedTestOfIs
<1> HIDE DEF v, more, c
<1>c. /\ StoreInv(c) /\ c \in Store /\ SameImports(w, c) /\ SameItems(w, c) /\ SameTests(w, c) /\ SameStatus(w, c)
      /\ c.all = w.all \cup UNION {TargetsFor(w, r) : r \in more}
      /\ c.own = w.own \cup {Resource(n) : n \in more \cap Module}
      /\ c.needs = w.needs /\ \A s : Needs(c, s) = Needs(w, s)
      /\ Satisfied(c, Deps(c, t))
  BY <1>w, <1>r, <1>k, TargetsBase DEF c
<1>2. SameItems(c, v)
  BY <1>x, <1>y, <1>1, <1>c DEF SameItems
<1>3. /\ v.code = c.code /\ v.cache = c.cache /\ v.first = c.first /\ v.job = c.job /\ v.got = c.got \cup {m}
  BY <1>x, <1>y, <1>1, <1>c DEF SameImports
<1>4. v.completed = c.completed \cup {t} /\ v.ready = c.ready /\ ~v.failed
  BY <1>x, <1>y, <1>1, <1>c DEF SameStatus
<1>5. v.all = c.all \cup {Test(m), next} /\ v.own = c.own \cup {Test(m), next}
  <2>1. \A set : ForAll(x, set) = ForAll(w, set)
    BY <1>x, <1>k, SameTargets
  <2>2. ForAll(w, more) = ForAll(w, some) \cup ForAll(w, all)
    BY DEF ForAll, more
  <2>3. {Resource(n) : n \in more \cap Module} = {Resource(n) : n \in some \cap Module} \cup {Resource(n) : n \in all \cap Module}
    BY DEF more
  <2>4. c.all = w.all \cup ForAll(w, more)
    BY <1>c DEF ForAll
  <2>5. y.all = x.all \cup ForAll(w, all)
    BY <1>y, <2>1 DEF ForAll
  <2>6. v.all = w.all \cup ForAll(w, some) \cup {Test(m)} \cup ForAll(w, all) \cup {next}
    BY <1>x, <1>1, <2>5
  <2>7. v.own = w.own \cup {Resource(n) : n \in some \cap Module} \cup {Test(m)}
                \cup {Resource(n) : n \in all \cap Module} \cup {next}
    BY <1>x, <1>y, <1>1
  <2>8. v.all = c.all \cup {Test(m), next}
    BY <2>2, <2>4, <2>6
  <2>9. v.own = c.own \cup {Test(m), next}
    BY <2>3, <2>7, <1>c
  <2> QED BY <2>8, <2>9
<1>6. FoundFor(c, v, m) /\ Plus(c.testedBy, v.testedBy, c.code.tests[m], m)
  <2>1. /\ v.testsImports = x.testsImports /\ c.testsImports = w.testsImports /\ c.code = w.code
        /\ v.testedBy = x.testedBy /\ c.testedBy = w.testedBy
    BY <1>y, <1>1, <1>c DEF SameTests, SameImports
  <2>2. FoundFor(w, x, m) /\ Plus(w.testedBy, x.testedBy, w.code.tests[m], m)
    BY <1>x
  <2>3. FoundFor(c, v, m)
    BY <2>1, <2>2 DEF FoundFor
  <2> QED BY <2>1, <2>2, <2>3
<1>7. v.test[m] = next /\ \A n \in Module : n # m => v.test[n] = c.test[n]
  BY <1>x, <1>y, <1>1, <1>c DEF SameTests
<1>8. Import(m) \notin {next, Test(m)}
  BY TargetFields
<1>9. /\ DOMAIN v.needs = DOMAIN c.needs \cup {Import(m), Test(m), next}
      /\ v.needs[Import(m)] = ImportNeeds(w, reqs) /\ v.needs[Test(m)] = needs /\ v.needs[next] = later
      /\ \A s \in DOMAIN c.needs : s \notin {Import(m), Test(m), next} => v.needs[s] = c.needs[s]
      /\ \A s : s \notin {Import(m), Test(m), next} => Needs(v, s) = Needs(c, s)
  BY <1>x, <1>y, <1>1, <1>c, <1>8
<1>10. t = c.job[m] /\ t \notin c.completed /\ IsTests(c, m)
  BY <1>c DEF SameImports, SameStatus, IsTests
<1>11. Step(c, v, t)
  BY <1>1, <1>c, <1>i, <1>d, <1>e, <1>2, <1>3, <1>4, <1>5, <1>6, <1>7, <1>9, <1>10, GotTests
<1>12. Done(w, v, t)
  BY <1>4, <1>11, <1>r, AfterTargets DEF Done, c
<1> QED BY <1>12, <1>v DEF a

\* A result is used: the targets of its requirements are made first.
LEMMA UseResultStep ==
    ASSUME NEW w, StoreInv(w), NEW m \in Module, NEW t, t = w.job[m], t \notin w.completed, Satisfied(w, Deps(w, t)),
           NEW reqs \in SUBSET (Module \cup Item)
    PROVE  Done(w, UseResult(Completed(w, t), m, reqs), t)
<1> DEFINE b == WithTargets(w, reqs)
<1> DEFINE ineeds == ImportNeeds(w, reqs)
<1> DEFINE x == ImportGot(b, t, m, ineeds)
<1> DEFINE v == UseResult(Completed(w, t), m, reqs)
<1>w. /\ w \in Store /\ JobsInv(w) /\ w.code \in Programs /\ t \in Target /\ t \in w.all
  BY StoreTypes DEF StoreInv, JobsInv, ClosedInv
<1>k. t.kind \in {"job", "cached"} /\ t.kind # "resolved"
  BY <1>w, TargetFields DEF JobsInv
<1>v. v = IF IsTests(w, m) THEN AddTest(AddTestsImport(x, m), m)
          ELSE IF IsFixtures(w, m) THEN x ELSE ResourceGot(b, t, m, ineeds, Resolve(w, reqs))
  BY <1>w, <1>k, UseResultIs
<1>n. /\ ineeds \in NeedMaps /\ GoodNeeds(b, ineeds)
      /\ Resolve(w, reqs) \in NeedMaps /\ GoodNeeds(b, Resolve(w, reqs))
  <2>1. {} \in SUBSET Module
    OBVIOUS
  <2> QED BY <2>1, ResultNeeds
<1>c. StoreInv(b) /\ SameImports(w, b) /\ SameStatus(w, b) /\ Satisfied(b, Deps(b, t))
  BY <1>w, <1>k, TargetsBase
<1>b. b = WithTargets(w, reqs)
  OBVIOUS
<1> HIDE DEF b, v, ineeds
<1>d. t = b.job[m] /\ t \notin b.completed /\ (IsTests(b, m) <=> IsTests(w, m))
  BY <1>c DEF SameImports, SameStatus, IsTests
<1>1. ASSUME IsTests(w, m) /\ m \in w.cache.tests PROVE Done(w, v, t)
  <2>1. Done(w, AddTest(AddTestsImport(x, m), m), t)
    BY <1>1, <1>b, GotCachedTest DEF ineeds
  <2> QED BY <2>1, <1>1, <1>v
<1>2. ASSUME IsTests(w, m) /\ m \notin w.cache.tests PROVE Done(w, v, t)
  <2>1. Done(w, AddTest(AddTestsImport(x, m), m), t)
    BY <1>2, <1>b, GotNewTest DEF ineeds
  <2> QED BY <2>1, <1>2, <1>v
<1>3. ASSUME ~IsTests(w, m) /\ IsFixtures(w, m) PROVE Done(w, v, t)
  <2>1. Done(b, x, t)
    BY <1>3, <1>c, <1>d, <1>n, GotFixtures
  <2> QED BY <1>3, <1>v, <2>1, <1>b, AfterTargets DEF Done
<1>4. ASSUME ~IsTests(w, m) /\ ~IsFixtures(w, m) PROVE Done(w, v, t)
  <2>1. Done(b, ResourceGot(b, t, m, ineeds, Resolve(w, reqs)), t)
    BY <1>4, <1>c, <1>d, <1>n, GotResource
  <2> QED BY <1>4, <1>v, <2>1, <1>b, AfterTargets DEF Done
<1>5. Done(w, v, t)
  BY <1>1, <1>2, <1>3, <1>4
<1> QED BY <1>5 DEF v

-----------------------------------------------------------------------------
(* The steps of update_status, by the class of the target *)

\* Two steps about one target are one, when the first finds no items and completes nothing.
LEMMA StepTrans ==
    ASSUME NEW w, StoreInv(w), NEW v, NEW x, NEW u, Step(w, v, u), Step(v, x, u),
           v.resolved = w.resolved, v.completed = w.completed
    PROVE  Step(w, x, u)
<1>1. Grows(w, x)
  BY GrowsTrans DEF Step
<1>2. Fixed(w, x, u)
  BY FixedTrans DEF Step
<1>3. NewDone(w, x)
  BY DEF Step, NewDone
<1> QED BY <1>1, <1>2, <1>3 DEF Step

\* A target that is left as it is.
LEMMA StepNone ==
    ASSUME NEW w, StoreInv(w), NEW u
    PROVE  Step(w, w, u)
<1>1. \A t : LaterNeeds(Needs(w, t), Needs(w, t))
  BY DEF LaterNeeds, Later
<1>2. Grows(w, w)
  BY <1>1 DEF Grows
<1>3. Fixed(w, w, u)
  BY DEF Fixed
<1> QED BY <1>2, <1>3 DEF Step, NewDone

\* What a completed target changes.
LEMMA CompletedOnly ==
    ASSUME NEW w, w \in Store, NEW t \in Target
    PROVE  LET v == Completed(w, t) IN
           /\ v \in Store /\ SameImports(w, v) /\ SameItems(w, v) /\ SameTests(w, v)
           /\ v.all = w.all /\ v.own = w.own /\ v.needs = w.needs /\ v.ready = w.ready /\ v.failed = w.failed
           /\ v.completed = w.completed \cup {t}
  BY DEF Store, Completed, SameImports, SameItems, SameTests

\* Deps do not change with what is completed.
LEMMA CompletedDeps ==
    ASSUME NEW w, w \in Store, NEW t \in Target
    PROVE  \A s : Deps(Completed(w, t), s) = Deps(w, s)
<1> DEFINE v == Completed(w, t)
<1>1. /\ SameImports(w, v) /\ SameItems(w, v) /\ SameTests(w, v) /\ v.needs = w.needs
  BY CompletedOnly
<1> HIDE DEF v
<1>2. \A s : Needs(v, s) = Needs(w, s)
  BY <1>1 DEF Needs
<1>3. \A m : Helpers(v, m) = Helpers(w, m) /\ Provider(v, m) = Provider(w, m)
             /\ ServiceTarget(v, m) = ServiceTarget(w, m) /\ Provided(v, m) = Provided(w, m)
  BY <1>1 DEF Helpers, Provider, ServiceTarget, Provided, SameImports, SameItems
<1>4. ASSUME NEW s PROVE Deps(v, s) = Deps(w, s)
  BY <1>1, <1>2, <1>3 DEF Deps, SameImports, SameItems, SameTests
<1> QED BY <1>4 DEF v

\* A target other than a job is completed.
LEMMA CompleteStep ==
    ASSUME NEW w, StoreInv(w), NEW t \in w.all, t \notin w.completed, t.kind \notin {"job", "cached"},
           Satisfied(w, Deps(w, t)),
           t.kind = "ready" => t.of \in w.provided, t.kind = "complete" => t.of \in w.picked
    PROVE  Step(w, Completed(w, t), t)
<1> DEFINE v == Completed(w, t)
<1>w. w \in Store /\ t \in Target
  BY StoreTypes DEF StoreInv
<1>1. /\ v \in Store /\ SameImports(w, v) /\ SameItems(w, v) /\ SameTests(w, v)
      /\ v.all = w.all /\ v.own = w.own /\ v.needs = w.needs /\ v.ready = w.ready /\ v.failed = w.failed
      /\ v.completed = w.completed \cup {t}
  BY <1>w, CompletedOnly
<1>2. Deps(v, t) = Deps(w, t)
  BY <1>w, CompletedDeps
<1>3. ~v.failed
  BY <1>1 DEF StoreInv
<1> HIDE DEF v
<1>4. v.provided = w.provided /\ v.resolved = w.resolved /\ v.items = w.items /\ v.picked = w.picked
  BY <1>1 DEF SameItems
<1>5. Satisfied(w, Deps(v, t))
  BY <1>2
<1>6. StoreInv(v) /\ Grows(w, v) /\ Fixed(w, v, t) /\ NewDone(w, v)
  BY <1>1, <1>3, <1>4, <1>5, DoneStep
<1> QED BY <1>6 DEF Step, v

\* ConfigItemReadyTarget.update_status
LEMMA UpdateReadyStep ==
    ASSUME NEW w, StoreInv(w), NEW t \in w.all, t \notin w.completed, t.kind = "ready"
    PROVE  Step(w, UpdateReady(w, t), t)
<1>w. w \in Store /\ t \in Target /\ w.code \in Programs /\ SatInv(w) /\ JobsInv(w) /\ ItemsInv(w)
  BY StoreTypes DEF StoreInv
<1>1. t.of \in Item /\ t = Ready(t.of)
  BY <1>w, TargetShape DEF OfItsKind
<1>2. CASE /\ Provided(w, t.of)
           /\ \E d \in {Import(Provider(w, t.of)), Resource(Provider(w, t.of))} : d \in w.completed
  <2>0. t.of \in w.provided
    BY <1>2 DEF Provided
  <2>1. PICK m \in Module : t.of \in w.code.provides[m]
    BY <2>0, <1>w DEF ItemsInv
  <2>2. Provider(w, t.of) = m
    BY <2>1, <1>1, <1>w, ProviderIs
  <2>3. Import(m) \in w.completed
    BY <1>2, <2>2, <1>w, Below
  <2>4. Deps(w, t) = {Import(m)}
    BY <1>1, <1>2, <2>2, DepsOf
  <2>5. Satisfied(w, Deps(w, t))
    BY <2>3, <2>4 DEF Satisfied
  <2>6. Step(w, Completed(w, t), t)
    BY <2>0, <2>5, CompleteStep
  <2> QED BY <2>6, <1>2 DEF UpdateReady
<1>3. CASE ~(/\ Provided(w, t.of)
             /\ \E d \in {Import(Provider(w, t.of)), Resource(Provider(w, t.of))} : d \in w.completed)
  <2>1. UpdateReady(w, t) = w
    BY <1>3 DEF UpdateReady
  <2> QED BY <2>1, StepNone
<1> QED BY <1>2, <1>3

\* ConfigItemResolvedTarget.update_status
LEMMA UpdateResolvedStep ==
    ASSUME NEW w, StoreInv(w), NEW i \in Item, Resolved(i) \in w.all, Resolved(i) \notin w.completed
    PROVE  Step(w, UpdateResolved(w, i), Resolved(i))
<1> DEFINE t == Resolved(i)
<1>w. w \in Store /\ ItemsInv(w) /\ t.kind = "resolved"
  BY TargetFields DEF StoreInv
<1>1. CASE i \notin w.resolved
  BY <1>1, StepNone DEF UpdateResolved
<1>2. CASE i \in w.resolved
  <2>1. t \in w.own /\ t \in w.all
    BY <1>2, <1>w DEF ItemsInv
  <2>2. Adopted(w, t) = w
    <3>1. w.all \cup {t} = w.all /\ w.own \cup {t} = w.own
      BY <2>1
    <3> HIDE DEF t
    <3>2. Adopted(w, t) = [w EXCEPT !.all = w.all, !.own = w.own]
      BY <3>1 DEF Adopted
    <3> QED BY <3>2, <1>w DEF Store
  <2>3. CASE Satisfied(w, Deps(w, t))
    <3>1. Step(w, Completed(w, t), t)
      BY <2>1, <2>3, <1>w, CompleteStep
    <3> QED BY <3>1, <1>2, <2>2, <2>3 DEF UpdateResolved
  <2>4. CASE ~Satisfied(w, Deps(w, t))
    BY <1>2, <2>2, <2>4, StepNone DEF UpdateResolved
  <2> QED BY <2>3, <2>4
<1> QED BY <1>1, <1>2

\* ImportJobTarget.update_status
LEMMA UpdateJobStep ==
    ASSUME NEW w, StoreInv(w), NEW t \in w.all, t.kind = "job"
    PROVE  Step(w, UpdateJob(w, t), t)
<1>w. w \in Store /\ ReadyInv(w)
  BY DEF StoreInv
<1>1. CASE Satisfied(w, Deps(w, t))
  <2>1. Settled(w, t)
    BY <1>1 DEF Settled
  <2> DEFINE v == [w EXCEPT !.ready = @ \cup {t}]
  <2>2. UpdateJob(w, t) = v
    BY <1>1 DEF UpdateJob
  <2>3. StoreInv(v) /\ Grows(w, v) /\ Fixed(w, v, t) /\ NewDone(w, v)
    BY <2>1, ReadyStep
  <2> QED BY <2>2, <2>3 DEF Step
<1>2. CASE ~Satisfied(w, Deps(w, t))
  <2>1. t \notin w.ready
    BY <1>2, <1>w DEF ReadyInv, Settled
  <2>2. UpdateJob(w, t) = [w EXCEPT !.ready = w.ready]
    BY <1>2, <2>1 DEF UpdateJob
  <2>3. [w EXCEPT !.ready = w.ready] = w
    BY <1>w DEF Store
  <2> QED BY <2>2, <2>3, StepNone
<1> QED BY <1>1, <1>2

\* A target that is completed with its deps and does nothing else.
LEMMA PlainStep ==
    ASSUME NEW w, StoreInv(w), NEW t \in w.all, t \notin w.completed, t.kind \in {"known", "import", "resource", "test"}
    PROVE  Step(w, Updated(w, t), t)
<1>1. Updated(w, t) = w \/ (Updated(w, t) = Completed(w, t) /\ Satisfied(w, Deps(w, t)))
  <2>1. ASSUME t.kind = "known" PROVE Updated(w, t) = UpdateKnown(w) /\ t = Known
    BY <2>1, TargetShape, StoreTypes DEF Updated, OfItsKind, StoreInv
  <2>2. ASSUME t.kind = "import" PROVE Updated(w, t) = UpdateImport(w, t)
    BY <2>2 DEF Updated
  <2>3. ASSUME t.kind = "resource" PROVE Updated(w, t) = UpdateResource(w, t)
    BY <2>3 DEF Updated
  <2>4. ASSUME t.kind = "test" PROVE Updated(w, t) = UpdateTest(w, t)
    BY <2>4 DEF Updated
  <2>5. Deps(w, Known) = w.first
    BY DepsOf
  <2>6. CASE t.kind = "known"
    BY <2>1, <2>5, <2>6 DEF UpdateKnown
  <2> QED BY <2>2, <2>3, <2>4, <2>6 DEF UpdateImport, UpdateResource, UpdateTest
<1>2. CASE Satisfied(w, Deps(w, t))
  <2>1. Step(w, Completed(w, t), t)
    BY <1>2, CompleteStep
  <2> QED BY <2>1, <1>1, StepNone
<1>3. CASE ~Satisfied(w, Deps(w, t))
  BY <1>1, <1>3, StepNone
<1> QED BY <1>2, <1>3

\* An item is completed with the resource of its provider.
LEMMA UpdateCompleteStep ==
    ASSUME NEW w, StoreInv(w), NEW i \in Item, NEW t, t = Complete(i), t \in w.all, t \notin w.completed
    PROVE  Step(w, UpdateComplete(w, i), t)
<1> DEFINE picked == IF Resolved(i) \in w.completed THEN w.picked \cup {i} ELSE w.picked
<1> DEFINE v == [w EXCEPT !.picked = picked]
<1> DEFINE x == Completed(Adopted(v, t), t)
<1>w. /\ w \in Store /\ ItemsInv(w) /\ ~w.failed /\ t \in Target /\ t.kind = "complete" /\ t.of = i
  BY TargetFields, TargetsExist DEF StoreInv
<1>p. w.picked \subseteq Item
  BY <1>w, StoreTypes
<1>1. /\ v \in Store /\ SameImports(w, v) /\ SameTests(w, v) /\ v.all = w.all /\ v.own = w.own /\ v.needs = w.needs
      /\ v.ready = w.ready /\ v.failed = w.failed /\ v.completed = w.completed
      /\ v.provided = w.provided /\ v.resolved = w.resolved /\ v.items = w.items /\ v.picked = picked
  BY <1>w, <1>p DEF Store, SameImports, SameTests
<1>2. picked = w.picked \/ (picked = w.picked \cup {i} /\ Resolved(i) \in w.completed)
  OBVIOUS
<1>3. v = IF Resolved(i) \in w.completed THEN [w EXCEPT !.picked = @ \cup {i}] ELSE w
  <2>1. CASE Resolved(i) \in w.completed
    BY <2>1
  <2>2. CASE Resolved(i) \notin w.completed
    <3>1. v = [w EXCEPT !.picked = w.picked]
      BY <2>2
    <3> HIDE DEF v
    <3> QED BY <2>2, <3>1, <1>w DEF Store
  <2> QED BY <2>1, <2>2
<1>4. UpdateComplete(w, i) =
        IF i \in v.picked /\ Resource(Provider(v, i)) \in v.completed /\ Satisfied(v, ServiceTarget(w, i))
        THEN x ELSE v
  <2> HIDE DEF v
  <2> QED BY <1>3 DEF UpdateComplete
<1> HIDE DEF v, picked
<1>5. Step(w, v, t)
  <2>1. \/ v.picked = w.picked
        \/ \E j \in Item : t = Complete(j) /\ v.picked = w.picked \cup {j} /\ Resolved(j) \in w.completed
    BY <1>1, <1>2
  <2>2. ~v.failed /\ v.own \in {w.own, w.own \cup {t}} /\ t.kind \notin {"job", "cached"}
    BY <1>1, <1>w
  <2>3. StoreInv(v) /\ Grows(w, v) /\ Fixed(w, v, t) /\ NewDone(w, v)
    BY <1>1, <2>1, <2>2, DoneStep
  <2> QED BY <2>3 DEF Step
<1>6. ASSUME i \in v.picked, Resource(Provider(v, i)) \in v.completed, Satisfied(v, ServiceTarget(w, i))
      PROVE  Step(w, x, t)
  <2> DEFINE a == Adopted(v, t)
  <2>1. /\ a \in Store /\ SameImports(v, a) /\ SameItems(v, a) /\ SameTests(v, a) /\ SameStatus(v, a)
        /\ a.all = v.all \cup {t} /\ a.own = v.own \cup {t} /\ a.needs = v.needs /\ \A s : Needs(a, s) = Needs(v, s)
    BY <1>1, <1>w, AdoptedIs
  <2> HIDE DEF a
  <2>2. /\ x \in Store /\ SameImports(a, x) /\ SameItems(a, x) /\ SameTests(a, x)
        /\ x.all = a.all /\ x.own = a.own /\ x.needs = a.needs /\ x.ready = a.ready /\ x.failed = a.failed
        /\ x.completed = a.completed \cup {t}
    BY <2>1, <1>w, CompletedOnly DEF a
  <2> HIDE DEF x
  <2>3. x.completed = w.completed \cup {t} /\ x.ready = w.ready /\ ~x.failed
    BY <1>1, <2>1, <2>2, <1>w DEF SameStatus
  <2>4. x.all = w.all /\ x.own \in {w.own, w.own \cup {t}} /\ x.needs = w.needs
    BY <1>1, <2>1, <2>2
  <2>5. SameImports(w, x) /\ SameTests(w, x)
    BY <1>1, <2>1, <2>2 DEF SameImports, SameTests
  <2>6. x.provided = w.provided /\ x.resolved = w.resolved /\ x.items = w.items /\ x.picked = v.picked
    BY <1>1, <2>1, <2>2 DEF SameItems
  <2>7. x.code = w.code /\ v.code = w.code
    BY <2>5, <1>1 DEF SameImports
  <2>8. Deps(x, t) = {Resolved(i)} \cup ServiceTarget(w, i) \cup {Resource(Provider(v, i))}
    <3>1. ServiceTarget(x, i) = ServiceTarget(w, i) /\ Provider(x, i) = Provider(v, i)
      BY <2>7 DEF ServiceTarget, Provider
    <3>2. Deps(x, Complete(i)) =
            {Resolved(i)} \cup ServiceTarget(x, i) \cup IF i \in x.picked THEN {Resource(Provider(x, i))} ELSE {}
      BY DepsOf
    <3>3. i \in x.picked
      BY <1>6, <2>6
    <3> QED BY <3>1, <3>2, <3>3
  <2>9. Resolved(i) \in w.completed
    BY <1>6, <1>1, <1>2, <1>w DEF ItemsInv
  <2>10. Satisfied(w, Deps(x, t))
    BY <1>6, <1>1, <2>8, <2>9 DEF Satisfied
  <2>11. \/ x.picked = w.picked
         \/ \E j \in Item : t = Complete(j) /\ x.picked = w.picked \cup {j} /\ Resolved(j) \in w.completed
    BY <1>1, <1>2, <2>6
  <2>12. /\ x.completed = w.completed \cup {t} /\ Satisfied(w, Deps(x, t))
         /\ t.kind = "ready" => t.of \in w.provided
         /\ t.kind = "complete" => t.of \in x.picked
         /\ t.kind \notin {"job", "cached"}
    BY <2>3, <2>10, <2>6, <1>6, <1>w
  <2>13. StoreInv(x) /\ Grows(w, x) /\ Fixed(w, x, t) /\ NewDone(w, x)
    BY <2>2, <2>3, <2>4, <2>5, <2>6, <2>11, <2>12, DoneStep
  <2> QED BY <2>13 DEF Step
<1> HIDE DEF x
<1> QED BY <1>4, <1>5, <1>6

\* The modules whose imports a target has, instead of their resources.
TestedOf(w, t) == IF t.kind = "cached" THEN {} ELSE w.code.tests[t.of]

\* No resource of a tested module is completed before the test is.
LEMMA TestedNotYet ==
    ASSUME NEW w, StoreInv(w), NEW t \in w.all, t \notin w.completed, t.kind \in {"cached", "testjob", "testcached"},
           NEW n \in TestedOf(w, t)
    PROVE  n \in Module /\ Resource(n) \notin w.completed
<1>w. w \in Store /\ ClosedInv(w) /\ SatInv(w) /\ JobsInv(w) /\ TestsInv(w) /\ FoundInv(w) /\ w.code \in Programs
  BY StoreTypes DEF StoreInv
<1>1. t \in Target /\ OfItsKind(t)
  BY <1>w, StoreTypes, TargetShape
<1>2. t.kind \in {"testjob", "testcached"} /\ n \in w.code.tests[t.of]
  BY DEF TestedOf
<1>3. t.of \in Module
  BY <1>1, <1>2 DEF OfItsKind
<1>4. n \in Module
  BY <1>2, <1>3, <1>w, ProgramTypes
<1>5. ASSUME Resource(n) \in w.completed PROVE FALSE
  <2>1. Test(t.of) \in w.completed
    BY <1>2, <1>3, <1>4, <1>5, <1>w, ResourceAfterTests
  <2>2. w.test[t.of] \in w.completed
    BY <2>1, <1>3, <1>w, Below
  <2>3. ASSUME t.kind = "testjob" PROVE w.test[t.of] = t
    <3>1. t.idx \in 1 .. MaxJobs /\ t = TestJob(t.of, t.idx)
      BY <2>3, <1>1 DEF OfItsKind
    <3>2. /\ w.test[t.of].kind = "testjob" /\ t.idx <= w.test[t.of].idx
          /\ t.idx < w.test[t.of].idx => t \in w.completed
      BY <3>1, <1>3, <1>w DEF TestsInv
    <3>3. w.test[t.of] \in {NoTarget, TestCached(t.of)} \cup {TestJob(t.of, k) : k \in 1 .. MaxJobs}
      BY <1>3, <1>w DEF TestsInv
    <3>4. PICK k \in 1 .. MaxJobs : w.test[t.of] = TestJob(t.of, k)
      BY <3>2, <3>3, TargetFields
    <3>5. k = w.test[t.of].idx
      BY <3>4, TargetFields
    <3>6. k = t.idx
      BY <3>1, <3>2, <3>5, OrderAssumption
    <3> QED BY <3>1, <3>4, <3>6
  <2>4. ASSUME t.kind = "testcached" PROVE w.test[t.of] = t
    <3>1. t = TestCached(t.of)
      BY <2>4, <1>1 DEF OfItsKind
    <3> QED BY <3>1, <1>3, <1>w DEF TestsInv
  <2> QED BY <1>2, <2>2, <2>3, <2>4
<1> QED BY <1>4, <1>5

\* When all that a target waits for is completed, its requirements are resolved again
\* to the same targets or to later ones.
LEMMA ResolvedLater ==
    ASSUME NEW w, StoreInv(w), NEW t \in w.all, t \notin w.completed, t.kind \in {"cached", "testjob", "testcached"},
           Satisfied(w, Deps(w, t)), NEW tested, tested = TestedOf(w, t), NEW r \in DOMAIN Needs(w, t)
    PROVE  Later(r, Needs(w, t)[r], TargetIn(w, tested, r))
<1> DEFINE s == Needs(w, t)[r]
<1>w. w \in Store /\ ClosedInv(w) /\ SatInv(w) /\ ItemsInv(w) /\ NeedsExist(w) /\ w.code \in Programs
  BY StoreTypes DEF StoreInv, ClosedInv
<1>1. /\ r \in Module \/ r \in Item
      /\ r \in Module => s \in {Import(r), Resource(r)}
      /\ r \in Item => s \in {Resolved(r), Complete(r)}
  BY <1>w, NeedsAre
<1>2. s \in w.completed
  <2>1. s \in Range(Needs(w, t))
    BY DEF Range
  <2>2. Range(Needs(w, t)) \subseteq Deps(w, t)
    BY DepsOfJobs
  <2> QED BY <2>1, <2>2 DEF Satisfied
<1> HIDE DEF s
<1>3. ASSUME r \in Module PROVE Later(r, s, TargetIn(w, tested, r))
  <2>1. r \in tested => s = Import(r)
    BY <1>1, <1>2, <1>3, TestedNotYet
  <2>2. TargetIn(w, tested, r) = IF r \in tested THEN Import(r) ELSE Resource(r)
    BY <1>3 DEF TargetIn
  <2> QED BY <2>1, <2>2, <1>1, <1>3 DEF Later
<1>4. ASSUME r \in Item PROVE Later(r, s, TargetIn(w, tested, r))
  <2>1. r \notin Module
    BY <1>4, TargetAssumption
  <2>t. \A n \in tested : n \in Module /\ Resource(n) \notin w.completed
    BY TestedNotYet
  <2>2. TargetIn(w, tested, r) = IF r \in w.code.actors /\ (Resolved(r) \notin w.completed \/ Provider(w, r) \in tested)
                                 THEN Resolved(r) ELSE Complete(r)
    BY <2>1, <2>t DEF TargetIn
  <2>3. ASSUME s = Complete(r) PROVE TargetIn(w, tested, r) = Complete(r)
    <3>1. Complete(r) \in w.completed /\ r \in w.picked
      BY <2>3, <1>2, <1>4, <1>w DEF ItemsInv
    <3>2. Resolved(r) \in w.completed
      BY <3>1, <1>w DEF ItemsInv
    <3>3. Resource(Provider(w, r)) \in Deps(w, Complete(r))
      BY <3>1, DepsOf
    <3>4. Resource(Provider(w, r)) \in w.completed
      BY <3>1, <3>3, <1>w DEF SatInv, Satisfied
    <3>5. Provider(w, r) \notin tested
      BY <3>4, <2>t
    <3> QED BY <2>2, <3>2, <3>5
  <2>4. TargetIn(w, tested, r) \in {Resolved(r), Complete(r)}
    BY <2>2
  <2> QED BY <1>1, <1>4, <2>3, <2>4 DEF Later
<1>5. Later(r, s, TargetIn(w, tested, r))
  BY <1>1, <1>3, <1>4
<1> QED BY <1>5 DEF s

\* The targets of some requirements exist.
TargetsThere(w, reqs) == \A r \in reqs : TargetsFor(w, r) \subseteq w.all

\* The requirements of a target, resolved again.
Again(w, t, tested) == WithNeeds(WithTargets(w, DOMAIN Needs(w, t)), t, ResolveIn(w, tested, DOMAIN Needs(w, t)))

\* What that changes.
AgainIs(w, v, t, tested) ==
    /\ v.completed = w.completed /\ v.ready = w.ready /\ v.resolved = w.resolved /\ SameImports(w, v)
    /\ SameTests(w, v) /\ v \in Store
    /\ DOMAIN Needs(v, t) = DOMAIN Needs(w, t)
    /\ \A r \in DOMAIN Needs(v, t) : Needs(v, t)[r] = TargetIn(v, tested, r)
    /\ TargetsThere(v, DOMAIN Needs(v, t))

\* Requirements are resolved again only when all that was waited for is completed.
LEMMA AgainStep ==
    ASSUME NEW w, StoreInv(w), NEW t \in w.all, t \notin w.completed, t.kind \in {"cached", "testjob", "testcached"},
           Satisfied(w, Deps(w, t)), NEW tested, tested = TestedOf(w, t)
    PROVE  LET v == Again(w, t, tested) IN Step(w, v, t) /\ AgainIs(w, v, t, tested)
<1> DEFINE reqs == DOMAIN Needs(w, t)
<1> DEFINE b == WithTargets(w, reqs)
<1> DEFINE needs == ResolveIn(w, tested, reqs)
<1> DEFINE v == WithNeeds(b, t, needs)
<1>w. w \in Store /\ t \in Target
  BY StoreTypes DEF StoreInv
<1>r. reqs \in SUBSET (Module \cup Item)
  BY <1>w, NeedsTypes
<1>t. tested \in SUBSET Module
  <2>1. \A n \in tested : n \in Module
    BY TestedNotYet
  <2> QED BY <2>1
<1>b. b = WithTargets(w, reqs)
  OBVIOUS
<1>1. /\ StoreInv(b) /\ b \in Store /\ SameImports(w, b) /\ SameItems(w, b) /\ SameTests(w, b) /\ SameStatus(w, b)
      /\ b.all = w.all \cup UNION {TargetsFor(w, r) : r \in reqs}
      /\ b.needs = w.needs /\ \A s : Needs(b, s) = Needs(w, s)
      /\ Satisfied(b, Deps(b, t))
  BY <1>r, TargetsBase
<1>2. /\ ResolveIn(b, tested, reqs) = needs /\ needs \in NeedMaps /\ DOMAIN needs = reqs
      /\ GoodNeeds(b, needs) /\ \A r \in reqs : needs[r] = TargetIn(w, tested, r)
  <2>1. reqs \in SUBSET reqs
    OBVIOUS
  <2> HIDE DEF b, needs
  <2>2. /\ ResolveIn(b, tested, reqs) = ResolveIn(w, tested, reqs)
        /\ ResolveIn(w, tested, reqs) \in NeedMaps /\ DOMAIN ResolveIn(w, tested, reqs) = reqs
        /\ GoodNeeds(b, ResolveIn(w, tested, reqs))
        /\ \A r \in reqs : ResolveIn(w, tested, reqs)[r] = TargetIn(w, tested, r)
    BY <1>r, <1>t, <1>b, <2>1, ResolveInIs
  <2> QED BY <2>2 DEF needs
<1>3. LaterNeeds(Needs(b, t), needs)
  <2>1. \A r \in reqs : Later(r, Needs(w, t)[r], TargetIn(w, tested, r))
    BY ResolvedLater
  <2> HIDE DEF b, needs
  <2> QED BY <2>1, <1>1, <1>2 DEF LaterNeeds
<1>4. t.kind = "testjob" /\ Settled(b, t) => needs = Needs(b, t)
  <2>1. SUFFICES ASSUME t.kind = "testjob", Settled(b, t) PROVE needs = Needs(b, t)
    OBVIOUS
  <2>2. tested = b.code.tests[t.of]
    BY <2>1, <1>1 DEF TestedOf, SameImports
  <2>3. \A r \in reqs : Needs(b, t)[r] = TargetIn(b, tested, r)
    BY <2>1, <2>2, <1>1 DEF Settled
  <2>4. \A r : TargetIn(b, tested, r) = TargetIn(w, tested, r)
    BY <1>1, TargetsForSame DEF SameImports, SameStatus
  <2>5. Needs(b, t) \in NeedMaps
    BY <1>1, NeedsTypes
  <2>6. Needs(b, t) = [r \in reqs |-> Needs(b, t)[r]]
    BY <2>5, <1>1 DEF NeedMaps
  <2>7. needs = [r \in reqs |-> needs[r]]
    BY DEF ResolveIn
  <2> HIDE DEF b, needs
  <2> QED BY <2>3, <2>4, <2>6, <2>7, <1>2
<1>5. t \in b.all /\ t \notin b.completed
  BY <1>1 DEF SameStatus
<1>6. Step(b, v, t)
  <2> HIDE DEF b, needs
  <2>1. StoreInv(v) /\ Grows(b, v) /\ Fixed(b, v, t) /\ NewDone(b, v)
    BY <1>1, <1>2, <1>3, <1>4, <1>5, WithNeedsStep
  <2> QED BY <2>1 DEF Step
<1>7. Step(w, v, t)
  <2> HIDE DEF v
  <2> QED BY <1>r, <1>b, <1>6, AfterTargets
<1>8. /\ v \in Store /\ SameImports(b, v) /\ SameItems(b, v) /\ SameTests(b, v) /\ SameStatus(b, v)
      /\ Needs(v, t) = needs /\ v.all = b.all
  <2> HIDE DEF b, needs
  <2> QED BY <1>1, <1>2, <1>w, WithNeedsIs
<1>9. AgainIs(w, v, t, tested)
  <2> HIDE DEF v, needs, b
  <2>1. \A r : TargetIn(v, tested, r) = TargetIn(w, tested, r)
    BY <1>1, <1>8, TargetsForSame DEF SameImports, SameStatus
  <2>2. v.completed = w.completed /\ v.ready = w.ready /\ v.resolved = w.resolved /\ SameImports(w, v) /\ SameTests(w, v)
    BY <1>1, <1>8 DEF SameStatus, SameItems, SameImports, SameTests
  <2>3. \A r : TargetsFor(v, r) = TargetsFor(w, r)
    BY <1>1, <1>8, TargetsForSame DEF SameImports, SameStatus
  <2>4. TargetsThere(v, reqs)
    BY <1>1, <1>8, <2>3 DEF TargetsThere
  <2> QED BY <1>2, <1>8, <2>1, <2>2, <2>4 DEF AgainIs
<1> QED BY <1>7, <1>9 DEF Again

\* A target that an update has not completed has something to wait for.
Waits(v, t) == t \in v.completed \/ ~Satisfied(v, Deps(v, t))

\* A cached target, at its first update after what it waits for.
LEMMA UpdateCachedStep ==
    ASSUME NEW w, StoreInv(w), NEW m \in Module, NEW t, t = Cached(m), t \in w.all, t \notin w.completed
    PROVE  Step(w, UpdateCached(w, m), t) /\ Waits(UpdateCached(w, m), t)
<1> DEFINE x == Again(w, t, {})
<1> DEFINE reqs == DOMAIN Needs(w, t)
<1> DEFINE y == Completed(x, t)
<1>w. w \in Store /\ JobsInv(w) /\ t.kind = "cached" /\ t \in Target
  BY StoreTypes, TargetFields DEF StoreInv
<1>r. reqs \in SUBSET (Module \cup Item)
  BY <1>w, NeedsTypes
<1>1. x = WithNeeds(WithTargets(w, reqs), t, Resolve(WithTargets(w, reqs), reqs))
  <2>1. LET b == WithTargets(w, reqs) IN b.code = w.code /\ b.completed = w.completed
    BY <1>w, <1>r, WithTargetsIs DEF SameImports, SameStatus
  <2>2. Resolve(WithTargets(w, reqs), reqs) = Resolve(w, reqs)
    BY <2>1, TargetsForSame
  <2> QED BY <2>2 DEF Again, Resolve
<1>2. UpdateCached(w, m) =
        IF ~Satisfied(w, Deps(w, t)) THEN w
        ELSE IF ~Satisfied(x, Deps(x, t)) THEN x
        ELSE IF m \in w.cache.stale THEN WithJob(y, m, 1, Needs(x, t))
        ELSE UseResult(y, m, reqs)
  <2> HIDE DEF x
  <2> QED BY <1>1 DEF UpdateCached
<1>3. ASSUME ~Satisfied(w, Deps(w, t)) PROVE Step(w, UpdateCached(w, m), t) /\ Waits(UpdateCached(w, m), t)
  <2>1. UpdateCached(w, m) = w
    BY <1>2, <1>3
  <2> QED BY <1>3, <2>1, StepNone DEF Waits
<1>4. ASSUME Satisfied(w, Deps(w, t)) PROVE Step(w, UpdateCached(w, m), t) /\ Waits(UpdateCached(w, m), t)
  <2>1. Step(w, x, t) /\ AgainIs(w, x, t, {})
    <3>1. TestedOf(w, t) = {}
      BY <1>w DEF TestedOf
    <3> QED BY <3>1, <1>4, <1>w, AgainStep
  <2> HIDE DEF x
  <2>2. /\ x \in Store /\ x.completed = w.completed /\ x.resolved = w.resolved /\ SameImports(w, x)
        /\ DOMAIN Needs(x, t) = reqs
    BY <2>1 DEF AgainIs
  <2>3. StoreInv(x) /\ t \in x.all
    BY <2>1 DEF Step, Grows
  <2>4. x.job[m] = t
    <3>1. w.job[m] = t
      BY <1>w DEF JobsInv
    <3> QED BY <3>1, <2>2 DEF SameImports
  <2>5. ASSUME ~Satisfied(x, Deps(x, t)) PROVE Step(w, UpdateCached(w, m), t) /\ Waits(UpdateCached(w, m), t)
    BY <2>1, <2>5, <1>2, <1>4 DEF Waits
  <2>6. ASSUME Satisfied(x, Deps(x, t)), m \in w.cache.stale PROVE Step(w, UpdateCached(w, m), t) /\ Waits(UpdateCached(w, m), t)
    <3>1. /\ y \in Store /\ SameImports(x, y) /\ SameItems(x, y) /\ SameTests(x, y)
          /\ y.all = x.all /\ y.own = x.own /\ y.needs = x.needs /\ y.ready = x.ready /\ y.failed = x.failed
          /\ y.completed = x.completed \cup {t}
      BY <2>2, <1>w, CompletedOnly
    <3>2. ~y.failed /\ y.test = x.test /\ y.testedBy = x.testedBy /\ y.testsImports = x.testsImports
      BY <2>3, <3>1 DEF StoreInv, SameTests
    <3> DEFINE needs == Needs(x, t)
    <3>3. needs \in NeedMaps /\ GoodNeeds(x, needs)
      <4>1. NeedsExist(x)
        BY <2>3 DEF StoreInv, ClosedInv
      <4> QED BY <4>1, <2>2, NeedsTypes, NeedsAre DEF GoodNeeds
    <3> DEFINE one == 1
    <3>4. one \in 1 .. MaxJobs /\ one = IF t.kind = "cached" THEN 1 ELSE t.idx + 1
      BY <1>w, OrderAssumption
    <3>5. t \notin x.completed
      BY <2>2
    <3>6. UpdateCached(w, m) = WithJob(y, m, one, needs)
      BY <1>2, <1>4, <2>6
    <3> HIDE DEF y, needs, one
    <3>7. Step(x, WithJob(y, m, one, needs), t)
      BY <2>3, <2>4, <2>6, <3>1, <3>2, <3>3, <3>4, <3>5, <1>w, NextJob
    <3>8. Step(w, WithJob(y, m, one, needs), t)
      BY <2>1, <2>2, <3>7, StepTrans
    <3>9. t \in WithJob(y, m, one, needs).completed
      <4>1. SameStatus(y, WithJob(y, m, one, needs))
        BY <3>1, <3>3, <3>4, WithJobIs
      <4> QED BY <3>1, <4>1 DEF SameStatus
    <3> QED BY <3>6, <3>8, <3>9 DEF Waits
  <2>7. ASSUME Satisfied(x, Deps(x, t)), m \notin w.cache.stale PROVE Step(w, UpdateCached(w, m), t) /\ Waits(UpdateCached(w, m), t)
    <3>1. Done(x, UseResult(Completed(x, t), m, reqs), t)
      BY <1>r, <2>2, <2>3, <2>4, <2>7, UseResultStep
    <3>2. UpdateCached(w, m) = UseResult(Completed(x, t), m, reqs)
      BY <1>2, <1>4, <2>7
    <3> QED BY <2>1, <2>2, <3>1, <3>2, StepTrans DEF Done, Waits
  <2> QED BY <2>5, <2>6, <2>7
<1> QED BY <1>3, <1>4

\* The test that is not completed is the one its module is at.
LEMMA TestAt ==
    ASSUME NEW w, StoreInv(w), NEW t \in w.all, t \notin w.completed, t.kind \in {"testjob", "testcached"}
    PROVE  /\ t.of \in Module /\ w.test[t.of] = t /\ t # NoTarget /\ t \in Target
           /\ t.kind = "testjob" => t.idx \in 1 .. MaxJobs
<1>w. w \in Store /\ TestsInv(w)
  BY DEF StoreInv
<1>1. t \in Target /\ OfItsKind(t)
  BY <1>w, StoreTypes, TargetShape
<1>2. t.of \in Module /\ t # NoTarget
  BY <1>1, TargetsExist DEF OfItsKind
<1>3. ASSUME t.kind = "testjob" PROVE w.test[t.of] = t /\ t.idx \in 1 .. MaxJobs
  <2>1. t.idx \in 1 .. MaxJobs /\ t = TestJob(t.of, t.idx)
    BY <1>3, <1>1 DEF OfItsKind
  <2>2. /\ w.test[t.of].kind = "testjob" /\ t.idx <= w.test[t.of].idx
        /\ t.idx < w.test[t.of].idx => t \in w.completed
    BY <2>1, <1>2, <1>w DEF TestsInv
  <2>3. w.test[t.of] \in {NoTarget, TestCached(t.of)} \cup {TestJob(t.of, k) : k \in 1 .. MaxJobs}
    BY <1>2, <1>w DEF TestsInv
  <2>4. PICK k \in 1 .. MaxJobs : w.test[t.of] = TestJob(t.of, k)
    BY <2>2, <2>3, TargetFields
  <2>5. k = w.test[t.of].idx
    BY <2>4, TargetFields
  <2>6. k = t.idx
    BY <2>1, <2>2, <2>5, OrderAssumption
  <2> QED BY <2>1, <2>4, <2>6
<1>4. ASSUME t.kind = "testcached" PROVE w.test[t.of] = t
  <2>1. t = TestCached(t.of)
    BY <1>4, <1>1 DEF OfItsKind
  <2> QED BY <2>1, <1>2, <1>w DEF TestsInv
<1> QED BY <1>1, <1>2, <1>3, <1>4

\* The result of a test adds nothing that is not there.
LEMMA TestResultIs ==
    ASSUME NEW w, StoreInv(w), NEW t \in w.all, t \notin w.completed, t.kind \in {"testjob", "testcached"}
    PROVE  UseTestResult(Completed(w, t), t.of) = Completed(w, t)
<1> DEFINE y == Completed(w, t)
<1>w. w \in Store /\ t \in Target /\ ~w.failed
  BY StoreTypes DEF StoreInv
<1>1. y \in Store /\ y.failed = w.failed /\ y.completed = w.completed \cup {t} /\ y.code = w.code
  BY <1>w, CompletedOnly DEF SameImports
<1> HIDE DEF y
<1>2. TestedOf(w, t) = w.code.tests[t.of]
  BY DEF TestedOf
<1>3. ASSUME NEW n \in w.code.tests[t.of] PROVE Resource(n) \notin y.completed
  <2>1. Resource(n) \notin w.completed
    BY <1>2, TestedNotYet
  <2>2. Resource(n) # t
    BY TargetFields
  <2> QED BY <2>1, <2>2, <1>1
<1>4. Asserted(y, w.code.tests[t.of]) = y
  BY <1>1, <1>3, <1>w, AssertedIs
<1>5. UseTestResult(y, t.of) = Asserted(y, y.code.tests[t.of])
  BY DEF UseTestResult
<1> QED BY <1>1, <1>4, <1>5 DEF y

\* A test with a cached result, at its first update after what it waits for.
LEMMA UpdateTestCachedStep ==
    ASSUME NEW w, StoreInv(w), NEW t \in w.all, t \notin w.completed, t.kind = "testcached"
    PROVE  Step(w, UpdateTestCached(w, t), t) /\ Waits(UpdateTestCached(w, t), t)
<1> DEFINE m == t.of
<1> DEFINE tested == w.code.tests[m]
<1> DEFINE x == Again(w, t, tested)
<1> DEFINE reqs == DOMAIN Needs(w, t)
<1> DEFINE y == Completed(x, t)
<1>w. w \in Store /\ m \in Module /\ t \in Target /\ w.test[m] = t /\ t # NoTarget
  BY TestAt DEF StoreInv
<1>r. reqs \in SUBSET (Module \cup Item)
  BY <1>w, NeedsTypes
<1>1. x = WithNeeds(WithTargets(w, reqs), t, ResolveIn(WithTargets(w, reqs), tested, reqs))
  <2>1. LET b == WithTargets(w, reqs) IN b.code = w.code /\ b.completed = w.completed
    BY <1>w, <1>r, WithTargetsIs DEF SameImports, SameStatus
  <2>2. ResolveIn(WithTargets(w, reqs), tested, reqs) = ResolveIn(w, tested, reqs)
    BY <2>1, TargetsForSame
  <2> QED BY <2>2 DEF Again
<1>2. UpdateTestCached(w, t) =
        IF ~Satisfied(w, Deps(w, t)) THEN w
        ELSE IF ~Satisfied(x, Deps(x, t)) THEN x
        ELSE IF m \in w.cache.staleTests THEN WithTestJob(y, m, 1, Needs(w, Test(m)))
        ELSE UseTestResult(y, m)
  <2>1. LET b == WithTargets(w, reqs) IN b.code = w.code
    BY <1>w, <1>r, WithTargetsIs DEF SameImports
  <2> HIDE DEF x
  <2> QED BY <1>1, <2>1 DEF UpdateTestCached
<1>3. ASSUME ~Satisfied(w, Deps(w, t)) PROVE Step(w, UpdateTestCached(w, t), t) /\ Waits(UpdateTestCached(w, t), t)
  <2>1. UpdateTestCached(w, t) = w
    BY <1>2, <1>3
  <2> QED BY <1>3, <2>1, StepNone DEF Waits
<1>4. ASSUME Satisfied(w, Deps(w, t)) PROVE Step(w, UpdateTestCached(w, t), t) /\ Waits(UpdateTestCached(w, t), t)
  <2>1. Step(w, x, t) /\ AgainIs(w, x, t, tested)
    <3>1. TestedOf(w, t) = tested
      BY DEF TestedOf
    <3> QED BY <3>1, <1>4, <1>w, AgainStep
  <2> HIDE DEF x
  <2>2. /\ x \in Store /\ x.completed = w.completed /\ x.resolved = w.resolved /\ SameImports(w, x) /\ x.test = w.test
    BY <2>1 DEF AgainIs, SameTests
  <2>3. StoreInv(x) /\ t \in x.all /\ t \notin x.completed
    BY <2>1, <2>2 DEF Step, Grows
  <2>4. x.test[m] = t
    BY <2>2, <1>w
  <2>5. ASSUME ~Satisfied(x, Deps(x, t)) PROVE Step(w, UpdateTestCached(w, t), t) /\ Waits(UpdateTestCached(w, t), t)
    BY <2>1, <2>5, <1>2, <1>4 DEF Waits
  <2>6. ASSUME Satisfied(x, Deps(x, t)), m \in w.cache.staleTests
        PROVE  Step(w, UpdateTestCached(w, t), t) /\ Waits(UpdateTestCached(w, t), t)
    <3>1. /\ y \in Store /\ SameImports(x, y) /\ SameItems(x, y) /\ SameTests(x, y)
          /\ y.all = x.all /\ y.own = x.own /\ y.needs = x.needs /\ y.ready = x.ready /\ y.failed = x.failed
          /\ y.completed = x.completed \cup {t}
      BY <2>2, <1>w, CompletedOnly
    <3>2. ~y.failed
      BY <2>3, <3>1 DEF StoreInv
    <3> DEFINE needs == Needs(w, Test(m))
    <3>3. needs \in NeedMaps /\ GoodNeeds(x, needs)
      <4>1. NeedsExist(w)
        BY DEF StoreInv, ClosedInv
      <4>2. w.all \subseteq x.all /\ w.own \subseteq x.own
        BY <2>1 DEF Step, Grows
      <4> QED BY <4>1, <4>2, <1>w, NeedsTypes, NeedsAre DEF GoodNeeds
    <3> DEFINE one == 1
    <3>4. one \in 1 .. MaxJobs /\ one = IF t.kind = "testcached" THEN 1 ELSE t.idx + 1
      BY OrderAssumption
    <3>6. UpdateTestCached(w, t) = WithTestJob(y, m, one, needs)
      BY <1>2, <1>4, <2>6
    <3> HIDE DEF y, needs, one, m
    <3>7. Step(x, WithTestJob(y, m, one, needs), t)
      BY <2>3, <2>4, <2>6, <3>1, <3>2, <3>3, <3>4, <1>w, NextTestJob
    <3>8. Step(w, WithTestJob(y, m, one, needs), t)
      BY <2>1, <2>2, <3>7, StepTrans
    <3>9. t \in WithTestJob(y, m, one, needs).completed
      <4>1. m \in Module
        BY <1>w DEF m
      <4>2. SameStatus(y, WithTestJob(y, m, one, needs))
        BY <3>1, <3>3, <3>4, <4>1, WithTestJobIs
      <4> QED BY <3>1, <4>2 DEF SameStatus
    <3> QED BY <3>6, <3>8, <3>9 DEF Waits
  <2>7. ASSUME Satisfied(x, Deps(x, t)), m \notin w.cache.staleTests
        PROVE  Step(w, UpdateTestCached(w, t), t) /\ Waits(UpdateTestCached(w, t), t)
    <3>1. Step(x, Completed(x, t), t)
      BY <2>3, <2>7, CompleteStep
    <3>2. UseTestResult(Completed(x, t), m) = Completed(x, t)
      BY <2>3, TestResultIs
    <3>3. UpdateTestCached(w, t) = Completed(x, t)
      BY <1>2, <1>4, <2>7, <3>2
    <3>4. t \in Completed(x, t).completed
      BY <2>2 DEF Completed, Store
    <3> QED BY <2>1, <2>2, <3>1, <3>3, <3>4, StepTrans DEF Waits
  <2> QED BY <2>5, <2>6, <2>7
<1> QED BY <1>3, <1>4

\* What a test takes over is added to what it waits for.
LEMMA AddedNeeds ==
    ASSUME NEW v, StoreInv(v), NEW t \in v.all, NEW more \in NeedMaps, GoodNeeds(v, more)
    PROVE  LET needs == Joined(Needs(v, t), more) IN
           /\ needs \in NeedMaps /\ GoodNeeds(v, needs) /\ LaterNeeds(Needs(v, t), needs)
           /\ DOMAIN needs = DOMAIN Needs(v, t) \cup DOMAIN more
           /\ DOMAIN more \subseteq DOMAIN Needs(v, t) => needs = Needs(v, t)
<1> DEFINE f == Needs(v, t)
<1> DEFINE needs == Joined(f, more)
<1>w. v \in Store /\ NeedsExist(v)
  BY DEF StoreInv, ClosedInv
<1>1. /\ f \in NeedMaps /\ DOMAIN f \subseteq Module \cup Item /\ \A r \in DOMAIN f : f[r] \in Target
  BY <1>w, NeedsTypes
<1>2. GoodNeeds(v, f)
  BY <1>w, NeedsAre DEF GoodNeeds
<1> HIDE DEF f
<1>3. needs = [r \in DOMAIN f \cup DOMAIN more |-> IF r \in DOMAIN f THEN f[r] ELSE more[r]]
  BY DEF Joined
<1>4. DOMAIN more \subseteq Module \cup Item /\ \A r \in DOMAIN more : more[r] \in Target
  BY DEF NeedMaps
<1> HIDE DEF needs
<1>5. DOMAIN needs = DOMAIN f \cup DOMAIN more
  BY <1>3
<1>6. \A r \in DOMAIN needs : needs[r] = IF r \in DOMAIN f THEN f[r] ELSE more[r]
  BY <1>3
<1>7. needs \in NeedMaps
  <2>1. needs \in [DOMAIN f \cup DOMAIN more -> Target]
    BY <1>1, <1>3, <1>4
  <2> QED BY <2>1, <1>1, <1>4, NeedMapsAre
<1>8. GoodNeeds(v, needs)
  BY <1>2, <1>5, <1>6 DEF GoodNeeds
<1>9. LaterNeeds(f, needs)
  BY <1>5, <1>6 DEF LaterNeeds, Later
<1>10. DOMAIN more \subseteq DOMAIN f => needs = f
  BY <1>1, <1>3 DEF NeedMaps
<1> QED BY <1>5, <1>7, <1>8, <1>9, <1>10 DEF f, needs

\* A test job that an update leaves as it is: it has what it can take over, and it is
\* ready when it has nothing to wait for.
CalmTestJob(w, t) ==
    /\ PickedReqs(w, t) \subseteq DOMAIN Needs(w, t) /\ TargetsThere(w, PickedReqs(w, t))
    /\ Satisfied(w, Deps(w, t)) => /\ Settled(w, t) /\ t \in w.ready
                                   /\ TargetsThere(w, DOMAIN Needs(w, t))

\* A test job, at an update.
LEMMA UpdateTestJobStep ==
    ASSUME NEW w, StoreInv(w), NEW t \in w.all, t \notin w.completed, t.kind = "testjob"
    PROVE  /\ Step(w, UpdateTestJob(w, t), t) /\ UpdateTestJob(w, t).completed = w.completed
           /\ CalmTestJob(UpdateTestJob(w, t), t)
<1> DEFINE tested == w.code.tests[t.of]
<1> DEFINE picked == PickedReqs(w, t)
<1> DEFINE v == WithTargets(w, picked)
<1> DEFINE more == ResolveIn(v, tested, picked)
<1> DEFINE needs == Joined(Needs(w, t), more)
<1> DEFINE x == WithNeeds(v, t, needs)
<1> DEFINE reqs == DOMAIN Needs(x, t)
<1> DEFINE z == WithNeeds(WithTargets(x, reqs), t, ResolveIn(WithTargets(x, reqs), tested, reqs))
<1>w. w \in Store /\ w.code \in Programs /\ t \in Target /\ t.of \in Module /\ t.kind \notin {"job", "cached"}
  BY TestAt, StoreTypes DEF StoreInv
<1>p. picked \in SUBSET (Module \cup Item)
  <2>1. Helpers(w, t.of) \subseteq Module
    BY <1>w, ProgramTypes DEF Helpers
  <2> QED BY <2>1, <1>w, ProgramTypes DEF PickedReqs
<1>t. tested \in SUBSET Module
  BY <1>w, ProgramTypes
<1>0. UpdateTestJob(w, t) =
        IF ~Satisfied(x, Deps(x, t)) THEN x
        ELSE [z EXCEPT !.ready = IF Satisfied(z, Deps(z, t)) THEN @ \cup {t} ELSE @ \ {t}]
  BY DEF UpdateTestJob, PickedReqs
<1>v. v = WithTargets(w, picked)
  OBVIOUS
<1>m. more = ResolveIn(v, tested, picked)
  OBVIOUS
<1>n. needs = Joined(Needs(w, t), more)
  OBVIOUS
<1>x. x = WithNeeds(v, t, needs)
  OBVIOUS
<1>z. z = WithNeeds(WithTargets(x, reqs), t, ResolveIn(WithTargets(x, reqs), tested, reqs))
  OBVIOUS
<1> HIDE DEF v, more, needs, x, z
<1>1. /\ v \in Store /\ SameImports(w, v) /\ SameItems(w, v) /\ SameTests(w, v) /\ SameStatus(w, v)
      /\ v.needs = w.needs /\ \A s : Needs(v, s) = Needs(w, s)
  BY <1>w, <1>p, <1>v, WithTargetsIs
<1>2. StoreInv(v) /\ Grows(w, v)
  BY <1>p, <1>v, WithTargetsStep
<1>3. more \in NeedMaps /\ DOMAIN more = picked /\ GoodNeeds(v, more)
  <2>1. picked \in SUBSET picked
    OBVIOUS
  <2> HIDE DEF tested, picked
  <2>2. /\ ResolveIn(v, tested, picked) = ResolveIn(w, tested, picked)
        /\ ResolveIn(w, tested, picked) \in NeedMaps /\ DOMAIN ResolveIn(w, tested, picked) = picked
        /\ GoodNeeds(v, ResolveIn(w, tested, picked))
    BY <1>p, <1>t, <1>v, <2>1, ResolveInIs
  <2> QED BY <2>2, <1>m
<1>4. t \in v.all /\ t \notin v.completed
  BY <1>1, <1>2 DEF Grows, SameStatus
<1>5. /\ needs \in NeedMaps /\ GoodNeeds(v, needs) /\ LaterNeeds(Needs(v, t), needs)
      /\ DOMAIN needs = DOMAIN Needs(v, t) \cup picked
      /\ picked \subseteq DOMAIN Needs(v, t) => needs = Needs(v, t)
  <2>1. needs = Joined(Needs(v, t), more)
    BY <1>1, <1>n
  <2> HIDE DEF picked
  <2> QED BY <2>1, <1>2, <1>3, <1>4, AddedNeeds
<1>6. Settled(v, t) => needs = Needs(v, t)
  <2>1. SUFFICES ASSUME Settled(v, t) PROVE needs = Needs(v, t)
    OBVIOUS
  <2>2. PickedReqs(v, t) = picked
    BY <1>1 DEF PickedReqs, Helpers, SameImports, SameStatus
  <2>3. picked \subseteq DOMAIN Needs(v, t)
    BY <2>1, <2>2 DEF Settled
  <2> QED BY <2>3, <1>5
<1>7. Step(w, x, t)
  <2>1. StoreInv(x) /\ Grows(v, x) /\ Fixed(v, x, t) /\ NewDone(v, x)
    BY <1>2, <1>4, <1>5, <1>6, <1>x, WithNeedsStep
  <2>2. Step(v, x, t)
    BY <2>1 DEF Step
  <2> HIDE DEF picked
  <2> QED BY <2>2, <1>p, <1>v, AfterTargets
<1>8. /\ x \in Store /\ SameImports(v, x) /\ SameItems(v, x) /\ SameTests(v, x) /\ SameStatus(v, x)
      /\ Needs(x, t) = needs
  BY <1>1, <1>5, <1>w, <1>x, WithNeedsIs
<1>9. SameImports(w, x) /\ x.completed = w.completed /\ x.resolved = w.resolved /\ x.ready = w.ready
  BY <1>1, <1>8 DEF SameImports, SameStatus, SameItems
<1>10. StoreInv(x) /\ t \in x.all /\ t \notin x.completed
  BY <1>7, <1>9 DEF Step, Grows
<1>a. PickedReqs(x, t) = picked /\ picked \subseteq DOMAIN Needs(x, t)
  BY <1>5, <1>8, <1>9 DEF PickedReqs, Helpers, SameImports
<1>b. TargetsThere(x, picked)
  <2>1. v.all = w.all \cup UNION {TargetsFor(w, r) : r \in picked}
    BY <1>w, <1>p, <1>v, WithTargetsIs
  <2>2. x.all = v.all
    BY <1>1, <1>5, <1>w, <1>x, WithNeedsIs
  <2>3. \A r : TargetsFor(x, r) = TargetsFor(w, r)
    BY <1>9, TargetsForSame DEF SameImports
  <2> HIDE DEF picked
  <2> QED BY <2>1, <2>2, <2>3 DEF TargetsThere
<1>11. ASSUME ~Satisfied(x, Deps(x, t))
       PROVE  Step(w, UpdateTestJob(w, t), t) /\ UpdateTestJob(w, t).completed = w.completed /\ CalmTestJob(UpdateTestJob(w, t), t)
  <2>1. UpdateTestJob(w, t) = x
    BY <1>0, <1>11
  <2> HIDE DEF picked
  <2>2. CalmTestJob(x, t)
    BY <1>a, <1>b, <1>11 DEF CalmTestJob
  <2> QED BY <2>1, <2>2, <1>7, <1>9
<1>12. ASSUME Satisfied(x, Deps(x, t))
       PROVE  Step(w, UpdateTestJob(w, t), t) /\ UpdateTestJob(w, t).completed = w.completed /\ CalmTestJob(UpdateTestJob(w, t), t)
  <2>1. x.code.tests = w.code.tests
    BY <1>9 DEF SameImports
  <2>2. z = Again(x, t, tested)
    <3>1. reqs \in SUBSET (Module \cup Item)
      BY <1>8, NeedsTypes
    <3>2. LET b == WithTargets(x, reqs) IN b.code = x.code /\ b.completed = x.completed
      BY <3>1, <1>8, WithTargetsIs DEF SameImports, SameStatus
    <3>3. ResolveIn(WithTargets(x, reqs), tested, reqs) = ResolveIn(x, tested, reqs)
      BY <3>2, TargetsForSame
    <3> QED BY <3>3, <1>z DEF Again
  <2>3. tested = TestedOf(x, t)
    BY <2>1 DEF TestedOf
  <2>4. Step(x, z, t) /\ AgainIs(x, z, t, tested)
    <3> HIDE DEF tested
    <3> QED BY <2>2, <2>3, <1>10, <1>12, AgainStep
  <2>5. Step(w, z, t)
    BY <2>4, <1>7, <1>9, StepTrans
  <2>6. StoreInv(z) /\ t \in z.all
    BY <2>5 DEF Step, Grows
  <2>7. z.code = w.code /\ z.completed = w.completed /\ z.resolved = w.resolved /\ z \in Store
    BY <2>4, <1>9 DEF AgainIs, SameImports
  <2>a. PickedReqs(z, t) = picked /\ DOMAIN Needs(z, t) = DOMAIN Needs(x, t)
    BY <2>4, <2>7 DEF PickedReqs, Helpers, AgainIs
  <2>b. picked \subseteq DOMAIN Needs(z, t) /\ TargetsThere(z, DOMAIN Needs(z, t))
    <3> HIDE DEF picked
    <3> QED BY <2>4, <2>a, <1>a DEF AgainIs
  <2>c. TargetsThere(z, picked)
    BY <2>b DEF TargetsThere
  <2>8. ASSUME Satisfied(z, Deps(z, t))
        PROVE  Step(w, UpdateTestJob(w, t), t) /\ UpdateTestJob(w, t).completed = w.completed /\ CalmTestJob(UpdateTestJob(w, t), t)
    <3>1. PickedReqs(z, t) = picked
      BY <2>a
    <3>2. DOMAIN Needs(z, t) = DOMAIN needs
      BY <2>4, <1>8 DEF AgainIs
    <3>3. PickedReqs(z, t) \subseteq DOMAIN Needs(z, t)
      BY <3>1, <3>2, <1>5
    <3>4. \A r \in DOMAIN Needs(z, t) : Needs(z, t)[r] = TargetIn(z, z.code.tests[t.of], r)
      BY <2>4, <2>7 DEF AgainIs
    <3>5. Settled(z, t)
      BY <2>8, <3>3, <3>4 DEF Settled
    <3> DEFINE y == [z EXCEPT !.ready = @ \cup {t}]
    <3>6. UpdateTestJob(w, t) = y
      BY <1>0, <1>12, <2>8
    <3>7. StoreInv(y) /\ Grows(z, y) /\ Fixed(z, y, t) /\ NewDone(z, y)
      BY <2>6, <3>5, ReadyStep
    <3>9. y.completed = z.completed
      BY <2>7 DEF Store
    <3> HIDE DEF y
    <3>8. Step(z, y, t)
      BY <3>7 DEF Step
    <3>10. Step(w, y, t)
      BY <2>5, <2>7, <3>8, StepTrans
    <3>11. t \in y.ready /\ y.all = z.all /\ y.code = z.code /\ Needs(y, t) = Needs(z, t)
      BY <2>7 DEF y, Store, Needs
    <3>12. Settled(y, t)
      BY <3>7, <3>11 DEF StoreInv, ReadyInv
    <3>13. PickedReqs(y, t) = picked
      BY <3>1, <3>9, <3>11 DEF PickedReqs, Helpers
    <3>14. \A r : TargetsFor(y, r) = TargetsFor(z, r)
      BY <3>9, <3>11, TargetsForSame
    <3> HIDE DEF picked
    <3>15. CalmTestJob(y, t)
      BY <2>b, <2>c, <3>11, <3>12, <3>13, <3>14 DEF CalmTestJob, TargetsThere
    <3> QED BY <2>7, <3>6, <3>9, <3>10, <3>15
  <2>9. ASSUME ~Satisfied(z, Deps(z, t))
        PROVE  Step(w, UpdateTestJob(w, t), t) /\ UpdateTestJob(w, t).completed = w.completed /\ CalmTestJob(UpdateTestJob(w, t), t)
    <3>1. t \notin z.ready
      BY <2>6, <2>9 DEF StoreInv, ReadyInv, Settled
    <3>2. UpdateTestJob(w, t) = [z EXCEPT !.ready = z.ready]
      <4>1. z.ready \ {t} = z.ready
        BY <3>1
      <4> QED BY <4>1, <1>0, <1>12, <2>9
    <3>3. [z EXCEPT !.ready = z.ready] = z
      BY <2>7 DEF Store
    <3> HIDE DEF picked
    <3>4. CalmTestJob(z, t)
      BY <2>a, <2>b, <2>c, <2>9 DEF CalmTestJob
    <3> QED BY <3>2, <3>3, <3>4, <2>5, <2>7
  <2> QED BY <2>8, <2>9
<1> QED BY <1>11, <1>12

\* No update completes a job: only its result does.
LEMMA JobNotDone ==
    ASSUME NEW w, StoreInv(w), NEW t \in w.all, t.kind \in {"job", "testjob"}
    PROVE  Updated(w, t).completed = w.completed
<1>w. w \in Store
  BY DEF StoreInv
<1>1. CASE t \in w.completed
  BY <1>1 DEF Updated
<1>2. ASSUME t \notin w.completed, t.kind = "job" PROVE Updated(w, t).completed = w.completed
  <2>1. Updated(w, t) = UpdateJob(w, t)
    BY <1>2 DEF Updated
  <2>2. UpdateJob(w, t).completed = w.completed
    BY <1>w DEF UpdateJob, Store
  <2> QED BY <2>1, <2>2
<1>3. ASSUME t \notin w.completed, t.kind = "testjob" PROVE Updated(w, t).completed = w.completed
  <2>1. Updated(w, t) = UpdateTestJob(w, t)
    BY <1>3 DEF Updated
  <2> QED BY <2>1, <1>3, UpdateTestJobStep
<1> QED BY <1>1, <1>2, <1>3

\* Every update is a step of its target.
LEMMA UpdatedStep ==
    ASSUME NEW w, StoreInv(w), NEW t \in w.all
    PROVE  Step(w, Updated(w, t), t)
<1>w. t \in Target /\ OfItsKind(t)
  BY StoreTypes, TargetShape DEF StoreInv
<1>1. CASE t \in w.completed
  BY <1>1, StepNone DEF Updated
<1>2. ASSUME t \notin w.completed PROVE Step(w, Updated(w, t), t)
  <2>1. CASE t.kind \in {"known", "import", "resource", "test"}
    BY <1>2, <2>1, PlainStep
  <2>2. ASSUME t.kind = "job" PROVE Step(w, Updated(w, t), t)
    <3>1. Updated(w, t) = UpdateJob(w, t)
      BY <1>2, <2>2 DEF Updated
    <3> QED BY <3>1, <2>2, UpdateJobStep
  <2>3. ASSUME t.kind = "cached" PROVE Step(w, Updated(w, t), t)
    <3>1. Updated(w, t) = UpdateCached(w, t.of) /\ t.of \in Module /\ t = Cached(t.of)
      BY <1>2, <2>3, <1>w DEF Updated, OfItsKind
    <3> QED BY <3>1, <1>2, UpdateCachedStep
  <2>4. ASSUME t.kind = "ready" PROVE Step(w, Updated(w, t), t)
    <3>1. Updated(w, t) = UpdateReady(w, t)
      BY <1>2, <2>4 DEF Updated
    <3> QED BY <3>1, <1>2, <2>4, UpdateReadyStep
  <2>5. ASSUME t.kind = "resolved" PROVE Step(w, Updated(w, t), t)
    <3>1. Updated(w, t) = UpdateResolved(w, t.of) /\ t.of \in Item /\ t = Resolved(t.of)
      BY <1>2, <2>5, <1>w DEF Updated, OfItsKind
    <3> QED BY <3>1, <1>2, UpdateResolvedStep
  <2>6. ASSUME t.kind = "complete" PROVE Step(w, Updated(w, t), t)
    <3>1. Updated(w, t) = UpdateComplete(w, t.of) /\ t.of \in Item /\ t = Complete(t.of)
      BY <1>2, <2>6, <1>w DEF Updated, OfItsKind
    <3> QED BY <3>1, <1>2, UpdateCompleteStep
  <2>7. ASSUME t.kind = "testjob" PROVE Step(w, Updated(w, t), t)
    <3>1. Updated(w, t) = UpdateTestJob(w, t)
      BY <1>2, <2>7 DEF Updated
    <3> QED BY <3>1, <1>2, <2>7, UpdateTestJobStep
  <2>8. ASSUME t.kind = "testcached" PROVE Step(w, Updated(w, t), t)
    <3>1. Updated(w, t) = UpdateTestCached(w, t)
      BY <1>2, <2>8 DEF Updated
    <3> QED BY <3>1, <1>2, <2>8, UpdateTestCachedStep
  <2>9. t.kind \in {"known", "import", "job", "cached", "resource", "ready", "resolved", "complete",
                    "test", "testjob", "testcached"}
    BY <1>w DEF OfItsKind
  <2> QED BY <2>1, <2>2, <2>3, <2>4, <2>5, <2>6, <2>7, <2>8, <2>9
<1> QED BY <1>1, <1>2

-----------------------------------------------------------------------------
(* The steps of handle_job_result *)

\* Maps that are joined.
LEMMA JoinedNeeds ==
    ASSUME NEW w, NEW f \in NeedMaps, NEW g \in NeedMaps, GoodNeeds(w, f), GoodNeeds(w, g)
    PROVE  Joined(f, g) \in NeedMaps /\ GoodNeeds(w, Joined(f, g))
<1> DEFINE h == Joined(f, g)
<1>1. h = [r \in DOMAIN f \cup DOMAIN g |-> IF r \in DOMAIN f THEN f[r] ELSE g[r]]
  BY DEF Joined
<1>2. /\ DOMAIN f \subseteq Module \cup Item /\ \A r \in DOMAIN f : f[r] \in Target
      /\ DOMAIN g \subseteq Module \cup Item /\ \A r \in DOMAIN g : g[r] \in Target
  BY DEF NeedMaps
<1> HIDE DEF h
<1>3. h \in NeedMaps
  <2>1. h \in [DOMAIN f \cup DOMAIN g -> Target]
    BY <1>1, <1>2
  <2> QED BY <2>1, <1>2, NeedMapsAre
<1>4. DOMAIN h = DOMAIN f \cup DOMAIN g /\ \A r \in DOMAIN h : h[r] = IF r \in DOMAIN f THEN f[r] ELSE g[r]
  BY <1>1
<1>5. GoodNeeds(w, h)
  BY <1>4 DEF GoodNeeds
<1> QED BY <1>3, <1>5 DEF h

\* The import job that is not completed is the one its module is at.
LEMMA ImportAt ==
    ASSUME NEW w, StoreInv(w), NEW t \in w.all, t \notin w.completed, t.kind = "job"
    PROVE  t.of \in Module /\ t.idx \in 1 .. MaxJobs /\ w.job[t.of] = t /\ t \in Target
<1>w. w \in Store /\ JobsInv(w)
  BY DEF StoreInv
<1>1. t \in Target /\ OfItsKind(t)
  BY <1>w, StoreTypes, TargetShape
<1>2. t.of \in Module /\ t.idx \in 1 .. MaxJobs /\ t = ImportJob(t.of, t.idx)
  BY <1>1 DEF OfItsKind
<1>3. /\ w.job[t.of].kind = "job" /\ t.idx <= w.job[t.of].idx
      /\ t.idx < w.job[t.of].idx => t \in w.completed
  BY <1>2, <1>w DEF JobsInv
<1>4. w.job[t.of] \in {Cached(t.of)} \cup {ImportJob(t.of, k) : k \in 1 .. MaxJobs}
  BY <1>2, <1>w DEF JobsInv
<1>5. PICK k \in 1 .. MaxJobs : w.job[t.of] = ImportJob(t.of, k)
  BY <1>3, <1>4, TargetFields
<1>6. k = w.job[t.of].idx
  BY <1>5, TargetFields
<1>7. k = t.idx
  BY <1>2, <1>3, <1>6, OrderAssumption
<1> QED BY <1>1, <1>2, <1>5, <1>7

\* An incomplete import has a further job.
LEMMA ImportIncompleteStep ==
    ASSUME NEW w, StoreInv(w), NEW t \in w.all, t \notin w.completed, t.kind = "job", Satisfied(w, Deps(w, t)),
           t.idx < MaxJobs, NEW r \in Module \cup Item, NEW m, m = t.of,
           NEW x, x = WithTargets(AddTestsImport(Completed(w, t), m), {r})
    PROVE  Step(w, WithJob(x, m, t.idx + 1, Resolve(x, {r})), t)
<1> DEFINE tested == w.code.tests[m]
<1> DEFINE reqs == tested \cup {r}
<1> DEFINE b == WithTargets(w, reqs)
<1> DEFINE v == Completed(w, t)
<1> DEFINE y == AddTestsImport(v, m)
<1> DEFINE needs == Resolve(w, {r})
<1>w. /\ w \in Store /\ w.code \in Programs /\ m \in Module /\ t.idx \in 1 .. MaxJobs /\ w.job[m] = t /\ t \in Target
      /\ t.kind # "resolved"
  BY ImportAt, StoreTypes DEF StoreInv
<1>r. tested \subseteq Module /\ reqs \in SUBSET (Module \cup Item) /\ {r} \in SUBSET (Module \cup Item) /\ {r} \in SUBSET reqs
  BY <1>w, ProgramTypes
<1>1. /\ v \in Store /\ SameImports(w, v) /\ SameItems(w, v) /\ SameTests(w, v)
      /\ v.all = w.all /\ v.own = w.own /\ v.needs = w.needs /\ v.ready = w.ready /\ v.failed = w.failed
      /\ v.completed = w.completed \cup {t}
  BY <1>w, CompletedOnly
<1>x. x = WithTargets(y, {r})
  OBVIOUS
<1>b. b = WithTargets(w, reqs)
  OBVIOUS
<1>y. y = AddTestsImport(v, m)
  OBVIOUS
<1> HIDE DEF v, y, b
<1>2. /\ y \in Store /\ SameImports(v, y) /\ SameItems(v, y) /\ SameStatus(v, y)
      /\ y.test = v.test /\ y.testedBy = v.testedBy /\ FoundFor(v, y, m)
      /\ y.all = v.all \cup ForAll(v, v.code.tests[m]) /\ y.own = v.own \cup {Resource(n) : n \in v.code.tests[m]}
      /\ y.needs = v.needs
  BY <1>1, <1>w, <1>y, AddTestsImportIs
<1>3. /\ x \in Store /\ SameImports(y, x) /\ SameItems(y, x) /\ SameTests(y, x) /\ SameStatus(y, x)
      /\ x.all = y.all \cup ForAll(y, {r})
      /\ x.own = y.own \cup {Resource(n) : n \in {r} \cap Module}
      /\ x.needs = y.needs
  <2> DEFINE one == {r}
  <2>1. y \in Store /\ one \in SUBSET (Module \cup Item) /\ x = WithTargets(y, one)
    BY <1>2, <1>r, <1>x
  <2> DEFINE z == WithTargets(y, one)
  <2> HIDE DEF one
  <2>3. /\ z \in Store /\ SameImports(y, z) /\ SameItems(y, z) /\ SameTests(y, z) /\ SameStatus(y, z)
        /\ z.all = y.all \cup UNION {TargetsFor(y, q) : q \in one}
        /\ z.own = y.own \cup {Resource(n) : n \in one \cap Module}
        /\ z.needs = y.needs
    BY <2>1, WithTargetsIs
  <2>4. x = z
    BY <2>1
  <2> HIDE DEF z
  <2>2. /\ x \in Store /\ SameImports(y, x) /\ SameItems(y, x) /\ SameTests(y, x) /\ SameStatus(y, x)
        /\ x.all = y.all \cup UNION {TargetsFor(y, q) : q \in one}
        /\ x.own = y.own \cup {Resource(n) : n \in one \cap Module}
        /\ x.needs = y.needs
    BY <2>3, <2>4
  <2> QED BY <2>2 DEF ForAll, one
<1>4. v.code = w.code /\ y.code = w.code /\ x.code = w.code
  BY <1>1, <1>2, <1>3 DEF SameImports
<1>5. v.completed = w.completed \cup {t} /\ y.completed = w.completed \cup {t} /\ x.completed = w.completed \cup {t}
  BY <1>1, <1>2, <1>3 DEF SameStatus
<1>6. ForAll(v, tested) = ForAll(w, tested) /\ ForAll(y, {r}) = ForAll(w, {r}) /\ Resolve(x, {r}) = needs
  <2>1. ForAll(v, tested) = ForAll(w, tested)
    BY <1>4, <1>5, <1>w, SameTargets
  <2>2. ForAll(y, {r}) = ForAll(w, {r})
    BY <1>4, <1>5, <1>w, SameTargets
  <2>3. Resolve(x, {r}) = needs
    <3>1. x.code = w.code /\ x.completed \in {w.completed, w.completed \cup {t}} /\ t.kind # "resolved"
      BY <1>4, <1>5, <1>w
    <3>2. \A one : Resolve(x, one) = Resolve(w, one)
      BY ONLY <3>1, SameTargets
    <3> QED BY <3>2
  <2> QED BY <2>1, <2>2, <2>3
<1>7. /\ b \in Store /\ StoreInv(b) /\ SameImports(w, b) /\ SameItems(w, b) /\ SameTests(w, b) /\ SameStatus(w, b)
      /\ b.all = w.all \cup UNION {TargetsFor(w, q) : q \in reqs}
      /\ b.own = w.own \cup {Resource(n) : n \in reqs \cap Module}
      /\ b.needs = w.needs /\ Satisfied(b, Deps(b, t))
  BY <1>r, <1>b, TargetsBase
<1>8. x.all = b.all
  <2>1. x.all = w.all \cup ForAll(w, tested) \cup ForAll(w, {r})
    BY <1>1, <1>2, <1>3, <1>4, <1>6 DEF ForAll
  <2>2. ForAll(w, reqs) = ForAll(w, tested) \cup ForAll(w, {r})
    BY DEF ForAll
  <2>3. b.all = w.all \cup ForAll(w, reqs)
    BY <1>7 DEF ForAll
  <2> QED BY <2>1, <2>2, <2>3
<1>9. x.own = b.own
  <2>1. x.own = w.own \cup {Resource(n) : n \in tested} \cup {Resource(n) : n \in {r} \cap Module}
    BY <1>1, <1>2, <1>3, <1>4
  <2>2. {Resource(n) : n \in reqs \cap Module} = {Resource(n) : n \in tested} \cup {Resource(n) : n \in {r} \cap Module}
    BY <1>r
  <2> QED BY <2>1, <2>2, <1>7
<1>10. x.needs = b.needs /\ SameImports(b, x) /\ SameItems(b, x) /\ x.test = b.test /\ x.testedBy = b.testedBy
  <2>1. x.needs = b.needs
    BY <1>1, <1>2, <1>3, <1>7
  <2>2. SameImports(b, x)
    BY <1>1, <1>2, <1>3, <1>7 DEF SameImports
  <2>3. SameItems(b, x)
    BY <1>1, <1>2, <1>3, <1>7 DEF SameItems
  <2>4. x.test = b.test /\ x.testedBy = b.testedBy
    BY <1>1, <1>2, <1>3, <1>7 DEF SameTests
  <2> QED BY <2>1, <2>2, <2>3, <2>4
<1>11. x.completed = b.completed \cup {t} /\ x.ready = b.ready /\ ~x.failed /\ t \notin b.completed
  <2>1. x.ready = w.ready /\ x.failed = w.failed /\ b.ready = w.ready /\ b.completed = w.completed
    BY <1>1, <1>2, <1>3, <1>7 DEF SameStatus
  <2> QED BY <2>1, <1>5 DEF StoreInv
<1>12. FoundFor(b, x, m)
  <2>1. v.testsImports = w.testsImports /\ x.testsImports = y.testsImports /\ b.testsImports = w.testsImports
    BY <1>1, <1>3, <1>7 DEF SameTests
  <2>2. b.code = w.code
    BY <1>7 DEF SameImports
  <2> QED BY <1>2, <1>4, <2>1, <2>2 DEF FoundFor
<1>13. needs \in NeedMaps /\ GoodNeeds(b, needs)
  <2>1. {} \in SUBSET Module
    OBVIOUS
  <2>2. /\ ResolveIn(w, {}, {r}) \in NeedMaps /\ GoodNeeds(b, ResolveIn(w, {}, {r}))
    BY <1>b, <1>r, <2>1, ResolveInIs
  <2> QED BY <2>2 DEF Resolve
<1>14. t = b.job[m]
  BY <1>7, <1>w DEF SameImports
<1> DEFINE next == t.idx + 1
<1>15. next \in 1 .. MaxJobs /\ next = IF t.kind = "cached" THEN 1 ELSE t.idx + 1
  BY <1>w, OrderAssumption
<1> HIDE DEF next, needs
<1>16. Step(b, WithJob(x, m, next, needs), t)
  BY <1>3, <1>7, <1>8, <1>9, <1>10, <1>11, <1>12, <1>13, <1>14, <1>15, <1>w, NextJob
<1>17. Step(w, WithJob(x, m, next, needs), t)
  BY <1>16, <1>b, <1>r, AfterTargets
<1> QED BY <1>6, <1>17 DEF next

\* An incomplete test has one too.
LEMMA TestIncompleteStep ==
    ASSUME NEW w, StoreInv(w), NEW t \in w.all, t \notin w.completed, t.kind = "testjob", Satisfied(w, Deps(w, t)),
           t.idx < MaxJobs, NEW r \in Module \cup Item, NEW m, m = t.of,
           NEW x, x = WithTargets(Completed(w, t), {r}), NEW tested, tested = w.code.tests[m]
    PROVE  Step(w, WithTestJob(x, m, t.idx + 1, Joined(ResolveIn(x, tested, {r}), Needs(x, Test(m)))), t)
<1> DEFINE b == WithTargets(w, {r})
<1> DEFINE needs == Joined(ResolveIn(w, tested, {r}), Needs(w, Test(m)))
<1>w. /\ w \in Store /\ w.code \in Programs /\ m \in Module /\ t.idx \in 1 .. MaxJobs /\ w.test[m] = t /\ t \in Target
      /\ t.kind # "resolved" /\ t # NoTarget
  BY TestAt, StoreTypes DEF StoreInv
<1>r. {r} \in SUBSET (Module \cup Item) /\ tested \in SUBSET Module
  BY <1>w, ProgramTypes
<1>b. b = WithTargets(w, {r})
  OBVIOUS
<1>1. x = Completed(b, t)
  BY <1>w, <1>r, CompletedLater
<1> HIDE DEF b
<1>2. /\ b \in Store /\ StoreInv(b) /\ SameImports(w, b) /\ SameItems(w, b) /\ SameTests(w, b) /\ SameStatus(w, b)
      /\ b.needs = w.needs /\ Satisfied(b, Deps(b, t))
  BY <1>r, <1>b, TargetsBase
<1>3. /\ x \in Store /\ SameImports(b, x) /\ SameItems(b, x) /\ SameTests(b, x)
      /\ x.all = b.all /\ x.own = b.own /\ x.needs = b.needs /\ x.ready = b.ready /\ x.failed = b.failed
      /\ x.completed = b.completed \cup {t}
  <2>1. b \in Store /\ t \in Target
    BY <1>2, <1>w
  <2> DEFINE z == Completed(b, t)
  <2>2. /\ z \in Store /\ SameImports(b, z) /\ SameItems(b, z) /\ SameTests(b, z)
        /\ z.all = b.all /\ z.own = b.own /\ z.needs = b.needs /\ z.ready = b.ready /\ z.failed = b.failed
        /\ z.completed = b.completed \cup {t}
    BY <2>1, CompletedOnly
  <2>3. x = z
    BY <1>1
  <2> HIDE DEF z
  <2> QED BY <2>2, <2>3
<1>4. x.code = w.code /\ x.completed = w.completed \cup {t} /\ t \notin b.completed /\ ~x.failed /\ b.test = w.test
  BY <1>2, <1>3 DEF SameImports, SameStatus, SameTests, StoreInv
<1>5. ResolveIn(x, tested, {r}) = ResolveIn(w, tested, {r})
  <2>1. x.code = w.code /\ x.completed \in {w.completed, w.completed \cup {t}} /\ t.kind # "resolved"
    BY <1>4, <1>w
  <2>2. \A in, one : ResolveIn(x, in, one) = ResolveIn(w, in, one)
    BY ONLY <2>1, SameTargets
  <2> QED BY <2>2
<1>6. Needs(x, Test(m)) = Needs(w, Test(m)) /\ Needs(b, Test(m)) = Needs(w, Test(m))
  BY <1>2, <1>3 DEF Needs
<1>7. needs \in NeedMaps /\ GoodNeeds(b, needs)
  <2>1. {r} \in SUBSET {r}
    OBVIOUS
  <2>2. /\ ResolveIn(w, tested, {r}) \in NeedMaps /\ GoodNeeds(b, ResolveIn(w, tested, {r}))
    BY <1>b, <1>r, <2>1, ResolveInIs
  <2>3. NeedsExist(b)
    BY <1>2 DEF StoreInv, ClosedInv
  <2>4. Needs(b, Test(m)) \in NeedMaps /\ GoodNeeds(b, Needs(b, Test(m)))
    BY <2>3, <1>2, NeedsTypes, NeedsAre DEF GoodNeeds
  <2> QED BY <2>2, <2>4, <1>6, JoinedNeeds
<1> DEFINE next == t.idx + 1
<1>8. next \in 1 .. MaxJobs /\ next = IF t.kind = "testcached" THEN 1 ELSE t.idx + 1
  BY <1>w, OrderAssumption
<1>9. t = b.test[m]
  BY <1>4, <1>w
<1> HIDE DEF next, needs
<1>10. Step(b, WithTestJob(x, m, next, needs), t)
  BY <1>2, <1>3, <1>4, <1>7, <1>8, <1>9, <1>w, NextTestJob
<1>11. Step(w, WithTestJob(x, m, next, needs), t)
  BY <1>10, <1>b, <1>r, AfterTargets
<1> QED BY <1>5, <1>6, <1>11 DEF next, needs

\* Every result is a step of the target of its job, which is completed; a test that
\* needs more is at another job then.
LEMMA HandledStep ==
    ASSUME NEW w, StoreInv(w), NEW t \in w.all, t \notin w.completed, t.kind \in {"job", "testjob"},
           Satisfied(w, Deps(w, t)), NEW a \in JobAnswer, a # Failed, a # Ok => t.idx < MaxJobs
    PROVE  /\ Step(w, Handled(w, t, a), t) /\ t \in Handled(w, t, a).completed
           /\ t.kind = "testjob" /\ a # Ok => Handled(w, t, a).test[t.of] # t
<1> DEFINE m == t.of
<1> DEFINE v == Completed(w, t)
<1>w. /\ w \in Store /\ w.code \in Programs /\ t \in Target /\ m \in Module
  BY TestAt, ImportAt, StoreTypes DEF StoreInv
<1>a. a # Ok => a.req \in Module \cup Item /\ a = Missing(a.req)
  BY DEF JobAnswer, Missing
<1>v. /\ v \in Store /\ SameImports(w, v) /\ SameItems(w, v) /\ SameTests(w, v)
      /\ v.all = w.all /\ v.own = w.own /\ v.needs = w.needs /\ v.ready = w.ready /\ v.failed = w.failed
      /\ v.completed = w.completed \cup {t}
  BY <1>w, CompletedOnly
<1>1. ASSUME t.kind = "job", a = Ok
      PROVE  Step(w, Handled(w, t, a), t) /\ t \in Handled(w, t, a).completed
  <2>1. w.code.requires[m] \in SUBSET (Module \cup Item) /\ t = w.job[m]
    BY <1>1, <1>w, ProgramTypes, ImportAt
  <2>2. Done(w, UseResult(Completed(w, t), m, w.code.requires[m]), t)
    BY <2>1, <1>w, UseResultStep
  <2>3. Handled(w, t, a) = UseResult(Completed(w, t), m, w.code.requires[m])
    BY <1>1 DEF Handled, ImportHandled
  <2> QED BY <2>2, <2>3 DEF Done
<1>2. ASSUME t.kind = "job", a # Ok
      PROVE  Step(w, Handled(w, t, a), t) /\ t \in Handled(w, t, a).completed
  <2> DEFINE r == a.req
  <2> DEFINE y == AddTestsImport(v, m)
  <2> DEFINE one == {r}
  <2> DEFINE x == WithTargets(y, one)
  <2> DEFINE z == WithJob(x, m, t.idx + 1, Resolve(x, one))
  <2>1. Handled(w, t, a) = z
    BY <1>2 DEF Handled, ImportHandled
  <2>2. r \in Module \cup Item /\ t.idx < MaxJobs
    BY <1>2, <1>a
  <2>3. Step(w, z, t)
    BY <1>2, <2>2, ImportIncompleteStep
  <2>4. y \in Store /\ SameStatus(v, y)
    <3> HIDE DEF v
    <3> QED BY <1>v, <1>w, AddTestsImportIs
  <2>o. one \in SUBSET (Module \cup Item)
    BY <2>2
  <2>5. x \in Store /\ SameStatus(y, x)
    <3> HIDE DEF y, one
    <3> QED BY <2>4, <2>o, WithTargetsIs
  <2> HIDE DEF x, y, v
  <2>6. Resolve(x, one) \in NeedMaps
    <3>1. \A q \in one : TargetIn(x, {}, q) \in Target
      <4>1. x.code \in Programs
        BY <2>5, StoreTypes
      <4>2. ASSUME NEW q \in one, q \in Item PROVE TargetIn(x, {}, q) \in Target
        BY <4>1, <4>2, TargetsForAre
      <4>3. ASSUME NEW q \in one, q \in Module PROVE TargetIn(x, {}, q) \in Target
        BY <4>3, TargetsExist DEF TargetIn
      <4> QED BY <4>2, <4>3, <2>o
    <3>2. Resolve(x, one) = [q \in one |-> TargetIn(x, {}, q)]
      BY DEF Resolve, ResolveIn
    <3>3. Resolve(x, one) \in [one -> Target]
      BY <3>1, <3>2
    <3> QED BY <3>3, <2>o, NeedMapsAre
  <2>7. t.idx + 1 \in 1 .. MaxJobs
    BY <2>2, <1>2, ImportAt, OrderAssumption
  <2> DEFINE next == t.idx + 1
  <2> DEFINE needs == Resolve(x, one)
  <2>8. z = WithJob(x, m, next, needs)
    OBVIOUS
  <2> HIDE DEF z, next, needs
  <2>9. SameStatus(x, WithJob(x, m, next, needs))
    BY <2>5, <2>6, <2>7, <1>w, WithJobIs DEF next, needs
  <2>10. t \in z.completed
    BY <2>4, <2>5, <2>8, <2>9, <1>v DEF SameStatus
  <2> QED BY <2>1, <2>3, <2>10
<1>3. ASSUME t.kind = "testjob" PROVE UseTestResult(Completed(w, t), m) = v
  BY <1>3, TestResultIs
<1>4. ASSUME t.kind = "testjob", a = Ok
      PROVE  Step(w, Handled(w, t, a), t) /\ t \in Handled(w, t, a).completed
  <2>1. Step(w, v, t)
    BY <1>4, CompleteStep
  <2>2. Handled(w, t, a) = v
    BY <1>3, <1>4 DEF Handled, TestHandled
  <2> QED BY <2>1, <2>2, <1>v
<1>5. ASSUME t.kind = "testjob", a # Ok
      PROVE  /\ Step(w, Handled(w, t, a), t) /\ t \in Handled(w, t, a).completed
             /\ Handled(w, t, a).test[m] # t
  <2> DEFINE r == a.req
  <2> DEFINE one == {r}
  <2> DEFINE x == WithTargets(v, one)
  <2> DEFINE tested == w.code.tests[m]
  <2> DEFINE needs == Joined(ResolveIn(x, tested, one), Needs(x, Test(m)))
  <2> DEFINE next == t.idx + 1
  <2> DEFINE z == WithTestJob(x, m, next, needs)
  <2>1. Handled(w, t, a) = z
    BY <1>3, <1>5 DEF Handled, TestHandled
  <2>2. r \in Module \cup Item /\ t.idx < MaxJobs
    BY <1>5, <1>a
  <2>3. Step(w, z, t)
    BY <1>5, <2>2, TestIncompleteStep
  <2>o. one \in SUBSET (Module \cup Item)
    BY <2>2
  <2>4. x \in Store /\ SameStatus(v, x)
    <3> HIDE DEF v, one
    <3> QED BY <1>v, <2>o, WithTargetsIs
  <2> HIDE DEF v, x
  <2>c. x.code \in Programs
    BY <2>4, StoreTypes
  <2>5. needs \in NeedMaps
    <3>1. ASSUME NEW q \in one PROVE TargetIn(x, tested, q) \in Target
      <4>1. tested \subseteq Module
        BY <1>w, ProgramTypes
      <4>2. ASSUME q \in Item PROVE TargetIn(x, tested, q) \in Target
        BY <2>c, <4>1, <4>2, TargetsForAre
      <4>3. ASSUME q \in Module PROVE TargetIn(x, tested, q) \in Target
        BY <4>3, TargetsExist DEF TargetIn
      <4> QED BY <4>2, <4>3, <2>o
    <3> DEFINE f == ResolveIn(x, tested, one)
    <3> DEFINE g == Needs(x, Test(m))
    <3>2. f = [q \in one |-> TargetIn(x, tested, q)]
      BY DEF ResolveIn
    <3> HIDE DEF f
    <3>3. f \in [one -> Target]
      BY <3>1, <3>2
    <3>4. f \in NeedMaps /\ g \in NeedMaps
      BY <3>3, <2>o, <2>4, NeedMapsAre, NeedsTypes
    <3>5. DOMAIN f \subseteq Module \cup Item /\ DOMAIN g \subseteq Module \cup Item
          /\ (\A q \in DOMAIN f : f[q] \in Target) /\ (\A q \in DOMAIN g : g[q] \in Target)
      BY <3>4 DEF NeedMaps
    <3> HIDE DEF g
    <3>6. Joined(f, g) \in [DOMAIN f \cup DOMAIN g -> Target]
      BY <3>5 DEF Joined
    <3>7. Joined(f, g) \in NeedMaps
      BY <3>5, <3>6, NeedMapsAre
    <3> QED BY <3>7 DEF f, g
  <2>6. next \in 1 .. MaxJobs /\ t.idx \in 1 .. MaxJobs
    BY <2>2, <1>5, TestAt, OrderAssumption
  <2> DEFINE job == TestJob(m, next)
  <2>8. z = WithTestJob(x, m, next, needs) /\ job = TestJob(m, next) /\ job.idx = next /\ next # t.idx
    BY <2>6, OrderAssumption, TargetFields
  <2> HIDE DEF z, next, needs, job
  <2>9. SameStatus(x, WithTestJob(x, m, next, needs)) /\ WithTestJob(x, m, next, needs).test[m] = job
    BY <2>4, <2>5, <2>6, <2>8, <1>w, WithTestJobIs
  <2>10. t \in z.completed
    BY <2>4, <2>8, <2>9, <1>v DEF SameStatus
  <2>11. z.test[m] # t
    BY <2>8, <2>9
  <2> QED BY <2>1, <2>3, <2>10, <2>11
<1>6. t.kind = "job" => t.kind # "testjob"
  OBVIOUS
<1> QED BY <1>1, <1>2, <1>4, <1>5, <1>6

-----------------------------------------------------------------------------
(* The first store *)

\* A store that may not have its import jobs yet.
Unfinished ==
    [code : Programs,
     cache : [imports : SUBSET Module, stale : SUBSET Module, tests : SUBSET Module, staleTests : SUBSET Module],
     all : SUBSET Target, own : SUBSET Target, completed : SUBSET Target, ready : SUBSET Target,
     first : SUBSET Target, needs : UNION {[targets -> NeedMaps] : targets \in SUBSET Target},
     job : [Module -> Target \cup {NoTarget}], got : SUBSET Module, provided : SUBSET Item, resolved : SUBSET Item,
     items : [Module -> SUBSET Item], picked : SUBSET Item,
     test : [Module -> Target \cup {NoTarget}], testsImports : [Module -> SUBSET Module],
     testedBy : [Module -> SUBSET Module], failed : BOOLEAN]

\* Nothing has been done for it.
NothingDone(w) ==
    /\ w.completed = {} /\ w.ready = {} /\ w.got = {} /\ w.provided = {} /\ w.resolved = {} /\ w.picked = {}
    /\ \A m \in Module : w.items[m] = {} /\ w.test[m] = NoTarget /\ w.testedBy[m] = {}
    /\ ~w.failed

\* Before anything is known there are the imports.
LEMMA EmptyIs ==
    ASSUME NEW program \in Programs,
           NEW cache \in [imports : SUBSET Module, stale : SUBSET Module, tests : SUBSET Module, staleTests : SUBSET Module]
    PROVE  LET e == EmptyStore(program, cache) IN
           /\ e \in Unfinished /\ e.code = program /\ e.cache = cache /\ NothingDone(e)
           /\ e.all = {Known} \cup ImportsOf(Module) /\ e.own = {Known} \cup ImportsOf(Module)
<1> DEFINE e == EmptyStore(program, cache)
<1> DEFINE every == {Known} \cup ImportsOf(Module)
<1> DEFINE none == [m \in Module |-> {}]
<1> DEFINE nothing == [m \in Module |-> NoTarget]
<1> DEFINE unneeded == [t \in {} |-> NoNeeds]
<1>1. e = [code |-> program, cache |-> cache, all |-> every, own |-> every,
           completed |-> {}, ready |-> {}, first |-> {}, needs |-> unneeded,
           job |-> nothing, got |-> {}, provided |-> {}, resolved |-> {},
           items |-> none, picked |-> {}, test |-> nothing, testsImports |-> none,
           testedBy |-> none, failed |-> FALSE]
  BY DEF EmptyStore
<1>2. every \subseteq Target
  BY TargetsExist DEF ImportsOf
<1>3. /\ none \in [Module -> SUBSET Module] /\ none \in [Module -> SUBSET Item] /\ \A m \in Module : none[m] = {}
      /\ nothing \in [Module -> Target \cup {NoTarget}] /\ \A m \in Module : nothing[m] = NoTarget
  OBVIOUS
<1>4. unneeded \in UNION {[targets -> NeedMaps] : targets \in SUBSET Target}
  <2>1. unneeded \in [{} -> NeedMaps]
    OBVIOUS
  <2> QED BY <2>1
<1> HIDE DEF e, every, none, nothing, unneeded
<1>5. e \in Unfinished
  BY <1>1, <1>2, <1>3, <1>4 DEF Unfinished
<1>6. NothingDone(e)
  BY <1>1, <1>3 DEF NothingDone
<1> QED BY <1>1, <1>5, <1>6 DEF e, every

\* The first store has the first jobs and the requirements of what is cached.
CreatedReqs(program, cache) == UNION {program.tests[m] \cup program.requires[m] : m \in cache.imports}
CreatedFirst(cache) == {ImportJob(m, 1) : m \in Module \ cache.imports}
CreatedCached(cache) == {Cached(m) : m \in cache.imports}

\* The targets before anything is known.
LEMMA CreatedIs ==
    ASSUME NEW program \in Programs,
           NEW cache \in [imports : SUBSET Module, stale : SUBSET Module, tests : SUBSET Module, staleTests : SUBSET Module]
    PROVE  LET v == CreatedStore(program, cache)  reqs == CreatedReqs(program, cache)
               targets == CreatedFirst(cache) \cup CreatedCached(cache)
           IN
           /\ v \in Store /\ v.code = program /\ v.cache = cache /\ NothingDone(v)
           /\ v.all = {Known} \cup ImportsOf(Module) \cup ForAll(v, reqs) \cup targets
           /\ v.own = {Known} \cup ImportsOf(Module) \cup {Resource(m) : m \in reqs \cap Module} \cup targets
           /\ v.first = CreatedFirst(cache)
           /\ \A m \in Module : v.job[m] = IF m \in cache.imports THEN Cached(m) ELSE ImportJob(m, 1)
           /\ \A n \in Module : v.testsImports[n] = {m \in cache.imports : n \in program.tests[m]}
           /\ DOMAIN v.needs = targets /\ \A t \in CreatedFirst(cache) : v.needs[t] = NoNeeds
           /\ \A m \in cache.imports : v.needs[Cached(m)] = Resolve(v, program.requires[m])
<1> DEFINE reqs == CreatedReqs(program, cache)
<1> DEFINE targets == CreatedFirst(cache) \cup CreatedCached(cache)
<1> DEFINE v == CreatedStore(program, cache)
<1> DEFINE e == EmptyStore(program, cache)
<1> DEFINE w == WithTargets(e, reqs)
<1> DEFINE resources == {Resource(m) : m \in reqs \cap Module}
<1> DEFINE job == [m \in Module |-> IF m \in cache.imports THEN Cached(m) ELSE ImportJob(m, 1)]
<1> DEFINE needs == [t \in targets |-> IF t \in CreatedFirst(cache) THEN NoNeeds ELSE Resolve(w, program.requires[t.of])]
<1> DEFINE found == [n \in Module |-> {m \in cache.imports : n \in program.tests[m]}]
<1>1. w = [e EXCEPT !.all = @ \cup ForAll(e, reqs), !.own = @ \cup resources]
  BY DEF WithTargets, ForAll
<1>2. v = [w EXCEPT !.all = @ \cup targets, !.own = @ \cup targets, !.first = CreatedFirst(cache),
                    !.job = job, !.needs = needs, !.testsImports = found]
  BY DEF CreatedStore, CreatedReqs, CreatedCached, CreatedFirst
<1>e. /\ e \in Unfinished /\ e.code = program /\ e.cache = cache /\ NothingDone(e)
      /\ e.all = {Known} \cup ImportsOf(Module) /\ e.own = {Known} \cup ImportsOf(Module)
  BY EmptyIs
<1>m. cache.imports \subseteq Module /\ reqs \subseteq Module \cup Item
  BY ProgramTypes DEF CreatedReqs
<1>t. targets \subseteq Target
  <2>1. 1 \in 1 .. MaxJobs
    BY OrderAssumption
  <2> QED BY <2>1, <1>m, TargetsExist DEF CreatedFirst, CreatedCached
<1>j. job \in [Module -> Target]
  <2>1. 1 \in 1 .. MaxJobs
    BY OrderAssumption
  <2> QED BY <2>1, <1>m, TargetsExist
<1>f. found \in [Module -> SUBSET Module]
  BY <1>m
<1>n. needs \in UNION {[set -> NeedMaps] : set \in SUBSET Target}
  <2>0. NoNeeds \in NeedMaps
    <3>1. NoNeeds \in [{} -> Target]
      BY DEF NoNeeds
    <3> QED BY <3>1, NeedMapsAre
  <2>1. ASSUME NEW m \in cache.imports PROVE Resolve(w, program.requires[m]) \in NeedMaps
    <3> DEFINE set == program.requires[m]
    <3>1. set \subseteq Module \cup Item
      BY <1>m, ProgramTypes
    <3>2. w.code \in Programs
      <4> HIDE DEF w, e, reqs, resources
      <4>1. w.code = e.code
        BY <1>1, <1>e DEF Unfinished
      <4> QED BY <4>1, <1>e
    <3>3. ASSUME NEW q \in set PROVE TargetIn(w, {}, q) \in Target
      <4>1. ASSUME q \in Item PROVE TargetIn(w, {}, q) \in Target
        BY <3>2, <4>1, TargetsForAre
      <4>2. ASSUME q \in Module PROVE TargetIn(w, {}, q) \in Target
        BY <4>2, TargetsExist DEF TargetIn
      <4> QED BY <4>1, <4>2, <3>1
    <3>4. Resolve(w, set) = [q \in set |-> TargetIn(w, {}, q)]
      BY DEF Resolve, ResolveIn
    <3>5. Resolve(w, set) \in [set -> Target]
      BY <3>3, <3>4
    <3> QED BY <3>5, <3>1, NeedMapsAre
  <2>2. \A t \in CreatedCached(cache) : t.of \in cache.imports
    BY TargetFields DEF CreatedCached
  <2>3. needs \in [targets -> NeedMaps]
    <3> HIDE DEF w
    <3> QED BY <2>0, <2>1, <2>2
  <2> QED BY <2>3, <1>t
<1>a. ForAll(e, reqs) \subseteq Target /\ resources \subseteq Target
  <2>1. \A r \in reqs : TargetsFor(e, r) \subseteq Target
    BY <1>e, <1>m, TargetsForAre
  <2> HIDE DEF e, reqs
  <2> QED BY <2>1, TargetsExist DEF ForAll
<1>d. DOMAIN needs = targets
  OBVIOUS
<1>p. \A t \in targets : needs[t] = IF t \in CreatedFirst(cache) THEN NoNeeds ELSE Resolve(w, program.requires[t.of])
  OBVIOUS
<1>q. /\ \A m \in Module : job[m] = IF m \in cache.imports THEN Cached(m) ELSE ImportJob(m, 1)
      /\ \A n \in Module : found[n] = {m \in cache.imports : n \in program.tests[m]}
  OBVIOUS
<1>s. resources = {Resource(m) : m \in reqs \cap Module}
  OBVIOUS
<1>x. targets = CreatedFirst(cache) \cup CreatedCached(cache)
  OBVIOUS
<1> HIDE DEF v, w, e, reqs, targets, resources, job, needs, found
<1>3. /\ w \in Unfinished /\ w.code = e.code /\ w.cache = e.cache /\ w.all = e.all \cup ForAll(e, reqs)
      /\ w.own = e.own \cup resources /\ w.completed = e.completed /\ w.ready = e.ready
      /\ w.got = e.got /\ w.provided = e.provided /\ w.resolved = e.resolved /\ w.items = e.items
      /\ w.picked = e.picked /\ w.test = e.test /\ w.testedBy = e.testedBy /\ w.failed = e.failed
  BY <1>1, <1>e, <1>a DEF Unfinished
<1>g. CreatedFirst(cache) \subseteq Target
  BY <1>t, <1>x
<1>4. /\ v \in Store /\ v.code = w.code /\ v.cache = w.cache /\ v.all = w.all \cup targets
      /\ v.own = w.own \cup targets /\ v.completed = w.completed /\ v.ready = w.ready
      /\ v.got = w.got /\ v.provided = w.provided /\ v.resolved = w.resolved /\ v.items = w.items
      /\ v.picked = w.picked /\ v.test = w.test /\ v.testedBy = w.testedBy /\ v.failed = w.failed
      /\ v.first = CreatedFirst(cache) /\ v.job = job /\ v.needs = needs /\ v.testsImports = found
  BY <1>2, <1>3, <1>t, <1>g, <1>j, <1>f, <1>n DEF Unfinished, Store
<1>5. NothingDone(v)
  BY <1>3, <1>4, <1>e DEF NothingDone
<1>6. /\ ForAll(e, reqs) = ForAll(v, reqs)
      /\ \A set : Resolve(w, set) = Resolve(v, set)
  <2>1. /\ e.code = v.code /\ w.code = v.code /\ e.completed = v.completed /\ w.completed = v.completed
    BY <1>3, <1>4
  <2>2. \A r : TargetsFor(e, r) = TargetsFor(v, r)
    BY <2>1, TargetsForSame
  <2>3. \A set : Resolve(w, set) = Resolve(v, set)
    BY <2>1, TargetsForSame
  <2> QED BY <2>2, <2>3 DEF ForAll
<1>7. ASSUME NEW m \in cache.imports PROVE needs[Cached(m)] = Resolve(v, program.requires[m])
  <2>1. Cached(m) \in targets /\ Cached(m) \notin CreatedFirst(cache) /\ Cached(m).of = m
    BY <1>x, TargetFields DEF CreatedCached, CreatedFirst
  <2> QED BY <2>1, <1>p, <1>6
<1>8. \A t \in CreatedFirst(cache) : needs[t] = NoNeeds
  BY <1>p, <1>x
<1>9. v.all = {Known} \cup ImportsOf(Module) \cup ForAll(v, reqs) \cup targets
  BY <1>3, <1>4, <1>6, <1>e
<1>10. v.own = {Known} \cup ImportsOf(Module) \cup {Resource(m) : m \in reqs \cap Module} \cup targets
  BY <1>3, <1>4, <1>s, <1>e
<1>11. v.code = program /\ v.cache = cache
  BY <1>3, <1>4, <1>e
<1> QED BY <1>4, <1>5, <1>7, <1>8, <1>9, <1>10, <1>11, <1>q, <1>d DEF v, reqs, targets

\* The invariant holds of it.
LEMMA CreatedInv ==
    ASSUME NEW program \in Programs,
           NEW cache \in [imports : SUBSET Module, stale : SUBSET Module, tests : SUBSET Module, staleTests : SUBSET Module]
    PROVE  StoreInv(CreatedStore(program, cache))
<1> DEFINE v == CreatedStore(program, cache)
<1> DEFINE reqs == CreatedReqs(program, cache)
<1> DEFINE targets == CreatedFirst(cache) \cup CreatedCached(cache)
<1>v. /\ v \in Store /\ v.code = program /\ v.cache = cache /\ NothingDone(v)
      /\ v.all = {Known} \cup ImportsOf(Module) \cup ForAll(v, reqs) \cup targets
      /\ v.own = {Known} \cup ImportsOf(Module) \cup {Resource(m) : m \in reqs \cap Module} \cup targets
      /\ v.first = CreatedFirst(cache)
      /\ \A m \in Module : v.job[m] = IF m \in cache.imports THEN Cached(m) ELSE ImportJob(m, 1)
      /\ \A n \in Module : v.testsImports[n] = {m \in cache.imports : n \in program.tests[m]}
      /\ DOMAIN v.needs = targets /\ \A t \in CreatedFirst(cache) : v.needs[t] = NoNeeds
      /\ \A m \in cache.imports : v.needs[Cached(m)] = Resolve(v, program.requires[m])
  BY CreatedIs
<1>m. cache.imports \subseteq Module /\ reqs \subseteq Module \cup Item
  BY ProgramTypes DEF CreatedReqs
<1>r. \A m \in cache.imports : program.requires[m] \subseteq reqs
  BY DEF CreatedReqs
<1> HIDE DEF v, reqs
<1>f. \A r \in reqs : TargetsFor(v, r) \subseteq ForAll(v, reqs)
  BY DEF ForAll
<1>k. /\ \A t \in targets : t.kind \in {"job", "cached"}
      /\ \A t \in ForAll(v, reqs) : t.kind \in {"ready", "resolved", "complete", "resource"}
      /\ \A t \in ImportsOf(Module) : t.kind = "import"
  <2>1. \A t \in targets : t.kind \in {"job", "cached"}
    BY TargetFields DEF CreatedFirst, CreatedCached
  <2>2. \A t \in ImportsOf(Module) : t.kind = "import"
    BY TargetFields DEF ImportsOf
  <2>3. ASSUME NEW r \in reqs, NEW t \in TargetsFor(v, r) PROVE t.kind \in {"ready", "resolved", "complete", "resource"}
    BY <1>m, <1>v, TargetsForAre, TargetFields
  <2> QED BY <2>1, <2>2, <2>3 DEF ForAll
<1>d. v.completed = {} /\ v.ready = {} /\ v.got = {} /\ v.provided = {} /\ v.resolved = {} /\ v.picked = {} /\ ~v.failed
      /\ \A m \in Module : v.items[m] = {} /\ v.test[m] = NoTarget /\ v.testedBy[m] = {}
  BY <1>v DEF NothingDone
<1>n. \A t \in targets : t.kind = "job" => t \in CreatedFirst(cache)
  BY TargetFields DEF CreatedCached
<1>c. ClosedInv(v)
  <2>1. v.own \subseteq v.all
    <3>1. ASSUME NEW m \in reqs, m \in Module PROVE Resource(m) \in ForAll(v, reqs)
      BY <1>f, <1>v, <3>1, <1>m, TargetsForAre
    <3> QED BY <3>1, <1>v
  <2>2. Known \in v.all /\ \A m \in Module : Import(m) \in v.all
    BY <1>v DEF ImportsOf
  <2>3. ItemClosed(v)
    <3>1. \A i \in Item : Resolved(i) \in v.all => Resolved(i) \in ForAll(v, reqs)
      BY <1>v, <1>k, TargetFields
    <3>2. \A i \in Item : Complete(i) \in v.all => Complete(i) \in ForAll(v, reqs)
      BY <1>v, <1>k, TargetFields
    <3>3. ASSUME NEW i \in Item, Resolved(i) \in ForAll(v, reqs) PROVE Ready(i) \in v.all
      <4>1. PICK r \in reqs : Resolved(i) \in TargetsFor(v, r)
        BY <3>3 DEF ForAll
      <4> QED BY <4>1, <1>f, <1>m, <1>v, TargetsForAre
    <3>4. ASSUME NEW i \in Item, Complete(i) \in ForAll(v, reqs) PROVE ItemTargets(v, i) \subseteq v.all
      <4>1. PICK r \in reqs : Complete(i) \in TargetsFor(v, r)
        BY <3>4 DEF ForAll
      <4> QED BY <4>1, <1>f, <1>m, <1>v, TargetsForAre
    <3> QED BY <3>1, <3>2, <3>3, <3>4 DEF ItemClosed
  <2>4. NeedsExist(v)
    <3>1. \A t \in v.all : t.kind # "testjob"
      BY <1>v, <1>k, TargetFields
    <3>2. DOMAIN v.needs \subseteq v.all
      BY <1>v
    <3>3. ASSUME NEW t \in DOMAIN v.needs, NEW r \in DOMAIN v.needs[t]
          PROVE  /\ v.needs[t][r] \in v.all
                 /\ r \in Module => v.needs[t][r] \in {Import(r), Resource(r)} /\ Resource(r) \in v.own
                 /\ r \in Item => v.needs[t][r] \in {Resolved(r), Complete(r)}
      <4>1. ASSUME t \in CreatedFirst(cache) PROVE FALSE
        <5>1. DOMAIN NoNeeds = {}
          BY DEF NoNeeds
        <5> QED BY <5>1, <4>1, <1>v
      <4>2. PICK m \in cache.imports : t = Cached(m)
        BY <4>1, <1>v DEF CreatedCached
      <4>3. r \in program.requires[m] /\ v.needs[t][r] = TargetIn(v, {}, r)
        <5>1. v.needs[t] = Resolve(v, program.requires[m])
          BY <4>2, <1>v
        <5>2. /\ DOMAIN Resolve(v, program.requires[m]) = program.requires[m]
              /\ \A q \in program.requires[m] : Resolve(v, program.requires[m])[q] = TargetIn(v, {}, q)
          BY DEF Resolve, ResolveIn
        <5> QED BY <5>1, <5>2
      <4>4. r \in reqs
        BY <4>3, <1>r
      <4>5. ASSUME r \in Module
            PROVE  v.needs[t][r] = Resource(r) /\ Resource(r) \in v.own /\ Resource(r) \in v.all
        BY <4>3, <4>4, <4>5, <1>v, <2>1 DEF TargetIn
      <4>6. ASSUME r \in Item
            PROVE  v.needs[t][r] \in {Resolved(r), Complete(r)} /\ v.needs[t][r] \in v.all
        <5>1. TargetIn(v, {}, r) \in TargetsFor(v, r) \cap {Resolved(r), Complete(r)}
          BY <4>6, <1>v, TargetsForAre
        <5> QED BY <5>1, <4>3, <4>4, <1>f, <1>v
      <4> QED BY <4>4, <4>5, <4>6, <1>m, TargetAssumption
    <3> QED BY <3>1, <3>2, <3>3 DEF NeedsExist
  <2> QED BY <2>1, <2>2, <2>3, <2>4, <1>d DEF ClosedInv
<1>o. 1 \in 1 .. MaxJobs
  BY OrderAssumption
<1>j. JobsInv(v)
  <2> SUFFICES ASSUME NEW m \in Module
               PROVE  /\ v.job[m] \in {Cached(m)} \cup {ImportJob(m, k) : k \in 1 .. MaxJobs}
                      /\ v.job[m] \in v.own
                      /\ v.job[m] \in v.completed <=> m \in v.got
                      /\ \A k \in 1 .. MaxJobs : ImportJob(m, k) \in v.all =>
                            /\ v.job[m].kind = "job" /\ k <= v.job[m].idx
                            /\ k < v.job[m].idx => ImportJob(m, k) \in v.completed
                      /\ Cached(m) \in v.all => v.job[m] = Cached(m) \/ Cached(m) \in v.completed
    BY DEF JobsInv
  <2>1. v.job[m] \in {Cached(m)} \cup {ImportJob(m, k) : k \in 1 .. MaxJobs}
    BY <1>v, <1>o
  <2>2. v.job[m] \in v.own
    BY <1>v DEF CreatedFirst, CreatedCached
  <2>3. ASSUME NEW k \in 1 .. MaxJobs, ImportJob(m, k) \in v.all
        PROVE  v.job[m].kind = "job" /\ k = v.job[m].idx
    <3>1. ImportJob(m, k) \in CreatedFirst(cache)
      BY <2>3, <1>v, <1>k, <1>n, TargetFields
    <3>2. PICK n \in Module \ cache.imports : ImportJob(m, k) = ImportJob(n, 1)
      BY <3>1 DEF CreatedFirst
    <3>3. n = m /\ k = 1
      <4>1. ImportJob(m, k).of = m /\ ImportJob(n, 1).of = n /\ ImportJob(m, k).idx = k /\ ImportJob(n, 1).idx = 1
        BY TargetFields
      <4> QED BY <4>1, <3>2
    <3> QED BY <3>2, <3>3, <1>v, TargetFields
  <2>4. ASSUME Cached(m) \in v.all PROVE v.job[m] = Cached(m)
    <3>1. Cached(m) \in targets
      BY <2>4, <1>v, <1>k, TargetFields
    <3>2. Cached(m) \in CreatedCached(cache)
      BY <3>1, TargetFields DEF CreatedFirst
    <3>3. PICK n \in cache.imports : Cached(m) = Cached(n)
      BY <3>2 DEF CreatedCached
    <3>4. Cached(m).of = m /\ Cached(n).of = n
      BY TargetFields
    <3> QED BY <3>3, <3>4, <1>v
  <2>5. \A k \in 1 .. MaxJobs : ImportJob(m, k) \in v.all =>
                            /\ v.job[m].kind = "job" /\ k <= v.job[m].idx
                            /\ k < v.job[m].idx => ImportJob(m, k) \in v.completed
    BY <2>3
  <2> QED BY <2>1, <2>2, <2>4, <2>5, <1>d
<1>t. TestsInv(v)
  <2>1. \A t \in v.all : t.kind \notin {"test", "testjob", "testcached"}
    BY <1>v, <1>k, TargetFields
  <2>2. ASSUME NEW m \in Module
        PROVE  /\ Test(m) \notin v.all /\ TestCached(m) \notin v.all
               /\ \A k \in 1 .. MaxJobs : TestJob(m, k) \notin v.all
    BY <2>1, TargetFields
  <2> QED BY <2>2, <1>d DEF TestsInv
<1>g. FoundInv(v)
  <2>1. v.first = {ImportJob(m, 1) : m \in Module \ v.cache.imports}
    BY <1>v DEF CreatedFirst
  <2>2. \A m \in Module : m \in v.cache.imports \/ ImportJob(m, 1) \in v.completed =>
            \A n \in v.code.tests[m] : m \in v.testsImports[n]
    BY <1>v, <1>d, ProgramTypes
  <2> QED BY <2>1, <2>2 DEF FoundInv
<1>i. ItemsInv(v)
  <2>1. ASSUME NEW m \in Module PROVE Import(m) \notin DOMAIN v.needs /\ Resource(m) \notin DOMAIN v.needs
    BY <1>v, <1>k, TargetFields
  <2> QED BY <2>1, <1>d DEF ItemsInv
<1>s. SatInv(v) /\ ReadyInv(v)
  BY <1>d DEF SatInv, ReadyInv
<1>1. StoreInv(v)
  BY <1>c, <1>j, <1>t, <1>g, <1>i, <1>s, <1>v, <1>d DEF StoreInv
<1> QED BY <1>1 DEF v

\* What holds of 0, and of a number when of the one before, holds of all of them.
LEMMA UpTo ==
    ASSUME NEW L \in Nat, NEW S, 0 \in S, \A n \in 0 .. L : n < L /\ n \in S => n + 1 \in S
    PROVE  0 .. L \subseteq S
<1> DEFINE bad == {n \in Nat : n <= L /\ n \notin S}
           less == {p \in Nat \X Nat : p[1] < p[2]}
<1> SUFFICES ASSUME bad # {} PROVE FALSE
  OBVIOUS
<1>1. IsWellFoundedOn(less, Nat)
  <2>1. OpToRel(<, Nat) = less
    BY DEF OpToRel
  <2> QED BY <2>1, NatLessThanWellFounded
<1>2. bad \subseteq Nat /\ bad # {}
  OBVIOUS
<1> HIDE DEF less
<1>3. PICK m \in bad : \A k \in bad : <<k, m>> \notin less
  BY <1>1, <1>2, WFMin, Zenon
<1>4. \A k \in bad : ~(k < m)
  BY <1>3 DEF less
<1>5. m \in Nat /\ m # 0 /\ m <= L /\ m \notin S
  BY <1>3
<1>6. m - 1 \in 0 .. L /\ m - 1 < L /\ m - 1 < m /\ (m - 1) + 1 = m
  BY <1>5
<1>7. m - 1 \in S
  BY <1>4, <1>6
<1> QED BY <1>5, <1>6, <1>7

\* The updates of some targets, one after the other.
LEMMA UpdatedAllIs ==
    ASSUME NEW w, NEW targets
    PROVE  \E f : /\ f[0] = w /\ UpdatedAll(w, targets) = f[Len(ByName)]
                  /\ \A n \in 1 .. Len(ByName) :
                        f[n] = IF ByName[n] \in targets THEN Updated(f[n - 1], ByName[n]) ELSE f[n - 1]
<1> DEFINE After(x, n) == IF ByName[n] \in targets THEN Updated(x, ByName[n]) ELSE x
           Is(f, k) == f = [n \in 0 .. k |-> IF n = 0 THEN w ELSE After(f[n - 1], n)]
           S == {k \in Nat : \E f : Is(f, k)}
           L == Len(ByName)
<1>l. L \in Nat
  BY OrderAssumption
<1>u. UpdatedAll(w, targets) = (CHOOSE f : Is(f, L))[L]
  BY DEF UpdatedAll
<1> HIDE DEF After, L
<1>1. 0 \in S
  <2>1. Is([n \in 0 .. 0 |-> w], 0)
    OBVIOUS
  <2> QED BY <2>1
<1>2. ASSUME NEW k \in 0 .. L, k \in S PROVE k + 1 \in S
  <2>1. PICK f : Is(f, k)
    BY <1>2
  <2> DEFINE g == [n \in 0 .. k + 1 |-> IF n <= k THEN f[n] ELSE After(f[k], n)]
  <2>2. k \in Nat /\ k + 1 \in Nat
    OBVIOUS
  <2>3. \A n \in 0 .. k : f[n] = IF n = 0 THEN w ELSE After(f[n - 1], n)
    BY <2>1
  <2>4. ASSUME NEW n \in 0 .. k + 1
        PROVE  g[n] = IF n = 0 THEN w ELSE After(g[n - 1], n)
    <3>1. CASE n <= k
      <4>1. g[n] = f[n] /\ n \in 0 .. k
        BY <2>2, <3>1
      <4>2. n # 0 => g[n - 1] = f[n - 1]
        BY <2>2, <3>1
      <4> QED BY <4>1, <4>2, <2>3
    <3>2. CASE ~(n <= k)
      <4>1. n = k + 1 /\ n # 0 /\ n - 1 = k /\ g[n] = After(f[k], n)
        BY <2>2, <3>2
      <4>2. g[n - 1] = f[k]
        BY <4>1, <2>2
      <4> QED BY <4>1, <4>2
    <3> QED BY <3>1, <3>2
  <2>5. Is(g, k + 1)
    BY <2>4
  <2> QED BY <2>2, <2>5
<1>3. L \in S
  <2> HIDE DEF S
  <2>1. 0 .. L \subseteq S
    BY <1>l, <1>1, <1>2, UpTo
  <2> QED BY <2>1, <1>l
<1> DEFINE h == CHOOSE f : Is(f, L)
<1>5. Is(h, L)
  BY <1>3
<1> HIDE DEF h
<1>6. \A n \in 0 .. L : h[n] = IF n = 0 THEN w ELSE After(h[n - 1], n)
  BY <1>5
<1>7. UpdatedAll(w, targets) = h[L]
  BY <1>u DEF h
<1>8. h[0] = w /\ \A n \in 1 .. L : h[n] = After(h[n - 1], n)
  BY <1>6, <1>l
<1> QED BY <1>7, <1>8 DEF After, L

\* Store v comes from w by updates: no job is completed by one, and one that had
\* nothing left to wait for still has nothing.
IsJob(t) == t.kind \in {"job", "testjob"}
Follows(w, v) ==
    /\ StoreInv(v) /\ Grows(w, v)
    /\ \A t \in v.completed : IsJob(t) => t \in w.completed
    /\ \A t \in w.all : IsJob(t) /\ Settled(w, t) => Settled(v, t)

\* Each store comes from itself.
LEMMA FollowsItself ==
    ASSUME NEW w, StoreInv(w)
    PROVE  Follows(w, w)
<1>1. Grows(w, w)
  BY DEF Grows, LaterNeeds, Later
<1> QED BY <1>1 DEF Follows

\* One update more.
LEMMA FollowsUpdated ==
    ASSUME NEW w, StoreInv(w), NEW v, Follows(w, v), NEW t \in v.all
    PROVE  Follows(w, Updated(v, t))
<1> DEFINE x == Updated(v, t)
<1>1. StoreInv(v) /\ Grows(w, v)
  BY DEF Follows
<1>2. StoreInv(x) /\ Grows(v, x) /\ Fixed(v, x, t)
  BY <1>1, UpdatedStep DEF Step
<1>3. IsJob(t) => x.completed = v.completed
  BY <1>1, JobNotDone DEF IsJob
<1> HIDE DEF x
<1>4. Grows(w, x)
  BY <1>1, <1>2, GrowsTrans
<1>5. ASSUME NEW u \in x.completed, IsJob(u) PROVE u \in w.completed
  <2>1. x.completed \subseteq v.completed \cup {t}
    BY <1>2 DEF Fixed
  <2>2. u \in v.completed
    BY <1>3, <1>5, <2>1
  <2> QED BY <1>5, <2>2 DEF Follows
<1>6. ASSUME NEW u \in w.all, IsJob(u), Settled(w, u) PROVE Settled(x, u)
  <2>1. Settled(v, u)
    BY <1>6 DEF Follows
  <2>2. u \in v.all /\ u.kind \in {"job", "testjob"}
    BY <1>1, <1>6 DEF Grows, IsJob
  <2> QED BY <1>1, <1>2, <2>1, <2>2, SettledKept
<1>7. Follows(w, x)
  BY <1>2, <1>4, <1>5, <1>6 DEF Follows
<1> QED BY <1>7 DEF x

\* The updates of some targets.
LEMMA UpdatedAllFollows ==
    ASSUME NEW w, StoreInv(w), NEW targets, targets \subseteq w.all
    PROVE  Follows(w, UpdatedAll(w, targets))
<1> DEFINE L == Len(ByName)
<1>1. PICK f : /\ f[0] = w /\ UpdatedAll(w, targets) = f[L]
               /\ \A n \in 1 .. L :
                    f[n] = IF ByName[n] \in targets THEN Updated(f[n - 1], ByName[n]) ELSE f[n - 1]
  BY UpdatedAllIs
<1> DEFINE S == {n \in Nat : Follows(w, f[n])}
<1>l. L \in Nat
  BY OrderAssumption
<1> HIDE DEF L
<1>2. 0 \in S
  BY <1>1, FollowsItself
<1>3. ASSUME NEW n \in 0 .. L, n < L, n \in S PROVE n + 1 \in S
  <2>1. n + 1 \in 1 .. L /\ (n + 1) - 1 = n /\ n + 1 \in Nat
    BY <1>l, <1>3
  <2>2. f[n + 1] = IF ByName[n + 1] \in targets THEN Updated(f[n], ByName[n + 1]) ELSE f[n]
    BY <1>1, <2>1
  <2>3. Follows(w, f[n])
    BY <1>3
  <2>4. w.all \subseteq f[n].all
    BY <2>3 DEF Follows, Grows
  <2>5. Follows(w, f[n + 1])
    <3>1. CASE ByName[n + 1] \in targets
      <4>1. ByName[n + 1] \in f[n].all
        BY <2>4, <3>1
      <4>2. Follows(w, Updated(f[n], ByName[n + 1]))
        BY <2>3, <4>1, FollowsUpdated
      <4> QED BY <4>2, <2>2, <3>1
    <3>2. CASE ByName[n + 1] \notin targets
      BY <2>2, <2>3, <3>2
    <3> QED BY <3>1, <3>2
  <2> QED BY <2>1, <2>5
<1>4. L \in S
  <2> HIDE DEF S
  <2>1. 0 .. L \subseteq S
    BY <1>l, <1>2, <1>3, UpTo
  <2> QED BY <2>1, <1>l
<1> QED BY <1>1, <1>4

\* From one store to a second, and to a third.
LEMMA FollowsTrans ==
    ASSUME NEW w, NEW v, NEW x, StoreInv(w), Follows(w, v), Follows(v, x)
    PROVE  Follows(w, x)
<1>1. Grows(w, x)
  BY GrowsTrans DEF Follows
<1>2. w.all \subseteq v.all
  BY DEF Follows, Grows
<1> QED BY <1>1, <1>2 DEF Follows

\* A pass of update_statuses.
LEMMA PassFollows ==
    ASSUME NEW w, StoreInv(w), NEW prev, NEW map
    PROVE  Follows(w, UpdatePass(w, prev, map))
<1> DEFINE v == UpdatedAll(w, Dependent(w, w.completed \ prev))
<1>1. Follows(w, v)
  <2>1. Dependent(w, w.completed \ prev) \subseteq w.all
    BY DEF Dependent
  <2> QED BY <2>1, UpdatedAllFollows
<1>2. UpdatePass(w, prev, map) = UpdatedAll(v, Changed(w, map))
  BY DEF UpdatePass
<1> HIDE DEF v
<1>3. Changed(w, map) \subseteq v.all
  BY <1>1 DEF Changed, Incomplete, Follows, Grows
<1>4. Follows(v, UpdatedAll(v, Changed(w, map)))
  BY <1>1, <1>3, UpdatedAllFollows DEF Follows
<1> QED BY <1>1, <1>2, <1>4, FollowsTrans

\* _init_all_statuses.
LEMMA InitialFollows ==
    ASSUME NEW w, StoreInv(w)
    PROVE  Follows(w, InitialStore(w))
<1> DEFINE v == UpdatedAll(w, w.all \ w.own)
<1>1. Follows(w, v)
  <2>1. w.all \ w.own \subseteq w.all
    OBVIOUS
  <2> QED BY <2>1, UpdatedAllFollows
<1>2. InitialStore(w) = UpdatedAll(v, w.own)
  BY DEF InitialStore
<1> HIDE DEF v
<1>3. w.own \subseteq v.all
  BY <1>1 DEF Follows, Grows, StoreInv, ClosedInv
<1>4. Follows(v, UpdatedAll(v, w.own))
  BY <1>1, <1>3, UpdatedAllFollows DEF Follows
<1> QED BY <1>1, <1>2, <1>4, FollowsTrans

(* Jobs of the pool *)

\* The parts of the invariant that speak of what each step may disturb.
LEMMA PoolInitInv == ASSUME PoolInit PROVE PoolInv
<1>1. Cardinality(Process) \in Nat
  BY PoolAssumption, FS_CardinalityType
<1>2. free \in Seq(Process)
  BY <1>1, SeqDef DEF PoolInit
<1>3. PoolTypeOK
  <2>1. queue \in Seq(Job)
    BY DEF PoolInit
  <2>2. assigned \in [Process -> Job \cup {Idle}]
    BY DEF PoolInit
  <2>3. finished \subseteq Job /\ batch \subseteq Job /\ iterating \in BOOLEAN
    BY DEF PoolInit
  <2>4. QED
    BY <1>2, <2>1, <2>2, <2>3 DEF PoolTypeOK
<1>4. Jobs = {}
  BY DEF PoolInit, Jobs
<1>5. OneJobPerProcess
  BY DEF PoolInit, OneJobPerProcess
<1>6. WorkConserving /\ OnePlacePerJob /\ BatchAssigned
  BY <1>4 DEF PoolInit, WorkConserving, OnePlacePerJob, BatchAssigned, Unique, Elements
<1>7. QED
  BY <1>3, <1>5, <1>6 DEF PoolInv

\* Adding an element that is not there, at the end of a sequence.
LEMMA AppendNew ==
    ASSUME NEW S, NEW seq \in Seq(S), NEW x \in S, Unique(seq), x \notin Elements(seq)
    PROVE  /\ Append(seq, x) \in Seq(S)
           /\ Unique(Append(seq, x))
           /\ Elements(Append(seq, x)) = Elements(seq) \cup {x}
BY DEF Unique, Elements

\* Taking the first one away.
LEMMA TakeFirst ==
    ASSUME NEW S, NEW seq \in Seq(S), seq # <<>>, Unique(seq)
    PROVE  /\ Head(seq) \in Elements(seq) /\ Head(seq) \in S
           /\ Tail(seq) \in Seq(S)
           /\ Unique(Tail(seq))
           /\ Elements(Tail(seq)) = Elements(seq) \ {Head(seq)}
<1>1. Len(seq) \in Nat \ {0} /\ Head(seq) = seq[1] /\ DOMAIN seq = 1 .. Len(seq)
  OBVIOUS
<1>2. Tail(seq) \in Seq(S) /\ Len(Tail(seq)) = Len(seq) - 1
  OBVIOUS
<1>3. \A i \in 1 .. Len(seq) - 1 : Tail(seq)[i] = seq[i + 1]
  OBVIOUS
<1>4. Unique(Tail(seq))
  BY <1>1, <1>2, <1>3 DEF Unique
<1>5. Elements(Tail(seq)) = Elements(seq) \ {Head(seq)}
  <2>1. ASSUME NEW x \in Elements(Tail(seq)) PROVE x \in Elements(seq) \ {Head(seq)}
    BY <1>1, <1>2, <1>3 DEF Elements, Unique
  <2>2. ASSUME NEW x \in Elements(seq) \ {Head(seq)} PROVE x \in Elements(Tail(seq))
    <3>1. PICK i \in 1 .. Len(seq) : x = seq[i]
      BY <1>1 DEF Elements
    <3>2. i - 1 \in 1 .. Len(seq) - 1 /\ Tail(seq)[i - 1] = x
      BY <1>1, <1>3, <3>1
    <3>3. DOMAIN Tail(seq) = 1 .. Len(seq) - 1
      BY <1>1, <1>2
    <3>4. QED
      BY <3>2, <3>3 DEF Elements
  <2>3. QED
    BY <2>1, <2>2
<1>6. Head(seq) \in S
  OBVIOUS
<1>7. Head(seq) \in Elements(seq)
  BY <1>1 DEF Elements
<1>8. QED
  BY <1>2, <1>4, <1>5, <1>6, <1>7

\* Taking the last one away.
LEMMA TakeLast ==
    ASSUME NEW S, NEW seq \in Seq(S), seq # <<>>, Unique(seq)
    PROVE  LET rest == SubSeq(seq, 1, Len(seq) - 1)  last == seq[Len(seq)] IN
           /\ last \in Elements(seq) /\ last \in S
           /\ rest \in Seq(S)
           /\ Unique(rest)
           /\ Elements(rest) = Elements(seq) \ {last}
<1> DEFINE rest == SubSeq(seq, 1, Len(seq) - 1)
           last == seq[Len(seq)]
<1>1. Len(seq) \in Nat \ {0} /\ DOMAIN seq = 1 .. Len(seq)
  OBVIOUS
<1>2. rest \in Seq(S) /\ Len(rest) = Len(seq) - 1 /\ \A i \in 1 .. Len(seq) - 1 : rest[i] = seq[i]
  BY <1>1
<1>3. DOMAIN rest = 1 .. Len(seq) - 1
  BY <1>2
<1> HIDE DEF rest
<1>4. Unique(rest)
  BY <1>1, <1>2, <1>3 DEF Unique
<1>5. last \in Elements(seq) /\ last \in S
  BY <1>1 DEF Elements
<1>6. Elements(rest) = Elements(seq) \ {last}
  <2>1. ASSUME NEW x \in Elements(rest) PROVE x \in Elements(seq) \ {last}
    BY <1>1, <1>2, <1>3 DEF Elements, Unique
  <2>2. ASSUME NEW x \in Elements(seq) \ {last} PROVE x \in Elements(rest)
    BY <1>1, <1>2, <1>3 DEF Elements
  <2>3. QED
    BY <2>1, <2>2
<1>7. QED
  BY <1>2, <1>4, <1>5, <1>6 DEF rest

\* A job of no place is submitted.
LEMMA SubmitInv ==
    ASSUME PoolInv, NEW job \in Job, job \notin Jobs \cup Elements(queue), PoolSubmit(job)
    PROVE  PoolInv'
<1> USE PoolAssumption
<1> USE DEF PoolInv, PoolTypeOK, BatchAssigned
<1>1. CASE free # <<>>
  <2> DEFINE p == free[Len(free)]
  <2>1. /\ p \in Process /\ p \in Elements(free)
        /\ free' \in Seq(Process) /\ Unique(free')
        /\ Elements(free') = Elements(free) \ {p}
    <3>1. free' = SubSeq(free, 1, Len(free) - 1) /\ free \in Seq(Process) /\ Unique(free)
      BY <1>1 DEF PoolSubmit, OneJobPerProcess
    <3>2. QED
      BY <1>1, <3>1, TakeLast
  <2>2. /\ assigned' = [assigned EXCEPT ![p] = job]
        /\ UNCHANGED <<queue, finished, batch, iterating>>
    BY <1>1 DEF PoolSubmit
  <2>3. assigned[p] = Idle /\ queue = <<>>
    BY <1>1, <2>1 DEF OneJobPerProcess, WorkConserving
  <2> HIDE DEF p
  <2>4. PoolTypeOK'
    BY <2>1, <2>2
  <2>5. Jobs' = Jobs \cup {job}
    BY <2>1, <2>2, <2>3 DEF Jobs
  <2>6. OneJobPerProcess'
    BY <2>1, <2>2 DEF OneJobPerProcess
  <2>7. OnePlacePerJob'
    <3>1. Elements(queue) = {}
      BY <2>3 DEF Elements
    <3>2. UNCHANGED Elements(queue) /\ UNCHANGED Unique(queue)
      BY <2>2 DEF Elements, Unique
    <3>3. \A q \in Process : assigned[q] # job
      BY DEF Jobs
    <3>4. QED
      BY <2>1, <2>2, <3>1, <3>2, <3>3 DEF OnePlacePerJob
  <2>8. WorkConserving' /\ BatchAssigned'
    BY <2>2, <2>3, <2>5 DEF WorkConserving
  <2>9. QED
    BY <2>4, <2>6, <2>7, <2>8
<1>2. CASE free = <<>>
  <2>1. queue' = Append(queue, job) /\ UNCHANGED <<free, assigned, finished, batch, iterating>>
    BY <1>2 DEF PoolSubmit
  <2>2. queue' \in Seq(Job) /\ Unique(queue') /\ Elements(queue') = Elements(queue) \cup {job}
    BY <2>1, AppendNew DEF OnePlacePerJob
  <2>3. UNCHANGED Jobs
    BY <2>1 DEF Jobs
  <2>4. UNCHANGED Elements(free) /\ UNCHANGED Unique(free)
    BY <2>1 DEF Elements, Unique
  <2>5. QED
    BY <1>2, <2>1, <2>2, <2>3, <2>4 DEF OneJobPerProcess, WorkConserving, OnePlacePerJob
<1>3. QED
  BY <1>1, <1>2

\* The process of a yielded job takes the next one, or becomes free.
LEMMA YieldInv ==
    ASSUME PoolInv, NEW p \in Process, PoolYield(p)
    PROVE  PoolInv'
<1> USE PoolAssumption
<1> USE DEF PoolInv, PoolTypeOK, BatchAssigned
<1>1. assigned[p] \in Job /\ assigned[p] # Idle /\ p \notin Elements(free)
  BY DEF PoolYield, OneJobPerProcess
<1>2. /\ batch' = batch \ {assigned[p]} /\ finished' = finished \ {assigned[p]}
      /\ UNCHANGED iterating
  BY DEF PoolYield
<1>3. CASE queue # <<>>
  <2> DEFINE job == Head(queue)
  <2>1. assigned' = [assigned EXCEPT ![p] = job] /\ queue' = Tail(queue) /\ UNCHANGED free
    BY <1>3 DEF PoolYield
  <2>2. /\ job \in Job /\ job \in Elements(queue)
        /\ queue' \in Seq(Job) /\ Unique(queue')
        /\ Elements(queue') = Elements(queue) \ {job}
    BY <1>3, <2>1, TakeFirst DEF OnePlacePerJob
  <2>3. free = <<>>
    BY <1>3 DEF WorkConserving
  <2>4. \A q \in Process : assigned[q] # job
    BY <2>2 DEF OnePlacePerJob, Jobs
  <2> HIDE DEF job
  <2>5. Jobs' = (Jobs \ {assigned[p]}) \cup {job}
    BY <1>1, <2>1, <2>2 DEF Jobs, OnePlacePerJob
  <2>6. PoolTypeOK'
    BY <1>2, <2>1, <2>2
  <2>7. OneJobPerProcess' /\ WorkConserving'
    <3>1. UNCHANGED Elements(free) /\ UNCHANGED Unique(free)
      BY <2>1 DEF Elements, Unique
    <3>2. QED
      BY <1>1, <2>1, <2>2, <2>3, <3>1 DEF OneJobPerProcess, WorkConserving
  <2>8. OnePlacePerJob'
    BY <2>1, <2>2, <2>4, <2>5 DEF OnePlacePerJob
  <2>9. BatchAssigned'
    BY <1>2, <2>5
  <2>10. QED
    BY <2>6, <2>7, <2>8, <2>9
<1>4. CASE queue = <<>>
  <2>1. assigned' = [assigned EXCEPT ![p] = Idle] /\ free' = Append(free, p) /\ UNCHANGED queue
    BY <1>4 DEF PoolYield
  <2>2. free' \in Seq(Process) /\ Unique(free') /\ Elements(free') = Elements(free) \cup {p}
    BY <1>1, <2>1, AppendNew DEF OneJobPerProcess
  <2>3. Jobs' = Jobs \ {assigned[p]}
    BY <1>1, <2>1 DEF Jobs, OnePlacePerJob
  <2>4. UNCHANGED Elements(queue) /\ UNCHANGED Unique(queue)
    BY <2>1 DEF Elements, Unique
  <2>5. PoolTypeOK' /\ BatchAssigned'
    BY <1>2, <2>1, <2>2, <2>3
  <2>6. OneJobPerProcess' /\ WorkConserving'
    BY <1>4, <2>1, <2>2 DEF OneJobPerProcess, WorkConserving
  <2>7. OnePlacePerJob'
    BY <1>1, <2>1, <2>3, <2>4 DEF OnePlacePerJob
  <2>8. QED
    BY <2>5, <2>6, <2>7
<1>5. QED
  BY <1>3, <1>4

\* A future is done, an iteration starts or ends, or nothing happens in the pool.
LEMMA OtherStepInv ==
    ASSUME PoolInv,
           (\E p \in Process : PoolFinish(p)) \/ PoolIterate \/ PoolEnd \/ UNCHANGED poolVars
    PROVE  PoolInv'
<1>1. ASSUME UNCHANGED <<free, queue, assigned>>,
             finished' \subseteq Jobs /\ finished' \subseteq Job,
             batch' \subseteq Jobs /\ batch' \subseteq Job, iterating' \in BOOLEAN
      PROVE  PoolInv'
  BY <1>1 DEF PoolInv, PoolTypeOK, OneJobPerProcess, WorkConserving, OnePlacePerJob,
              BatchAssigned, Jobs, Elements, Unique
<1>2. Jobs \subseteq Job
  BY DEF PoolInv, PoolTypeOK, Jobs
<1>3. CASE \E p \in Process : PoolFinish(p)
  <2> USE <1>3 DEF PoolFinish, PoolInv, PoolTypeOK, BatchAssigned
  <2>1. UNCHANGED <<free, queue, assigned, batch, iterating>>
    OBVIOUS
  <2>2. finished' \subseteq Jobs
    BY PoolAssumption DEF Jobs
  <2> QED BY <1>1, <1>2, <2>1, <2>2
<1>4. CASE PoolIterate
  BY <1>1, <1>2, <1>4 DEF PoolIterate, PoolInv, PoolTypeOK, BatchAssigned
<1>5. CASE PoolEnd
  BY <1>1, <1>2, <1>5 DEF PoolEnd, PoolInv, PoolTypeOK, BatchAssigned
<1>6. CASE UNCHANGED poolVars
  BY <1>1, <1>2, <1>6 DEF poolVars, PoolInv, PoolTypeOK, BatchAssigned
<1> QED BY <1>3, <1>4, <1>5, <1>6

\* No driver is lost to the pool and none has two jobs, no job is lost or run twice,
\* and an iteration waits only for jobs that some driver has.
THEOREM PoolSafe == PoolSpec => []PoolInv
<1>1. PoolInit => PoolInv
  BY PoolInitInv
<1>2. PoolInv /\ [PoolNext]_poolVars => PoolInv'
  BY SubmitInv, YieldInv, OtherStepInv DEF PoolNext
<1> QED BY <1>1, <1>2, PTL DEF PoolSpec

\* Where the jobs are after one is submitted.
LEMMA SubmittedPlaces ==
    ASSUME PoolInv, NEW job \in Job, job \notin Jobs \cup Elements(queue), PoolSubmit(job)
    PROVE  (Jobs \cup Elements(queue))' = Jobs \cup Elements(queue) \cup {job}
<1> USE PoolAssumption
<1>1. CASE free # <<>>
  <2> DEFINE p == free[Len(free)]
  <2>1. p \in Process /\ p \in Elements(free)
    BY <1>1, TakeLast DEF PoolInv, PoolTypeOK, OneJobPerProcess
  <2>2. assigned' = [assigned EXCEPT ![p] = job] /\ UNCHANGED queue
    BY <1>1 DEF PoolSubmit
  <2>3. assigned[p] = Idle
    BY <2>1 DEF PoolInv, OneJobPerProcess
  <2> HIDE DEF p
  <2>4. Jobs' = Jobs \cup {job}
    BY <2>1, <2>2, <2>3 DEF Jobs, PoolInv, PoolTypeOK
  <2>5. Elements(queue)' = Elements(queue)
    BY <2>2 DEF Elements
  <2> QED BY <2>4, <2>5
<1>2. CASE free = <<>>
  <2>1. queue' = Append(queue, job) /\ UNCHANGED assigned
    BY <1>2 DEF PoolSubmit
  <2>2. Elements(queue)' = Elements(queue) \cup {job}
    BY <2>1, AppendNew DEF PoolInv, PoolTypeOK, OnePlacePerJob
  <2>3. Jobs' = Jobs
    BY <2>1 DEF Jobs
  <2> QED BY <2>2, <2>3
<1> QED BY <1>1, <1>2

\* Where they are after one is yielded.
LEMMA YieldedPlaces ==
    ASSUME PoolInv, NEW p \in Process, PoolYield(p)
    PROVE  /\ assigned[p] \in Jobs \cap finished
           /\ (Jobs \cup Elements(queue))' = (Jobs \cup Elements(queue)) \ {assigned[p]}
           /\ finished' \subseteq finished
<1> USE PoolAssumption
<1>1. assigned[p] \in Job /\ assigned[p] # Idle /\ assigned[p] \in Jobs \cap finished /\ finished' \subseteq finished
  BY DEF PoolYield, PoolInv, PoolTypeOK, BatchAssigned
<1>t. assigned \in [Process -> Job \cup {Idle}] /\ queue \in Seq(Job)
  BY DEF PoolInv, PoolTypeOK
<1>p. /\ \A q, r \in Process : assigned[q] = assigned[r] => q = r \/ assigned[q] = Idle
      /\ Unique(queue) /\ Elements(queue) \cap Jobs = {}
  BY DEF PoolInv, OnePlacePerJob
<1>2. CASE queue # <<>>
  <2> DEFINE job == Head(queue)
  <2>1. assigned' = [assigned EXCEPT ![p] = job] /\ queue' = Tail(queue)
    BY <1>2 DEF PoolYield
  <2>2. job \in Job /\ job \in Elements(queue) /\ Elements(queue)' = Elements(queue) \ {job}
    BY <1>2, <1>t, <1>p, <2>1, TakeFirst
  <2> HIDE DEF job
  <2>3. Jobs' = (Jobs \ {assigned[p]}) \cup {job}
    BY <1>1, <1>t, <1>p, <2>1, <2>2 DEF Jobs
  <2> QED BY <1>1, <1>p, <2>2, <2>3
<1>3. CASE queue = <<>>
  <2>1. assigned' = [assigned EXCEPT ![p] = Idle] /\ UNCHANGED queue
    BY <1>3 DEF PoolYield
  <2>2. Jobs' = Jobs \ {assigned[p]}
    BY <1>1, <1>t, <1>p, <2>1 DEF Jobs
  <2>3. Elements(queue)' = Elements(queue)
    BY <2>1 DEF Elements
  <2> QED BY <1>1, <1>p, <2>2, <2>3
<1> QED BY <1>1, <1>2, <1>3

-----------------------------------------------------------------------------
(* The runner *)

\* The jobs that the pool has.
InPool == Jobs \cup Elements(queue)

\* What the runner keeps about its jobs: each was ready when it was submitted, and
\* still has nothing to wait for; it is with the pool, or failed, or is completed,
\* and a test that is at a completed job had a success, or was given up.
SubmittedInv ==
    /\ submitted \subseteq store.own
    /\ \A t \in submitted : IsJob(t) /\ Settled(store, t)
    /\ failures \subseteq submitted /\ InPool \subseteq submitted
    /\ \A t \in submitted : t \in InPool <=> t \notin failures \cup store.completed
    /\ \A t \in submitted : t \in store.completed /\ t.kind = "testjob" /\ store.test[t.of] = t =>
            (t \in DOMAIN answer /\ answer[t] = Ok) \/ phase = "error"
AnswersInv ==
    /\ DOMAIN given = submitted /\ DOMAIN answer \subseteq submitted
    /\ \A t \in DOMAIN answer : answer[t] \in JobAnswer
    /\ finished \subseteq DOMAIN answer
RunnerInv ==
    /\ options \in Options /\ phase \in {"submit", "collect", "update", "done", "stopped", "error"}
    /\ StoreInv(store) /\ prevCompleted \subseteq store.completed
    /\ PoolInv /\ SubmittedInv /\ AnswersInv

\* A target that is submitted is a job.
LEMMA JobTargets ==
    ASSUME NEW t \in Target, IsJob(t)
    PROVE  t \in Job /\ t.of \in Module /\ t.idx \in 1 .. MaxJobs
<1>1. OfItsKind(t)
  BY TargetShape
<1>2. CASE t.kind = "job"
  BY <1>1, <1>2, JobAssumption DEF OfItsKind, JobTarget
<1>3. CASE t.kind = "testjob"
  BY <1>1, <1>3, JobAssumption DEF OfItsKind, JobTarget
<1> QED BY <1>2, <1>3 DEF IsJob

\* What a driver may answer.
LEMMA AnswersAre ==
    ASSUME NEW t \in Target, IsJob(t), store \in Store
    PROVE  Answers(t) \subseteq JobAnswer
<1>1. t.of \in Module
  BY JobTargets
<1>2. store.code.requires[t.of] \subseteq Module \cup Item /\ store.code.uses[t.of] \subseteq Module \cup Item
  BY <1>1, ProgramTypes, StoreTypes
<1>3. \A set : set \subseteq Module \cup Item => Errors(t, set) \subseteq JobAnswer
  BY DEF Errors, JobAnswer
<1>4. Ok \in JobAnswer
  BY DEF JobAnswer
<1>5. ImportAnswers(t) \subseteq JobAnswer
  <2> DEFINE missing == store.code.requires[t.of] \ given[t]
  <2>1. missing \subseteq Module \cup Item
    BY <1>2
  <2>2. ImportAnswers(t) = Errors(t, missing) \cup IF missing \cap Item = {} THEN {Ok} ELSE {}
    BY DEF ImportAnswers
  <2> HIDE DEF missing
  <2>3. Errors(t, missing) \subseteq JobAnswer
    BY <1>3, <2>1
  <2> QED BY <1>4, <2>2, <2>3
<1>6. TestAnswers(t) \subseteq JobAnswer
  <2> DEFINE missing == (store.code.requires[t.of] \cup store.code.uses[t.of]) \ given[t]
  <2>1. missing \subseteq Module \cup Item
    BY <1>2
  <2>2. TestAnswers(t) =
            Errors(t, missing) \cup IF missing \cap (Item \cup store.code.uses[t.of]) = {} THEN {Ok} ELSE {}
    BY DEF TestAnswers
  <2> HIDE DEF missing
  <2>3. Errors(t, missing) \subseteq JobAnswer
    BY <1>3, <2>1
  <2> QED BY <1>4, <2>2, <2>3
<1> QED BY <1>5, <1>6 DEF Answers

\* It starts with a store of targets that are not completed, and nothing submitted.
LEMMA RunnerInitInv == ASSUME RunnerInit PROVE RunnerInv
<1>1. PICK program \in Programs, cache \in Caches :
        store = InitialStore(CreatedStore(program, cache))
  BY DEF RunnerInit
<1>2. cache \in [imports : SUBSET Module, stale : SUBSET Module, tests : SUBSET Module, staleTests : SUBSET Module]
  BY CacheAssumption DEF Caches
<1>3. StoreInv(CreatedStore(program, cache))
  BY <1>2, CreatedInv
<1>4. StoreInv(store)
  BY <1>1, <1>3, InitialFollows DEF Follows
<1>5. PoolInv
  BY PoolInitInv DEF RunnerInit
<1>6. InPool = {}
  BY DEF RunnerInit, PoolInit, InPool, Jobs, Elements
<1>7. SubmittedInv
  BY <1>6 DEF RunnerInit, SubmittedInv
<1>8. AnswersInv
  BY DEF RunnerInit, AnswersInv, PoolInit
<1> QED BY <1>4, <1>5, <1>7, <1>8 DEF RunnerInit, RunnerInv

\* The store goes on as the targets are updated.
LEMMA UpdateInv == ASSUME RunnerInv, UpdateStatuses PROVE RunnerInv'
<1>1. Follows(store, store') /\ prevCompleted' \subseteq store'.completed
  <2>1. CASE store.completed = prevCompleted /\ Changed(store, prevMap) = {}
    BY <2>1, FollowsItself DEF UpdateStatuses, RunnerInv, statusVars
  <2>2. CASE ~(store.completed = prevCompleted /\ Changed(store, prevMap) = {})
    <3>1. store' = UpdatePass(store, prevCompleted, prevMap) /\ prevCompleted' = store.completed
      BY <2>2 DEF UpdateStatuses
    <3>2. Follows(store, store')
      BY <3>1, PassFollows DEF RunnerInv
    <3> QED BY <3>1, <3>2 DEF Follows, Grows
  <2> QED BY <2>1, <2>2
<1>2. UNCHANGED <<poolVars, jobVars, options>> /\ phase' \in {"submit", "update"} /\ phase = "update"
  BY DEF UpdateStatuses
<1>3. PoolInv' /\ InPool' = InPool
  BY <1>2, OtherStepInv DEF RunnerInv, poolVars, InPool, Jobs, Elements
<1>4. StoreInv(store')
  BY <1>1 DEF Follows
<1>5. submitted' \subseteq store'.own /\ submitted \subseteq store.all
  BY <1>1, <1>2 DEF RunnerInv, SubmittedInv, Follows, Grows, jobVars, StoreInv, ClosedInv
<1>6. \A t \in submitted : IsJob(t) /\ Settled(store', t)
  BY <1>1, <1>5 DEF RunnerInv, SubmittedInv, Follows
<1>7. \A t \in submitted : t \in store'.completed <=> t \in store.completed
  BY <1>1, <1>6 DEF Follows, Grows
<1>8. ASSUME NEW t \in submitted, t.kind = "testjob", store'.test[t.of] = t PROVE store.test[t.of] = t
  <2>1. t.of \in Module
    BY <1>5, <1>6, JobTargets, StoreTypes DEF RunnerInv, StoreInv
  <2> QED BY <1>1, <1>5, <1>8, <2>1 DEF Follows, Grows
<1>9. SubmittedInv'
  <2>1. submitted' = submitted /\ failures' = failures /\ answer' = answer
    BY <1>2 DEF jobVars
  <2> QED BY <1>2, <1>3, <1>5, <1>6, <1>7, <1>8, <2>1 DEF RunnerInv, SubmittedInv
<1>10. AnswersInv'
  BY <1>2 DEF RunnerInv, AnswersInv, jobVars, poolVars
<1> QED BY <1>1, <1>2, <1>3, <1>4, <1>9, <1>10 DEF RunnerInv

\* A job that is submitted has nothing to wait for, and has not been submitted.
LEMMA SubmitJobInv == ASSUME RunnerInv, SubmitJob PROVE RunnerInv'
<1>1. PICK t \in ReadyJobs : PoolSubmit(t) /\ submitted' = submitted \cup {t} /\ given' = Joined([u \in {t} |-> Given(t)], given)
  BY DEF SubmitJob
<1>2. UNCHANGED <<options, store, statusVars, answer, failures, phase>> /\ phase = "submit"
  BY DEF SubmitJob
<1>3. t \in store.ready /\ t \in store.own /\ t \notin store.completed /\ t \notin submitted
  BY DEF ReadyJobs
<1>4. IsJob(t) /\ Settled(store, t) /\ t \in Target
  BY <1>3, StoreTypes DEF RunnerInv, StoreInv, ClosedInv, ReadyInv, IsJob
<1>5. t \in Job /\ t \notin Jobs \cup Elements(queue)
  BY <1>3, <1>4, JobTargets DEF RunnerInv, SubmittedInv, InPool
<1>6. PoolInv' /\ InPool' = InPool \cup {t}
  BY <1>1, <1>5, SubmitInv, SubmittedPlaces DEF RunnerInv, InPool
<1>7. finished' = finished
  BY <1>1 DEF PoolSubmit
<1>8. SubmittedInv'
  BY <1>1, <1>2, <1>3, <1>4, <1>6 DEF RunnerInv, SubmittedInv
<1>9. DOMAIN given' = submitted'
  BY <1>1 DEF RunnerInv, AnswersInv, Joined
<1>10. AnswersInv'
  BY <1>1, <1>2, <1>7, <1>9 DEF RunnerInv, AnswersInv
<1> QED BY <1>2, <1>6, <1>8, <1>10 DEF RunnerInv, statusVars

\* The end of a run, the start and the end of an iteration.
LEMMA EndsInv ==
    ASSUME RunnerInv, MakeJobFails \/ EndTargetSet \/ Iterate \/ TimeOut \/ EndBatch \/ Ended \/ UNCHANGED runnerVars
    PROVE  RunnerInv'
<1>1. UNCHANGED <<options, store, statusVars, jobVars>> /\ UNCHANGED <<free, queue, assigned, finished>>
  BY DEF MakeJobFails, EndTargetSet, Iterate, TimeOut, EndBatch, Ended, runnerVars, poolVars, PoolIterate, PoolEnd
<1>2. PoolInv'
  BY OtherStepInv DEF RunnerInv, MakeJobFails, EndTargetSet, Iterate, TimeOut, EndBatch, Ended, runnerVars
<1>3. phase' \in {"submit", "collect", "update", "done", "stopped", "error"} /\ (phase = "error" => phase' = "error")
  BY DEF RunnerInv, MakeJobFails, EndTargetSet, Iterate, TimeOut, EndBatch, Ended, runnerVars
<1>4. InPool' = InPool
  BY <1>1 DEF InPool, Jobs, Elements
<1>5. SubmittedInv'
  BY <1>1, <1>3, <1>4 DEF RunnerInv, SubmittedInv, jobVars
<1>6. AnswersInv'
  BY <1>1 DEF RunnerInv, AnswersInv, jobVars
<1> QED BY <1>1, <1>2, <1>3, <1>5, <1>6 DEF RunnerInv, statusVars

\* A driver answers once, a job that is not completed.
LEMMA RunJobInv == ASSUME RunnerInv, NEW p \in Process, RunJob(p) PROVE RunnerInv'
<1> DEFINE t == assigned[p]
<1>1. PICK a \in Answers(t) : answer' = Joined([u \in {t} |-> a], answer)
  BY DEF RunJob
<1>2. UNCHANGED <<options, store, statusVars, submitted, given, failures, phase>> /\ PoolFinish(p)
  BY DEF RunJob
<1>3. UNCHANGED <<free, queue, assigned, batch, iterating>> /\ finished' = finished \cup {t} /\ t \in Job
  BY <1>2 DEF PoolFinish
<1>4. t \in InPool
  BY <1>3, PoolAssumption DEF InPool, Jobs
<1>5. PoolInv' /\ InPool' = InPool
  BY <1>2, <1>3, OtherStepInv DEF RunnerInv, InPool, Jobs, Elements
<1> HIDE DEF t
<1>6. t \in submitted /\ t \notin failures \cup store.completed /\ IsJob(t)
  BY <1>4 DEF RunnerInv, SubmittedInv
<1>7. t \in Target /\ store \in Store
  BY <1>6, StoreTypes DEF RunnerInv, SubmittedInv, StoreInv
<1>8. a \in JobAnswer
  BY <1>1, <1>6, <1>7, AnswersAre
<1>9. DOMAIN answer' = DOMAIN answer \cup {t} /\ answer'[t] = a /\ \A u \in DOMAIN answer : u # t => answer'[u] = answer[u]
  BY <1>1 DEF Joined
<1>10. AnswersInv'
  BY <1>2, <1>3, <1>6, <1>8, <1>9 DEF RunnerInv, AnswersInv
<1>11. ASSUME NEW u \in submitted, u \in store.completed, u \in DOMAIN answer
       PROVE  u \in DOMAIN answer' /\ answer'[u] = answer[u]
  BY <1>6, <1>9, <1>11
<1>12. SubmittedInv'
  BY <1>2, <1>5, <1>11 DEF RunnerInv, SubmittedInv
<1> QED BY <1>2, <1>5, <1>10, <1>12 DEF RunnerInv, statusVars

\* A result is a step of the store by its job, which it completes, or a failure that
\* leaves the store as it is.
LEMMA CollectStep ==
    ASSUME RunnerInv, NEW p \in Process, Collect(p), NEW t, t = assigned[p], NEW a, a = answer[t]
    PROVE  /\ PoolInv' /\ t \in Jobs \cap finished /\ InPool' = InPool \ {t} /\ finished' \subseteq finished
           /\ t \in submitted /\ t \notin failures \cup store.completed /\ t \in store.all
           /\ UNCHANGED <<options, statusVars, submitted, given, answer>>
           /\ \/ failures' = failures \cup {t} /\ store' = store /\ phase' \in {"collect", "stopped"}
              \/ /\ failures' = failures /\ phase' \in {"collect", "error", "stopped"}
                 /\ Step(store, store', t) /\ t \in store'.completed
                 /\ t.kind = "testjob" /\ store'.test[t.of] = t => a = Ok \/ phase' = "error"
<1>1. /\ PoolYield(p) /\ phase = "collect" /\ WithinBound(t, a)
      /\ a.status = "failed" => failures' = failures \cup {t} /\ UNCHANGED store
      /\ a.status # "failed" => /\ UNCHANGED failures
                                /\ GivesUp(t, a) => store' = Completed(store, t)
                                /\ ~GivesUp(t, a) => store' = Handled(store, t, a)
      /\ phase' = IF GivesUp(t, a) THEN "error" ELSE IF a.status = "failed" /\ options.failFast THEN "stopped" ELSE phase
      /\ UNCHANGED <<options, statusVars, submitted, given, answer>>
  BY DEF Collect
<1>2. PoolInv' /\ t \in Jobs \cap finished /\ InPool' = InPool \ {t} /\ finished' \subseteq finished
  BY <1>1, YieldInv, YieldedPlaces DEF RunnerInv, InPool
<1>3. t \in InPool /\ t \in submitted /\ t \notin failures \cup store.completed
  BY <1>2 DEF RunnerInv, SubmittedInv, InPool
<1>4. a \in JobAnswer
  BY <1>2 DEF RunnerInv, AnswersInv
<1>5. IsJob(t) /\ Settled(store, t) /\ t \in store.all /\ t \in Target
  BY <1>3, StoreTypes DEF RunnerInv, SubmittedInv, StoreInv, ClosedInv
<1>6. StoreInv(store)
  BY DEF RunnerInv
<1>7. ASSUME a.status = "failed"
      PROVE  failures' = failures \cup {t} /\ store' = store /\ phase' \in {"collect", "stopped"}
  <2>1. ~GivesUp(t, a)
    BY <1>7 DEF GivesUp
  <2> QED BY <1>1, <1>7, <2>1
<1>8. ASSUME a.status # "failed"
      PROVE  /\ failures' = failures /\ phase' \in {"collect", "error", "stopped"}
             /\ Step(store, store', t) /\ t \in store'.completed
             /\ t.kind = "testjob" /\ store'.test[t.of] = t => a = Ok \/ phase' = "error"
  <2>1. a # Failed /\ (a # Ok => a.status = "incomplete")
    <3>1. Failed.status = "failed" /\ \A r : Missing(r).status = "incomplete"
      BY DEF Failed, Missing
    <3>2. a = Ok \/ a = Failed \/ \E r : a = Missing(r)
      BY <1>4 DEF JobAnswer
    <3> QED BY <1>8, <3>1, <3>2
  <2>2. CASE GivesUp(t, a)
    <3>1. t.kind = "testjob" /\ Satisfied(store, Deps(store, t))
      BY <1>5, <2>2 DEF GivesUp, Settled
    <3>2. Step(store, Completed(store, t), t)
      BY <1>3, <1>5, <1>6, <3>1, CompleteStep
    <3>3. t \in Completed(store, t).completed
      BY <1>6 DEF Completed, StoreInv, Store
    <3> QED BY <1>1, <1>8, <2>2, <3>2, <3>3
  <2>3. CASE ~GivesUp(t, a)
    <3>1. a # Ok => t.idx < MaxJobs
      BY <1>1, <2>1, <2>3 DEF WithinBound
    <3>2. /\ Step(store, Handled(store, t, a), t) /\ t \in Handled(store, t, a).completed
          /\ t.kind = "testjob" /\ a # Ok => Handled(store, t, a).test[t.of] # t
      BY <1>3, <1>4, <1>5, <1>6, <2>1, <3>1, HandledStep DEF IsJob, Settled
    <3> QED BY <1>1, <1>8, <2>3, <3>2
  <2> QED BY <2>2, <2>3
<1> QED BY <1>1, <1>2, <1>3, <1>5, <1>7, <1>8

\* What a result does.
LEMMA CollectInv == ASSUME RunnerInv, NEW p \in Process, Collect(p) PROVE RunnerInv'
<1> DEFINE t == assigned[p]
           a == answer[t]
<1>1. /\ PoolInv' /\ t \in Jobs \cap finished /\ InPool' = InPool \ {t} /\ finished' \subseteq finished
      /\ t \in submitted /\ t \notin failures \cup store.completed /\ t \in store.all
      /\ UNCHANGED <<options, statusVars, submitted, given, answer>>
      /\ \/ failures' = failures \cup {t} /\ store' = store /\ phase' \in {"collect", "stopped"}
         \/ /\ failures' = failures /\ phase' \in {"collect", "error", "stopped"}
            /\ Step(store, store', t) /\ t \in store'.completed
            /\ t.kind = "testjob" /\ store'.test[t.of] = t => a = Ok \/ phase' = "error"
  BY CollectStep
<1>2. phase = "collect"
  BY DEF Collect
<1>6. AnswersInv'
  BY <1>1 DEF RunnerInv, AnswersInv
<1>3. t \in DOMAIN answer' /\ answer'[t] = a
  BY <1>1 DEF RunnerInv, AnswersInv
<1> HIDE DEF t, a
<1>7. StoreInv(store)
  BY DEF RunnerInv
<1>8. CASE failures' = failures \cup {t} /\ store' = store /\ phase' \in {"collect", "stopped"}
  <2>1. SubmittedInv'
    BY <1>1, <1>2, <1>8 DEF RunnerInv, SubmittedInv
  <2> QED BY <1>1, <1>6, <1>8, <2>1 DEF RunnerInv, statusVars
<1>9. ASSUME failures' = failures, phase' \in {"collect", "error", "stopped"},
             Step(store, store', t), t \in store'.completed,
             t.kind = "testjob" /\ store'.test[t.of] = t => a = Ok \/ phase' = "error"
      PROVE  RunnerInv'
  <2>3. StoreInv(store') /\ Grows(store, store') /\ Fixed(store, store', t)
    BY <1>9 DEF Step
  <2>4. store'.completed = store.completed \cup {t}
    BY <1>9, <2>3 DEF Fixed, Grows
  <2>5. submitted \subseteq store.all /\ submitted' = submitted /\ submitted' \subseteq store'.own
    BY <1>1, <2>3 DEF RunnerInv, SubmittedInv, StoreInv, ClosedInv, Grows
  <2>6. \A u \in submitted : IsJob(u) /\ Settled(store', u)
    BY <1>7, <2>3, <2>5, SettledKept DEF RunnerInv, SubmittedInv, IsJob
  <2>7. ASSUME NEW u \in submitted, u \in store'.completed, u.kind = "testjob", store'.test[u.of] = u
        PROVE  (u \in DOMAIN answer' /\ answer'[u] = Ok) \/ phase' = "error"
    <3>1. CASE u = t
      BY <1>3, <1>9, <2>7, <3>1
    <3>2. CASE u # t
      <4>1. u \in store.completed
        BY <2>4, <2>7, <3>2
      <4>2. u.of \in Module
        BY <2>5, <2>6, <1>7, JobTargets, StoreTypes DEF StoreInv
      <4>3. store.test[u.of] = u
        BY <2>3, <2>5, <2>7, <4>2 DEF Grows
      <4>4. u \in DOMAIN answer /\ answer[u] = Ok
        BY <1>2, <2>7, <4>1, <4>3 DEF RunnerInv, SubmittedInv
      <4> QED BY <1>1, <4>4
    <3> QED BY <3>1, <3>2
  <2>9. \A u \in submitted : u \in InPool' <=> u \notin failures' \cup store'.completed
    BY <1>1, <1>9, <2>4 DEF RunnerInv, SubmittedInv
  <2>10. SubmittedInv'
    <3>1. failures' \subseteq submitted' /\ InPool' \subseteq submitted'
      BY <1>1, <1>9, <2>5 DEF RunnerInv, SubmittedInv
    <3> QED BY <2>5, <2>6, <2>7, <2>9, <3>1 DEF SubmittedInv
  <2>12. prevCompleted' \subseteq store'.completed /\ options' \in Options
    BY <1>1, <2>4 DEF RunnerInv, statusVars
  <2> QED BY <1>1, <1>6, <1>9, <2>3, <2>10, <2>12 DEF RunnerInv
<1> QED BY <1>1, <1>8, <1>9

\* The invariant of the runner: at every moment what is completed stands over what is
\* completed, each module is at one job, and so is each test, and the jobs that were
\* submitted have nothing to wait for and are with the pool or handled.
THEOREM RunnerInvariance == RunnerSpec => []RunnerInv
<1>1. RunnerInv /\ [RunnerNext]_runnerVars => RunnerInv'
  BY SubmitJobInv, EndsInv, RunJobInv, CollectInv, UpdateInv DEF RunnerNext
<1> QED BY RunnerInitInv, <1>1, PTL DEF RunnerSpec

\* Type correctness of the runner and of its pool.
THEOREM RunnerTypes == RunnerSpec => []RunnerTypeOK
<1>1. RunnerInv => RunnerTypeOK
  <2> SUFFICES ASSUME RunnerInv PROVE RunnerTypeOK
    OBVIOUS
  <2>1. store.code \in Programs /\ store.own \subseteq store.all /\ store.completed \subseteq store.all
    BY StoreTypes DEF RunnerInv, StoreInv, ClosedInv
  <2>2. store.ready \subseteq JobTarget
    BY JobTargets, JobAssumption, StoreTypes DEF RunnerInv, StoreInv, ClosedInv, IsJob
  <2>3. submitted \subseteq JobTarget
    BY JobTargets, JobAssumption, StoreTypes DEF RunnerInv, StoreInv, SubmittedInv
  <2>4. DOMAIN given = submitted /\ DOMAIN answer \subseteq submitted /\ Range(answer) \subseteq JobAnswer
    BY DEF RunnerInv, AnswersInv, Range
  <2> QED BY <2>1, <2>2, <2>3, <2>4 DEF RunnerInv, PoolInv, SubmittedInv, RunnerTypeOK
<1> QED BY <1>1, RunnerInvariance, PTL

\* No driver is lost to the pool of the runner and no job is lost or run twice by it.
THEOREM RunnerPool == RunnerSpec => []PoolInv
<1>1. RunnerInv => PoolInv
  BY DEF RunnerInv
<1> QED BY <1>1, RunnerInvariance, PTL

\* A result is not lost or handled twice.
THEOREM EveryJobOnce == RunnerSpec => []EachJobOnce
<1>1. RunnerInv => EachJobOnce
  <2> SUFFICES ASSUME RunnerInv, NEW t \in submitted
               PROVE  /\ (t \in Jobs \cup Elements(queue)) # (t \in failures \cup store.completed)
                      /\ t \in store.completed /\ t.kind = "job" /\ store.job[t.of] = t => t.of \in store.got
                      /\ t \in store.completed /\ t.kind = "testjob" /\ store.test[t.of] = t =>
                            answer[t] = Ok \/ phase = "error"
    BY DEF EachJobOnce
  <2>1. t.of \in Module
    BY JobTargets, StoreTypes DEF RunnerInv, StoreInv, SubmittedInv
  <2>2. (t \in Jobs \cup Elements(queue)) # (t \in failures \cup store.completed)
    BY DEF RunnerInv, SubmittedInv, InPool
  <2>3. t \in store.completed /\ store.job[t.of] = t => t.of \in store.got
    BY <2>1 DEF RunnerInv, StoreInv, JobsInv
  <2>4. t \in store.completed /\ t.kind = "testjob" /\ store.test[t.of] = t => answer[t] = Ok \/ phase = "error"
    BY DEF RunnerInv, SubmittedInv
  <2> QED BY <2>2, <2>3, <2>4
<1> QED BY <1>1, RunnerInvariance, PTL

\* No resource is completed before the tests of its module have been found and have
\* succeeded.
THEOREM TestsComeFirst == RunnerSpec => []TestedFirst
<1>1. RunnerInv => TestedFirst
  <2> SUFFICES ASSUME RunnerInv PROVE TestedFirst
    OBVIOUS
  <2>1. StoreInv(store) /\ store \in Store
    BY DEF RunnerInv, StoreInv
  <2>2. ASSUME NEW m \in Module, NEW n \in Module, n \in store.code.tests[m], Resource(n) \in store.completed
        PROVE  Test(m) \in store.completed
    BY <2>1, <2>2, ResourceAfterTests DEF StoreInv
  <2> QED BY <2>1, <2>2 DEF TestedFirst, StoreInv
<1> QED BY <1>1, RunnerInvariance, PTL

\* The runner uses the pool as it is meant to be used: no job is submitted that the
\* pool has, and an iteration is ended before the next one.
THEOREM RunnerUsesPool == RunnerSpec => PoolSpec
<1>1. RunnerInit => PoolInit
  BY DEF RunnerInit
<1>2. RunnerInv /\ [RunnerNext]_runnerVars => [PoolNext]_poolVars
  <2> SUFFICES ASSUME RunnerInv, [RunnerNext]_runnerVars PROVE [PoolNext]_poolVars
    OBVIOUS
  <2>1. CASE SubmitJob
    <3>1. PICK t \in ReadyJobs : PoolSubmit(t)
      BY <2>1 DEF SubmitJob
    <3>2. t \in store.ready /\ t \notin submitted
      BY DEF ReadyJobs
    <3>3. t \in Target /\ IsJob(t)
      BY <3>2, StoreTypes DEF RunnerInv, StoreInv, ClosedInv, IsJob
    <3>4. t \in Job \ (Jobs \cup Elements(queue))
      BY <3>2, <3>3, JobTargets DEF RunnerInv, SubmittedInv, InPool
    <3> QED BY <3>1, <3>4 DEF PoolNext
  <2>2. CASE Iterate \/ EndBatch \/ \E p \in Process : RunJob(p) \/ Collect(p)
    BY <2>2 DEF Iterate, EndBatch, RunJob, Collect, PoolNext
  <2>3. CASE MakeJobFails \/ EndTargetSet \/ TimeOut \/ UpdateStatuses \/ Ended \/ UNCHANGED runnerVars
    BY <2>3 DEF MakeJobFails, EndTargetSet, TimeOut, UpdateStatuses, Ended, runnerVars
  <2> QED BY <2>1, <2>2, <2>3 DEF RunnerNext
<1> QED BY <1>1, <1>2, RunnerInvariance, PTL DEF RunnerSpec, PoolSpec

-----------------------------------------------------------------------------
(* The fixpoint *)

\* A target that is not completed and that an update leaves as it is.
Calm(w, t) ==
    /\ t.kind \in {"known", "cached", "resource", "test", "testcached"} => ~Satisfied(w, Deps(w, t))
    /\ t.kind = "import" => t.of \notin w.got \/ ~Satisfied(w, Deps(w, t))
    /\ t.kind = "resolved" => t.of \notin w.resolved \/ ~Satisfied(w, Deps(w, t))
    /\ t.kind = "job" => (t \in w.ready <=> Satisfied(w, Deps(w, t)))
    /\ t.kind = "ready" =>
        (t.of \in w.provided => Import(Provider(w, t.of)) \notin w.completed /\ Resource(Provider(w, t.of)) \notin w.completed)
    /\ t.kind = "complete" =>
        /\ Resolved(t.of) \in w.completed => t.of \in w.picked
        /\ t.of \in w.picked => Resource(Provider(w, t.of)) \notin w.completed \/ ~Satisfied(w, ServiceTarget(w, t.of))
    /\ t.kind = "testjob" => CalmTestJob(w, t)

\* Targets that exist are not made again.
LEMMA NoneMade ==
    ASSUME NEW w, StoreInv(w), NEW t, NEW reqs, reqs \subseteq DOMAIN Needs(w, t), TargetsThere(w, reqs)
    PROVE  WithTargets(w, reqs) = w
<1>w. w \in Store /\ NeedsExist(w)
  BY DEF StoreInv, ClosedInv
<1>1. UNION {TargetsFor(w, r) : r \in reqs} \subseteq w.all
  BY DEF TargetsThere
<1>2. {Resource(m) : m \in reqs \cap Module} \subseteq w.own
  BY <1>w, NeedsAre
<1>3. w.all \cup UNION {TargetsFor(w, r) : r \in reqs} = w.all /\ w.own \cup {Resource(m) : m \in reqs \cap Module} = w.own
  BY <1>1, <1>2
<1>4. WithTargets(w, reqs) = [w EXCEPT !.all = w.all, !.own = w.own]
  BY <1>3 DEF WithTargets
<1>5. [w EXCEPT !.all = w.all, !.own = w.own] = w
  BY <1>w DEF Store
<1> QED BY <1>4, <1>5

\* A target that waits for what it waits for.
LEMMA NeedsSame ==
    ASSUME NEW w \in Store, NEW t \in DOMAIN w.needs
    PROVE  WithNeeds(w, t, Needs(w, t)) = w
<1>1. PICK targets \in SUBSET Target : w.needs \in [targets -> NeedMaps]
  BY DEF Store
<1>2. w.needs = [u \in DOMAIN w.needs \cup {t} |-> IF u = t THEN Needs(w, t) ELSE w.needs[u]]
  BY <1>1 DEF Needs
<1>3. WithNeeds(w, t, Needs(w, t)) = [w EXCEPT !.needs = w.needs]
  BY <1>2 DEF WithNeeds
<1>4. [w EXCEPT !.needs = w.needs] = w
  BY DEF Store
<1> QED BY <1>3, <1>4

\* An update of a calm test job.
LEMMA CalmTestJobStays ==
    ASSUME NEW w, StoreInv(w), NEW t \in w.all, t \notin w.completed, t.kind = "testjob", CalmTestJob(w, t)
    PROVE  UpdateTestJob(w, t) = w
<1> DEFINE tested == w.code.tests[t.of]
<1> DEFINE picked == PickedReqs(w, t)
<1> DEFINE v == WithTargets(w, picked)
<1> DEFINE more == ResolveIn(v, tested, picked)
<1> DEFINE x == WithNeeds(v, t, Joined(Needs(w, t), more))
<1> DEFINE reqs == DOMAIN Needs(x, t)
<1> DEFINE z == WithNeeds(WithTargets(x, reqs), t, ResolveIn(WithTargets(x, reqs), tested, reqs))
<1>w. w \in Store /\ t \in Target /\ t \in DOMAIN w.needs
  BY StoreTypes DEF StoreInv, ClosedInv, NeedsExist
<1>0. UpdateTestJob(w, t) =
        IF ~Satisfied(x, Deps(x, t)) THEN x
        ELSE [z EXCEPT !.ready = IF Satisfied(z, Deps(z, t)) THEN @ \cup {t} ELSE @ \ {t}]
  BY DEF UpdateTestJob, PickedReqs
<1>p. picked \subseteq DOMAIN Needs(w, t) /\ TargetsThere(w, picked)
  BY DEF CalmTestJob
<1>1. v = w
  BY <1>p, NoneMade
<1>2. Joined(Needs(w, t), more) = Needs(w, t)
  <2>1. DOMAIN more = picked
    BY DEF ResolveIn
  <2>2. Needs(w, t) \in NeedMaps
    BY <1>w, NeedsTypes
  <2>3. Needs(w, t) = [r \in DOMAIN Needs(w, t) |-> Needs(w, t)[r]]
    BY <2>2 DEF NeedMaps
  <2> HIDE DEF more, picked
  <2>4. DOMAIN Needs(w, t) \cup DOMAIN more = DOMAIN Needs(w, t)
    BY <1>p, <2>1
  <2> QED BY <2>3, <2>4 DEF Joined
<1>3. x = w
  BY <1>1, <1>2, <1>w, NeedsSame
<1>4. CASE ~Satisfied(w, Deps(w, t))
  BY <1>0, <1>3, <1>4
<1>5. CASE Satisfied(w, Deps(w, t))
  <2>1. Settled(w, t) /\ t \in w.ready /\ TargetsThere(w, DOMAIN Needs(w, t))
    BY <1>5 DEF CalmTestJob
  <2>2. WithTargets(w, DOMAIN Needs(w, t)) = w
    BY <2>1, NoneMade
  <2>3. ResolveIn(w, tested, DOMAIN Needs(w, t)) = Needs(w, t)
    <3>1. \A r \in DOMAIN Needs(w, t) : Needs(w, t)[r] = TargetIn(w, tested, r)
      BY <2>1 DEF Settled
    <3>2. Needs(w, t) \in NeedMaps
      BY <1>w, NeedsTypes
    <3>3. Needs(w, t) = [r \in DOMAIN Needs(w, t) |-> Needs(w, t)[r]]
      BY <3>2 DEF NeedMaps
    <3> QED BY <3>1, <3>3 DEF ResolveIn
  <2>4. z = w
    BY <1>3, <1>w, <2>2, <2>3, NeedsSame
  <2>5. w.ready \cup {t} = w.ready
    BY <2>1
  <2>6. [w EXCEPT !.ready = w.ready] = w
    BY <1>w DEF Store
  <2> HIDE DEF x, z
  <2>7. UpdateTestJob(w, t) = [w EXCEPT !.ready = w.ready \cup {t}]
    BY <1>0, <1>3, <1>5, <2>4
  <2> QED BY <2>5, <2>6, <2>7
<1> QED BY <1>4, <1>5

\* An update of a calm target.
LEMMA CalmStays ==
    ASSUME NEW w, StoreInv(w), NEW t \in w.all, t \notin w.completed, Calm(w, t)
    PROVE  Updated(w, t) = w
<1>w. w \in Store /\ t \in Target /\ OfItsKind(t) /\ ItemsInv(w)
  BY StoreTypes, TargetShape DEF StoreInv
<1>1. ASSUME t.kind = "known" PROVE Updated(w, t) = w
  BY <1>1, <1>w DEF Updated, UpdateKnown, Calm, OfItsKind, Deps
<1>2. ASSUME t.kind = "import" PROVE Updated(w, t) = w
  BY <1>2 DEF Updated, UpdateImport, Calm
<1>3. ASSUME t.kind = "job" PROVE Updated(w, t) = w
  <2>1. w.ready = IF Satisfied(w, Deps(w, t)) THEN w.ready \cup {t} ELSE w.ready \ {t}
    BY <1>3 DEF Calm
  <2>2. Updated(w, t) = [w EXCEPT !.ready = w.ready]
    BY <1>3, <2>1 DEF Updated, UpdateJob
  <2>3. [w EXCEPT !.ready = w.ready] = w
    BY <1>w DEF Store
  <2> QED BY <2>2, <2>3
<1>4. ASSUME t.kind = "cached" PROVE Updated(w, t) = w
  <2>1. t = Cached(t.of) /\ Updated(w, t) = UpdateCached(w, t.of)
    BY <1>4, <1>w DEF Updated, OfItsKind
  <2>2. ~Satisfied(w, Deps(w, Cached(t.of)))
    BY <1>4, <2>1 DEF Calm
  <2> QED BY <2>1, <2>2 DEF UpdateCached
<1>5. ASSUME t.kind = "resource" PROVE Updated(w, t) = w
  BY <1>5 DEF Updated, UpdateResource, Calm
<1>6. ASSUME t.kind = "ready" PROVE Updated(w, t) = w
  BY <1>6 DEF Updated, UpdateReady, Provided, Calm
<1>7. ASSUME t.kind = "resolved" PROVE Updated(w, t) = w
  <2>1. t = Resolved(t.of) /\ t.of \in Item /\ Updated(w, t) = UpdateResolved(w, t.of)
    BY <1>7, <1>w DEF Updated, OfItsKind
  <2>2. CASE t.of \notin w.resolved
    BY <2>1, <2>2 DEF UpdateResolved
  <2>3. CASE t.of \in w.resolved
    <3>1. t \in w.own /\ ~Satisfied(w, Deps(w, t))
      BY <1>7, <1>w, <2>1, <2>3 DEF Calm, ItemsInv
    <3>2. Adopted(w, t) = w
      <4>1. w.all \cup {t} = w.all /\ w.own \cup {t} = w.own
        BY <3>1
      <4>2. Adopted(w, t) = [w EXCEPT !.all = w.all, !.own = w.own]
        BY <4>1 DEF Adopted
      <4>3. [w EXCEPT !.all = w.all, !.own = w.own] = w
        BY <1>w DEF Store
      <4> QED BY <4>2, <4>3
    <3> QED BY <2>1, <2>3, <3>1, <3>2 DEF UpdateResolved
  <2> QED BY <2>2, <2>3
<1>8. ASSUME t.kind = "complete" PROVE Updated(w, t) = w
  <2> DEFINE i == t.of
  <2>1. Updated(w, t) = UpdateComplete(w, i)
    BY <1>8 DEF Updated
  <2> DEFINE v == IF Resolved(i) \in w.completed THEN [w EXCEPT !.picked = @ \cup {i}] ELSE w
  <2>2. v = w
    <3>1. CASE Resolved(i) \in w.completed
      <4>1. w.picked \cup {i} = w.picked
        BY <1>8, <3>1 DEF Calm
      <4>2. v = [w EXCEPT !.picked = w.picked]
        BY <3>1, <4>1
      <4>3. [w EXCEPT !.picked = w.picked] = w
        BY <1>w DEF Store
      <4> QED BY <4>2, <4>3
    <3> QED BY <3>1
  <2>3. UpdateComplete(w, i) =
            IF i \in v.picked /\ Resource(Provider(v, i)) \in v.completed /\ Satisfied(v, ServiceTarget(w, i))
            THEN Completed(Adopted(v, Complete(i)), Complete(i)) ELSE v
    BY DEF UpdateComplete
  <2>4. ~(i \in w.picked /\ Resource(Provider(w, i)) \in w.completed /\ Satisfied(w, ServiceTarget(w, i)))
    BY <1>8 DEF Calm
  <2> HIDE DEF v, i
  <2> QED BY <2>1, <2>2, <2>3, <2>4
<1>9. ASSUME t.kind = "test" PROVE Updated(w, t) = w
  BY <1>9 DEF Updated, UpdateTest, Calm
<1>10. ASSUME t.kind = "testjob" PROVE Updated(w, t) = w
  BY <1>10, CalmTestJobStays DEF Updated, Calm
<1>11. ASSUME t.kind = "testcached" PROVE Updated(w, t) = w
  BY <1>11 DEF Updated, UpdateTestCached, Calm
<1> QED BY <1>w, <1>1, <1>2, <1>3, <1>4, <1>5, <1>6, <1>7, <1>8, <1>9, <1>10, <1>11 DEF OfItsKind

\* A target that has been updated is completed or calm.
LEMMA UpdatedCalm ==
    ASSUME NEW w, StoreInv(w), NEW t \in w.all, t \notin w.completed, NEW v, v = Updated(w, t)
    PROVE  t \in v.completed \/ Calm(v, t)
<1>w. w \in Store /\ t \in Target /\ OfItsKind(t) /\ ItemsInv(w)
  BY StoreTypes, TargetShape DEF StoreInv
<1>c. \A x \in Store : t \in Completed(x, t).completed
  BY DEF Completed, Store
<1>1. ASSUME t.kind = "known" PROVE t \in v.completed \/ Calm(v, t)
  <2>1. Known = t /\ Deps(w, t) = w.first /\ Updated(w, t) = UpdateKnown(w)
    BY <1>1, <1>w DEF Updated, OfItsKind, Deps
  <2> QED BY <1>1, <1>c, <1>w, <2>1 DEF UpdateKnown, Calm
<1>2. ASSUME t.kind = "import" PROVE t \in v.completed \/ Calm(v, t)
  BY <1>2, <1>c, <1>w DEF Updated, UpdateImport, Calm
<1>3. ASSUME t.kind = "job" PROVE t \in v.completed \/ Calm(v, t)
  <2>1. v = [w EXCEPT !.ready = IF Satisfied(w, Deps(w, t)) THEN @ \cup {t} ELSE @ \ {t}]
    BY <1>3 DEF Updated, UpdateJob
  <2>2. v.needs = w.needs /\ v.code = w.code /\ v.completed = w.completed
    BY <1>w, <2>1 DEF Store
  <2>3. t \in v.ready <=> Satisfied(w, Deps(w, t))
    BY <1>w, <2>1 DEF Store
  <2>4. Deps(v, t) = Deps(w, t)
    BY <1>3, <2>2, DepsOfJobs DEF Needs
  <2> QED BY <1>3, <2>2, <2>3, <2>4 DEF Calm, Satisfied
<1>4. ASSUME t.kind = "cached" PROVE t \in v.completed \/ Calm(v, t)
  <2>1. t = Cached(t.of) /\ t.of \in Module /\ Updated(w, t) = UpdateCached(w, t.of)
    BY <1>4, <1>w DEF Updated, OfItsKind
  <2>2. Waits(v, t)
    BY <2>1, UpdateCachedStep
  <2> QED BY <1>4, <2>2 DEF Waits, Calm
<1>5. ASSUME t.kind = "resource" PROVE t \in v.completed \/ Calm(v, t)
  BY <1>5, <1>c, <1>w DEF Updated, UpdateResource, Calm
<1>6. ASSUME t.kind = "ready" PROVE t \in v.completed \/ Calm(v, t)
  BY <1>6, <1>c, <1>w DEF Updated, UpdateReady, Provided, Calm
<1>7. ASSUME t.kind = "resolved" PROVE t \in v.completed \/ Calm(v, t)
  <2>1. t = Resolved(t.of) /\ t.of \in Item /\ v = UpdateResolved(w, t.of)
    BY <1>7, <1>w DEF Updated, OfItsKind
  <2>2. CASE t.of \notin w.resolved
    BY <1>7, <2>1, <2>2 DEF UpdateResolved, Calm
  <2>3. CASE t.of \in w.resolved
    <3> DEFINE x == Adopted(w, t)
    <3>1. v = IF Satisfied(x, Deps(x, t)) THEN Completed(x, t) ELSE x
      BY <2>1, <2>3 DEF UpdateResolved
    <3>2. x \in Store
      BY <1>w, AdoptedIs
    <3> HIDE DEF x
    <3> QED BY <1>7, <1>c, <3>1, <3>2 DEF Calm
  <2> QED BY <2>2, <2>3
<1>8. ASSUME t.kind = "complete" PROVE t \in v.completed \/ Calm(v, t)
  <2> DEFINE i == t.of
             x == IF Resolved(i) \in w.completed THEN [w EXCEPT !.picked = @ \cup {i}] ELSE w
             y == Adopted(x, t)
  <2>1. t = Complete(i) /\ i \in Item /\ Updated(w, t) = UpdateComplete(w, i)
    BY <1>8, <1>w DEF Updated, OfItsKind
  <2>2. v = IF i \in x.picked /\ Resource(Provider(x, i)) \in x.completed /\ Satisfied(x, ServiceTarget(w, i))
            THEN Completed(y, t) ELSE x
    BY <2>1 DEF UpdateComplete
  <2>3. x \in Store /\ x.code = w.code /\ x.completed = w.completed /\ (Resolved(i) \in w.completed => i \in x.picked)
    BY <1>w, <2>1 DEF Store
  <2>4. y \in Store
    BY <1>w, <2>3, AdoptedIs
  <2>5. ServiceTarget(x, i) = ServiceTarget(w, i)
    BY <2>3 DEF ServiceTarget
  <2> HIDE DEF x, y
  <2>6. ASSUME v = x, ~(i \in x.picked /\ Resource(Provider(x, i)) \in x.completed /\ Satisfied(x, ServiceTarget(w, i)))
        PROVE  Calm(v, t)
    BY <1>8, <2>3, <2>5, <2>6 DEF Calm
  <2> QED BY <1>c, <2>2, <2>4, <2>6
<1>9. ASSUME t.kind = "test" PROVE t \in v.completed \/ Calm(v, t)
  BY <1>9, <1>c, <1>w DEF Updated, UpdateTest, Calm
<1>10. ASSUME t.kind = "testjob" PROVE t \in v.completed \/ Calm(v, t)
  BY <1>10, UpdateTestJobStep DEF Updated, Calm
<1>11. ASSUME t.kind = "testcached" PROVE t \in v.completed \/ Calm(v, t)
  <2>1. v = UpdateTestCached(w, t)
    BY <1>11 DEF Updated
  <2>2. Waits(v, t)
    BY <1>11, <2>1, UpdateTestCachedStep
  <2> QED BY <1>11, <2>2 DEF Waits, Calm
<1> QED BY <1>w, <1>1, <1>2, <1>3, <1>4, <1>5, <1>6, <1>7, <1>8, <1>9, <1>10, <1>11 DEF OfItsKind

\* The targets that exist for what a test job needs still do, when nothing that it
\* waits for has been completed.
LEMMA ThereKept ==
    ASSUME NEW v, StoreInv(v), NEW x, StoreInv(x), Grows(v, x),
           NEW t, Needs(x, t) = Needs(v, t), Range(Needs(v, t)) \cap (x.completed \ v.completed) = {},
           NEW reqs, reqs \subseteq DOMAIN Needs(v, t), TargetsThere(v, reqs)
    PROVE  TargetsThere(x, reqs)
<1>w. /\ v \in Store /\ x \in Store /\ x.code = v.code /\ v.all \subseteq x.all /\ v.completed \subseteq x.completed
      /\ NeedsExist(x) /\ ItemClosed(x)
  BY DEF StoreInv, ClosedInv, Grows
<1> SUFFICES ASSUME NEW r \in reqs PROVE TargetsFor(x, r) \subseteq x.all
  BY DEF TargetsThere
<1>1. TargetsFor(v, r) \subseteq x.all
  BY <1>w DEF TargetsThere
<1>2. \A i : ItemTargets(x, i) = ItemTargets(v, i)
  BY <1>w DEF ItemTargets
<1>3. r \in DOMAIN Needs(x, t)
  OBVIOUS
<1>n. /\ Needs(x, t)[r] \in x.all
      /\ r \in Module \/ r \in Item
      /\ r \in Item => Needs(x, t)[r] \in {Resolved(r), Complete(r)}
  BY <1>w, <1>3, NeedsAre
<1>4. CASE r \in Module
  BY <1>1, <1>4 DEF TargetsFor
<1>5. CASE r \notin Module
  <2>1. Needs(v, t)[r] \in Range(Needs(v, t))
    BY DEF Range
  <2>2. CASE Needs(x, t)[r] = Complete(r)
    <3>1. ItemTargets(x, r) \subseteq x.all /\ {Ready(r), Resolved(r)} \subseteq x.all
      <4>1. ItemTargets(x, r) \subseteq x.all
        BY <1>w, <1>n, <1>5, <2>2 DEF ItemClosed
      <4>2. {Ready(r), Resolved(r), Complete(r)} \subseteq ItemTargets(x, r)
        BY <1>w, <1>n, <1>5, ItemTargetsAre, StoreTypes
      <4> QED BY <4>1, <4>2
    <3> QED BY <1>5, <3>1 DEF TargetsFor
  <2>3. CASE Needs(x, t)[r] = Resolved(r)
    <3>1. Resolved(r) \in x.completed <=> Resolved(r) \in v.completed
      BY <1>w, <2>1, <2>3
    <3>2. TargetOf(x, r) = TargetOf(v, r)
      BY <1>w, <3>1 DEF TargetOf, TargetIn, Provider
    <3>3. TargetsFor(x, r) = TargetsFor(v, r)
      BY <1>2, <3>2 DEF TargetsFor
    <3> QED BY <1>1, <3>3
  <2> QED BY <1>n, <1>5, <2>2, <2>3
<1> QED BY <1>4, <1>5

\* A calm test job stays calm.
LEMMA CalmTestJobKept ==
    ASSUME NEW v, StoreInv(v), NEW x, StoreInv(x), NEW u, Grows(v, x), Fixed(v, x, u),
           NEW t \in v.all, t # u, t.kind = "testjob", CalmTestJob(v, t),
           Deps(x, t) = Deps(v, t), Deps(v, t) \cap (x.completed \ v.completed) = {}
    PROVE  CalmTestJob(x, t)
<1>w. v \in Store /\ t \in Target /\ x.code = v.code /\ v.completed \subseteq x.completed
  BY StoreTypes DEF StoreInv, Grows
<1>1. Needs(x, t) = Needs(v, t) /\ (t \in x.ready <=> t \in v.ready)
  BY <1>w DEF Fixed
<1>2. Deps(v, t) = ImportsOf({t.of} \cup Helpers(v, t.of)) \cup Range(Needs(v, t))
  BY DepsOfJobs
<1>3. PickedReqs(x, t) = PickedReqs(v, t)
  <2>1. \A n \in Helpers(v, t.of) : Import(n) \in Deps(v, t)
    BY <1>2 DEF ImportsOf
  <2>2. \A n \in Helpers(v, t.of) : Import(n) \in x.completed <=> Import(n) \in v.completed
    BY <1>w, <2>1
  <2>3. Helpers(x, t.of) = Helpers(v, t.of)
    BY <1>w DEF Helpers
  <2>4. {n \in Helpers(x, t.of) : Import(n) \in x.completed} = {n \in Helpers(v, t.of) : Import(n) \in v.completed}
    BY <2>2, <2>3
  <2> QED BY <1>w, <2>4 DEF PickedReqs
<1>4. \A reqs : reqs \subseteq DOMAIN Needs(v, t) /\ TargetsThere(v, reqs) => TargetsThere(x, reqs)
  <2>1. Range(Needs(v, t)) \cap (x.completed \ v.completed) = {}
    BY <1>2
  <2> QED BY <1>1, <2>1, ThereKept
<1>5. ASSUME Satisfied(x, Deps(x, t))
      PROVE  Settled(x, t) /\ t \in x.ready /\ TargetsThere(x, DOMAIN Needs(x, t))
  <2>1. Satisfied(v, Deps(v, t))
    BY <1>5 DEF Satisfied
  <2>2. Settled(v, t) /\ t \in v.ready /\ TargetsThere(v, DOMAIN Needs(v, t))
    BY <2>1 DEF CalmTestJob
  <2> QED BY <1>1, <1>4, <2>2, SettledKept
<1> QED BY <1>1, <1>3, <1>4, <1>5 DEF CalmTestJob

\* A calm target stays calm while it waits for the same targets and none of them is
\* completed, whatever other target is updated.
LEMMA CalmKept ==
    ASSUME NEW v, StoreInv(v), NEW x, StoreInv(x), NEW u, Grows(v, x), Fixed(v, x, u),
           NEW t \in v.all, t # u, t \notin x.completed, Calm(v, t),
           Deps(x, t) = Deps(v, t), Deps(v, t) \cap (x.completed \ v.completed) = {}
    PROVE  Calm(x, t)
<1>w. /\ v \in Store /\ x \in Store /\ t \in Target /\ OfItsKind(t)
      /\ x.code = v.code /\ v.completed \subseteq x.completed /\ v.picked \subseteq x.picked
      /\ JobsInv(v) /\ SatInv(x) /\ JobsInv(x) /\ ItemsInv(x) /\ v.completed \subseteq v.all
  BY StoreTypes, TargetShape DEF StoreInv, ClosedInv, Grows
<1>s. Satisfied(x, Deps(x, t)) <=> Satisfied(v, Deps(v, t))
  BY <1>w DEF Satisfied
<1>1. ASSUME t.kind \in {"known", "cached", "resource", "test", "testcached"} PROVE Calm(x, t)
  BY <1>1, <1>s DEF Calm
<1>2. ASSUME t.kind = "import" PROVE Calm(x, t)
  <2> DEFINE m == t.of
  <2>1. m \in Module /\ x.job[m] \in Deps(x, t) /\ (m \notin v.got \/ ~Satisfied(v, Deps(v, t)))
    BY <1>2, <1>w DEF OfItsKind, Calm, Deps
  <2> HIDE DEF m
  <2>2. ASSUME m \in x.got, Satisfied(x, Deps(x, t)) PROVE FALSE
    <3>1. m \notin v.got /\ x.job[m] \in v.completed
      BY <1>s, <2>1, <2>2 DEF Satisfied
    <3>2. x.job[m] = v.job[m]
      BY <1>w, <2>1, <3>1 DEF Grows
    <3> QED BY <1>w, <2>1, <3>1, <3>2 DEF JobsInv
  <2> QED BY <1>2, <2>2 DEF Calm, m
<1>3. ASSUME t.kind = "job" PROVE Calm(x, t)
  BY <1>3, <1>s, <1>w DEF Calm, Fixed
<1>4. ASSUME t.kind = "ready" PROVE Calm(x, t)
  <2> DEFINE i == t.of
             p == Provider(v, i)
  <2>1. i \in Item /\ Provider(x, i) = p
    BY <1>4, <1>w DEF OfItsKind, Provider
  <2>2. Deps(v, t) = (IF i \in v.provided THEN {Import(p)} ELSE {Known}) /\ Deps(x, t) = IF i \in x.provided THEN {Import(p)} ELSE {Known}
    BY <1>4, <2>1 DEF Deps, Provided
  <2> HIDE DEF p
  <2>3. i \in v.provided => Import(p) \notin v.completed
    BY <1>4 DEF Calm, p
  <2> HIDE DEF i
  <2>4. ASSUME i \in x.provided PROVE Import(p) \notin x.completed /\ Resource(p) \notin x.completed
    <3>1. PICK m \in Module : i \in x.code.provides[m]
      BY <1>w, <2>4 DEF ItemsInv
    <3>2. p = m
      BY <1>w, <2>1, <3>1, ProviderIs, StoreTypes
    <3>3. Import(p) # Known
      BY TargetFields
    <3>4. i \in v.provided
      BY <2>2, <2>4, <3>3
    <3>5. Import(p) \notin x.completed
      BY <2>2, <2>3, <3>4
    <3> QED BY <1>w, <3>2, <3>5, Below
  <2> QED BY <1>4, <2>1, <2>4 DEF Calm, i
<1>5. ASSUME t.kind = "resolved" PROVE Calm(x, t)
  <2> DEFINE i == t.of
  <2>1. t = Resolved(i) /\ i \in Item /\ Ready(i) \in Deps(x, t)
    BY <1>5, <1>w DEF OfItsKind, Deps
  <2> HIDE DEF i
  <2>2. ASSUME i \in x.resolved, Satisfied(x, Deps(x, t)) PROVE FALSE
    <3>1. i \notin v.resolved
      BY <1>5, <1>s, <2>2 DEF Calm, i
    <3>2. Ready(i) \notin x.completed
      BY <2>2, <3>1 DEF Fixed
    <3> QED BY <2>1, <2>2, <3>2 DEF Satisfied
  <2> QED BY <1>5, <2>2 DEF Calm, i
<1>6. ASSUME t.kind = "complete" PROVE Calm(x, t)
  <2> DEFINE i == t.of
             p == Provider(v, i)
  <2>1. t = Complete(i) /\ i \in Item /\ Provider(x, i) = p
    BY <1>6, <1>w DEF OfItsKind, Provider
  <2>2. ServiceTarget(x, i) = ServiceTarget(v, i)
    BY <1>w DEF ServiceTarget
  <2>3. Deps(v, t) = {Resolved(i)} \cup ServiceTarget(v, i) \cup IF i \in v.picked THEN {Resource(p)} ELSE {}
    BY <1>6 DEF Deps
  <2>4. /\ Resolved(i) \in v.completed => i \in v.picked
        /\ i \in v.picked => Resource(p) \notin v.completed \/ ~Satisfied(v, ServiceTarget(v, i))
    BY <1>6 DEF Calm
  <2>5. i \in x.picked <=> i \in v.picked
    BY <1>w, <2>1 DEF Fixed
  <2> HIDE DEF i, p
  <2>6. Resolved(i) \in x.completed => i \in x.picked
    BY <2>3, <2>4, <2>5
  <2>7. i \in x.picked => Resource(p) \notin x.completed \/ ~Satisfied(x, ServiceTarget(x, i))
    BY <2>2, <2>3, <2>4, <2>5 DEF Satisfied
  <2> QED BY <1>6, <2>1, <2>6, <2>7 DEF Calm, i
<1>7. ASSUME t.kind = "testjob" PROVE Calm(x, t)
  <2>1. CalmTestJob(v, t)
    BY <1>7 DEF Calm
  <2>2. CalmTestJob(x, t)
    BY <1>7, <2>1, CalmTestJobKept
  <2> QED BY <1>7, <2>2 DEF Calm
<1> QED BY <1>w, <1>1, <1>2, <1>3, <1>4, <1>5, <1>6, <1>7 DEF OfItsKind

\* A target of a store w that an update of v, a later one, either leaves as it is or
\* that the next pass brings up to date: it waits for another set, or for something
\* completed since.
Rel(w, v, t) ==
    Calm(v, t) \/ Deps(v, t) \cap (v.completed \ w.completed) # {} \/ Deps(v, t) # Deps(w, t)

\* The targets of a set are completed or accounted for.
Quiet(w, v, set) == StoreInv(v) /\ Grows(w, v) /\ \A t \in set : t \in v.completed \/ Rel(w, v, t)

\* A step of another target.
LEMMA RelKept ==
    ASSUME NEW w, StoreInv(w), NEW v, StoreInv(v), NEW x, StoreInv(x), NEW u,
           Grows(w, v), Grows(v, x), Fixed(v, x, u),
           NEW t \in w.all, t # u, t \notin x.completed, Rel(w, v, t)
    PROVE  Rel(w, x, t)
<1> SUFFICES ASSUME Deps(x, t) \cap (x.completed \ w.completed) = {}, Deps(x, t) = Deps(w, t)
             PROVE  Calm(x, t)
  BY DEF Rel
<1>1. Deps(v, t) = Deps(w, t)
  BY DepsBack
<1>2. t \in v.all /\ w.completed \subseteq v.completed /\ v.completed \subseteq x.completed
  BY DEF Grows
<1>3. Calm(v, t)
  BY <1>1, <1>2 DEF Rel
<1>4. Deps(x, t) = Deps(v, t) /\ Deps(v, t) \cap (x.completed \ v.completed) = {}
  BY <1>1, <1>2
<1> QED BY <1>2, <1>3, <1>4, CalmKept

\* A step of a target that it completes or calms.
LEMMA QuietStep ==
    ASSUME NEW w, StoreInv(w), NEW v, NEW set, set \subseteq w.all, Quiet(w, v, set), NEW t, NEW x,
           Step(v, x, t), t \in x.completed \/ Calm(x, t)
    PROVE  Quiet(w, x, set \cup {t})
<1>1. StoreInv(v) /\ Grows(w, v) /\ StoreInv(x) /\ Grows(v, x) /\ Fixed(v, x, t) /\ v.completed \subseteq x.completed
  BY DEF Quiet, Step, Grows
<1>2. Grows(w, x)
  BY <1>1, GrowsTrans
<1>3. ASSUME NEW u \in set, u # t, u \notin x.completed PROVE Rel(w, x, u)
  <2>1. Rel(w, v, u) /\ u \in w.all
    BY <1>1, <1>3 DEF Quiet
  <2> QED BY <1>1, <1>3, <2>1, RelKept
<1>4. t \in x.completed \/ Rel(w, x, t)
  BY DEF Rel
<1> QED BY <1>1, <1>2, <1>3, <1>4 DEF Quiet

\* An update.
LEMMA QuietUpdated ==
    ASSUME NEW w, StoreInv(w), NEW v, NEW set, set \subseteq w.all, Quiet(w, v, set), NEW t \in v.all
    PROVE  Quiet(w, Updated(v, t), set \cup {t})
<1> DEFINE x == Updated(v, t)
<1>1. Step(v, x, t)
  BY UpdatedStep DEF Quiet
<1>2. t \in x.completed \/ Calm(x, t)
  <2>1. CASE t \in v.completed
    BY <2>1 DEF Updated
  <2>2. CASE t \notin v.completed
    BY <2>2, UpdatedCalm DEF Quiet
  <2> QED BY <2>1, <2>2
<1> HIDE DEF x
<1>3. Quiet(w, x, set \cup {t})
  BY <1>1, <1>2, QuietStep
<1> QED BY <1>3 DEF x

\* The updates of some targets.
LEMMA UpdatedAllQuiet ==
    ASSUME NEW w, StoreInv(w), NEW v, NEW set, set \subseteq w.all, Quiet(w, v, set),
           NEW targets, targets \subseteq w.all
    PROVE  Quiet(w, UpdatedAll(v, targets), set \cup targets)
<1> DEFINE L == Len(ByName)
<1>1. PICK f : /\ f[0] = v /\ UpdatedAll(v, targets) = f[L]
               /\ \A n \in 1 .. L :
                    f[n] = IF ByName[n] \in targets THEN Updated(f[n - 1], ByName[n]) ELSE f[n - 1]
  BY UpdatedAllIs
<1>l. L \in Nat /\ DOMAIN ByName = 1 .. L
  BY OrderAssumption
<1> DEFINE reached(n) == set \cup {t \in targets : \E k \in 1 .. n : ByName[k] = t}
<1> DEFINE S == {n \in Nat : Quiet(w, f[n], reached(n))}
<1> HIDE DEF L
<1>2. 0 \in S
  <2>1. reached(0) = set
    OBVIOUS
  <2> HIDE DEF reached
  <2> QED BY <1>1, <2>1
<1>3. ASSUME NEW n \in 0 .. L, n < L, n \in S PROVE n + 1 \in S
  <2>1. n + 1 \in 1 .. L /\ (n + 1) - 1 = n /\ n + 1 \in Nat
    BY <1>l, <1>3
  <2>2. f[n + 1] = IF ByName[n + 1] \in targets THEN Updated(f[n], ByName[n + 1]) ELSE f[n]
    BY <1>1, <2>1
  <2>3. Quiet(w, f[n], reached(n))
    BY <1>3
  <2>4. 1 .. (n + 1) = 1 .. n \cup {n + 1}
    BY <1>l, <1>3
  <2>5. reached(n) \subseteq w.all
    OBVIOUS
  <2>6. reached(n + 1) = reached(n) \cup ({ByName[n + 1]} \cap targets)
    BY <2>4
  <2> HIDE DEF reached
  <2>7. Quiet(w, f[n + 1], reached(n + 1))
    <3>1. CASE ByName[n + 1] \in targets
      <4>1. ByName[n + 1] \in f[n].all
        BY <2>3, <3>1 DEF Quiet, Grows
      <4>2. Quiet(w, Updated(f[n], ByName[n + 1]), reached(n) \cup {ByName[n + 1]})
        BY <2>3, <2>5, <4>1, QuietUpdated
      <4>3. reached(n + 1) = reached(n) \cup {ByName[n + 1]}
        BY <2>6, <3>1
      <4> QED BY <4>2, <4>3, <2>2, <3>1
    <3>2. CASE ByName[n + 1] \notin targets
      <4>1. reached(n + 1) = reached(n)
        BY <2>6, <3>2
      <4> QED BY <4>1, <2>2, <2>3, <3>2
    <3> QED BY <3>1, <3>2
  <2> QED BY <2>1, <2>7
<1>4. L \in S
  <2> HIDE DEF S
  <2>1. 0 .. L \subseteq S
    BY <1>l, <1>2, <1>3, UpTo
  <2> QED BY <2>1, <1>l
<1>5. reached(L) = set \cup targets
  <2>1. \A t \in targets : t \in Range(ByName)
    BY OrderAssumption, StoreTypes DEF StoreInv
  <2>2. \A t \in targets : \E k \in 1 .. L : ByName[k] = t
    BY <1>l, <2>1 DEF Range
  <2> QED BY <2>2
<1> HIDE DEF reached
<1> QED BY <1>1, <1>4, <1>5

\* _init_all_statuses.
LEMMA InitialQuiet ==
    ASSUME NEW w, StoreInv(w)
    PROVE  Quiet(w, InitialStore(w), w.all)
<1> DEFINE v == UpdatedAll(w, w.all \ w.own)
<1>1. Quiet(w, w, {})
  BY FollowsItself DEF Follows, Quiet
<1>2. w.own \subseteq w.all
  BY DEF StoreInv, ClosedInv
<1>3. Quiet(w, v, {} \cup (w.all \ w.own))
  <2>1. {} \subseteq w.all /\ w.all \ w.own \subseteq w.all
    OBVIOUS
  <2> QED BY <1>1, <2>1, UpdatedAllQuiet
<1>4. {} \cup (w.all \ w.own) = w.all \ w.own /\ (w.all \ w.own) \cup w.own = w.all
  BY <1>2
<1> HIDE DEF v
<1>5. Quiet(w, v, w.all \ w.own)
  BY <1>3, <1>4
<1>6. Quiet(w, UpdatedAll(v, w.own), (w.all \ w.own) \cup w.own)
  <2>1. w.all \ w.own \subseteq w.all
    OBVIOUS
  <2> QED BY <1>2, <1>5, <2>1, UpdatedAllQuiet
<1> QED BY <1>4, <1>6 DEF InitialStore, v

\* A pass of update_statuses, after one that has seen the store p.
LEMMA PassQuiet ==
    ASSUME NEW p, StoreInv(p), NEW w, StoreInv(w), Grows(p, w),
           \A t \in p.all \ w.completed : Rel(p, w, t)
    PROVE  Quiet(w, UpdatePass(w, p.completed, DepsMap(p)), w.all)
<1> DEFINE dependent == Dependent(w, w.completed \ p.completed)
           changed == Changed(w, DepsMap(p))
           v == UpdatedAll(w, dependent)
           set == {t \in w.all : t \in w.completed \/ Calm(w, t)}
<1>1. Quiet(w, w, set)
  BY FollowsItself DEF Follows, Quiet, Rel
<1>2. dependent \subseteq w.all /\ changed \subseteq w.all /\ set \subseteq w.all
  BY DEF Dependent, Changed, Incomplete
<1>3. set \cup dependent \cup changed = w.all
  <2> SUFFICES ASSUME NEW t \in w.all, t \notin w.completed, ~Calm(w, t), t \notin dependent PROVE t \in changed
    BY <1>2
  <2>1. Deps(w, t) \cap (w.completed \ p.completed) = {}
    BY DEF Dependent
  <2>2. CASE t \notin p.all
    BY <2>2 DEF Changed, Incomplete, DepsMap
  <2>3. CASE t \in p.all
    <3>1. Rel(p, w, t)
      BY <2>3
    <3>2. Deps(w, t) # Deps(p, t)
      BY <2>1, <3>1 DEF Rel
    <3>3. t \in Incomplete(p) => DepsMap(p)[t] = Deps(p, t)
      BY DEF DepsMap
    <3>4. DOMAIN DepsMap(p) = Incomplete(p)
      BY DEF DepsMap
    <3> QED BY <3>2, <3>3, <3>4 DEF Changed, Incomplete
  <2> QED BY <2>2, <2>3
<1>4. UpdatePass(w, p.completed, DepsMap(p)) = UpdatedAll(v, changed)
  BY DEF UpdatePass
<1>5. Quiet(w, v, set \cup dependent)
  <2> HIDE DEF set, dependent
  <2> QED BY <1>1, <1>2, UpdatedAllQuiet
<1> HIDE DEF v, set, dependent, changed
<1>6. set \cup dependent \subseteq w.all
  BY <1>2
<1>7. Quiet(w, UpdatedAll(v, changed), (set \cup dependent) \cup changed)
  BY <1>2, <1>5, <1>6, UpdatedAllQuiet
<1> QED BY <1>3, <1>4, <1>7

\* What the last pass has seen: a store that the present one comes from, since when
\* every target has been updated or is accounted for.
SeenInv ==
    \E w \in Store :
        /\ StoreInv(w) /\ Grows(w, store)
        /\ prevCompleted = w.completed /\ prevMap = DepsMap(w)
        /\ \A t \in w.all \ store.completed : Rel(w, store, t)

\* The invariant of the status updates.
StatusInv ==
    /\ RunnerInv /\ SeenInv
    /\ phase = "submit" => store.completed = prevCompleted /\ Changed(store, prevMap) = {}

\* At the start every target has been updated once.
LEMMA SeenInit == ASSUME RunnerInit PROVE SeenInv
<1>1. PICK program \in Programs, cache \in Caches :
        store = InitialStore(CreatedStore(program, cache)) /\ prevMap = DepsMap(CreatedStore(program, cache))
  BY DEF RunnerInit
<1> DEFINE w == CreatedStore(program, cache)
<1>2. cache \in [imports : SUBSET Module, stale : SUBSET Module, tests : SUBSET Module, staleTests : SUBSET Module]
  BY CacheAssumption DEF Caches
<1>3. StoreInv(w) /\ w \in Store
  BY <1>2, CreatedInv DEF StoreInv
<1>4. w.completed = {}
  BY <1>2, CreatedIs DEF NothingDone
<1>5. Quiet(w, store, w.all)
  BY <1>1, <1>3, InitialQuiet
<1>6. prevCompleted = w.completed /\ prevMap = DepsMap(w)
  BY <1>1, <1>4 DEF RunnerInit
<1> HIDE DEF w
<1> QED BY <1>3, <1>5, <1>6 DEF SeenInv, Quiet

\* A pass has seen the store before it.
LEMMA SeenUpdate ==
    ASSUME RunnerInv, SeenInv, UpdateStatuses
    PROVE  /\ SeenInv'
           /\ phase' = "submit" => (store.completed = prevCompleted /\ Changed(store, prevMap) = {})'
<1>1. CASE store.completed = prevCompleted /\ Changed(store, prevMap) = {}
  BY <1>1 DEF UpdateStatuses, statusVars, SeenInv
<1>2. CASE ~(store.completed = prevCompleted /\ Changed(store, prevMap) = {})
  <2>1. /\ store' = UpdatePass(store, prevCompleted, prevMap)
        /\ prevCompleted' = store.completed /\ prevMap' = DepsMap(store) /\ phase' = "update"
    BY <1>2 DEF UpdateStatuses
  <2>2. PICK w \in Store :
            /\ StoreInv(w) /\ Grows(w, store)
            /\ prevCompleted = w.completed /\ prevMap = DepsMap(w)
            /\ \A t \in w.all \ store.completed : Rel(w, store, t)
    BY DEF SeenInv
  <2>3. StoreInv(store) /\ store \in Store
    BY DEF RunnerInv, StoreInv
  <2>4. Quiet(store, UpdatePass(store, w.completed, DepsMap(w)), store.all)
    BY <2>2, <2>3, PassQuiet
  <2>5. Quiet(store, store', store.all)
    BY <2>1, <2>2, <2>4
  <2> QED BY <2>1, <2>3, <2>5 DEF SeenInv, Quiet
<1> QED BY <1>1, <1>2

\* A result completes its job, and updates nothing else.
LEMMA SeenCollect ==
    ASSUME RunnerInv, SeenInv, NEW p \in Process, Collect(p)
    PROVE  SeenInv' /\ phase' # "submit"
<1> DEFINE t == assigned[p]
           a == answer[t]
<1>1. /\ UNCHANGED statusVars /\ phase' \in {"collect", "error", "stopped"}
      /\ store' = store \/ (Step(store, store', t) /\ t \in store'.completed)
  BY CollectStep
<1> HIDE DEF t
<1>2. prevCompleted' = prevCompleted /\ prevMap' = prevMap
  BY <1>1 DEF statusVars
<1>3. CASE store' = store
  BY <1>1, <1>2, <1>3 DEF SeenInv
<1>4. CASE Step(store, store', t) /\ t \in store'.completed
  <2>1. PICK w \in Store :
            /\ StoreInv(w) /\ Grows(w, store)
            /\ prevCompleted = w.completed /\ prevMap = DepsMap(w)
            /\ \A u \in w.all \ store.completed : Rel(w, store, u)
    BY DEF SeenInv
  <2>2. StoreInv(store) /\ StoreInv(store') /\ Grows(store, store') /\ Fixed(store, store', t)
    BY <1>4 DEF Step, RunnerInv
  <2>3. Grows(w, store')
    BY <2>1, <2>2, GrowsTrans
  <2>4. ASSUME NEW u \in w.all, u \notin store'.completed PROVE Rel(w, store', u)
    <3>1. u # t /\ u \notin store.completed
      BY <1>4, <2>2, <2>4 DEF Grows
    <3> QED BY <2>1, <2>2, <2>4, <3>1, RelKept
  <2> QED BY <1>1, <1>2, <2>1, <2>3, <2>4 DEF SeenInv
<1> QED BY <1>1, <1>3, <1>4

\* The invariant of the status updates.
LEMMA StatusInvariance == RunnerSpec => []StatusInv
<1>1. RunnerInit => StatusInv
  BY RunnerInitInv, SeenInit DEF StatusInv, RunnerInit
<1>2. RunnerInv' /\ StatusInv /\ [RunnerNext]_runnerVars => StatusInv'
  <2> SUFFICES ASSUME RunnerInv', StatusInv, [RunnerNext]_runnerVars PROVE StatusInv'
    OBVIOUS
  <2>1. RunnerInv /\ SeenInv
    BY DEF StatusInv
  <2>2. CASE UpdateStatuses
    BY <2>1, <2>2, SeenUpdate DEF StatusInv
  <2>3. CASE \E p \in Process : Collect(p)
    BY <2>1, <2>3, SeenCollect DEF StatusInv
  <2>4. CASE SubmitJob \/ MakeJobFails \/ EndTargetSet \/ Iterate \/ TimeOut \/ EndBatch \/ Ended \/ UNCHANGED runnerVars
                \/ \E p \in Process : RunJob(p)
    <3>1. store' = store /\ prevCompleted' = prevCompleted /\ prevMap' = prevMap /\ (phase' = "submit" => phase = "submit")
      BY <2>4 DEF SubmitJob, MakeJobFails, EndTargetSet, Iterate, TimeOut, EndBatch, Ended, RunJob, runnerVars, statusVars
    <3> QED BY <3>1 DEF StatusInv, SeenInv
  <2> QED BY <2>2, <2>3, <2>4 DEF RunnerNext
<1> QED BY <1>1, <1>2, RunnerInvariance, PTL DEF RunnerSpec

\* check_statuses: the passes of update_statuses, each of which updates only the
\* dependents of what has completed and the targets with other deps, end at a
\* fixpoint of the updates of all targets.
THEOREM StatusesSettle == RunnerSpec => []Fixpoint
<1>1. RunnerTypeOK /\ StatusInv => Fixpoint
  <2> SUFFICES ASSUME RunnerTypeOK, StatusInv PROVE Fixpoint
    OBVIOUS
  <2>1. SatInv(store) /\ prevCompleted \subseteq store.completed /\ StoreInv(store)
    BY DEF StatusInv, RunnerInv, StoreInv
  <2>2. ASSUME phase = "submit", NEW t \in Incomplete(store) PROVE Updated(store, t) = store
    <3>1. PICK w \in Store :
            /\ StoreInv(w) /\ Grows(w, store)
            /\ prevCompleted = w.completed /\ prevMap = DepsMap(w)
            /\ \A u \in w.all \ store.completed : Rel(w, store, u)
      BY DEF StatusInv, SeenInv
    <3>2. store.completed = w.completed /\ Changed(store, DepsMap(w)) = {}
      BY <2>2, <3>1 DEF StatusInv
    <3>3. t \in DOMAIN DepsMap(w) /\ Deps(store, t) = DepsMap(w)[t]
      BY <2>2, <3>2 DEF Changed
    <3>4. t \in w.all /\ Deps(store, t) = Deps(w, t)
      BY <3>3 DEF DepsMap, Incomplete
    <3>5. t \in store.all /\ t \notin store.completed
      BY DEF Incomplete
    <3>6. Calm(store, t)
      BY <3>1, <3>2, <3>4, <3>5 DEF Rel
    <3> QED BY <2>1, <3>5, <3>6, CalmStays
  <2> QED BY <2>1, <2>2 DEF Fixpoint, SatInv
<1> QED BY <1>1, RunnerTypes, StatusInvariance, PTL
=============================================================================
