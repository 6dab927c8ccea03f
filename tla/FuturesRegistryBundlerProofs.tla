-------------------- MODULE FuturesRegistryBundlerProofs --------------------
(* Proofs about what is looked up and handed over between processes: the     *)
(* futures of RPC calls, for any finite set of calls with any of them untimed  *)
(* and any set of cancelling loops; the cached code registry, for any pieces,  *)
(* any uses among them and any set of threads; and the bundler with its        *)
(* receiver, for any refs, references between them, limits and messages.       *)
EXTENDS RpcFutures, CachedCodeRegistry, Bundler, FiniteSetTheorems, SequenceTheorems,
        WellFoundedInduction, TLAPS

-----------------------------------------------------------------------------
(* Futures of RPC calls *)

\* The initial state: nothing is registered, answered or cancelled.
LEMMA InitInv == Init => IInv
  BY DEF Init, IInv, TypeOK, CallInv, StopperInv, FailureOnlyWhenStopping, RegisteredIsOpen,
         OutcomeIsReply, CancelledOnlyWhenStopping, Ended, Reply

\* The steps of the calling threads and of the workers.  None of them moves a
\* cancelling loop, so what the invariant says of the loops is kept as it is.
LEMMA CallStep ==
  ASSUME IInv, NEW d \in Call,
         \/ Register(d) \/ SendRequest(d) \/ SendFails(d) \/ Return(d) \/ TimeOut(d)
         \/ (\E k \in Reply : Answer(d, k))
         \/ PopFuture(d) \/ ResolveFails(d) \/ CompleteFuture(d)
  PROVE  IInv'
<1> USE DEF IInv, TypeOK, CallInv, StopperInv, FailureOnlyWhenStopping, RegisteredIsOpen,
            OutcomeIsReply, CancelledOnlyWhenStopping, Stopping, Cleared, Ended, Reply,
            callVars, answerVars, stopVars
<1>1. CASE Register(d)
  BY <1>1 DEF Register
<1>2. CASE SendRequest(d)
  BY <1>2 DEF SendRequest
<1>3. CASE SendFails(d)
  BY <1>3 DEF SendFails
<1>4. CASE Return(d)
  BY <1>4 DEF Return
<1>5. CASE TimeOut(d)
  BY <1>5 DEF TimeOut
<1>6. ASSUME NEW k \in Reply, Answer(d, k)
      PROVE  IInv'
  BY <1>6 DEF Answer
<1>7. CASE PopFuture(d)
  BY <1>7 DEF PopFuture
<1>8. CASE ResolveFails(d)
  BY <1>8 DEF ResolveFails
<1>9. CASE CompleteFuture(d)
  BY <1>9 DEF CompleteFuture
<1> QED
  BY <1>1, <1>2, <1>3, <1>4, <1>5, <1>6, <1>7, <1>8, <1>9

\* The steps of a cancelling loop.  A loop that starts counts the dict, which is
\* finite; one that ends or fails has started; only "stop" reaches clear().
LEMMA StopStep ==
  ASSUME IInv, NEW s \in Stopper, BeginCancel(s) \/ CancelStep(s) \/ Clear(s)
  PROVE  IInv'
<1> USE DEF IInv, TypeOK, CallInv, StopperInv, FailureOnlyWhenStopping, RegisteredIsOpen,
            OutcomeIsReply, CancelledOnlyWhenStopping, Stopping, Cleared, Ended, Reply,
            callVars, answerVars, stopVars
<1>1. CASE BeginCancel(s)
  <2>1. Cardinality(registered) \in Nat
    BY CallAssumption, FS_Subset, FS_CardinalityType
  <2> QED
    BY <1>1, <2>1 DEF BeginCancel
<1>2. CASE CancelNext(s)
  BY <1>2 DEF CancelNext
<1>3. CASE IterationFails(s)
  BY <1>3, StopperAssumption DEF IterationFails
<1>4. CASE EndIteration(s)
  BY <1>4, StopperAssumption DEF EndIteration
<1>5. CASE Clear(s)
  BY <1>5, StopperAssumption DEF Clear
<1> QED
  BY <1>1, <1>2, <1>3, <1>4, <1>5 DEF CancelStep

-----------------------------------------------------------------------------
\* The inductive invariant: at every moment a sent call stays registered until a
\* worker takes its response or the dict is cleared, and what a worker holds is open.
THEOREM Invariance == Spec => []IInv
<1>1. IInv /\ [Next]_vars => IInv'
  <2> SUFFICES ASSUME IInv, [Next]_vars PROVE IInv'
    OBVIOUS
  <2>1. CASE Next
    BY <2>1, CallStep, StopStep DEF Next
  <2>2. CASE UNCHANGED vars
    BY <2>2 DEF vars, callVars, answerVars, stopVars, IInv, TypeOK, CallInv, StopperInv,
                FailureOnlyWhenStopping, RegisteredIsOpen, OutcomeIsReply,
                CancelledOnlyWhenStopping, Stopping, Cleared
  <2> QED
    BY <2>1, <2>2
<1> QED
  BY InitInv, <1>1, PTL DEF Spec

\* Type correctness of the registry and of the threads around it.
THEOREM TypeCorrect == Spec => []TypeOK
<1>1. IInv => TypeOK
  BY DEF IInv
<1> QED
  BY Invariance, <1>1, PTL

\* Responses alone never bring a process down: KeyError, InvalidStateError and
\* "dictionary changed size" are reached only once something cancels the calls.
THEOREM NoFailureUnlessStopping == Spec => []FailureOnlyWhenStopping
<1>1. IInv => FailureOnlyWhenStopping
  BY DEF IInv
<1> QED
  BY Invariance, <1>1, PTL

\* What is in rpc_request_futures may still be answered: it is not completed.
THEOREM OpenWhileRegistered == Spec => []RegisteredIsOpen
<1>1. IInv => RegisteredIsOpen
  BY DEF IInv
<1> QED
  BY Invariance, <1>1, PTL

\* A call that returns or raises the remote error got the reply to its own request.
THEOREM OwnReply == Spec => []OutcomeIsReply
<1>1. IInv => OutcomeIsReply
  BY DEF IInv
<1> QED
  BY Invariance, <1>1, PTL

\* CancelledError reaches a caller only in a process that is being stopped.
THEOREM NoCancelUnlessStopping == Spec => []CancelledOnlyWhenStopping
<1>1. IInv => CancelledOnlyWhenStopping
  BY DEF IInv
<1> QED
  BY Invariance, <1>1, PTL

-----------------------------------------------------------------------------
(* The cached code registry: identity of actors, agreement of the two caches  *)
(* and the assertion of _add_to_cache                                         *)

\* What is cached is an actor made for its piece; what the program was given is cached,
\* and both caches agree.
RegistryInv ==
    /\ RegistryTypeOK
    /\ \A t \in Thread : Running(t) => asking[t] = <<>>
    /\ \A rec \in cache : \E u \in Thread : rec.actor = Made(u, rec.piece)
    /\ OneActorPerPiece
    /\ ReverseMatches

\* A call that runs is for a piece of the registry.
LEMMA TopFrame ==
  ASSUME RegistryTypeOK, NEW t \in Thread, Running(t)
  PROVE  /\ Top(t) \in Frame /\ Top(t).piece \in Piece /\ Top(t).step \in Nat
         /\ Len(stack[t]) \in Nat \ {0}
         /\ Tail(stack[t]) \in Seq(Frame)
<1>1. stack[t] \in Seq(Frame) /\ stack[t] # <<>>
  BY DEF RegistryTypeOK, Running
<1>2. Head(stack[t]) \in Frame /\ Tail(stack[t]) \in Seq(Frame)
  BY <1>1, HeadTailProperties
<1>3. Len(stack[t]) \in Nat \ {0}
  BY <1>1, EmptySeq, LenProperties
<1> QED
  BY <1>2, <1>3 DEF Top, Frame

\* What a factory returns is an actor, and so is its key.
LEMMA MadeTypes ==
  ASSUME NEW t \in Thread, NEW x \in Piece
  PROVE  Made(t, x) \in Actor /\ \A actor \in Actor : KeyOf(x, actor) \in Actor
<1>1. Result[x] \in Object
  BY RegistryAssumption
<1> QED
  BY <1>1 DEF Made, KeyOf, Actor

\* Whoever has an object that a reconstructor knows, it has the same key.
LEMMA SameKey ==
  ASSUME NEW x \in Reconstructed, NEW t, NEW u
  PROVE  KeyOf(x, Made(t, x)) = KeyOf(x, Made(u, x))
<1>1. Result[x] \in Existing \/ Result[x] \in ByValue
  BY RegistryAssumption
<1> QED
  BY <1>1 DEF KeyOf, Made

\* Returning an actor keeps the types.
LEMMA ReturnTypes ==
  ASSUME RegistryTypeOK, NEW t \in Thread, Running(t), NEW actor \in Actor, ReturnActor(t, actor)
  PROVE  /\ stack' \in [Thread -> Seq(Frame)]
         /\ got' \subseteq [piece : Piece, actor : Actor]
         /\ \A g \in got' : g \in got \/ (g.piece = Top(t).piece /\ g.actor = actor)
         /\ \A u \in Thread : Running(u)' => Running(u)
<1>1. Tail(stack[t]) \in Seq(Frame) /\ Top(t).piece \in Piece
  BY TopFrame
<1>2. stack' \in [Thread -> Seq(Frame)] /\ \A u \in Thread : u # t => stack'[u] = stack[u]
  BY <1>1 DEF RegistryTypeOK, ReturnActor
<1>3. [piece |-> Top(t).piece, actor |-> actor] \in [piece : Piece, actor : Actor]
  BY <1>1
<1>4. got' \in {got, got \cup {[piece |-> Top(t).piece, actor |-> actor]}}
  BY DEF ReturnActor
<1> QED
  BY <1>2, <1>3, <1>4 DEF RegistryTypeOK, Running

\* Nothing is cached, and nobody runs.
LEMMA RegistryInitInv == RegistryInit => RegistryInv
<1> SUFFICES ASSUME RegistryInit PROVE RegistryInv
  OBVIOUS
<1>1. <<>> \in Seq(Frame) /\ <<>> \in Seq(Reconstructed)
  BY EmptySeq
<1>2. RegistryTypeOK
  BY <1>1 DEF RegistryInit, RegistryTypeOK
<1>3. OneActorPerPiece /\ ReverseMatches
  BY DEF RegistryInit, OneActorPerPiece, ReverseMatches
<1> QED
  BY <1>2, <1>3 DEF RegistryInit, RegistryInv, Running

\* The steps that change only what a thread is at.
LEMMA StackStep ==
  ASSUME RegistryInv, stack' \in [Thread -> Seq(Frame)], asking' \in [Thread -> Seq(Reconstructed)],
         \A t \in Thread : Running(t)' => asking'[t] = <<>>,
         failed' \subseteq [thread : Thread, piece : Piece, by : Thread],
         UNCHANGED <<got, cache, reverse, kept>>
  PROVE  RegistryInv'
<1>1. RegistryTypeOK'
  BY DEF RegistryInv, RegistryTypeOK
<1>2. OneActorPerPiece' /\ ReverseMatches'
  BY DEF RegistryInv, OneActorPerPiece, ReverseMatches, Known
<1> QED
  BY <1>1, <1>2 DEF RegistryInv, Running

\* A lookup that finds the actor gives the program what the cache has.
LEMMA HitInv ==
  ASSUME RegistryInv, NEW t \in Thread, CacheHit(t)
  PROVE  RegistryInv'
<1> DEFINE x == Top(t).piece
<1>1. PICK rec \in cache : rec.piece = x /\ ReturnActor(t, rec.actor)
  BY DEF CacheHit, Cached, RecOf
<1>2. RegistryTypeOK /\ Running(t) /\ UNCHANGED <<asking, cache, reverse, kept, failed>>
  BY DEF RegistryInv, CacheHit
<1>3. rec.actor \in Actor
  BY <1>2 DEF RegistryTypeOK
<1>4. /\ stack' \in [Thread -> Seq(Frame)]
      /\ got' \subseteq [piece : Piece, actor : Actor]
      /\ \A g \in got' : g \in got \/ (g.piece = x /\ g.actor = rec.actor)
      /\ \A u \in Thread : Running(u)' => Running(u)
  BY <1>1, <1>2, <1>3, ReturnTypes
<1>5. RegistryTypeOK'
  BY <1>2, <1>4 DEF RegistryTypeOK
<1>6. OneActorPerPiece'
  BY <1>1, <1>2, <1>4 DEF RegistryInv, OneActorPerPiece
<1>7. ReverseMatches'
  BY <1>2 DEF RegistryInv, ReverseMatches, Known
<1> QED
  BY <1>2, <1>4, <1>5, <1>6, <1>7 DEF RegistryInv

\* An insertion into the caches, of a piece that has no actor or of one whose actors are
\* all equal: it is found, whatever has had its key; what was given to the program
\* still has an equal one.
LEMMA AddInv ==
  ASSUME RegistryInv, NEW t \in Thread, NEW x \in Piece, AddToCache(t, x, Made(t, x)),
         ~Cached(x) \/ x \in Reconstructed
  PROVE  /\ cache' \subseteq [piece : Piece, actor : Actor, by : Thread]
         /\ reverse' \subseteq [key : Actor, piece : Piece]
         /\ kept' \subseteq Actor
         /\ \A r \in cache' : \E u \in Thread : r.actor = Made(u, r.piece)
         /\ \E r \in cache' : r.piece = x /\ r.actor = Made(t, x)
         /\ \A g \in got : \E r \in cache' :
                /\ r.piece = g.piece
                /\ KeyOf(g.piece, g.actor) = KeyOf(g.piece, r.actor)
                /\ g.piece \notin Reconstructed => g.actor = r.actor
         /\ ReverseMatches'
<1> DEFINE actor == Made(t, x)
           key == KeyOf(x, actor)
           new == [piece |-> x, actor |-> actor, by |-> t]
           back == [key |-> key, piece |-> x]
<1>1. /\ cache' = {r \in cache : r.piece # x} \cup {new}
      /\ reverse' = {r \in reverse : r.key # key} \cup {back}
      /\ kept' = kept \cup IF Result[x] \in Unhashable THEN {actor} ELSE {}
  BY DEF AddToCache
<1>2. actor \in Actor /\ key \in Actor
  BY MadeTypes
<1>3. /\ new \in [piece : Piece, actor : Actor, by : Thread]
      /\ new.piece = x /\ new.actor = actor
      /\ back \in [key : Actor, piece : Piece]
      /\ back.piece = x /\ back.key = key
  BY <1>2
<1>4. \A r \in cache : r.piece = x => x \in Reconstructed /\ KeyOf(x, r.actor) = key
  <2> SUFFICES ASSUME NEW r \in cache, r.piece = x
               PROVE  x \in Reconstructed /\ KeyOf(x, r.actor) = key
    OBVIOUS
  <2>1. x \in Reconstructed
    BY DEF Cached
  <2>2. PICK u \in Thread : r.actor = Made(u, x)
    BY DEF RegistryInv
  <2> QED
    BY <2>1, <2>2, SameKey
<1> HIDE DEF actor, key, new, back
<1>5. /\ cache' \subseteq [piece : Piece, actor : Actor, by : Thread]
      /\ reverse' \subseteq [key : Actor, piece : Piece]
      /\ kept' \subseteq Actor
  BY <1>1, <1>2, <1>3 DEF RegistryInv, RegistryTypeOK
<1>6. \A r \in cache' : \E u \in Thread : r.actor = Made(u, r.piece)
  BY <1>1, <1>3 DEF RegistryInv, actor
<1>7. new \in cache' /\ back \in reverse'
  BY <1>1
<1>8. ASSUME NEW g \in got
      PROVE  \E r \in cache' :
                /\ r.piece = g.piece
                /\ KeyOf(g.piece, g.actor) = KeyOf(g.piece, r.actor)
                /\ g.piece \notin Reconstructed => g.actor = r.actor
  <2>1. PICK r \in cache : /\ r.piece = g.piece
                           /\ KeyOf(g.piece, g.actor) = KeyOf(g.piece, r.actor)
                           /\ g.piece \notin Reconstructed => g.actor = r.actor
    BY DEF RegistryInv, OneActorPerPiece
  <2>2. CASE r.piece = x
    <3>1. x \in Reconstructed /\ KeyOf(x, r.actor) = key
      BY <1>4, <2>2
    <3>2. KeyOf(x, new.actor) = key
      BY <1>3 DEF key
    <3> QED
      BY <1>3, <1>7, <2>1, <2>2, <3>1, <3>2
  <2>3. CASE r.piece # x
    BY <1>1, <2>1, <2>3
  <2> QED
    BY <2>2, <2>3
<1>9. ReverseMatches'
  <2>1. ASSUME NEW r \in cache'
        PROVE  \E b \in reverse' : b.key = KeyOf(r.piece, r.actor)
    <3>1. CASE r = new
      BY <1>3, <1>7, <3>1 DEF key
    <3>2. CASE r \in cache
      <4>1. PICK b \in reverse : b.key = KeyOf(r.piece, r.actor)
        BY <3>2 DEF RegistryInv, ReverseMatches, Known
      <4> QED
        BY <1>1, <1>3, <1>7, <4>1
    <3> QED
      BY <1>1, <3>1, <3>2
  <2>2. ASSUME NEW b \in reverse'
        PROVE  \E r \in cache' : r.piece = b.piece /\ KeyOf(r.piece, r.actor) = b.key
    <3>1. CASE b = back
      BY <1>3, <1>7, <3>1 DEF key
    <3>2. CASE b \in reverse /\ b.key # key
      <4>1. PICK r \in cache : r.piece = b.piece /\ KeyOf(r.piece, r.actor) = b.key
        BY <3>2 DEF RegistryInv, ReverseMatches
      <4>2. r.piece # x
        BY <1>4, <3>2, <4>1
      <4> QED
        BY <1>1, <4>1, <4>2
    <3> QED
      BY <1>1, <3>1, <3>2
  <2>3. \A r \in cache' : Result[r.piece] \in Unhashable => r.actor \in kept'
    BY <1>1, <1>3 DEF RegistryInv, ReverseMatches
  <2> QED
    BY <2>1, <2>2, <2>3 DEF ReverseMatches, Known
<1> QED
  BY <1>3, <1>5, <1>6, <1>7, <1>8, <1>9 DEF actor

\* An insertion by animate() is for a piece that has no actor, and goes to both caches.
LEMMA StoreInv ==
  ASSUME RegistryInv, NEW t \in Thread, Store(t)
  PROVE  RegistryInv'
<1> DEFINE x == Top(t).piece
           actor == Made(t, x)
<1>1. /\ Running(t) /\ ~Cached(x) /\ ReturnActor(t, actor) /\ AddToCache(t, x, Made(t, x))
      /\ UNCHANGED <<asking, failed>>
  BY DEF Store, Storing
<1>2. RegistryTypeOK /\ x \in Piece
  BY <1>1, TopFrame DEF RegistryInv
<1>3. actor \in Actor
  BY <1>2, MadeTypes
<1>4. /\ stack' \in [Thread -> Seq(Frame)]
      /\ got' \subseteq [piece : Piece, actor : Actor]
      /\ \A g \in got' : g \in got \/ (g.piece = x /\ g.actor = actor)
      /\ \A u \in Thread : Running(u)' => Running(u)
  BY <1>1, <1>2, <1>3, ReturnTypes
<1> HIDE DEF x
<1>5. /\ cache' \subseteq [piece : Piece, actor : Actor, by : Thread]
      /\ reverse' \subseteq [key : Actor, piece : Piece]
      /\ kept' \subseteq Actor
      /\ \A r \in cache' : \E u \in Thread : r.actor = Made(u, r.piece)
      /\ \E r \in cache' : r.piece = x /\ r.actor = actor
      /\ \A g \in got : \E r \in cache' :
            /\ r.piece = g.piece
            /\ KeyOf(g.piece, g.actor) = KeyOf(g.piece, r.actor)
            /\ g.piece \notin Reconstructed => g.actor = r.actor
      /\ ReverseMatches'
  BY <1>1, <1>2, AddInv
<1>6. RegistryTypeOK'
  BY <1>1, <1>2, <1>4, <1>5 DEF RegistryTypeOK
<1>7. OneActorPerPiece'
  BY <1>4, <1>5 DEF OneActorPerPiece
<1> QED
  BY <1>1, <1>4, <1>5, <1>6, <1>7 DEF RegistryInv

\* An object that is put into the caches with the piece made for it replaces an equal one.
LEMMA ReconstructedInv ==
  ASSUME RegistryInv, NEW t \in Thread, AddReconstructed(t)
  PROVE  RegistryInv'
<1> DEFINE x == Head(asking[t])
<1>1. asking[t] \in Seq(Reconstructed) /\ asking[t] # <<>> /\ RegistryTypeOK
  BY DEF AddReconstructed, RegistryInv, RegistryTypeOK
<1>2. x \in Reconstructed /\ x \in Piece /\ Tail(asking[t]) \in Seq(Reconstructed)
  BY <1>1, HeadTailProperties, RegistryAssumption
<1>3. AddToCache(t, x, Made(t, x)) /\ asking' = [asking EXCEPT ![t] = Tail(@)]
      /\ UNCHANGED <<stack, got, failed>>
  BY DEF AddReconstructed
<1> HIDE DEF x
<1>4. /\ cache' \subseteq [piece : Piece, actor : Actor, by : Thread]
      /\ reverse' \subseteq [key : Actor, piece : Piece]
      /\ kept' \subseteq Actor
      /\ \A r \in cache' : \E u \in Thread : r.actor = Made(u, r.piece)
      /\ \A g \in got : \E r \in cache' :
            /\ r.piece = g.piece
            /\ KeyOf(g.piece, g.actor) = KeyOf(g.piece, r.actor)
            /\ g.piece \notin Reconstructed => g.actor = r.actor
      /\ ReverseMatches'
  BY <1>2, <1>3, AddInv
<1>5. RegistryTypeOK'
  BY <1>1, <1>2, <1>3, <1>4 DEF RegistryTypeOK
<1>6. OneActorPerPiece'
  BY <1>3, <1>4 DEF OneActorPerPiece
<1>7. ~Running(t) /\ \A u \in Thread : u # t => asking'[u] = asking[u]
  BY <1>1, <1>3 DEF RegistryInv, RegistryTypeOK
<1>8. \A u \in Thread : Running(u)' => asking'[u] = <<>>
  BY <1>3, <1>7 DEF RegistryInv, Running
<1> QED
  BY <1>4, <1>5, <1>6, <1>8 DEF RegistryInv

\* An object whose piece is asked for and not known starts a reconstruction.
LEMMA AskInv ==
  ASSUME RegistryInv, NEW t \in Thread, NEW x \in Reconstructed, AskPiece(t, x)
  PROVE  RegistryInv'
<1>1. asking[t] \in Seq(Reconstructed) /\ asking \in [Thread -> Seq(Reconstructed)] /\ ~Running(t)
  BY DEF AskPiece, RegistryInv, RegistryTypeOK
<1>2. <<x>> \in Seq(Reconstructed)
  OBVIOUS
<1>3. <<x>> \o asking[t] \in Seq(Reconstructed)
  BY <1>1, <1>2, ConcatProperties
<1>4. asking' = [asking EXCEPT ![t] = <<x>> \o asking[t]] /\ UNCHANGED <<stack, got, cache, reverse, kept, failed>>
  BY DEF AskPiece
<1>5. asking' \in [Thread -> Seq(Reconstructed)] /\ \A u \in Thread : u # t => asking'[u] = asking[u]
  BY <1>1, <1>3, <1>4
<1>6. \A u \in Thread : Running(u)' => asking'[u] = <<>>
  BY <1>1, <1>4, <1>5 DEF RegistryInv, Running
<1> QED
  BY <1>4, <1>5, <1>6, StackStep DEF RegistryInv, RegistryTypeOK

\* What a factory does before it returns moves only the stack of its thread.
LEMMA FactoryInv ==
  ASSUME RegistryInv, NEW t \in Thread, CacheMiss(t) \/ UseNext(t) \/ StoreFails(t)
  PROVE  RegistryInv'
<1>1. RegistryTypeOK
  BY DEF RegistryInv
<1>2. Running(t) /\ UNCHANGED <<asking, got, cache, reverse, kept>>
  BY DEF CacheMiss, UseNext, StoreFails, Storing
<1>3. /\ Top(t) \in Frame /\ Top(t).piece \in Piece /\ Top(t).step \in Nat
      /\ Tail(stack[t]) \in Seq(Frame) /\ stack[t] \in Seq(Frame) /\ Len(stack[t]) \in Nat \ {0}
  BY <1>1, <1>2, TopFrame DEF RegistryTypeOK
<1>4. ASSUME NEW s, stack' = [stack EXCEPT ![t] = s]
      PROVE  \A u \in Thread : Running(u)' => asking'[u] = <<>>
  <2> TAKE u \in Thread
  <2>1. u # t => stack'[u] = stack[u]
    BY <1>1, <1>4 DEF RegistryTypeOK
  <2> QED
    BY <1>2, <2>1 DEF RegistryInv, Running
<1>5. CASE CacheMiss(t)
  <2>1. Top(t) = stack[t][1] /\ 1 \in 1 .. Len(stack[t])
    BY <1>2, <1>3 DEF Top, Running
  <2>2. [stack[t][1] EXCEPT !.step = 1] \in Frame
    BY <2>1, <1>3 DEF Frame
  <2>3. PICK s \in Seq(Frame) : s = [stack[t] EXCEPT ![1].step = 1]
    BY <2>1, <2>2, <1>3, ExceptSeq
  <2>4. stack' = [stack EXCEPT ![t] = s] /\ UNCHANGED failed
    BY <2>3, <1>1, <1>5 DEF CacheMiss, RegistryTypeOK
  <2>5. stack' \in [Thread -> Seq(Frame)]
    BY <2>4, <1>1 DEF RegistryTypeOK
  <2>6. \A u \in Thread : Running(u)' => asking'[u] = <<>>
    BY <1>4, <2>4
  <2> QED
    BY <1>1, <1>2, <2>4, <2>5, <2>6, StackStep DEF RegistryTypeOK
<1>6. CASE UseNext(t)
  <2> DEFINE used == Uses[Top(t).piece][Top(t).step]
             calls == <<[piece |-> used, step |-> 0], [Top(t) EXCEPT !.step = @ + 1]>>
  <2>1. used \in Piece
    BY <1>3, <1>6, RegistryAssumption, ElementOfSeq, LenProperties DEF UseNext
  <2>2. [piece |-> used, step |-> 0] \in Frame /\ [Top(t) EXCEPT !.step = @ + 1] \in Frame
    BY <2>1, <1>3 DEF Frame
  <2> HIDE DEF used
  <2>3. calls \in Seq(Frame)
    BY <2>2
  <2>4. stack' = [stack EXCEPT ![t] = calls \o Tail(@)] /\ UNCHANGED failed
    BY <1>6 DEF UseNext, used
  <2> HIDE DEF calls
  <2>5. PICK s \in Seq(Frame) : s = calls \o Tail(stack[t])
    BY <2>3, <1>3, ConcatProperties
  <2>6. stack' = [stack EXCEPT ![t] = s] /\ stack' \in [Thread -> Seq(Frame)]
    BY <2>4, <2>5, <1>1 DEF RegistryTypeOK
  <2>7. \A u \in Thread : Running(u)' => asking'[u] = <<>>
    BY <1>4, <2>6
  <2> QED
    BY <1>1, <1>2, <2>4, <2>6, <2>7, StackStep DEF RegistryTypeOK
<1>7. CASE StoreFails(t)
  <2>1. stack' = [stack EXCEPT ![t] = <<>>] /\ stack' \in [Thread -> Seq(Frame)]
    BY <1>1, <1>7, EmptySeq DEF StoreFails, RegistryTypeOK
  <2>2. PICK rec \in cache : rec = RecOf(Top(t).piece)
    BY <1>7 DEF StoreFails, Cached, RecOf
  <2>3. rec.by \in Thread
    BY <1>1 DEF RegistryTypeOK
  <2>4. [thread |-> t, piece |-> Top(t).piece, by |-> rec.by] \in [thread : Thread, piece : Piece, by : Thread]
    BY <1>3, <2>3
  <2>5. failed' = failed \cup {[thread |-> t, piece |-> Top(t).piece, by |-> rec.by]}
    BY <1>7, <2>2 DEF StoreFails
  <2>6. failed' \subseteq [thread : Thread, piece : Piece, by : Thread]
    BY <1>1, <2>4, <2>5 DEF RegistryTypeOK
  <2>7. \A u \in Thread : Running(u)' => asking'[u] = <<>>
    BY <1>4, <2>1
  <2> QED
    BY <1>1, <1>2, <2>1, <2>6, <2>7, StackStep DEF RegistryTypeOK
<1> QED
  BY <1>5, <1>6, <1>7

\* A program that calls animate() begins a stack.
LEMMA AnimateInv ==
  ASSUME RegistryInv, NEW t \in Thread, NEW x \in Piece, Animate(t, x)
  PROVE  RegistryInv'
<1>1. RegistryTypeOK
  BY DEF RegistryInv
<1>2. PICK s \in Seq(Frame) : s = <<[piece |-> x, step |-> 0]>>
  <2>1. <<[piece |-> x, step |-> 0]>> \in Seq(Frame)
    BY DEF Frame
  <2> QED
    BY <2>1
<1>3. /\ stack' = [stack EXCEPT ![t] = s] /\ asking[t] = <<>>
      /\ UNCHANGED <<asking, got, cache, reverse, kept, failed>>
  BY <1>2 DEF Animate
<1>4. stack' \in [Thread -> Seq(Frame)] /\ \A u \in Thread : u # t => stack'[u] = stack[u]
  BY <1>1, <1>3 DEF RegistryTypeOK
<1>5. \A u \in Thread : Running(u)' => asking'[u] = <<>>
  BY <1>3, <1>4 DEF RegistryInv, Running
<1> QED
  BY <1>1, <1>3, <1>4, <1>5, StackStep DEF RegistryTypeOK

-----------------------------------------------------------------------------
\* In every reachable state both caches agree and hold one actor for a piece.
THEOREM RegistrySafe == RegistrySpec => []RegistryInv
<1>1. RegistryInv /\ [RegistryNext]_registryVars => RegistryInv'
  <2> SUFFICES ASSUME RegistryInv, [RegistryNext]_registryVars PROVE RegistryInv'
    OBVIOUS
  <2>1. ASSUME NEW t \in Thread, Step(t) PROVE RegistryInv'
    BY <2>1, HitInv, StoreInv, FactoryInv DEF Step
  <2>2. ASSUME NEW t \in Thread, NEW x \in Piece, Animate(t, x) PROVE RegistryInv'
    BY <2>2, AnimateInv
  <2>3. ASSUME NEW t \in Thread, NEW x \in Reconstructed, AskPiece(t, x) PROVE RegistryInv'
    BY <2>3, AskInv
  <2>4. ASSUME NEW t \in Thread, AddReconstructed(t) PROVE RegistryInv'
    BY <2>4, ReconstructedInv
  <2>5. CASE UNCHANGED registryVars
    BY <2>5 DEF registryVars, RegistryInv, RegistryTypeOK, OneActorPerPiece, ReverseMatches, Known, Running
  <2> QED
    BY <2>1, <2>2, <2>3, <2>4, <2>5 DEF RegistryNext
<1> QED
  BY RegistryInitInv, <1>1, PTL DEF RegistrySpec

\* Whatever threads animate it, the program has one actor for a piece, or equal ones of a
\* type that was reconstructed in between.
THEOREM IdentityOfActors == RegistrySpec => []OneActorPerPiece
<1>1. RegistryInv => OneActorPerPiece
  BY DEF RegistryInv
<1> QED
  BY RegistrySafe, <1>1, PTL

\* actor_to_piece finds a piece for every cached actor, whose own actor is equal to it
\* whichever pieces share a result; an actor known by its id alone stays alive.
THEOREM CachesAgree == RegistrySpec => []ReverseMatches
<1>1. RegistryInv => ReverseMatches
  BY DEF RegistryInv
<1> QED
  BY RegistrySafe, <1>1, PTL

-----------------------------------------------------------------------------
\* The factory of a call is at the piece of the call above it, and the pieces it has
\* got so far are cached.
IsAt(f, g)   == f.step - 1 \in DOMAIN Uses[f.piece] /\ Uses[f.piece][f.step - 1] = g.piece
HasGot(f, n) == \A k \in DOMAIN Uses[f.piece] : k < n => Cached(Uses[f.piece][k])
NestInv == \A t \in Thread : \A i \in 2 .. Len(stack[t]) : IsAt(stack[t][i], stack[t][i - 1])
UsedInv ==
    \A t \in Thread :
        /\ Running(t) => HasGot(Top(t), Top(t).step)
        /\ \A i \in 2 .. Len(stack[t]) : HasGot(stack[t][i], stack[t][i].step - 1)

\* Pieces that use each other in a circle are never cached.
CircleInv == \A C \in SUBSET Piece : Circle(C) => \A rec \in cache : rec.piece \notin C

\* No actor that a thread has cached is for a piece that it is still making.
MakingInv ==
    \A t \in Thread : \A i \in 1 .. Len(stack[t]) :
        stack[t][i].step > 0 => \A rec \in cache : rec.piece = stack[t][i].piece => rec.by # t

FailedInv == \A f \in failed : f.by # f.thread

RaceInv == NestInv /\ UsedInv /\ CircleInv /\ MakingInv /\ FailedInv

\* The calls of a stack without its innermost one.
LEMMA TailAt ==
  ASSUME NEW S, NEW s \in Seq(S), s # <<>>
  PROVE  /\ Len(Tail(s)) = Len(s) - 1 /\ Len(s) \in Nat \ {0}
         /\ Head(s) = s[1]
         /\ \A i \in 1 .. Len(Tail(s)) : Tail(s)[i] = s[i + 1]
  BY HeadTailProperties, LenProperties, EmptySeq

\* The calls of a stack whose innermost one has gone on to another.
LEMMA NestedAt ==
  ASSUME NEW S, NEW s \in Seq(S), s # <<>>, NEW a \in S, NEW b \in S,
         NEW r, r = <<a, b>> \o Tail(s)
  PROVE  /\ Len(r) = Len(s) + 1 /\ r[1] = a /\ r[2] = b
         /\ \A i \in 3 .. Len(r) : r[i] = s[i - 1]
<1> DEFINE top == <<a, b>>
           rest == Tail(s)
<1>1. top \in Seq(S) /\ Len(top) = 2 /\ top[1] = a /\ top[2] = b
  OBVIOUS
<1>2. /\ rest \in Seq(S) /\ Len(rest) = Len(s) - 1 /\ Len(s) \in Nat \ {0}
      /\ \A i \in 1 .. Len(rest) : rest[i] = s[i + 1]
  BY TailAt, HeadTailProperties
<1>3. r = top \o rest
  OBVIOUS
<1> HIDE DEF top, rest
<1>4. /\ Len(r) = Len(top) + Len(rest)
      /\ \A i \in 1 .. Len(top) + Len(rest) :
            r[i] = IF i <= Len(top) THEN top[i] ELSE rest[i - Len(top)]
  <2>1. top \in Seq(S) /\ rest \in Seq(S)
    BY <1>1, <1>2
  <2> QED
    BY <1>3, <2>1, ConcatProperties
<1>5. \A i \in 3 .. Len(s) + 1 : r[i] = s[i - 1]
  <2> TAKE i \in 3 .. Len(s) + 1
  <2>1. i - 2 \in 1 .. Len(rest) /\ r[i] = rest[i - 2]
    BY <1>1, <1>2, <1>4
  <2>2. (i - 2) + 1 = i - 1
    OBVIOUS
  <2> QED
    BY <1>2, <2>1, <2>2
<1> QED
  BY <1>1, <1>2, <1>4, <1>5

\* A piece whose uses are all cached, as one that is being stored, is in no circle: so
\* no factory further down the stack is making it.
LEMMA NotBelow ==
  ASSUME RegistryInv, RaceInv, NEW t \in Thread, Storing(t)
  PROVE  /\ \A C \in SUBSET Piece : Circle(C) => Top(t).piece \notin C
         /\ \A j \in 2 .. Len(stack[t]) : stack[t][j].piece # Top(t).piece
<1> DEFINE x == Top(t).piece
<1>1. /\ stack[t] \in Seq(Frame) /\ stack[t] # <<>> /\ Len(stack[t]) \in Nat \ {0}
      /\ x \in Piece /\ stack[t][1] = Top(t) /\ Top(t).step = Len(Uses[x]) + 1
  BY TopFrame, TailAt DEF Storing, Running, RegistryInv, RegistryTypeOK, Top
<1>2. DOMAIN Uses[x] = 1 .. Len(Uses[x]) /\ Len(Uses[x]) \in Nat
  BY <1>1, RegistryAssumption, LenProperties
<1>3. \A k \in DOMAIN Uses[x] : Cached(Uses[x][k])
  <2>1. HasGot(Top(t), Top(t).step)
    BY DEF RaceInv, UsedInv, Storing
  <2>2. \A k \in DOMAIN Uses[x] : k < Top(t).step => Cached(Uses[x][k])
    BY <2>1 DEF HasGot
  <2>3. \A k \in DOMAIN Uses[x] : k < Top(t).step
    BY <1>1, <1>2
  <2> QED
    BY <2>2, <2>3
<1>4. ASSUME NEW C \in SUBSET Piece, Circle(C), x \in C
      PROVE  FALSE
  <2>1. PICK k \in DOMAIN Uses[x] : Uses[x][k] \in C
    BY <1>4 DEF Circle
  <2>2. PICK rec \in cache : rec.piece = Uses[x][k]
    BY <1>3, Zenon DEF Cached
  <2>3. rec.piece \notin C
    BY <1>4 DEF RaceInv, CircleInv
  <2> QED
    BY <2>1, <2>2, <2>3
<1>5. ASSUME NEW j \in 2 .. Len(stack[t]), stack[t][j].piece = x
      PROVE  FALSE
  <2> DEFINE C == {stack[t][i].piece : i \in 1 .. j}
  <2>1. C \subseteq Piece
    <3>1. \A i \in 1 .. j : i \in 1 .. Len(stack[t])
      BY <1>1
    <3>2. \A i \in 1 .. j : stack[t][i] \in Frame
      BY <1>1, <3>1, ElementOfSeq
    <3> QED
      BY <3>2 DEF Frame
  <2>2. ASSUME NEW i \in 1 .. j
        PROVE  \E k \in DOMAIN Uses[stack[t][i].piece] : Uses[stack[t][i].piece][k] \in C
    <3>1. PICK n \in 2 .. j : stack[t][n].piece = stack[t][i].piece
      BY <1>1, <1>5
    <3>2. IsAt(stack[t][n], stack[t][n - 1])
      BY <1>1, <3>1 DEF RaceInv, NestInv
    <3>3. stack[t][n - 1].piece \in C
      BY <3>1
    <3> QED
      BY <3>1, <3>2, <3>3 DEF IsAt
  <2>3. Circle(C) /\ x \in C
    <3>1. 1 \in 1 .. j /\ stack[t][1].piece = x
      BY <1>1
    <3>2. x \in C
      BY <3>1
    <3>3. \A y \in C : \E i \in 1 .. j : y = stack[t][i].piece
      OBVIOUS
    <3> HIDE DEF C
    <3> QED
      BY <2>2, <3>2, <3>3, Zenon DEF Circle
  <2> QED
    BY <1>4, <2>1, <2>3
<1> QED
  BY <1>4, <1>5

\* The innermost call of a thread returns, its piece cached.
LEMMA ReturnRace ==
  ASSUME RegistryInv, RaceInv, NEW t \in Thread, Running(t),
         stack' = [stack EXCEPT ![t] = Tail(@)], cache \subseteq cache',
         NEW last, last = Top(t).piece, Cached(last)'
  PROVE  NestInv' /\ UsedInv'
<1>1. PICK s \in Seq(Frame) : s = stack[t] /\ s # <<>>
  BY DEF Running, RegistryInv, RegistryTypeOK
<1>2. PICK r \in Seq(Frame) : r = Tail(s)
  BY <1>1, HeadTailProperties
<1>3. /\ Len(r) = Len(s) - 1 /\ Len(s) \in Nat \ {0} /\ s[1] = Top(t)
      /\ \A i \in 1 .. Len(r) : r[i] = s[i + 1]
  BY <1>1, <1>2, TailAt DEF Top
<1>4. stack'[t] = r /\ \A u \in Thread : u # t => stack'[u] = stack[u]
  BY <1>1, <1>2 DEF RegistryInv, RegistryTypeOK
<1>5. \A y : Cached(y) => Cached(y)'
  BY DEF Cached
<1>6. /\ \A i \in 2 .. Len(s) : IsAt(s[i], s[i - 1]) /\ HasGot(s[i], s[i].step - 1)
  BY <1>1 DEF RaceInv, NestInv, UsedInv
<1>7. \A i \in 2 .. Len(r) : IsAt(r[i], r[i - 1])
  <2> TAKE i \in 2 .. Len(r)
  <2>1. /\ i + 1 \in 2 .. Len(s) /\ (i + 1) - 1 = i
        /\ i \in 1 .. Len(r) /\ i - 1 \in 1 .. Len(r) /\ (i - 1) + 1 = i
    BY <1>3
  <2>2. IsAt(s[i + 1], s[i]) /\ r[i] = s[i + 1] /\ r[i - 1] = s[i]
    BY <1>3, <1>6, <2>1
  <2> QED
    BY <2>2
<1>8. NestInv'
  BY <1>4, <1>7 DEF RaceInv, NestInv, IsAt
<1>9. ASSUME NEW f, NEW n, HasGot(f, n)
      PROVE  HasGot(f, n)'
  BY <1>5, <1>9 DEF HasGot
<1>10. ASSUME NEW u \in Thread, u # t
       PROVE  /\ Running(u)' => HasGot(Top(u), Top(u).step)'
              /\ \A i \in 2 .. Len(stack[u])' : HasGot(stack[u][i], stack[u][i].step - 1)'
  <2>1. stack'[u] = stack[u]
    BY <1>4, <1>10
  <2>2. /\ Running(u) => HasGot(Top(u), Top(u).step)
        /\ \A i \in 2 .. Len(stack[u]) : HasGot(stack[u][i], stack[u][i].step - 1)
    BY DEF RaceInv, UsedInv
  <2> QED
    BY <1>5, <2>1, <2>2 DEF HasGot, Running, Top
<1>11. \A i \in 2 .. Len(stack[t])' : HasGot(stack[t][i], stack[t][i].step - 1)'
  <2> TAKE i \in 2 .. Len(stack[t])'
  <2>1. PICK f : f = s[i + 1]
    OBVIOUS
  <2>2. i + 1 \in 2 .. Len(s) /\ stack'[t][i] = f
    BY <1>3, <1>4, <2>1
  <2>3. HasGot(f, f.step - 1)'
    BY <1>6, <1>9, <2>1, <2>2
  <2> QED
    BY <2>2, <2>3 DEF HasGot
<1>12. Running(t)' => HasGot(Top(t), Top(t).step)'
  <2> SUFFICES ASSUME Running(t)' PROVE HasGot(Top(t), Top(t).step)'
    OBVIOUS
  <2>1. r # <<>>
    BY <1>4 DEF Running
  <2>2. PICK f \in Frame : f = r[1] /\ f = Head(r)
    BY <2>1, TailAt, HeadTailProperties
  <2>3. 2 \in 2 .. Len(s) /\ f = s[2] /\ 2 - 1 = 1
    BY <1>3, <2>1, <2>2, TailAt
  <2>4. IsAt(f, s[1]) /\ HasGot(f, f.step - 1)
    BY <1>6, <2>3
  <2>5. last = s[1].piece
    BY <1>3
  <2>6. f.step \in Nat /\ f.piece \in Piece
    BY DEF Frame
  <2>7. DOMAIN Uses[f.piece] = 1 .. Len(Uses[f.piece]) /\ Len(Uses[f.piece]) \in Nat
    BY <2>6, RegistryAssumption, LenProperties
  <2>8. ASSUME NEW k \in DOMAIN Uses[f.piece], k < f.step
        PROVE  Cached(Uses[f.piece][k])'
    <3>1. CASE k < f.step - 1
      BY <1>5, <2>4, <3>1 DEF HasGot
    <3>2. CASE k = f.step - 1
      BY <2>4, <2>5, <3>2 DEF IsAt
    <3> QED
      BY <2>6, <2>7, <2>8, <3>1, <3>2
  <2>9. HasGot(f, f.step)'
    BY <2>8 DEF HasGot
  <2>10. Top(t)' = f
    BY <1>4, <2>2 DEF Top
  <2> QED
    BY <2>9, <2>10 DEF HasGot
<1> QED
  BY <1>8, <1>10, <1>11, <1>12 DEF UsedInv

\* What a thread makes is less by one.
LEMMA PoppedMaking ==
  ASSUME RegistryInv, MakingInv, NEW t \in Thread, Running(t),
         stack' = [stack EXCEPT ![t] = Tail(@)], UNCHANGED cache
  PROVE  MakingInv'
<1>1. stack[t] \in Seq(Frame) /\ stack[t] # <<>>
  BY DEF Running, RegistryInv, RegistryTypeOK
<1>2. PICK r : r = Tail(stack[t])
  OBVIOUS
<1>3. Len(r) = Len(stack[t]) - 1 /\ Len(stack[t]) \in Nat /\ \A i \in 1 .. Len(r) : r[i] = stack[t][i + 1]
  BY <1>1, <1>2, TailAt
<1>4. stack'[t] = r /\ \A u \in Thread : u # t => stack'[u] = stack[u]
  BY <1>2 DEF RegistryInv, RegistryTypeOK
<1>5. \A i \in 1 .. Len(r) : i + 1 \in 1 .. Len(stack[t])
  BY <1>3
<1> QED
  BY <1>3, <1>4, <1>5 DEF MakingInv

\* A lookup that finds the piece returns to the factory that uses it.
LEMMA HitRace ==
  ASSUME RegistryInv, RaceInv, NEW t \in Thread, CacheHit(t)
  PROVE  RaceInv'
<1>1. /\ Running(t) /\ Cached(Top(t).piece) /\ stack' = [stack EXCEPT ![t] = Tail(@)]
      /\ UNCHANGED <<cache, failed>>
  BY DEF CacheHit, ReturnActor
<1>2. PICK last : last = Top(t).piece
  OBVIOUS
<1>3. Cached(last)' /\ cache \subseteq cache'
  BY <1>1, <1>2 DEF Cached
<1>4. NestInv' /\ UsedInv'
  BY <1>1, <1>2, <1>3, ReturnRace
<1>5. MakingInv'
  BY <1>1, PoppedMaking DEF RaceInv
<1> QED
  BY <1>1, <1>4, <1>5 DEF RaceInv, CircleInv, FailedInv, Cached

\* A thread that finds nothing has to make the actor: nobody has cached one.
LEMMA MissRace ==
  ASSUME RegistryInv, RaceInv, NEW t \in Thread, CacheMiss(t)
  PROVE  RaceInv'
<1>1. PICK s \in Seq(Frame) : s = stack[t] /\ s # <<>>
  BY DEF CacheMiss, Running, RegistryInv, RegistryTypeOK
<1>2. s[1] = Top(t) /\ Len(s) \in Nat \ {0} /\ s[1] \in Frame /\ 1 \in 1 .. Len(s)
  BY <1>1, TailAt, HeadTailProperties DEF Top
<1>3. PICK f \in Frame : f = [s[1] EXCEPT !.step = 1]
  BY <1>2 DEF Frame
<1>4. PICK r \in Seq(Frame) : r = [s EXCEPT ![1] = f]
  BY <1>2, <1>3, ExceptSeq
<1>5. /\ Len(r) = Len(s) /\ r[1] = f /\ \A i \in 2 .. Len(s) : r[i] = s[i]
      /\ f.piece = s[1].piece /\ f.step = 1 /\ r # <<>> /\ Head(r) = f
  <2>1. Len(r) = Len(s) /\ \A i \in 1 .. Len(s) : r[i] = IF i = 1 THEN f ELSE s[i]
    BY <1>2, <1>4, ExceptSeq
  <2>2. f.piece = s[1].piece /\ f.step = 1
    BY <1>2, <1>3 DEF Frame
  <2>3. r # <<>>
    BY <1>2, <2>1, EmptySeq
  <2>4. Head(r) = r[1]
    BY <2>3, TailAt
  <2> QED
    BY <1>2, <2>1, <2>2, <2>3, <2>4
<1>6. stack'[t] = r /\ \A u \in Thread : u # t => stack'[u] = stack[u]
  BY <1>1, <1>3, <1>4 DEF CacheMiss, RegistryInv, RegistryTypeOK
<1>7. ~Cached(f.piece) /\ UNCHANGED <<cache, failed>>
  BY <1>2, <1>5 DEF CacheMiss
<1>8. NestInv'
  <2>1. ASSUME NEW i \in 2 .. Len(r)
        PROVE  IsAt(r[i], r[i - 1])
    <3>1. IsAt(s[i], s[i - 1])
      BY <1>1, <1>5 DEF RaceInv, NestInv
    <3>2. r[i] = s[i] /\ i - 1 \in 1 .. Len(s) /\ (i - 1 # 1 => i - 1 \in 2 .. Len(s))
      BY <1>2, <1>5
    <3>3. r[i - 1].piece = s[i - 1].piece
      <4>1. CASE i - 1 = 1
        BY <1>5, <4>1
      <4>2. CASE i - 1 \in 2 .. Len(s)
        BY <1>5, <4>2
      <4> QED
        BY <3>2, <4>1, <4>2
    <3> QED
      BY <3>1, <3>2, <3>3 DEF IsAt
  <2> QED
    BY <1>6, <2>1 DEF RaceInv, NestInv, IsAt
<1>9. UsedInv'
  <2>1. HasGot(f, 1)
    <3>1. DOMAIN Uses[f.piece] = 1 .. Len(Uses[f.piece])
      BY RegistryAssumption, LenProperties DEF Frame
    <3> QED
      BY <3>1 DEF HasGot
  <2>2. \A i \in 2 .. Len(r) : HasGot(r[i], r[i].step - 1)
    BY <1>1, <1>5 DEF RaceInv, UsedInv
  <2>3. \A h, n : HasGot(h, n)' <=> HasGot(h, n)
    BY <1>7 DEF HasGot, Cached
  <2>4. Top(t)' = f
    BY <1>5, <1>6 DEF Top
  <2> SUFFICES ASSUME NEW u \in Thread
               PROVE  (/\ Running(u) => HasGot(Top(u), Top(u).step)
                       /\ \A i \in 2 .. Len(stack[u]) : HasGot(stack[u][i], stack[u][i].step - 1))'
    BY DEF UsedInv
  <2>5. CASE u = t
    <3>1. HasGot(Top(u), Top(u).step)'
      BY <1>5, <2>1, <2>3, <2>4, <2>5
    <3>2. (\A i \in 2 .. Len(stack[u]) : HasGot(stack[u][i], stack[u][i].step - 1))'
      BY <1>6, <2>2, <2>3, <2>5
    <3> QED
      BY <3>1, <3>2
  <2>6. CASE u # t
    <3>1. stack'[u] = stack[u]
      BY <1>6, <2>6
    <3>2. Running(u)' = Running(u) /\ Top(u)' = Top(u)
      BY <3>1 DEF Running, Top
    <3> QED
      BY <2>3, <3>1, <3>2 DEF RaceInv, UsedInv
  <2> QED
    BY <2>5, <2>6
<1>10. MakingInv'
  <2>1. \A i \in 1 .. Len(r) : i \in 1 .. Len(s) /\ (i # 1 => i \in 2 .. Len(s))
    BY <1>2, <1>5
  <2>2. ASSUME NEW i \in 1 .. Len(r), r[i].step > 0, NEW rec \in cache, rec.piece = r[i].piece
        PROVE  rec.by # t
    <3>1. i # 1
      BY <1>5, <1>7, <2>2 DEF Cached
    <3>2. i \in 1 .. Len(s) /\ r[i] = s[i]
      BY <1>5, <2>1, <3>1
    <3> QED
      BY <1>1, <2>2, <3>2 DEF RaceInv, MakingInv
  <2>3. ASSUME NEW u \in Thread, u # t, NEW i \in 1 .. Len(stack[u]), stack[u][i].step > 0,
               NEW rec \in cache, rec.piece = stack[u][i].piece
        PROVE  rec.by # u
    BY <2>3 DEF RaceInv, MakingInv
  <2> QED
    BY <1>6, <1>7, <2>2, <2>3 DEF MakingInv
<1> QED
  BY <1>7, <1>8, <1>9, <1>10 DEF RaceInv, CircleInv, FailedInv, Cached

\* A factory that goes on to its next piece waits for it.
LEMMA UseRace ==
  ASSUME RegistryInv, RaceInv, NEW t \in Thread, UseNext(t)
  PROVE  RaceInv'
<1>1. PICK s \in Seq(Frame) : s = stack[t] /\ s # <<>>
  BY DEF UseNext, Running, RegistryInv, RegistryTypeOK
<1>2. PICK f \in Frame : f = s[1] /\ f = Top(t) /\ f.step \in DOMAIN Uses[f.piece]
  BY <1>1, TailAt, HeadTailProperties DEF UseNext, Top
<1>3. PICK used \in Piece : used = Uses[f.piece][f.step]
  BY <1>2, RegistryAssumption, ElementOfSeq, LenProperties DEF Frame
<1>4. /\ f.step \in Nat \ {0}
      /\ \A k \in DOMAIN Uses[f.piece] : k \in Nat
  BY <1>2, RegistryAssumption, LenProperties DEF Frame
<1>5. PICK g \in Frame : g = [f EXCEPT !.step = @ + 1] /\ g.step = f.step + 1 /\ g.piece = f.piece
  <2>1. [f EXCEPT !.step = @ + 1] \in Frame
    BY <1>4 DEF Frame
  <2>2. [f EXCEPT !.step = @ + 1].step = f.step + 1 /\ [f EXCEPT !.step = @ + 1].piece = f.piece
    BY DEF Frame
  <2> QED
    BY <2>1, <2>2
<1>6. PICK new \in Frame : new = [piece |-> used, step |-> 0] /\ new.piece = used /\ new.step = 0
  <2>1. [piece |-> used, step |-> 0] \in Frame
    BY DEF Frame
  <2> QED
    BY <2>1
<1>7. PICK r : r = <<new, g>> \o Tail(s)
  OBVIOUS
<1>8. Len(r) = Len(s) + 1 /\ r[1] = new /\ r[2] = g /\ \A i \in 3 .. Len(r) : r[i] = s[i - 1]
  BY <1>1, <1>7, NestedAt
<1>9. stack'[t] = r /\ (\A u \in Thread : u # t => stack'[u] = stack[u]) /\ UNCHANGED <<cache, failed>>
  BY <1>1, <1>2, <1>3, <1>5, <1>6, <1>7 DEF UseNext, RegistryInv, RegistryTypeOK
<1>10. r # <<>> /\ Head(r) = new
  <2>1. r \in Seq(Frame)
    <3>1. <<new, g>> \in Seq(Frame) /\ Tail(s) \in Seq(Frame)
      BY <1>1, HeadTailProperties
    <3> QED
      BY <1>7, <3>1, ConcatProperties
  <2>2. r # <<>>
    BY <1>1, <1>8, <2>1, EmptySeq
  <2> QED
    BY <1>8, <2>1, <2>2, TailAt
<1>11. /\ HasGot(f, f.step) /\ \A i \in 2 .. Len(s) : IsAt(s[i], s[i - 1]) /\ HasGot(s[i], s[i].step - 1)
  BY <1>1, <1>2 DEF RaceInv, NestInv, UsedInv, UseNext
<1>12. \A i \in 3 .. Len(r) : i \in 2 .. Len(r) /\ i - 1 \in 2 .. Len(s) /\ (i - 1 # 2 => i - 1 \in 3 .. Len(r))
  BY <1>1, <1>8, LenProperties
<1>13. s[1].step > 0 /\ r[2].piece = s[1].piece
  <2>1. g.piece = f.piece
    BY <1>5
  <2>2. f = s[1] /\ r[2] = g
    BY <1>2, <1>8
  <2> QED
    BY <1>4, <2>1, <2>2
<1>14. NestInv'
  <2>1. IsAt(r[2], r[1])
    BY <1>2, <1>3, <1>4, <1>5, <1>6, <1>8 DEF IsAt
  <2>2. ASSUME NEW i \in 3 .. Len(r)
        PROVE  IsAt(r[i], r[i - 1])
    <3>1. r[i] = s[i - 1] /\ IsAt(s[i - 1], s[(i - 1) - 1])
      BY <1>8, <1>11, <1>12
    <3>2. r[i - 1].piece = s[(i - 1) - 1].piece
      <4>1. CASE i = 3
        BY <1>13, <4>1
      <4>2. CASE i # 3
        <5>1. i - 1 \in 3 .. Len(r)
          BY <1>12, <4>2
        <5> QED
          BY <1>8, <5>1
      <4> QED
        BY <4>1, <4>2
    <3> QED
      BY <3>1, <3>2 DEF IsAt
  <2>3. \A i \in 2 .. Len(r) : IsAt(r[i], r[i - 1])
    <3> TAKE i \in 2 .. Len(r)
    <3>1. i = 2 \/ i \in 3 .. Len(r)
      BY <1>1, <1>8, LenProperties
    <3> QED
      BY <2>1, <2>2, <3>1
  <2> QED
    BY <1>9, <2>3 DEF RaceInv, NestInv, IsAt
<1>15. UsedInv'
  <2>1. HasGot(new, 0)
    <3>1. DOMAIN Uses[new.piece] = 1 .. Len(Uses[new.piece])
      BY RegistryAssumption, LenProperties DEF Frame
    <3> QED
      BY <3>1 DEF HasGot
  <2>2. HasGot(g, g.step - 1)
    BY <1>4, <1>5, <1>11 DEF HasGot
  <2>3. \A i \in 2 .. Len(r) : HasGot(r[i], r[i].step - 1)
    <3> TAKE i \in 2 .. Len(r)
    <3>1. i = 2 \/ i \in 3 .. Len(r)
      BY <1>1, <1>8, LenProperties
    <3> QED
      BY <1>8, <1>11, <1>12, <2>2, <3>1
  <2>4. \A h, n : HasGot(h, n)' <=> HasGot(h, n)
    BY <1>9 DEF HasGot, Cached
  <2>5. UsedInv
    BY DEF RaceInv
  <2>6. Top(t)' = new
    BY <1>9, <1>10 DEF Top
  <2> SUFFICES ASSUME NEW u \in Thread
               PROVE  (/\ Running(u) => HasGot(Top(u), Top(u).step)
                       /\ \A i \in 2 .. Len(stack[u]) : HasGot(stack[u][i], stack[u][i].step - 1))'
    BY DEF UsedInv
  <2>7. CASE u = t
    <3>1. HasGot(Top(u), Top(u).step)'
      <4>1. HasGot(new, 0)'
        BY <2>1, <2>4
      <4> QED
        BY <1>6, <2>6, <2>7, <4>1
    <3>2. (\A i \in 2 .. Len(stack[u]) : HasGot(stack[u][i], stack[u][i].step - 1))'
      BY <1>9, <2>3, <2>4, <2>7
    <3> QED
      BY <3>1, <3>2
  <2>8. CASE u # t
    <3>1. stack'[u] = stack[u]
      BY <1>9, <2>8
    <3>2. Running(u)' = Running(u) /\ Top(u)' = Top(u)
      BY <3>1 DEF Running, Top
    <3> QED
      BY <2>4, <2>5, <3>1, <3>2 DEF UsedInv
  <2> QED
    BY <2>7, <2>8
<1>16. MakingInv'
  <2>1. ASSUME NEW i \in 1 .. Len(r), r[i].step > 0
        PROVE  \E j \in 1 .. Len(s) : s[j].step > 0 /\ s[j].piece = r[i].piece
    <3>1. Len(s) \in Nat \ {0} /\ i \in Nat
      BY <1>1, TailAt
    <3>2. CASE i = 1
      BY <1>6, <1>8, <2>1, <3>2
    <3>3. CASE i = 2
      <4>1. 1 \in 1 .. Len(s) /\ s[1].step > 0 /\ s[1].piece = r[i].piece
        BY <1>13, <3>1, <3>3
      <4> QED
        BY <4>1
    <3>4. CASE i \in 3 .. Len(r)
      BY <1>8, <1>12, <2>1, <3>1, <3>4
    <3> QED
      BY <1>8, <3>1, <3>2, <3>3, <3>4
  <2> QED
    BY <1>1, <1>9, <2>1 DEF RaceInv, MakingInv
<1> QED
  BY <1>9, <1>14, <1>15, <1>16 DEF RaceInv, CircleInv, FailedInv, Cached

\* What a thread stores, no other call of it is making; and the actor it adds is the
\* only one of its piece.
LEMMA StoreRace ==
  ASSUME RegistryInv, RaceInv, NEW t \in Thread, Store(t)
  PROVE  RaceInv'
<1>1. PICK x : x = Top(t).piece
  OBVIOUS
<1>2. PICK rec : rec = [piece |-> x, actor |-> Made(t, x), by |-> t]
  OBVIOUS
<1>3. /\ Running(t) /\ Storing(t) /\ ~Cached(x) /\ stack' = [stack EXCEPT ![t] = Tail(@)]
      /\ cache' = cache \cup {rec} /\ UNCHANGED failed
  <2>1. cache' = {r \in cache : r.piece # x} \cup {rec}
    BY <1>1, <1>2 DEF Store, AddToCache
  <2>2. \A r \in cache : r.piece # x
    BY <1>1 DEF Store, Cached
  <2> QED
    BY <1>1, <2>1, <2>2 DEF Store, ReturnActor, Storing
<1>4. rec.piece = x /\ rec.by = t
  BY <1>2
<1>5. Cached(x)' /\ cache \subseteq cache'
  BY <1>3, <1>4 DEF Cached
<1>6. NestInv' /\ UsedInv'
  BY <1>1, <1>3, <1>5, ReturnRace
<1>7. \A C \in SUBSET Piece : Circle(C) => x \notin C
  BY <1>1, <1>3, NotBelow
<1>8. CircleInv'
  BY <1>3, <1>4, <1>7 DEF RaceInv, CircleInv, Circle
<1>9. MakingInv'
  <2>1. PICK s \in Seq(Frame) : s = stack[t] /\ s # <<>>
    BY <1>3 DEF Running, RegistryInv, RegistryTypeOK
  <2>2. PICK r : r = Tail(s)
    OBVIOUS
  <2>3. Len(r) = Len(s) - 1 /\ Len(s) \in Nat /\ \A i \in 1 .. Len(r) : r[i] = s[i + 1]
    BY <2>1, <2>2, TailAt
  <2>4. stack'[t] = r /\ \A u \in Thread : u # t => stack'[u] = stack[u]
    BY <1>3, <2>1, <2>2 DEF RegistryInv, RegistryTypeOK
  <2>5. \A i \in 1 .. Len(r) : i + 1 \in 1 .. Len(s) /\ i + 1 \in 2 .. Len(s)
    BY <2>3
  <2>6. \A i \in 1 .. Len(r) : r[i].piece # x
    BY <1>1, <1>3, <2>1, <2>3, <2>5, NotBelow
  <2>7. ASSUME NEW i \in 1 .. Len(r), r[i].step > 0, NEW c \in cache', c.piece = r[i].piece
        PROVE  c.by # t
    BY <1>3, <1>4, <2>1, <2>3, <2>5, <2>6, <2>7 DEF RaceInv, MakingInv
  <2>8. ASSUME NEW u \in Thread, u # t, NEW i \in 1 .. Len(stack[u]), stack[u][i].step > 0,
               NEW c \in cache', c.piece = stack[u][i].piece
        PROVE  c.by # u
    BY <1>3, <1>4, <2>8 DEF RaceInv, MakingInv
  <2> QED
    BY <2>4, <2>7, <2>8 DEF MakingInv
<1>10. FailedInv'
  BY <1>3 DEF RaceInv, FailedInv
<1> QED
  BY <1>6, <1>8, <1>9, <1>10 DEF RaceInv

\* A thread that fails drops all its calls; the actor it finds is not its own.
LEMMA FailRace ==
  ASSUME RegistryInv, RaceInv, NEW t \in Thread, StoreFails(t)
  PROVE  RaceInv'
<1>1. PICK s \in Seq(Frame) : s = stack[t] /\ s # <<>>
  BY DEF StoreFails, Storing, Running, RegistryInv, RegistryTypeOK
<1>2. PICK x \in Piece : x = Top(t).piece /\ x = s[1].piece /\ s[1].step > 0 /\ 1 \in 1 .. Len(s)
  <2>1. s[1] = Top(t) /\ Len(s) \in Nat \ {0}
    BY <1>1, TailAt DEF Top
  <2>2. Top(t).piece \in Piece /\ Top(t).step = Len(Uses[Top(t).piece]) + 1
    BY TopFrame DEF StoreFails, Storing, RegistryInv
  <2>3. Len(Uses[Top(t).piece]) \in Nat
    BY <2>2, RegistryAssumption, LenProperties
  <2> QED
    BY <2>1, <2>2, <2>3
<1>3. RecOf(x).by # t
  <2>1. RecOf(x) \in cache /\ RecOf(x).piece = x
    BY <1>2 DEF StoreFails, Cached, RecOf
  <2> QED
    BY <1>1, <1>2, <2>1 DEF RaceInv, MakingInv
<1>4. PICK f : f = [thread |-> t, piece |-> x, by |-> RecOf(x).by]
  OBVIOUS
<1>5. failed' = failed \cup {f} /\ f.by # f.thread /\ UNCHANGED cache
  BY <1>2, <1>3, <1>4 DEF StoreFails
<1>6. FailedInv'
  BY <1>5 DEF RaceInv, FailedInv
<1>7. stack'[t] = <<>> /\ Len(<<>>) = 0 /\ \A u \in Thread : u # t => stack'[u] = stack[u]
  BY EmptySeq DEF StoreFails, RegistryInv, RegistryTypeOK
<1>8. (\A i \in 1 .. 0 : FALSE) /\ (\A i \in 2 .. 0 : FALSE)
  OBVIOUS
<1>9. NestInv' /\ MakingInv'
  <2>1. NestInv'
    <3> SUFFICES ASSUME NEW u \in Thread, NEW i \in 2 .. Len(stack'[u])
                 PROVE  IsAt(stack'[u][i], stack'[u][i - 1])
      BY DEF NestInv, IsAt
    <3>1. u # t /\ stack'[u] = stack[u]
      BY <1>7, <1>8
    <3> QED
      BY <3>1 DEF RaceInv, NestInv
  <2>2. MakingInv'
    BY <1>5, <1>7, <1>8 DEF RaceInv, MakingInv
  <2> QED
    BY <2>1, <2>2
<1>10. UsedInv'
  BY <1>5, <1>7, <1>8 DEF RaceInv, UsedInv, HasGot, Running, Top, Cached
<1> QED
  BY <1>5, <1>6, <1>9, <1>10 DEF RaceInv, CircleInv

\* A call from the program has made nothing yet.
LEMMA AnimateRace ==
  ASSUME RegistryInv, RaceInv, NEW t \in Thread, NEW x \in Piece, Animate(t, x)
  PROVE  RaceInv'
<1>1. PICK f \in Frame : f = [piece |-> x, step |-> 0]
  BY DEF Frame
<1>2. PICK r \in Seq(Frame) : r = <<f>>
  <2>1. <<f>> \in Seq(Frame)
    OBVIOUS
  <2> QED
    BY <2>1
<1>3. Len(r) = 1 /\ r[1] = f /\ Head(r) = f /\ f.step = 0 /\ f.piece = x
  BY <1>1, <1>2
<1>4. stack'[t] = r /\ (\A u \in Thread : u # t => stack'[u] = stack[u]) /\ UNCHANGED <<cache, failed>>
  BY <1>1, <1>2 DEF Animate, RegistryInv, RegistryTypeOK
<1>5. HasGot(f, 0)
  <2>1. DOMAIN Uses[f.piece] = 1 .. Len(Uses[f.piece])
    BY RegistryAssumption, LenProperties DEF Frame
  <2> QED
    BY <2>1 DEF HasGot
<1>6. (\A i \in 2 .. 1 : FALSE) /\ \A i \in 1 .. 1 : i = 1
  OBVIOUS
<1>7. NestInv' /\ MakingInv'
  <2>1. NestInv'
    BY <1>3, <1>4, <1>6 DEF RaceInv, NestInv, IsAt
  <2>2. MakingInv'
    BY <1>3, <1>4, <1>6 DEF RaceInv, MakingInv
  <2> QED
    BY <2>1, <2>2
<1>8. UsedInv'
  BY <1>3, <1>4, <1>5, <1>6 DEF RaceInv, UsedInv, HasGot, Running, Top, Cached
<1> QED
  BY <1>4, <1>7, <1>8 DEF RaceInv, CircleInv, FailedInv, Cached

\* What is reconstructed is in no circle, and its thread makes nothing else meanwhile.
LEMMA ReconstructedRace ==
  ASSUME RegistryInv, RaceInv, NEW t \in Thread, AddReconstructed(t)
  PROVE  RaceInv'
<1>1. PICK x \in Reconstructed : x = Head(asking[t])
  BY HeadTailProperties DEF AddReconstructed, RegistryInv, RegistryTypeOK
<1>2. PICK rec : rec = [piece |-> x, actor |-> Made(t, x), by |-> t]
  OBVIOUS
<1>3. /\ cache' = {r \in cache : r.piece # x} \cup {rec} /\ rec.piece = x /\ rec.by = t
      /\ UNCHANGED <<stack, failed>> /\ ~Running(t)
  BY <1>1, <1>2 DEF AddReconstructed, AddToCache, RegistryInv
<1>4. \A y : Cached(y) => Cached(y)'
  BY <1>3 DEF Cached
<1>5. NestInv' /\ FailedInv'
  BY <1>3 DEF RaceInv, NestInv, FailedInv
<1>6. UsedInv'
  <2>1. \A f, n : HasGot(f, n) => HasGot(f, n)'
    BY <1>4 DEF HasGot
  <2> QED
    BY <1>3, <2>1 DEF RaceInv, UsedInv, Running, Top, HasGot
<1>7. CircleInv'
  <2>1. \A C \in SUBSET Piece : Circle(C) => x \notin C
    BY RegistryAssumption
  <2> QED
    BY <1>3, <2>1 DEF RaceInv, CircleInv
<1>8. MakingInv'
  <2>1. Len(stack[t]) = 0
    BY <1>3, EmptySeq DEF Running
  <2> QED
    BY <1>3, <2>1 DEF RaceInv, MakingInv
<1> QED
  BY <1>5, <1>6, <1>7, <1>8 DEF RaceInv

\* The assertion of _add_to_cache fails only when another thread has been faster: a
\* thread never meets an actor of its own, whatever the pieces use, circles included.
THEOREM AssertionOnlyByRace == RegistrySpec => []FailedByRace
<1>1. RegistryInit => RaceInv
  <2> SUFFICES ASSUME RegistryInit PROVE RaceInv
    OBVIOUS
  <2>1. \A t \in Thread : stack[t] = <<>> /\ Len(stack[t]) = 0
    BY EmptySeq DEF RegistryInit
  <2>2. (\A i \in 1 .. 0 : FALSE) /\ (\A i \in 2 .. 0 : FALSE)
    OBVIOUS
  <2> QED
    BY <2>1, <2>2 DEF RegistryInit, RaceInv, NestInv, UsedInv, CircleInv, MakingInv, FailedInv, Running
<1>2. RegistryInv /\ RaceInv /\ [RegistryNext]_registryVars => RaceInv'
  <2> SUFFICES ASSUME RegistryInv, RaceInv, [RegistryNext]_registryVars PROVE RaceInv'
    OBVIOUS
  <2>1. ASSUME NEW t \in Thread, Step(t) PROVE RaceInv'
    BY <2>1, HitRace, MissRace, UseRace, StoreRace, FailRace DEF Step
  <2>2. ASSUME NEW t \in Thread, NEW x \in Piece, Animate(t, x) PROVE RaceInv'
    BY <2>2, AnimateRace
  <2>3. ASSUME NEW t \in Thread, AddReconstructed(t) PROVE RaceInv'
    BY <2>3, ReconstructedRace
  <2>4. ASSUME UNCHANGED <<stack, cache, failed>> PROVE RaceInv'
    BY <2>4 DEF RaceInv, NestInv, UsedInv, CircleInv, MakingInv, FailedInv, Cached, HasGot, IsAt,
                Running, Top
  <2>5. ASSUME NEW t \in Thread, NEW x \in Reconstructed, AskPiece(t, x) PROVE RaceInv'
    BY <2>4, <2>5 DEF AskPiece
  <2>6. CASE UNCHANGED registryVars
    BY <2>4, <2>6 DEF registryVars
  <2> QED
    BY <2>1, <2>2, <2>3, <2>5, <2>6 DEF RegistryNext
<1>3. RegistryInv /\ RaceInv => FailedByRace
  BY DEF FailedByRace, RegistryInv, RaceInv, FailedInv
<1> QED
  BY RegistrySafe, <1>1, <1>2, <1>3, PTL DEF RegistrySpec

-----------------------------------------------------------------------------
(* The bundler: lemmas about recursive functions on numbers, from which those about  *)
(* sizes, lists and closures follow, then the invariant step by step               *)

\* What holds of 0, and of a number when of the one before, holds of all of them.
LEMMA UpTo ==
    ASSUME NEW L \in Nat, NEW S, 0 \in S, \A n \in 0 .. L : n < L /\ n \in S => n + 1 \in S
    PROVE  0 .. L \subseteq S
<1> DEFINE bad == {n \in Nat : n <= L /\ n \notin S}
           less == {p \in Nat \X Nat : p[1] < p[2]}
<1> SUFFICES ASSUME bad # {} PROVE FALSE
  OBVIOUS
<1>1. IsWellFoundedOn(less, Nat)
  <2>1. OpToRel(<, Nat) = less
    BY DEF OpToRel
  <2> QED BY <2>1, NatLessThanWellFounded
<1>2. bad \subseteq Nat /\ bad # {}
  OBVIOUS
<1> HIDE DEF less
<1>3. PICK m \in bad : \A k \in bad : <<k, m>> \notin less
  BY <1>1, <1>2, WFMin, Zenon
<1>4. \A k \in bad : ~(k < m)
  BY <1>3 DEF less
<1>5. m \in Nat /\ m # 0 /\ m <= L /\ m \notin S
  BY <1>3
<1>6. m - 1 \in 0 .. L /\ m - 1 < L /\ m - 1 < m /\ (m - 1) + 1 = m
  BY <1>5
<1>7. m - 1 \in S
  BY <1>4, <1>6
<1> QED BY <1>5, <1>6, <1>7

\* The functions that take such steps from a.
Runs(L, S, a, step) == {f \in [0 .. L -> S] : f[0] = a /\ \A n \in 1 .. L : f[n] = step[n][f[n - 1]]}

\* A recursive function on the numbers up to L exists.
LEMMA RecursionExists ==
    ASSUME NEW L \in Nat, NEW S, NEW a \in S, NEW step \in [1 .. L -> [S -> S]]
    PROVE  Runs(L, S, a, step) # {}
<1> DEFINE Is(f, k) == f[0] = a /\ \A n \in 1 .. k : f[n] = step[n][f[n - 1]]
           T == {k \in 0 .. L : \E f \in [0 .. k -> S] : Is(f, k)}
<1>1. 0 \in T
  <2> DEFINE g == [n \in 0 .. 0 |-> a]
  <2>1. g \in [0 .. 0 -> S] /\ g[0] = a
    OBVIOUS
  <2>2. Is(g, 0)
    BY <2>1
  <2> HIDE DEF g, Is
  <2> QED BY <2>1, <2>2
<1>2. ASSUME NEW k \in 0 .. L, k < L, k \in T PROVE k + 1 \in T
  <2>1. PICK f \in [0 .. k -> S] : Is(f, k)
    BY <1>2
  <2> DEFINE g == [n \in 0 .. k + 1 |-> IF n <= k THEN f[n] ELSE step[k + 1][f[k]]]
  <2>2. k + 1 \in 1 .. L /\ k \in 0 .. k /\ k + 1 \in 0 .. L
    BY <1>2
  <2>3. step[k + 1][f[k]] \in S
    BY <2>2
  <2>4. g \in [0 .. k + 1 -> S] /\ g[0] = a
    BY <2>1, <2>2, <2>3
  <2>5. ASSUME NEW n \in 1 .. k + 1
        PROVE  g[n] = step[n][g[n - 1]]
    <3>1. CASE n <= k
      <4>1. n \in 1 .. k /\ g[n] = f[n] /\ g[n - 1] = f[n - 1]
        BY <3>1, <2>2
      <4> QED BY <2>1, <4>1
    <3>2. CASE ~(n <= k)
      <4>1. n = k + 1 /\ n - 1 = k /\ g[n] = step[k + 1][f[k]] /\ g[k] = f[k]
        BY <3>2, <2>2
      <4> QED BY <4>1
    <3> QED BY <3>1, <3>2
  <2>6. Is(g, k + 1)
    BY <2>4, <2>5
  <2> HIDE DEF g, Is
  <2> QED BY <2>2, <2>4, <2>6
<1>3. L \in T
  <2> HIDE DEF T
  <2>1. 0 .. L \subseteq T
    BY <1>1, <1>2, UpTo
  <2> QED BY <2>1
<1> QED BY <1>3 DEF Runs

\* The size of a sequence, step by step.
PartSizes(seq) ==
    {f \in [0 .. Len(seq) -> Nat] : f[0] = 0 /\ \A n \in 1 .. Len(seq) : f[n] = f[n - 1] + Size[seq[n]]}

\* The size of a sequence is the last of these numbers.
LEMMA SizeIs ==
    ASSUME NEW seq \in Seq(Ref)
    PROVE  \E f : f \in PartSizes(seq) /\ SizeOf(seq) = f[Len(seq)]
<1> DEFINE L == Len(seq)
           Is(f) == f = [n \in 0 .. L |-> IF n = 0 THEN 0 ELSE f[n - 1] + Size[seq[n]]]
           step == [n \in 1 .. L |-> [x \in Nat |-> x + Size[seq[n]]]]
           sum == CHOOSE f : Is(f)
<1>1. L \in Nat /\ \A n \in 1 .. L : Size[seq[n]] \in Nat
  <2>1. \A n \in 1 .. L : seq[n] \in Ref
    BY ElementOfSeq
  <2>2. Size \in [Ref -> Nat]
    BY BundlerAssumption
  <2> QED BY <2>1, <2>2
<1>2. SizeOf(seq) = sum[L]
  BY DEF SizeOf
<1> HIDE DEF L, sum
<1>3. Is(sum)
  <2>1. step \in [1 .. L -> [Nat -> Nat]] /\ 0 \in Nat
    BY <1>1
  <2> HIDE DEF step
  <2>r. PICK f : f \in Runs(L, Nat, 0, step)
    BY <1>1, <2>1, RecursionExists
  <2>2. f \in [0 .. L -> Nat] /\ f[0] = 0 /\ \A n \in 1 .. L : f[n] = step[n][f[n - 1]]
    BY <2>r DEF Runs
  <2>3. ASSUME NEW n \in 0 .. L PROVE f[n] = IF n = 0 THEN 0 ELSE f[n - 1] + Size[seq[n]]
    <3>1. CASE n # 0
      <4>1. n \in 1 .. L /\ n - 1 \in 0 .. L
        BY <1>1, <3>1
      <4> QED BY <4>1, <2>2, <3>1 DEF step
    <3> QED BY <3>1, <2>2
  <2>4. Is(f)
    <3>1. f = [n \in 0 .. L |-> f[n]]
      BY <2>2
    <3> QED BY <3>1, <2>3
  <2> QED BY <2>4 DEF sum
<1>4. \A n \in 0 .. L : sum[n] = IF n = 0 THEN 0 ELSE sum[n - 1] + Size[seq[n]]
  BY <1>3
<1> DEFINE T == {n \in 0 .. L : sum[n] \in Nat}
<1>5. 0 \in T
  BY <1>1, <1>4
<1>6. ASSUME NEW n \in 0 .. L, n < L, n \in T PROVE n + 1 \in T
  <2>1. n + 1 \in 1 .. L /\ n + 1 \in 0 .. L /\ n + 1 # 0 /\ (n + 1) - 1 = n
    BY <1>1, <1>6
  <2>2. sum[n + 1] = sum[n] + Size[seq[n + 1]]
    BY <2>1, <1>4
  <2> QED BY <2>1, <2>2, <1>1, <1>6
<1>7. 0 .. L \subseteq T
  <2> HIDE DEF T
  <2> QED BY <1>1, <1>5, <1>6, UpTo
<1>8. sum \in [0 .. L -> Nat]
  BY <1>3, <1>7
<1>9. \A n \in 1 .. L : sum[n] = sum[n - 1] + Size[seq[n]]
  BY <1>4, <1>1
<1>10. sum[0] = 0
  BY <1>4, <1>1
<1> QED BY <1>2, <1>8, <1>9, <1>10 DEF L, PartSizes

\* The size of two sequences one after the other.
LEMMA SizeOfConcat ==
    ASSUME NEW s \in Seq(Ref), NEW t \in Seq(Ref)
    PROVE  SizeOf(s) \in Nat /\ SizeOf(s \o t) = SizeOf(s) + SizeOf(t)
<1> DEFINE K == Len(s)
           L == Len(t)
<1>1. K \in Nat /\ L \in Nat /\ s \o t \in Seq(Ref) /\ Len(s \o t) = K + L
  BY ConcatProperties
<1>2. \A i \in 1 .. K + L : (s \o t)[i] = IF i <= K THEN s[i] ELSE t[i - K]
  BY ConcatProperties
<1>3. PICK f : f \in PartSizes(s) /\ SizeOf(s) = f[K]
  BY SizeIs
<1>4. PICK g : g \in PartSizes(t) /\ SizeOf(t) = g[L]
  BY SizeIs
<1>5. PICK h : h \in PartSizes(s \o t) /\ SizeOf(s \o t) = h[K + L]
  BY SizeIs, <1>1
<1>6. /\ f \in [0 .. K -> Nat] /\ g \in [0 .. L -> Nat] /\ h \in [0 .. K + L -> Nat]
      /\ f[0] = 0 /\ g[0] = 0 /\ h[0] = 0
      /\ \A n \in 1 .. K : f[n] = f[n - 1] + Size[s[n]]
      /\ \A n \in 1 .. L : g[n] = g[n - 1] + Size[t[n]]
      /\ \A n \in 1 .. K + L : h[n] = h[n - 1] + Size[(s \o t)[n]]
  BY <1>1, <1>3, <1>4, <1>5 DEF PartSizes
<1> HIDE DEF K, L
<1> DEFINE A == {n \in 0 .. K : h[n] = f[n]}
           B == {n \in 0 .. L : h[K + n] = f[K] + g[n]}
<1>7. 0 .. K \subseteq A
  <2>1. 0 \in A
    BY <1>1, <1>6
  <2>2. ASSUME NEW n \in 0 .. K, n < K, n \in A PROVE n + 1 \in A
    <3>1. n + 1 \in 1 .. K /\ n + 1 \in 1 .. K + L /\ (n + 1) - 1 = n /\ n + 1 \in 0 .. K /\ n + 1 <= K
      BY <1>1, <2>2
    <3>2. (s \o t)[n + 1] = s[n + 1]
      BY <1>2, <3>1
    <3>3. h[n + 1] = h[n] + Size[s[n + 1]] /\ f[n + 1] = f[n] + Size[s[n + 1]]
      BY <1>6, <3>1, <3>2
    <3> QED BY <3>1, <3>3, <2>2
  <2> HIDE DEF A
  <2> QED BY <1>1, <2>1, <2>2, UpTo
<1>8. 0 .. L \subseteq B
  <2>1. 0 \in B
    <3>1. K \in A /\ f[K] \in Nat /\ K + 0 = K
      BY <1>1, <1>6, <1>7
    <3> QED BY <3>1, <1>1, <1>6
  <2>2. ASSUME NEW n \in 0 .. L, n < L, n \in B PROVE n + 1 \in B
    <3>1. /\ n + 1 \in 1 .. L /\ K + (n + 1) \in 1 .. K + L /\ (n + 1) - 1 = n /\ n + 1 \in 0 .. L
          /\ (K + (n + 1)) - 1 = K + n /\ (K + (n + 1)) - K = n + 1 /\ ~(K + (n + 1) <= K)
      BY <1>1, <2>2
    <3>2. (s \o t)[K + (n + 1)] = t[n + 1]
      BY <1>2, <3>1
    <3>3. h[K + (n + 1)] = h[K + n] + Size[t[n + 1]] /\ g[n + 1] = g[n] + Size[t[n + 1]]
      BY <1>6, <3>1, <3>2
    <3>4. t[n + 1] \in Ref
      BY <3>1, <1>1, ElementOfSeq DEF L
    <3>5. Size[t[n + 1]] \in Nat
      BY <3>4, BundlerAssumption
    <3>6. K \in 0 .. K /\ f[K] \in Nat /\ g[n] \in Nat
      BY <1>1, <1>6
    <3> QED BY <3>1, <3>3, <3>5, <3>6, <2>2
  <2> HIDE DEF B
  <2> QED BY <1>1, <2>1, <2>2, UpTo
<1>9. K \in A /\ L \in B /\ f[K] \in Nat
  BY <1>1, <1>6, <1>7, <1>8
<1> QED BY <1>9, <1>3, <1>4, <1>5

\* A reversed sequence has the same elements, and the same size.
LEMMA ReverseIs ==
    ASSUME NEW s \in Seq(Ref)
    PROVE  /\ Reverse(s) \in Seq(Ref) /\ Range(Reverse(s)) = Range(s)
           /\ IsInjective(s) => IsInjective(Reverse(s))
           /\ SizeOf(Reverse(s)) = SizeOf(s)
<1> DEFINE L == Len(s)
           r == Reverse(s)
<1>1. L \in Nat /\ DOMAIN s = 1 .. L /\ \A i \in 1 .. L : s[i] \in Ref
  BY ElementOfSeq
<1>2. r = [i \in 1 .. L |-> s[(L - i) + 1]]
  BY DEF Reverse
<1>3. DOMAIN r = 1 .. L /\ \A i \in 1 .. L : (L - i) + 1 \in 1 .. L /\ r[i] = s[(L - i) + 1]
  BY <1>1, <1>2
<1>4. r \in Seq(Ref) /\ Len(r) = L
  <2>1. r \in [1 .. L -> Ref]
    BY <1>1, <1>2, <1>3
  <2> QED BY <2>1, <1>1, IsASeq, LenProperties
<1> HIDE DEF r, L
<1>5. Range(r) = Range(s)
  <2>1. ASSUME NEW x \in Range(s) PROVE x \in Range(r)
    <3>1. PICK i \in 1 .. L : x = s[i]
      BY <2>1, <1>1 DEF Range
    <3>2. (L - i) + 1 \in 1 .. L /\ (L - ((L - i) + 1)) + 1 = i
      BY <1>1
    <3> QED BY <3>1, <3>2, <1>3 DEF Range
  <2>2. ASSUME NEW x \in Range(r) PROVE x \in Range(s)
    BY <2>2, <1>1, <1>3 DEF Range
  <2> QED BY <2>1, <2>2
<1>6. ASSUME IsInjective(s) PROVE IsInjective(r)
  <2>1. ASSUME NEW i \in 1 .. L, NEW j \in 1 .. L, r[i] = r[j] PROVE i = j
    <3>1. (L - i) + 1 = (L - j) + 1
      BY <2>1, <1>1, <1>3, <1>6 DEF IsInjective
    <3> QED BY <3>1, <1>1
  <2> QED BY <2>1, <1>3 DEF IsInjective
<1>7. SizeOf(r) = SizeOf(s)
  <2>1. PICK f : f \in PartSizes(s) /\ SizeOf(s) = f[L]
    BY SizeIs DEF L
  <2>2. PICK g : g \in PartSizes(r) /\ SizeOf(r) = g[L]
    BY SizeIs, <1>4
  <2>3. /\ f \in [0 .. L -> Nat] /\ g \in [0 .. L -> Nat] /\ f[0] = 0 /\ g[0] = 0
        /\ \A n \in 1 .. L : f[n] = f[n - 1] + Size[s[n]]
        /\ \A n \in 1 .. L : g[n] = g[n - 1] + Size[r[n]]
    BY <1>4, <2>1, <2>2 DEF PartSizes, L
  <2> DEFINE A == {n \in 0 .. L : g[n] + f[L - n] = f[L]}
  <2>4. 0 \in A
    <3>1. f[L] \in Nat /\ L - 0 = L
      BY <1>1, <2>3
    <3> QED BY <3>1, <1>1, <2>3
  <2>5. ASSUME NEW n \in 0 .. L, n < L, n \in A PROVE n + 1 \in A
    <3>1. /\ n + 1 \in 1 .. L /\ L - n \in 1 .. L /\ (n + 1) - 1 = n /\ (L - (n + 1)) + 1 = L - n
          /\ (L - n) - 1 = L - (n + 1) /\ L - (n + 1) \in 0 .. L /\ n + 1 \in 0 .. L
      BY <1>1, <2>5
    <3>2. r[n + 1] = s[L - n]
      BY <1>3, <3>1
    <3>3. g[n + 1] = g[n] + Size[s[L - n]] /\ f[L - n] = f[L - (n + 1)] + Size[s[L - n]]
      BY <2>3, <3>1, <3>2
    <3>4. Size[s[L - n]] \in Nat /\ g[n] \in Nat /\ f[L - (n + 1)] \in Nat
      BY <1>1, <2>3, <3>1, BundlerAssumption
    <3>5. g[n] + f[L - n] = f[L]
      BY <2>5
    <3>6. g[n + 1] + f[L - (n + 1)] = f[L]
      BY <3>3, <3>4, <3>5
    <3> QED BY <3>1, <3>6
  <2>6. 0 .. L \subseteq A
    <3> HIDE DEF A
    <3> QED BY <1>1, <2>4, <2>5, UpTo
  <2>7. L \in A /\ L - L = 0
    BY <2>6, <1>1
  <2>8. g[L] + f[0] = f[L] /\ g[L] \in Nat
    BY <2>7, <2>3, <1>1
  <2> QED BY <2>1, <2>2, <2>3, <2>8
<1> QED BY <1>4, <1>5, <1>6, <1>7 DEF r

\* The refs of a list that are not in a set.
LEMMA UnmetIs ==
    ASSUME NEW list \in Seq(Ref), NEW met
    PROVE  Unmet(list, met) \in Seq(Ref) /\ Range(Unmet(list, met)) = Range(list) \ met
<1> DEFINE L == Len(list)
           Put(n, x) == IF list[n] \in met THEN x ELSE Append(x, list[n])
           Is(f) == f = [n \in 0 .. L |-> IF n = 0 THEN <<>> ELSE Put(n, f[n - 1])]
           step == [n \in 1 .. L |-> [x \in Seq(Ref) |-> Put(n, x)]]
           unmet == CHOOSE f : Is(f)
<1>1. L \in Nat /\ DOMAIN list = 1 .. L /\ \A n \in 1 .. L : list[n] \in Ref
  BY ElementOfSeq
<1>2. Unmet(list, met) = unmet[L]
  BY DEF Unmet
<1>0. \A n \in 1 .. L : \A x \in Seq(Ref) :
        /\ Put(n, x) \in Seq(Ref)
        /\ Range(Put(n, x)) = Range(x) \cup ({list[n]} \ met)
  <2> SUFFICES ASSUME NEW n \in 1 .. L, NEW x \in Seq(Ref)
               PROVE  /\ Put(n, x) \in Seq(Ref)
                      /\ Range(Put(n, x)) = Range(x) \cup ({list[n]} \ met)
    OBVIOUS
  <2>1. list[n] \in Ref
    BY <1>1
  <2>2. Append(x, list[n]) \in Seq(Ref) /\ Range(Append(x, list[n])) = Range(x) \cup {list[n]}
    <3>1. Append(x, list[n]) \in Seq(Ref) /\ Len(Append(x, list[n])) = Len(x) + 1
      BY <2>1, AppendProperties
    <3>2. /\ \A i \in 1 .. Len(x) : Append(x, list[n])[i] = x[i]
          /\ Append(x, list[n])[Len(x) + 1] = list[n]
      BY <2>1, AppendProperties
    <3>3. /\ Range(x) = {x[i] : i \in 1 .. Len(x)}
          /\ Range(Append(x, list[n])) = {Append(x, list[n])[i] : i \in 1 .. Len(x) + 1}
      BY <3>1, RangeEquality
    <3>4. Len(x) \in Nat
      OBVIOUS
    <3>5. \A i \in 1 .. Len(x) + 1 : i \in 1 .. Len(x) \/ i = Len(x) + 1
      BY <3>4
    <3>6. 1 .. Len(x) \subseteq 1 .. Len(x) + 1 /\ Len(x) + 1 \in 1 .. Len(x) + 1
      BY <3>4
    <3> QED BY <3>1, <3>2, <3>3, <3>5, <3>6, Zenon
  <2> QED BY <2>1, <2>2
<1> HIDE DEF L, unmet, Put
<1>3. Is(unmet)
  <2>1. step \in [1 .. L -> [Seq(Ref) -> Seq(Ref)]] /\ <<>> \in Seq(Ref)
    BY <1>0
  <2> HIDE DEF step
  <2>2. PICK f : f \in Runs(L, Seq(Ref), <<>>, step)
    BY <1>1, <2>1, RecursionExists
  <2>3. f \in [0 .. L -> Seq(Ref)] /\ f[0] = <<>> /\ \A n \in 1 .. L : f[n] = step[n][f[n - 1]]
    BY <2>2 DEF Runs
  <2>4. ASSUME NEW n \in 0 .. L PROVE f[n] = IF n = 0 THEN <<>> ELSE Put(n, f[n - 1])
    <3>1. CASE n # 0
      <4>1. n \in 1 .. L /\ n - 1 \in 0 .. L /\ f[n - 1] \in Seq(Ref)
        BY <1>1, <3>1, <2>3
      <4> QED BY <4>1, <2>3, <3>1 DEF step
    <3> QED BY <3>1, <2>3
  <2>5. Is(f)
    <3>1. f = [n \in 0 .. L |-> f[n]]
      BY <2>3
    <3> QED BY <3>1, <2>4
  <2> QED BY <2>5 DEF unmet
<1>4. \A n \in 0 .. L : unmet[n] = IF n = 0 THEN <<>> ELSE Put(n, unmet[n - 1])
  BY <1>3
<1> DEFINE Had(n) == {list[i] : i \in 1 .. n}
           T == {n \in 0 .. L : unmet[n] \in Seq(Ref) /\ Range(unmet[n]) = Had(n) \ met}
<1>5. 0 \in T
  <2>1. unmet[0] = <<>> /\ 0 \in 0 .. L
    BY <1>1, <1>4
  <2>2. <<>> \in Seq(Ref) /\ Range(<<>>) = {} /\ Had(0) = {}
    BY DEF Range
  <2> QED BY <2>1, <2>2
<1>6. ASSUME NEW n \in 0 .. L, n < L, n \in T PROVE n + 1 \in T
  <2>1. n + 1 \in 1 .. L /\ n + 1 \in 0 .. L /\ n + 1 # 0 /\ (n + 1) - 1 = n
    BY <1>1, <1>6
  <2>2. unmet[n + 1] = Put(n + 1, unmet[n])
    BY <2>1, <1>4
  <2>3. unmet[n] \in Seq(Ref) /\ Range(unmet[n]) = Had(n) \ met
    BY <1>6
  <2>4. Had(n + 1) = Had(n) \cup {list[n + 1]}
    <3>1. \A i \in 1 .. n + 1 : i \in 1 .. n \/ i = n + 1
      OBVIOUS
    <3>2. 1 .. n \subseteq 1 .. n + 1 /\ n + 1 \in 1 .. n + 1
      OBVIOUS
    <3> QED BY <3>1, <3>2, Zenon
  <2> HIDE DEF Had
  <2>5. unmet[n + 1] \in Seq(Ref) /\ Range(unmet[n + 1]) = Range(unmet[n]) \cup ({list[n + 1]} \ met)
    BY <2>1, <2>2, <2>3, <1>0
  <2>6. Range(unmet[n + 1]) = Had(n + 1) \ met
    BY <2>3, <2>4, <2>5
  <2> QED BY <2>1, <2>5, <2>6
<1>7. L \in T
  <2> HIDE DEF T
  <2>1. 0 .. L \subseteq T
    BY <1>1, <1>5, <1>6, UpTo
  <2> QED BY <2>1, <1>1
<1>8. unmet[L] \in Seq(Ref) /\ Range(unmet[L]) = Had(L) \ met
  BY <1>7
<1>9. Range(list) = Had(L)
  BY <1>1 DEF Range
<1> QED BY <1>2, <1>8, <1>9

\* A set in a list.
LEMMA ListingIs ==
    ASSUME NEW S \in SUBSET Ref
    PROVE  Listing(S) \in Seq(Ref) /\ Range(Listing(S)) = S
<1>1. IsFiniteSet(S)
  BY BundlerAssumption, FS_Subset
<1> DEFINE n == Cardinality(S)
<1>2. n \in Nat /\ ExistsBijection(1 .. n, S)
  BY <1>1, FS_CardinalityType
<1> HIDE DEF n
<1>3. \E list \in [1 .. n -> S] : Range(list) = S
  <2>1. PICK list : list \in Bijection(1 .. n, S)
    BY <1>2 DEF ExistsBijection
  <2>2. list \in [1 .. n -> S] /\ \A x \in S : \E i \in 1 .. n : list[i] = x
    BY <2>1 DEF Bijection, Surjection, Injection
  <2>3. Range(list) = S
    BY <2>2 DEF Range
  <2> QED BY <2>2, <2>3
<1>4. Listing(S) \in [1 .. n -> S] /\ Range(Listing(S)) = S
  BY <1>3 DEF Listing, n
<1>5. Listing(S) \in Seq(S)
  BY <1>4, <1>2, IsASeq
<1> QED BY <1>4, <1>5, SeqMonotonic

\* Where a capsule gets in the block.
LEMMA InsertedIs ==
    ASSUME block \in Seq(Ref), Range(typeIdx) \subseteq Nat, NEW r \in Ref
    PROVE  /\ TargetIdx(r) \in Nat
           /\ Inserted(r) \in Seq(Ref) /\ Range(Inserted(r)) = Range(block) \cup {r}
           /\ IsInjective(block) /\ r \notin Range(block) => IsInjective(Inserted(r))
<1> DEFINE L == Len(block)
           k == IF TargetIdx(r) < L THEN TargetIdx(r) ELSE L
           a == SubSeq(block, 1, k)
           b == SubSeq(block, k + 1, L)
           s == a \o <<r>> \o b
<1>1. L \in Nat /\ DOMAIN block = 1 .. L /\ \A i \in 1 .. L : block[i] \in Ref
  BY ElementOfSeq
<1>2. TargetIdx(r) \in Nat
  BY <1>1 DEF TargetIdx, Range
<1>3. k \in Nat /\ k <= L
  BY <1>1, <1>2
<1>4. Inserted(r) = s
  BY DEF Inserted
<1> HIDE DEF L, k
<1>5. a \in Seq(Ref) /\ Len(a) = k /\ \A i \in 1 .. k : a[i] = block[i]
  <2>1. \A i \in 1 .. k : block[i] \in Ref
    BY <1>1, <1>3
  <2>2. /\ a \in Seq(Ref) /\ Len(a) = (IF 1 <= k THEN k - 1 + 1 ELSE 0)
        /\ \A i \in 1 .. k - 1 + 1 : a[i] = block[1 + i - 1]
    BY <2>1, <1>3, SubSeqProperties
  <2> HIDE DEF a
  <2> QED BY <2>2, <1>3
<1>6. b \in Seq(Ref) /\ Len(b) = L - k /\ \A i \in 1 .. L - k : b[i] = block[k + i]
  <2>1. \A i \in k + 1 .. L : block[i] \in Ref
    BY <1>1, <1>3
  <2>2. /\ b \in Seq(Ref) /\ Len(b) = (IF k + 1 <= L THEN L - (k + 1) + 1 ELSE 0)
        /\ \A i \in 1 .. L - (k + 1) + 1 : b[i] = block[(k + 1) + i - 1]
    BY <2>1, <1>1, <1>3, SubSeqProperties
  <2> HIDE DEF b
  <2>3. L - (k + 1) + 1 = L - k /\ \A i \in 1 .. L - k : (k + 1) + i - 1 = k + i
    BY <1>1, <1>3
  <2> QED BY <2>2, <2>3, <1>1, <1>3
<1> HIDE DEF a, b
<1>7. <<r>> \in Seq(Ref) /\ Len(<<r>>) = 1 /\ <<r>>[1] = r
  OBVIOUS
<1>8. s \in Seq(Ref) /\ Len(s) = L + 1
      /\ \A i \in 1 .. L + 1 : s[i] = IF i <= k THEN block[i] ELSE IF i = k + 1 THEN r ELSE block[i - 1]
  <2>1. /\ a \o <<r>> \in Seq(Ref) /\ Len(a \o <<r>>) = k + 1
        /\ \A i \in 1 .. k + 1 : (a \o <<r>>)[i] = IF i <= k THEN a[i] ELSE <<r>>[i - k]
    BY <1>5, <1>7, ConcatProperties
  <2>2. /\ s \in Seq(Ref) /\ Len(s) = (k + 1) + (L - k)
        /\ \A i \in 1 .. (k + 1) + (L - k) :
              s[i] = IF i <= k + 1 THEN (a \o <<r>>)[i] ELSE b[i - (k + 1)]
    <3> DEFINE c == a \o <<r>>
    <3>1. c \in Seq(Ref) /\ Len(c) = k + 1 /\ b \in Seq(Ref) /\ Len(b) = L - k /\ s = c \o b
      BY <2>1, <1>6
    <3> HIDE DEF c, s
    <3>2. /\ c \o b \in Seq(Ref) /\ Len(c \o b) = Len(c) + Len(b)
          /\ \A i \in 1 .. Len(c) + Len(b) : (c \o b)[i] = IF i <= Len(c) THEN c[i] ELSE b[i - Len(c)]
      BY <3>1, ConcatProperties
    <3> QED BY <3>1, <3>2 DEF c
  <2> HIDE DEF s
  <2>3. (k + 1) + (L - k) = L + 1
    BY <1>1, <1>3
  <2>4. ASSUME NEW i \in 1 .. L + 1
        PROVE  s[i] = IF i <= k THEN block[i] ELSE IF i = k + 1 THEN r ELSE block[i - 1]
    <3>1. CASE i <= k
      <4>1. i \in 1 .. k /\ i \in 1 .. k + 1 /\ i <= k + 1
        BY <3>1, <1>3
      <4> QED BY <4>1, <3>1, <2>1, <2>2, <2>3, <1>5
    <3>2. CASE i = k + 1
      <4>1. i \in 1 .. k + 1 /\ ~(i <= k) /\ i - k = 1 /\ i <= k + 1
        BY <3>2, <1>3
      <4> QED BY <4>1, <3>2, <2>1, <2>2, <2>3, <1>7
    <3>3. CASE ~(i <= k) /\ i # k + 1
      <4>1. ~(i <= k + 1) /\ i - (k + 1) \in 1 .. L - k /\ k + (i - (k + 1)) = i - 1
        BY <3>3, <1>1, <1>3
      <4>2. s[i] = b[i - (k + 1)]
        BY <4>1, <2>2, <2>3
      <4>3. b[i - (k + 1)] = block[k + (i - (k + 1))]
        BY <4>1, <1>6
      <4> QED BY <4>1, <4>2, <4>3, <3>3
    <3> QED BY <3>1, <3>2, <3>3
  <2> QED BY <2>2, <2>3, <2>4
<1> HIDE DEF s
<1>9. DOMAIN s = 1 .. L + 1
  BY <1>8, <1>1
<1>10. Range(s) = Range(block) \cup {r}
  <2>1. ASSUME NEW x \in Range(s) PROVE x \in Range(block) \cup {r}
    <3>1. PICK i \in 1 .. L + 1 : x = s[i]
      BY <1>9 DEF Range
    <3>2. /\ i <= k => i \in 1 .. L
          /\ ~(i <= k) /\ i # k + 1 => i - 1 \in 1 .. L
      BY <1>1, <1>3
    <3> QED BY <3>1, <3>2, <1>8, <1>1 DEF Range
  <2>2. ASSUME NEW j \in 1 .. L PROVE block[j] \in Range(s)
    <3>1. CASE j <= k
      <4>1. j \in 1 .. L + 1 /\ s[j] = block[j]
        BY <3>1, <1>1, <1>8
      <4> QED BY <4>1, <1>9 DEF Range
    <3>2. CASE ~(j <= k)
      <4>1. j + 1 \in 1 .. L + 1 /\ ~(j + 1 <= k) /\ j + 1 # k + 1 /\ (j + 1) - 1 = j
        BY <3>2, <1>1, <1>3
      <4>2. s[j + 1] = block[j]
        BY <4>1, <1>8
      <4> QED BY <4>1, <4>2, <1>9 DEF Range
    <3> QED BY <3>1, <3>2
  <2>3. k + 1 \in 1 .. L + 1 /\ ~(k + 1 <= k)
    BY <1>1, <1>3
  <2>4. s[k + 1] = r /\ r \in Range(s)
    BY <2>3, <1>8, <1>9 DEF Range
  <2>5. Range(block) \subseteq Range(s)
    BY <2>2, <1>1 DEF Range
  <2> QED BY <2>1, <2>4, <2>5
<1>11. ASSUME IsInjective(block), r \notin Range(block) PROVE IsInjective(s)
  <2>1. \A i, j \in 1 .. L : block[i] = block[j] => i = j
    BY <1>11, <1>1 DEF IsInjective
  <2>2. \A i \in 1 .. L : block[i] # r
    BY <1>11, <1>1 DEF Range
  <2>3. ASSUME NEW i \in 1 .. L + 1, NEW j \in 1 .. L + 1, s[i] = s[j] PROVE i = j
    <3>1. /\ i <= k => i \in 1 .. L /\ s[i] = block[i]
          /\ i = k + 1 => s[i] = r
          /\ ~(i <= k) /\ i # k + 1 => i - 1 \in 1 .. L /\ s[i] = block[i - 1]
      BY <1>1, <1>3, <1>8
    <3>2. /\ j <= k => j \in 1 .. L /\ s[j] = block[j]
          /\ j = k + 1 => s[j] = r
          /\ ~(j <= k) /\ j # k + 1 => j - 1 \in 1 .. L /\ s[j] = block[j - 1]
      BY <1>1, <1>3, <1>8
    <3>3. CASE i <= k
      BY <3>1, <3>2, <3>3, <2>1, <2>2, <2>3, <1>1, <1>3
    <3>4. CASE i = k + 1
      BY <3>1, <3>2, <3>4, <2>1, <2>2, <2>3, <1>1, <1>3
    <3>5. CASE ~(i <= k) /\ i # k + 1
      BY <3>1, <3>2, <3>5, <2>1, <2>2, <2>3, <1>1, <1>3
    <3> QED BY <3>3, <3>4, <3>5
  <2> QED BY <2>3, <1>9 DEF IsInjective
<1> QED BY <1>2, <1>4, <1>8, <1>10, <1>11

\* Reach is closed, and it is the least such set.  Each step that adds something adds
\* a ref, so there are no more steps than refs.
LEMMA ReachIs ==
    ASSUME NEW S, NEW assoc, ToSet(roots) \subseteq Ref \cup {Phony},
           \A r \in Ref : Refers(r, assoc) \subseteq Ref \cup {Phony}
    PROVE  /\ Reach(S, assoc) \subseteq Ref
           /\ New(ToSet(roots), S) \subseteq Reach(S, assoc)
           /\ \A r \in Reach(S, assoc) : New(Refers(r, assoc), S) \subseteq Reach(S, assoc)
           /\ \A X : New(ToSet(roots), S) \subseteq X /\ (\A r \in X : New(Refers(r, assoc), S) \subseteq X)
                => Reach(S, assoc) \subseteq X
<1> DEFINE N == Cardinality(Ref)
           start == New(ToSet(roots), S)
           Grown(x) == x \cup New(UNION {Refers(r, assoc) : r \in x}, S)
           Is(f) == f = [n \in 0 .. N |-> IF n = 0 THEN start ELSE Grown(f[n - 1])]
           step == [n \in 1 .. N |-> [x \in SUBSET Ref |-> Grown(x)]]
           reach == CHOOSE f : Is(f)
<1>1. N \in Nat /\ IsFiniteSet(Ref)
  BY BundlerAssumption, FS_CardinalityType
<1>2. Reach(S, assoc) = reach[N]
  BY DEF Reach
<1>3. start \subseteq Ref
  BY DEF New
<1>4. \A x \in SUBSET Ref : Grown(x) \in SUBSET Ref
  <2> SUFFICES ASSUME NEW x \in SUBSET Ref PROVE Grown(x) \subseteq Ref
    OBVIOUS
  <2>1. UNION {Refers(r, assoc) : r \in x} \subseteq Ref \cup {Phony}
    OBVIOUS
  <2> QED BY <2>1 DEF New
<1>5. \A x : \A r \in x : New(Refers(r, assoc), S) \subseteq Grown(x)
  BY DEF New
<1>6. \A x : (\A r \in x : New(Refers(r, assoc), S) \subseteq x) => Grown(x) = x
  BY DEF New
<1>7. \A x, X : x \subseteq X /\ (\A r \in X : New(Refers(r, assoc), S) \subseteq X) => Grown(x) \subseteq X
  BY DEF New
<1>8. \A x : x \subseteq Grown(x)
  OBVIOUS
<1> HIDE DEF N, reach, start, Grown
<1>9. Is(reach)
  <2>1. step \in [1 .. N -> [SUBSET Ref -> SUBSET Ref]] /\ start \in SUBSET Ref
    BY <1>3, <1>4
  <2> DEFINE P == SUBSET Ref
  <2>p. step \in [1 .. N -> [P -> P]] /\ start \in P
    BY <2>1
  <2> HIDE DEF step, P
  <2>q. Runs(N, P, start, step) # {}
    BY <1>1, <2>p, RecursionExists
  <2>2. PICK f : f \in Runs(N, SUBSET Ref, start, step)
    BY <2>q DEF P
  <2>3. f \in [0 .. N -> SUBSET Ref] /\ f[0] = start /\ \A n \in 1 .. N : f[n] = step[n][f[n - 1]]
    BY <2>2 DEF Runs
  <2>4. ASSUME NEW n \in 0 .. N PROVE f[n] = IF n = 0 THEN start ELSE Grown(f[n - 1])
    <3>1. CASE n # 0
      <4>1. n \in 1 .. N /\ n - 1 \in 0 .. N /\ f[n - 1] \in SUBSET Ref
        BY <1>1, <3>1, <2>3
      <4> QED BY <4>1, <2>3, <3>1 DEF step
    <3> QED BY <3>1, <2>3
  <2>5. Is(f)
    <3>1. f = [n \in 0 .. N |-> f[n]]
      BY <2>3
    <3> QED BY <3>1, <2>4
  <2> QED BY <2>5 DEF reach
<1>10. \A n \in 0 .. N : reach[n] = IF n = 0 THEN start ELSE Grown(reach[n - 1])
  BY <1>9
<1>11. reach[0] = start /\ \A n \in 0 .. N : n < N => n + 1 \in 0 .. N /\ reach[n + 1] = Grown(reach[n])
  <2>1. ASSUME NEW n \in 0 .. N, n < N PROVE n + 1 \in 0 .. N /\ reach[n + 1] = Grown(reach[n])
    <3>1. n + 1 \in 0 .. N /\ n + 1 # 0 /\ (n + 1) - 1 = n
      BY <1>1, <2>1
    <3> QED BY <3>1, <1>10
  <2> QED BY <2>1, <1>10, <1>1
<1> DEFINE Closed(x) == \A r \in x : New(Refers(r, assoc), S) \subseteq x
           A == {n \in 0 .. N : /\ reach[n] \subseteq Ref /\ start \subseteq reach[n]
                                /\ Closed(reach[n]) \/ Cardinality(reach[n]) >= n}
<1>12. 0 .. N \subseteq A
  <2>1. 0 \in A
    <3>1. IsFiniteSet(start) /\ Cardinality(start) \in Nat
      BY <1>1, <1>3, FS_Subset, FS_CardinalityType
    <3>2. Cardinality(start) >= 0
      BY <3>1
    <3> QED BY <3>2, <1>1, <1>3, <1>11
  <2>2. ASSUME NEW n \in 0 .. N, n < N, n \in A PROVE n + 1 \in A
    <3>1. n + 1 \in 0 .. N /\ reach[n + 1] = Grown(reach[n])
      BY <2>2, <1>11
    <3>2. reach[n] \subseteq Ref /\ start \subseteq reach[n]
      BY <2>2
    <3>3. reach[n + 1] \subseteq Ref /\ start \subseteq reach[n + 1] /\ reach[n] \subseteq reach[n + 1]
      BY <3>1, <3>2, <1>4, <1>8
    <3>4. CASE Closed(reach[n])
      <4>1. reach[n + 1] = reach[n]
        BY <3>1, <3>4, <1>6
      <4> QED BY <4>1, <3>1, <3>3, <3>4
    <3>5. CASE ~Closed(reach[n])
      <4>1. PICK x \in reach[n + 1] : x \notin reach[n]
        BY <3>1, <3>5, <1>5
      <4>2. IsFiniteSet(reach[n]) /\ IsFiniteSet(reach[n + 1])
        BY <1>1, <3>2, <3>3, FS_Subset
      <4>3. Cardinality(reach[n] \cup {x}) = Cardinality(reach[n]) + 1
        BY <4>1, <4>2, FS_AddElement
      <4>4. Cardinality(reach[n] \cup {x}) <= Cardinality(reach[n + 1])
        <5>1. reach[n] \cup {x} \in SUBSET reach[n + 1]
          BY <4>1, <3>3
        <5> QED BY <5>1, <4>2, FS_Subset
      <4>5. Cardinality(reach[n]) >= n
        BY <2>2, <3>5
      <4>6. Cardinality(reach[n]) \in Nat /\ Cardinality(reach[n + 1]) \in Nat
        BY <4>2, FS_CardinalityType
      <4>7. Cardinality(reach[n + 1]) >= n + 1
        BY <4>3, <4>4, <4>5, <4>6
      <4> QED BY <4>7, <3>1, <3>3
    <3> QED BY <3>4, <3>5
  <2> HIDE DEF A
  <2> QED BY <1>1, <2>1, <2>2, UpTo
<1>13. N \in A
  BY <1>1, <1>12
<1>14. reach[N] \subseteq Ref /\ start \subseteq reach[N]
  BY <1>13
<1>15. Closed(reach[N])
  <2>1. CASE Cardinality(reach[N]) >= N
    <3>1. Cardinality(reach[N]) <= N /\ Cardinality(reach[N]) \in Nat
      <4>1. reach[N] \in SUBSET Ref
        BY <1>14
      <4>2. IsFiniteSet(reach[N]) /\ Cardinality(reach[N]) <= N
        BY <4>1, <1>1, FS_Subset DEF N
      <4> QED BY <4>2, FS_CardinalityType
    <3>2. Cardinality(reach[N]) = N
      BY <3>1, <2>1, <1>1
    <3>3. reach[N] = Ref
      BY <3>2, <1>14, <1>1, FS_Subset DEF N
    <3>4. \A r \in Ref : New(Refers(r, assoc), S) \subseteq Ref
      BY DEF New
    <3> QED BY <3>3, <3>4
  <2> QED BY <2>1, <1>13
<1>16. ASSUME NEW X, start \subseteq X, Closed(X) PROVE reach[N] \subseteq X
  <2> DEFINE B == {n \in 0 .. N : reach[n] \subseteq X}
  <2>1. 0 \in B
    BY <1>1, <1>11, <1>16
  <2>2. ASSUME NEW n \in 0 .. N, n < N, n \in B PROVE n + 1 \in B
    <3>1. n + 1 \in 0 .. N /\ reach[n + 1] = Grown(reach[n]) /\ reach[n] \subseteq X
      BY <2>2, <1>11
    <3>2. Grown(reach[n]) \subseteq X
      BY <3>1, <1>7, <1>16
    <3> QED BY <3>1, <3>2
  <2>3. N \in B
    <3> HIDE DEF B
    <3>1. 0 .. N \subseteq B
      BY <1>1, <2>1, <2>2, UpTo
    <3> QED BY <3>1, <1>1
  <2> QED BY <2>3
<1> QED BY <1>2, <1>14, <1>15, <1>16 DEF start

\* Sequences without repetition that have nothing in common.
LEMMA ConcatInjective ==
    ASSUME NEW S, NEW s \in Seq(S), NEW t \in Seq(S),
           IsInjective(s), IsInjective(t), Range(s) \cap Range(t) = {}
    PROVE  IsInjective(s \o t)
<1> DEFINE K == Len(s)
           L == Len(t)
           u == s \o t
<1>1. K \in Nat /\ L \in Nat /\ DOMAIN s = 1 .. K /\ DOMAIN t = 1 .. L
  OBVIOUS
<1>2. /\ DOMAIN u = 1 .. K + L
      /\ \A i \in 1 .. K + L : u[i] = IF i <= K THEN s[i] ELSE t[i - K]
  <2>1. /\ u \in Seq(S) /\ Len(u) = K + L
        /\ \A i \in 1 .. K + L : u[i] = IF i <= K THEN s[i] ELSE t[i - K]
    BY ConcatProperties
  <2> HIDE DEF u, K, L
  <2> QED BY <2>1
<1> HIDE DEF u, K, L
<1>0. ASSUME NEW i \in 1 .. K + L
      PROVE  /\ i <= K => i \in 1 .. K /\ u[i] = s[i] /\ u[i] \in Range(s)
             /\ ~(i <= K) => i - K \in 1 .. L /\ u[i] = t[i - K] /\ u[i] \in Range(t)
  <2>1. CASE i <= K
    <3>1. i \in DOMAIN s /\ i \in 1 .. K /\ u[i] = s[i]
      BY <1>1, <1>2, <2>1
    <3>2. s[i] \in Range(s)
      BY <3>1, Zenon DEF Range
    <3> QED
      BY <2>1, <3>1, <3>2
  <2>2. CASE ~(i <= K)
    <3>1. i - K \in DOMAIN t /\ i - K \in 1 .. L /\ u[i] = t[i - K]
      BY <1>1, <1>2, <2>2
    <3>2. t[i - K] \in Range(t)
      BY <3>1, Zenon DEF Range
    <3> QED
      BY <2>2, <3>1, <3>2
  <2> QED
    BY <2>1, <2>2
<1>3. ASSUME NEW i \in 1 .. K + L, NEW j \in 1 .. K + L, u[i] = u[j] PROVE i = j
  <2>1. /\ i <= K => i \in 1 .. K /\ u[i] = s[i] /\ u[i] \in Range(s)
        /\ ~(i <= K) => i - K \in 1 .. L /\ u[i] = t[i - K] /\ u[i] \in Range(t)
    BY <1>0
  <2>2. /\ j <= K => j \in 1 .. K /\ u[j] = s[j] /\ u[j] \in Range(s)
        /\ ~(j <= K) => j - K \in 1 .. L /\ u[j] = t[j - K] /\ u[j] \in Range(t)
    BY <1>0
  <2>3. CASE i <= K
    <3>1. j <= K
      BY <2>1, <2>2, <2>3, <1>3
    <3> QED BY <3>1, <2>1, <2>2, <2>3, <1>1, <1>3 DEF IsInjective
  <2>4. CASE ~(i <= K)
    <3>1. ~(j <= K)
      BY <2>1, <2>2, <2>4, <1>3
    <3>2. i - K = j - K
      BY <3>1, <2>1, <2>2, <2>4, <1>1, <1>3 DEF IsInjective
    <3> QED BY <3>2, <1>1
  <2> QED BY <2>3, <2>4
<1> QED BY <1>2, <1>3 DEF IsInjective, u

\* The size of nothing.
LEMMA EmptySize == SizeOf(<<>>) = 0
<1>1. <<>> \in Seq(Ref) /\ Len(<<>>) = 0
  OBVIOUS
<1> QED BY <1>1, SizeIs DEF PartSizes

-----------------------------------------------------------------------------
\* What the collection of capsules keeps.

\* Once a bundle is made.
Ready == {"done", "received", "raised"}

\* The bundle and the block have each ref once, none that was seen before, and while
\* refs are collected they are what has been visited since.  At the size limit the last
\* ref of the block has not been visited.
TakenInv ==
    /\ IsInjective(result) /\ Bundled \cap seen = {}
    /\ status = "loop" =>
        /\ IsInjective(block) /\ Range(block) \cap (seen \cup Bundled) = {}
        /\ visitedRefs = seen \cup Bundled \cup Range(block)
    /\ status # "loop" => seen \cup Bundled \subseteq visitedRefs
    /\ status \notin {"loop", "error"} => visitedRefs \subseteq seen \cup Bundled \cup Range(block)
    /\ status \in Ready => (option.size = 0 => visitedRefs = seen \cup Bundled)

\* What waits to be visited, or need not be.
Pending == Range(unvisited) \cup Range(current)
Settled == {Phony} \cup visitedRefs \cup option.missing

\* What the visited refs and the roots refer to is visited or waits.
ClosedInv ==
    /\ status = "loop" =>
        /\ ToSet(roots) \subseteq Settled \cup Pending
        /\ \A r \in visitedRefs \ seen : Refers(r, graph.assoc) \subseteq Settled \cup Pending
    /\ status \in Ready /\ option.size = 0 =>
        /\ ToSet(roots) \subseteq Settled
        /\ \A r \in visitedRefs \ seen : Refers(r, graph.assoc) \subseteq Settled
    /\ option.size = 0 => \A r \in seen :
        {graph.type[r]} \cup ToSet(graph.deps[r]) \subseteq {Phony} \cup seen \cup option.missing
    /\ \A r \in visitedRefs \ seen : Associations(r) \subseteq asss

\* Only what is needed is taken or waits: it is in every set that has the roots and
\* all that its members refer to, apart from what was seen or is missing.
NeedClosed(X) ==
    New(ToSet(roots), seen) \subseteq X /\ \A r \in X : New(Refers(r, graph.assoc), seen) \subseteq X
NeededInv ==
    \A X : NeedClosed(X) =>
        /\ Bundled \subseteq X
        /\ status = "loop" => Range(block) \subseteq X /\ New(Pending, seen) \subseteq X

\* No capsule is in the bundle without its type, and the types of the block are there
\* or come next.
TypedInv ==
    /\ \A r \in Bundled : graph.type[r] \in {Phony} \cup seen \cup option.missing \cup Bundled
    /\ status = "loop" => \A r \in Range(block) : graph.type[r] \in Settled \cup Range(current)

\* The size limit.
SizeInv ==
    /\ option.size # 0 => SizeOf(result) <= option.size
    /\ status = "loop" => ~Over(block)
    /\ status = "limit" => Over(block)

\* What the receiver knows, and what it lacks when it fails.
Registered == {result[j] : j \in 1 .. at - 1}
KnownInv ==
    /\ status \in {"loop", "limit"} => at = 1
    /\ Registered \subseteq known
    /\ option.size = 0 /\ status # "error" => known = seen \cup Registered
    /\ status = "received" => at = Len(result) + 1
    /\ status = "raised" /\ option.missing = {} /\ TypesFirst =>
        ~(visitedRefs \cup UNION {ToSet(graph.deps[a]) : a \in Listed} \subseteq known \cup Bundled)

CollectInv == TakenInv /\ ClosedInv /\ NeededInv /\ TypedInv /\ SizeInv
BundleInv == BundleTypeOK /\ CollectInv /\ KnownInv

\* The arguments of a call of bundle.
LEMMA ArgsAre ==
    ASSUME BundleTypeOK
    PROVE  /\ ToSet(roots) \subseteq Ref \cup {Phony} /\ roots \in Seq(Ref \cup {Phony})
           /\ ToSet(roots) = Range(roots)
           /\ option.size \in Nat /\ option.refs \in Nat /\ option.missing \subseteq Ref
           /\ \A r \in Ref :
                /\ graph.type[r] \in Ref \cup {Phony} /\ graph.deps[r] \in Seq(Ref)
                /\ ToSet(graph.deps[r]) = Range(graph.deps[r]) /\ ToSet(graph.deps[r]) \subseteq Ref
                /\ Associations(r) \subseteq Ref /\ Attached(r) = Associations(r)
                /\ Refers(r, graph.assoc) = {graph.type[r]} \cup Associations(r) \cup ToSet(graph.deps[r])
                /\ Refers(r, graph.assoc) \subseteq Ref \cup {Phony}
<1>1. roots \in Seq(Ref \cup {Phony}) /\ graph \in Graph /\ option \in Options
  BY BundlerAssumption DEF BundleTypeOK
<1>2. option.size \in Nat /\ option.refs \in Nat /\ option.missing \subseteq Ref
  BY <1>1, BundlerAssumption
<1>3. /\ graph.type \in [Ref -> Ref \cup {Phony}]
      /\ graph.deps \in [Ref -> Seq(Ref)]
      /\ graph.assoc \in [Ref \cup {Phony} -> SUBSET Ref]
  BY <1>1 DEF Graph
<1>4. \A s : ToSet(s) = Range(s)
  BY DEF ToSet, Range
<1>5. ToSet(roots) \subseteq Ref \cup {Phony}
  <2>1. Range(roots) \in SUBSET (Ref \cup {Phony})
    BY <1>1, RangeOfSeq
  <2> QED BY <2>1, <1>4
<1>6. ASSUME NEW r \in Ref
      PROVE  /\ graph.type[r] \in Ref \cup {Phony} /\ graph.deps[r] \in Seq(Ref)
             /\ ToSet(graph.deps[r]) \subseteq Ref
             /\ Associations(r) \subseteq Ref /\ Attached(r) = Associations(r)
             /\ Refers(r, graph.assoc) = {graph.type[r]} \cup Associations(r) \cup ToSet(graph.deps[r])
  <2>1. graph.type[r] \in Ref \cup {Phony} /\ graph.deps[r] \in Seq(Ref)
    BY <1>3
  <2>2. Range(graph.deps[r]) \in SUBSET Ref
    BY <2>1, RangeOfSeq
  <2>3. Associations(r) \subseteq Ref
    BY <2>1, <1>3 DEF Associations
  <2>4. Attached(r) = Associations(r)
    BY DEF Attached, Associations
  <2>5. Refers(r, graph.assoc) = {graph.type[r]} \cup Associations(r) \cup ToSet(graph.deps[r])
    BY DEF Refers, Associations
  <2> QED BY <2>1, <2>2, <2>3, <2>4, <2>5, <1>4
<1>7. \A r \in Ref : Refers(r, graph.assoc) \subseteq Ref \cup {Phony}
  BY <1>6
<1> QED BY <1>1, <1>2, <1>4, <1>5, <1>6, <1>7

\* The members of two sequences in a row are those of each.
LEMMA Joined ==
    ASSUME NEW S, NEW s \in Seq(S), NEW t \in Seq(S)
    PROVE  s \o t \in Seq(S) /\ Range(s \o t) = Range(s) \cup Range(t)
<1>1. s \o t \in Seq(S)
  BY ConcatProperties
<1>2. Range(s \o t) = Range(s) \cup Range(t)
  BY RangeConcatenation
<1> QED BY <1>1, <1>2

\* The members of a sequence are its head and those of its tail.
LEMMA TailIs ==
    ASSUME NEW S, NEW s \in Seq(S), s # <<>>
    PROVE  /\ Head(s) \in S /\ Tail(s) \in Seq(S) /\ Range(s) = {Head(s)} \cup Range(Tail(s))
           /\ Head(s) \in Range(s)
<1>1. Head(s) \in S /\ Tail(s) \in Seq(S)
  BY HeadTailProperties
<1>2. <<Head(s)>> \o Tail(s) = s /\ <<Head(s)>> \in Seq(S)
  BY <1>1
<1>3. Range(s) = Range(<<Head(s)>>) \cup Range(Tail(s))
  <2>1. PICK h, q : h = <<Head(s)>> /\ q = Tail(s)
    OBVIOUS
  <2>2. h \in Seq(S) /\ q \in Seq(S) /\ h \o q = s
    BY <1>1, <1>2, <2>1, Zenon
  <2>3. Range(h \o q) = Range(h) \cup Range(q)
    BY <2>2, Joined
  <2> QED
    BY <2>1, <2>2, <2>3, Zenon
<1>4. Range(<<Head(s)>>) = {Head(s)}
  BY DEF Range
<1> QED BY <1>1, <1>3, <1>4

\* The ref that is taken off the lists.
LEMMA NextRefIs ==
    ASSUME BundleTypeOK, Working
    PROVE  /\ NextRef \in Pending /\ NextRef \in Ref \cup {Phony}
           /\ current # <<>> => /\ Tail(current) \in Seq(Ref \cup {Phony})
                                /\ Range(current) = {NextRef} \cup Range(Tail(current))
           /\ current = <<>> => /\ Tail(unvisited) \in Seq(Ref \cup {Phony}) /\ Range(current) = {}
                                /\ Range(unvisited) = {NextRef} \cup Range(Tail(unvisited))
<1>1. unvisited \in Seq(Ref \cup {Phony}) /\ current \in Seq(Ref \cup {Phony})
  BY DEF BundleTypeOK
<1>2. CASE current # <<>>
  BY <1>1, <1>2, TailIs DEF NextRef, Pending
<1>3. CASE current = <<>>
  <2>1. unvisited # <<>>
    BY <1>3 DEF Working
  <2>2. Range(<<>>) = {}
    BY DEF Range
  <2> QED BY <1>1, <1>3, <2>1, <2>2, TailIs DEF NextRef, Pending
<1> QED BY <1>2, <1>3

\* What TakeRef does, in sets.
LEMMA TakeIs ==
    ASSUME BundleTypeOK, TakeRef, NEW r, r = NextRef
    PROVE  /\ r \in Ref /\ r \in Pending /\ r \notin visitedRefs /\ r \notin option.missing
           /\ current' \in Seq(Ref \cup {Phony}) /\ unvisited' \in Seq(Ref \cup {Phony})
           /\ Pending \subseteq Pending' \cup {r} /\ Pending' \subseteq Pending \cup Refers(r, graph.assoc)
           /\ Refers(r, graph.assoc) \subseteq {Phony} \cup visitedRefs' \cup Pending'
           /\ graph.type[r] \in {Phony} \cup visitedRefs' \cup Range(current')
           /\ Range(current) \subseteq Range(current') \cup {r}
           /\ \/ /\ current' = <<>> /\ Range(current') = {}
                 /\ result' = result \o Reverse(Inserted(r)) /\ block' = <<>> /\ types' = {}
              \/ /\ current' # <<>>
                 /\ result' = result /\ block' = Inserted(r) /\ types' = types \cup NewType(r)
<1>1. r \in Ref /\ r \in Pending /\ r \notin visitedRefs /\ r \notin option.missing
  <2>1. Working /\ ~Skipped(NextRef)
    BY DEF TakeRef
  <2>2. NextRef \in Pending /\ NextRef \in Ref \cup {Phony}
    BY <2>1, NextRefIs
  <2> QED BY <2>1, <2>2 DEF Skipped
<1> DEFINE tail == IF current # <<>> THEN Tail(current) ELSE <<>>
           type == Listing(NewType(r))
           ofAss == Listing(Associations(r) \ (visitedRefs \cup {r}))
           deps == Unmet(graph.deps[r], visitedRefs \cup {r})
           last == IF current # <<>> THEN deps ELSE <<>>
           tail1 == tail \o type
           tail2 == tail1 \o ofAss
           cur == tail2 \o last
<1>2. /\ current' = cur
      /\ unvisited' = IF current # <<>> THEN unvisited ELSE Tail(unvisited) \o deps
      /\ visitedRefs' = visitedRefs \cup {r}
      /\ result' = IF cur = <<>> THEN result \o Reverse(Inserted(r)) ELSE result
      /\ block' = IF cur = <<>> THEN <<>> ELSE Inserted(r)
      /\ types' = IF cur = <<>> THEN {} ELSE types \cup NewType(r)
  BY DEF TakeRef
<1>3. Working
  BY DEF TakeRef
<1>4. /\ current # <<>> => /\ Tail(current) \in Seq(Ref \cup {Phony})
                           /\ Range(current) = {r} \cup Range(Tail(current))
      /\ current = <<>> => /\ Tail(unvisited) \in Seq(Ref \cup {Phony}) /\ Range(current) = {}
                           /\ Range(unvisited) = {r} \cup Range(Tail(unvisited))
  BY <1>3, NextRefIs
<1>r. unvisited \in Seq(Ref \cup {Phony})
  BY DEF BundleTypeOK
<1>g. /\ graph.type[r] \in Ref \cup {Phony} /\ graph.deps[r] \in Seq(Ref)
      /\ ToSet(graph.deps[r]) = Range(graph.deps[r]) /\ ToSet(graph.deps[r]) \subseteq Ref
      /\ Associations(r) \subseteq Ref
      /\ Refers(r, graph.assoc) = {graph.type[r]} \cup Associations(r) \cup ToSet(graph.deps[r])
  BY <1>1, ArgsAre
<1>t. /\ NewType(r) \subseteq Ref /\ NewType(r) \subseteq {graph.type[r]}
      /\ graph.type[r] \in {Phony} \cup visitedRefs \cup NewType(r)
  BY <1>g DEF NewType
<1>e. <<>> \in Seq(Ref) /\ Range(<<>>) = {} /\ Seq(Ref) \subseteq Seq(Ref \cup {Phony})
  <2>1. <<>> \in Seq(Ref) /\ Range(<<>>) = {}
    BY DEF Range
  <2> QED BY <2>1, SeqMonotonic
<1>5. type \in Seq(Ref) /\ Range(type) = NewType(r)
  BY <1>t, ListingIs
<1>6. ofAss \in Seq(Ref) /\ Range(ofAss) = Associations(r) \ (visitedRefs \cup {r})
  <2>1. Associations(r) \ (visitedRefs \cup {r}) \in SUBSET Ref
    BY <1>g
  <2> QED BY <2>1, ListingIs
<1>7. deps \in Seq(Ref) /\ Range(deps) = ToSet(graph.deps[r]) \ (visitedRefs \cup {r})
  BY <1>g, UnmetIs
<1>8. last \in Seq(Ref) /\ Range(last) = IF current # <<>> THEN Range(deps) ELSE {}
  BY <1>7, <1>e
<1>9. /\ tail \in Seq(Ref \cup {Phony})
      /\ Range(current) \subseteq {r} \cup Range(tail) /\ Range(tail) \subseteq Range(current)
  BY <1>4, <1>e
<1> HIDE DEF tail, type, ofAss, deps, last
<1>10. cur \in Seq(Ref \cup {Phony})
       /\ Range(cur) = Range(tail) \cup Range(type) \cup Range(ofAss) \cup Range(last)
  <2>0. /\ tail \in Seq(Ref \cup {Phony}) /\ type \in Seq(Ref \cup {Phony})
        /\ ofAss \in Seq(Ref \cup {Phony}) /\ last \in Seq(Ref \cup {Phony})
    BY <1>5, <1>6, <1>8, <1>9, <1>e
  <2>1. tail1 \in Seq(Ref \cup {Phony}) /\ Range(tail1) = Range(tail) \cup Range(type)
    BY <2>0, Joined
  <2> HIDE DEF tail1
  <2>2. tail2 \in Seq(Ref \cup {Phony}) /\ Range(tail2) = Range(tail1) \cup Range(ofAss)
    BY <2>0, <2>1, Joined
  <2> HIDE DEF tail2
  <2>3. cur \in Seq(Ref \cup {Phony}) /\ Range(cur) = Range(tail2) \cup Range(last)
    BY <2>0, <2>2, Joined
  <2> HIDE DEF cur
  <2> QED BY <2>1, <2>2, <2>3
<1> HIDE DEF cur
<1>11. /\ unvisited' \in Seq(Ref \cup {Phony})
       /\ current # <<>> => Range(unvisited') = Range(unvisited)
       /\ current = <<>> => Range(unvisited') = Range(Tail(unvisited)) \cup Range(deps)
  <2>1. CASE current # <<>>
    BY <2>1, <1>2, <1>r
  <2>2. CASE current = <<>>
    <3>1. deps \in Seq(Ref \cup {Phony}) /\ Tail(unvisited) \in Seq(Ref \cup {Phony})
      BY <2>2, <1>4, <1>7, <1>e
    <3>2. PICK rest \in Seq(Ref \cup {Phony}) : rest = Tail(unvisited)
      BY <3>1
    <3>3. unvisited' = rest \o deps
      BY <2>2, <3>2, <1>2
    <3>4. rest \o deps \in Seq(Ref \cup {Phony}) /\ Range(rest \o deps) = Range(rest) \cup Range(deps)
      BY <3>1, Joined
    <3> QED BY <2>2, <3>2, <3>3, <3>4
  <2> QED BY <2>1, <2>2
<1>12. Pending' = Range(unvisited') \cup Range(cur)
  BY <1>2 DEF Pending
<1>p. Pending = Range(unvisited) \cup Range(current)
  BY DEF Pending
<1>13. Pending \subseteq Pending' \cup {r}
  <2>1. CASE current # <<>>
    BY <2>1, <1>4, <1>9, <1>10, <1>11, <1>12, <1>p
  <2>2. CASE current = <<>>
    BY <2>2, <1>4, <1>9, <1>10, <1>11, <1>12, <1>p
  <2> QED BY <2>1, <2>2
<1>14. Pending' \subseteq Pending \cup Refers(r, graph.assoc)
  <2>1. /\ Range(type) \subseteq Refers(r, graph.assoc) /\ Range(ofAss) \subseteq Refers(r, graph.assoc)
        /\ Range(deps) \subseteq Refers(r, graph.assoc) /\ Range(last) \subseteq Range(deps)
    BY <1>5, <1>6, <1>7, <1>8, <1>t, <1>g
  <2>2. CASE current # <<>>
    BY <2>1, <2>2, <1>4, <1>9, <1>10, <1>11, <1>12, <1>p
  <2>3. CASE current = <<>>
    BY <2>1, <2>3, <1>4, <1>9, <1>10, <1>11, <1>12, <1>p
  <2> QED BY <2>2, <2>3
<1>15. Range(deps) \subseteq Pending' /\ NewType(r) \subseteq Range(cur)
       /\ Associations(r) \ (visitedRefs \cup {r}) \subseteq Range(cur)
  <2>1. NewType(r) \subseteq Range(cur) /\ Associations(r) \ (visitedRefs \cup {r}) \subseteq Range(cur)
    BY <1>5, <1>6, <1>10
  <2>2. CASE current # <<>>
    BY <2>1, <2>2, <1>8, <1>10, <1>12
  <2>3. CASE current = <<>>
    BY <2>1, <2>3, <1>11, <1>12
  <2> QED BY <2>1, <2>2, <2>3
<1>16. Refers(r, graph.assoc) \subseteq {Phony} \cup visitedRefs' \cup Pending'
  BY <1>15, <1>12, <1>7, <1>t, <1>g, <1>2
<1>17. graph.type[r] \in {Phony} \cup visitedRefs' \cup Range(current')
  BY <1>15, <1>t, <1>2
<1>18. Range(current) \subseteq Range(current') \cup {r}
  BY <1>9, <1>10, <1>2
<1>19. \/ /\ current' = <<>> /\ Range(current') = {}
          /\ result' = result \o Reverse(Inserted(r)) /\ block' = <<>> /\ types' = {}
       \/ /\ current' # <<>>
          /\ result' = result /\ block' = Inserted(r) /\ types' = types \cup NewType(r)
  BY <1>2, <1>e
<1> QED BY <1>1, <1>2, <1>10, <1>11, <1>13, <1>14, <1>16, <1>17, <1>18, <1>19

\* The types are kept by TakeRef.
LEMMA TakeTypes ==
    ASSUME BundleTypeOK, TakeRef
    PROVE  BundleTypeOK'
<1> DEFINE r == NextRef
<1>1. /\ r \in Ref
      /\ current' \in Seq(Ref \cup {Phony}) /\ unvisited' \in Seq(Ref \cup {Phony})
      /\ \/ result' = result \o Reverse(Inserted(r)) /\ block' = <<>> /\ types' = {}
         \/ result' = result /\ block' = Inserted(r) /\ types' = types \cup NewType(r)
  BY TakeIs
<1>2. /\ Working /\ visitedRefs' = visitedRefs \cup {r} /\ typeIdx' = Indexed(r)
      /\ asss' = asss \cup Associations(r) /\ count' = count + 1
      /\ UNCHANGED <<args, status, receiver>>
  BY DEF TakeRef
<1> HIDE DEF r
<1>3. /\ block \in Seq(Ref) /\ result \in Seq(Ref) /\ DOMAIN typeIdx \subseteq Ref /\ Range(typeIdx) \subseteq Nat
      /\ visitedRefs \subseteq Ref /\ types \subseteq Ref /\ asss \subseteq Ref
      /\ count \in 0 .. option.refs + 1 /\ at \in 1 .. Len(result) + 1
  BY DEF BundleTypeOK
<1>4. TargetIdx(r) \in Nat /\ Inserted(r) \in Seq(Ref)
  BY <1>1, <1>3, InsertedIs
<1>5. Reverse(Inserted(r)) \in Seq(Ref)
  BY <1>4, ReverseIs
<1>6. result' \in Seq(Ref) /\ block' \in Seq(Ref) /\ Len(result) <= Len(result')
  <2>1. /\ result \o Reverse(Inserted(r)) \in Seq(Ref)
        /\ Len(result \o Reverse(Inserted(r))) = Len(result) + Len(Reverse(Inserted(r)))
    BY <1>3, <1>5, ConcatProperties
  <2>2. Len(result) \in Nat /\ Len(Reverse(Inserted(r))) \in Nat
    BY <1>3, <1>5
  <2>3. Len(result) <= Len(result \o Reverse(Inserted(r))) /\ Len(result) <= Len(result)
    BY <2>1, <2>2
  <2>4. block' \in Seq(Ref)
    <3>1. <<>> \in Seq(Ref)
      OBVIOUS
    <3>2. block' = <<>> \/ block' = Inserted(r)
      BY <1>1
    <3> QED BY <3>1, <3>2, <1>4
  <2> QED BY <1>1, <1>3, <2>1, <2>3, <2>4
<1>7. types' \subseteq Ref /\ asss' \subseteq Ref /\ visitedRefs' \subseteq Ref
  <2>1. Associations(r) \subseteq Ref /\ graph.type[r] \in Ref \cup {Phony}
    BY <1>1, ArgsAre
  <2> QED BY <1>1, <1>2, <1>3, <2>1 DEF NewType
<1>8. DOMAIN typeIdx' \subseteq Ref /\ Range(typeIdx') \subseteq Nat
  BY <1>1, <1>2, <1>3, <1>4 DEF Indexed, Range
<1>9. count' \in 0 .. option'.refs + 1
  <2>1. option.refs \in Nat /\ count <= option.refs /\ option' = option
    BY <1>2, ArgsAre DEF Working, args
  <2> QED BY <2>1, <1>2, <1>3
<1>10. at' \in 1 .. Len(result') + 1
  <2>1. at' = at /\ Len(result) \in Nat /\ Len(result') \in Nat
    BY <1>2, <1>3, <1>6 DEF receiver
  <2> QED BY <2>1, <1>3, <1>6
<1> QED BY <1>1, <1>2, <1>6, <1>7, <1>8, <1>9, <1>10 DEF BundleTypeOK, args, receiver

\* The types are kept by the other steps.
LEMMA OtherTypes ==
    ASSUME BundleTypeOK, \/ SkipRef \/ ReachLimit \/ Finish \/ TooManyRefs
                         \/ RegisterCapsule \/ RegisterFails \/ RegisterAssociations \/ SendNext
                         \/ UNCHANGED bundleVars
    PROVE  BundleTypeOK'
<1>t. /\ block \in Seq(Ref) /\ result \in Seq(Ref) /\ DOMAIN typeIdx \subseteq Ref /\ Range(typeIdx) \subseteq Nat
      /\ unvisited \in Seq(Ref \cup {Phony}) /\ current \in Seq(Ref \cup {Phony})
      /\ at \in 1 .. Len(result) + 1 /\ Len(result) \in Nat
  BY DEF BundleTypeOK
<1>p. ASSUME Working, PopNext
      PROVE  unvisited' \in Seq(Ref \cup {Phony}) /\ current' \in Seq(Ref \cup {Phony})
  BY <1>p, <1>t, NextRefIs DEF PopNext
<1>1. CASE SkipRef
  BY <1>1, <1>p DEF SkipRef, BundleTypeOK, args, receiver
<1>2. CASE ReachLimit
  <2>1. NextRef \in Ref
    <3>1. Working /\ ~Skipped(NextRef)
      BY <1>2 DEF ReachLimit
    <3> QED BY <3>1, NextRefIs DEF Skipped
  <2>2. TargetIdx(NextRef) \in Nat /\ Inserted(NextRef) \in Seq(Ref)
    BY <2>1, <1>t, InsertedIs
  <2>3. DOMAIN Indexed(NextRef) \subseteq Ref /\ Range(Indexed(NextRef)) \subseteq Nat
    BY <2>1, <2>2, <1>t DEF Indexed, Range
  <2>4. unvisited' \in Seq(Ref \cup {Phony}) /\ current' \in Seq(Ref \cup {Phony})
    BY <1>2, <1>p DEF ReachLimit
  <2> QED BY <1>2, <2>2, <2>3, <2>4 DEF ReachLimit, BundleTypeOK, args, receiver
<1>3. CASE Finish
  <2>1. result' \in Seq(Ref) /\ Len(result) <= Len(result')
    <3>1. Reverse(block) \in Seq(Ref) /\ Len(Reverse(block)) \in Nat
      BY <1>t, ReverseIs
    <3>2. /\ result \o Reverse(block) \in Seq(Ref)
          /\ Len(result \o Reverse(block)) = Len(result) + Len(Reverse(block))
      BY <3>1, <1>t, ConcatProperties
    <3>3. result' = result \/ result' = result \o Reverse(block)
      BY <1>3 DEF Finish
    <3>4. Len(result) <= Len(result \o Reverse(block))
      BY <3>1, <3>2, <1>t
    <3>5. Len(result) <= Len(result)
      BY <1>t
    <3> QED BY <3>2, <3>3, <3>4, <3>5, <1>t
  <2>2. at' \in 1 .. Len(result') + 1
    <3>1. at' = at /\ Len(result') \in Nat
      BY <1>3, <2>1 DEF Finish, receiver
    <3> QED BY <3>1, <2>1, <1>t
  <2> QED BY <1>3, <2>1, <2>2 DEF Finish, BundleTypeOK, args, receiver
<1>4. CASE TooManyRefs
  BY <1>4 DEF TooManyRefs, BundleTypeOK, args, receiver
<1>5. CASE RegisterCapsule
  <2>1. result[at] \in Ref /\ at + 1 \in 1 .. Len(result) + 1
    <3>1. at \in 1 .. Len(result)
      BY <1>5, <1>t DEF RegisterCapsule
    <3> QED BY <3>1, <1>t, ElementOfSeq
  <2> QED BY <1>5, <2>1 DEF RegisterCapsule, BundleTypeOK, args, sending
<1>6. CASE RegisterFails
  BY <1>6 DEF RegisterFails, BundleTypeOK, args, sending, receiver
<1>7. CASE RegisterAssociations
  BY <1>7 DEF RegisterAssociations, BundleTypeOK, args, sending, receiver
<1>8. CASE SendNext
  <2>1. roots' \in Seq(Ref \cup {Phony}) /\ option.refs \in Nat
    BY <1>8, BundlerAssumption, ArgsAre DEF SendNext
  <2>2. /\ <<>> \in Seq(Ref) /\ <<>> \in Seq(Ref \cup {Phony}) /\ Len(<<>>) = 0
        /\ DOMAIN <<>> = {} /\ Range(<<>>) = {}
    BY DEF Range
  <2>3. count' \in 0 .. option'.refs + 1 /\ at' \in 1 .. Len(result') + 1
    BY <1>8, <2>1, <2>2 DEF SendNext
  <2>4. sent' \in 0 .. Messages
    BY <1>8, BundlerAssumption DEF SendNext, BundleTypeOK
  <2> QED BY <1>8, <2>1, <2>2, <2>3, <2>4 DEF SendNext, BundleTypeOK
<1>9. CASE UNCHANGED bundleVars
  BY <1>9 DEF bundleVars, BundleTypeOK, args, receiver
<1> QED BY <1>1, <1>2, <1>3, <1>4, <1>5, <1>6, <1>7, <1>8, <1>9

\* What TakeRef keeps: a ref is taken once, and what it refers to is taken or waits.
LEMMA TakeKeeps ==
    ASSUME BundleInv, TakeRef
    PROVE  CollectInv'
<1> DEFINE r == NextRef
           full == current' = <<>>
<1>1. BundleTypeOK /\ TakenInv /\ ClosedInv /\ NeededInv /\ TypedInv /\ SizeInv
  BY DEF BundleInv, CollectInv
<1>2. /\ r \in Ref /\ r \in Pending /\ r \notin visitedRefs /\ r \notin option.missing
      /\ Pending \subseteq Pending' \cup {r} /\ Pending' \subseteq Pending \cup Refers(r, graph.assoc)
      /\ Refers(r, graph.assoc) \subseteq {Phony} \cup visitedRefs' \cup Pending'
      /\ graph.type[r] \in {Phony} \cup visitedRefs' \cup Range(current')
      /\ Range(current) \subseteq Range(current') \cup {r}
      /\ full => Range(current') = {} /\ result' = result \o Reverse(Inserted(r)) /\ block' = <<>>
      /\ ~full => result' = result /\ block' = Inserted(r)
  BY <1>1, TakeIs
<1>3. /\ ~Over(Inserted(r)) /\ visitedRefs' = visitedRefs \cup {r} /\ asss' = asss \cup Associations(r)
      /\ graph' = graph /\ roots' = roots /\ seen' = seen /\ option' = option
      /\ status' = status /\ status = "loop"
  BY DEF TakeRef, Working, args
<1> HIDE DEF r, full
<1>4. /\ block \in Seq(Ref) /\ result \in Seq(Ref) /\ Range(typeIdx) \subseteq Nat /\ seen \subseteq Ref
  BY <1>1 DEF BundleTypeOK
<1>5. /\ Inserted(r) \in Seq(Ref) /\ Range(Inserted(r)) = Range(block) \cup {r}
      /\ IsInjective(block) /\ r \notin Range(block) => IsInjective(Inserted(r))
  BY <1>2, <1>4, InsertedIs
<1>6. /\ Reverse(Inserted(r)) \in Seq(Ref) /\ Range(Reverse(Inserted(r))) = Range(block) \cup {r}
      /\ IsInjective(Inserted(r)) => IsInjective(Reverse(Inserted(r)))
      /\ SizeOf(Reverse(Inserted(r))) = SizeOf(Inserted(r))
  BY <1>5, ReverseIs
<1>7. /\ IsInjective(result) /\ Bundled \cap seen = {} /\ IsInjective(block)
      /\ Range(block) \cap (seen \cup Bundled) = {} /\ visitedRefs = seen \cup Bundled \cup Range(block)
  BY <1>1, <1>3 DEF TakenInv
<1>8. r \notin seen /\ r \notin Bundled /\ r \notin Range(block)
  BY <1>2, <1>7
<1>9. IsInjective(Inserted(r)) /\ IsInjective(Reverse(Inserted(r)))
  BY <1>5, <1>6, <1>7, <1>8
<1>10. /\ full => Bundled' = Bundled \cup Range(block) \cup {r} /\ Range(block') = {}
       /\ ~full => Bundled' = Bundled /\ Range(block') = Range(block) \cup {r}
  <2>1. CASE full
    <3>1. Range(result \o Reverse(Inserted(r))) = Range(result) \cup Range(Reverse(Inserted(r)))
      BY <1>4, <1>6, RangeConcatenation
    <3>2. Range(<<>>) = {}
      BY DEF Range
    <3> QED BY <2>1, <3>1, <3>2, <1>2, <1>6 DEF Bundled
  <2>2. CASE ~full
    BY <2>2, <1>2, <1>5 DEF Bundled
  <2> QED BY <2>1, <2>2
<1>11. IsInjective(result') /\ IsInjective(block')
  <2>1. CASE full
    <3>1. IsInjective(<<>>)
      BY DEF IsInjective
    <3>2. IsInjective(result \o Reverse(Inserted(r)))
      <4>1. Range(result) \cap Range(Reverse(Inserted(r))) = {}
        BY <1>6, <1>7, <1>8 DEF Bundled
      <4> QED BY <4>1, <1>4, <1>6, <1>7, <1>9, ConcatInjective
    <3> QED BY <2>1, <3>1, <3>2, <1>2
  <2>2. CASE ~full
    BY <2>2, <1>2, <1>7, <1>9
  <2> QED BY <2>1, <2>2
<1>12. TakenInv'
  <2>1. Bundled' \cap seen = {} /\ Range(block') \cap (seen \cup Bundled') = {}
        /\ visitedRefs' = seen \cup Bundled' \cup Range(block')
    <3>1. CASE full
      BY <3>1, <1>3, <1>7, <1>8, <1>10
    <3>2. CASE ~full
      BY <3>2, <1>3, <1>7, <1>8, <1>10
    <3> QED BY <3>1, <3>2
  <2> QED BY <2>1, <1>11, <1>3 DEF TakenInv, Ready
<1>13. ClosedInv'
  <2>1. Settled' = Settled \cup {r}
    BY <1>3 DEF Settled
  <2>2. Settled \cup Pending \subseteq Settled' \cup Pending'
    BY <2>1, <1>2
  <2>3. Refers(r, graph.assoc) \subseteq Settled' \cup Pending'
    BY <2>1, <1>2, <1>3 DEF Settled
  <2>4. /\ ToSet(roots) \subseteq Settled \cup Pending
        /\ \A x \in visitedRefs \ seen : Refers(x, graph.assoc) \subseteq Settled \cup Pending
        /\ \A x \in visitedRefs \ seen : Associations(x) \subseteq asss
    BY <1>1, <1>3 DEF ClosedInv
  <2>5. option.size = 0 => \A x \in seen :
            {graph.type[x]} \cup ToSet(graph.deps[x]) \subseteq {Phony} \cup seen \cup option.missing
    BY <1>1 DEF ClosedInv
  <2>6. \A x \in visitedRefs' \ seen : Refers(x, graph.assoc) \subseteq Settled' \cup Pending'
    BY <2>2, <2>3, <2>4, <1>3
  <2>7. \A x \in visitedRefs' \ seen : Associations(x) \subseteq asss'
    BY <2>4, <1>3
  <2>8. \A x : Refers(x, graph.assoc)' = Refers(x, graph.assoc) /\ Associations(x)' = Associations(x)
    BY <1>3 DEF Refers, Associations
  <2> QED BY <2>2, <2>4, <2>5, <2>6, <2>7, <2>8, <1>3 DEF ClosedInv, Ready
<1>14. NeededInv'
  <2> SUFFICES ASSUME NEW X, NeedClosed(X)'
               PROVE  Bundled' \subseteq X /\ Range(block') \subseteq X /\ New(Pending', seen) \subseteq X
    BY <1>3 DEF NeededInv, New
  <2>1. NeedClosed(X)
    BY <1>3 DEF NeedClosed, New, Refers
  <2>2. Bundled \subseteq X /\ Range(block) \subseteq X /\ New(Pending, seen) \subseteq X
    BY <2>1, <1>1, <1>3 DEF NeededInv
  <2>3. r \in X
    BY <2>2, <1>2, <1>8, BundlerAssumption DEF New
  <2>4. New(Refers(r, graph.assoc), seen) \subseteq X
    BY <2>1, <2>3 DEF NeedClosed
  <2>5. New(Pending', seen) \subseteq X
    BY <2>2, <2>4, <1>2 DEF New
  <2>6. Bundled' \subseteq X /\ Range(block') \subseteq X
    <3>1. CASE full
      BY <3>1, <1>10, <2>2, <2>3
    <3>2. CASE ~full
      BY <3>2, <1>10, <2>2, <2>3
    <3> QED BY <3>1, <3>2
  <2> QED BY <2>5, <2>6
<1>15. TypedInv'
  <2>1. /\ \A x \in Bundled : graph.type[x] \in {Phony} \cup seen \cup option.missing \cup Bundled
        /\ \A x \in Range(block) : graph.type[x] \in Settled \cup Range(current)
    BY <1>1, <1>3 DEF TypedInv
  <2>2. Settled' = Settled \cup {r}
    BY <1>3 DEF Settled
  <2>3. \A x \in Range(block) \cup {r} : graph.type[x] \in Settled' \cup Range(current')
    BY <2>1, <2>2, <1>2, <1>3 DEF Settled
  <2>4. CASE full
    <3>1. visitedRefs' = seen \cup Bundled'
      BY <2>4, <1>3, <1>7, <1>10
    <3>2. Settled' \cup Range(current') = {Phony} \cup seen \cup option.missing \cup Bundled'
      BY <2>4, <3>1, <1>2, <1>3 DEF Settled
    <3>3. \A x \in Bundled' : graph.type[x] \in {Phony} \cup seen \cup option.missing \cup Bundled'
      BY <2>4, <2>1, <2>3, <3>2, <1>10
    <3> QED BY <2>4, <3>3, <1>3, <1>10 DEF TypedInv
  <2>5. CASE ~full
    BY <2>5, <2>1, <2>3, <1>3, <1>10 DEF TypedInv
  <2> QED BY <2>4, <2>5
<1>16. SizeInv'
  <2>1. /\ SizeOf(Inserted(r)) \in Nat /\ SizeOf(result) \in Nat
        /\ SizeOf(result \o Reverse(Inserted(r))) = SizeOf(result) + SizeOf(Inserted(r))
    BY <1>4, <1>5, <1>6, SizeOfConcat
  <2>2. option.size \in Nat
    BY <1>1, ArgsAre
  <2>3. option.size # 0 => SizeOf(result) <= option.size /\ ~(SizeOf(result) + SizeOf(Inserted(r)) > option.size)
    BY <1>1, <1>3 DEF SizeInv, Over
  <2>4. CASE full
    <3>1. SizeOf(<<>>) = 0
      BY EmptySize
    <3>2. option.size # 0 => /\ SizeOf(result') <= option.size
                             /\ ~(SizeOf(result') + SizeOf(block') > option.size)
      <4>1. SizeOf(result') = SizeOf(result) + SizeOf(Inserted(r)) /\ SizeOf(block') = 0
        BY <2>1, <2>4, <3>1, <1>2
      <4> QED BY <4>1, <2>1, <2>2, <2>3
    <3> QED BY <3>2, <1>3 DEF SizeInv, Over
  <2>5. CASE ~full
    BY <2>5, <2>3, <2>1, <2>2, <1>2, <1>3 DEF SizeInv, Over
  <2> QED BY <2>4, <2>5
<1> QED BY <1>12, <1>13, <1>14, <1>15, <1>16 DEF CollectInv

\* What the other steps of the collection keep.
LEMMA CollectKeeps ==
    ASSUME BundleInv, SkipRef \/ ReachLimit \/ Finish \/ TooManyRefs
    PROVE  CollectInv'
<1>1. BundleTypeOK /\ TakenInv /\ ClosedInv /\ NeededInv /\ TypedInv /\ SizeInv
  BY DEF BundleInv, CollectInv
<1>2. /\ graph' = graph /\ roots' = roots /\ seen' = seen /\ option' = option
      /\ visitedRefs' = visitedRefs /\ asss' = asss
  BY DEF SkipRef, ReachLimit, Finish, TooManyRefs, args
<1>3. /\ block \in Seq(Ref) /\ result \in Seq(Ref) /\ Range(typeIdx) \subseteq Nat /\ seen \subseteq Ref
      /\ visitedRefs \subseteq Ref
  BY <1>1 DEF BundleTypeOK
<1>4. /\ Settled' = Settled /\ \A X : NeedClosed(X)' = NeedClosed(X) /\ New(X, seen)' = New(X, seen)
      /\ \A r : Refers(r, graph.assoc)' = Refers(r, graph.assoc) /\ Associations(r)' = Associations(r)
  <2>1. Settled' = Settled
    BY <1>2 DEF Settled
  <2>2. \A X : New(X, seen)' = New(X, seen)
    BY <1>2 DEF New
  <2>3. \A r : Refers(r, graph.assoc)' = Refers(r, graph.assoc) /\ Associations(r)' = Associations(r)
    BY <1>2 DEF Refers, Associations
  <2>4. \A X : NeedClosed(X)' = NeedClosed(X)
    BY <1>2, <2>2 DEF NeedClosed, New, Refers
  <2> QED BY <2>1, <2>2, <2>3, <2>4
<1>5. CASE SkipRef
  <2>1. /\ Working /\ Skipped(NextRef) /\ PopNext /\ result' = result /\ block' = block /\ status' = status
        /\ status = "loop"
    BY <1>5 DEF SkipRef, Working
  <2>2. NextRef \in Settled
    BY <2>1 DEF Skipped, Settled
  <2>3. Range(current) \subseteq Range(current') \cup {NextRef} /\ Pending \subseteq Pending' \cup {NextRef}
        /\ Pending' \subseteq Pending
    BY <2>1, <1>1, NextRefIs DEF PopNext, Pending
  <2>4. TakenInv'
    BY <1>1, <1>2, <2>1 DEF TakenInv, Bundled, Ready
  <2>5. ClosedInv'
    <3>1. Settled \cup Pending \subseteq Settled' \cup Pending'
      BY <2>2, <2>3, <1>4
    <3> QED BY <3>1, <1>1, <1>2, <1>4, <2>1 DEF ClosedInv, Ready
  <2>6. NeededInv'
    BY <1>1, <1>2, <1>4, <2>1, <2>3 DEF NeededInv, Bundled, New
  <2>7. TypedInv'
    BY <1>1, <1>2, <1>4, <2>1, <2>2, <2>3 DEF TypedInv, Bundled
  <2>8. SizeInv'
    BY <1>1, <1>2, <2>1 DEF SizeInv, Over
  <2> QED BY <2>4, <2>5, <2>6, <2>7, <2>8 DEF CollectInv
<1>6. CASE ReachLimit
  <2> DEFINE r == NextRef
  <2>1. /\ Working /\ ~Skipped(r) /\ result' = result /\ block' = Inserted(r) /\ status' = "limit"
        /\ status = "loop" /\ Over(Inserted(r))
    BY <1>6 DEF ReachLimit, Working
  <2>2. r \in Ref
    BY <2>1, <1>1, NextRefIs DEF Skipped
  <2> HIDE DEF r
  <2>3. Range(block') = Range(block) \cup {r}
    BY <2>1, <2>2, <1>3, InsertedIs
  <2>4. TakenInv'
    BY <1>1, <1>2, <2>1, <2>3 DEF TakenInv, Bundled, Ready
  <2>5. ClosedInv'
    BY <1>1, <1>2, <1>4, <2>1 DEF ClosedInv, Ready
  <2>6. NeededInv'
    BY <1>1, <1>4, <2>1 DEF NeededInv, Bundled
  <2>7. TypedInv'
    BY <1>1, <1>2, <2>1 DEF TypedInv, Bundled
  <2>8. SizeInv'
    BY <1>1, <1>2, <2>1 DEF SizeInv, Over
  <2> QED BY <2>4, <2>5, <2>6, <2>7, <2>8 DEF CollectInv
<1>7. CASE Finish
  <2>1. /\ status' = "done" /\ block' = block
        /\ result' = IF Over(block) THEN result ELSE result \o Reverse(block)
        /\ \/ status = "loop" /\ current = <<>> /\ unvisited = <<>>
           \/ status = "limit"
    BY <1>7 DEF Finish
  <2>2. Reverse(block) \in Seq(Ref) /\ Range(Reverse(block)) = Range(block)
        /\ (IsInjective(block) => IsInjective(Reverse(block)))
        /\ SizeOf(Reverse(block)) = SizeOf(block)
    BY <1>3, ReverseIs
  <2>3. CASE status = "loop"
    <3>1. /\ current = <<>> /\ unvisited = <<>> /\ result' = result \o Reverse(block)
      BY <2>1, <2>3, <1>1 DEF SizeInv
    <3>2. Pending = {} /\ Range(current) = {}
      BY <3>1 DEF Pending, Range
    <3>3. /\ IsInjective(result) /\ Bundled \cap seen = {} /\ IsInjective(block)
          /\ Range(block) \cap (seen \cup Bundled) = {} /\ visitedRefs = seen \cup Bundled \cup Range(block)
      BY <2>3, <1>1 DEF TakenInv
    <3>4. Bundled' = Bundled \cup Range(block)
      BY <3>1, <2>2, <1>3, RangeConcatenation DEF Bundled
    <3>5. IsInjective(result')
      BY <3>1, <3>3, <2>2, <1>3, ConcatInjective DEF Bundled
    <3>6. TakenInv'
      BY <3>3, <3>4, <3>5, <1>2, <2>1 DEF TakenInv, Ready
    <3>7. ClosedInv'
      BY <3>2, <2>1, <2>3, <1>1, <1>2, <1>4 DEF ClosedInv, Ready
    <3>8. NeededInv'
      BY <3>4, <2>1, <2>3, <1>1, <1>4 DEF NeededInv
    <3>9. TypedInv'
      BY <3>2, <3>3, <3>4, <2>1, <2>3, <1>1, <1>2 DEF TypedInv, Settled
    <3>10. SizeInv'
      <4>1. SizeOf(result) \in Nat /\ SizeOf(result') = SizeOf(result) + SizeOf(block)
        BY <3>1, <2>2, <1>3, SizeOfConcat
      <4>2. SizeOf(block) \in Nat /\ option.size \in Nat
        BY <1>1, <1>3, SizeOfConcat, ArgsAre
      <4>3. ~Over(block)
        BY <2>3, <1>1 DEF SizeInv
      <4> QED BY <4>1, <4>2, <4>3, <2>1, <1>2 DEF SizeInv, Over
    <3> QED BY <3>6, <3>7, <3>8, <3>9, <3>10 DEF CollectInv
  <2>4. CASE status = "limit"
    <3>1. Over(block) /\ result' = result
      BY <2>1, <2>4, <1>1 DEF SizeInv
    <3>2. option.size # 0
      BY <3>1 DEF Over
    <3>3. TakenInv'
      BY <3>1, <3>2, <2>1, <2>4, <1>1, <1>2 DEF TakenInv, Bundled, Ready
    <3>4. ClosedInv'
      BY <3>2, <2>1, <2>4, <1>1, <1>2, <1>4 DEF ClosedInv, Ready
    <3>5. NeededInv'
      BY <3>1, <2>1, <1>1, <1>4 DEF NeededInv, Bundled
    <3>6. TypedInv'
      BY <3>1, <2>1, <1>1, <1>2 DEF TypedInv, Bundled
    <3>7. SizeInv'
      BY <3>1, <2>1, <1>1, <1>2 DEF SizeInv
    <3> QED BY <3>3, <3>4, <3>5, <3>6, <3>7 DEF CollectInv
  <2> QED BY <2>1, <2>3, <2>4
<1>8. CASE TooManyRefs
  <2>1. status' = "error" /\ result' = result /\ block' = block /\ status = "loop"
    BY <1>8 DEF TooManyRefs
  <2>2. TakenInv'
    BY <2>1, <1>1, <1>2 DEF TakenInv, Bundled, Ready
  <2>3. ClosedInv'
    BY <2>1, <1>1, <1>2, <1>4 DEF ClosedInv, Ready
  <2>4. NeededInv'
    BY <2>1, <1>1, <1>4 DEF NeededInv, Bundled
  <2>5. TypedInv'
    BY <2>1, <1>1, <1>2 DEF TypedInv, Bundled
  <2>6. SizeInv'
    BY <2>1, <1>1, <1>2 DEF SizeInv
  <2> QED BY <2>2, <2>3, <2>4, <2>5, <2>6 DEF CollectInv
<1> QED BY <1>5, <1>6, <1>7, <1>8

\* While a receiver is at work on a bundle, nothing of it changes.
LEMMA ReceiverKeeps ==
    ASSUME BundleInv, UNCHANGED <<args, sending>>,
           (status \in Ready /\ status' \in Ready) \/ status' = status
    PROVE  CollectInv'
<1>1. TakenInv /\ ClosedInv /\ NeededInv /\ TypedInv /\ SizeInv
  BY DEF BundleInv, CollectInv
<1>2. /\ graph' = graph /\ roots' = roots /\ seen' = seen /\ option' = option
      /\ visitedRefs' = visitedRefs /\ asss' = asss /\ result' = result /\ block' = block
      /\ unvisited' = unvisited /\ current' = current
      /\ (status \in {"done", "received", "raised"} /\ status' \in {"done", "received", "raised"}) \/ status' = status
  BY DEF args, sending, Ready
<1>3. TakenInv'
  BY <1>1, <1>2 DEF TakenInv, Bundled, Ready
<1>4. ClosedInv'
  BY <1>1, <1>2 DEF ClosedInv, Ready, Settled, Pending, Refers, Associations
<1>5. NeededInv'
  BY <1>1, <1>2 DEF NeededInv, NeedClosed, Bundled, New, Pending, Refers
<1>6. TypedInv'
  BY <1>1, <1>2 DEF TypedInv, Bundled, Settled
<1>7. SizeInv'
  BY <1>1, <1>2 DEF SizeInv, Over
<1> QED BY <1>3, <1>4, <1>5, <1>6, <1>7 DEF CollectInv

\* A collection begins: nothing is taken, and the roots wait.
Begun ==
    /\ result = <<>> /\ block = <<>> /\ unvisited = roots /\ current = <<>>
    /\ visitedRefs = seen /\ status = "loop"

\* The invariant holds when it does.
LEMMA BegunKeeps ==
    ASSUME BundleTypeOK, Begun,
           option.size = 0 => \A r \in seen :
               {graph.type[r]} \cup ToSet(graph.deps[r]) \subseteq {Phony} \cup seen \cup option.missing
    PROVE  CollectInv
<1>1. Bundled = {} /\ Range(block) = {} /\ Range(current) = {} /\ IsInjective(result) /\ IsInjective(block)
  BY DEF Begun, Bundled, Range, IsInjective
<1>2. Range(unvisited) = ToSet(roots) /\ Pending = ToSet(roots)
  BY <1>1, ArgsAre DEF Begun, Pending
<1>3. TakenInv
  BY <1>1 DEF TakenInv, Begun, Ready
<1>4. ClosedInv
  BY <1>2 DEF ClosedInv, Begun, Ready
<1>5. NeededInv
  BY <1>1, <1>2 DEF NeededInv, NeedClosed
<1>6. TypedInv
  BY <1>1 DEF TypedInv, Begun
<1>7. SizeInv
  <2>1. SizeOf(<<>>) = 0 /\ option.size \in Nat
    BY EmptySize, ArgsAre
  <2> QED BY <2>1 DEF SizeInv, Over, Begun
<1> QED BY <1>3, <1>4, <1>5, <1>6, <1>7 DEF CollectInv

\* It holds when a next message begins, as what was seen is closed then.
LEMMA SendKeeps ==
    ASSUME BundleInv, SendNext
    PROVE  CollectInv'
<1>1. /\ result' = <<>> /\ block' = <<>> /\ unvisited' = roots' /\ current' = <<>>
      /\ visitedRefs' = visitedRefs /\ seen' = visitedRefs /\ status' = "loop" /\ asss' = {}
      /\ graph' = graph /\ option' = option /\ status = "received"
  BY DEF SendNext
<1>2. BundleTypeOK /\ TakenInv /\ ClosedInv
  BY DEF BundleInv, CollectInv
<1>3. /\ Bundled' = {} /\ Range(block') = {} /\ Range(current') = {}
      /\ IsInjective(result') /\ IsInjective(block')
  BY <1>1 DEF Bundled, Range, IsInjective
<1>4. Range(unvisited') = ToSet(roots') /\ Pending' = ToSet(roots')
  BY <1>1, <1>3 DEF Pending, ToSet, Range
<1>5. option.size = 0 => \A r \in visitedRefs :
          {graph.type[r]} \cup ToSet(graph.deps[r]) \subseteq {Phony} \cup visitedRefs \cup option.missing
  <2> SUFFICES ASSUME option.size = 0, NEW r \in visitedRefs
               PROVE  {graph.type[r]} \cup ToSet(graph.deps[r]) \subseteq {Phony} \cup visitedRefs \cup option.missing
    OBVIOUS
  <2>1. CASE r \in seen
    <3>1. seen \subseteq visitedRefs
      BY <1>1, <1>2 DEF TakenInv
    <3> QED BY <2>1, <3>1, <1>2 DEF ClosedInv
  <2>2. CASE r \notin seen
    <3>1. Refers(r, graph.assoc) \subseteq {Phony} \cup visitedRefs \cup option.missing
      BY <2>2, <1>1, <1>2 DEF ClosedInv, Ready, Settled
    <3> QED BY <3>1 DEF Refers
  <2> QED BY <2>1, <2>2
<1>6. TakenInv'
  BY <1>1, <1>3 DEF TakenInv, Ready
<1>7. ClosedInv'
  BY <1>1, <1>4, <1>5 DEF ClosedInv, Ready
<1>8. NeededInv'
  BY <1>3, <1>4 DEF NeededInv, NeedClosed
<1>9. TypedInv'
  BY <1>1, <1>3 DEF TypedInv
<1>10. SizeInv'
  <2>1. SizeOf(<<>>) = 0 /\ option.size \in Nat
    BY <1>2, EmptySize, ArgsAre
  <2> QED BY <2>1, <1>1 DEF SizeInv, Over
<1> QED BY <1>6, <1>7, <1>8, <1>9, <1>10 DEF CollectInv

\* The associations that are listed and what they refer to, when all is sent.
LEMMA ListedAre ==
    ASSUME BundleInv, status \in Ready
    PROVE  /\ Listed \subseteq visitedRefs
           /\ option.size = 0 => visitedRefs = seen \cup Bundled
           /\ option.size = 0 /\ option.missing = {} =>
                UNION {ToSet(graph.deps[a]) : a \in Listed} \subseteq visitedRefs
<1>1. BundleTypeOK /\ TakenInv /\ ClosedInv
  BY DEF BundleInv, CollectInv
<1>2. Listed \subseteq visitedRefs
  BY DEF Listed
<1>3. option.size = 0 => visitedRefs = seen \cup Bundled
  BY <1>1 DEF TakenInv
<1>4. ASSUME option.size = 0, option.missing = {}, NEW a \in Listed
      PROVE  ToSet(graph.deps[a]) \subseteq visitedRefs
  <2>1. a \in Ref /\ a \in visitedRefs
    BY <1>1, <1>2 DEF BundleTypeOK
  <2>2. ToSet(graph.deps[a]) \subseteq Ref /\ Phony \notin Ref
    BY <2>1, <1>1, ArgsAre, BundlerAssumption
  <2>3. ToSet(graph.deps[a]) \subseteq {Phony} \cup visitedRefs
    <3>1. CASE a \in seen
      BY <3>1, <1>1, <1>3, <1>4 DEF ClosedInv
    <3>2. CASE a \notin seen
      <4>1. Refers(a, graph.assoc) \subseteq Settled
        BY <3>2, <2>1, <1>1, <1>4 DEF ClosedInv
      <4> QED BY <4>1, <1>4 DEF Refers, Settled
    <3> QED BY <3>1, <3>2
  <2> QED BY <2>2, <2>3
<1> QED BY <1>2, <1>3, <1>4

\* What the receiver knows is kept by the steps of the collection.
LEMMA CollectKnown ==
    ASSUME BundleInv, SkipRef \/ ReachLimit \/ TakeRef \/ Finish \/ TooManyRefs
    PROVE  KnownInv'
<1>1. /\ status \in {"loop", "limit"} /\ status' \in {"loop", "limit", "done", "error"}
      /\ option' = option /\ seen' = seen /\ known' = known /\ at' = at
  BY DEF SkipRef, ReachLimit, TakeRef, Finish, TooManyRefs, Working, args, receiver
<1>2. at = 1 /\ (option.size = 0 => known = seen \cup Registered)
  BY <1>1 DEF BundleInv, KnownInv
<1>3. Registered = {} /\ Registered' = {}
  BY <1>1, <1>2 DEF Registered
<1> QED BY <1>1, <1>2, <1>3 DEF KnownInv

\* What the receiver knows is what it has registered: it fails for a type that was seen
\* and not sent, or for an association that lacks something.
LEMMA ReceiverKnown ==
    ASSUME BundleInv, \/ RegisterCapsule \/ RegisterFails \/ RegisterAssociations \/ SendNext
                      \/ UNCHANGED bundleVars
    PROVE  KnownInv'
<1>1. BundleTypeOK /\ TakenInv /\ ClosedInv /\ KnownInv
  BY DEF BundleInv, CollectInv
<1>2. /\ at \in 1 .. Len(result) + 1 /\ result \in Seq(Ref)
      /\ Len(result) \in Nat /\ DOMAIN result = 1 .. Len(result)
  BY <1>1 DEF BundleTypeOK
<1>3. ASSUME at = Len(result) + 1 PROVE Registered = Bundled
  BY <1>2, <1>3 DEF Registered, Bundled, Range
<1>4. CASE RegisterCapsule
  <2>1. /\ status = "done" /\ status' = "done" /\ at <= Len(result) /\ at' = at + 1
        /\ known' = known \cup {result[at]} /\ result' = result /\ seen' = seen /\ option' = option
    BY <1>4 DEF RegisterCapsule, args, sending
  <2>2. Registered' = Registered \cup {result[at]}
    <3>1. 1 .. at' - 1 = (1 .. at - 1) \cup {at}
      BY <2>1, <1>2
    <3> QED BY <3>1, <2>1 DEF Registered
  <2> QED BY <2>1, <2>2, <1>1 DEF KnownInv
<1>5. CASE RegisterFails
  <2>1. /\ status = "done" /\ status' = "raised" /\ at <= Len(result) /\ ~Decodable(result[at])
        /\ UNCHANGED <<args, sending, receiver>>
    BY <1>5 DEF RegisterFails
  <2>2. ASSUME TypesFirst, option.missing = {}
        PROVE  ~(visitedRefs \cup UNION {ToSet(graph.deps[a]) : a \in Listed} \subseteq known \cup Bundled)
    <3>1. at \in DOMAIN result
      BY <2>1, <1>2
    <3>2. PICK t \in TypeClosure(graph, result[at]) : t \notin known
      BY <2>1 DEF Decodable
    <3>3. t \in seen \/ \E j \in 1 .. at - 1 : result[j] = t
      BY <2>2, <3>1, <3>2 DEF TypesFirst
    <3>4. t \in seen
      BY <3>2, <3>3, <1>1 DEF KnownInv, Registered
    <3>5. t \in visitedRefs /\ t \notin Bundled
      BY <3>4, <2>1, <1>1 DEF TakenInv
    <3> QED BY <3>2, <3>5
  <2>3. TypesFirst' = TypesFirst
    BY <2>1 DEF TypesFirst, args, sending
  <2>4. Registered' = Registered
    BY <2>1 DEF Registered, sending, receiver
  <2> QED BY <2>1, <2>2, <2>3, <2>4, <1>1 DEF KnownInv, args, sending, receiver, Bundled, Listed
<1>6. CASE RegisterAssociations
  <2>1. /\ status = "done" /\ at > Len(result) /\ UNCHANGED <<args, sending, receiver>>
        /\ status' = IF \A a \in Listed : Summonable(a) THEN "received" ELSE "raised"
    BY <1>6 DEF RegisterAssociations
  <2>2. at = Len(result) + 1
    BY <2>1, <1>2
  <2>3. Bundled \subseteq known
    BY <2>2, <1>1, <1>3 DEF KnownInv
  <2>4. ASSUME status' = "raised"
        PROVE  ~(visitedRefs \cup UNION {ToSet(graph.deps[a]) : a \in Listed} \subseteq known \cup Bundled)
    <3>1. PICK a \in Listed : ~Summonable(a)
      BY <2>1, <2>4
    <3>2. PICK x \in {a} \cup ToSet(graph.deps[a]) : x \notin known
      BY <3>1 DEF Summonable
    <3>3. x \in visitedRefs \cup UNION {ToSet(graph.deps[b]) : b \in Listed}
      BY <3>2 DEF Listed
    <3> QED BY <3>2, <3>3, <2>3
  <2>5. Registered' = Registered
    BY <2>1 DEF Registered, sending, receiver
  <2> QED BY <2>1, <2>2, <2>4, <2>5, <1>1 DEF KnownInv, args, sending, receiver, Bundled, Listed
<1>7. CASE SendNext
  <2>1. /\ status = "received" /\ status' = "loop" /\ at' = 1 /\ seen' = visitedRefs /\ known' = known
        /\ option' = option
    BY <1>7 DEF SendNext
  <2>2. Registered' = {}
    BY <2>1 DEF Registered
  <2>3. option.size = 0 => known = visitedRefs
    <3>1. at = Len(result) + 1
      BY <2>1, <1>1 DEF KnownInv
    <3> QED BY <3>1, <2>1, <1>1, <1>3 DEF KnownInv, TakenInv, Ready
  <2> QED BY <2>1, <2>2, <2>3 DEF KnownInv
<1>8. CASE UNCHANGED bundleVars
  <2>1. TypesFirst' = TypesFirst
    BY <1>8 DEF TypesFirst, bundleVars, args
  <2>2. Registered' = Registered
    BY <1>8 DEF Registered, bundleVars, receiver
  <2> QED BY <1>1, <1>8, <2>1, <2>2 DEF KnownInv, bundleVars, args, receiver, Bundled, Listed
<1> QED BY <1>4, <1>5, <1>6, <1>7, <1>8

\* The invariant of the bundler and the receiver, for any refs, graphs, roots, sizes and limits.
THEOREM BundleInvariance == BundleSpec => []BundleInv
<1>1. BundleInit => BundleInv
  <2> SUFFICES ASSUME BundleInit PROVE BundleInv
    OBVIOUS
  <2>1. BundleTypeOK
    <3>1. /\ graph \in Graph /\ roots \in Roots /\ roots \in Seq(Ref \cup {Phony})
          /\ seen \in Seen /\ seen \subseteq Ref /\ option \in Options /\ option.refs \in Nat
      BY BundlerAssumption DEF BundleInit
    <3>2. /\ <<>> \in Seq(Ref) /\ <<>> \in Seq(Ref \cup {Phony}) /\ Len(<<>>) = 0
          /\ DOMAIN <<>> = {} /\ Range(<<>>) = {}
      BY DEF Range
    <3>3. count \in 0 .. option.refs + 1 /\ at \in 1 .. Len(result) + 1 /\ sent \in 0 .. Messages
      BY <3>1, <3>2, BundlerAssumption DEF BundleInit
    <3> QED BY <3>1, <3>2, <3>3 DEF BundleInit, BundleTypeOK
  <2>2. Begun
    BY DEF BundleInit, Begun
  <2>3. \A r \in seen :
            {graph.type[r]} \cup ToSet(graph.deps[r]) \subseteq {Phony} \cup seen \cup option.missing
    BY SeenAssumption DEF BundleInit
  <2>4. CollectInv
    BY <2>1, <2>2, <2>3, BegunKeeps
  <2>5. KnownInv
    <3>1. Registered = {}
      BY DEF BundleInit, Registered
    <3> QED BY <3>1 DEF BundleInit, KnownInv
  <2> QED BY <2>1, <2>4, <2>5 DEF BundleInv
<1>2. BundleInv /\ [BundleNext]_bundleVars => BundleInv'
  <2> SUFFICES ASSUME BundleInv, [BundleNext]_bundleVars PROVE BundleInv'
    OBVIOUS
  <2>1. BundleTypeOK
    BY DEF BundleInv
  <2>2. CASE TakeRef
    BY <2>1, <2>2, TakeTypes, TakeKeeps, CollectKnown DEF BundleInv
  <2>3. CASE SkipRef \/ ReachLimit \/ Finish \/ TooManyRefs
    BY <2>1, <2>3, OtherTypes, CollectKeeps, CollectKnown DEF BundleInv
  <2>4. CASE SendNext
    BY <2>1, <2>4, OtherTypes, SendKeeps, ReceiverKnown DEF BundleInv
  <2>5. CASE RegisterCapsule \/ RegisterFails \/ RegisterAssociations \/ UNCHANGED bundleVars
    <3>1. UNCHANGED <<args, sending>>
      BY <2>5 DEF RegisterCapsule, RegisterFails, RegisterAssociations, bundleVars, args, sending
    <3>2. (status \in Ready /\ status' \in Ready) \/ status' = status
      BY <2>5 DEF RegisterCapsule, RegisterFails, RegisterAssociations, bundleVars, Ready
    <3> QED BY <2>1, <2>5, <3>1, <3>2, OtherTypes, ReceiverKeeps, ReceiverKnown DEF BundleInv
  <2> QED BY <2>2, <2>3, <2>4, <2>5 DEF BundleNext
<1> QED BY <1>1, <1>2, PTL DEF BundleSpec

\* A bundle without a size limit has all that is needed and nothing else, once, and is
\* reported as seen; its receiver knows then what the roots refer to, or had a type too late.
THEOREM BundlesAreComplete == BundleSpec => []Complete
<1>1. BundleInv => Complete
  <2> SUFFICES ASSUME BundleInv PROVE Complete
    OBVIOUS
  <2>1. BundleTypeOK /\ TakenInv /\ ClosedInv /\ NeededInv /\ KnownInv
    BY DEF BundleInv, CollectInv
  <2>2. /\ ToSet(roots) \subseteq Ref \cup {Phony}
        /\ \A r \in Ref : Refers(r, graph.assoc) \subseteq Ref \cup {Phony}
    BY <2>1, ArgsAre
  <2>3. /\ at \in 1 .. Len(result) + 1 /\ DOMAIN result = 1 .. Len(result)
        /\ Bundled \subseteq Ref /\ visitedRefs \subseteq Ref
    BY <2>1, RangeOfSeq DEF BundleTypeOK, Bundled
  <2>4. ASSUME status = "received", option.size = 0 PROVE Referred \subseteq known
    <3> DEFINE none == [r \in Ref \cup {Phony} |-> {}]
    <3>1. known = visitedRefs
      <4>1. Registered = Bundled
        BY <2>1, <2>4, <2>3 DEF KnownInv, Registered, Bundled, Range
      <4> QED BY <4>1, <2>1, <2>4 DEF KnownInv, TakenInv, Ready
    <3>2. \A r \in Ref : Refers(r, none) = {graph.type[r]} \cup ToSet(graph.deps[r])
      <4>1. \A r \in Ref : graph.type[r] \in Ref \cup {Phony}
        BY <2>1, ArgsAre
      <4> QED BY <4>1 DEF Refers
    <3>3. \A r \in Ref : Refers(r, none) \subseteq Ref \cup {Phony}
      BY <3>2, <2>1, ArgsAre
    <3>4. New(ToSet(roots), {}) \subseteq visitedRefs
      BY <2>1, <2>4 DEF ClosedInv, Ready, Settled, New
    <3>5. ASSUME NEW r \in visitedRefs PROVE New(Refers(r, none), {}) \subseteq visitedRefs
      <4>1. r \in Ref /\ Refers(r, none) = {graph.type[r]} \cup ToSet(graph.deps[r])
        BY <3>2, <2>3
      <4>2. CASE r \in seen
        <5>1. seen \subseteq visitedRefs
          BY <2>1, <2>4 DEF TakenInv
        <5>2. {graph.type[r]} \cup ToSet(graph.deps[r]) \subseteq {Phony} \cup seen \cup option.missing
          BY <4>2, <2>1, <2>4 DEF ClosedInv
        <5> QED BY <4>1, <5>1, <5>2 DEF New
      <4>3. CASE r \notin seen
        <5>1. Refers(r, graph.assoc) \subseteq Settled
          BY <4>3, <2>1, <2>4 DEF ClosedInv, Ready
        <5>2. {graph.type[r]} \cup ToSet(graph.deps[r]) \subseteq Refers(r, graph.assoc)
          BY DEF Refers
        <5> QED BY <4>1, <5>1, <5>2 DEF New, Settled
      <4> QED BY <4>2, <4>3
    <3> HIDE DEF none
    <3>6. Reach({}, none) \subseteq visitedRefs
      BY <2>2, <3>3, <3>4, <3>5, ReachIs
    <3> QED BY <3>1, <3>6 DEF Referred, none
  <2>5. ASSUME status = "raised", option.size = 0, option.missing = {} PROVE ~TypesFirst
    <3>1. /\ visitedRefs = seen \cup Bundled
          /\ UNION {ToSet(graph.deps[a]) : a \in Listed} \subseteq visitedRefs
      BY <2>5, ListedAre DEF Ready
    <3>2. seen \subseteq known
      BY <2>1, <2>5 DEF KnownInv
    <3> QED BY <3>1, <3>2, <2>1, <2>5 DEF KnownInv
  <2>6. ASSUME status = "done", option.size = 0
        PROVE  /\ Bundled = Needed
               /\ \A r \in Bundled : Attached(r) \ option.missing \subseteq asss \cap visitedRefs
               /\ IsInjective(result)
               /\ visitedRefs = seen \cup Bundled
    <3>1. IsInjective(result) /\ Bundled \cap seen = {} /\ visitedRefs = seen \cup Bundled
      BY <2>1, <2>6 DEF TakenInv, Ready
    <3>2. /\ ToSet(roots) \subseteq Settled
          /\ \A r \in Bundled : Refers(r, graph.assoc) \subseteq Settled /\ Associations(r) \subseteq asss
      BY <3>1, <2>1, <2>6 DEF ClosedInv, Ready
    <3>3. /\ New(ToSet(roots), seen) \subseteq Bundled
          /\ \A r \in Bundled : New(Refers(r, graph.assoc), seen) \subseteq Bundled
      BY <3>1, <3>2 DEF New, Settled
    <3>4. Needed \subseteq Bundled
      BY <3>3, <2>2, ReachIs DEF Needed
    <3>5. NeedClosed(Needed)
      BY <2>2, ReachIs DEF Needed, NeedClosed
    <3>6. Bundled \subseteq Needed
      BY <3>5, <2>1 DEF NeededInv
    <3>7. ASSUME NEW r \in Bundled PROVE Attached(r) \ option.missing \subseteq asss \cap visitedRefs
      <4>1. r \in Ref /\ Phony \notin Ref
        BY <2>3, BundlerAssumption
      <4>2. /\ Attached(r) = Associations(r) /\ Associations(r) \subseteq Ref
            /\ Associations(r) \subseteq Refers(r, graph.assoc)
        BY <4>1, <2>1, ArgsAre
      <4> QED BY <4>1, <4>2, <3>2 DEF Settled
    <3> QED BY <3>1, <3>4, <3>6, <3>7
  <2> QED BY <2>1, <2>4, <2>5, <2>6 DEF Complete
<1> QED BY <1>1, BundleInvariance, PTL

\* A bundle keeps to the size limit, has only what is needed and each capsule with its
\* type; where types come first its receiver fails only for what was reported and not sent.
THEOREM BundlesAreWithinLimit == BundleSpec => []WithinLimit
<1>1. BundleInv => WithinLimit
  <2> SUFFICES ASSUME BundleInv PROVE WithinLimit
    OBVIOUS
  <2>1. BundleTypeOK /\ TakenInv /\ NeededInv /\ TypedInv /\ SizeInv /\ KnownInv
    BY DEF BundleInv, CollectInv
  <2>2. Bundled \subseteq Needed
    <3>1. /\ ToSet(roots) \subseteq Ref \cup {Phony}
          /\ \A r \in Ref : Refers(r, graph.assoc) \subseteq Ref \cup {Phony}
      BY <2>1, ArgsAre
    <3>2. NeedClosed(Needed)
      BY <3>1, ReachIs DEF Needed, NeedClosed
    <3> QED BY <3>2, <2>1 DEF NeededInv
  <2>3. status = "done" => visitedRefs \ (seen \cup Bundled) \subseteq Range(block)
    BY <2>1 DEF TakenInv
  <2>4. IsInjective(result) /\ (option.size # 0 => SizeOf(result) <= option.size)
        /\ \A r \in Bundled : graph.type[r] \in {Phony} \cup seen \cup option.missing \cup Bundled
    BY <2>1 DEF TakenInv, SizeInv, TypedInv
  <2> QED BY <2>1, <2>2, <2>3, <2>4 DEF WithinLimit, KnownInv
<1> QED BY <1>1, BundleInvariance, PTL

=============================================================================
