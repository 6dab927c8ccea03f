------------------------- MODULE CachedCodeRegistry -------------------------
(***************************************************************************)
(* boot/cached_code_registry.py over boot/code_registry.py: animate() turns *)
(* a piece into its actor, once.  The factory of a piece may animate other  *)
(* pieces first (the type of a field, the module of an attribute), so a     *)
(* thread is a stack of pieces being animated.  The cache is read without   *)
(* the lock, the factory runs without it, and only the final insertion      *)
(* takes it.  actor_to_piece() goes the other way; the registry of Python   *)
(* objects (boot/pyobj_registry.py) makes the piece of an object that it    *)
(* does not know, and puts both into the caches.                            *)
(***************************************************************************)
EXTENDS Naturals, Sequences

CONSTANTS
    Thread,
    Piece,
    Uses,           \* Uses[x]: the pieces the factory of x animates, in this order
    Object,         \* what factories return, up to ==
    Result,         \* Result[x]: what the factory of x returns; pieces may share it
    Existing,       \* objects that are there already: a module's attribute, a service
    ByValue,        \* objects with a hash and an == of their own: types, records
    Unhashable,     \* objects that are not Hashable: known by id() and kept
    Reconstructed   \* pieces that a reconstructor makes for an object

\* Pieces that use each other in a circle.
Circle(C) == \A x \in C : \E k \in DOMAIN Uses[x] : Uses[x][k] \in C

\* Reconstructors make the pieces of types, which compare by value and refer to each
\* other by hashes, and of attributes of modules that are animated.
ASSUME RegistryAssumption ==
    /\ "nobody" \notin Thread
    /\ Uses \in [Piece -> Seq(Piece)]
    /\ Result \in [Piece -> Object]
    /\ Existing \subseteq Object /\ ByValue \subseteq Object
    /\ Unhashable \subseteq Object \ ByValue
    /\ Reconstructed \subseteq {x \in Piece : Result[x] \in Existing \cup ByValue}
    /\ \A C \in SUBSET Piece : Circle(C) => C \cap Reconstructed = {}

VARIABLES
    stack,     \* stack[t]: the nested _animate calls of t, innermost first
    asking,    \* asking[t]: the pieces that nested actor_to_piece calls of t make
    got,       \* records [piece, actor]: what animate() returned to the program
    cache,     \* _cache: records [piece, actor, by], by the thread that stored it
    reverse,   \* _reverse_cache: records [key, piece]
    kept,      \* _actor_keep
    failed     \* records [thread, piece, by] of AssertionErrors raised by animate()

registryVars == <<stack, asking, got, cache, reverse, kept, failed>>

\* An actor is an object that is there for everybody, or a new one made by a thread
\* for a piece.  A frame is at the cache lookup (step 0), at the k-th piece its
\* factory uses, or at the insertion.
Actor == [by : Thread \cup {"nobody"}, of : Piece \cup Object]
Frame == [piece : Piece, step : Nat]
Made(t, x) == IF Result[x] \in Existing
                THEN [by |-> "nobody", of |-> Result[x]]
                ELSE [by |-> t, of |-> x]

\* The key of an actor in the reverse cache: equal objects have the same one.
\* The mutated form takes the id() of every actor.
IdOf(x, actor)  == actor
KeyOf(x, actor) == IF Result[x] \in ByValue THEN [by |-> "nobody", of |-> Result[x]] ELSE actor

RegistryTypeOK ==
    /\ stack \in [Thread -> Seq(Frame)]
    /\ asking \in [Thread -> Seq(Reconstructed)]
    /\ got \subseteq [piece : Piece, actor : Actor]
    /\ cache \subseteq [piece : Piece, actor : Actor, by : Thread]
    /\ reverse \subseteq [key : Actor, piece : Piece]
    /\ kept \subseteq Actor
    /\ failed \subseteq [thread : Thread, piece : Piece, by : Thread]

RegistryInit ==
    /\ stack = [t \in Thread |-> <<>>]
    /\ asking = [t \in Thread |-> <<>>]
    /\ got = {}
    /\ cache = {}
    /\ reverse = {}
    /\ kept = {}
    /\ failed = {}

Cached(x)  == \E rec \in cache : rec.piece = x
RecOf(x)   == CHOOSE rec \in cache : rec.piece = x
Known(key) == \E rec \in reverse : rec.key = key

Running(t) == stack[t] # <<>>
Top(t)     == Head(stack[t])
Storing(t) == Running(t) /\ Top(t).step = Len(Uses[Top(t).piece]) + 1

\* The innermost call returns: to the factory below it or to the program.
ReturnActor(t, actor) ==
    /\ stack' = [stack EXCEPT ![t] = Tail(@)]
    /\ got' = IF Len(stack[t]) = 1 THEN got \cup {[piece |-> Top(t).piece, actor |-> actor]} ELSE got

Animate(t, x) ==
    /\ ~Running(t) /\ asking[t] = <<>>
    /\ stack' = [stack EXCEPT ![t] = <<[piece |-> x, step |-> 0]>>]
    /\ UNCHANGED <<asking, got, cache, reverse, kept, failed>>

CacheHit(t) ==
    /\ Running(t) /\ Top(t).step = 0
    /\ Cached(Top(t).piece)
    /\ ReturnActor(t, RecOf(Top(t).piece).actor)
    /\ UNCHANGED <<asking, cache, reverse, kept, failed>>

\* The mutated form never finds anything in the cache.
MissAlways(t) ==
    /\ Running(t) /\ Top(t).step = 0
    /\ stack' = [stack EXCEPT ![t][1].step = 1]
    /\ UNCHANGED <<asking, got, cache, reverse, kept, failed>>
CacheMiss(t) ==
    /\ Running(t) /\ Top(t).step = 0
    /\ ~Cached(Top(t).piece)
    /\ stack' = [stack EXCEPT ![t][1].step = 1]
    /\ UNCHANGED <<asking, got, cache, reverse, kept, failed>>

\* The factory animates the next piece it uses.
UseNext(t) ==
    /\ Running(t) /\ Top(t).step \in DOMAIN Uses[Top(t).piece]
    /\ LET used == Uses[Top(t).piece][Top(t).step] IN
        stack' = [stack EXCEPT ![t] = <<[piece |-> used, step |-> 0],
                                        [Top(t) EXCEPT !.step = @ + 1]>> \o Tail(@)]
    /\ UNCHANGED <<asking, got, cache, reverse, kept, failed>>

\* _add_to_cache: an equal actor in the reverse cache gets the later piece.
AddToCache(t, x, actor) ==
    /\ cache' = {rec \in cache : rec.piece # x} \cup {[piece |-> x, actor |-> actor, by |-> t]}
    /\ reverse' = {rec \in reverse : rec.key # KeyOf(x, actor)}
                    \cup {[key |-> KeyOf(x, actor), piece |-> x]}
    /\ kept' = kept \cup IF Result[x] \in Unhashable THEN {actor} ELSE {}

\* with self._lock: the assertion, then _add_to_cache(piece, actor).  The mutated
\* form replaces an actor that is cached already.
Overwrite(t) ==
    /\ Storing(t)
    /\ AddToCache(t, Top(t).piece, Made(t, Top(t).piece))
    /\ ReturnActor(t, Made(t, Top(t).piece))
    /\ UNCHANGED <<asking, failed>>
Store(t) ==
    /\ Storing(t) /\ ~Cached(Top(t).piece)
    /\ AddToCache(t, Top(t).piece, Made(t, Top(t).piece))
    /\ ReturnActor(t, Made(t, Top(t).piece))
    /\ UNCHANGED <<asking, failed>>

\* assert piece not in self._cache: the exception leaves every factory of t.
StoreFails(t) ==
    /\ Storing(t) /\ Cached(Top(t).piece)
    /\ failed' = failed \cup {[thread |-> t, piece |-> Top(t).piece, by |-> RecOf(Top(t).piece).by]}
    /\ stack' = [stack EXCEPT ![t] = <<>>]
    /\ UNCHANGED <<asking, got, cache, reverse, kept>>

\* The program, or a reconstructor for a part of what it is at, asks for the piece of
\* an object of its own, which the reverse cache does not have: a reconstructor makes it.
AskPiece(t, x) ==
    /\ ~Running(t) /\ x \notin {asking[t][i] : i \in DOMAIN asking[t]}
    /\ ~Known(KeyOf(x, Made(t, x)))
    /\ asking' = [asking EXCEPT ![t] = <<x>> \o @]
    /\ UNCHANGED <<stack, got, cache, reverse, kept, failed>>

\* self.add_to_cache(piece, actor): whatever has been cached since the lookup is replaced.
AddReconstructed(t) ==
    /\ asking[t] # <<>>
    /\ AddToCache(t, Head(asking[t]), Made(t, Head(asking[t])))
    /\ asking' = [asking EXCEPT ![t] = Tail(@)]
    /\ UNCHANGED <<stack, got, failed>>

Step(t) == CacheHit(t) \/ CacheMiss(t) \/ UseNext(t) \/ Store(t) \/ StoreFails(t)

RegistryNext ==
    \E t \in Thread :
        \/ Step(t)
        \/ \E x \in Piece : Animate(t, x)
        \/ \E x \in Reconstructed : AskPiece(t, x)
        \/ AddReconstructed(t)

RegistrySpec == RegistryInit /\ [][RegistryNext]_registryVars

-----------------------------------------------------------------------------
\* Identity: every actor that animate() has returned, in whatever thread, is the one the
\* cache has for its piece.  Only a type that was reconstructed in between may be
\* another object, and then it is an equal one.
OneActorPerPiece ==
    \A g \in got : \E rec \in cache :
        /\ rec.piece = g.piece
        /\ KeyOf(g.piece, g.actor) = KeyOf(g.piece, rec.actor)
        /\ g.piece \notin Reconstructed => g.actor = rec.actor

\* actor_to_piece finds every cached actor, and what it finds is a piece whose own actor
\* is equal to the one asked for, though another piece may have put it there.  An actor
\* known by its id() alone stays alive, so that the id is not used again.
ReverseMatches ==
    /\ \A rec \in cache : Known(KeyOf(rec.piece, rec.actor))
    /\ \A r \in reverse : \E rec \in cache : rec.piece = r.piece /\ KeyOf(rec.piece, rec.actor) = r.key
    /\ \A rec \in cache : Result[rec.piece] \in Unhashable => rec.actor \in kept

\* The assertion fails only by a race: never on an actor that the thread itself
\* has cached, however the factories nest.
FailedByRace ==
    /\ RegistryTypeOK
    /\ \A f \in failed : f.by # f.thread
=============================================================================
