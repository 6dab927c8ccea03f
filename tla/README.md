# hyperapp in TLA+

This directory holds a formal model of the parts of hyperapp whose correctness
depends on the order in which things happen: remote calls, transports and
subprocesses, the process-wide registries and configurations that several threads
share, lists and views that must follow what they show, and the resource compiler
`rc`. Each module is a translation of named lines of the Python code
(`PROJECT.json`, `map`), TLC checks it on small instances, and for ten of the
modules TLAPS proves the safety properties for every value of the constants.

- [1. The system](#1-the-system)
- [2. Modules and how they correspond to the code](#2-modules-and-how-they-correspond-to-the-code)
- [3. Runs, bounds and what they show](#3-runs-bounds-and-what-they-show)
- [4. Fairness](#4-fairness)
- [5. What is proved](#5-what-is-proved)
- [6. Disagreements between the code and its comments](#6-disagreements-between-the-code-and-its-comments)
- [7. What is not modelled](#7-what-is-not-modelled)
- [8. Plan](#8-plan)

To check a module: `tlc -workers 2 -config MCxxx.cfg MCxxx`; to check proofs:
`tlapm XxxProofs.tla`.

## 1. The system

hyperapp is a client-server framework for graphical programs whose code,
configuration and data are all *pieces*: immutable values, encoded to *capsules*
and named by the hash of these (*refs*). About 31,000 lines of Python, apart
from tests, are in `src/hyperapp`. From the bottom up:

| Part | State it keeps | Operations | Hard because |
|---|---|---|---|
| `boot/mosaic.py`, `web.py`, `association_registry.py` | piece ↔ ref maps; associations by base and by key | `put`, `get`, `register_capsule`, `set_association`, `remove_association` | read without a lock, written under one; associations are set by several owners |
| `boot/*code_registry.py` | piece → actor cache and its reverse | `animate`, `actor_to_piece`, `invite` | factories animate other pieces, in any thread, outside the lock |
| `base/bundler.dyn.py`, `boot/unbundler.py` | nothing between calls; seen refs belong to callers | collect what a receiver lacks; register it there | order of capsules, refs seen, associations that point back, two limits |
| `base/system/` | layers of configuration templates, resolved configurations, services, finalizers | `resolve_service`, `close`, configuration changes and hooks | one stack and one dict of finalizers for all threads; caches over layers |
| `base/rpc/` | futures of pending requests | submit, wait, respond, cancel all | three kinds of threads on one dict without a lock |
| `base/transport/` | routes, connections, seen refs of peers | send a parcel, read a packet, deliver to an endpoint | partial writes, selector threads, a pool that serves requests and responses alike |
| `base/subprocess/` | pipes, callback events | start, call and stop a child process | timeouts that race callbacks, the death of either side |
| `rc/` | targets, jobs, driver processes, job cache | import modules in drivers, construct resources, test them | targets appear while others complete; results in any order; timeouts |
| `ui/`, `views/`, `models/`, `common/` | trees of views, feeds of changes, models | commands, navigation, edits, diffs | feeds die with their subscribers; a tree is replaced while commands run |
| `lcs/`, `client/`, `server/`, `sample/` | layers of settings | get, set, move; entry points | several files for one set of values |

How they interact. A program starts a `System` from configuration layers; its services are made
when they are first needed, by the main thread or by a worker that serves a remote call. A
remote call goes from `rpc_call` through `transport` to a route: a local endpoint, a TCP
connection or the pipe of a subprocess. `transport` makes a message bundle for the peer and the
connection makes another for the parcel, and each leaves out what it takes the other side to
have. At the receiver a reading thread registers the bundle, adds a route back, and gives the
message to the endpoint's pool of five workers, where a request runs its servant and a response
completes a future. `rc` is itself such a program: it starts driver subprocesses, submits import
jobs to them by those calls, and turns their answers to statuses of its targets until nothing is
left to do.

Properties that make the parts correct, in one sentence each:

- *RPC*: a call runs its servant at most once, ends with what that servant
  produced or with an error of its own, and never hangs once its answer has come.
- *Pools*: every message and every job is in exactly one place; workers that
  wait do not starve the messages they wait for.
- *Transport*: a parcel arrives whole, at most once, with what its receiver
  needs to understand it, and a reply finds its way back.
- *Bundles*: everything that is needed, nothing else, types before values.
- *Registries*: one actor for a piece, and the way back from it.
- *Services*: made once, only real loops are reported, finalized in reverse
  order of use.
- *Compiler*: statuses reach a fixpoint, nothing completed is taken back, it
  ends, and ends early only for a reason.
- *Configuration*: what is stored, cached and announced agree.
- *Feeds*: a subscriber sees every change, once, and leaves nothing behind.
- *Subprocesses*: whoever leaves a subprocess gets past it; what it sent is read.
- *User interface*: items, commands, layout tree and saved layout are those of the
  views that the user sees.

The `hazards` of `PROJECT.json` list, line by line, where the code can go
wrong in ways that a test would hardly meet, and which property watches it.

## 2. Modules and how they correspond to the code

The modules are independent of each other except where said; each has an MC
module with its instance. Mutated forms of operations stand next to the
operations (`RegisterLate` before `Register`) and are not part of any
specification: they show that a property notices a plausible bug.

**RpcFutures** (`base/rpc/rpc_call.dyn.py`, the response half of
`rpc_endpoint.dyn.py`). The registry of pending calls of one process.
`thread[c]` is the position of a calling thread, `future[c]` the state of its
`concurrent.futures.Future`, `registered` the keys of `rpc_request_futures`.
A worker pops a future (`PopFuture`) and completes it (`CompleteFuture`) in two
steps, and two loops, at the death of the master (`stop`) and in the finalizer
(`close`), cancel all in between, one future a step. Python's checks that a dict
does not change during iteration are `DictChanged`.

**RpcEndpoint** (`base/rpc/`, `base/transport/endpoint.dyn.py`) has whole
processes: a reading thread, a queue and a pool of workers at each peer, and
servants that call their clients back and keep their worker meanwhile. Here the
inside of a response is one step. **RemoteCall** is the abstract specification:
what a call promises to the program. RpcEndpoint implements it with
`call` as it is and `servant` for `ran`.

**TcpTransport** (`base/transport/transport.dyn.py`, `route_table.dyn.py`,
`tcp_transport.dyn.py`). Threads of a client and of a server send parcels:
choose or make a connection, bundle, write in parts. One selector thread at
each side reads, finds closed connections, and removes them from the cache in two
steps. A parcel is reduced to two facts, whether its message bundle has the
content and its transport bundle the types, so the two levels of seen refs
(`peerSeen`, `connSeen`) can be wrong independently. `overlap` and `rushed` are
history variables: they only let properties say *when* something may go wrong.

**Bundler** (`base/bundler.dyn.py`, `boot/unbundler.py`). A step is an iteration of
`_collect_capsule_list`; its local variables are the module's, under their
names (`block` is `current_capsule_list`). The references between capsules are
a parameter, which stands for what `ref_picker.dyn.py` returns. The receiver
registers the capsules in their order (`RegisterCapsule`, `RegisterFails`), then the
associations; `SendNext` makes a further message that leaves out what the
first one left as seen. The module's initial state, steps and specification are `BundleInit`,
`BundleNext`, `BundleSpec`. Folds over lists and closures of references are recursive functions.

**CachedCodeRegistry** (`boot/cached_code_registry.py` over
`boot/code_registry.py`, and `boot/pyobj_registry.py`). A thread is a stack of nested `_animate`
calls: look up, call the factory (which animates other pieces), insert under the lock. What a
factory returns is a parameter (`Result`), which pieces may share: an object that is there
already (`Existing`: an attribute of a module, a builtin service) or a new one; one that compares
by value (`ByValue`: types, records) or by identity; one that is not hashable. `KeyOf` is the key
in `_reverse_cache`, so that a later piece with an equal actor takes the key over. The other
way, `actor_to_piece` of an object that is not known makes its piece and adds both
(`AskPiece`, `AddReconstructed`), in two steps as in the code. The initial state, steps and specification are `RegistryInit`, `RegistryNext`, `RegistrySpec`.

**SystemServices** (`base/system/system.dyn.py`, `service_template.dyn.py`).
Again threads with stacks, of `resolve_service` calls; `stack` and
`finalizers` are the dicts that they share, modelled as sequences because the
insertion order of a dict matters to `popitem`, to assignment of a key that
is there, and to `close`.

**SystemConfig** (`base/system/config_layer.dyn.py`, `config_ctl.dyn.py`,
`system.dyn.py`, `base/assoc_key.dyn.py`, `boot/association_registry.py`,
`models/config/`). Layers of templates in memory and in files, the cached merge,
the values that `LazyDictConfig` made from it, and the associations that a hook keeps
up. The user's thread sets, removes, moves and resolves items; the network's
receives associations. `MutableConfigLayer.set` is four steps (memory, file,
caches, hooks) and the refill of the caches is apart from their drop, because the other
thread may come in between. A save may fail at any time, and the process may start again.

**Feeds** (`ui/feed.dyn.py`, `feed_servant.dyn.py`, `remote_feed_receiver.dyn.py`,
`ui/qt/list_adapter.dyn.py`, `fn_list_adapter.dyn.py`, `common/list_diff.dyn.py`,
`ui/model_command.dyn.py`). A list at Home, shown there and in a remote process; the
feed map, feeds with weak subscribers, subscriptions of remote processes. An
adapter reads the list when it is first shown and applies diffs by key from then on. A
change is one step and the sending of its diff another. `feed_factory` looks into the map in one
step (`FindFeed`, `FindFeedToSend`) and makes a feed in another (`MakeFeed`,
`MakeFeedToSend`), since the thread of the user interface and the workers that serve
subscriptions share the map without a lock: two that miss make two feeds, and the second
replaces the first in the map. The history variable `cut` has the processes that are
not at the feed of the map for such a reason, `spoiled` those whose list went wrong. The initial
state, steps and specification are `FeedsInit`, `FeedsNext`, `FeedsSpec`.

**Controller** (`ui/controller.dyn.py`, `navigator.dyn.py`, `command.dyn.py`,
`ui/qt/tabs.dyn.py`, `tree_adapter.dyn.py`, `layout.dyn.py`). Windows of tabs of
navigators (the views), and beside them the items, the commands bound to these,
the layout tree and the layout file, each kept up by its own hook. Commands and
`update_children` are tasks in one queue; clicks, the tab bar, the frame of a window and
the save timer come in between. `torn` is a history variable. **ControllerTrails** adds
the trail of a navigator, the models before and behind the shown one, read off its linked
records by a recursive function that stops where a record is the last, or after as many
records as items were numbered, which no navigator exceeds.

**SubprocessServer** (`base/subprocess/`). For each subprocess a context manager in its
own thread, a child, and the worker that handles its callback; one server thread for
all of them, whose loop is taken apart into listing connections, taking their
handles, polling, and the two lookups of a connection that is ready. The master keeps the child's
end of a pipe open as well (`child_connection` in the frame of `_subprocess_running`), so the
crash of a child (`Die`) makes no connection ready and no send fail: nobody is told. Only when
the master closes its own end does the other side see it.

**ProcessPool** (`rc/process_pool.dyn.py`) is small: free processes, a queue,
futures, and the generator `iter_completed`, which works on the futures of the
moment it started.

**BuildTargets** (`rc/target_set.dyn.py`, `import_target.dyn.py`,
`config_item_target.dyn.py`, `python_module_resource_target.dyn.py`,
`test_target.dyn.py`, `test_requirement.dyn.py`, `init_targets.dyn.py`) has no
variables: a store is a record of what target objects keep, and each method is an
operator from stores to stores. `UpdatePass` is one pass of `update_statuses`.
**RcRunner** (`rc/rc.dyn.py`, `import_job.dyn.py`, `test_job.dyn.py`) is the
compiler's loop over such a store, with the variables and actions of ProcessPool: submit
ready jobs, wait for a batch, hand over results, update. A test module has a
test target, which is tried up to `TestRetries` times with more requirements each time;
cached results of imports and tests are valid or stale. What a driver answers is
any answer that fits the program: success only if all that the module
requires was given; a requirement that was not given, one at a time, and an
actor only when its service is there; failure for modules that may fail.

Theorems and their proofs are in **FuturesRegistryBundlerProofs** (RpcFutures,
CachedCodeRegistry and Bundler: what is looked up and handed over between processes),
**ProcessesProofs** (SubprocessServer, ProcessPool and RcRunner: subprocesses, the pool of them
and the compiler that uses it), **RunnerEndProofs** (how a run of the compiler ends),
**CallsAndFeedsProofs** (RpcEndpoint and Feeds: what programs send to each other),
**TcpTransportProofs**, **SystemServicesProofs**, **SystemConfigProofs** and **ControllerProofs**.
Section 5 says what they show.

The type invariant of a module is the first conjunct of one of its safety
invariants (`InOnePlace`, `DeliveredOnce`, `Complete`, `FailedByRace`,
`AloneIsSafe`, `Fixpoint`, `QuietIsConsistent`, `ItemsMatchViews`, `UnusedIsDropped`,
`FailsOnlyByClosing`, `PoolInv`); that of RpcFutures is the theorem `TypeCorrect`.

## 3. Runs, bounds and what they show

| Run | Distinct states | Question |
|---|---|---|
| `futures` | 242,386 | what may happen to a future, and when |
| `endpoint` | 115,894 | does a call keep its promise, do the pools go on |
| `tcp` | 112,015 | do parcels arrive whole and understood |
| `bundler` | 542,670 | is a bundle complete and within limits, can a receiver use it |
| `bundler_types` | violation | do types come first |
| `registry` | 458,381 | one actor for a piece, and a way back to an equal one |
| `services` | 218,939 | what do threads that share a stack do to services |
| `rc` | 195,128 | do statuses settle, are tests in time, does the compiler end |
| `config` | 6,572,006 | do layers, caches, files and associations agree |
| `feeds` | 6,894,968 | does what is shown follow the list |
| `controller` | 1,194,945 | do items, commands, tree and file follow the views |
| `subprocess` | 635,257 | does a subprocess that is left end, is what it sent read |

**futures**: two calls, one without a timeout, in a subprocess with both
loops. Two calls are enough for one to be registered, popped or completed while
a loop stands between two futures; a third adds only more of the same pairs.
`KeyError`, `InvalidStateError` and "dictionary changed size" are all reached, and
`FailureOnlyWhenStopping` says that nothing but a cancelling loop leads to
them. `RegisteredIsOpen` and `OutcomeIsReply` relate dict, future and
response. `CallsAreReleased`: a response that was delivered releases its caller, and
so does the death of the master, for every call registered before the loop
ended. A call that registers between the end of the loop and
`clear()` is outside it on purpose: without a timeout it hangs, which is what
the code does.

**endpoint**: two clients, a server, two calls each of which may call back (four requests in
all), in three settings: two workers or one, with timeouts and one connection that may be lost;
and three workers without timeouts. `InOnePlace` is the conservation law of messages,
`KeepsPromise` the refinement of RemoteCall, `FailedOnlyByLoss` what a lost client can do to a
server, `EachIsServed` that timeouts of callbacks unblock a full pool, and that a pool with one
worker more than there are servants that call back needs no timeouts at all. In the code a pool
has five workers; the settings have as many servants as workers, one less, and more, which are
the cases that differ.

**tcp**: two calls and two replies, at most two connections, of which one may be
lost at any moment with what was on its way in either or both directions;
each packet has two chunks, so a partial write, an interleaving with another
packet and a loss in the middle are all possible. The selector thread of a side can fail, and
`FailsOnlyByOverlap` pins down when: only when two threads of the other side
were writing on one connection at a time. `DeliveredOnce`: no parcel is doubled, glued
or delivered before its last byte. `ReplyHasRoute`: a reply is refused only
with the connection of the first parcel lost, even when the request came by
another. `UnresolvedOnlyByLoss`: content is missing only after a loss, or
when two threads of a side sent together. `SentArrives`: what was sent arrives
unless a connection or a receiver failed. With one call nothing of that can go wrong; two
is the smallest number with a race for the cache and for a socket.

**bundler**: every graph of a small grammar over seven refs: two builtin types,
two record types of which one uses the other twice, two values with fields of
any order, an association attached to any of the four or to none; with
refs seen before, an unknown ref, a size limit that falls in the middle and
a limit on the number of refs; then a second message to the same receiver
(`Messages` = 2). `Complete` compares the bundle with a reference definition (closure of
the references and of the associations of what is sent) and says when the receiver
fails; `WithinLimit` covers the limits. **bundler_types** has record types whose
fields share a type; see section 6.

**registry**: two threads and four pieces: a record type, which uses a service and a
primitive type; the service, which is not hashable and uses the type as well; and an attribute
that is the same object as the primitive type. The record type and the attribute may be
reconstructed. `OneActorPerPiece` is identity: whatever the program was given is what the cache
has; where a piece was reconstructed by another thread in between, it may be another object, but
an equal one. `ReverseMatches`: every cached actor is found by `actor_to_piece`, and what is
found is a piece whose own cached actor is equal, which may be another piece than its
own (`cached_code_registry.py:66`); what is known by its `id()` is kept. `FailedByRace` says that the assertion of
line 31 fails only when another thread was first; with its premise dropped TLC
shows that it does (section 6).

**services**: a main thread and a worker that asks twice; templates that form a
chain, a shared dependency, and loops of two and three; a function that raises
and a finalizer that raises; `close()` that begins while the worker is still
making services. `AloneIsSafe`: as long as threads take turns nothing is
wrong, after any error too. Its premise is needed: TLC reaches, with two
threads at a time, a loop error where there is no loop, `KeyError` from
`popitem`, a name left in the stack, a service made twice, a finalizer that is never called.
`FinalizedInOrder` holds with no such premise for what is registered.

**rc**: three modules and two drivers, so that one waits; nine programs that differ
in what an import needs (a service and the item that configures it, an actor that
needs a service, modules that import each other, a builtin registry, a service that no module
has) and in what is tested (a
module and what it imports, two modules, a module with fixtures of
another, a module whose user the test imports); each import and test with a valid, a
stale or no cached result; modules that may fail; two tries of a test;
`fail_fast` and a timeout on and off. `Fixpoint` is what the code's own
`check_statuses` would assert, with its comment "Demotions are not allowed" and
the meaning of a completed status; `TestedFirst`: no resource is complete before the tests of
its module were found and have succeeded; `EachJobOnce` and `PoolInv` relate the runner, the
pool and the targets; `EndsComplete` says when the loop may end with work left:
after a failure, or when the program waits for itself (`Cyclic`) or for an item that it does not
have (`Lacking`), both defined on the program, apart from the targets; `RunEnds` that it ends. The number of jobs of a module is bounded by the number of
its requirements plus one (`MaxJobs`), which no run reaches as a limit: each
incomplete job asks for something that was not given before. `ByName` is the sequence of the
targets in the order of their names, in which the code sorts them; the cfg gives it so
that TLC need not search for it, and `OrderAssumption` says that it is this sequence.

**config**: two layers, one service with one key, two templates, six operations (`MaxOps`,
restarts included) of two threads; any save may fail. One key is enough, since items of
different keys meet only in a layer's file and in the caches, which are written and dropped
whole, and the association service is a second item. `QuietIsConsistent`: when no thread is at
work, the values that services see, the merge, the memory and the files agree, but for what
history variables name: a save that failed or wrote an older state (`unsaved`), and a cache
filled from what had been overtaken, or not dropped (`stale`). `SeenIsAssociated` says the like
of associations, but for items whose service was associated later or that were removed
(`loose`). `MoveKeepsItem`: a restart at any step of a move finds the item, unless its new layer
could not be saved.

**feeds**: a list of up to two items shown at Home and in one remote process,
three changes (`MaxOps`) by commands of either or by the transport log's hook, three
feeds (`MaxFeeds`), so that after the hook's feed two may be made at once; views open and close
at any step. `ShownIsCurrent` compares a copy that was
kept up by diffs with the list; `OpenIsSubscribed` whoever shows with the feed that the
next command will use; `UnusedIsDropped` the server's subscriptions with live
adapters. `spoiled` and `cut` mark the ways in which the code does lose track, listed in section
6, and the properties say that there are no others: every process that is not in them is at
the feed of the map and has the list, however feeds were made, replaced and closed. So they do
not say that the races of `feed_factory` are harmless; TLC reaches them.

**controller**: a window of two tabs that grows to three tabs and two windows, four clicks
or events (`MaxOps`), up to three clicked commands that wait (`MaxClicks`). Four are enough to
insert, navigate back, switch and close with a stale index in between.
`ItemsMatchViews`, `CommandsAreCurrent` and `TreeFollows` relate three copies of one
structure; `TrailIsKept` says that back and forward only move in the trail and a new
model cuts what was ahead; `SavedInTheEnd` that the layout that stays gets into the file.

**subprocess**: two subprocesses that start, call back, are called, are left and
crash (`MaxDeaths` = 1), one with a caller; the second is needed for a connection that
vanishes while the server thread is at another. `FailsOnlyByClosing` says what the server
thread and the workers may fail of, and that nothing a child sends or does drops a
connection that is in use; `SentIsRead` that what a child sent is read before its connection
goes; `EndIsJoined` that leaving a subprocess ends.

Bounds that are named in modules: `MaxLost` (connections lost), `MaxCalls` (service calls of a
thread), `MaxJobs`, `MaxOps` (operations or clicks), `MaxFeeds`, `MaxTabs`, `MaxWindows`,
`MaxClicks`, `MaxDeaths`, `Messages`, `TestRetries` (20 in the code,
`rc/test_target.dyn.py:14`). Deadlock is checked for `registry` and `rc`. Elsewhere the system
may stop: all calls were made, the bundle is ready, `close()` is over, the user does nothing
more.

## 4. Fairness

- *RpcFutures*: threads that can go on do so. A caller between registration
  and `future.result` runs on; a timed call that nobody completes times out; workers take
  responses and complete futures; a loop that started goes on. Nobody need make a call,
  answer one, or stop the process.
- *RpcEndpoint*: the same for workers, reading threads and timeouts. A servant returns
  once its own calls have ended; it need not make the calls it could.
- *TcpTransport*: sending threads and selector threads run. The network need not
  lose anything; a write to a lost connection ends one way or the other.
- *ProcessPool*, *RcRunner*: the compiler's thread runs, and a driver
  answers a job it was given (an import that never returns hangs the code as
  well, unless a timeout is given). For RcRunner weak fairness is written out
  (`[]<>~Ready \/ []<><<Step>>_vars`), with the guards of the actions
  as `Ready`: an action there contains whole updates of the targets,
  and the enabledness of such an action is costly to evaluate for each state.
- *Controller*: the event loop runs its tasks and fires its timer. The user need not
  do anything.
- *SubprocessServer*: the server thread runs, and so do the threads of each
  subprocess: its user after it began to leave, a worker, the child, which have
  finitely many steps. No user needs to leave, call or lose patience.
- *SystemConfig*, *Feeds*, *Bundler*, *CachedCodeRegistry*, *SystemServices* state no
  liveness and no fairness.

## 5. What is proved

Every theorem is of the form `Spec => []Inv`, an action property or a refinement, for
any constants that satisfy the module's named assumptions; these say what the constants are (a
finite set of calls, sequences of services, different names for different things) and
never how many there are. TLC evaluates the assumptions in the runs. The bounds that TLC
needs (`MaxOps`, `MaxLost`, `MaxFeeds` and the like) are arbitrary numbers in the proofs.

**FuturesRegistryBundlerProofs**. *Futures of RPC calls*, from `CallAssumption` and
`StopperAssumption`: `Invariance`, and from it `TypeCorrect`, `NoFailureUnlessStopping`,
`OpenWhileRegistered`, `OwnReply` and `NoCancelUnlessStopping`. The four properties are not
inductive together: to exclude `KeyError` one must know that the call whose response is in the
pool is still registered unless the dict was cleared; for `InvalidStateError`, that a popped
future is open or was met by a loop that has started. `CallInv` and `StopperInv` say so.
*The registry of actors*, from `RegistryAssumption` (a factory uses a sequence of pieces, in
circles too, and returns any object, shared or not; reconstructed are only pieces in no circle,
whose objects are there already or compare by value): `IdentityOfActors` and `CachesAgree` rest
on `RegistryInv`, which adds that what is cached for a piece is an actor made of it, and that a
thread does not animate and reconstruct at a time. Where a key is taken over, the piece that
takes it is cached with an equal actor, so the way back stays right up to equality. `AssertionOnlyByRace` (`FailedByRace`)
needs more, `RaceInv`: a thread that fails on the assertion might have cached the actor itself,
in a nested call. It has not, as the nested calls use each other (`NestInv`), what they have
got is cached (`UsedInv`), and pieces that use each other in a circle are never cached
(`CircleInv`), so a piece that is still being made is not cached by its own thread (`MakingInv`).

*The bundler*, from `BundlerAssumption` (a finite set of refs; any types, references, sizes and
limits) and `SeenAssumption`: of what a caller says the receiver has seen, the receiver has the
types and all that it refers to, as far as they are known to the sender. `Transport.send` and
the servants pass what earlier bundles left, which begins as nothing, and the proof shows that
each bundle without a size limit leaves such a set. `BundlesAreComplete` (`Complete`) and
`BundlesAreWithinLimit` (`WithinLimit`) rest on `BundleInv`: the bundle and the block partition
what has been visited (`TakenInv`); what visited refs refer to is visited or waits
(`ClosedInv`), which at the end of the loop makes the bundle closed; what is taken or waits is
in *every* closed set that has the roots (`NeededInv`), so the bundle is the least one; the type
of each capsule is in the bundle, the block or the pending refs (`TypedInv`); the sum of sizes
is within the limit (`SizeInv`); and the receiver knows what it has registered (`KnownInv`). The
reference definition `Reach` is a recursion as long as there are refs; `ReachIs` shows that it
is the least closed set, since each step that is not the last adds a ref. The library has no
induction that the provers can use for this, so `RecursionExists` and `UpTo` get what a
recursive function on numbers needs from the least counterexample, and the lemmas about sizes,
lists and closures rest on these two.

**CallsAndFeedsProofs**. *Remote calls*, from `EndpointAssumption`: any peers, requests and callbacks.
`NetInv` places each message between the two peers of its call and excludes doubles; `CallInv`
says that a call that is waited for has a message or a servant while its connection stands;
`FailInv` that a peer which has failed served a call whose response will never come. From
these, `OnePlace` (`InOnePlace`) by counting messages in sequences without repetition,
`FailsByLossOnly`, and `PromiseKept`: `Spec => KeepsPromise`, the refinement of
RemoteCall, where every step is one of the abstract ones or a stutter. That a
request starts a servant which has not run, and that a response carries what the servant
produced, are the two steps that need the invariant.

*Feeds*, from `FeedsAssumption` and `UnreadIsNoList`: any remote processes, keys, feeds
and changes. `ShownAreCurrent` (`ShownIsCurrent`) compares quiet states; `CurrentInv` says that
a shown or half-read list is that of Home, or becomes it by the one diff that is still to come
(`Follows`), and that an index is right until something was removed. It needs `SubsInv`: all who
show the list are subscribers of the feed of the map, unless they were cut off, though other
feeds may have subscribers too; `OpenAreSubscribed` and `UnusedAreDropped` follow from that part.
Since a feed is looked up before it is sent to, it may be out of the map by then (`Late`);
`LateInv` says that nobody who is not cut off has read the list in that case. `MakeFeedStep`,
`FindFeedToSendStep` and `MakeFeedToSendStep` are the steps of the race.

**TcpTransportProofs**, from `TransportAssumption`: any number of calls, connections and
losses. `IInv` says which chunks may be in which stream: each was written by its parcel, which is
not handed over, and none is there twice (`ChunkInv`); the cursor of each packet (`PacketInv`);
a route from the first call handed over on (`RouteInv`). `HandedOverOnce` (`DeliveredOnce`)
and `RepliesAreRouted` (`ReplyHasRoute`) follow. `OInv` adds the *order*: a stream that no two
threads wrote to at a time is whole packets, with maybe the first chunk of one that is still
being written, and the packet with the types is before those that leave them out;
`OneSenderIsSafe` is `FailsOnlyByOverlap`. `CInv` adds the *content*: with no loss and
one sender at a time, whatever a parcel leaves out was sent before it; `ContentComes` is
`UnresolvedOnlyByLoss`.

**ProcessesProofs**. *Subprocesses*, from `SubprocessAssumption`: any finite set of subprocesses.
`FailsByClosingOnly` is `FailsOnlyByClosing`. `ServerInv` carries what the server thread has in
its hands: everything it waits for was started, each ready connection is there once, the signal is
counted, and a connection that it found in the dict and that is gone now belongs to a subprocess
that was left. `UserInv` and `TaskInv` relate the contexts, the ends of the pipes and the
workers; the second has the peer stored before the event is set.

*The pool of processes*, from `PoolAssumption`: `PoolSafe`. `PoolInv` is inductive as it
stands, because it includes that no job waits while a process is free and that a
batch has only assigned jobs; the lemmas are about stacks and queues without repetition.

*The compiler*, from `TargetAssumption` (names are different numbers; the programs have their
types, items have one provider, the service of an item is a builtin one or configured by no
other), `OrderAssumption`, `JobAssumption`, `CacheAssumption` and `PoolAssumption`: any modules,
items, programs, cached results, processes and answers that fit the program. The store is
changed by some thirty operators that call each other, as the methods of the code do, so most
lemmas say of one operator that it keeps `StoreInv`, and that targets, deps and results only
grow (`Grows`). `StoreInv`: every target that is waited for exists (`ClosedInv`), what is
completed stands over what is completed (`SatInv`), an import is at one job, its last, and the
jobs before are completed (`JobsInv`), likewise a test (`TestsInv`), what a module tests is
known once its first job is completed (`FoundInv`), items come with the result of an import
(`ItemsInv`), and a ready job has nothing to wait for that is not completed (`ReadyInv`).
`RunnerInv` adds `SubmittedInv` (a job that was submitted is with the pool, or failed, or is
completed), `AnswersInv` (what was submitted was given something, and only that has an answer)
and `PoolInv`. From it follow `EveryJobOnce` (`EachJobOnce`), `TestsComeFirst` (`TestedFirst`),
`RunnerTypes`, `RunnerPool`, and `RunnerUsesPool`, that the runner's steps are steps of the
pool.

`StatusesSettle` is `Fixpoint`: the loop of `update_statuses` looks only at targets whose deps
were completed or replaced since its last pass, yet when it ends, no pass over *all* of them
would change anything. A target that was updated is completed, or is *calm* (`Calm`): what its
update looks at says wait. A calm target stays calm until one of its deps is completed or its
deps are changed (`Rel`); these are the targets of the next pass, so a pass that has none leaves
only calm ones, and an update of a calm target changes nothing. `SeenInv` carries this through a
pass, against the store as it was when the pass began. It holds for any number of targets, since
a pass is treated by induction on the position in its sequence, with the least position where
the claim fails.

**RunnerEndProofs**, from the same assumptions: `EndsWhenComplete` (`EndsComplete`). `EndInv` adds
to the fixpoint that the store is *tidy* (`Tidy`): what a target needs is what its module, or
the code that a test runs, requires in the program (`Fit`); a module with a result, that is not
one of tests or fixtures, has given its items; and tests are of what they test. The lemmas go
through the operators of the store once more. When the loop ends, no job is ready and the pool
has none, so a store that is not completed is `Stuck`: every target that is left is calm, and
waits for another one. A target is at too fine a grain to make a cycle of (a new job of an import
is a new target), so the proof maps what is left to imports, resources and tests of modules
(`Stages`) and shows of each kind that one of those it waits for in the *program* (`WaitsFor`) is
left too (`ImportWaits`, `ResourceWaits`, `TestWaits`). For an item this needs a
provider that is compiled to a resource, or the program is `Lacking`. The first statement of the
property did not have that case: TLC's programs have all they need, and the proof found that a
program may not. `WaitsFor` became exact there for tests, which take a tested module and its
actors from imports. A program with the missing case is now one of the run's.

**SystemServicesProofs**, from `ServicesAssumption`: any templates, threads and numbers of
calls. `UsersFinalizedFirst` (`FinalizedInOrder`) needs no premise about threads: `OrderInv`
says that what a generator service depends on was put to `_finalizers` before it, which
holds because a call reaches its own registration only after all its parameters have an
instance (`UsedInv`), also when several threads make the same service and the key keeps its first
place; `CloseInv` follows `close()` down the list. `AloneIsSafeAlways` (`AloneIsSafe`): while
there is no overlap the shared stack is exactly the names of the one thread's open calls
(`StackOf`), each of which depends on those inside it, so a name met again is on a real loop.

**SystemConfigProofs**, from `AssocKeyIsService`, `InputsAreItems`, `LayersAreLoaded` (there is a
layer), `NoneIsNothing` and `OpsAreCounted`. `QuietIsSound` is `QuietIsConsistent`,
`SeenAreAssociated` is `SeenIsAssociated`, and `MovesKeepItems` the action property `MoveKeepsItem`.
The properties speak of quiet states or of restarts; the invariant says what holds in the middle
of operations: a file that is behind is being saved or known to be unsaved (`FileInv`),
caches are behind only while a thread has yet to drop or store them (`CacheInv`), an item without
its association is being set (`AssocInv`), and where an item is during each of the steps of a
move, in memory, in the snapshot and in the file (`MoveInv`).

**ControllerProofs**, from `ControllerAssumption`: any models, windows, tabs and clicks.
`NavsInv` has a set of records that is closed under going back and forward, which stands for the
structure of a navigator without induction over it; `IdsInv` that views, items and windows are
numbered apart, so that a change in one window is not seen in another; `WindowsInv` that items
are those of the views and are bound, or an update of the window waits; `TreeInv` that the lists
the tree has read are those of the items, and that the list of an item was read only when it had
a child, as updates give a child to an item without one. `ItemsMatch`, `CommandsStayCurrent` and
`TreeIsFollowing` follow. TLC checked each of these invariants on the run's instance before they
were proved. `TrailsAreKept` is `TrailIsKept`. `TrailsInv` adds that the records of each
navigator end on both sides within as many steps as items were numbered, which holds because a
step that puts a record before another numbers an item as well. `NavsChange` says what any step
does to the navigators: it adds some, new or copies, or moves one. `ChainIs` says that records
which end within the limit are what `Chain` gives, by the position where the two would first
differ (`UpTo`); so the trails compared are whole ones, and none is cut by the limit.

Model-checked only: every liveness property, since TLAPS has no fairness and no ENABLED. Each
safety invariant and each action property that a run checks is a theorem.

## 6. Disagreements and observations

Where a comment in the code says something that does not hold:

1. `base/bundler.dyn.py:56`, "Types and their deps should come first, or
   unbundler won't be able to decode capsules": when the last pending ref is dropped as already
   visited, the block of capsules is not closed, the next value joins it, and the final
   reversal puts that value before its type. It takes a type used by two fields.
   Run `bundler_types`.
2. `boot/cached_code_registry.py:31`, "Ensure it is not yet added": two
   threads that animate one piece both miss the lookup outside the lock; the second to
   insert fails on the assertion. `FailedByRace` says that nothing else leads there.
3. `rc/cfg_item_req.dyn.py:88`, `assert resource_tgt.completed`: an import
   job that waits for an actor becomes ready as soon as the provider is
   imported, not when its resource is made, and making the job fails, which ends the whole
   run (`MakeJobFails`). It takes more modules than drivers.

What the properties had to exempt, each a behaviour of the code that TLC reached:

- *Bundles*: a block that is dropped for the size limit stays marked as seen, so later
  messages leave it out and the receiver cannot register them. An association that is attached after its base was
  sent is never sent.
- *Configuration*: the hook for a removed item is called with what another layer has
  under the key, or not at all, so an item that is really gone keeps its
  association, and a move between layers takes it away. An item set before its service is
  associated is not associated. Two threads may save in an order other than that of their changes. A failed save leaves
  memory changed and caches as they were. Moving an item that a higher layer overrides
  moves the overriding template.
- *Feeds*: a list that is first read when a diff comes is read with the change and
  then changed again. A command on a remote model sends its diff only to the process that ran
  it. Removal by key leaves the key index as it was
  (`list_adapter.dyn.py:139`; the tree adapter updates its own). `KeyListDiff.Replace` has no piece, and an
  exception of any adapter, or a call that times out, ends the sending for the others. Two threads
  that both miss the feed of a list make two, and who subscribed to the first hears nothing
  more; when that one is closed, it takes the other out of the map. The transport log keeps its
  closed feed, so later views hear nothing. A late unsubscription removes a newer subscription of the process.
- *User interface*: quit and the closing of the last window leave before the
  one-second timer saves the layout. A queued command whose place was
  removed inserts past the end, and the window's items are then no longer those of its
  tabs. Removing the last tab makes every later update raise. The layout tree applies to a list a diff that the
  list, just read, already has.
- *Subprocesses*: a connection is closed before it leaves the dict, so
  the server thread's wait may raise; one that is removed between the two lookups is
  a `KeyError`; either ends the server thread for all subprocesses. A response to the callback of a subprocess that is closed raises in
  a worker. A crash of a child is told to nobody, as the master has the child's end open too: callers go on
  by their timeouts, and without one they wait for ever.
- *Compiler*: a test of a module that imports another user of this module never
  runs: the run ends with "Not all targets are completed, but there are no jobs".

## 7. What is not modelled

Components with no module are listed in `PROJECT.json` with the reason: pure functions on
values (types, coders, parsers), drawing and Qt, models over one file each,
cryptography. Within modelled components:

- RpcFutures and RpcEndpoint: the contents of requests, except whether a
  response can be resolved.
- TcpTransport: listening, a server that starts again, local routes,
  the transport log, more than one peer of a server. A parcel's content is one ref; the closure of a
  bundle is Bundler's subject.
- CachedCodeRegistry: changes of the registry's configuration; factories and reconstructors that
  ask each other for pieces in the middle of an animation. The pieces of the parts of a
  reconstructed type are asked for one inside another, and none of them animates.
- SystemServices: the resolution of configurations, and services that are set
  from outside before the start. The root is resolved outside the `try` of `run`, so a main thread that
  fails there calls no finalizer, in the model as in the code.
- SystemConfig: that `LazyDictConfig.invalidate` drops a value before the template for it is
  read, which is one step here; layers that are not mutable; what a template has in it; configurations
  that are no dicts of items, which have no hooks.
- Feeds: trees, values, records and lists that are kept by index; how the type of a feed is found by
  its call site; more than one remote process, as these do not meet but in the server's dict
  (the proofs have any number of them). A remote process has a map of feeds too, whose race between its
  threads is left out: its feed lives as long as its adapter. A diff that a remote process takes
  after the call that sent it timed out is taken at the timeout or not at all. What a
  command changes and the lookup and sending of its diff are in one thread, but apart.
- Controller: other views and layouts, the state of widgets, shortcuts,
  forms; a navigator stands directly in a tab, and no task of the client waits, which is what its code does.
  A tree node is expanded once its item has a child (`ExpandItem`), while the code would number
  the child on reading. Commands of tabs that are still queued when their window is closed have
  no effect, as they change nothing that is shown or saved; `duplicate_window` has one, and is
  modelled.
- SubprocessServer: sends of two threads on one pipe that exceed its buffer and may
  interleave; entries of `_callback_signals` are never removed, and ids of subprocesses are
  never used again. What a child does when its master goes is in RpcFutures.
- BuildTargets, RcRunner: one project; no filters (which for cyclic deps
  loop for ever, `rc/rc_filter.dyn.py:30`), manual modules, type or builtin service targets; the cache is an input
  and is not saved. Modules provide disjoint items, as two providers of an item are a RuntimeError in the code.
  A test module has one test and imports what it tests before other code (the authors' note at
  `rc/import_job.dyn.py:127`). Names are numbers in the order in which the code would sort them.

## 8. Plan

Done: RpcFutures, RpcEndpoint over RemoteCall, CachedCodeRegistry, Bundler with its receiver,
ProcessPool, TcpTransport, SystemServices, SystemConfig, Feeds, Controller, SubprocessServer,
and BuildTargets with RcRunner, with proofs of their safety properties.

Proofs of small components share a module, as the parts of FuturesRegistryBundlerProofs do, as long as
the names of their modules differ.

Not worth a module: what is left are sequential functions on values, drawing, and lists over one
file or registry each, where a specification would repeat the code.
