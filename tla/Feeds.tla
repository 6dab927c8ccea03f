------------------------------- MODULE Feeds -------------------------------
(***************************************************************************)
(* Lists shown in several processes and the feeds that keep them up to     *)
(* date: the feed map and its feeds, the server feed with its remote       *)
(* subscriptions, the list adapters with their key index and the commands  *)
(* that change the list.                                                   *)
(*                                                                         *)
(* The list lives at Home, which may show it itself; a remote process      *)
(* shows it as a remote model.  A process has at most one adapter of the   *)
(* list.  Feeds of Home are numbered in the order they are made; the feed  *)
(* of a remote process lives as long as its adapter.  A diff goes to a     *)
(* remote process by a blocking call, taken here as one step at the time   *)
(* the receiver processes it.                                              *)
(***************************************************************************)
EXTENDS Integers, Sequences, FiniteSets, SequencesExt

CONSTANTS
    Home,       \* the process that has the list
    Remotes,    \* the processes that show it as a remote model
    Keys,       \* values of the key field of its items
    MaxOps,     \* bound: changes of the list
    MaxFeeds    \* bound: feeds made at Home for the list

ASSUME FeedsAssumption ==
    /\ Home \notin Remotes
    /\ MaxOps \in Nat
    /\ MaxFeeds \in Nat \ {0}

\* A list that was not read is told from one that was.
ASSUME UnreadIsNoList == "None" \notin Keys

Procs == Remotes \union {Home}

\* The threads of Home that change the list: the one that runs commands and
\* the one that calls a hook, which keeps the feed it got when it was set up.
Writers == {"ui", "hook"}

Feeds == 1..MaxFeeds
HookFeed == 1
NoFeed == 0

\* What feed_factory finds when the map has no feed of the list.
Missed == -1

\* Stands for a list that is not there, as None does.
Unread == <<[key |-> "None", ver |-> 0]>>
Nothing == [kind |-> "nothing"]

VARIABLES
    data,       \* the list, as its function returns it
    ops,        \* changes made so far
    mapFeed,    \* the feed of the list in feed_map of Home, or NoFeed
    made,       \* feeds made at Home
    subs,       \* feed -> the processes whose subscriber it has
    served,     \* remote process -> the feed that server_feed keeps its subscription for
    adapter,    \* process -> its adapter of the list
    found,      \* process -> the feed it has found and is about to subscribe to, or Missed
    unsub,      \* remote process -> the thread in which its feed is unsubscribing
    alive,      \* remote processes that have not gone
    job,        \* thread of Home -> its diff, the feed for it, who is still to get it
    ownDiff,    \* remote process -> the diff returned by the command it ran
    spoiled,    \* history: processes whose list went wrong in one of the known ways
    cut         \* history: processes that are not at the feed of the map, in one of the known ways

allVars == <<data, ops, mapFeed, made, subs, served, adapter, found, unsub, alive,
             job, ownDiff, spoiled, cut>>

feedVars == <<mapFeed, made, subs, served, found, unsub, cut>>

---------------------------------------------------------------------------
(* Adapters *)

\* The index that _populate builds: key -> row, 0 for a key it has not.
IndexOf(list) ==
    [k \in Keys |->
        LET rows == {i \in DOMAIN list : list[i].key = k}
        IN IF rows = {} THEN 0 ELSE CHOOSE i \in rows : \A j \in rows : j <= i]

NoAdapter == [state |-> "none"]
NewAdapter == [state |-> "open", list |-> Unread, index |-> IndexOf(<<>>),
               reading |-> Unread, shifted |-> FALSE]

IsOpen(p) == adapter[p].state = "open"
Shows(p) == IsOpen(p) /\ adapter[p].list # Unread

Populated(a, list) == [a EXCEPT !.list = list, !.index = IndexOf(list)]

Row(a, diff) == a.index[diff.item.key]

\* A keyed replacement or removal finds its row in the index.
CanApply(a, diff) ==
    \/ diff.kind = "append"
    \/ Row(a, diff) \in DOMAIN a.list

\* An append with the row of the previous last item, for a mutant.
AppliedOffByOne(a, diff) ==
    CASE diff.kind = "append" ->
            [a EXCEPT !.list = Append(a.list, diff.item), !.index[diff.item.key] = Len(a.list)]
      [] diff.kind = "replace" -> [a EXCEPT !.list[Row(a, diff)] = diff.item]
      [] diff.kind = "remove" ->
            [a EXCEPT !.list = RemoveAt(a.list, Row(a, diff)), !.shifted = TRUE]

\* A removal leaves the index as it was.
Applied(a, diff) ==
    CASE diff.kind = "append" ->
            [a EXCEPT !.list = Append(a.list, diff.item), !.index[diff.item.key] = Len(a.list) + 1]
      [] diff.kind = "replace" -> [a EXCEPT !.list[Row(a, diff)] = diff.item]
      [] diff.kind = "remove" ->
            [a EXCEPT !.list = RemoveAt(a.list, Row(a, diff)), !.shifted = TRUE]

\* process_diff: a list not read yet is read first, with the change in it.
Prepared(p) == IF adapter[p].list = Unread THEN Populated(adapter[p], data) ELSE adapter[p]

\* The adapter of p takes the diff, or raises and stays populated.
Takes(p, diff) ==
    /\ IsOpen(p)
    /\ CanApply(Prepared(p), diff)
    /\ adapter' = [adapter EXCEPT ![p] = Applied(Prepared(p), diff)]

Raises(p, diff) ==
    /\ IsOpen(p)
    /\ ~CanApply(Prepared(p), diff)
    /\ adapter' = [adapter EXCEPT ![p] = Prepared(p)]

\* Taking the diff spoils a list that had the change already, is being read,
\* has a stale index, or gets the diff of a command of its own as well.
Spoils(p, diff) ==
    \/ adapter[p].list = Unread
    \/ adapter[p].reading # Unread
    \/ adapter[p].shifted /\ diff.kind # "append"

---------------------------------------------------------------------------
(* Feeds at Home *)

\* The feed is closed when any of its subscribers goes, for a mutant.
CloseAlways(feed, rest) ==
    mapFeed' = NoFeed

\* The last subscriber of the feed has gone: its close hooks remove whatever
\* feed the map has for the list.
CloseIfUnused(feed, rest) ==
    mapFeed' = IF rest = {} THEN NoFeed ELSE mapFeed

\* The subscribers of the feed of the map.
Mapped == IF mapFeed = NoFeed THEN {} ELSE subs[mapFeed]

\* Those who lose their feed to the closing of another one.
Bereft(feed, rest) == IF rest = {} /\ feed # mapFeed THEN Mapped ELSE {}

Dropped(feed, p) ==
    /\ subs' = [subs EXCEPT ![feed] = @ \ {p}]
    /\ CloseIfUnused(feed, subs[feed] \ {p})

\* feed_factory looks the list up, and puts a feed it has made into the map
\* afterwards, in place of one that another thread may have put there meanwhile.
Lookup == IF mapFeed = NoFeed THEN Missed ELSE mapFeed

Insert ==
    /\ made < MaxFeeds
    /\ made' = made + 1
    /\ mapFeed' = made + 1
    /\ cut' = cut \union Mapped

---------------------------------------------------------------------------
FeedsInit ==
    /\ data = <<>>
    /\ ops = 0
    /\ mapFeed = HookFeed
    /\ made = HookFeed
    /\ subs = [f \in Feeds |-> {}]
    /\ served = [r \in Remotes |-> NoFeed]
    /\ adapter = [p \in Procs |-> NoAdapter]
    /\ found = [p \in Procs |-> NoFeed]
    /\ unsub = [r \in Remotes |-> "no"]
    /\ alive = Remotes
    /\ job = [w \in Writers |-> Nothing]
    /\ ownDiff = [r \in Remotes |-> Nothing]
    /\ spoiled = {}
    /\ cut = {}

---------------------------------------------------------------------------
(* Showing the list *)

\* The user interface of Home is not between finding a feed for a diff and its end.
UiFree == job["ui"] # Nothing => job["ui"].feed = NoFeed

\* An adapter is being made and its feed is looked up, at Home in the thread of
\* the user interface.  For a remote process its own feed calls
\* subscribe_server_feed, and a worker of Home looks the feed up there.
FindFeed(p) ==
    /\ adapter[p].state = "none"
    /\ p \in alive \union {Home}
    /\ p = Home => UiFree
    /\ p \in Remotes => unsub[p] # "ui"
    /\ found' = [found EXCEPT ![p] = Lookup]
    /\ adapter' = [adapter EXCEPT ![p] = [state |-> "opening"]]
    /\ UNCHANGED <<data, ops, mapFeed, made, subs, served, unsub, alive, job, ownDiff, spoiled, cut>>

\* There was none: one is made.
MakeFeed(p) ==
    /\ found[p] = Missed
    /\ Insert
    /\ found' = [found EXCEPT ![p] = mapFeed']
    /\ UNCHANGED <<data, ops, subs, served, adapter, unsub, alive, job, ownDiff, spoiled>>

\* It subscribes to the feed it has got.  ServerFeed.add drops the subscription that
\* it has for the process, if the process has not unsubscribed yet.  It is cut off if
\* its feed is not in the map any more.
Subscribe(p) ==
    /\ adapter[p].state = "opening"
    /\ found[p] \in Feeds
    /\ LET feed == found[p]
           old  == IF p = Home \/ served[p] = feed THEN NoFeed ELSE served[p]
       IN  /\ subs' = [f \in Feeds |-> IF f = feed THEN subs[f] \union {p}
                                      ELSE IF f = old THEN subs[f] \ {p} ELSE subs[f]]
           /\ IF old = NoFeed THEN UNCHANGED mapFeed ELSE CloseIfUnused(old, subs[old] \ {p})
           /\ served' = IF p = Home THEN served ELSE [served EXCEPT ![p] = feed]
           /\ cut' = (cut \ {p})
                      \union (IF feed = mapFeed' THEN {} ELSE {p})
                      \union (IF old = NoFeed THEN {} ELSE Bereft(old, subs[old] \ {p}))
    /\ found' = [found EXCEPT ![p] = NoFeed]
    /\ adapter' = [adapter EXCEPT ![p] = NewAdapter]
    /\ spoiled' = spoiled \ {p}
    /\ UNCHANGED <<data, ops, made, unsub, alive, job, ownDiff>>

\* A diff p has still to get.
Awaits(p) ==
    \/ \E w \in Writers : job[w] # Nothing /\ (~job[w].sending \/ p \in job[w].left)
    \/ p \in Remotes /\ ownDiff[p] # Nothing

\* The view asks for a row: the list is read, by a call when it is remote.
ReadList(p) ==
    /\ IsOpen(p)
    /\ adapter[p].list = Unread
    /\ adapter[p].reading = Unread
    /\ adapter' = [adapter EXCEPT ![p].reading = data]
    /\ spoiled' = IF Awaits(p) THEN spoiled \union {p} ELSE spoiled
    /\ UNCHANGED <<data, ops, alive, job, ownDiff, feedVars>>

\* The answer is stored, whatever the adapter got meanwhile.
StoreList(p) ==
    /\ IsOpen(p)
    /\ adapter[p].reading # Unread
    /\ adapter' = [adapter EXCEPT ![p] = [Populated(@, @.reading) EXCEPT !.reading = Unread]]
    /\ UNCHANGED <<data, ops, alive, job, ownDiff, spoiled, feedVars>>

BeingSentTo(p) == \E w \in Writers : job[w] # Nothing /\ p \in job[w].left

\* The view at Home is closed.  A thread that is sending to the adapter keeps
\* it until it is done.
CloseHome ==
    /\ IsOpen(Home)
    /\ ~BeingSentTo(Home)
    /\ adapter[Home].reading = Unread
    /\ adapter' = [adapter EXCEPT ![Home] = NoAdapter]
    /\ \E feed \in Feeds :
        /\ Home \in subs[feed]
        /\ Dropped(feed, Home)
        /\ cut' = cut \union Bereft(feed, subs[feed] \ {Home})
    /\ UNCHANGED <<data, ops, made, served, found, unsub, alive, job, ownDiff, spoiled>>

\* The view of a remote process is closed and with it its feed.  The feed is
\* unsubscribed in the thread that dropped the adapter last, which is the one
\* that processes a diff if there is one.
CloseRemote(r) ==
    /\ IsOpen(r)
    /\ adapter[r].reading = Unread
    /\ ownDiff[r] = Nothing
    /\ unsub[r] = "no"
    /\ \E thread \in {"ui", "rpc"} :
        /\ thread = "rpc" => BeingSentTo(r)
        /\ unsub' = [unsub EXCEPT ![r] = thread]
    /\ adapter' = [adapter EXCEPT ![r] = NoAdapter]
    /\ UNCHANGED <<data, ops, mapFeed, made, subs, served, found, alive, job, ownDiff, spoiled, cut>>

\* The feed has forgotten that it was subscribed, for a mutant.
UnsubscribeForgotten(r) ==
    /\ unsub[r] # "no"
    /\ unsub' = [unsub EXCEPT ![r] = "no"]
    /\ UNCHANGED <<data, ops, mapFeed, made, subs, served, adapter, found, alive, job, ownDiff,
                   spoiled, cut>>

\* unsubscribe_server_feed: the subscription server_feed has is dropped,
\* whether or not it is the one that the closed feed had made.
Unsubscribe(r) ==
    /\ unsub[r] # "no"
    /\ unsub' = [unsub EXCEPT ![r] = "no"]
    /\ served' = [served EXCEPT ![r] = NoFeed]
    /\ IF served[r] # NoFeed
       THEN /\ Dropped(served[r], r)
            /\ cut' = cut \union Bereft(served[r], subs[served[r]] \ {r})
                            \union (IF IsOpen(r) THEN {r} ELSE {})
       ELSE UNCHANGED <<subs, mapFeed, cut>>
    /\ UNCHANGED <<data, ops, made, adapter, found, alive, job, ownDiff, spoiled>>

\* The process ends or its connection is lost; Home does not learn of it.
Die(r) ==
    /\ r \in alive
    /\ alive' = alive \ {r}
    /\ adapter' = [adapter EXCEPT ![r] = NoAdapter]
    /\ found' = [found EXCEPT ![r] = NoFeed]
    /\ unsub' = [unsub EXCEPT ![r] = "no"]
    /\ ownDiff' = [ownDiff EXCEPT ![r] = Nothing]
    /\ UNCHANGED <<data, ops, mapFeed, made, subs, served, job, spoiled, cut>>

---------------------------------------------------------------------------
(* Changes *)

KeysOf(list) == {list[i].key : i \in DOMAIN list}

\* The diff of a change, the kinds of change a process can make, and the list
\* after it.  A command acts on a row that its process shows; one that finds
\* no such item makes no change.
Diffs(p) ==
    [kind : {"append"}, item : [key : Keys \ KeysOf(data), ver : {0}]]
    \union [kind : {"remove"}, item : [key : KeysOf(data) \intersect KeysOf(adapter[p].list), ver : {0}]]

Replacements ==
    {[kind |-> "replace", item |-> [data[i] EXCEPT !.ver = 1 - @]] : i \in DOMAIN data}

RowOf(list, key) == CHOOSE i \in DOMAIN list : list[i].key = key

After(list, diff) ==
    CASE diff.kind = "append"  -> Append(list, diff.item)
      [] diff.kind = "remove"  -> RemoveAt(list, RowOf(list, diff.item.key))
      [] diff.kind = "replace" -> [list EXCEPT ![RowOf(list, diff.item.key)] = diff.item]

Counted == ops < MaxOps /\ ops' = ops + 1

\* Two changes at once may reach an adapter in either order.
Overlaps ==
    \/ \E w \in Writers : job[w] # Nothing
    \/ \E r \in Remotes : ownDiff[r] # Nothing

OpenProcs == {p \in Procs : IsOpen(p)}

\* The hook has its feed; a command has still to find one.
Changed(w, diff) ==
    /\ Counted
    /\ job[w] = Nothing
    /\ data' = After(data, diff)
    /\ job' = [job EXCEPT ![w] = [diff |-> diff, feed |-> IF w = "hook" THEN HookFeed ELSE NoFeed,
                                  sending |-> FALSE, left |-> {}]]
    /\ spoiled' = IF Overlaps THEN spoiled \union OpenProcs ELSE spoiled
    /\ UNCHANGED <<adapter, alive, ownDiff, feedVars>>

\* A command of Home adds, removes or replaces an item of the list it shows.
RunCommand ==
    /\ Shows(Home)
    /\ \E diff \in Diffs(Home) \union {d \in Replacements : d.item.key \in KeysOf(adapter[Home].list)} :
        Changed("ui", diff)

\* Something is added to the list and the hook is called.
CallHook ==
    \E k \in Keys \ KeysOf(data) :
        Changed("hook", [kind |-> "append", item |-> [key |-> k, ver |-> 0]])

\* A command of a remote process runs at Home; its diff is returned to that
\* process alone.
RunRemoteCommand(r) ==
    /\ Counted
    /\ Shows(r)
    /\ ownDiff[r] = Nothing
    /\ \E diff \in Diffs(r) :
        /\ data' = After(data, diff)
        /\ ownDiff' = [ownDiff EXCEPT ![r] = diff]
    /\ spoiled' = spoiled \union (IF Overlaps THEN OpenProcs ELSE OpenProcs \ {r})
    /\ UNCHANGED <<adapter, alive, job, feedVars>>

\* BoundUiModelCommand._process_diff in the process that ran the command.  An
\* error is logged.
TakeOwnDiff(r) ==
    /\ ownDiff[r] # Nothing
    /\ ownDiff' = [ownDiff EXCEPT ![r] = Nothing]
    /\ spoiled' = IF Spoils(r, ownDiff[r]) THEN spoiled \union {r} ELSE spoiled
    /\ Takes(r, ownDiff[r]) \/ Raises(r, ownDiff[r])
    /\ UNCHANGED <<data, ops, alive, job, feedVars>>

---------------------------------------------------------------------------
(* Sending *)

Aborted(w) ==
    /\ job' = [job EXCEPT ![w] = Nothing]
    /\ spoiled' = spoiled \union job[w].left

\* The command looks the feed for its diff up, in the thread of the user interface.
FindFeedToSend ==
    /\ job["ui"] # Nothing
    /\ job["ui"].feed = NoFeed
    /\ adapter[Home].state # "opening"
    /\ job' = [job EXCEPT !["ui"].feed = Lookup]
    /\ UNCHANGED <<data, ops, adapter, alive, ownDiff, spoiled, feedVars>>

MakeFeedToSend ==
    /\ job["ui"] # Nothing
    /\ job["ui"].feed = Missed
    /\ Insert
    /\ job' = [job EXCEPT !["ui"].feed = mapFeed']
    /\ UNCHANGED <<data, ops, subs, served, adapter, found, unsub, alive, ownDiff, spoiled>>

\* Feed.send begins, with the subscribers that there are.
StartSend(w) ==
    /\ job[w] # Nothing
    /\ job[w].feed \in Feeds
    /\ ~job[w].sending
    /\ job' = [job EXCEPT ![w].sending = TRUE, ![w].left = subs[job[w].feed]]
    /\ spoiled' = IF w = "hook" /\ mapFeed # HookFeed THEN spoiled \union OpenProcs ELSE spoiled
    /\ UNCHANGED <<data, ops, adapter, alive, ownDiff, feedVars>>

\* A keyed replacement has no piece to be sent to another process.
Unsendable(diff, p) == p \in Remotes /\ diff.kind = "replace"

\* The next subscriber, in any order, processes the diff: the adapter of Home,
\* or that of a remote process if it still has one.
SendTo(w, p) ==
    LET diff  == job[w].diff
        there == p \in alive \union {Home}
    IN
    /\ job[w] # Nothing
    /\ p \in job[w].left
    /\ \/ /\ there /\ ~Unsendable(diff, p)
          /\ IF IsOpen(p) THEN Takes(p, diff) ELSE UNCHANGED adapter
          /\ job' = [job EXCEPT ![w].left = @ \ {p}]
          /\ spoiled' = IF IsOpen(p) /\ Spoils(p, diff) THEN spoiled \union {p} ELSE spoiled
       \* An exception ends the loop: the other subscribers get nothing.
       \/ /\ there /\ ~Unsendable(diff, p)
          /\ Raises(p, diff)
          /\ Aborted(w)
       \* So does a call that times out, before the process takes the diff or after.
       \/ /\ there /\ ~Unsendable(diff, p)
          /\ p \in Remotes
          /\ UNCHANGED adapter \/ Takes(p, diff)
          /\ Aborted(w)
       \* The piece of the diff is asked for before the call, also for a process that has gone.
       \/ /\ Unsendable(diff, p)
          /\ UNCHANGED adapter
          /\ Aborted(w)
    /\ UNCHANGED <<data, ops, alive, ownDiff, feedVars>>

\* RemoteIsGoneError: the subscriber leaves the feed, not the server feed.
DropGone(w, r) ==
    /\ job[w] # Nothing
    /\ r \in job[w].left \ alive
    /\ ~Unsendable(job[w].diff, r)
    /\ subs' = [subs EXCEPT ![job[w].feed] = @ \ {r}]
    /\ job' = [job EXCEPT ![w].left = @ \ {r}]
    /\ UNCHANGED <<data, ops, mapFeed, made, served, adapter, found, unsub, alive, ownDiff, spoiled, cut>>

EndSend(w) ==
    /\ job[w] # Nothing
    /\ job[w].sending
    /\ job[w].left = {}
    /\ job' = [job EXCEPT ![w] = Nothing]
    /\ UNCHANGED <<data, ops, adapter, alive, ownDiff, spoiled, feedVars>>

FeedsNext ==
    \/ \E p \in Procs : FindFeed(p) \/ MakeFeed(p) \/ Subscribe(p) \/ ReadList(p) \/ StoreList(p)
    \/ CloseHome
    \/ \E r \in Remotes :
        CloseRemote(r) \/ Unsubscribe(r) \/ Die(r) \/ RunRemoteCommand(r) \/ TakeOwnDiff(r)
    \/ RunCommand
    \/ CallHook
    \/ FindFeedToSend
    \/ MakeFeedToSend
    \/ \E w \in Writers :
        \/ StartSend(w) \/ EndSend(w)
        \/ \E p \in Procs : SendTo(w, p)
        \/ \E r \in Remotes : DropGone(w, r)

FeedsSpec == FeedsInit /\ [][FeedsNext]_allVars

---------------------------------------------------------------------------
(* Properties *)

Item == [key : Keys, ver : {0, 1}]
Lists == Seq(Item)
Diff == [kind : {"append", "replace", "remove"}, item : Item]

FeedsTypeOK ==
    /\ data \in Lists /\ ops \in 0..MaxOps
    /\ mapFeed \in Feeds \union {NoFeed} /\ made \in Feeds
    /\ subs \in [Feeds -> SUBSET Procs]
    /\ served \in [Remotes -> Feeds \union {NoFeed}]
    /\ adapter \in [Procs -> [state : {"none", "opening"}]
                    \union [state : {"open"}, list : Lists \union {Unread}, index : [Keys -> Nat],
                            reading : Lists \union {Unread}, shifted : BOOLEAN]]
    /\ found \in [Procs -> Feeds \union {NoFeed, Missed}]
    /\ \A p \in Procs : adapter[p].state = "opening" => found[p] # NoFeed
    /\ unsub \in [Remotes -> {"no", "ui", "rpc"}]
    /\ job \in [Writers -> {Nothing} \union [diff : Diff, feed : Feeds \union {NoFeed, Missed},
                                             sending : BOOLEAN, left : SUBSET Procs]]
    /\ ownDiff \in [Remotes -> {Nothing} \union Diff]
    /\ alive \subseteq Remotes /\ spoiled \subseteq Procs /\ cut \subseteq Procs

\* Nothing is under way.
Quiet ==
    /\ \A w \in Writers : job[w] = Nothing
    /\ \A r \in Remotes : ownDiff[r] = Nothing /\ unsub[r] = "no"
    /\ \A p \in Procs : adapter[p].state # "opening"

\* A list that is shown is the list of Home, when nothing is under way: no
\* sequence of adds, removals and replacements, with feeds that are made, closed
\* and replaced meanwhile, makes an adapter differ, but for the ways in spoiled
\* and cut.  About FnListAdapter, its feed and feed_factory.
ShownIsCurrent ==
    Quiet =>
        \A p \in Procs \ (spoiled \union cut) :
            Shows(p) /\ adapter[p].reading = Unread => adapter[p].list = data

\* Whoever shows the list is subscribed to the feed that the next command sends
\* its diff to, unless it was cut off: its feed was replaced by one that another
\* thread had made, or was out of the map before it subscribed; a replaced feed
\* took that of the map with it when it closed; an old unsubscription took its
\* subscription.  About Feed._subscriber_gone, feed_factory and ServerFeed.
OpenIsSubscribed ==
    Quiet =>
        \A p \in OpenProcs \ cut : mapFeed # NoFeed /\ p \in subs[mapFeed]

\* server_feed keeps a subscription of a live process for as long as it shows
\* the list and no longer, and the subscription is in its feed.
\* About Feed._unsubscribe_from_remote_feed and ServerFeed.remove.
UnusedIsDropped ==
    /\ FeedsTypeOK
    /\ Quiet =>
        \A r \in alive : served[r] # NoFeed => IsOpen(r) /\ r \in subs[served[r]]
=============================================================================
