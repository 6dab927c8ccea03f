---------------------------- MODULE SystemConfig ----------------------------
(***************************************************************************)
(* Configuration layers of a System, the caches of their merge, and the    *)
(* associations that follow them (base/system/config_layer.dyn.py,         *)
(* config_ctl.dyn.py, system.dyn.py, base/assoc_key.dyn.py,                *)
(* boot/association_registry.py, models/config/config_item_list.dyn.py).   *)
(*                                                                         *)
(* An item is addressed by the service it belongs to and its key; a layer  *)
(* is a partial function from items to templates.  Two threads work on it  *)
(* with no lock: the user interface's, which sets, removes, moves and      *)
(* resolves items, and the network's, which receives associations with     *)
(* bundles.  Every place where one may overtake the other is a step of its *)
(* own.                                                                    *)
(***************************************************************************)
EXTENDS Naturals, Sequences, FiniteSets, Functions

CONSTANTS
    Layers,       \* sequence of layer names, in the order they are loaded
    Services,     \* services with a configuration of items
    AssocKey,     \* the service whose items name the associated services
    Keys,         \* keys of an ordinary service
    Templates,    \* what an item may be set to
    UserItems,    \* what commands set
    NetItems,     \* what is received with bundles
    MaxOps,       \* bound: operations begun, restarts included
    None

ASSUME AssocKeyIsService == AssocKey \in Services

UI  == "ui"
Net == "net"
Threads == {UI, Net}

LayerNames   == Range(Layers)
DefaultLayer == Layers[Len(Layers)]
ItemKeys == (Services \ {AssocKey}) \X Keys \cup {AssocKey} \X (Services \ {AssocKey})
Items    == ItemKeys \X Templates
ASSUME InputsAreItems == UserItems \subseteq Items /\ NetItems \subseteq Items

Configs  == UNION {[D -> Templates] : D \in SUBSET ItemKeys}
ASSUME LayersAreLoaded == Layers \in Seq(LayerNames) /\ Layers # << >>
ASSUME NoneIsNothing == None \notin LayerNames \cup Configs
ASSUME OpsAreCounted == MaxOps \in Nat

VARIABLES
    config,    \* [LayerNames -> Configs]: MutableConfigLayer._config
    file,      \* [LayerNames -> Configs]: what a restart loads
    cache,     \* System._config_templates_cache: Configs or None
    template,  \* LazyDictConfig._config_template of every service
    value,     \* LazyDictConfig._config: item -> the template it is made from
    assoc,     \* AssociationRegistry: the associated items
    op,        \* [Threads -> what the thread is in the middle of]
    \* History, for the properties only:
    unsaved,   \* layers whose last save failed or wrote over a newer one
    stale,     \* a cache was filled from what had been overtaken, or not dropped
    loose,     \* items removed, or of a service (un)associated, since they were set
    left       \* bound: operations that may still begin

layerVars == <<config, file>>
cacheVars == <<cache, template, value>>
ghostVars == <<unsaved, stale, loose>>
vars == <<layerVars, cacheVars, assoc, op, ghostVars, left>>

Idle == [at |-> "idle"]
Begin == left > 0 /\ left' = left - 1

(***************************************************************************)
(* System._collect_layers_configs with SingleStructCtl.merge: a later      *)
(* layer's item replaces an earlier one's.                                 *)
(***************************************************************************)
Merged(cfg) ==
    [k \in UNION {DOMAIN cfg[l] : l \in LayerNames} |->
        LET top == CHOOSE i \in DOMAIN Layers :
                        /\ k \in DOMAIN cfg[Layers[i]]
                        /\ \A j \in DOMAIN Layers :
                                k \in DOMAIN cfg[Layers[j]] => j <= i
        IN  cfg[Layers[top]][k]]

(* System._config_templates: the cached merge, or one made now. *)
Current == IF cache = None THEN Merged(config) ELSE cache

(* AssociationKeyRegistry finds the service in its own lazy configuration. *)
Associated(s) == <<AssocKey, s>> \in DOMAIN value \cup DOMAIN template

ItemsOf(cfg) == {<<k, cfg[k]>> : k \in DOMAIN cfg}
WithItem(cfg, k, t) == [x \in DOMAIN cfg \cup {k} |-> IF x = k THEN t ELSE cfg[x]]
WithoutItem(cfg, k) == Restrict(cfg, DOMAIN cfg \ {k})
LooseBy(k) == IF k[1] = AssocKey THEN {x \in ItemKeys : x[1] = k[2]} ELSE {}

TypeOK ==
    /\ config \in [LayerNames -> Configs]
    /\ file \in [LayerNames -> Configs]
    /\ cache \in Configs \cup {None}
    /\ template \in Configs
    /\ value \in Configs
    /\ assoc \subseteq Items
    /\ op \in [Threads -> [at : {"idle"}]
                 \cup [at : {"save", "write", "drop", "collect", "store", "hook"},
                       kind : {"set", "remove"}, layer : LayerNames, key : ItemKeys,
                       other : LayerNames \cup {None}, snapshot : Configs,
                       over : SUBSET LayerNames]
                 \cup [at : {"resolve"}, key : ItemKeys, from : Templates,
                       over : SUBSET LayerNames]]
    /\ unsaved \subseteq LayerNames
    /\ stale \in BOOLEAN
    /\ loose \subseteq ItemKeys
    /\ left \in 0..MaxOps

-----------------------------------------------------------------------------
(* MutableConfigLayer.set and .remove: memory first, then the file, then   *)
(* the caches, then the hooks.                                             *)

\* "other" is the layer a move still has to remove from, or has moved to.
\* History: "over" is the layers others changed since the thread read them.
Start(t, kind, l, k, other) ==
    op' = [u \in Threads |->
             IF u = t THEN [at |-> "save", kind |-> kind, layer |-> l, key |-> k,
                            other |-> other, snapshot |-> << >>, over |-> {}]
             ELSE IF op[u] = Idle THEN Idle
             ELSE [op[u] EXCEPT !.over = @ \cup {l}]]

SetItem(t, l, k, v, from) ==
    /\ config' = [config EXCEPT ![l] = WithItem(@, k, v)]
    /\ Start(t, "set", l, k, from)

RemoveItem(t, l, k, movedTo) ==
    /\ config' = [config EXCEPT ![l] = WithoutItem(@, k)]
    /\ Start(t, "remove", l, k, movedTo)
    /\ loose' = loose \cup {k}

\* A command sets an item in a layer.
UserSet(l, k, v) ==
    /\ op[UI] = Idle
    /\ SetItem(UI, l, k, v, None)
    /\ loose' = loose \cup LooseBy(k)
    /\ UNCHANGED <<file, cacheVars, assoc, unsaved, stale>>

\* config_item_list.remove: a key the layer does not have raises KeyError.
UserRemove(l, k) ==
    /\ op[UI] = Idle
    /\ k \in DOMAIN config[l]
    /\ RemoveItem(UI, l, k, None)
    /\ UNCHANGED <<file, cacheVars, assoc, unsaved, stale>>

(***************************************************************************)
(* config_item_list._move_item: the merged config's template is set in the *)
(* target, and then the source's is removed.                               *)
(***************************************************************************)
\* Mutant: the item is removed before it is set.
MoveRemovesFirst(source, target, k) ==
    /\ op[UI] = Idle
    /\ source # target
    /\ k \in DOMAIN config[source]
    /\ RemoveItem(UI, source, k, target)
    /\ UNCHANGED <<file, cacheVars, assoc, unsaved, stale>>

UserMove(source, target, k) ==
    /\ op[UI] = Idle
    /\ source # target
    /\ k \in DOMAIN config[source]
    /\ k \in DOMAIN Current
    /\ SetItem(UI, target, k, Current[k], source)
    /\ cache' = Current
    /\ loose' = loose \cup LooseBy(k)
    /\ UNCHANGED <<file, template, value, assoc, unsaved, stale>>

(***************************************************************************)
(* AssociationKeyRegistry.on_assocation_received sets the item in the      *)
(* default layer if its service is an associated one.                      *)
(***************************************************************************)
OnAssociationReceived(k, v) ==
    \/ /\ Associated(k[1])
       /\ SetItem(Net, DefaultLayer, k, v, None)
       /\ loose' = loose \cup LooseBy(k)
    \/ /\ ~Associated(k[1])
       /\ UNCHANGED <<config, op, loose>>

\* AssociationRegistry.set_list, with one association.
Receive(k, v) ==
    /\ op[Net] = Idle
    /\ assoc' = assoc \cup {<<k, v>>}
    /\ OnAssociationReceived(k, v)
    /\ UNCHANGED <<file, cacheVars, unsaved, stale>>

(***************************************************************************)
(* ProjectConfigLayer._save and FileBundleConfigLayer._save make the whole *)
(* layer's data and write it.  A template that has no data, or the file    *)
(* system, may make it fail: memory stays changed, the caches stay, no     *)
(* hook is called, and a move ends here.                                   *)
(***************************************************************************)
Collect(t) ==
    /\ op[t].at = "save"
    /\ op' = [op EXCEPT ![t].at = "write", ![t].over = {},
                        ![t].snapshot = config[op[t].layer]]
    /\ UNCHANGED <<layerVars, cacheVars, assoc, ghostVars>>

Write(t) ==
    /\ op[t].at = "write"
    /\ file' = [file EXCEPT ![op[t].layer] = op[t].snapshot]
    /\ op' = [op EXCEPT ![t].at = "drop", ![t].snapshot = << >>]
    /\ unsaved' = IF op[t].layer \in op[t].over
                    THEN unsaved \cup {op[t].layer} ELSE unsaved \ {op[t].layer}
    /\ UNCHANGED <<config, cacheVars, assoc, stale, loose>>

SaveFails(t) ==
    /\ op[t].at = "save"
    /\ op' = [op EXCEPT ![t] = Idle]
    /\ unsaved' = unsaved \cup {op[t].layer}
    /\ stale' = TRUE
    /\ loose' = loose \cup {op[t].key}
    /\ UNCHANGED <<layerVars, cacheVars, assoc>>

(***************************************************************************)
(* System.invalidate_config_cache: the merge is forgotten, and then every  *)
(* LazyDictConfig forgets its values and asks for its template, which      *)
(* makes the merge again.  The merge is stored some time after the layers  *)
(* were read.                                                              *)
(***************************************************************************)
\* Mutant: a removal does not invalidate the caches.
DropUnlessRemoved(t) ==
    /\ op[t].at = "drop"
    /\ cache' = IF op[t].kind = "remove" THEN cache ELSE None
    /\ op' = [op EXCEPT ![t].at = "collect", ![t].over = {}]
    /\ UNCHANGED <<layerVars, template, value, assoc, ghostVars>>

Drop(t) ==
    /\ op[t].at = "drop"
    /\ cache' = None
    /\ op' = [op EXCEPT ![t].at = "collect", ![t].over = {}]
    /\ UNCHANGED <<layerVars, template, value, assoc, ghostVars>>

Merge(t) ==
    /\ op[t].at = "collect"
    /\ op' = [op EXCEPT ![t].at = "store",
                        ![t].snapshot = Current,
                        ![t].over = IF cache # None /\ stale THEN LayerNames ELSE @]
    /\ UNCHANGED <<layerVars, cacheVars, assoc, ghostVars>>

Store(t) ==
    /\ op[t].at = "store"
    /\ cache' = op[t].snapshot
    /\ template' = op[t].snapshot
    /\ value' = << >>
    /\ op' = [u \in Threads |->
                IF u = t THEN [op[t] EXCEPT !.at = "hook", !.snapshot = << >>]
                ELSE IF op[u].at = "resolve" THEN [op[u] EXCEPT !.over = LayerNames]
                ELSE op[u]]
    /\ stale' = (op[t].over # {})
    /\ UNCHANGED <<layerVars, assoc, unsaved, loose>>

(***************************************************************************)
(* System._call_config_hooks_for_key: the hook is called for what the      *)
(* merged config has under the key now.  So the hook for a removed item is *)
(* called with what another layer has there, or not at all.                *)
(* AssociationKeyRegistry is the hook.  The second half of a move starts.  *)
(***************************************************************************)
HookedItems(k) == {i \in ItemsOf(Current) : i[1] = k}

HookSet(t) ==
    /\ op[t].at = "hook" /\ op[t].kind = "set"
    /\ LET k == op[t].key
           known == Associated(k[1])
           hooked == IF known THEN HookedItems(k) ELSE {}
           \* What is hooked is what the layers have: the item is associated.
           tight == known /\ hooked = {i \in ItemsOf(Merged(config)) : i[1] = k}
           settled == IF tight THEN loose \ {k} ELSE loose \cup {k}
       IN  /\ assoc' = assoc \cup hooked
           /\ IF op[t].other # None /\ k \in DOMAIN config[op[t].other]
              THEN RemoveItem(t, op[t].other, k, op[t].layer)
              ELSE /\ op' = [op EXCEPT ![t] = Idle]
                   /\ loose' = settled
                   /\ UNCHANGED config
    /\ cache' = Current
    /\ UNCHANGED <<file, template, value, unsaved, stale>>

HookRemoved(t) ==
    /\ op[t].at = "hook" /\ op[t].kind = "remove"
    /\ assoc' = assoc \ HookedItems(op[t].key)
    /\ op' = [op EXCEPT ![t] = Idle]
    /\ cache' = Current
    /\ loose' = loose \cup {op[t].key} \cup LooseBy(op[t].key)
    /\ UNCHANGED <<layerVars, template, value, unsaved, stale>>

-----------------------------------------------------------------------------
(* LazyDictConfig._resolve_key and _resolve_template: the value is made    *)
(* from the template, which may take long, and is kept.                    *)
Resolve(k) ==
    /\ op[UI] = Idle
    /\ k \in DOMAIN template \ DOMAIN value
    /\ op' = [op EXCEPT ![UI] = [at |-> "resolve", key |-> k, from |-> template[k],
                                     over |-> {}]]
    /\ UNCHANGED <<layerVars, cacheVars, assoc, ghostVars>>

Keep ==
    /\ op[UI].at = "resolve"
    /\ value' = WithItem(value, op[UI].key, op[UI].from)
    /\ stale' = (stale \/ op[UI].over # {})
    /\ op' = [op EXCEPT ![UI] = Idle]
    /\ UNCHANGED <<layerVars, cache, template, assoc, unsaved, loose>>

(***************************************************************************)
(* The process ends anywhere and starts again: load_projects and           *)
(* load_config_layer read the files, and the hook is called for every item *)
(* when it is added, after the layers.                                     *)
(***************************************************************************)
Loaded == file

\* Mutant: a hook that is added is not called for what is loaded already.
RestartUnhooked ==
    /\ config' = file
    /\ cache' = Merged(file)
    /\ template' = Merged(file)
    /\ value' = << >>
    /\ assoc' = {}
    /\ op' = [t \in Threads |-> Idle]
    /\ unsaved' = {}
    /\ stale' = FALSE
    /\ loose' = {}
    /\ UNCHANGED file

Restart ==
    /\ config' = Loaded
    /\ cache' = Merged(Loaded)
    /\ template' = Merged(Loaded)
    /\ value' = << >>
    /\ assoc' = {i \in ItemsOf(Merged(Loaded)) :
                    <<AssocKey, i[1][1]>> \in DOMAIN Merged(Loaded)}
    /\ op' = [t \in Threads |-> Idle]
    /\ unsaved' = {}
    /\ stale' = FALSE
    /\ loose' = {}
    /\ UNCHANGED file

Init ==
    /\ config = [l \in LayerNames |-> << >>]
    /\ file = config
    /\ cache = << >> /\ template = << >> /\ value = << >>
    /\ assoc = {}
    /\ op = [t \in Threads |-> Idle]
    /\ unsaved = {} /\ stale = FALSE /\ loose = {}
    /\ left = MaxOps

UserNext ==
    \/ Begin /\ \E l \in LayerNames, i \in UserItems : UserSet(l, i[1], i[2])
    \/ Begin /\ \E l \in LayerNames, k \in ItemKeys : UserRemove(l, k)
    \/ Begin /\ \E source, target \in LayerNames, k \in ItemKeys : UserMove(source, target, k)
    \/ Begin /\ \E k \in ItemKeys : Resolve(k)
    \/ Keep /\ UNCHANGED left

ThreadNext(t) ==
    \/ Collect(t) \/ Write(t) \/ SaveFails(t)
    \/ Drop(t) \/ Merge(t) \/ Store(t)
    \/ HookSet(t) \/ HookRemoved(t)

Next ==
    \/ UserNext
    \/ Begin /\ \E i \in NetItems : Receive(i[1], i[2])
    \/ UNCHANGED left /\ \E t \in Threads : ThreadNext(t)
    \/ Begin /\ Restart

Spec == Init /\ [][Next]_vars

-----------------------------------------------------------------------------
Quiet == \A t \in Threads : op[t] = Idle

(***************************************************************************)
(* When no thread is in the middle of anything:                            *)
(* what services see is the merge of the layers in memory, the templates   *)
(* and every value already made from them, unless a save failed before the *)
(* caches were dropped or a thread stored what another had overtaken; and  *)
(* a restart would load what is in memory, unless a save of the layer      *)
(* failed or wrote an older state over a newer one.                        *)
(***************************************************************************)
QuietIsConsistent ==
    /\ TypeOK
    /\ Quiet =>
        /\ ~stale => /\ cache = Merged(config) /\ template = Merged(config)
                     /\ \A k \in DOMAIN value :
                            k \in DOMAIN template /\ value[k] = template[k]
        /\ \A l \in LayerNames \ unsaved : file[l] = config[l]

(***************************************************************************)
(* The item seen under a key of an associated service is associated, once  *)
(* it was set with its service associated and nothing was removed since.   *)
(***************************************************************************)
SeenIsAssociated ==
    Quiet /\ ~stale =>
        \A k \in DOMAIN template \ loose :
            Associated(k[1]) => <<k, template[k]>> \in assoc

(***************************************************************************)
(* A move never takes an item out of the files: when the layer it leaves   *)
(* is written without it, the file of the layer it goes to has it, so a    *)
(* restart at any step finds the key - unless a save of that layer failed  *)
(* or wrote an older state over a newer one.                               *)
(***************************************************************************)
MoveKeepsItem ==
    [][\A l, target \in LayerNames, k \in ItemKeys :
         /\ k \in DOMAIN file[l] /\ k \notin DOMAIN file'[l]
         /\ op[UI] # Idle /\ op[UI].at = "write"
         /\ op[UI].layer = l /\ op[UI].key = k /\ op[UI].other = target
         /\ target \notin unsaved
         => k \in DOMAIN file[target]]_vars
=============================================================================
