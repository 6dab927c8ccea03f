------------------------- MODULE SystemConfigProofs -------------------------
(* Proofs about the configuration layers of a System. *)
EXTENDS SystemConfig, TLAPS, SequenceTheorems, WellFoundedInduction

(* The inductive invariant. *)

M == Merged(config)

Busy == {"save", "write", "drop", "collect", "store", "hook"}

Saves(o, l) == o.at \in {"save", "write"} /\ o.layer = l

\* A layer whose file is behind is being saved, or is known to be unsaved; what is
\* about to be written is the layer, unless it was changed since it was collected.
FileInv ==
    /\ \A l \in LayerNames \ unsaved : file[l] = config[l] \/ \E t \in Threads : Saves(op[t], l)
    /\ \A t \in Threads :
        op[t].at = "write" /\ op[t].layer \notin op[t].over
            => op[t].snapshot = config[op[t].layer]

\* Unless stale, the caches are behind only as long as a thread has still to drop or
\* to store them; what a thread is about to store is the merge of the layers, unless
\* they were changed since it read them; and a value is made from its template.
CacheInv ==
    /\ cache = None => \E t \in Threads : op[t].at \in {"collect", "store"}
    /\ ~stale => /\ \/ cache \in {None, M}
                    \/ \E t \in Threads : op[t].at \in {"save", "write", "drop"}
                 /\ \/ template = M
                    \/ \E t \in Threads : op[t].at \in Busy \ {"hook"}
                 /\ \A k \in DOMAIN value : k \in DOMAIN template /\ value[k] = template[k]
    /\ \A t \in Threads :
        /\ op[t].at = "collect" /\ op[t].over = {} /\ ~stale => cache \in {None, M}
        /\ op[t].at = "store" /\ op[t].over = {} => op[t].snapshot = M
        /\ op[t].at = "resolve" /\ op[t].over = {} =>
            op[t].key \in DOMAIN template /\ op[t].from = template[op[t].key]

\* An item that is not loose is associated, or is being set.
AssocInv ==
    \A k \in DOMAIN M \ loose :
        <<AssocKey, k[1]>> \in DOMAIN M =>
            \/ <<k, M[k]>> \in assoc
            \/ \E t \in Threads : op[t].at \in Busy /\ op[t].kind = "set" /\ op[t].key = k

\* The file of a layer has the item, or is known to be behind.
Saved(behind, files, l, k) == l \in behind \/ k \in DOMAIN files[l]

\* Only the user's thread moves and removes.  What it set stays in its layer until it
\* removes it, in memory and, once written, in the file; what it moves stays where it
\* was until it removes it there, and is in the file of that layer at the latest when
\* the other thread has saved it.
MoveInv ==
    /\ op[Net].at \in Busy => op[Net].kind = "set" /\ op[Net].other = None
    /\ op[UI].at \in Busy =>
        LET l == op[UI].layer
            k == op[UI].key
            other == op[UI].other
        IN  /\ other # l
            /\ op[UI].kind = "set" =>
                /\ k \in DOMAIN config[l]
                /\ op[UI].at = "write" => k \in DOMAIN op[UI].snapshot
                /\ op[UI].at \notin {"save", "write"} => Saved(unsaved, file, l, k)
                /\ other # None =>
                    k \in DOMAIN config[other] /\ (Saved(unsaved, file, other, k) \/ Saves(op[Net], other))
            /\ op[UI].kind = "remove" /\ other # None =>
                k \in DOMAIN config[other] /\ Saved(unsaved, file, other, k)

IInv == TypeOK /\ FileInv /\ CacheInv /\ AssocInv /\ MoveInv

-----------------------------------------------------------------------------
(* Configurations *)

\* Some of the first n numbers is the last one of a set of them.
LEMMA LastOf ==
    ASSUME NEW n \in Nat, NEW S, S \subseteq 1 .. n, S # {}
    PROVE  \E i \in S : \A j \in S : j <= i
<1> DEFINE back == {m \in Nat : n - m \in S}
           less == {p \in Nat \X Nat : p[1] < p[2]}
<1>1. IsWellFoundedOn(less, Nat)
  <2>1. OpToRel(<, Nat) = less
    BY DEF OpToRel
  <2> QED BY <2>1, NatLessThanWellFounded
<1>2. \A i \in S : n - i \in back /\ n - (n - i) = i
  <2> SUFFICES ASSUME NEW i \in S PROVE n - i \in back /\ n - (n - i) = i
    OBVIOUS
  <2>1. n - i \in Nat /\ n - (n - i) = i
    OBVIOUS
  <2>2. n - (n - i) \in S
    BY <2>1
  <2> QED BY <2>1, <2>2
<1>3. back \subseteq Nat /\ back # {}
  BY <1>2
<1> HIDE DEF less
<1>4. PICK m \in back : \A k \in back : <<k, m>> \notin less
  BY <1>1, <1>3, WFMin, Zenon
<1>5. \A k \in back : ~(k < m)
  BY <1>4 DEF less
<1>6. ASSUME NEW j \in S PROVE j <= n - m
  <2>1. j \in Nat /\ n - j \in Nat /\ ~(n - j < m)
    BY <1>2, <1>5
  <2> QED BY <2>1, <1>4
<1> QED BY <1>4, <1>6

\* A configuration has templates under some of the keys.
LEMMA ConfigOf ==
    ASSUME NEW c \in Configs
    PROVE  /\ DOMAIN c \subseteq ItemKeys
           /\ \A k \in DOMAIN c : c[k] \in Templates
           /\ c = [k \in DOMAIN c |-> c[k]]
<1>1. PICK D \in SUBSET ItemKeys : c \in [D -> Templates]
  BY DEF Configs
<1> QED BY <1>1

\* A function from items to templates is a configuration.
LEMMA IsConfig ==
    ASSUME NEW D \in SUBSET ItemKeys, NEW c \in [D -> Templates]
    PROVE  c \in Configs
BY DEF Configs

\* So is the empty one.
LEMMA EmptyConfig == << >> \in Configs /\ DOMAIN << >> = {}
<1>1. << >> \in [1 .. 0 -> Templates]
  BY EmptySeq, LenProperties
<1>2. 1 .. 0 = {}
  OBVIOUS
<1>3. << >> \in [{} -> Templates]
  BY <1>1, <1>2
<1> QED BY <1>3, IsConfig

\* Setting and removing an item change the configuration under its key alone.
LEMMA ItemSet ==
    ASSUME NEW c \in Configs, NEW k \in ItemKeys, NEW v \in Templates
    PROVE  /\ WithItem(c, k, v) \in Configs
           /\ DOMAIN WithItem(c, k, v) = DOMAIN c \cup {k}
           /\ \A x \in DOMAIN c \ {k} : WithItem(c, k, v)[x] = c[x]
<1> DEFINE w == WithItem(c, k, v)
<1>1. DOMAIN c \subseteq ItemKeys /\ \A x \in DOMAIN c : c[x] \in Templates
  BY ConfigOf
<1>2. DOMAIN w = DOMAIN c \cup {k} /\ \A x \in DOMAIN c \ {k} : w[x] = c[x]
  BY DEF WithItem
<1>3. w \in [DOMAIN c \cup {k} -> Templates]
  BY <1>1 DEF WithItem
<1>4. w \in Configs
  <2> HIDE DEF w
  <2> QED BY <1>1, <1>3, IsConfig
<1> QED BY <1>2, <1>4

\* A configuration without one item.
LEMMA ItemRemoved ==
    ASSUME NEW c \in Configs, NEW k
    PROVE  /\ WithoutItem(c, k) \in Configs
           /\ DOMAIN WithoutItem(c, k) = DOMAIN c \ {k}
           /\ \A x \in DOMAIN c \ {k} : WithoutItem(c, k)[x] = c[x]
<1> DEFINE w == WithoutItem(c, k)
<1>1. DOMAIN c \subseteq ItemKeys /\ \A x \in DOMAIN c : c[x] \in Templates
  BY ConfigOf
<1>2. DOMAIN w = DOMAIN c \ {k} /\ \A x \in DOMAIN c \ {k} : w[x] = c[x]
  BY DEF WithoutItem, Restrict
<1>3. w \in [DOMAIN c \ {k} -> Templates]
  BY <1>1 DEF WithoutItem, Restrict
<1>4. w \in Configs
  <2> HIDE DEF w
  <2> QED BY <1>1, <1>3, IsConfig
<1> QED BY <1>2, <1>4

\* Layers are numbered from one, and each has a number.
LEMMA LayerAt ==
    /\ Len(Layers) \in Nat \ {0} /\ DOMAIN Layers = 1 .. Len(Layers)
    /\ \A i \in DOMAIN Layers : Layers[i] \in LayerNames
    /\ \A l \in LayerNames : \E i \in DOMAIN Layers : Layers[i] = l
    /\ DefaultLayer \in LayerNames
<1>1. Len(Layers) \in Nat \ {0} /\ DOMAIN Layers = 1 .. Len(Layers)
  BY LayersAreLoaded, LenProperties, EmptySeq
<1>2. /\ \A i \in DOMAIN Layers : Layers[i] \in LayerNames
      /\ \A l \in LayerNames : \E i \in DOMAIN Layers : Layers[i] = l
  BY DEF LayerNames, Range
<1> QED BY <1>1, <1>2 DEF DefaultLayer

\* The merge has every key that a layer has, with the item of the last one that has it.
LEMMA MergedTop ==
    ASSUME NEW cfg \in [LayerNames -> Configs], NEW k
    PROVE  /\ k \in DOMAIN Merged(cfg) <=> \E l \in LayerNames : k \in DOMAIN cfg[l]
           /\ k \in DOMAIN Merged(cfg) =>
                \E i \in DOMAIN Layers :
                    /\ k \in DOMAIN cfg[Layers[i]]
                    /\ \A j \in DOMAIN Layers : k \in DOMAIN cfg[Layers[j]] => j <= i
                    /\ Merged(cfg)[k] = cfg[Layers[i]][k]
<1> DEFINE Top(i) == /\ k \in DOMAIN cfg[Layers[i]]
                     /\ \A j \in DOMAIN Layers : k \in DOMAIN cfg[Layers[j]] => j <= i
<1>1. k \in DOMAIN Merged(cfg) <=> \E l \in LayerNames : k \in DOMAIN cfg[l]
  BY DEF Merged
<1>2. ASSUME k \in DOMAIN Merged(cfg)
      PROVE  \E i \in DOMAIN Layers : Top(i) /\ Merged(cfg)[k] = cfg[Layers[i]][k]
  <2> DEFINE S == {i \in DOMAIN Layers : k \in DOMAIN cfg[Layers[i]]}
  <2>1. S \subseteq 1 .. Len(Layers) /\ S # {} /\ Len(Layers) \in Nat
    BY <1>1, <1>2, LayerAt
  <2>2. PICK i \in S : \A j \in S : j <= i
    BY <2>1, LastOf, Zenon
  <2>3. \E x \in DOMAIN Layers : Top(x)
    BY <2>2
  <2> DEFINE top == CHOOSE x \in DOMAIN Layers : Top(x)
  <2>4. top \in DOMAIN Layers /\ Top(top)
    BY <2>3
  <2>5. Merged(cfg)[k] = cfg[Layers[top]][k]
    BY <1>1, <1>2 DEF Merged
  <2> HIDE DEF top
  <2> QED BY <2>4, <2>5
<1> QED BY <1>1, <1>2

\* The merge of configurations is one.
LEMMA MergedType ==
    ASSUME NEW cfg \in [LayerNames -> Configs] PROVE Merged(cfg) \in Configs
<1> DEFINE m == Merged(cfg)
           D == UNION {DOMAIN cfg[l] : l \in LayerNames}
<1>1. D \in SUBSET ItemKeys
  BY ConfigOf
<1>2. DOMAIN m = D /\ m = [k \in D |-> m[k]]
  BY DEF Merged
<1>3. \A k \in D : m[k] \in Templates
  <2> SUFFICES ASSUME NEW k \in D PROVE m[k] \in Templates
    OBVIOUS
  <2>1. PICK i \in DOMAIN Layers : k \in DOMAIN cfg[Layers[i]] /\ m[k] = cfg[Layers[i]][k]
    BY <1>2, MergedTop
  <2>2. cfg[Layers[i]] \in Configs
    BY LayerAt
  <2> QED BY <2>1, <2>2, ConfigOf
<1> HIDE DEF m, D
<1>4. m \in [D -> Templates]
  BY <1>2, <1>3
<1> QED BY <1>1, <1>4, IsConfig DEF m

\* Where the layers agree on a key, so do their merges.
LEMMA MergedAgree ==
    ASSUME NEW c1 \in [LayerNames -> Configs], NEW c2 \in [LayerNames -> Configs], NEW k,
           \A l \in LayerNames : k \in DOMAIN c1[l] <=> k \in DOMAIN c2[l],
           \A l \in LayerNames : k \in DOMAIN c1[l] => c1[l][k] = c2[l][k]
    PROVE  /\ k \in DOMAIN Merged(c1) <=> k \in DOMAIN Merged(c2)
           /\ k \in DOMAIN Merged(c1) => Merged(c1)[k] = Merged(c2)[k]
<1>1. k \in DOMAIN Merged(c1) <=> k \in DOMAIN Merged(c2)
  BY MergedTop
<1>2. ASSUME k \in DOMAIN Merged(c1) PROVE Merged(c1)[k] = Merged(c2)[k]
  <2>1. PICK i \in DOMAIN Layers :
            /\ k \in DOMAIN c1[Layers[i]]
            /\ \A j \in DOMAIN Layers : k \in DOMAIN c1[Layers[j]] => j <= i
            /\ Merged(c1)[k] = c1[Layers[i]][k]
    BY <1>2, MergedTop
  <2>2. PICK j \in DOMAIN Layers :
            /\ k \in DOMAIN c2[Layers[j]]
            /\ \A h \in DOMAIN Layers : k \in DOMAIN c2[Layers[h]] => h <= j
            /\ Merged(c2)[k] = c2[Layers[j]][k]
    BY <1>1, <1>2, MergedTop
  <2>3. i \in Nat /\ j \in Nat /\ Layers[i] \in LayerNames /\ Layers[j] \in LayerNames
    BY LayerAt
  <2>4. i <= j /\ j <= i
    BY <2>1, <2>2, <2>3
  <2>5. i = j
    BY <2>3, <2>4
  <2> QED BY <2>1, <2>2, <2>3, <2>5
<1> QED BY <1>1, <1>2

-----------------------------------------------------------------------------
(* What the threads are in the middle of *)

Changes ==
    [at : Busy, kind : {"set", "remove"}, layer : LayerNames, key : ItemKeys,
     other : LayerNames \cup {None}, snapshot : Configs, over : SUBSET LayerNames]

Resolves == [at : {"resolve"}, key : ItemKeys, from : Templates, over : SUBSET LayerNames]

Ops == {Idle} \cup Changes \cup Resolves

\* The type of every variable, and what an operation has at each of its steps.
LEMMA OpTypes ==
    /\ TypeOK <=>
        /\ config \in [LayerNames -> Configs] /\ file \in [LayerNames -> Configs]
        /\ cache \in Configs \cup {None} /\ template \in Configs /\ value \in Configs
        /\ assoc \subseteq Items
        /\ op \in [Threads -> Ops]
        /\ unsaved \subseteq LayerNames /\ stale \in BOOLEAN /\ loose \subseteq ItemKeys
        /\ left \in 0 .. MaxOps
    /\ \A o \in Ops : /\ o.at = "idle" <=> o = Idle
                      /\ o.at \in Busy <=> o \in Changes
                      /\ o.at = "resolve" <=> o \in Resolves
                      /\ o.at \in Busy \cup {"idle", "resolve"}
<1>1. [at : {"idle"}] = {Idle}
  <2>1. ASSUME NEW o \in [at : {"idle"}] PROVE o = Idle
    BY DEF Idle
  <2>2. Idle \in [at : {"idle"}]
    BY DEF Idle
  <2> QED BY <2>1, <2>2
<1>2. Ops = [at : {"idle"}] \cup Changes \cup Resolves
  BY <1>1 DEF Ops
<1>3. TypeOK <=>
        /\ config \in [LayerNames -> Configs] /\ file \in [LayerNames -> Configs]
        /\ cache \in Configs \cup {None} /\ template \in Configs /\ value \in Configs
        /\ assoc \subseteq Items
        /\ op \in [Threads -> Ops]
        /\ unsaved \subseteq LayerNames /\ stale \in BOOLEAN /\ loose \subseteq ItemKeys
        /\ left \in 0 .. MaxOps
  BY <1>2 DEF TypeOK, Changes, Resolves, Busy
<1>4. ASSUME NEW o \in Ops
      PROVE  /\ o.at = "idle" <=> o = Idle
             /\ o.at \in Busy <=> o \in Changes
             /\ o.at = "resolve" <=> o \in Resolves
             /\ o.at \in Busy \cup {"idle", "resolve"}
  <2>1. CASE o = Idle
    BY <2>1 DEF Idle, Busy, Changes, Resolves
  <2>2. CASE o \in Changes
    BY <2>2 DEF Idle, Busy, Changes, Resolves
  <2>3. CASE o \in Resolves
    BY <2>3 DEF Idle, Busy, Changes, Resolves
  <2> QED BY <2>1, <2>2, <2>3 DEF Ops
<1> QED BY <1>3, <1>4

\* The types after a step.
LEMMA IsTyped ==
    ASSUME config' \in [LayerNames -> Configs], file' \in [LayerNames -> Configs],
           cache' \in Configs \cup {None}, template' \in Configs, value' \in Configs,
           assoc' \subseteq Items, op' \in [Threads -> Ops],
           unsaved' \subseteq LayerNames, stale' \in BOOLEAN, loose' \subseteq ItemKeys,
           left' \in 0 .. MaxOps
    PROVE  TypeOK'
<1>1. \A o \in Ops : o \in [at : {"idle"}] \cup Changes \cup Resolves
  BY DEF Ops, Idle
<1>2. op' \in [Threads -> [at : {"idle"}] \cup Changes \cup Resolves]
  BY <1>1
<1> QED BY <1>2 DEF TypeOK, Changes, Resolves, Busy

\* What a thread in the middle of a change has.
LEMMA ChangeTypes ==
    ASSUME TypeOK, NEW t \in Threads, op[t].at \in Busy
    PROVE  /\ op[t] \in Changes /\ op[t].layer \in LayerNames /\ op[t].key \in ItemKeys
           /\ op[t].kind \in {"set", "remove"} /\ op[t].other \in LayerNames \cup {None}
           /\ op[t].snapshot \in Configs /\ op[t].over \subseteq LayerNames
<1>1. op[t] \in Changes
  BY OpTypes
<1> QED BY <1>1 DEF Changes

\* The merge is a configuration, and what services see is one.
LEMMA CurrentTypes ==
    ASSUME TypeOK
    PROVE  /\ M \in Configs /\ M # None
           /\ Current \in Configs /\ Current # None
           /\ Current = IF cache = None THEN M ELSE cache
<1>1. M \in Configs
  BY OpTypes, MergedType DEF M
<1> QED BY <1>1, OpTypes, NoneIsNothing DEF Current, M

\* There are two threads.
LEMMA ThreadNames == UI \in Threads /\ Net \in Threads /\ UI # Net /\ \A t \in Threads : t = UI \/ t = Net
BY DEF UI, Net, Threads

-----------------------------------------------------------------------------
(* A thread starts to change an item *)

\* Nothing but an item of the layer changes, and the thread has it to save.  The
\* others know that they are overtaken.
LEMMA StartTypes ==
    ASSUME TypeOK, NEW t \in Threads, NEW kind \in {"set", "remove"}, NEW l \in LayerNames,
           NEW k \in ItemKeys, NEW other \in LayerNames \cup {None}, Start(t, kind, l, k, other)
    PROVE  /\ op' \in [Threads -> Ops]
           /\ op'[t] = [at |-> "save", kind |-> kind, layer |-> l, key |-> k,
                        other |-> other, snapshot |-> << >>, over |-> {}]
           /\ \A u \in Threads \ {t} :
                \/ op[u] = Idle /\ op'[u] = Idle
                \/ op[u] # Idle /\ op'[u] = [op[u] EXCEPT !.over = @ \cup {l}]
<1> DEFINE new == [at |-> "save", kind |-> kind, layer |-> l, key |-> k,
                   other |-> other, snapshot |-> << >>, over |-> {}]
<1>1. new \in Changes
  BY EmptyConfig DEF Changes, Busy
<1>2. op'[t] = new
  BY DEF Start
<1>3. \A u \in Threads \ {t} :
        \/ op[u] = Idle /\ op'[u] = Idle
        \/ op[u] # Idle /\ op'[u] = [op[u] EXCEPT !.over = @ \cup {l}]
  BY DEF Start
<1>4. \A o \in Changes : [o EXCEPT !.over = @ \cup {l}] \in Changes
  BY DEF Changes
<1>5. \A o \in Resolves : [o EXCEPT !.over = @ \cup {l}] \in Resolves
  BY DEF Resolves
<1> HIDE DEF new
<1>6. ASSUME NEW u \in Threads PROVE op'[u] \in Ops
  <2>1. op[u] \in Ops
    BY OpTypes
  <2> QED BY <2>1, <1>1, <1>2, <1>3, <1>4, <1>5 DEF Ops
<1>7. op' \in [Threads -> Ops]
  BY <1>6 DEF Start
<1> QED BY <1>2, <1>3, <1>7 DEF new

\* The same, field by field.
LEMMA Others ==
    ASSUME TypeOK, NEW t \in Threads, NEW kind \in {"set", "remove"}, NEW l \in LayerNames,
           NEW k \in ItemKeys, NEW other \in LayerNames \cup {None}, Start(t, kind, l, k, other),
           NEW u \in Threads, u # t
    PROVE  /\ op'[u].at = op[u].at
           /\ op[u].at \in Busy =>
                /\ op'[u].layer = op[u].layer /\ op'[u].kind = op[u].kind
                /\ op'[u].key = op[u].key /\ op'[u].other = op[u].other
                /\ op'[u].snapshot = op[u].snapshot
                /\ op'[u].over = op[u].over \cup {l}
           /\ op[u].at = "resolve" =>
                op'[u].key = op[u].key /\ op'[u].from = op[u].from
                /\ op'[u].over = op[u].over \cup {l}
<1>1. \/ op[u] = Idle /\ op'[u] = Idle
      \/ op[u] # Idle /\ op'[u] = [op[u] EXCEPT !.over = @ \cup {l}]
  BY DEF Start
<1>2. op[u] \in Ops /\ Idle.at = "idle"
  BY OpTypes DEF Idle
<1>3. CASE op[u] = Idle
  BY <1>1, <1>2, <1>3 DEF Busy
<1>4. CASE op[u] \in Changes
  <2>1. op'[u] = [op[u] EXCEPT !.over = @ \cup {l}]
    BY <1>1, <1>2, <1>4, OpTypes DEF Busy
  <2> QED BY <2>1, <1>4 DEF Changes, Busy
<1>5. CASE op[u] \in Resolves
  <2>1. op'[u] = [op[u] EXCEPT !.over = @ \cup {l}]
    BY <1>1, <1>2, <1>5, OpTypes
  <2> QED BY <2>1, <1>5 DEF Resolves, Busy
<1> QED BY <1>2, <1>3, <1>4, <1>5 DEF Ops

\* What setting, removing and moving an item have in common: the layer becomes c.
Change(t, kind, l, k, other, c) ==
    /\ Start(t, kind, l, k, other)
    /\ op[t] = Idle \/ (op[t].at = "hook" /\ op[t].key = k)
    /\ config' = [config EXCEPT ![l] = c]
    /\ \A x : x # k => (x \in DOMAIN c <=> x \in DOMAIN config[l])
    /\ \A x \in DOMAIN c : x # k => c[x] = config[l][x]
    /\ kind = "set" => LooseBy(k) \subseteq loose'
    /\ kind = "remove" => k \notin DOMAIN c /\ k \in loose'
    /\ loose \subseteq loose' /\ loose' \subseteq ItemKeys
    /\ assoc \subseteq assoc' /\ assoc' \subseteq Items
    /\ cache' = cache \/ cache' = Current
    /\ UNCHANGED <<file, template, value, unsaved, stale>>
    /\ left' \in 0 .. MaxOps

\* What it keeps of the invariant, whoever does it.
LEMMA ChangeInv ==
    ASSUME IInv, NEW t \in Threads, NEW kind \in {"set", "remove"}, NEW l \in LayerNames,
           NEW k \in ItemKeys, NEW other \in LayerNames \cup {None}, NEW c \in Configs,
           Change(t, kind, l, k, other, c)
    PROVE  TypeOK' /\ FileInv' /\ CacheInv' /\ AssocInv'
<1> USE DEF Change
<1>0. TypeOK
  BY DEF IInv
<1>1. /\ op' \in [Threads -> Ops]
      /\ op'[t] = [at |-> "save", kind |-> kind, layer |-> l, key |-> k,
                   other |-> other, snapshot |-> << >>, over |-> {}]
  BY <1>0, StartTypes
<1>2. /\ op'[t].at = "save" /\ op'[t].kind = kind /\ op'[t].layer = l /\ op'[t].key = k
      /\ op'[t].at \in Busy
  BY <1>1 DEF Busy
<1>3. \A u \in Threads \ {t} :
        /\ op'[u].at = op[u].at
        /\ op[u].at \in Busy =>
             /\ op'[u].layer = op[u].layer /\ op'[u].kind = op[u].kind
             /\ op'[u].key = op[u].key /\ op'[u].snapshot = op[u].snapshot
             /\ op'[u].over = op[u].over \cup {l}
        /\ op[u].at = "resolve" => op'[u].over = op[u].over \cup {l}
  BY <1>0, Others
<1>4. op[t].at \in {"idle", "hook"}
  BY DEF Idle
\* The merge changes under the key alone, and loses it only if it is removed.
<1>5. /\ config' \in [LayerNames -> Configs]
      /\ \A x : x # k => (x \in DOMAIN M' <=> x \in DOMAIN M)
      /\ \A x \in DOMAIN M' : x # k => M'[x] = M[x]
      /\ k \notin DOMAIN c => (k \in DOMAIN M' => k \in DOMAIN M)
  <2>1. config \in [LayerNames -> Configs]
    BY <1>0, OpTypes
  <2>2. config' \in [LayerNames -> Configs] /\ M = Merged(config) /\ M' = Merged(config')
    BY <2>1 DEF M
  <2>3. ASSUME NEW x, x # k
        PROVE  (x \in DOMAIN M' <=> x \in DOMAIN M) /\ (x \in DOMAIN M' => M'[x] = M[x])
    <3>1. \A h \in LayerNames : x \in DOMAIN config'[h] <=> x \in DOMAIN config[h]
      BY <2>1, <2>3
    <3>2. \A h \in LayerNames : x \in DOMAIN config'[h] => config'[h][x] = config[h][x]
      BY <2>1, <2>3
    <3>3. /\ x \in DOMAIN Merged(config') <=> x \in DOMAIN Merged(config)
          /\ x \in DOMAIN Merged(config') => Merged(config')[x] = Merged(config)[x]
      <4>1. PICK c1 \in [LayerNames -> Configs] : c1 = config'
        BY <2>2
      <4>2. PICK c2 \in [LayerNames -> Configs] : c2 = config
        BY <2>1
      <4>3. /\ \A h \in LayerNames : x \in DOMAIN c1[h] <=> x \in DOMAIN c2[h]
            /\ \A h \in LayerNames : x \in DOMAIN c1[h] => c1[h][x] = c2[h][x]
        BY <3>1, <3>2, <4>1, <4>2
      <4>4. /\ x \in DOMAIN Merged(c1) <=> x \in DOMAIN Merged(c2)
            /\ x \in DOMAIN Merged(c1) => Merged(c1)[x] = Merged(c2)[x]
        BY <4>3, MergedAgree
      <4> QED BY <4>4, <4>1, <4>2
    <3> QED BY <2>2, <3>3
  <2>4. k \notin DOMAIN c => (k \in DOMAIN M' => k \in DOMAIN M)
    <3>1. k \notin DOMAIN c => \A h \in LayerNames : k \in DOMAIN config'[h] => k \in DOMAIN config[h]
      BY <2>1
    <3> QED BY <2>1, <2>2, <3>1, MergedTop
  <2> QED BY <2>2, <2>3, <2>4
<1>6. /\ Current \in Configs /\ Current # None
      /\ Current = IF cache = None THEN M ELSE cache
  BY <1>0, CurrentTypes
<1>7. TypeOK'
  BY <1>0, <1>1, <1>5, <1>6, OpTypes, IsTyped
<1>8. FileInv'
  <2>1. ASSUME NEW h \in LayerNames \ unsaved
        PROVE  file[h] = config'[h] \/ \E u \in Threads : Saves(op'[u], h)
    <3>1. CASE h = l
      BY <3>1, <1>2 DEF Saves
    <3>2. CASE h # l /\ file[h] = config[h]
      BY <3>2, <1>0, OpTypes
    <3>3. CASE h # l /\ \E u \in Threads : Saves(op[u], h)
      <4>1. PICK u \in Threads : Saves(op[u], h)
        BY <3>3
      <4>2. u # t /\ op[u].at \in Busy
        BY <4>1, <1>4 DEF Saves, Busy
      <4>3. Saves(op'[u], h)
        BY <4>1, <4>2, <1>3 DEF Saves
      <4> QED BY <4>3
    <3> QED BY <2>1, <3>1, <3>2, <3>3 DEF IInv, FileInv
  <2>2. ASSUME NEW u \in Threads, op'[u].at = "write", op'[u].layer \notin op'[u].over
        PROVE  op'[u].snapshot = config'[op'[u].layer]
    <3>1. u # t /\ op[u].at = "write" /\ op[u].at \in Busy
      BY <2>2, <1>2, <1>3 DEF Busy
    <3>2. op[u].layer # l /\ op[u].layer \notin op[u].over /\ op[u].layer \in LayerNames
      BY <2>2, <3>1, <1>3, <1>0, ChangeTypes
    <3>3. op[u].snapshot = config[op[u].layer]
      BY <3>1, <3>2 DEF IInv, FileInv
    <3> QED BY <3>1, <3>2, <3>3, <1>3, <1>0, OpTypes
  <2> QED BY <2>1, <2>2 DEF FileInv
<1>9. CacheInv'
  <2>1. cache' = None => \E u \in Threads : op'[u].at \in {"collect", "store"}
    <3>1. cache' = None => \E u \in Threads : op[u].at \in {"collect", "store"}
      BY <1>6 DEF IInv, CacheInv
    <3> QED BY <3>1, <1>3, <1>4
  <2>2. ~stale => \A x \in DOMAIN value : x \in DOMAIN template /\ value[x] = template[x]
    BY DEF IInv, CacheInv
  <2>3. ASSUME NEW u \in Threads
        PROVE  /\ ~(op'[u].at = "collect" /\ op'[u].over = {})
               /\ ~(op'[u].at = "store" /\ op'[u].over = {})
               /\ ~(op'[u].at = "resolve" /\ op'[u].over = {})
    BY <1>2, <1>3 DEF Busy
  <2>4. op'[t].at \in {"save", "write", "drop"} /\ op'[t].at \in Busy \ {"hook"}
    BY <1>2 DEF Busy
  <2> QED BY <2>1, <2>2, <2>3, <2>4 DEF CacheInv
<1>10. AssocInv'
  <2> SUFFICES ASSUME NEW x \in DOMAIN M', x \notin loose', <<AssocKey, x[1]>> \in DOMAIN M'
               PROVE  \/ <<x, M'[x]>> \in assoc'
                      \/ \E u \in Threads : op'[u].at \in Busy /\ op'[u].kind = "set" /\ op'[u].key = x
    BY DEF AssocInv
  <2>1. CASE x = k
    <3>1. kind = "set"
      BY <2>1
    <3> QED BY <2>1, <3>1, <1>2
  <2>2. CASE x # k
    <3>1. x \in DOMAIN M \ loose /\ M'[x] = M[x]
      BY <2>2, <1>5
    <3>2. <<AssocKey, x[1]>> \in DOMAIN M
      <4>1. CASE <<AssocKey, x[1]>> # k
        BY <4>1, <1>5
      <4>2. CASE <<AssocKey, x[1]>> = k
        <5>1. x \in ItemKeys
          BY <3>1, <1>0, CurrentTypes, ConfigOf
        <5>2. x \in LooseBy(k)
          BY <4>2, <5>1 DEF LooseBy
        <5>3. kind = "remove"
          BY <5>2
        <5> QED BY <4>2, <5>3, <1>5
      <4> QED BY <4>1, <4>2
    <3>3. CASE <<x, M[x]>> \in assoc
      BY <3>1, <3>3
    <3>4. CASE \E u \in Threads : op[u].at \in Busy /\ op[u].kind = "set" /\ op[u].key = x
      <4>1. PICK u \in Threads : op[u].at \in Busy /\ op[u].kind = "set" /\ op[u].key = x
        BY <3>4
      <4>2. u # t
        BY <4>1, <2>2 DEF Idle, Busy
      <4> QED BY <4>1, <4>2, <1>3
    <3> QED BY <3>1, <3>2, <3>3, <3>4 DEF IInv, AssocInv
  <2> QED BY <2>1, <2>2
<1> QED BY <1>7, <1>8, <1>9, <1>10

-----------------------------------------------------------------------------
(* A thread goes on, or is done *)

\* One thread's operation becomes another.
LEMMA OpSet ==
    ASSUME TypeOK, NEW t \in Threads, NEW o \in Ops, op' = [op EXCEPT ![t] = o]
    PROVE  /\ op' \in [Threads -> Ops] /\ op'[t] = o
           /\ \A u \in Threads \ {t} : op'[u] = op[u]
BY OpTypes

\* A change in progress was in progress, and is of the same item.
Same(u) ==
    op'[u].at \in Busy =>
        /\ op[u].at \in Busy
        /\ op'[u].layer = op[u].layer /\ op'[u].kind = op[u].kind
        /\ op'[u].key = op[u].key /\ op'[u].other = op[u].other

GoesOn(t, p, c, v) == op' = [op EXCEPT ![t] = [op[t] EXCEPT !.at = p, !.over = v, !.snapshot = c]]

\* The same operation at another place, with another snapshot.
LEMMA Advance ==
    ASSUME TypeOK, NEW t \in Threads, op[t].at \in Busy,
           NEW p \in Busy, NEW c \in Configs, NEW v \in SUBSET LayerNames, GoesOn(t, p, c, v)
    PROVE  /\ op' \in [Threads -> Ops]
           /\ op'[t].at = p /\ op'[t].over = v /\ op'[t].snapshot = c
           /\ op[t].kind = op'[t].kind /\ op[t].key = op'[t].key
           /\ op[t].layer = op'[t].layer /\ op[t].other = op'[t].other
           /\ \A u \in Threads \ {t} : op'[u] = op[u]
           /\ \A u \in Threads : Same(u)
<1> DEFINE o == [op[t] EXCEPT !.at = p, !.over = v, !.snapshot = c]
<1>1. op[t] \in Changes
  BY ChangeTypes
<1>2. /\ o \in Changes /\ o.at = p /\ o.over = v /\ o.snapshot = c
      /\ o.kind = op[t].kind /\ o.key = op[t].key
      /\ o.layer = op[t].layer /\ o.other = op[t].other
  BY <1>1 DEF Changes
<1> HIDE DEF o
<1>3. /\ op' \in [Threads -> Ops] /\ op'[t] = o
      /\ \A u \in Threads \ {t} : op'[u] = op[u]
  BY <1>2, OpSet DEF o, Ops, GoesOn
<1>4. \A u \in Threads : Same(u)
  BY <1>2, <1>3 DEF Same
<1> QED BY <1>2, <1>3, <1>4

\* Done.
LEMMA Ends ==
    ASSUME TypeOK, NEW t \in Threads, op' = [op EXCEPT ![t] = Idle]
    PROVE  /\ op' \in [Threads -> Ops] /\ op'[t] = Idle /\ op'[t].at = "idle"
           /\ \A u \in Threads \ {t} : op'[u] = op[u]
           /\ \A u \in Threads : Same(u)
<1>1. /\ op' \in [Threads -> Ops] /\ op'[t] = Idle
      /\ \A u \in Threads \ {t} : op'[u] = op[u]
  BY OpSet DEF Ops
<1>2. op'[t].at = "idle"
  BY <1>1 DEF Idle
<1> QED BY <1>1, <1>2 DEF Same, Busy

\* The layers and the files stay, and no thread begins or ends to save.
LEMMA FileStays ==
    ASSUME FileInv, UNCHANGED <<config, file>>, unsaved \subseteq unsaved',
           \A u \in Threads :
               \/ op'[u] = op[u]
               \/ op[u].at \notin {"save", "write"} /\ op'[u].at \notin {"save", "write"}
    PROVE  FileInv'
<1>1. \A u \in Threads, h \in LayerNames : Saves(op[u], h) => Saves(op'[u], h)
  BY DEF Saves
<1>2. \A h \in LayerNames \ unsaved' : file'[h] = config'[h] \/ \E u \in Threads : Saves(op'[u], h)
  BY <1>1 DEF FileInv
<1>3. \A u \in Threads : op'[u].at = "write" => op'[u] = op[u]
  OBVIOUS
<1> QED BY <1>2, <1>3 DEF FileInv

\* No item is less associated, and what is being set stays so.
LEMMA AssocStays ==
    ASSUME AssocInv, config' = config, assoc \subseteq assoc', loose \subseteq loose',
           \A u \in Threads : op[u].at \in Busy =>
               op'[u].at \in Busy /\ op'[u].kind = op[u].kind /\ op'[u].key = op[u].key
    PROVE  AssocInv'
<1>1. M' = M
  BY DEF M
<1> QED BY <1>1 DEF AssocInv

\* What a thread is moving stays where it is, in memory and in the files.
LEMMA MoveStays ==
    ASSUME TypeOK, MoveInv, config' = config,
           \A u \in Threads : Same(u),
           op'[UI].at = "write" /\ op'[UI].kind = "set" => op'[UI].key \in DOMAIN op'[UI].snapshot,
           op'[UI].at \in Busy \ {"save", "write"} /\ op'[UI].kind = "set" =>
               \/ op[UI].at \notin {"save", "write"}
               \/ Saved(unsaved', file', op'[UI].layer, op'[UI].key),
           \A h \in LayerNames, k \in ItemKeys :
               k \in DOMAIN config[h] /\ Saved(unsaved, file, h, k) => Saved(unsaved', file', h, k),
           \A h \in LayerNames :
               Saves(op[Net], h) => Saves(op'[Net], h) \/ \A k \in DOMAIN config[h] : Saved(unsaved', file', h, k)
    PROVE  MoveInv'
<1>1. op'[Net].at \in Busy => op'[Net].kind = "set" /\ op'[Net].other = None
  BY ThreadNames DEF MoveInv, Same
<1>2. ASSUME op'[UI].at \in Busy
      PROVE  LET l == op'[UI].layer
                 k == op'[UI].key
                 other == op'[UI].other
             IN  /\ other # l
                 /\ op'[UI].kind = "set" =>
                     /\ k \in DOMAIN config'[l]
                     /\ op'[UI].at = "write" => k \in DOMAIN op'[UI].snapshot
                     /\ op'[UI].at \notin {"save", "write"} => Saved(unsaved', file', l, k)
                     /\ other # None =>
                         k \in DOMAIN config'[other] /\ (Saved(unsaved', file', other, k) \/ Saves(op'[Net], other))
                 /\ op'[UI].kind = "remove" /\ other # None =>
                     k \in DOMAIN config'[other] /\ Saved(unsaved', file', other, k)
  <2> DEFINE l == op[UI].layer
             k == op[UI].key
             other == op[UI].other
  <2>1. /\ op[UI].at \in Busy /\ op'[UI].layer = l /\ op'[UI].key = k
        /\ op'[UI].other = other /\ op'[UI].kind = op[UI].kind
    BY <1>2, ThreadNames DEF Same
  <2>2. l \in LayerNames /\ k \in ItemKeys /\ other \in LayerNames \cup {None}
    BY <2>1, ThreadNames, ChangeTypes
  <2>3. /\ other # l
        /\ op[UI].kind = "set" =>
            /\ k \in DOMAIN config[l]
            /\ op[UI].at \notin {"save", "write"} => Saved(unsaved, file, l, k)
            /\ other # None => k \in DOMAIN config[other] /\ (Saved(unsaved, file, other, k) \/ Saves(op[Net], other))
        /\ op[UI].kind = "remove" /\ other # None => k \in DOMAIN config[other] /\ Saved(unsaved, file, other, k)
    BY <2>1 DEF MoveInv
  <2> HIDE DEF l, k, other
  <2>4. op[UI].kind = "set" /\ op'[UI].at \notin {"save", "write"} => Saved(unsaved', file', l, k)
    BY <1>2, <2>1, <2>2, <2>3
  <2>5. op[UI].kind = "set" /\ other # None => Saved(unsaved', file', other, k) \/ Saves(op'[Net], other)
    BY <2>2, <2>3
  <2>6. op[UI].kind = "remove" /\ other # None => Saved(unsaved', file', other, k)
    BY <2>2, <2>3
  <2> QED BY <2>1, <2>3, <2>4, <2>5, <2>6
<1> QED BY <1>1, <1>2 DEF MoveInv

-----------------------------------------------------------------------------
(* Saving *)

\* Before the thread drops the caches, and unless the save failed, nothing is said of
\* them; the other thread's part stays.
LEMMA CacheStays ==
    ASSUME CacheInv, UNCHANGED <<config, cache, template, value, stale>>,
           \A u \in Threads :
               \/ op'[u] = op[u]
               \/ /\ op[u].at \in {"save", "write"}
                  /\ op'[u].at \in {"save", "write", "drop"}
    PROVE  CacheInv'
<1>1. M' = M
  BY DEF M
<1>2. /\ \A u \in Threads : op[u].at \in {"collect", "store"} => op'[u] = op[u]
      /\ \A u \in Threads : op[u].at \in {"save", "write", "drop"}
                                => op'[u].at \in {"save", "write", "drop"}
      /\ \A u \in Threads : op[u].at \in Busy \ {"hook"} => op'[u].at \in Busy \ {"hook"}
      /\ \A u \in Threads : op'[u].at \in {"collect", "store", "resolve"} => op'[u] = op[u]
  BY DEF Busy
<1> QED BY <1>1, <1>2 DEF CacheInv

\* A save collects what its layer has in memory.
LEMMA CollectStep ==
    ASSUME IInv, NEW t \in Threads, Collect(t), left' = left PROVE IInv'
<1> USE DEF Collect, layerVars, cacheVars, ghostVars
<1>0. TypeOK /\ op[t].at = "save" /\ op[t].at \in Busy
  BY DEF IInv, Busy
<1>1. op[t].layer \in LayerNames /\ config[op[t].layer] \in Configs
  BY <1>0, ChangeTypes, OpTypes
<1>2. /\ op' \in [Threads -> Ops] /\ op'[t].at = "write" /\ op'[t].over = {}
      /\ op'[t].snapshot = config[op[t].layer]
      /\ op[t].kind = op'[t].kind /\ op[t].key = op'[t].key
      /\ op[t].layer = op'[t].layer /\ op[t].other = op'[t].other
      /\ \A u \in Threads \ {t} : op'[u] = op[u]
      /\ \A u \in Threads : Same(u)
  <2>1. PICK c \in Configs : c = config[op[t].layer]
    BY <1>1
  <2>2. op' = [op EXCEPT ![t] = [op[t] EXCEPT !.at = "write", !.over = {}, !.snapshot = c]]
    <3>1. op[t] \in Changes /\ op \in [Threads -> Ops]
      BY <1>0, ChangeTypes, OpTypes
    <3>2. op' = [op EXCEPT ![t].at = "write", ![t].over = {}, ![t].snapshot = c]
      BY <2>1
    <3> QED BY <3>1, <3>2 DEF Changes
  <2>3. PICK v \in SUBSET LayerNames : v = {}
    OBVIOUS
  <2>4. op' = [op EXCEPT ![t] = [op[t] EXCEPT !.at = "write", !.over = v, !.snapshot = c]]
    BY <2>2, <2>3
  <2> HIDE DEF Collect
  <2>5. PICK p \in Busy : p = "write"
    BY DEF Busy
  <2>6. GoesOn(t, p, c, v)
    BY <2>4, <2>5 DEF GoesOn
  <2>7. /\ op' \in [Threads -> Ops]
        /\ op'[t].at = p /\ op'[t].over = v /\ op'[t].snapshot = c
        /\ op[t].kind = op'[t].kind /\ op[t].key = op'[t].key
        /\ op[t].layer = op'[t].layer /\ op[t].other = op'[t].other
        /\ \A u \in Threads \ {t} : op'[u] = op[u]
        /\ \A u \in Threads : Same(u)
    BY <2>6, <1>0, Advance
  <2> QED BY <2>1, <2>3, <2>5, <2>7
<1>3. TypeOK'
  BY <1>0, <1>2, OpTypes, IsTyped
<1>4. FileInv'
  <2>1. \A u \in Threads, h \in LayerNames : Saves(op[u], h) => Saves(op'[u], h)
    BY <1>0, <1>2 DEF Saves
  <2> QED BY <2>1, <1>2 DEF IInv, FileInv
<1>5. CacheInv'
  BY <1>0, <1>2, CacheStays DEF IInv
<1>6. AssocInv'
  BY <1>2, AssocStays DEF IInv, Busy
<1>7. MoveInv'
  <2>1. \A h : Saves(op[Net], h) => Saves(op'[Net], h)
    BY <1>0, <1>2, ThreadNames DEF Saves
  <2>2. op'[UI].at = "write" /\ op'[UI].kind = "set" => op'[UI].key \in DOMAIN op'[UI].snapshot
    BY <1>0, <1>2, ThreadNames DEF IInv, MoveInv, Busy
  <2>3. op'[UI].at \notin {"save", "write"} => op[UI].at \notin {"save", "write"}
    BY <1>2, ThreadNames
  <2> QED BY <2>1, <2>2, <2>3, <1>0, <1>2, MoveStays DEF IInv
<1> QED BY <1>3, <1>4, <1>5, <1>6, <1>7 DEF IInv

\* The operation whose file is written goes on to the caches.
LEMMA Written ==
    ASSUME TypeOK, NEW t \in Threads, op[t].at \in Busy,
           op' = [op EXCEPT ![t].at = "drop", ![t].snapshot = << >>]
    PROVE  /\ op' \in [Threads -> Ops] /\ op'[t].at = "drop"
           /\ op[t].kind = op'[t].kind /\ op[t].key = op'[t].key
           /\ op[t].layer = op'[t].layer /\ op[t].other = op'[t].other
           /\ \A u \in Threads \ {t} : op'[u] = op[u]
           /\ \A u \in Threads : Same(u)
<1>1. op[t] \in Changes /\ op \in [Threads -> Ops]
  BY ChangeTypes, OpTypes
<1>2. PICK c \in Configs : c = << >>
  BY EmptyConfig
<1> DEFINE over == op[t].over
<1>3. PICK v \in SUBSET LayerNames : v = over
  BY ChangeTypes
<1>4. PICK p \in Busy : p = "drop"
  BY DEF Busy
<1> HIDE DEF over
<1>5. GoesOn(t, p, c, v)
  BY <1>1, <1>2, <1>3, <1>4 DEF Changes, over, GoesOn
<1>6. /\ op' \in [Threads -> Ops]
      /\ op'[t].at = p /\ op'[t].over = v /\ op'[t].snapshot = c
      /\ op[t].kind = op'[t].kind /\ op[t].key = op'[t].key
      /\ op[t].layer = op'[t].layer /\ op[t].other = op'[t].other
      /\ \A u \in Threads \ {t} : op'[u] = op[u]
      /\ \A u \in Threads : Same(u)
  BY <1>5, Advance
<1> QED BY <1>4, <1>6

\* The file of the layer is written, or the save fails and the layer is marked.
LEMMA WriteStep ==
    ASSUME IInv, NEW t \in Threads, Write(t), left' = left PROVE IInv'
<1> USE DEF Write, cacheVars
<1> DEFINE l == op[t].layer
<1>0. TypeOK /\ op[t].at = "write" /\ op[t].at \in Busy
  BY DEF IInv, Busy
<1>1. /\ l \in LayerNames /\ op[t].snapshot \in Configs
      /\ op[t].over \in SUBSET LayerNames /\ << >> \in Configs
  BY <1>0, ChangeTypes, EmptyConfig
<1>2. /\ op' \in [Threads -> Ops] /\ op'[t].at = "drop"
      /\ op[t].kind = op'[t].kind /\ op[t].key = op'[t].key
      /\ op[t].layer = op'[t].layer /\ op[t].other = op'[t].other
      /\ \A u \in Threads \ {t} : op'[u] = op[u]
      /\ \A u \in Threads : Same(u)
  <2>1. op' = [op EXCEPT ![t].at = "drop", ![t].snapshot = << >>]
    OBVIOUS
  <2> HIDE DEF Write, l
  <2> QED BY <2>1, <1>0, Written
<1>3. /\ file' = [file EXCEPT ![l] = op[t].snapshot] /\ file' \in [LayerNames -> Configs]
      /\ unsaved' = unsaved \cup {l} \/ (unsaved' = unsaved \ {l} /\ l \notin op[t].over)
  BY <1>0, <1>1, OpTypes
<1>4. /\ \A h \in LayerNames : h # l => file'[h] = file[h] /\ (h \in unsaved' <=> h \in unsaved)
      /\ l \in unsaved' \/ file'[l] = config[l]
  <2>1. l \notin op[t].over => op[t].snapshot = config[l]
    BY <1>0 DEF IInv, FileInv
  <2> QED BY <2>1, <1>0, <1>1, <1>3, OpTypes
<1>5. TypeOK'
  BY <1>0, <1>1, <1>2, <1>3, OpTypes, IsTyped
<1> HIDE DEF l
<1>6. FileInv'
  <2>1. ASSUME NEW h \in LayerNames \ unsaved'
        PROVE  file'[h] = config[h] \/ \E u \in Threads : Saves(op'[u], h)
    <3>1. CASE h = l
      BY <3>1, <1>4
    <3>2. CASE h # l
      <4>1. file'[h] = file[h] /\ h \notin unsaved
        BY <3>2, <1>4
      <4>2. \A u \in Threads : Saves(op[u], h) => Saves(op'[u], h)
        BY <3>2, <1>2 DEF Saves, l
      <4> QED BY <4>1, <4>2 DEF IInv, FileInv
    <3> QED BY <3>1, <3>2
  <2>2. \A u \in Threads : op'[u].at = "write" => op'[u] = op[u]
    BY <1>2
  <2> QED BY <2>1, <2>2 DEF IInv, FileInv
<1>7. CacheInv'
  BY <1>0, <1>2, CacheStays DEF IInv
<1>8. AssocInv'
  BY <1>2, AssocStays DEF IInv, Busy
<1>9. MoveInv'
  <2>1. \A k \in DOMAIN config[l] : Saved(unsaved', file', l, k)
    BY <1>4 DEF Saved
  <2>2. \A h \in LayerNames, k \in ItemKeys :
            k \in DOMAIN config[h] /\ Saved(unsaved, file, h, k) => Saved(unsaved', file', h, k)
    BY <2>1, <1>4 DEF Saved
  <2>3. \A h \in LayerNames :
            Saves(op[Net], h) => \/ Saves(op'[Net], h)
                                 \/ \A k \in DOMAIN config[h] : Saved(unsaved', file', h, k)
    <3>1. CASE t = Net
      <4>1. \A h \in LayerNames : Saves(op[Net], h) => h = l
        BY <3>1 DEF Saves, l
      <4> QED BY <4>1, <2>1
    <3>2. CASE t # Net
      BY <3>2, <1>2, ThreadNames
    <3> QED BY <3>1, <3>2
  <2>4. op'[UI].at = "write" /\ op'[UI].kind = "set" => op'[UI].key \in DOMAIN op'[UI].snapshot
    BY <1>0, <1>2, ThreadNames DEF IInv, MoveInv, Busy
  <2>5. op'[UI].at \in Busy \ {"save", "write"} /\ op'[UI].kind = "set" =>
            \/ op[UI].at \notin {"save", "write"}
            \/ Saved(unsaved', file', op'[UI].layer, op'[UI].key)
    <3>1. CASE t # UI
      BY <3>1, <1>2, ThreadNames
    <3>2. CASE t = UI
      <4>1. op[UI].kind = "set" => op[UI].key \in DOMAIN config[l]
        BY <3>2, <1>0 DEF IInv, MoveInv, l
      <4> QED BY <3>2, <4>1, <2>1, <1>2 DEF l
    <3> QED BY <3>1, <3>2
  <2> QED BY <2>2, <2>3, <2>4, <2>5, <1>0, <1>2, MoveStays DEF IInv
<1> QED BY <1>5, <1>6, <1>7, <1>8, <1>9 DEF IInv

\* The save fails: the layer is unsaved, the caches are stale and the item is loose.
LEMMA SaveFailsStep ==
    ASSUME IInv, NEW t \in Threads, SaveFails(t), left' = left PROVE IInv'
<1> USE DEF SaveFails, layerVars, cacheVars
<1>0. TypeOK /\ op[t].at = "save" /\ op[t].at \in Busy
  BY DEF IInv, Busy
<1>1. op[t].layer \in LayerNames /\ op[t].key \in ItemKeys
  BY <1>0, ChangeTypes
<1>2. /\ op' \in [Threads -> Ops] /\ op'[t] = Idle /\ op'[t].at = "idle"
      /\ \A u \in Threads \ {t} : op'[u] = op[u]
      /\ \A u \in Threads : Same(u)
  BY <1>0, Ends
<1>3. /\ unsaved' = unsaved \cup {op[t].layer} /\ stale' = TRUE
      /\ loose' = loose \cup {op[t].key}
      /\ UNCHANGED <<config, file, cache, template, value, assoc>>
  OBVIOUS
<1>4. TypeOK'
  BY <1>0, <1>1, <1>2, <1>3, OpTypes, IsTyped
<1>5. FileInv'
  <2>1. ASSUME NEW h \in LayerNames \ unsaved', NEW u \in Threads, Saves(op[u], h)
        PROVE  Saves(op'[u], h)
    <3>1. u # t
      BY <2>1, <1>3 DEF Saves
    <3> QED BY <3>1, <2>1, <1>2
  <2>2. \A u \in Threads : op'[u].at = "write" => op'[u] = op[u]
    BY <1>2
  <2>3. \A h \in LayerNames \ unsaved' : file[h] = config[h] \/ \E u \in Threads : Saves(op'[u], h)
    BY <2>1, <1>3 DEF IInv, FileInv
  <2> QED BY <2>2, <2>3, <1>3 DEF IInv, FileInv
<1>6. CacheInv'
  <2>1. M' = M
    BY <1>3 DEF M
  <2>2. \A u \in Threads : op[u].at \in {"collect", "store"} => op'[u].at \in {"collect", "store"}
    BY <1>0, <1>2
  <2>3. \A u \in Threads : op'[u].at \in {"collect", "store", "resolve"} => op'[u] = op[u]
    BY <1>2
  <2> QED BY <2>1, <2>2, <2>3, <1>3 DEF IInv, CacheInv
<1>7. AssocInv'
  <2> SUFFICES ASSUME NEW k \in DOMAIN M \ loose', <<AssocKey, k[1]>> \in DOMAIN M
               PROVE  \/ <<k, M[k]>> \in assoc
                      \/ \E u \in Threads : op'[u].at \in Busy /\ op'[u].kind = "set" /\ op'[u].key = k
    <3>1. M' = M
      BY <1>3 DEF M
    <3> QED BY <3>1, <1>3 DEF AssocInv
  <2>1. CASE <<k, M[k]>> \in assoc
    BY <2>1
  <2>2. CASE \E u \in Threads : op[u].at \in Busy /\ op[u].kind = "set" /\ op[u].key = k
    <3>1. PICK u \in Threads : op[u].at \in Busy /\ op[u].kind = "set" /\ op[u].key = k
      BY <2>2
    <3>2. u # t
      BY <3>1, <1>3
    <3> QED BY <3>1, <3>2, <1>2
  <2> QED BY <2>1, <2>2, <1>3 DEF IInv, AssocInv
<1>8. MoveInv'
  <2>1. \A h \in LayerNames, k \in ItemKeys :
            k \in DOMAIN config[h] /\ Saved(unsaved, file, h, k) => Saved(unsaved', file', h, k)
    BY <1>3 DEF Saved
  <2>2. \A h \in LayerNames :
            Saves(op[Net], h) => \/ Saves(op'[Net], h)
                                 \/ \A k \in DOMAIN config[h] : Saved(unsaved', file', h, k)
    BY <1>2, <1>3, ThreadNames DEF Saves, Saved
  <2>3. op'[UI].at = "write" /\ op'[UI].kind = "set" => op'[UI].key \in DOMAIN op'[UI].snapshot
    BY <1>2, ThreadNames DEF IInv, MoveInv, Busy
  <2>4. op'[UI].at \in Busy \ {"save", "write"} => op[UI].at \notin {"save", "write"}
    BY <1>2, ThreadNames DEF Busy
  <2> QED BY <2>1, <2>2, <2>3, <2>4, <1>0, <1>2, <1>3, MoveStays DEF IInv
<1> QED BY <1>4, <1>5, <1>6, <1>7, <1>8 DEF IInv

-----------------------------------------------------------------------------
(* The caches *)

\* What a step keeps that leaves the layers, the files and the associations alone, and
\* by which no thread begins or ends to save or to set.
LEMMA LayersStay ==
    ASSUME IInv, UNCHANGED <<config, file, assoc, unsaved, loose>>,
           \A u \in Threads : Same(u),
           \A u \in Threads :
               \/ op'[u] = op[u]
               \/ /\ op[u].at \notin {"save", "write"} /\ op'[u].at \notin {"save", "write"}
                  /\ op[u].at \in Busy => op'[u].at \in Busy
    PROVE  FileInv' /\ AssocInv' /\ MoveInv'
<1>1. FileInv'
  BY FileStays DEF IInv
<1>2. AssocInv'
  <2>1. \A u \in Threads : op[u].at \in Busy =>
            op'[u].at \in Busy /\ op'[u].kind = op[u].kind /\ op'[u].key = op[u].key
    BY DEF Same
  <2> QED BY <2>1, AssocStays DEF IInv
<1>3. MoveInv'
  <2>1. op'[UI].at = "write" /\ op'[UI].kind = "set" => op'[UI].key \in DOMAIN op'[UI].snapshot
    BY ThreadNames DEF IInv, MoveInv, Busy
  <2>2. op'[UI].at \in Busy \ {"save", "write"} => op[UI].at \notin {"save", "write"}
    BY ThreadNames
  <2>3. \A h : Saves(op[Net], h) => Saves(op'[Net], h)
    BY ThreadNames DEF Saves
  <2> QED BY <2>1, <2>2, <2>3, MoveStays DEF IInv
<1> QED BY <1>1, <1>2, <1>3

\* The caches are dropped.
LEMMA DropStep ==
    ASSUME IInv, NEW t \in Threads, Drop(t), left' = left PROVE IInv'
<1>0. TypeOK /\ op[t].at = "drop" /\ op[t].at \in Busy
  BY DEF IInv, Busy, Drop
<1>1. /\ op' = [op EXCEPT ![t].at = "collect", ![t].over = {}] /\ cache' = None
      /\ UNCHANGED <<config, file, template, value, assoc, unsaved, stale, loose>>
  BY DEF Drop, layerVars, ghostVars
<1>2. /\ op' \in [Threads -> Ops] /\ op'[t].at = "collect"
      /\ \A u \in Threads \ {t} : op'[u] = op[u]
      /\ \A u \in Threads : Same(u)
  <2>1. PICK p \in Busy : p = "collect"
    BY DEF Busy
  <2>0. PICK v \in SUBSET LayerNames : v = {}
    OBVIOUS
  <2> DEFINE snapshot == op[t].snapshot
  <2>2. PICK c \in Configs : c = snapshot
    BY <1>0, ChangeTypes
  <2> HIDE DEF snapshot
  <2>3. GoesOn(t, p, c, v)
    <3>1. op[t] \in Changes /\ op \in [Threads -> Ops]
      BY <1>0, ChangeTypes, OpTypes
    <3> QED BY <3>1, <1>1, <2>0, <2>1, <2>2 DEF Changes, snapshot, GoesOn
  <2>4. /\ op' \in [Threads -> Ops]
        /\ op'[t].at = p /\ op'[t].over = v /\ op'[t].snapshot = c
        /\ op[t].kind = op'[t].kind /\ op[t].key = op'[t].key
        /\ op[t].layer = op'[t].layer /\ op[t].other = op'[t].other
        /\ \A u \in Threads \ {t} : op'[u] = op[u]
        /\ \A u \in Threads : Same(u)
    BY <2>3, <1>0, Advance
  <2> QED BY <2>1, <2>4
<1>3. TypeOK'
  BY <1>0, <1>1, <1>2, OpTypes, IsTyped
<1>4. FileInv' /\ AssocInv' /\ MoveInv'
  BY <1>0, <1>1, <1>2, LayersStay DEF Busy
<1>5. CacheInv'
  <2>1. M' = M
    BY <1>1 DEF M
  <2>2. op'[t].at \in {"collect", "store"} /\ op'[t].at \in Busy \ {"hook"}
    BY <1>2 DEF Busy
  <2>3. \A u \in Threads : op'[u].at \in {"store", "resolve"} => op'[u] = op[u]
    BY <1>2
  <2>4. CacheInv
    BY DEF IInv
  <2>5. \A k \in DOMAIN value : ~stale => k \in DOMAIN template /\ value[k] = template[k]
    BY <2>4 DEF CacheInv
  <2>6. (\E u \in Threads : op'[u].at \in {"collect", "store"}) /\ (\E u \in Threads : op'[u].at \in Busy \ {"hook"})
    BY <2>2
  <2>7. ASSUME NEW u \in Threads
        PROVE  /\ op'[u].at = "store" /\ op'[u].over = {} => op'[u].snapshot = M
               /\ op'[u].at = "resolve" /\ op'[u].over = {} =>
                    op'[u].key \in DOMAIN template /\ op'[u].from = template[op'[u].key]
    BY <2>3, <2>4 DEF CacheInv
  <2> QED BY <2>1, <2>5, <2>6, <2>7, <1>1 DEF CacheInv
<1> QED BY <1>3, <1>4, <1>5 DEF IInv

\* The merge is made from all layers as they are.
LEMMA MergeStep ==
    ASSUME IInv, NEW t \in Threads, Merge(t), left' = left PROVE IInv'
<1>0. TypeOK /\ op[t].at = "collect" /\ op[t].at \in Busy
  BY DEF IInv, Busy, Merge
<1> DEFINE over == IF cache # None /\ stale THEN LayerNames ELSE op[t].over
<1>1. /\ op' = [op EXCEPT ![t].at = "store", ![t].snapshot = Current, ![t].over = over]
      /\ UNCHANGED <<config, file, cache, template, value, assoc, unsaved, stale, loose>>
  BY DEF Merge, layerVars, cacheVars, ghostVars
<1>2. /\ op' \in [Threads -> Ops] /\ op'[t].at = "store"
      /\ op'[t].snapshot = Current /\ op'[t].over = over
      /\ \A u \in Threads \ {t} : op'[u] = op[u]
      /\ \A u \in Threads : Same(u)
  <2>1. PICK p \in Busy : p = "store"
    BY DEF Busy
  <2>2. PICK c \in Configs : c = Current
    BY <1>0, CurrentTypes
  <2>3. PICK v \in SUBSET LayerNames : v = over
    BY <1>0, ChangeTypes
  <2> HIDE DEF over
  <2>4. GoesOn(t, p, c, v)
    <3>1. op[t] \in Changes /\ op \in [Threads -> Ops]
      BY <1>0, ChangeTypes, OpTypes
    <3> QED BY <3>1, <1>1, <2>1, <2>2, <2>3 DEF Changes, GoesOn
  <2>5. /\ op' \in [Threads -> Ops]
        /\ op'[t].at = p /\ op'[t].over = v /\ op'[t].snapshot = c
        /\ op[t].kind = op'[t].kind /\ op[t].key = op'[t].key
        /\ op[t].layer = op'[t].layer /\ op[t].other = op'[t].other
        /\ \A u \in Threads \ {t} : op'[u] = op[u]
        /\ \A u \in Threads : Same(u)
    BY <2>4, <1>0, Advance
  <2> QED BY <2>1, <2>2, <2>3, <2>5
<1>3. TypeOK'
  BY <1>0, <1>1, <1>2, OpTypes, IsTyped
<1>4. FileInv' /\ AssocInv' /\ MoveInv'
  BY <1>0, <1>1, <1>2, LayersStay DEF Busy
<1>5. CacheInv'
  <2>1. M' = M
    BY <1>1 DEF M
  <2>2. op'[t].at \in {"collect", "store"} /\ op'[t].at \in Busy \ {"hook"}
    BY <1>2 DEF Busy
  <2>3. \A u \in Threads \ {t} : op'[u] = op[u]
    BY <1>2
  <2>4. op'[t].over = {} => op'[t].snapshot = M
    <3>1. LayerNames # {}
      BY LayerAt
    <3>2. Current = IF cache = None THEN M ELSE cache
      BY <1>0, CurrentTypes
    <3>3. op[t].over = {} /\ ~stale => cache \in {None, M}
      BY <1>0 DEF IInv, CacheInv
    <3> QED BY <3>1, <3>2, <3>3, <1>2
  <2>5. op'[t].at = "store"
    BY <1>2
  <2> HIDE DEF over
  <2>6. ASSUME NEW u \in Threads
        PROVE  /\ op'[u].at = "collect" /\ op'[u].over = {} /\ ~stale => cache \in {None, M}
               /\ op'[u].at = "store" /\ op'[u].over = {} => op'[u].snapshot = M
               /\ op'[u].at = "resolve" /\ op'[u].over = {} =>
                    op'[u].key \in DOMAIN template /\ op'[u].from = template[op'[u].key]
    <3>1. CASE u = t
      BY <3>1, <2>4, <2>5
    <3>2. CASE u # t
      BY <3>2, <2>3 DEF IInv, CacheInv
    <3> QED BY <3>1, <3>2
  <2>7. ~stale => /\ \/ cache \in {None, M}
                     \/ \E u \in Threads : op'[u].at \in {"save", "write", "drop"}
                  /\ \A k \in DOMAIN value : k \in DOMAIN template /\ value[k] = template[k]
    <3>1. \A u \in Threads : op[u].at \in {"save", "write", "drop"} => op'[u] = op[u]
      BY <1>0, <2>3
    <3> QED BY <3>1 DEF IInv, CacheInv
  <2> QED BY <2>1, <2>2, <2>6, <2>7, <1>1 DEF CacheInv
<1> QED BY <1>3, <1>4, <1>5 DEF IInv

\* A merge that was overtaken is stored and marked as stale.
LEMMA StoreStep ==
    ASSUME IInv, NEW t \in Threads, Store(t), left' = left PROVE IInv'
<1>0. TypeOK /\ op[t].at = "store" /\ op[t].at \in Busy
  BY DEF IInv, Busy, Store
<1>1. /\ op' = [u \in Threads |->
                  IF u = t THEN [op[t] EXCEPT !.at = "hook", !.snapshot = << >>]
                  ELSE IF op[u].at = "resolve" THEN [op[u] EXCEPT !.over = LayerNames]
                  ELSE op[u]]
      /\ cache' = op[t].snapshot /\ template' = op[t].snapshot /\ value' = << >>
      /\ stale' = (op[t].over # {})
      /\ UNCHANGED <<config, file, assoc, unsaved, loose>>
  BY DEF Store, layerVars
<1>2. op[t].snapshot \in Configs /\ op[t].snapshot # None /\ << >> \in Configs
  BY <1>0, ChangeTypes, NoneIsNothing, EmptyConfig
<1>3. /\ op'[t] \in Changes /\ op'[t].at = "hook" /\ Same(t)
  <2>1. op[t] \in Changes /\ op'[t] = [op[t] EXCEPT !.at = "hook", !.snapshot = << >>]
    BY <1>0, <1>1, ChangeTypes
  <2> QED BY <2>1, <1>0, <1>2 DEF Changes, Busy, Same
<1>4. ASSUME NEW u \in Threads, u # t
      PROVE  /\ op'[u] \in Ops /\ Same(u)
             /\ \/ op'[u] = op[u] /\ op[u].at # "resolve"
                \/ op[u].at = "resolve" /\ op'[u].at = "resolve" /\ op'[u].over = LayerNames
  <2>1. CASE op[u].at = "resolve"
    <3>1. op[u] \in Resolves /\ op'[u] = [op[u] EXCEPT !.over = LayerNames]
      BY <1>0, <1>1, <1>4, <2>1, OpTypes
    <3> QED BY <3>1, <2>1 DEF Resolves, Ops, Same, Busy
  <2>2. CASE op[u].at # "resolve"
    BY <1>0, <1>1, <1>4, <2>2, OpTypes DEF Same
  <2> QED BY <2>1, <2>2
<1>5. op' \in [Threads -> Ops]
  <2>1. \A u \in Threads : op'[u] \in Ops
    BY <1>3, <1>4 DEF Ops
  <2>2. op' = [u \in Threads |-> op'[u]]
    BY <1>1
  <2> QED BY <2>1, <2>2
<1>6. TypeOK'
  BY <1>0, <1>1, <1>2, <1>5, OpTypes, IsTyped
<1>7. FileInv' /\ AssocInv' /\ MoveInv'
  <2>1. op'[t].at \in Busy /\ op'[t].at = "hook"
    BY <1>3 DEF Busy
  <2>2. ASSUME NEW u \in Threads
        PROVE  /\ Same(u)
               /\ \/ op'[u] = op[u]
                  \/ /\ op[u].at \notin {"save", "write"} /\ op'[u].at \notin {"save", "write"}
                     /\ op[u].at \in Busy => op'[u].at \in Busy
    BY <1>0, <1>3, <1>4, <2>1 DEF Busy
  <2> QED BY <2>2, <1>1, LayersStay
<1>8. CacheInv'
  <2>1. M' = M
    BY <1>1 DEF M
  <2>2. ~stale' => cache' = M /\ template' = M
    BY <1>0, <1>1 DEF IInv, CacheInv
  <2>3. DOMAIN value' = {}
    BY <1>1, EmptyConfig
  <2>4. LayerNames # {}
    BY LayerAt
  <2>5. ASSUME NEW u \in Threads
        PROVE  /\ op'[u].at = "store" /\ op'[u].over = {} => op'[u].snapshot = M
               /\ ~(op'[u].at = "resolve" /\ op'[u].over = {})
    <3>1. CASE u = t
      BY <3>1, <1>3
    <3>2. CASE u # t
      BY <3>2, <1>4, <2>4 DEF IInv, CacheInv
    <3> QED BY <3>1, <3>2
  <2> QED BY <2>1, <2>2, <2>3, <2>5, <1>1, <1>2 DEF CacheInv
<1> QED BY <1>6, <1>7, <1>8 DEF IInv

-----------------------------------------------------------------------------
(* The hooks *)

\* What the hook is called for is an item.
LEMMA HookedTypes ==
    ASSUME TypeOK, NEW k PROVE HookedItems(k) \subseteq Items /\ \A i \in HookedItems(k) : i[1] = k
<1>1. DOMAIN Current \subseteq ItemKeys /\ \A x \in DOMAIN Current : Current[x] \in Templates
  BY CurrentTypes, ConfigOf
<1> QED BY <1>1 DEF HookedItems, ItemsOf, Items

\* A hook that ends the change has left the merge in the cache.
LEMMA HookEnds ==
    ASSUME IInv, NEW t \in Threads, op[t].at = "hook", op' = [op EXCEPT ![t] = Idle],
           cache' = Current, assoc' \subseteq Items, loose' \subseteq ItemKeys,
           UNCHANGED <<config, file, template, value, unsaved, stale, left>>
    PROVE  TypeOK' /\ FileInv' /\ CacheInv' /\ MoveInv'
<1>0. TypeOK /\ op[t].at \in Busy
  BY DEF IInv, Busy
<1>1. /\ op' \in [Threads -> Ops] /\ op'[t].at = "idle"
      /\ \A u \in Threads \ {t} : op'[u] = op[u]
      /\ \A u \in Threads : Same(u)
  BY <1>0, Ends
<1>2. /\ Current \in Configs /\ Current # None
      /\ Current = IF cache = None THEN M ELSE cache
  BY <1>0, CurrentTypes
<1>3. TypeOK'
  BY <1>0, <1>1, <1>2, OpTypes, IsTyped
<1>4. FileInv'
  BY <1>0, <1>1, FileStays DEF IInv
<1>5. CacheInv'
  <2>1. M' = M
    BY DEF M
  <2>2. \A u \in Threads : op[u].at # "hook" => op'[u] = op[u]
    BY <1>1
  <2>3. \A u \in Threads : op'[u].at \in {"collect", "store", "resolve"} => op'[u] = op[u]
    BY <1>1
  <2>4. cache \in {None, M} => cache' \in {None, M}
    BY <1>2
  <2>5. \A u \in Threads : op[u].at \in {"save", "write", "drop"} => op'[u] = op[u]
    BY <2>2
  <2>6. \A u \in Threads : op[u].at \in Busy \ {"hook"} => op'[u] = op[u]
    BY <2>2
  <2>7. ~stale => /\ \/ cache' \in {None, M}
                     \/ \E u \in Threads : op'[u].at \in {"save", "write", "drop"}
                  /\ \/ template = M
                     \/ \E u \in Threads : op'[u].at \in Busy \ {"hook"}
                  /\ \A k \in DOMAIN value : k \in DOMAIN template /\ value[k] = template[k]
    <3> SUFFICES ASSUME ~stale
                 PROVE  /\ \/ cache' \in {None, M}
                           \/ \E u \in Threads : op'[u].at \in {"save", "write", "drop"}
                        /\ \/ template = M
                           \/ \E u \in Threads : op'[u].at \in Busy \ {"hook"}
                        /\ \A k \in DOMAIN value : k \in DOMAIN template /\ value[k] = template[k]
      OBVIOUS
    <3>1. /\ cache \in {None, M} \/ \E u \in Threads : op[u].at \in {"save", "write", "drop"}
          /\ template = M \/ \E u \in Threads : op[u].at \in Busy \ {"hook"}
          /\ \A k \in DOMAIN value : k \in DOMAIN template /\ value[k] = template[k]
      BY DEF IInv, CacheInv
    <3>2. cache' \in {None, M} \/ \E u \in Threads : op'[u].at \in {"save", "write", "drop"}
      BY <3>1, <2>4, <2>5
    <3>3. template = M \/ \E u \in Threads : op'[u].at \in Busy \ {"hook"}
      BY <3>1, <2>6
    <3> QED BY <3>1, <3>2, <3>3
  <2>8. ASSUME NEW u \in Threads
        PROVE  /\ op'[u].at = "collect" /\ op'[u].over = {} /\ ~stale => cache' \in {None, M}
               /\ op'[u].at = "store" /\ op'[u].over = {} => op'[u].snapshot = M
               /\ op'[u].at = "resolve" /\ op'[u].over = {} =>
                    op'[u].key \in DOMAIN template /\ op'[u].from = template[op'[u].key]
    BY <2>3, <2>4 DEF IInv, CacheInv
  <2> QED BY <2>1, <2>7, <2>8, <1>2 DEF CacheInv
<1>6. MoveInv'
  <2>1. op'[UI].at = "write" /\ op'[UI].kind = "set" => op'[UI].key \in DOMAIN op'[UI].snapshot
    BY <1>1, ThreadNames DEF IInv, MoveInv, Busy
  <2>2. op'[UI].at \in Busy \ {"save", "write"} => op[UI].at \notin {"save", "write"}
    BY <1>1, ThreadNames DEF Busy
  <2>3. \A h : Saves(op[Net], h) => Saves(op'[Net], h)
    BY <1>1, ThreadNames DEF Saves
  <2> QED BY <2>1, <2>2, <2>3, <1>0, <1>1, MoveStays DEF IInv
<1> QED BY <1>3, <1>4, <1>5, <1>6

\* The hook of a removed item takes its association away.
LEMMA HookRemovedStep ==
    ASSUME IInv, NEW t \in Threads, HookRemoved(t), left' = left PROVE IInv'
<1> DEFINE k == op[t].key
<1>0. TypeOK /\ op[t].at = "hook" /\ op[t].kind = "remove" /\ op[t].at \in Busy /\ k \in ItemKeys
  BY ChangeTypes DEF IInv, Busy, HookRemoved
<1>1. /\ op' = [op EXCEPT ![t] = Idle] /\ cache' = Current
      /\ assoc' = assoc \ HookedItems(k) /\ loose' = loose \cup {k} \cup LooseBy(k)
      /\ UNCHANGED <<config, file, template, value, unsaved, stale>>
  BY DEF HookRemoved, layerVars
<1> HIDE DEF k
<1>2. assoc' \subseteq Items /\ loose' \subseteq ItemKeys
  BY <1>0, <1>1, OpTypes DEF LooseBy
<1>3. TypeOK' /\ FileInv' /\ CacheInv' /\ MoveInv'
  BY <1>0, <1>1, <1>2, HookEnds
<1>4. AssocInv'
  <2> SUFFICES ASSUME NEW x \in DOMAIN M \ loose', <<AssocKey, x[1]>> \in DOMAIN M
               PROVE  \/ <<x, M[x]>> \in assoc'
                      \/ \E u \in Threads : op'[u].at \in Busy /\ op'[u].kind = "set" /\ op'[u].key = x
    <3>1. M' = M
      BY <1>1 DEF M
    <3> QED BY <3>1 DEF AssocInv
  <2>1. x # k /\ x \notin loose
    BY <1>1
  <2>2. CASE <<x, M[x]>> \in assoc
    <3>1. <<x, M[x]>> \notin HookedItems(k)
      BY <2>1, <1>0, HookedTypes
    <3> QED BY <3>1, <2>2, <1>1
  <2>3. CASE \E u \in Threads : op[u].at \in Busy /\ op[u].kind = "set" /\ op[u].key = x
    <3>1. PICK u \in Threads : op[u].at \in Busy /\ op[u].kind = "set" /\ op[u].key = x
      BY <2>3
    <3>2. u # t
      BY <3>1, <1>0
    <3>3. op'[u] = op[u]
      BY <3>2, <1>0, <1>1, Ends
    <3> QED BY <3>1, <3>3
  <2> QED BY <2>1, <2>2, <2>3 DEF IInv, AssocInv
<1> QED BY <1>3, <1>4 DEF IInv

\* The hook of an item that was set makes its association.
LEMMA HookSetStep ==
    ASSUME IInv, NEW t \in Threads, HookSet(t), left' = left PROVE IInv'
<1> DEFINE k == op[t].key
           l == op[t].layer
           other == op[t].other
           known == Associated(k[1])
           hooked == IF known THEN HookedItems(k) ELSE {}
           tight == known /\ hooked = {i \in ItemsOf(Merged(config)) : i[1] = k}
           settled == IF tight THEN loose \ {k} ELSE loose \cup {k}
<1>0. /\ TypeOK /\ op[t].at = "hook" /\ op[t].kind = "set" /\ op[t].at \in Busy
      /\ k \in ItemKeys /\ l \in LayerNames /\ other \in LayerNames \cup {None}
  BY ChangeTypes DEF IInv, Busy, HookSet
<1>1. /\ assoc' = assoc \cup hooked /\ cache' = Current
      /\ UNCHANGED <<file, template, value, unsaved, stale>>
  BY DEF HookSet
<1>2. \/ other # None /\ k \in DOMAIN config[other] /\ RemoveItem(t, other, k, l)
      \/ op' = [op EXCEPT ![t] = Idle] /\ loose' = settled /\ config' = config
  BY DEF HookSet
<1>3. hooked \subseteq Items
  BY <1>0, HookedTypes
<1>4. assoc \subseteq Items /\ loose \subseteq ItemKeys /\ settled \subseteq ItemKeys
  BY <1>0, OpTypes
<1>5. CASE op' = [op EXCEPT ![t] = Idle] /\ loose' = settled /\ config' = config
  <2> HIDE DEF k
  <2>1. TypeOK' /\ FileInv' /\ CacheInv' /\ MoveInv'
    BY <1>0, <1>1, <1>3, <1>4, <1>5, HookEnds
  <2>2. AssocInv'
    <3> SUFFICES ASSUME NEW x \in DOMAIN M \ loose', <<AssocKey, x[1]>> \in DOMAIN M
                 PROVE  \/ <<x, M[x]>> \in assoc'
                        \/ \E u \in Threads : op'[u].at \in Busy /\ op'[u].kind = "set" /\ op'[u].key = x
      <4>1. M' = M
        BY <1>5 DEF M
      <4> QED BY <4>1 DEF AssocInv
    <3>1. CASE x = k
      <4>1. tight
        BY <3>1, <1>5
      <4>2. <<x, M[x]>> \in hooked
        BY <3>1, <4>1 DEF ItemsOf, M
      <4> QED BY <4>2, <1>1
    <3>2. CASE x # k
      <4>1. x \notin loose
        BY <3>2, <1>5
      <4>2. CASE <<x, M[x]>> \in assoc
        BY <4>2, <1>1
      <4>3. CASE \E u \in Threads : op[u].at \in Busy /\ op[u].kind = "set" /\ op[u].key = x
        <5>1. PICK u \in Threads : op[u].at \in Busy /\ op[u].kind = "set" /\ op[u].key = x
          BY <4>3
        <5>2. u # t
          BY <5>1, <3>2 DEF k
        <5>3. op'[u] = op[u]
          BY <5>2, <1>0, <1>5, Ends
        <5> QED BY <5>1, <5>3
      <4> QED BY <4>1, <4>2, <4>3 DEF IInv, AssocInv
    <3> QED BY <3>1, <3>2
  <2> QED BY <2>1, <2>2 DEF IInv
<1>6. CASE other # None /\ k \in DOMAIN config[other] /\ RemoveItem(t, other, k, l)
  <2> DEFINE c == WithoutItem(config[other], k)
  <2>0. other \in LayerNames /\ config[other] \in Configs /\ config \in [LayerNames -> Configs]
    BY <1>0, <1>6, OpTypes
  <2>1. /\ config' = [config EXCEPT ![other] = c] /\ loose' = loose \cup {k}
        /\ Start(t, "remove", other, k, l)
    BY <1>6 DEF RemoveItem
  <2>2. c \in Configs /\ DOMAIN c = DOMAIN config[other] \ {k}
        /\ \A x \in DOMAIN config[other] \ {k} : c[x] = config[other][x]
    BY <2>0, ItemRemoved
  <2>3. t = UI /\ op[UI].kind = "set" /\ other # l
    BY <1>0, <1>6, ThreadNames DEF IInv, MoveInv
  <2>4. k \in DOMAIN config[l] /\ Saved(unsaved, file, l, k)
    BY <1>0, <2>3 DEF IInv, MoveInv
  <2>5. op[t].at = "hook" /\ op[t].key = k
    BY <1>0
  <2>6. left' \in 0 .. MaxOps
    BY <1>0, OpTypes
  <2> HIDE DEF k, l, other, c, hooked
  <2>7. TypeOK' /\ FileInv' /\ CacheInv' /\ AssocInv'
    <3>1. PICK kind \in {"set", "remove"} : kind = "remove"
      OBVIOUS
    <3>2. Start(t, kind, other, k, l) /\ l \in LayerNames \cup {None}
      BY <3>1, <2>1, <1>0
    <3>3. /\ \A x : x # k => (x \in DOMAIN c <=> x \in DOMAIN config[other])
          /\ \A x \in DOMAIN c : x # k => c[x] = config[other][x]
          /\ kind = "set" => LooseBy(k) \subseteq loose'
          /\ kind = "remove" => k \notin DOMAIN c /\ k \in loose'
      BY <3>1, <2>1, <2>2
    <3>4. /\ loose \subseteq loose' /\ loose' \subseteq ItemKeys
          /\ assoc \subseteq assoc' /\ assoc' \subseteq Items
      BY <2>1, <1>0, <1>1, <1>3, <1>4
    <3>5. Change(t, kind, other, k, l, c)
      BY <3>2, <3>3, <3>4, <2>1, <2>5, <2>6, <1>1 DEF Change
    <3> QED BY <3>2, <3>5, <2>0, <2>2, <1>0, ChangeInv
  <2>8. MoveInv'
    <3>1. op'[UI] = [at |-> "save", kind |-> "remove", layer |-> other, key |-> k,
                     other |-> l, snapshot |-> << >>, over |-> {}]
      BY <2>1, <2>3 DEF Start
    <3>2. /\ op'[UI].kind = "remove" /\ op'[UI].layer = other /\ op'[UI].key = k
          /\ op'[UI].other = l
      BY <3>1
    <3>3. /\ op'[Net].at = op[Net].at
          /\ op[Net].at \in Busy => op'[Net].kind = op[Net].kind /\ op'[Net].other = op[Net].other
      <4>1. PICK kind \in {"set", "remove"} : kind = "remove"
        OBVIOUS
      <4>2. Start(UI, kind, other, k, l) /\ l \in LayerNames \cup {None}
        BY <4>1, <2>1, <2>3, <1>0
      <4> QED BY <4>2, <2>0, <1>0, Others, ThreadNames
    <3>4. op'[Net].at \in Busy => op'[Net].kind = "set" /\ op'[Net].other = None
      BY <3>3 DEF IInv, MoveInv
    <3>5. k \in DOMAIN config'[l] /\ Saved(unsaved', file', l, k)
      BY <2>0, <2>1, <2>3, <2>4, <1>0, <1>1
    <3> QED BY <3>2, <3>4, <3>5, <2>3 DEF MoveInv
  <2> QED BY <2>7, <2>8 DEF IInv
<1> QED BY <1>2, <1>5, <1>6

-----------------------------------------------------------------------------
(* The user interface *)

\* A service reads a value, from the cache or to be made.
LEMMA ResolveStep ==
    ASSUME IInv, NEW k \in ItemKeys, Resolve(k), left' \in 0 .. MaxOps PROVE IInv'
<1>0. TypeOK
  BY DEF IInv
<1> DEFINE o == [at |-> "resolve", key |-> k, from |-> template[k], over |-> {}]
<1>1. /\ op[UI] = Idle /\ k \in DOMAIN template /\ op' = [op EXCEPT ![UI] = o]
      /\ UNCHANGED <<config, file, cache, template, value, assoc, unsaved, stale, loose>>
  BY DEF Resolve, layerVars, cacheVars, ghostVars
<1>2. /\ o \in Resolves /\ o.at = "resolve" /\ o.key = k /\ o.from = template[k] /\ o.over = {}
  BY <1>0, <1>1, OpTypes, ConfigOf DEF Resolves
<1> HIDE DEF o
<1>3. /\ op' \in [Threads -> Ops] /\ op'[UI] = o
      /\ \A u \in Threads \ {UI} : op'[u] = op[u]
  <2>1. PICK x \in Ops : x = o
    BY <1>2 DEF Ops
  <2> QED BY <2>1, <1>0, <1>1, ThreadNames, OpSet
<1>4. TypeOK'
  BY <1>0, <1>1, <1>3, OpTypes, IsTyped
<1>5. op[UI].at = "idle" /\ op'[UI].at = "resolve"
  BY <1>1, <1>2, <1>3 DEF Idle
<1>6. FileInv' /\ AssocInv' /\ MoveInv'
  <2>1. \A u \in Threads : Same(u)
    BY <1>3, <1>5 DEF Same, Busy
  <2> QED BY <2>1, <1>1, <1>3, <1>5, LayersStay DEF Busy
<1>7. CacheInv'
  <2>1. M' = M
    BY <1>1 DEF M
  <2>2. \A u \in Threads : op'[u].at \in Busy => op'[u] = op[u]
    BY <1>3, <1>5 DEF Busy
  <2>3. \A u \in Threads : op[u].at \in Busy => op'[u] = op[u]
    BY <1>3, <1>5 DEF Busy
  <2>4. ASSUME NEW u \in Threads, op'[u].at = "resolve", op'[u].over = {}
        PROVE  op'[u].key \in DOMAIN template /\ op'[u].from = template[op'[u].key]
    <3>1. CASE u = UI
      BY <3>1, <1>1, <1>2, <1>3
    <3>2. CASE u # UI
      BY <3>2, <2>4, <1>3 DEF IInv, CacheInv
    <3> QED BY <3>1, <3>2
  <2>5. {"save", "write", "drop", "collect", "store"} \subseteq Busy
    BY DEF Busy
  <2> QED BY <2>1, <2>2, <2>3, <2>4, <2>5, <1>1 DEF IInv, CacheInv
<1> QED BY <1>4, <1>6, <1>7 DEF IInv

\* The value made is kept.
LEMMA KeepStep ==
    ASSUME IInv, Keep, left' = left PROVE IInv'
<1> DEFINE k == op[UI].key
<1>0. TypeOK /\ op[UI].at = "resolve"
  BY DEF IInv, Keep
<1>1. /\ value' = WithItem(value, k, op[UI].from) /\ stale' = (stale \/ op[UI].over # {})
      /\ op' = [op EXCEPT ![UI] = Idle]
      /\ UNCHANGED <<config, file, cache, template, assoc, unsaved, loose>>
  BY DEF Keep, layerVars
<1>2. op[UI] \in Resolves /\ k \in ItemKeys /\ op[UI].from \in Templates
  <2>1. op[UI] \in Resolves
    BY <1>0, OpTypes, ThreadNames
  <2> QED BY <2>1 DEF Resolves
<1>3. /\ value' \in Configs /\ DOMAIN value' = DOMAIN value \cup {k}
      /\ \A x \in DOMAIN value \ {k} : value'[x] = value[x]
      /\ value'[k] = op[UI].from
  <2>1. value \in Configs
    BY <1>0, OpTypes
  <2>2. WithItem(value, k, op[UI].from)[k] = op[UI].from
    BY DEF WithItem
  <2> QED BY <2>1, <2>2, <1>1, <1>2, ItemSet
<1>4. /\ op' \in [Threads -> Ops] /\ op'[UI] = Idle /\ op'[UI].at = "idle"
      /\ \A u \in Threads \ {UI} : op'[u] = op[u]
      /\ \A u \in Threads : Same(u)
  BY <1>0, <1>1, ThreadNames, Ends
<1>5. TypeOK'
  BY <1>0, <1>1, <1>3, <1>4, OpTypes, IsTyped
<1>6. FileInv' /\ AssocInv' /\ MoveInv'
  BY <1>0, <1>1, <1>4, LayersStay DEF Busy
<1>7. CacheInv'
  <2>1. M' = M
    BY <1>1 DEF M
  <2>2. \A u \in Threads : op'[u].at \in Busy \cup {"resolve"} => op'[u] = op[u]
    BY <1>4 DEF Busy
  <2>3. \A u \in Threads : op[u].at \in Busy => op'[u] = op[u]
    BY <1>0, <1>4 DEF Busy
  <2>4. ~stale' => /\ ~stale /\ k \in DOMAIN template /\ value'[k] = template[k]
    BY <1>0, <1>1, <1>3, ThreadNames DEF IInv, CacheInv
  <2>5. ~stale' => \A x \in DOMAIN value' : x \in DOMAIN template /\ value'[x] = template[x]
    BY <2>4, <1>3 DEF IInv, CacheInv
  <2>6. {"save", "write", "drop", "collect", "store"} \subseteq Busy
    BY DEF Busy
  <2>7. ~stale' => /\ \/ cache' \in {None, M'}
                      \/ \E t \in Threads : op'[t].at \in {"save", "write", "drop"}
                   /\ \/ template' = M'
                      \/ \E t \in Threads : op'[t].at \in Busy \ {"hook"}
    BY <2>1, <2>3, <2>4, <2>6, <1>1 DEF IInv, CacheInv
  <2>8. cache' = None => \E t \in Threads : op'[t].at \in {"collect", "store"}
    BY <2>3, <2>6, <1>1 DEF IInv, CacheInv
  <2>9. ASSUME NEW u \in Threads
        PROVE  /\ op'[u].at = "collect" /\ op'[u].over = {} /\ ~stale' => cache' \in {None, M'}
               /\ op'[u].at = "store" /\ op'[u].over = {} => op'[u].snapshot = M'
               /\ op'[u].at = "resolve" /\ op'[u].over = {} =>
                    op'[u].key \in DOMAIN template' /\ op'[u].from = template'[op'[u].key]
    BY <2>1, <2>2, <2>4, <2>6, <1>1 DEF IInv, CacheInv
  <2> QED BY <2>5, <2>7, <2>8, <2>9, <1>1 DEF CacheInv
<1> QED BY <1>5, <1>6, <1>7 DEF IInv

\* An item is removed from the memory of its layer.
LEMMA UserRemoveStep ==
    ASSUME IInv, NEW l \in LayerNames, NEW k \in ItemKeys, UserRemove(l, k),
           left' \in 0 .. MaxOps
    PROVE  IInv'
<1> DEFINE c == WithoutItem(config[l], k)
<1>0. TypeOK /\ config \in [LayerNames -> Configs] /\ config[l] \in Configs
  BY OpTypes DEF IInv
<1>1. /\ op[UI] = Idle /\ Start(UI, "remove", l, k, None)
      /\ config' = [config EXCEPT ![l] = c] /\ loose' = loose \cup {k}
      /\ UNCHANGED <<file, cache, template, value, assoc, unsaved, stale>>
  BY DEF UserRemove, RemoveItem, cacheVars
<1>2. c \in Configs /\ DOMAIN c = DOMAIN config[l] \ {k}
      /\ \A x \in DOMAIN config[l] \ {k} : c[x] = config[l][x]
  BY <1>0, ItemRemoved
<1> HIDE DEF c
<1>3. PICK kind \in {"set", "remove"} : kind = "remove"
  OBVIOUS
<1>4. PICK other \in LayerNames \cup {None} : other = None
  OBVIOUS
<1>5. Start(UI, kind, l, k, other)
  BY <1>1, <1>3, <1>4
<1>6. TypeOK' /\ FileInv' /\ CacheInv' /\ AssocInv'
  <2>1. Change(UI, kind, l, k, other, c)
    BY <1>0, <1>1, <1>2, <1>3, <1>5, OpTypes DEF Change
  <2> QED BY <2>1, <1>2, ThreadNames, ChangeInv
<1>7. MoveInv'
  <2>1. op'[UI] = [at |-> "save", kind |-> kind, layer |-> l, key |-> k,
                   other |-> other, snapshot |-> << >>, over |-> {}]
    BY <1>5, ThreadNames DEF Start
  <2>2. op'[UI].kind = "remove" /\ op'[UI].layer = l /\ op'[UI].other = None
    BY <2>1, <1>3, <1>4
  <2>3. None # l
    BY NoneIsNothing
  <2>4. /\ op'[Net].at = op[Net].at
        /\ op[Net].at \in Busy => op'[Net].kind = op[Net].kind /\ op'[Net].other = op[Net].other
    BY <1>0, <1>5, Others, ThreadNames
  <2> QED BY <2>2, <2>3, <2>4 DEF IInv, MoveInv
<1> QED BY <1>6, <1>7 DEF IInv

\* An item is set in the memory of its layer.
LEMMA UserSetStep ==
    ASSUME IInv, NEW l \in LayerNames, NEW k \in ItemKeys, NEW v \in Templates,
           UserSet(l, k, v), left' \in 0 .. MaxOps
    PROVE  IInv'
<1> DEFINE c == WithItem(config[l], k, v)
<1>0. TypeOK /\ config \in [LayerNames -> Configs] /\ config[l] \in Configs
  BY OpTypes DEF IInv
<1>1. /\ op[UI] = Idle /\ Start(UI, "set", l, k, None)
      /\ config' = [config EXCEPT ![l] = c] /\ loose' = loose \cup LooseBy(k)
      /\ UNCHANGED <<file, cache, template, value, assoc, unsaved, stale>>
  BY DEF UserSet, SetItem, cacheVars
<1>2. c \in Configs /\ DOMAIN c = DOMAIN config[l] \cup {k}
      /\ \A x \in DOMAIN config[l] \ {k} : c[x] = config[l][x]
  BY <1>0, ItemSet
<1> HIDE DEF c
<1>3. PICK kind \in {"set", "remove"} : kind = "set"
  OBVIOUS
<1>4. PICK other \in LayerNames \cup {None} : other = None
  OBVIOUS
<1>5. Start(UI, kind, l, k, other)
  BY <1>1, <1>3, <1>4
<1>6. TypeOK' /\ FileInv' /\ CacheInv' /\ AssocInv'
  <2>1. LooseBy(k) \subseteq ItemKeys
    BY DEF LooseBy
  <2>2. Change(UI, kind, l, k, other, c)
    BY <2>1, <1>0, <1>1, <1>2, <1>3, <1>5, OpTypes DEF Change
  <2> QED BY <2>2, <1>2, ThreadNames, ChangeInv
<1>7. MoveInv'
  <2>1. op'[UI] = [at |-> "save", kind |-> kind, layer |-> l, key |-> k,
                   other |-> other, snapshot |-> << >>, over |-> {}]
    BY <1>5, ThreadNames DEF Start
  <2>2. /\ op'[UI].at = "save" /\ op'[UI].kind = "set" /\ op'[UI].layer = l /\ op'[UI].key = k
        /\ op'[UI].other = None
    BY <2>1, <1>3, <1>4
  <2>3. None # l /\ k \in DOMAIN config'[l]
    BY <1>0, <1>1, <1>2, NoneIsNothing
  <2>4. /\ op'[Net].at = op[Net].at
        /\ op[Net].at \in Busy => op'[Net].kind = op[Net].kind /\ op'[Net].other = op[Net].other
    BY <1>0, <1>5, Others, ThreadNames
  <2> QED BY <2>2, <2>3, <2>4 DEF IInv, MoveInv
<1> QED BY <1>6, <1>7 DEF IInv

\* The layer the item is moved from has it, and so does its file, unless the layer is
\* known to be unsaved or the other thread is saving it.
LEMMA UserMoveStep ==
    ASSUME IInv, NEW source \in LayerNames, NEW l \in LayerNames, NEW k \in ItemKeys,
           UserMove(source, l, k), left' \in 0 .. MaxOps
    PROVE  IInv'
<1> DEFINE v == Current[k]
           c == WithItem(config[l], k, v)
<1>0. TypeOK /\ config \in [LayerNames -> Configs] /\ config[l] \in Configs
  BY OpTypes DEF IInv
<1>1. /\ op[UI] = Idle /\ source # l /\ k \in DOMAIN config[source] /\ k \in DOMAIN Current
      /\ Start(UI, "set", l, k, source)
      /\ config' = [config EXCEPT ![l] = c] /\ loose' = loose \cup LooseBy(k)
      /\ cache' = Current
      /\ UNCHANGED <<file, template, value, assoc, unsaved, stale>>
  BY DEF UserMove, SetItem
<1>2. c \in Configs /\ DOMAIN c = DOMAIN config[l] \cup {k}
      /\ \A x \in DOMAIN config[l] \ {k} : c[x] = config[l][x]
  <2>1. v \in Templates
    BY <1>0, <1>1, CurrentTypes, ConfigOf
  <2> HIDE DEF v
  <2> QED BY <2>1, <1>0, ItemSet
<1> HIDE DEF c
<1>3. PICK kind \in {"set", "remove"} : kind = "set"
  OBVIOUS
<1>4. PICK other \in LayerNames \cup {None} : other = source
  OBVIOUS
<1>5. Start(UI, kind, l, k, other)
  BY <1>1, <1>3, <1>4
<1>6. TypeOK' /\ FileInv' /\ CacheInv' /\ AssocInv'
  <2>1. LooseBy(k) \subseteq ItemKeys
    BY DEF LooseBy
  <2>2. Change(UI, kind, l, k, other, c)
    BY <2>1, <1>0, <1>1, <1>2, <1>3, <1>5, OpTypes DEF Change
  <2> QED BY <2>2, <1>2, ThreadNames, ChangeInv
<1>7. MoveInv'
  <2>1. op'[UI] = [at |-> "save", kind |-> kind, layer |-> l, key |-> k,
                   other |-> other, snapshot |-> << >>, over |-> {}]
    BY <1>5, ThreadNames DEF Start
  <2>2. /\ op'[UI].at = "save" /\ op'[UI].kind = "set" /\ op'[UI].layer = l /\ op'[UI].key = k
        /\ op'[UI].other = source
    BY <2>1, <1>3, <1>4
  <2>3. k \in DOMAIN config'[l] /\ k \in DOMAIN config'[source]
    BY <1>0, <1>1, <1>2
  <2>4. /\ op'[Net].at = op[Net].at
        /\ op[Net].at \in Busy => op'[Net].kind = op[Net].kind /\ op'[Net].other = op[Net].other
                                  /\ op'[Net].layer = op[Net].layer
    BY <1>0, <1>5, Others, ThreadNames
  <2>5. Saved(unsaved', file', source, k) \/ Saves(op'[Net], source)
    <3>1. CASE source \in unsaved
      BY <3>1, <1>1 DEF Saved
    <3>2. CASE file[source] = config[source]
      BY <3>2, <1>1 DEF Saved
    <3>3. CASE source \notin unsaved /\ \E t \in Threads : Saves(op[t], source)
      <4>1. ~Saves(op[UI], source)
        BY <1>1 DEF Saves, Idle
      <4>2. Saves(op[Net], source) /\ op[Net].at \in Busy
        BY <4>1, <3>3, ThreadNames DEF Saves, Busy
      <4> QED BY <4>2, <2>4 DEF Saves
    <3> QED BY <3>1, <3>2, <3>3 DEF IInv, FileInv
  <2> QED BY <2>2, <2>3, <2>4, <2>5, <1>1 DEF IInv, MoveInv
<1> QED BY <1>6, <1>7 DEF IInv

-----------------------------------------------------------------------------
(* The network, and restarts *)

\* The network associates an item, and the hook of the association service has its say.
LEMMA ReceiveStep ==
    ASSUME IInv, NEW k \in ItemKeys, NEW v \in Templates, Receive(k, v), left' \in 0 .. MaxOps
    PROVE  IInv'
<1> DEFINE l == DefaultLayer
           c == WithItem(config[l], k, v)
<1>0. TypeOK /\ config \in [LayerNames -> Configs] /\ l \in LayerNames /\ config[l] \in Configs
  BY OpTypes, LayerAt DEF IInv
<1>1. /\ op[Net] = Idle /\ assoc' = assoc \cup {<<k, v>>}
      /\ UNCHANGED <<file, cache, template, value, unsaved, stale>>
  BY DEF Receive, cacheVars
<1>2. assoc' \subseteq Items
  BY <1>0, <1>1, OpTypes DEF Items
<1>3. CASE SetItem(Net, l, k, v, None) /\ loose' = loose \cup LooseBy(k)
  <2>1. c \in Configs /\ DOMAIN c = DOMAIN config[l] \cup {k}
        /\ \A x \in DOMAIN config[l] \ {k} : c[x] = config[l][x]
    BY <1>0, ItemSet
  <2>2. Start(Net, "set", l, k, None) /\ config' = [config EXCEPT ![l] = c]
    BY <1>3 DEF SetItem
  <2> HIDE DEF c, l
  <2>3. PICK kind \in {"set", "remove"} : kind = "set"
    OBVIOUS
  <2>4. PICK other \in LayerNames \cup {None} : other = None
    OBVIOUS
  <2>5. Start(Net, kind, l, k, other)
    BY <2>2, <2>3, <2>4
  <2>6. TypeOK' /\ FileInv' /\ CacheInv' /\ AssocInv'
    <3>1. LooseBy(k) \subseteq ItemKeys
      BY DEF LooseBy
    <3>2. Change(Net, kind, l, k, other, c)
      BY <3>1, <1>0, <1>1, <1>2, <1>3, <2>1, <2>2, <2>3, <2>5, OpTypes DEF Change
    <3> QED BY <3>2, <2>1, <1>0, ThreadNames, ChangeInv
  <2>7. MoveInv'
    <3>1. op'[Net] = [at |-> "save", kind |-> kind, layer |-> l, key |-> k,
                      other |-> other, snapshot |-> << >>, over |-> {}]
      BY <2>5, ThreadNames DEF Start
    <3>2. op'[Net].kind = "set" /\ op'[Net].other = None
      BY <3>1, <2>3, <2>4
    <3>3. op'[UI].at = op[UI].at
      BY <2>5, <1>0, Others, ThreadNames
    <3>4. op[UI].at \in Busy =>
            /\ op'[UI].layer = op[UI].layer /\ op'[UI].kind = op[UI].kind
            /\ op'[UI].key = op[UI].key /\ op'[UI].other = op[UI].other
            /\ op'[UI].snapshot = op[UI].snapshot
      BY <2>5, <1>0, Others, ThreadNames
    <3>5. \A h \in LayerNames : \A x \in DOMAIN config[h] : x \in DOMAIN config'[h]
      BY <1>0, <2>1, <2>2
    <3>6. \A h : ~Saves(op[Net], h)
      BY <1>1 DEF Saves, Idle
    <3>7. op[UI].at \in Busy => op[UI].layer \in LayerNames /\ op[UI].other \in LayerNames \cup {None}
      BY <1>0, ThreadNames, ChangeTypes
    <3> QED BY <3>2, <3>3, <3>4, <3>5, <3>6, <3>7, <1>1 DEF IInv, MoveInv
  <2> QED BY <2>6, <2>7 DEF IInv
<1>4. CASE UNCHANGED <<config, op, loose>>
  <2>1. TypeOK'
    BY <1>0, <1>1, <1>2, <1>4, OpTypes, IsTyped
  <2>2. FileInv'
    BY <1>1, <1>4 DEF IInv, FileInv
  <2>3. M' = M
    BY <1>4 DEF M
  <2>4. CacheInv'
    BY <2>3, <1>1, <1>4 DEF IInv, CacheInv
  <2>5. AssocInv'
    BY <2>3, <1>1, <1>4 DEF IInv, AssocInv
  <2>6. MoveInv'
    BY <1>1, <1>4 DEF IInv, MoveInv
  <2> QED BY <2>1, <2>2, <2>4, <2>5, <2>6 DEF IInv
<1> QED BY <1>3, <1>4 DEF Receive, OnAssociationReceived

\* When nothing is in progress, and the files and the caches are the layers.
LEMMA AtRest ==
    ASSUME TypeOK', \A t \in Threads : op'[t] = Idle, file' = config',
           cache' = M', template' = M', value' = << >>,
           \A k \in DOMAIN M' : <<AssocKey, k[1]>> \in DOMAIN M' => <<k, M'[k]>> \in assoc'
    PROVE  IInv'
<1>1. \A t \in Threads : op'[t].at = "idle"
  BY DEF Idle
<1>2. FileInv'
  BY <1>1 DEF FileInv
<1>3. CacheInv'
  <2>1. cache' # None
    <3>1. config' \in [LayerNames -> Configs]
      BY DEF TypeOK
    <3>2. PICK cfg \in [LayerNames -> Configs] : cfg = config'
      BY <3>1
    <3>3. Merged(cfg) \in Configs
      BY MergedType
    <3> QED BY <3>2, <3>3, NoneIsNothing DEF M
  <2>2. DOMAIN value' = {}
    BY EmptyConfig
  <2> QED BY <2>1, <2>2, <1>1 DEF CacheInv
<1>4. AssocInv'
  BY DEF AssocInv
<1>5. MoveInv'
  BY <1>1, ThreadNames DEF MoveInv, Busy
<1> QED BY <1>2, <1>3, <1>4, <1>5 DEF IInv

\* After a restart memory is what the files have, and nothing is cached.
LEMMA RestartStep ==
    ASSUME IInv, Restart, left' \in 0 .. MaxOps PROVE IInv'
<1>0. TypeOK /\ file \in [LayerNames -> Configs]
  BY OpTypes DEF IInv
<1>1. /\ config' = file /\ file' = file /\ M' = Merged(file)
      /\ cache' = Merged(file) /\ template' = Merged(file) /\ value' = << >>
      /\ assoc' = {i \in ItemsOf(Merged(file)) : <<AssocKey, i[1][1]>> \in DOMAIN Merged(file)}
      /\ op' = [t \in Threads |-> Idle]
      /\ unsaved' = {} /\ stale' = FALSE /\ loose' = {}
  BY DEF Restart, Loaded, M
<1>2. Merged(file) \in Configs
  BY <1>0, MergedType
<1>3. DOMAIN Merged(file) \subseteq ItemKeys /\ \A x \in DOMAIN Merged(file) : Merged(file)[x] \in Templates
  BY <1>2, ConfigOf
<1>4. assoc' \subseteq Items
  BY <1>1, <1>3 DEF ItemsOf, Items
<1>5. op' \in [Threads -> Ops] /\ \A t \in Threads : op'[t] = Idle
  BY <1>1 DEF Ops
<1>6. TypeOK'
  BY <1>0, <1>1, <1>2, <1>4, <1>5, EmptyConfig, IsTyped
<1>7. \A k \in DOMAIN M' : <<AssocKey, k[1]>> \in DOMAIN M' => <<k, M'[k]>> \in assoc'
  BY <1>1 DEF ItemsOf
<1> QED BY <1>1, <1>5, <1>6, <1>7, AtRest

\* There are no items at first.
LEMMA InitInv == Init => IInv
<1> SUFFICES ASSUME Init PROVE IInv
  OBVIOUS
<1>1. << >> \in Configs /\ DOMAIN << >> = {}
  BY EmptyConfig
<1>2. /\ config = [l \in LayerNames |-> << >>] /\ file = config
      /\ config \in [LayerNames -> Configs]
  BY <1>1 DEF Init
<1>3. M \in Configs /\ DOMAIN M = {}
  <2>1. M = Merged(config) /\ \A l \in LayerNames : DOMAIN config[l] = {}
    BY <1>1, <1>2 DEF M
  <2>2. \A k : k \notin DOMAIN M
    BY <2>1, <1>2, MergedTop
  <2> QED BY <2>1, <2>2, <1>2, MergedType
<1>4. M = << >>
  <2>1. M = [k \in {} |-> M[k]]
    BY <1>3, ConfigOf
  <2>2. << >> = [k \in {} |-> << >>[k]]
    BY <1>1, ConfigOf
  <2> QED BY <2>1, <2>2
<1>5. /\ cache = << >> /\ template = << >> /\ value = << >> /\ assoc = {}
      /\ op = [t \in Threads |-> Idle] /\ unsaved = {} /\ stale = FALSE /\ loose = {}
      /\ left = MaxOps
  BY DEF Init
<1>6. op \in [Threads -> Ops] /\ \A t \in Threads : op[t] = Idle /\ op[t].at = "idle"
  BY <1>5 DEF Ops, Idle
<1>7. TypeOK
  <2>1. file \in [LayerNames -> Configs]
    BY <1>2
  <2>2. cache \in Configs \cup {None} /\ template \in Configs /\ value \in Configs
    BY <1>1, <1>5
  <2>3. left \in 0 .. MaxOps
    BY <1>5, OpsAreCounted
  <2> QED BY <2>1, <2>2, <2>3, <1>2, <1>5, <1>6, OpTypes
<1>8. FileInv
  BY <1>2, <1>6 DEF FileInv
<1>9. CacheInv
  <2>1. cache # None
    BY <1>1, <1>5, NoneIsNothing
  <2> QED BY <2>1, <1>1, <1>4, <1>5, <1>6 DEF CacheInv
<1>10. AssocInv
  BY <1>3 DEF AssocInv
<1>11. MoveInv
  BY <1>6, ThreadNames DEF MoveInv, Busy
<1> QED BY <1>7, <1>8, <1>9, <1>10, <1>11 DEF IInv

-----------------------------------------------------------------------------
(* Theorems *)

\* Every reachable state satisfies the inductive invariant, whatever the layers, the
\* services, their keys and templates, and whatever is set and received.
THEOREM Invariance == Spec => []IInv
<1>1. \A i \in Items : i[1] \in ItemKeys /\ i[2] \in Templates
  BY DEF Items
<1>2. IInv /\ [Next]_vars => IInv'
  <2> SUFFICES ASSUME IInv, [Next]_vars PROVE IInv'
    OBVIOUS
  <2>0. Begin => left' \in 0 .. MaxOps
    BY OpTypes, OpsAreCounted DEF IInv, Begin
  <2>1. CASE \E l \in LayerNames, i \in UserItems : Begin /\ UserSet(l, i[1], i[2])
    BY <2>0, <2>1, <1>1, InputsAreItems, UserSetStep
  <2>2. CASE \E l \in LayerNames, k \in ItemKeys : Begin /\ UserRemove(l, k)
    BY <2>0, <2>2, UserRemoveStep
  <2>3. CASE \E source, target \in LayerNames, k \in ItemKeys : Begin /\ UserMove(source, target, k)
    BY <2>0, <2>3, UserMoveStep
  <2>4. CASE \E k \in ItemKeys : Begin /\ Resolve(k)
    BY <2>0, <2>4, ResolveStep
  <2>5. CASE Keep /\ UNCHANGED left
    BY <2>5, KeepStep
  <2>6. CASE \E i \in NetItems : Begin /\ Receive(i[1], i[2])
    BY <2>0, <2>6, <1>1, InputsAreItems, ReceiveStep
  <2>7. CASE UNCHANGED left /\ \E t \in Threads : ThreadNext(t)
    <3> SUFFICES ASSUME NEW t \in Threads, ThreadNext(t) PROVE IInv'
      BY <2>7
    <3>1. CASE Collect(t)
      BY <3>1, <2>7, CollectStep
    <3>2. CASE Write(t)
      BY <3>2, <2>7, WriteStep
    <3>3. CASE SaveFails(t)
      BY <3>3, <2>7, SaveFailsStep
    <3>4. CASE Drop(t)
      BY <3>4, <2>7, DropStep
    <3>5. CASE Merge(t)
      BY <3>5, <2>7, MergeStep
    <3>6. CASE Store(t)
      BY <3>6, <2>7, StoreStep
    <3>7. CASE HookSet(t)
      BY <3>7, <2>7, HookSetStep
    <3>8. CASE HookRemoved(t)
      BY <3>8, <2>7, HookRemovedStep
    <3> QED BY <3>1, <3>2, <3>3, <3>4, <3>5, <3>6, <3>7, <3>8 DEF ThreadNext
  <2>8. CASE Begin /\ Restart
    BY <2>0, <2>8, RestartStep
  <2>9. CASE UNCHANGED vars
    <3>1. /\ UNCHANGED <<config, file, cache, template, value, assoc, op>>
          /\ UNCHANGED <<unsaved, stale, loose, left>>
      BY <2>9 DEF vars, layerVars, cacheVars, ghostVars
    <3>2. M' = M
      BY <3>1 DEF M
    <3>3. TypeOK' /\ FileInv'
      BY <3>1 DEF IInv, TypeOK, FileInv
    <3>4. CacheInv' /\ AssocInv'
      BY <3>1, <3>2 DEF IInv, CacheInv, AssocInv
    <3>5. MoveInv'
      BY <3>1 DEF IInv, MoveInv
    <3> QED BY <3>3, <3>4, <3>5 DEF IInv
  <2> QED BY <2>1, <2>2, <2>3, <2>4, <2>5, <2>6, <2>7, <2>8, <2>9 DEF Next, UserNext
<1> QED BY InitInv, <1>2, PTL DEF Spec

\* When no thread is in the middle of anything, what services see is the merge of the
\* layers, and a restart would load the layers, but for failed and overtaken saves.
THEOREM QuietIsSound == Spec => []QuietIsConsistent
<1>1. IInv => QuietIsConsistent
  <2> SUFFICES ASSUME IInv, Quiet
               PROVE  /\ ~stale => /\ cache = Merged(config) /\ template = Merged(config)
                                   /\ \A k \in DOMAIN value :
                                        k \in DOMAIN template /\ value[k] = template[k]
                      /\ \A l \in LayerNames \ unsaved : file[l] = config[l]
    BY DEF QuietIsConsistent, IInv
  <2>1. \A t \in Threads : op[t].at = "idle"
    BY DEF Quiet, Idle
  <2>2. ~stale => cache = M /\ template = M
    BY <2>1 DEF IInv, CacheInv, Busy
  <2>3. ~stale => \A k \in DOMAIN value : k \in DOMAIN template /\ value[k] = template[k]
    BY DEF IInv, CacheInv
  <2>4. \A l \in LayerNames \ unsaved : file[l] = config[l]
    BY <2>1 DEF IInv, FileInv, Saves
  <2> QED BY <2>2, <2>3, <2>4 DEF M
<1> QED BY <1>1, Invariance, PTL

\* What services see under a key of an associated service is associated, once it was
\* set with its service associated and nothing was removed since.
THEOREM SeenAreAssociated == Spec => []SeenIsAssociated
<1>1. IInv => SeenIsAssociated
  <2> SUFFICES ASSUME IInv, Quiet, ~stale, NEW k \in DOMAIN template \ loose, Associated(k[1])
               PROVE  <<k, template[k]>> \in assoc
    BY DEF SeenIsAssociated
  <2>1. \A t \in Threads : op[t].at = "idle"
    BY DEF Quiet, Idle
  <2>2. template = M /\ \A x \in DOMAIN value : x \in DOMAIN template
    BY <2>1 DEF IInv, CacheInv, Busy
  <2>3. <<AssocKey, k[1]>> \in DOMAIN M
    BY <2>2 DEF Associated
  <2> QED BY <2>1, <2>2, <2>3 DEF IInv, AssocInv, Busy
<1> QED BY <1>1, Invariance, PTL

\* A move never takes an item out of the files: the layer it goes to has it there
\* before the layer it leaves is written without it.
THEOREM MovesKeepItems == Spec => MoveKeepsItem
<1> DEFINE Keeps == \A l, target \in LayerNames, k \in ItemKeys :
                       /\ k \in DOMAIN file[l] /\ k \notin DOMAIN file'[l]
                       /\ op[UI] # Idle /\ op[UI].at = "write"
                       /\ op[UI].layer = l /\ op[UI].key = k /\ op[UI].other = target
                       /\ target \notin unsaved
                       => k \in DOMAIN file[target]
<1>1. IInv /\ [Next]_vars => [Keeps]_vars
  <2> SUFFICES ASSUME IInv, Next,
                      NEW l \in LayerNames, NEW target \in LayerNames, NEW k \in ItemKeys,
                      k \in DOMAIN file[l], k \notin DOMAIN file'[l],
                      op[UI].at = "write", op[UI].layer = l, op[UI].key = k,
                      op[UI].other = target, target \notin unsaved
               PROVE  k \in DOMAIN file[target]
    OBVIOUS
  <2>1. op[UI].at \in Busy /\ target # None /\ TypeOK
    BY NoneIsNothing DEF Busy, IInv
  <2>2. /\ target # l
        /\ op[UI].kind = "set" => /\ k \in DOMAIN op[UI].snapshot
                                  /\ Saved(unsaved, file, target, k) \/ Saves(op[Net], target)
        /\ op[UI].kind = "remove" => Saved(unsaved, file, target, k)
        /\ op[UI].kind \in {"set", "remove"}
    BY <2>1, ThreadNames, ChangeTypes DEF IInv, MoveInv
  \* Only a thread that writes changes the file.
  <2>3. PICK t \in Threads : Write(t)
    <3>1. file' # file
      OBVIOUS
    <3>2. ~UserNext /\ ~(\E i \in NetItems : Receive(i[1], i[2])) /\ ~Restart
      BY <3>1 DEF UserNext, UserSet, UserRemove, UserMove, Resolve, Keep, Receive, Restart, layerVars
    <3>3. PICK t \in Threads : ThreadNext(t)
      BY <3>2 DEF Next
    <3>4. Write(t)
      BY <3>1, <3>3 DEF ThreadNext, Collect, SaveFails, Drop, Merge, Store, HookSet, HookRemoved,
                        layerVars
    <3> QED BY <3>4
  <2>4. op[t].layer = l /\ file'[l] = op[t].snapshot /\ file \in [LayerNames -> Configs]
    BY <2>1, <2>3, OpTypes DEF Write
  <2>5. CASE t = UI
    BY <2>2, <2>4, <2>5 DEF Saved
  <2>6. CASE t = Net
    BY <2>2, <2>4, <2>6 DEF Saved, Saves
  <2> QED BY <2>5, <2>6, ThreadNames
<1>2. Spec => [][Keeps]_vars
  <2> HIDE DEF Keeps
  <2> QED BY <1>1, Invariance, PTL DEF Spec
<1> QED BY <1>2 DEF MoveKeepsItem

=============================================================================
