-------------------------- MODULE ControllerProofs --------------------------
(* Proofs about the controller: its items, the commands bound to them and the *)
(* layout tree, for any models, tabs, windows, clicks and events.             *)
EXTENDS ControllerTrails, TLAPS, SequenceTheorems, FiniteSetTheorems, WellFoundedInduction

(* The inductive invariant. *)

\* Navigators are records linked to records like themselves.
Linked(S) ==
    \A n \in S : /\ n.model \in Shown
                 /\ n.prev = None \/ n.prev \in S
                 /\ n.next = None \/ n.next \in S
NavsInv == \E S : Linked(S) /\ \A v \in DOMAIN nav : nav[v] \in S

\* A view is in one window, an item in one window at one place, items and windows are
\* numbered apart, and a window without a current tab is empty.
IdsInv ==
    /\ \A w, x \in DOMAIN tabs : w # x => ToSet(tabs[w]) \intersect ToSet(tabs[x]) = {}
    /\ \A w, x \in DOMAIN tabs :
        w # x => ToSet(ItemIds(kids[w])) \intersect ToSet(ItemIds(kids[x])) = {}
    /\ \A w \in DOMAIN tabs : IsInjective(ItemIds(kids[w]))
    /\ \A w \in DOMAIN tabs : ToSet(ItemIds(kids[w])) \intersect DOMAIN tabs = {}
    /\ \A w \in DOMAIN tabs : current[w] = 0 => tabs[w] = <<>>

\* The items of a window are those of its views.
ItemsAre(items, views, navs) ==
    /\ DOMAIN items = DOMAIN views
    /\ \A i \in DOMAIN items :
        /\ items[i].view = views[i]
        /\ items[i].child # 0 => items[i].shows = navs[views[i]].model

\* Their commands are bound.
BoundAre(items, views, navs) ==
    \A i \in DOMAIN items : items[i].bound = [idx |-> i, model |-> navs[views[i]].model]

\* An update of a window waits, or its items are bound.
WindowsInv ==
    \A w \in Whole :
        /\ ItemsAre(kids[w], tabs[w], nav)
        /\ Update(w) \notin ToSet(queue) => BoundAre(kids[w], tabs[w], nav)

\* What the tree has read of a window is as the items are; a list of an item was read
\* when the item had a child.
ReadAre(w, items, lists) ==
    /\ w \in DOMAIN lists => lists[w] = ItemIds(items)
    /\ \A i \in DOMAIN items : items[i].id \in DOMAIN lists =>
        items[i].child # 0 /\ lists[items[i].id] = <<items[i].child>>

Told == tree.state = "open" /\ ~tree.misread
TreeInv ==
    /\ DOMAIN tree = DOMAIN NoTree
    /\ Told => /\ Root \in DOMAIN tree.lists /\ tree.lists[Root] = windows
               /\ \A w \in Whole : ReadAre(w, kids[w], tree.lists)

IInv == TypeOK /\ NavsInv /\ IdsInv /\ WindowsInv /\ TreeInv

-----------------------------------------------------------------------------
(* Sequences *)

\* A function on 1..n is a sequence.
LEMMA IsSeq ==
    ASSUME NEW S, NEW n \in Nat, NEW f, f \in [1..n -> S]
    PROVE  f \in Seq(S) /\ Len(f) = n /\ DOMAIN f = 1..n
OBVIOUS

\* What remains of a list after one element was removed.
LEMMA Removing ==
    ASSUME NEW S, NEW list \in Seq(S), NEW i \in DOMAIN list
    PROVE  /\ RemoveAt(list, i) \in Seq(S)
           /\ Len(RemoveAt(list, i)) = Len(list) - 1
           /\ DOMAIN RemoveAt(list, i) = 1 .. Len(list) - 1
           /\ \A j \in 1 .. Len(list) - 1 :
                RemoveAt(list, i)[j] = IF j < i THEN list[j] ELSE list[j + 1]
<1> DEFINE a == SubSeq(list, 1, i - 1)
           b == SubSeq(list, i + 1, Len(list))
<1>1. Len(list) \in Nat /\ DOMAIN list = 1 .. Len(list) /\ i \in 1 .. Len(list)
  BY LenProperties
<1>2. /\ a \in Seq(S) /\ Len(a) = i - 1
      /\ \A j \in 1 .. i - 1 : a[j] = list[j]
  <2>1. PICK m \in Int, n \in Int : m = 1 /\ n = i - 1
    BY <1>1
  <2>2. \A j \in m .. n : list[j] \in S
    BY <2>1, <1>1, ElementOfSeq
  <2> QED BY <2>1, <2>2, <1>1, SubSeqProperties
<1>3. /\ b \in Seq(S) /\ Len(b) = Len(list) - i
      /\ \A j \in 1 .. Len(list) - i : b[j] = list[i + j]
  <2>1. PICK m \in Int, n \in Int : m = i + 1 /\ n = Len(list)
    <3>1. i + 1 \in Int /\ Len(list) \in Int
      BY <1>1
    <3> QED BY <3>1
  <2>2. \A j \in m .. n : list[j] \in S
    BY <2>1, <1>1, ElementOfSeq
  <2> QED BY <2>1, <2>2, <1>1, SubSeqProperties
<1> HIDE DEF a, b
<1>4. RemoveAt(list, i) = a \o b
  BY DEF RemoveAt, a, b
<1>5. /\ a \o b \in Seq(S) /\ Len(a \o b) = Len(a) + Len(b)
      /\ \A j \in 1 .. Len(a) + Len(b) :
            (a \o b)[j] = IF j <= Len(a) THEN a[j] ELSE b[j - Len(a)]
  BY <1>2, <1>3, ConcatProperties
<1>6. Len(a) + Len(b) = Len(list) - 1 /\ Len(list) - 1 \in Nat
  BY <1>1, <1>2, <1>3
<1>7. ASSUME NEW j \in 1 .. Len(list) - 1
      PROVE  (a \o b)[j] = IF j < i THEN list[j] ELSE list[j + 1]
  <2>1. CASE j < i
    BY <2>1, <1>1, <1>2, <1>5, <1>6
  <2>2. CASE ~(j < i)
    <3>1. ~(j <= Len(a)) /\ j - Len(a) \in 1 .. Len(list) - i /\ i + (j - Len(a)) = j + 1
      BY <2>2, <1>1, <1>2
    <3>2. (a \o b)[j] = b[j - Len(a)]
      BY <3>1, <1>5, <1>6
    <3> QED BY <2>2, <3>1, <3>2, <1>3
  <2> QED BY <2>1, <2>2
<1>8. DOMAIN (a \o b) = 1 .. Len(list) - 1
  BY <1>5, <1>6, LenProperties
<1> QED BY <1>4, <1>5, <1>6, <1>7, <1>8

\* A list with an element inserted.
LEMMA Inserting ==
    ASSUME NEW S, NEW list \in Seq(S), NEW i \in 1 .. Len(list) + 1, NEW e \in S
    PROVE  /\ InsertAt(list, i, e) \in Seq(S)
           /\ Len(InsertAt(list, i, e)) = Len(list) + 1
           /\ DOMAIN InsertAt(list, i, e) = 1 .. Len(list) + 1
           /\ \A j \in 1 .. Len(list) + 1 :
                InsertAt(list, i, e)[j] = IF j < i THEN list[j] ELSE IF j = i THEN e ELSE list[j - 1]
<1> DEFINE a == SubSeq(list, 1, i - 1)
           b == SubSeq(list, i, Len(list))
           c == a \o <<e>>
<1>1. Len(list) \in Nat /\ DOMAIN list = 1 .. Len(list) /\ i \in Nat
  BY LenProperties
<1>2. /\ a \in Seq(S) /\ Len(a) = i - 1
      /\ \A j \in 1 .. i - 1 : a[j] = list[j]
  <2>1. PICK m \in Int, n \in Int : m = 1 /\ n = i - 1
    BY <1>1
  <2>2. \A j \in m .. n : list[j] \in S
    BY <2>1, <1>1, ElementOfSeq
  <2> QED BY <2>1, <2>2, <1>1, SubSeqProperties
<1>3. /\ b \in Seq(S) /\ Len(b) = Len(list) - i + 1
      /\ \A j \in 1 .. Len(list) - i + 1 : b[j] = list[i + j - 1]
  <2>1. PICK m \in Int, n \in Int : m = i /\ n = Len(list)
    <3>1. i \in Int /\ Len(list) \in Int
      BY <1>1
    <3> QED BY <3>1
  <2>2. \A j \in m .. n : list[j] \in S
    BY <2>1, <1>1, ElementOfSeq
  <2>3. /\ SubSeq(list, m, n) \in Seq(S)
        /\ Len(SubSeq(list, m, n)) = IF m <= n THEN n - m + 1 ELSE 0
        /\ \A j \in 1 .. n - m + 1 : SubSeq(list, m, n)[j] = list[m + j - 1]
    BY <2>2, SubSeqProperties
  <2>4. (IF m <= n THEN n - m + 1 ELSE 0) = Len(list) - i + 1
    BY <2>1, <1>1
  <2> QED BY <2>1, <2>3, <2>4
<1> HIDE DEF a, b
<1>4. /\ c \in Seq(S) /\ Len(c) = i
      /\ \A j \in 1 .. i : c[j] = IF j < i THEN list[j] ELSE e
  <2>1. PICK d \in Seq(S) : d = <<e>> /\ Len(d) = 1 /\ d[1] = e
    <3>1. <<e>> \in Seq(S) /\ Len(<<e>>) = 1 /\ <<e>>[1] = e
      OBVIOUS
    <3> QED BY <3>1
  <2>2. /\ a \o d \in Seq(S) /\ Len(a \o d) = Len(a) + Len(d)
        /\ \A j \in 1 .. Len(a) + Len(d) :
              (a \o d)[j] = IF j <= Len(a) THEN a[j] ELSE d[j - Len(a)]
    BY <1>2, ConcatProperties
  <2>3. Len(a) + Len(d) = i
    BY <2>1, <1>1, <1>2
  <2>4. ASSUME NEW j \in 1 .. i PROVE (a \o d)[j] = IF j < i THEN list[j] ELSE e
    <3>1. CASE j < i
      BY <3>1, <2>2, <2>3, <1>1, <1>2
    <3>2. CASE j = i
      <4>1. ~(j <= Len(a)) /\ j - Len(a) = 1 /\ j \in 1 .. Len(a) + Len(d)
        BY <3>2, <1>1, <1>2, <2>3
      <4>2. (a \o d)[j] = d[j - Len(a)]
        BY <4>1, <2>2
      <4> QED BY <3>2, <4>1, <4>2, <2>1
    <3>3. j < i \/ j = i
      BY <1>1
    <3> QED BY <3>1, <3>2, <3>3
  <2> QED BY <2>1, <2>2, <2>3, <2>4
<1>5. InsertAt(list, i, e) = c \o b
  BY DEF InsertAt, a, b
<1> HIDE DEF c
<1>6. /\ c \o b \in Seq(S) /\ Len(c \o b) = Len(c) + Len(b)
      /\ \A j \in 1 .. Len(c) + Len(b) :
            (c \o b)[j] = IF j <= Len(c) THEN c[j] ELSE b[j - Len(c)]
  BY <1>3, <1>4, ConcatProperties
<1>7. Len(c) + Len(b) = Len(list) + 1
  BY <1>1, <1>3, <1>4
<1>8. ASSUME NEW j \in 1 .. Len(list) + 1
      PROVE  (c \o b)[j] = IF j < i THEN list[j] ELSE IF j = i THEN e ELSE list[j - 1]
  <2>1. CASE j <= i
    BY <2>1, <1>1, <1>4, <1>6, <1>7
  <2>2. CASE ~(j <= i)
    <3>1. ~(j <= Len(c)) /\ j - Len(c) \in 1 .. Len(list) - i + 1 /\ i + (j - Len(c)) - 1 = j - 1
      BY <2>2, <1>1, <1>4
    <3>2. (c \o b)[j] = b[j - Len(c)]
      BY <3>1, <1>6, <1>7
    <3>3. b[j - Len(c)] = list[j - 1]
      BY <3>1, <1>3
    <3> QED BY <2>2, <3>2, <3>3, <1>1
  <2> QED BY <2>1, <2>2
<1>9. DOMAIN (c \o b) = 1 .. Len(list) + 1
  BY <1>6, <1>7, LenProperties
<1> QED BY <1>5, <1>6, <1>7, <1>8, <1>9

\* Different elements stay different.
LEMMA InjectiveStays ==
    ASSUME NEW S, NEW list \in Seq(S), IsInjective(list)
    PROVE  /\ \A i \in DOMAIN list : IsInjective(RemoveAt(list, i))
           /\ \A i \in 1 .. Len(list) + 1, e \in S \ ToSet(list) : IsInjective(InsertAt(list, i, e))
<1>1. Len(list) \in Nat /\ DOMAIN list = 1 .. Len(list)
  BY LenProperties
<1>2. ASSUME NEW i \in DOMAIN list PROVE IsInjective(RemoveAt(list, i))
  <2> DEFINE new == RemoveAt(list, i)
             was(j) == IF j < i THEN j ELSE j + 1
  <2>1. DOMAIN new = 1 .. Len(list) - 1 /\ \A j \in DOMAIN new : new[j] = IF j < i THEN list[j] ELSE list[j + 1]
    BY Removing
  <2> HIDE DEF new
  <2>2. \A j \in DOMAIN new : was(j) \in DOMAIN list /\ new[j] = list[was(j)]
    BY <1>1, <2>1
  <2>3. \A j, k \in DOMAIN new : was(j) = was(k) => j = k
    BY <1>1, <2>1
  <2> HIDE DEF was
  <2>4. IsInjective(new)
    BY <2>2, <2>3 DEF IsInjective
  <2> QED BY <2>4 DEF new
<1>3. ASSUME NEW i \in 1 .. Len(list) + 1, NEW e \in S \ ToSet(list) PROVE IsInjective(InsertAt(list, i, e))
  <2> DEFINE new == InsertAt(list, i, e)
             was(j) == IF j < i THEN j ELSE j - 1
  <2>1. DOMAIN new = 1 .. Len(list) + 1
        /\ \A j \in DOMAIN new : new[j] = IF j < i THEN list[j] ELSE IF j = i THEN e ELSE list[j - 1]
    <3>1. PICK f \in S : f = e
      OBVIOUS
    <3>2. /\ DOMAIN InsertAt(list, i, f) = 1 .. Len(list) + 1
          /\ \A j \in 1 .. Len(list) + 1 :
               InsertAt(list, i, f)[j] = IF j < i THEN list[j] ELSE IF j = i THEN f ELSE list[j - 1]
      BY Inserting
    <3> QED BY <3>1, <3>2
  <2> HIDE DEF new
  <2>2. \A j \in DOMAIN new \ {i} : was(j) \in DOMAIN list /\ new[j] = list[was(j)] /\ new[j] # e
    <3>1. \A k \in DOMAIN list : list[k] # e
      BY DEF ToSet
    <3> QED BY <3>1, <1>1, <2>1
  <2>3. \A j, k \in DOMAIN new \ {i} : was(j) = was(k) => j = k
    BY <1>1, <2>1
  <2> HIDE DEF was
  <2>4. new[i] = e
    BY <1>1, <2>1
  <2>5. IsInjective(new)
    BY <2>2, <2>3, <2>4 DEF IsInjective
  <2> QED BY <2>5 DEF new
<1> QED BY <1>2, <1>3

\* The elements of a list that gains or loses one.
LEMMA Elements ==
    ASSUME NEW S, NEW list \in Seq(S)
    PROVE  /\ \A i \in DOMAIN list : ToSet(RemoveAt(list, i)) \subseteq ToSet(list)
           /\ \A i \in 1 .. Len(list) + 1, e \in S : ToSet(InsertAt(list, i, e)) = ToSet(list) \union {e}
           /\ \A e \in S : Append(list, e) \in Seq(S) /\ ToSet(Append(list, e)) = ToSet(list) \union {e}
<1>1. Len(list) \in Nat /\ DOMAIN list = 1 .. Len(list)
  BY LenProperties
<1>2. ASSUME NEW i \in DOMAIN list PROVE ToSet(RemoveAt(list, i)) \subseteq ToSet(list)
  <2>1. /\ DOMAIN RemoveAt(list, i) = 1 .. Len(list) - 1
        /\ \A j \in 1 .. Len(list) - 1 :
             RemoveAt(list, i)[j] = IF j < i THEN list[j] ELSE list[j + 1]
    BY Removing
  <2>2. \A j \in 1 .. Len(list) - 1 : \E k \in DOMAIN list : RemoveAt(list, i)[j] = list[k]
    BY <1>1, <2>1
  <2> QED BY <2>1, <2>2 DEF ToSet
<1>3. ASSUME NEW i \in 1 .. Len(list) + 1, NEW e \in S
      PROVE  ToSet(InsertAt(list, i, e)) = ToSet(list) \union {e}
  <2> DEFINE new == InsertAt(list, i, e)
  <2>1. /\ DOMAIN new = 1 .. Len(list) + 1
        /\ \A j \in 1 .. Len(list) + 1 :
             new[j] = IF j < i THEN list[j] ELSE IF j = i THEN e ELSE list[j - 1]
    BY Inserting
  <2> HIDE DEF new
  <2>2. \A j \in 1 .. Len(list) + 1 : new[j] = e \/ \E k \in DOMAIN list : new[j] = list[k]
    BY <1>1, <2>1
  <2>3. ASSUME NEW k \in DOMAIN list PROVE \E j \in 1 .. Len(list) + 1 : new[j] = list[k]
    <3>1. CASE k < i
      BY <3>1, <1>1, <2>1
    <3>2. CASE ~(k < i)
      <4>1. k + 1 \in 1 .. Len(list) + 1 /\ ~(k + 1 < i) /\ k + 1 # i /\ (k + 1) - 1 = k
        BY <3>2, <1>1
      <4> QED BY <4>1, <2>1
    <3> QED BY <3>1, <3>2
  <2>4. i \in 1 .. Len(list) + 1 /\ new[i] = e
    BY <1>1, <2>1
  <2>5. ToSet(new) = ToSet(list) \union {e}
    <3>1. ASSUME NEW x \in ToSet(new) PROVE x \in ToSet(list) \union {e}
      BY <2>1, <2>2 DEF ToSet
    <3>2. DOMAIN new = 1 .. Len(list) + 1
      BY <2>1
    <3>3. ASSUME NEW x \in ToSet(list) PROVE x \in ToSet(new)
      <4>1. PICK k \in DOMAIN list : x = list[k]
        BY <3>3 DEF ToSet
      <4>2. PICK j \in 1 .. Len(list) + 1 : new[j] = list[k]
        BY <2>3
      <4> QED BY <3>2, <4>1, <4>2, Zenon DEF ToSet
    <3>4. e \in ToSet(new)
      BY <2>4, <3>2, Zenon DEF ToSet
    <3> QED BY <3>1, <3>3, <3>4
  <2> QED BY <2>5 DEF new
<1>4. ASSUME NEW e \in S
      PROVE  Append(list, e) \in Seq(S) /\ ToSet(Append(list, e)) = ToSet(list) \union {e}
  <2>1. /\ Append(list, e) \in Seq(S)
        /\ DOMAIN Append(list, e) = 1 .. Len(list) + 1
        /\ \A j \in 1 .. Len(list) : Append(list, e)[j] = list[j]
        /\ Append(list, e)[Len(list) + 1] = e
    BY <1>1
  <2>2. \A j \in 1 .. Len(list) + 1 : j \in 1 .. Len(list) \/ j = Len(list) + 1
    BY <1>1
  <2>3. Len(list) + 1 \in 1 .. Len(list) + 1 /\ 1 .. Len(list) \subseteq 1 .. Len(list) + 1
    BY <1>1
  <2> QED BY <1>1, <2>1, <2>2, <2>3 DEF ToSet
<1> QED BY <1>2, <1>3, <1>4

\* The numbers of the items of a list that gains or loses one.
LEMMA Numbered ==
    ASSUME NEW S, NEW items \in Seq(S), \A e \in S : e.id \in Nat
    PROVE  /\ ItemIds(items) \in Seq(Nat) /\ Len(ItemIds(items)) = Len(items)
           /\ \A i \in DOMAIN items : ItemIds(RemoveAt(items, i)) = RemoveAt(ItemIds(items), i)
           /\ \A i \in 1 .. Len(items) + 1, e \in S :
                ItemIds(InsertAt(items, i, e)) = InsertAt(ItemIds(items), i, e.id)
<1>1. Len(items) \in Nat /\ DOMAIN items = 1 .. Len(items)
  BY LenProperties
<1>2. ASSUME NEW q \in Seq(S)
      PROVE  /\ ItemIds(q) \in Seq(Nat) /\ Len(ItemIds(q)) = Len(q) /\ DOMAIN ItemIds(q) = DOMAIN q
             /\ \A i \in DOMAIN q : ItemIds(q)[i] = q[i].id
  <2>1. Len(q) \in Nat /\ DOMAIN q = 1 .. Len(q) /\ \A i \in 1 .. Len(q) : q[i] \in S
    BY LenProperties, ElementOfSeq
  <2>2. ItemIds(q) \in [1 .. Len(q) -> Nat]
    BY <2>1 DEF ItemIds
  <2>3. ItemIds(q) \in Seq(Nat) /\ Len(ItemIds(q)) = Len(q)
    BY <2>1, <2>2, IsSeq
  <2> QED BY <2>1, <2>3 DEF ItemIds
<1>3. PICK ids \in Seq(Nat) : ids = ItemIds(items)
  BY <1>2
<1>4. Len(ids) = Len(items) /\ DOMAIN ids = DOMAIN items
      /\ \A i \in DOMAIN items : ids[i] = items[i].id
  BY <1>2, <1>3
<1>5. ASSUME NEW i \in DOMAIN items PROVE ItemIds(RemoveAt(items, i)) = RemoveAt(ids, i)
  <2>1. /\ RemoveAt(items, i) \in Seq(S)
        /\ DOMAIN RemoveAt(items, i) = 1 .. Len(items) - 1
        /\ Len(RemoveAt(items, i)) = Len(items) - 1
        /\ \A j \in 1 .. Len(items) - 1 :
             RemoveAt(items, i)[j] = IF j < i THEN items[j] ELSE items[j + 1]
    BY Removing
  <2>2. PICK k \in DOMAIN ids : k = i
    BY <1>4
  <2>3. /\ RemoveAt(ids, k) \in Seq(Nat)
        /\ Len(RemoveAt(ids, k)) = Len(items) - 1
        /\ \A j \in 1 .. Len(items) - 1 :
             RemoveAt(ids, k)[j] = IF j < k THEN ids[j] ELSE ids[j + 1]
    BY <1>4, Removing
  <2>4. PICK s \in Seq(Nat), t \in Seq(Nat) : s = ItemIds(RemoveAt(items, i)) /\ t = RemoveAt(ids, k)
    BY <1>2, <2>1, <2>3
  <2>5. /\ Len(s) = Len(items) - 1 /\ Len(t) = Len(items) - 1
        /\ \A j \in 1 .. Len(items) - 1 : s[j] = RemoveAt(items, i)[j].id
    BY <1>2, <2>1, <2>3, <2>4
  <2>6. ASSUME NEW j \in 1 .. Len(s) PROVE s[j] = t[j]
    <3>1. j \in 1 .. Len(items) - 1 /\ j \in DOMAIN items /\ j + 1 \in DOMAIN items
      BY <1>1, <2>5
    <3>2. CASE j < i
      BY <3>1, <3>2, <1>4, <2>1, <2>2, <2>3, <2>4, <2>5
    <3>3. CASE ~(j < i)
      BY <3>1, <3>3, <1>4, <2>1, <2>2, <2>3, <2>4, <2>5
    <3> QED BY <3>2, <3>3
  <2>7. s = t
    BY <2>5, <2>6, SeqEqual
  <2> QED BY <2>2, <2>4, <2>7
<1>6. ASSUME NEW i \in 1 .. Len(items) + 1, NEW e \in S
      PROVE  ItemIds(InsertAt(items, i, e)) = InsertAt(ids, i, e.id)
  <2>1. /\ InsertAt(items, i, e) \in Seq(S)
        /\ DOMAIN InsertAt(items, i, e) = 1 .. Len(items) + 1
        /\ Len(InsertAt(items, i, e)) = Len(items) + 1
        /\ \A j \in 1 .. Len(items) + 1 :
             InsertAt(items, i, e)[j] = IF j < i THEN items[j] ELSE IF j = i THEN e ELSE items[j - 1]
    BY Inserting
  <2>2. PICK n \in Nat : n = e.id
    OBVIOUS
  <2>3. PICK k \in 1 .. Len(ids) + 1 : k = i
    BY <1>4
  <2>4. /\ InsertAt(ids, k, n) \in Seq(Nat)
        /\ Len(InsertAt(ids, k, n)) = Len(items) + 1
        /\ \A j \in 1 .. Len(items) + 1 :
             InsertAt(ids, k, n)[j] = IF j < k THEN ids[j] ELSE IF j = k THEN n ELSE ids[j - 1]
    <3>1. PICK N : N = Nat
      OBVIOUS
    <3>2. PICK list \in Seq(N) : list = ids
      BY <3>1
    <3>3. PICK l \in N, m \in 1 .. Len(list) + 1 : l = n /\ m = k
      BY <3>1, <3>2
    <3>4. /\ InsertAt(list, m, l) \in Seq(N)
          /\ Len(InsertAt(list, m, l)) = Len(list) + 1
          /\ \A j \in 1 .. Len(list) + 1 :
               InsertAt(list, m, l)[j] = IF j < m THEN list[j] ELSE IF j = m THEN l ELSE list[j - 1]
      BY Inserting
    <3> QED BY <3>1, <3>2, <3>3, <3>4, <1>4
  <2>5. PICK s \in Seq(Nat), t \in Seq(Nat) : s = ItemIds(InsertAt(items, i, e)) /\ t = InsertAt(ids, k, n)
    BY <1>2, <2>1, <2>4
  <2>6. /\ Len(s) = Len(items) + 1 /\ Len(t) = Len(items) + 1
        /\ \A j \in 1 .. Len(items) + 1 : s[j] = InsertAt(items, i, e)[j].id
    BY <1>2, <2>1, <2>4, <2>5
  <2>7. ASSUME NEW j \in 1 .. Len(s) PROVE s[j] = t[j]
    <3>1. j \in 1 .. Len(items) + 1 /\ j \in Nat /\ i \in Nat
      BY <1>1, <2>6
    <3>2. CASE j < i
      <4>1. j \in DOMAIN items
        BY <3>1, <3>2, <1>1
      <4> QED BY <3>1, <3>2, <4>1, <1>4, <2>1, <2>3, <2>4, <2>5, <2>6
    <3>3. CASE j = i
      <4>1. ~(j < i)
        BY <3>1, <3>3
      <4> QED BY <3>1, <3>3, <4>1, <2>1, <2>2, <2>3, <2>4, <2>5, <2>6
    <3>4. CASE ~(j < i) /\ j # i
      <4>1. j - 1 \in DOMAIN items
        BY <3>1, <3>4, <1>1
      <4> QED BY <3>1, <3>4, <4>1, <1>4, <2>1, <2>3, <2>4, <2>5, <2>6
    <3> QED BY <3>2, <3>3, <3>4
  <2>8. s = t
    BY <2>6, <2>7, SeqEqual
  <2> QED BY <2>2, <2>3, <2>5, <2>8
<1> QED BY <1>2, <1>3, <1>5, <1>6

\* The tasks that wait after one was added or taken.
LEMMA Queue ==
    ASSUME NEW S, NEW q \in Seq(S)
    PROVE  /\ \A w : Update(w) \in S =>
                /\ WithUpdate(q, w) \in Seq(S)
                /\ ToSet(WithUpdate(q, w)) = ToSet(q) \union {Update(w)}
           /\ q # <<>> => /\ Head(q) \in S
                          /\ Tail(q) \in Seq(S)
                          /\ ToSet(q) = {Head(q)} \union ToSet(Tail(q))
<1>1. Len(q) \in Nat /\ DOMAIN q = 1 .. Len(q)
  BY LenProperties
<1>2. ASSUME NEW w, Update(w) \in S
      PROVE  /\ WithUpdate(q, w) \in Seq(S)
             /\ ToSet(WithUpdate(q, w)) = ToSet(q) \union {Update(w)}
  <2>1. CASE q # <<>> /\ Last(q) = Update(w)
    <3>1. Len(q) \in DOMAIN q /\ q[Len(q)] = Update(w)
      BY <1>1, <2>1, EmptySeq DEF Last
    <3>2. WithUpdate(q, w) = q
      BY <2>1 DEF WithUpdate
    <3> QED BY <3>1, <3>2 DEF ToSet
  <2>2. CASE ~(q # <<>> /\ Last(q) = Update(w))
    <3>1. WithUpdate(q, w) = Append(q, Update(w))
      BY <2>2 DEF WithUpdate
    <3>2. PICK e \in S : e = Update(w)
      BY <1>2
    <3> QED BY <3>1, <3>2, Elements
  <2> QED BY <2>1, <2>2
<1>3. ASSUME q # <<>>
      PROVE  /\ Head(q) \in S
             /\ Tail(q) \in Seq(S)
             /\ ToSet(q) = {Head(q)} \union ToSet(Tail(q))
  <2>1. /\ Head(q) \in S /\ Tail(q) \in Seq(S) /\ Len(Tail(q)) = Len(q) - 1
        /\ \A i \in 1 .. Len(Tail(q)) : Tail(q)[i] = q[i + 1]
    BY <1>3, HeadTailProperties
  <2>2. Len(q) \in Nat \ {0} /\ Head(q) = q[1]
    BY <1>3, EmptySeq
  <2>3. DOMAIN Tail(q) = 1 .. Len(q) - 1
    BY <2>1, LenProperties
  <2>4. \A i \in DOMAIN q : i = 1 \/ (i - 1 \in DOMAIN Tail(q) /\ q[i] = Tail(q)[i - 1])
    BY <1>1, <2>1, <2>2, <2>3
  <2>5. \A i \in DOMAIN Tail(q) : i + 1 \in DOMAIN q /\ Tail(q)[i] = q[i + 1]
    BY <1>1, <2>1, <2>2, <2>3
  <2>6. 1 \in DOMAIN q
    BY <1>1, <2>2
  <2> QED BY <2>1, <2>2, <2>4, <2>5, <2>6 DEF ToSet
<1> QED BY <1>2, <1>3

-----------------------------------------------------------------------------
(* Types *)

WindowOK(w) ==
    /\ tabs[w] \in Seq(DOMAIN nav) /\ IsInjective(tabs[w])
    /\ current[w] \in 0 .. Len(tabs[w])
    /\ kids[w] \in Seq(Items)

\* TypeOK, conjunct by conjunct, for the steps below to cite.
LEMMA Types ==
    ASSUME TypeOK
    PROVE  /\ phase \in {"running", "exited"} /\ ops \in 0 .. MaxOps
           /\ nextId \in Nat /\ queue \in Seq(Tasks)
           /\ DOMAIN tabs = DOMAIN current /\ DOMAIN tabs = DOMAIN kids
           /\ DOMAIN tabs \subseteq 1 .. nextId /\ DOMAIN nav \subseteq 1 .. nextId
           /\ windows \in Seq(DOMAIN tabs) /\ windows # <<>> /\ IsInjective(windows)
           /\ \A w \in DOMAIN tabs : WindowOK(w)
           /\ timer \in Nat \union {Off}
           /\ tree.state \in {"none", "open"} /\ tree.misread \in BOOLEAN
           /\ DOMAIN tree.lists \subseteq 0 .. nextId
           /\ torn \subseteq DOMAIN tabs
BY DEF TypeOK, WindowOK

\* What a task of each kind carries.
LEMMA TaskTypes ==
    ASSUME NEW task \in Tasks
    PROVE  /\ task.win \in DOMAIN tabs
           /\ task.kind \in {"insert", "remove"} => task.idx \in Nat \ {0}
           /\ task.kind \in {"open", "back", "forward"} => task.view \in DOMAIN nav
           /\ task.kind = "update" => task = Update(task.win)
           /\ \A w : task.kind # "update" => task # Update(w)
<1>1. task.win \in DOMAIN tabs
  BY DEF Tasks
<1>2. task.kind \in {"insert", "remove"} => task.idx \in Nat \ {0}
  BY DEF Tasks
<1>3. task.kind \in {"open", "back", "forward"} => task.view \in DOMAIN nav
  BY DEF Tasks
<1>4. task.kind = "update" => task = Update(task.win)
  BY DEF Tasks, Update
<1>5. \A w : Update(w).kind = "update"
  BY DEF Update
<1> QED BY <1>1, <1>2, <1>3, <1>4, <1>5

\* The items of a window, by their places.
LEMMA ItemTypes ==
    ASSUME TypeOK, NEW w \in DOMAIN tabs
    PROVE  /\ Len(kids[w]) \in Nat /\ DOMAIN kids[w] = 1 .. Len(kids[w])
           /\ Len(tabs[w]) \in Nat /\ DOMAIN tabs[w] = 1 .. Len(tabs[w])
           /\ \A i \in DOMAIN tabs[w] : tabs[w][i] \in DOMAIN nav
           /\ \A i \in DOMAIN kids[w] :
                /\ kids[w][i] \in Items
                /\ kids[w][i].id \in 1 .. nextId /\ kids[w][i].id \in ToSet(ItemIds(kids[w]))
                /\ kids[w][i].view \in DOMAIN nav /\ kids[w][i].child \in 0 .. nextId
<1>1. kids[w] \in Seq(Items) /\ tabs[w] \in Seq(DOMAIN nav)
  BY Types DEF WindowOK
<1>2. /\ Len(kids[w]) \in Nat /\ DOMAIN kids[w] = 1 .. Len(kids[w])
      /\ \A i \in 1 .. Len(kids[w]) : kids[w][i] \in Items
  BY <1>1, LenProperties, ElementOfSeq
<1>3. /\ Len(tabs[w]) \in Nat /\ DOMAIN tabs[w] = 1 .. Len(tabs[w])
      /\ \A i \in 1 .. Len(tabs[w]) : tabs[w][i] \in DOMAIN nav
  BY <1>1, LenProperties, ElementOfSeq
<1>4. \A i \in DOMAIN kids[w] : kids[w][i].id \in ToSet(ItemIds(kids[w]))
  BY DEF ToSet, ItemIds
<1>5. \A e \in Items : e.id \in 1 .. nextId /\ e.view \in DOMAIN nav /\ e.child \in 0 .. nextId
  BY DEF Items
<1> QED BY <1>2, <1>3, <1>4, <1>5

\* What is numbered, and the views, only grow.
Grows ==
    /\ nextId' \in Nat /\ nextId <= nextId'
    /\ DOMAIN tabs \subseteq DOMAIN tabs' /\ DOMAIN nav \subseteq DOMAIN nav'

\* When views, windows and numbers are only added, what was typed stays so.
LEMMA Growing ==
    ASSUME TypeOK, Grows
    PROVE  /\ Items \subseteq Items' /\ Tasks \subseteq Tasks'
           /\ \A q \in Seq(Items) : q \in Seq(Items')
           /\ \A q \in Seq(Tasks) : q \in Seq(Tasks')
           /\ \A q \in Seq(DOMAIN nav) : q \in Seq(DOMAIN nav')
           /\ \A q \in Seq(DOMAIN tabs) : q \in Seq(DOMAIN tabs')
           /\ 0 .. nextId \subseteq 0 .. nextId' /\ 1 .. nextId \subseteq 1 .. nextId'
<1>1. nextId \in Nat /\ nextId' \in Nat /\ nextId <= nextId'
  BY Types DEF Grows
<1>2. 0 .. nextId \subseteq 0 .. nextId' /\ 1 .. nextId \subseteq 1 .. nextId'
  BY <1>1
<1>3. ASSUME NEW e \in Items PROVE e \in Items'
  <2>1. DOMAIN nav \subseteq DOMAIN nav'
    BY DEF Grows
  <2> QED BY <1>2, <2>1 DEF Items, Shown
<1>4. ASSUME NEW t \in Tasks PROVE t \in Tasks'
  <2>1. DOMAIN nav \subseteq DOMAIN nav' /\ DOMAIN tabs \subseteq DOMAIN tabs'
    BY DEF Grows
  <2> QED BY <2>1 DEF Tasks
<1>5. /\ \A q \in Seq(Items) : q \in Seq(Items')
      /\ \A q \in Seq(Tasks) : q \in Seq(Tasks')
  <2>1. Items \subseteq Items' /\ Tasks \subseteq Tasks'
    BY <1>3, <1>4
  <2>2. PICK I, J, T, U : I = Items /\ J = Items' /\ T = Tasks /\ U = Tasks'
    OBVIOUS
  <2>3. (\A q \in Seq(I) : q \in Seq(J)) /\ \A q \in Seq(T) : q \in Seq(U)
    BY <2>1, <2>2, SeqMonotonic
  <2> QED BY <2>2, <2>3
<1>6. /\ \A q \in Seq(DOMAIN nav) : q \in Seq(DOMAIN nav')
      /\ \A q \in Seq(DOMAIN tabs) : q \in Seq(DOMAIN tabs')
  <2>2. PICK I, J, T, U : I = DOMAIN nav /\ J = DOMAIN nav' /\ T = DOMAIN tabs /\ U = DOMAIN tabs'
    OBVIOUS
  <2>3. (\A q \in Seq(I) : q \in Seq(J)) /\ \A q \in Seq(T) : q \in Seq(U)
    BY <2>2, SeqMonotonic DEF Grows
  <2> QED BY <2>2, <2>3
<1> QED BY <1>2, <1>3, <1>4, <1>5, <1>6

\* A step about one window leaves the others.
OnlyOf(w) ==
    /\ DOMAIN tabs' = DOMAIN tabs /\ DOMAIN kids' = DOMAIN kids /\ DOMAIN current' = DOMAIN current
    /\ \A x \in DOMAIN tabs \ {w} : tabs'[x] = tabs[x] /\ kids'[x] = kids[x] /\ current'[x] = current[x]

\* A step that changes one window has only that one to be checked.
LEMMA WindowsAreTyped ==
    ASSUME TypeOK, Grows, NEW w \in DOMAIN tabs, OnlyOf(w),
           tabs'[w] \in Seq(DOMAIN nav') /\ IsInjective(tabs'[w]),
           current'[w] \in 0 .. Len(tabs'[w]),
           kids'[w] \in Seq(Items')
    PROVE  \A x \in DOMAIN tabs' : WindowOK(x)'
<1> SUFFICES ASSUME NEW x \in DOMAIN tabs' PROVE WindowOK(x)'
  OBVIOUS
<1>1. CASE x = w
  BY <1>1 DEF WindowOK
<1>2. CASE x # w
  <2>1. x \in DOMAIN tabs /\ tabs'[x] = tabs[x] /\ kids'[x] = kids[x] /\ current'[x] = current[x]
    BY <1>2 DEF OnlyOf
  <2>2. WindowOK(x)
    BY <2>1, Types
  <2> QED BY <2>1, <2>2, Growing DEF WindowOK
<1> QED BY <1>1, <1>2

\* TypeOK after a step, from the variables that may have changed.
LEMMA IsTyped ==
    ASSUME TypeOK, Grows,
           phase' \in {"running", "exited"}, ops' \in 0 .. MaxOps,
           queue' \in Seq(Tasks'),
           DOMAIN tabs' = DOMAIN current' /\ DOMAIN tabs' = DOMAIN kids',
           DOMAIN tabs' \subseteq 1 .. nextId' /\ DOMAIN nav' \subseteq 1 .. nextId',
           windows' \in Seq(DOMAIN tabs') /\ windows' # <<>> /\ IsInjective(windows'),
           \A w \in DOMAIN tabs' : WindowOK(w)',
           timer' \in Nat \union {Off},
           tree'.state \in {"none", "open"} /\ tree'.misread \in BOOLEAN,
           DOMAIN tree'.lists \subseteq 0 .. nextId',
           torn' \subseteq DOMAIN tabs'
    PROVE  TypeOK'
BY DEF TypeOK, WindowOK, Grows

\* The timer after the calls.
LEMMA Timing ==
    ASSUME TypeOK, NEW S, NEW q \in Seq(S)
    PROVE  (Scheduled(q) => timer' \in Nat \union {Off}) /\ (Elapsed => timer' \in Nat \union {Off})
<1>1. Len(q) \in Nat /\ timer \in Nat \union {Off}
  BY LenProperties, Types
<1> QED BY <1>1 DEF Scheduled, Elapsed, Off

-----------------------------------------------------------------------------
(* What a step leaves as it is *)

\* The numbers of items, as a set.
LEMMA IdsSet ==
    ASSUME NEW items
    PROVE  /\ \A k \in ToSet(ItemIds(items)) : \E i \in DOMAIN items : k = items[i].id
           /\ \A i \in DOMAIN items : items[i].id \in ToSet(ItemIds(items))
BY DEF ToSet, ItemIds

\* Numbers that a step gives are new.
Given == nextId + 1 .. nextId'

\* The views and items of a window stay its own, or are new.
LEMMA IdsStay ==
    ASSUME TypeOK, IdsInv, Grows, NEW w \in DOMAIN tabs, OnlyOf(w),
           ToSet(tabs'[w]) \subseteq ToSet(tabs[w]) \union Given,
           ToSet(ItemIds(kids'[w])) \subseteq ToSet(ItemIds(kids[w])) \union Given,
           IsInjective(ItemIds(kids'[w])),
           current'[w] = 0 => tabs'[w] = <<>>
    PROVE  IdsInv'
<1> DEFINE V(x) == ToSet(tabs[x])
           I(x) == ToSet(ItemIds(kids[x]))
<1>1. nextId \in Nat /\ nextId' \in Nat /\ nextId <= nextId' /\ DOMAIN tabs \subseteq 1 .. nextId
  BY Types DEF Grows
<1>2. ASSUME NEW x \in DOMAIN tabs
      PROVE  /\ \A k \in V(x) : k \notin Given
             /\ \A k \in I(x) : k \notin Given
  <2>1. /\ \A i \in DOMAIN tabs[x] : tabs[x][i] \in DOMAIN nav
        /\ \A i \in DOMAIN kids[x] : kids[x][i].id \in 1 .. nextId
    BY ItemTypes
  <2>2. DOMAIN nav \subseteq 1 .. nextId
    BY Types
  <2>3. /\ \A k \in V(x) : \E i \in DOMAIN tabs[x] : k = tabs[x][i]
        /\ \A k \in I(x) : \E i \in DOMAIN kids[x] : k = kids[x][i].id
    BY IdsSet DEF ToSet
  <2> HIDE DEF V, I
  <2> QED BY <1>1, <2>1, <2>2, <2>3 DEF Given
<1>3. ASSUME NEW x \in DOMAIN tabs' \ {w}
      PROVE  /\ x \in DOMAIN tabs /\ ToSet(tabs'[x]) = V(x) /\ ToSet(ItemIds(kids'[x])) = I(x)
             /\ ItemIds(kids'[x]) = ItemIds(kids[x]) /\ tabs'[x] = tabs[x] /\ current'[x] = current[x]
  BY DEF OnlyOf
<1>4. DOMAIN tabs' = DOMAIN tabs
  BY DEF OnlyOf
<1> HIDE DEF V, I
<1>5. \A x, y \in DOMAIN tabs : x # y => V(x) \intersect V(y) = {} /\ I(x) \intersect I(y) = {}
  BY DEF IdsInv, V, I
<1>6. ToSet(tabs'[w]) \subseteq V(w) \union Given /\ ToSet(ItemIds(kids'[w])) \subseteq I(w) \union Given
  BY DEF V, I
<1>7. ASSUME NEW x \in DOMAIN tabs', NEW y \in DOMAIN tabs', x # y
      PROVE  /\ ToSet(tabs'[x]) \intersect ToSet(tabs'[y]) = {}
             /\ ToSet(ItemIds(kids'[x])) \intersect ToSet(ItemIds(kids'[y])) = {}
  <2>1. CASE x = w
    BY <2>1, <1>2, <1>3, <1>5, <1>6, <1>7
  <2>2. CASE y = w
    BY <2>2, <1>2, <1>3, <1>5, <1>6, <1>7
  <2>3. CASE x # w /\ y # w
    BY <2>3, <1>3, <1>5, <1>7
  <2> QED BY <2>1, <2>2, <2>3
<1>8. ASSUME NEW x \in DOMAIN tabs'
      PROVE  /\ IsInjective(ItemIds(kids'[x])) /\ (current'[x] = 0 => tabs'[x] = <<>>)
             /\ ToSet(ItemIds(kids'[x])) \intersect DOMAIN tabs' = {}
  <2>1. CASE x = w
    <3>1. I(w) \intersect DOMAIN tabs = {}
      BY DEF IdsInv, I
    <3>2. Given \intersect DOMAIN tabs = {}
      BY <1>1 DEF Given
    <3> QED BY <2>1, <3>1, <3>2, <1>4, <1>6
  <2>2. CASE x # w
    BY <2>2, <1>3, <1>4 DEF IdsInv, I
  <2> QED BY <2>1, <2>2
<1> QED BY <1>7, <1>8 DEF IdsInv

\* The items of a window are bound as before when its navigators are as before.
LEMMA BoundAsBefore ==
    ASSUME NEW items, NEW views, NEW n, NEW m, \A i \in DOMAIN views : m[views[i]] = n[views[i]],
           ItemsAre(items, views, n)
    PROVE  ItemsAre(items, views, m) /\ (BoundAre(items, views, n) => BoundAre(items, views, m))
BY DEF ItemsAre, BoundAre

\* The navigators and the updates of the other windows are left.
OthersOf(w) ==
    \A x \in DOMAIN tabs \ {w} :
        /\ \A i \in DOMAIN tabs[x] : nav'[tabs[x][i]] = nav[tabs[x][i]]
        /\ Update(x) \in ToSet(queue) => Update(x) \in ToSet(queue')

\* A window is as the invariant has it after the step.
GoodNext(w) ==
    /\ ItemsAre(kids'[w], tabs'[w], nav')
    /\ Update(w) \notin ToSet(queue') => BoundAre(kids'[w], tabs'[w], nav')

\* WindowsInv is kept by a step that changes one window, if it holds of that one.
LEMMA WindowsStay ==
    ASSUME TypeOK, WindowsInv, NEW w \in DOMAIN tabs, OnlyOf(w), OthersOf(w), Whole' \subseteq Whole,
           w \in Whole' => GoodNext(w)
    PROVE  WindowsInv'
<1> SUFFICES ASSUME NEW x \in Whole' PROVE GoodNext(x)
  BY DEF WindowsInv, GoodNext
<1>1. CASE x = w
  BY <1>1
<1>2. CASE x # w
  <2>1. x \in DOMAIN tabs
    <3>1. windows \in Seq(DOMAIN tabs)
      BY Types
    <3>2. DOMAIN windows = 1 .. Len(windows) /\ \A i \in 1 .. Len(windows) : windows[i] \in DOMAIN tabs
      BY <3>1, LenProperties, ElementOfSeq
    <3> QED BY <3>2 DEF Whole
  <2>2. tabs'[x] = tabs[x] /\ kids'[x] = kids[x]
    BY <1>2, <2>1 DEF OnlyOf
  <2>3. /\ \A i \in DOMAIN tabs[x] : nav'[tabs[x][i]] = nav[tabs[x][i]]
        /\ Update(x) \in ToSet(queue) => Update(x) \in ToSet(queue')
    BY <1>2, <2>1 DEF OthersOf
  <2>4. ItemsAre(kids[x], tabs[x], nav) /\ (Update(x) \notin ToSet(queue) => BoundAre(kids[x], tabs[x], nav))
    BY DEF WindowsInv
  <2>5. ItemsAre(kids[x], tabs[x], nav')
        /\ (BoundAre(kids[x], tabs[x], nav) => BoundAre(kids[x], tabs[x], nav'))
    BY <2>3, <2>4, BoundAsBefore
  <2> QED BY <2>2, <2>3, <2>4, <2>5 DEF GoodNext
<1> QED BY <1>1, <1>2

\* Only lists of the window or of its items are changed.
Elsewhere(w) ==
    \A k : k # w /\ k \notin ToSet(ItemIds(kids[w])) =>
        /\ k \in DOMAIN tree'.lists <=> k \in DOMAIN tree.lists
        /\ k \in DOMAIN tree.lists => tree'.lists[k] = tree.lists[k]

\* Windows that are shown have tabs.
LEMMA WholeAreWindows ==
    ASSUME TypeOK
    PROVE  Whole \subseteq DOMAIN tabs /\ \A i \in DOMAIN windows : windows[i] \in DOMAIN tabs
<1>1. windows \in Seq(DOMAIN tabs)
  BY Types
<1>2. DOMAIN windows = 1 .. Len(windows) /\ \A i \in 1 .. Len(windows) : windows[i] \in DOMAIN tabs
  BY <1>1, LenProperties, ElementOfSeq
<1> QED BY <1>2 DEF Whole

\* TreeInv is kept by a step that changes one window and the lists of its items.
LEMMA TreeStays ==
    ASSUME TypeOK, IdsInv, TreeInv, NEW w \in DOMAIN tabs, OnlyOf(w),
           Whole' \subseteq Whole, windows' = windows,
           DOMAIN tree' = DOMAIN NoTree,
           Told' => Told /\ Elsewhere(w) /\ (w \in Whole' => ReadAre(w, kids'[w], tree'.lists))
    PROVE  TreeInv'
<1> SUFFICES ASSUME Told'
             PROVE  /\ Root \in DOMAIN tree'.lists /\ tree'.lists[Root] = windows'
                    /\ \A x \in Whole' : ReadAre(x, kids'[x], tree'.lists)
  BY DEF TreeInv, NoTree
<1>1. /\ Root \in DOMAIN tree.lists /\ tree.lists[Root] = windows
      /\ \A x \in Whole : ReadAre(x, kids[x], tree.lists)
  BY DEF TreeInv
<1>2. Root # w /\ Root \notin ToSet(ItemIds(kids[w]))
  <2>1. DOMAIN tabs \subseteq 1 .. nextId /\ nextId \in Nat
    BY Types
  <2>2. \A i \in DOMAIN kids[w] : kids[w][i].id \in 1 .. nextId
    BY ItemTypes
  <2> QED BY <2>1, <2>2, IdsSet DEF Root
<1>3. Root \in DOMAIN tree'.lists /\ tree'.lists[Root] = windows'
  BY <1>1, <1>2 DEF Elsewhere
<1>4. ASSUME NEW x \in Whole' PROVE ReadAre(x, kids'[x], tree'.lists)
  <2>1. CASE x = w
    BY <2>1
  <2>2. CASE x # w
    <3>1. x \in DOMAIN tabs /\ kids'[x] = kids[x] /\ ReadAre(x, kids[x], tree.lists)
      BY <2>2, <1>1, WholeAreWindows DEF OnlyOf
    <3>2. x \notin ToSet(ItemIds(kids[w]))
      BY <3>1 DEF IdsInv
    <3>3. ASSUME NEW i \in DOMAIN kids[x]
          PROVE  kids[x][i].id # w /\ kids[x][i].id \notin ToSet(ItemIds(kids[w]))
      <4>1. kids[x][i].id \in ToSet(ItemIds(kids[x]))
        BY <3>1, ItemTypes
      <4>2. ToSet(ItemIds(kids[x])) \intersect ToSet(ItemIds(kids[w])) = {}
            /\ ToSet(ItemIds(kids[x])) \intersect DOMAIN tabs = {}
        BY <2>2, <3>1 DEF IdsInv
      <4> QED BY <4>1, <4>2
    <3> QED BY <2>2, <3>1, <3>2, <3>3 DEF ReadAre, Elsewhere
  <2> QED BY <2>1, <2>2
<1> QED BY <1>3, <1>4

\* The layout tree after a diff of a list.
LEMMA Applying ==
    ASSUME TypeOK, TreeInv, NEW parent, NEW list, tree' = Applies(tree, parent, list)
    PROVE  /\ DOMAIN tree' = DOMAIN NoTree
           /\ tree'.state \in {"none", "open"} /\ tree'.misread \in BOOLEAN
           /\ DOMAIN tree'.lists = DOMAIN tree.lists
           /\ Told' => /\ Told /\ parent \in DOMAIN tree.lists /\ tree'.lists[parent] = list
                       /\ \A k \in DOMAIN tree.lists \ {parent} : tree'.lists[k] = tree.lists[k]
<1>1. /\ DOMAIN tree = {"state", "lists", "misread"}
      /\ tree.state \in {"none", "open"} /\ tree.misread \in BOOLEAN
  BY Types DEF TreeInv, NoTree
<1>2. DOMAIN NoTree = {"state", "lists", "misread"}
  BY DEF NoTree
<1>3. CASE ~Told
  <2>1. tree' = tree
    BY <1>3 DEF Applies, Told
  <2> QED BY <2>1, <1>1, <1>2, <1>3 DEF Told
<1>4. CASE Told /\ parent \in DOMAIN tree.lists
  <2>1. tree' = [tree EXCEPT !.lists[parent] = list]
    BY <1>4 DEF Applies, Told
  <2> QED BY <2>1, <1>1, <1>2, <1>4 DEF Told
<1>5. CASE Told /\ parent \notin DOMAIN tree.lists
  <2>1. tree' = [tree EXCEPT !.misread = TRUE]
    BY <1>5 DEF Applies, Told
  <2> QED BY <2>1, <1>1, <1>2, <1>5 DEF Told
<1> QED BY <1>3, <1>4, <1>5

-----------------------------------------------------------------------------
(* Steps that leave the items *)

\* A task that is taken without its update having been done belongs to an empty window.
LEMMA Quiet ==
    ASSUME IInv, UNCHANGED <<tabs, current, nav, kids, nextId, torn>>, Whole' \subseteq Whole,
           \A x \in Whole' : Update(x) \in ToSet(queue) /\ Update(x) \notin ToSet(queue') => DOMAIN tabs[x] = {}
    PROVE  /\ Grows /\ NavsInv' /\ IdsInv' /\ WindowsInv'
           /\ \A w \in DOMAIN tabs' : WindowOK(w)'
           /\ DOMAIN tabs' = DOMAIN current' /\ DOMAIN tabs' = DOMAIN kids'
           /\ DOMAIN tabs' \subseteq 1 .. nextId' /\ DOMAIN nav' \subseteq 1 .. nextId'
           /\ torn' \subseteq DOMAIN tabs' /\ Tasks' = Tasks
<1>1. TypeOK /\ NavsInv /\ IdsInv /\ WindowsInv
  BY DEF IInv
<1>2. Grows
  BY <1>1, Types DEF Grows
<1>3. NavsInv' /\ IdsInv'
  <2>1. Linked(Shown)' = Linked(Shown) /\ Shown' = Shown
    BY DEF Shown, Linked
  <2> QED BY <1>1 DEF NavsInv, Linked, Shown, IdsInv
<1>4. \A w \in DOMAIN tabs' : WindowOK(w)'
  BY <1>1, Types DEF WindowOK, Items, Shown
<1>5. ASSUME NEW x \in Whole'
      PROVE  /\ ItemsAre(kids'[x], tabs'[x], nav')
             /\ Update(x) \notin ToSet(queue') => BoundAre(kids'[x], tabs'[x], nav')
  <2>1. /\ ItemsAre(kids[x], tabs[x], nav)
        /\ Update(x) \notin ToSet(queue) => BoundAre(kids[x], tabs[x], nav)
    BY <1>1 DEF WindowsInv
  <2>2. CASE Update(x) \in ToSet(queue) /\ Update(x) \notin ToSet(queue')
    <3>1. DOMAIN kids[x] = {}
      BY <2>1, <2>2 DEF ItemsAre
    <3> QED BY <2>1, <3>1 DEF BoundAre
  <2> QED BY <2>1, <2>2
<1> QED BY <1>1, <1>2, <1>3, <1>4, <1>5, Types DEF WindowsInv, Tasks

\* The layout tree and what it follows are left.
LEMMA QuietTree ==
    ASSUME IInv, UNCHANGED <<windows, tree, kids, torn>>
    PROVE  /\ TreeInv' /\ Whole' = Whole
           /\ tree'.state \in {"none", "open"} /\ tree'.misread \in BOOLEAN
<1>1. TypeOK /\ TreeInv
  BY DEF IInv
<1> QED BY <1>1, Types DEF TreeInv, Whole, Told

\* The whole invariant after a step that leaves the items and the tree.
LEMMA QuietStep ==
    ASSUME IInv, UNCHANGED <<windows, tabs, current, nav, kids, nextId, tree, torn>>,
           phase' \in {"running", "exited"}, ops' \in 0 .. MaxOps,
           queue' \in Seq(Tasks), timer' \in Nat \union {Off},
           \A x \in Whole : Update(x) \in ToSet(queue) /\ Update(x) \notin ToSet(queue') => DOMAIN tabs[x] = {}
    PROVE  IInv'
<1>1. TypeOK
  BY DEF IInv
<1>2. TreeInv' /\ Whole' = Whole /\ tree'.state \in {"none", "open"} /\ tree'.misread \in BOOLEAN
  BY QuietTree
<1>3. /\ Grows /\ NavsInv' /\ IdsInv' /\ WindowsInv'
      /\ \A w \in DOMAIN tabs' : WindowOK(w)'
      /\ DOMAIN tabs' = DOMAIN current' /\ DOMAIN tabs' = DOMAIN kids'
      /\ DOMAIN tabs' \subseteq 1 .. nextId' /\ DOMAIN nav' \subseteq 1 .. nextId'
      /\ torn' \subseteq DOMAIN tabs' /\ Tasks' = Tasks
  BY <1>2, Quiet
<1>4. /\ windows' \in Seq(DOMAIN tabs') /\ windows' # <<>> /\ IsInjective(windows')
      /\ DOMAIN tree'.lists \subseteq 0 .. nextId' /\ queue' \in Seq(Tasks')
  BY <1>1, <1>3, Types
<1>5. TypeOK'
  BY <1>1, <1>2, <1>3, <1>4, IsTyped
<1> QED BY <1>2, <1>3, <1>5 DEF IInv

\* A click only adds its task to the queue, which is no update.
LEMMA ClickKeeps ==
    ASSUME IInv, NEW task \in Tasks, Click(task)
    PROVE  IInv'
<1>1. TypeOK /\ queue \in Seq(Tasks)
  BY Types DEF IInv
<1>2. queue' \in Seq(Tasks) /\ ToSet(queue') = ToSet(queue) \union {task}
  BY <1>1, Elements DEF Click
<1>3. phase' \in {"running", "exited"} /\ ops' \in 0 .. MaxOps /\ timer' \in Nat \union {Off}
  BY <1>1, Types, ControllerAssumption DEF Click, Counted
<1>4. UNCHANGED <<windows, tabs, current, nav, kids, nextId, tree, torn>>
  BY DEF Click
<1> QED BY <1>2, <1>3, <1>4, QuietStep

\* The commands of an element make tasks with a place and a view that exist.
LEMMA ClickElementKeeps ==
    ASSUME IInv, NEW w \in DOMAIN tabs, ClickElement(w)
    PROVE  IInv'
<1>1. PICK i \in DOMAIN kids[w] :
        /\ kids[w][i].bound # NotBound
        /\ \/ \E kind \in {"insert", "remove"} :
                Click([kind |-> kind, win |-> w, idx |-> kids[w][i].bound.idx])
           \/ \E kind \in {"open", "back", "forward"} :
                Click([kind |-> kind, win |-> w, view |-> kids[w][i].view])
  BY DEF ClickElement
<1>2. kids[w][i] \in Items
  BY ItemTypes DEF IInv
<1>3. kids[w][i].bound.idx \in Nat \ {0} /\ kids[w][i].view \in DOMAIN nav
  BY <1>1, <1>2 DEF Items
<1>4. CASE \E kind \in {"insert", "remove"} :
                Click([kind |-> kind, win |-> w, idx |-> kids[w][i].bound.idx])
  <2>1. PICK kind \in {"insert", "remove"} :
                Click([kind |-> kind, win |-> w, idx |-> kids[w][i].bound.idx])
    BY <1>4
  <2>2. [kind |-> kind, win |-> w, idx |-> kids[w][i].bound.idx] \in Tasks
    BY <1>3 DEF Tasks
  <2>3. PICK task \in Tasks : task = [kind |-> kind, win |-> w, idx |-> kids[w][i].bound.idx]
    BY <2>2
  <2>4. Click(task)
    BY <2>1, <2>3
  <2> QED BY <2>4, ClickKeeps
<1>5. CASE \E kind \in {"open", "back", "forward"} :
                Click([kind |-> kind, win |-> w, view |-> kids[w][i].view])
  <2>1. PICK kind \in {"open", "back", "forward"} :
                Click([kind |-> kind, win |-> w, view |-> kids[w][i].view])
    BY <1>5
  <2>2. [kind |-> kind, win |-> w, view |-> kids[w][i].view] \in Tasks
    BY <1>3 DEF Tasks
  <2>3. PICK task \in Tasks : task = [kind |-> kind, win |-> w, view |-> kids[w][i].view]
    BY <2>2
  <2>4. Click(task)
    BY <2>1, <2>3
  <2> QED BY <2>4, ClickKeeps
<1> QED BY <1>1, <1>4, <1>5

\* So do the commands of a window.
LEMMA ClickWindowKeeps ==
    ASSUME IInv, NEW w \in DOMAIN tabs, ClickWindow(w)
    PROVE  IInv'
<1>1. PICK kind \in {"duplicate_tab", "close_tab", "duplicate_window", "quit"} :
        Click([kind |-> kind, win |-> w])
  BY DEF ClickWindow
<1>2. [kind |-> kind, win |-> w] \in Tasks
  BY DEF Tasks
<1>3. PICK task \in Tasks : task = [kind |-> kind, win |-> w]
  BY <1>2
<1>4. Click(task)
  BY <1>1, <1>3
<1> QED BY <1>4, ClickKeeps

\* Skip takes an update only of an empty window, or of one that is not whole.
LEMMA SkipKeeps ==
    ASSUME IInv, queue # <<>>, Skip, UNCHANGED <<phase, ops, saved>>,
           \A x \in Whole : Head(queue) = Update(x) => DOMAIN tabs[x] = {}
    PROVE  IInv'
<1>1. TypeOK /\ queue \in Seq(Tasks)
  BY Types DEF IInv
<1>2. queue' \in Seq(Tasks) /\ ToSet(queue) = {Head(queue)} \union ToSet(queue')
  BY <1>1, Queue DEF Skip
<1>3. phase' \in {"running", "exited"} /\ ops' \in 0 .. MaxOps /\ timer' \in Nat \union {Off}
  BY <1>1, Types, Timing DEF Skip
<1>4. UNCHANGED <<windows, tabs, current, nav, kids, nextId, tree, torn>>
  BY DEF Skip
<1> QED BY <1>2, <1>3, <1>4, QuietStep

\* quit changes none of the structures.
LEMMA RunQuitKeeps ==
    ASSUME IInv, RunQuit
    PROVE  IInv'
<1>1. TypeOK /\ queue \in Seq(Tasks) /\ queue # <<>> /\ Head(queue).kind = "quit"
  BY Types DEF IInv, RunQuit, IsNext
<1>2. queue' \in Seq(Tasks) /\ ToSet(queue) = {Head(queue)} \union ToSet(queue')
  BY <1>1, Queue DEF RunQuit
<1>3. phase' \in {"running", "exited"} /\ ops' \in 0 .. MaxOps /\ timer' \in Nat \union {Off}
  BY <1>1, <1>2, Types, Timing DEF RunQuit
<1>4. UNCHANGED <<windows, tabs, current, nav, kids, nextId, tree, torn>>
  BY DEF RunQuit
<1>5. \A x \in Whole : Head(queue) # Update(x)
  BY <1>1 DEF Update
<1> QED BY <1>2, <1>3, <1>4, <1>5, QuietStep

\* Nor does the save timer.
LEMMA SaveStateKeeps ==
    ASSUME IInv, SaveState
    PROVE  IInv'
<1>1. TypeOK /\ queue \in Seq(Tasks)
  BY Types DEF IInv
<1>2. phase' \in {"running", "exited"} /\ ops' \in 0 .. MaxOps /\ timer' \in Nat \union {Off} /\ queue' = queue
  BY <1>1, Types DEF SaveState
<1>3. UNCHANGED <<windows, tabs, current, nav, kids, nextId, tree, torn>>
  BY DEF SaveState
<1> QED BY <1>1, <1>2, <1>3, QuietStep

-----------------------------------------------------------------------------
(* Steps about one window *)

\* The window after the step, as TypeOK and IdsInv have it.
WellNext(w) ==
    /\ tabs'[w] \in Seq(DOMAIN nav') /\ IsInjective(tabs'[w])
    /\ current'[w] \in 0 .. Len(tabs'[w])
    /\ kids'[w] \in Seq(Items')
    /\ ToSet(tabs'[w]) \subseteq ToSet(tabs[w]) \union Given
    /\ ToSet(ItemIds(kids'[w])) \subseteq ToSet(ItemIds(kids[w])) \union Given
    /\ IsInjective(ItemIds(kids'[w]))
    /\ current'[w] = 0 => tabs'[w] = <<>>

\* The tree after the step.
TreeNext(w) ==
    /\ DOMAIN tree' = DOMAIN NoTree
    /\ tree'.state \in {"none", "open"} /\ tree'.misread \in BOOLEAN
    /\ DOMAIN tree'.lists \subseteq 0 .. nextId'
    /\ Told' => Told /\ Elsewhere(w) /\ (w \in Whole' => ReadAre(w, kids'[w], tree'.lists))

\* The rest of the state after it.
RestNext ==
    /\ phase' \in {"running", "exited"} /\ ops' \in 0 .. MaxOps
    /\ queue' \in Seq(Tasks') /\ timer' \in Nat \union {Off}
    /\ windows' = windows /\ torn \subseteq torn' /\ torn' \subseteq DOMAIN tabs
    /\ DOMAIN nav' \subseteq 1 .. nextId'

\* The invariant after a step that changes one window, in the parts shown separately below.
LEMMA WindowStep ==
    ASSUME IInv, Grows, NEW w \in DOMAIN tabs, OnlyOf(w), OthersOf(w),
           WellNext(w), TreeNext(w), RestNext, NavsInv', w \in Whole' => GoodNext(w)
    PROVE  IInv'
<1>1. TypeOK /\ IdsInv /\ WindowsInv /\ TreeInv
  BY DEF IInv
<1>2. Whole' \subseteq Whole
  BY DEF Whole, RestNext
<1>3. IdsInv'
  BY <1>1, IdsStay DEF WellNext
<1>4. WindowsInv'
  BY <1>1, <1>2, WindowsStay
<1>5. TreeInv'
  BY <1>1, <1>2, TreeStays DEF TreeNext, RestNext
<1>6. \A x \in DOMAIN tabs' : WindowOK(x)'
  BY <1>1, WindowsAreTyped DEF WellNext
<1>7. /\ DOMAIN tabs' = DOMAIN tabs /\ DOMAIN tabs' = DOMAIN current' /\ DOMAIN tabs' = DOMAIN kids'
      /\ DOMAIN tabs' \subseteq 1 .. nextId'
  BY <1>1, Types, Growing DEF OnlyOf
<1>8. windows' \in Seq(DOMAIN tabs') /\ windows' # <<>> /\ IsInjective(windows')
  BY <1>1, <1>7, Types DEF RestNext
<1>9. TypeOK'
  BY <1>1, <1>6, <1>7, <1>8, IsTyped DEF RestNext, TreeNext
<1> QED BY <1>3, <1>4, <1>5, <1>9 DEF IInv

\* The queue and the timer after children_changed of a window.
LEMMA ToldOfChange ==
    ASSUME TypeOK, Grows, NEW w \in DOMAIN tabs, NEW q \in Seq(Tasks),
           queue' = WithUpdate(q, w), Scheduled(queue')
    PROVE  /\ queue' \in Seq(Tasks') /\ timer' \in Nat \union {Off}
           /\ ToSet(queue') = ToSet(q) \union {Update(w)}
<1>1. Update(w) \in Tasks
  BY DEF Update, Tasks
<1>2. queue' \in Seq(Tasks) /\ ToSet(queue') = ToSet(q) \union {Update(w)}
  BY <1>1, Queue
<1>3. PICK new \in Seq(Tasks) : new = queue'
  BY <1>2
<1>4. timer' \in Nat \union {Off}
  BY <1>3, Timing
<1> QED BY <1>2, <1>4, Growing

\* A step that does not touch the tree when it has read nothing it changes.
LEMMA TreeIsLeft ==
    ASSUME IInv, Grows, NEW w, tree' = tree
    PROVE  /\ DOMAIN tree' = DOMAIN NoTree
           /\ tree'.state \in {"none", "open"} /\ tree'.misread \in BOOLEAN
           /\ DOMAIN tree'.lists \subseteq 0 .. nextId'
           /\ Told' = Told /\ Elsewhere(w)
BY Types, Growing DEF IInv, TreeInv, Told, Elsewhere

\* Switching a tab leaves an update of the window waiting.
LEMMA SwitchTabKeeps ==
    ASSUME IInv, NEW w \in DOMAIN tabs, SwitchTab(w)
    PROVE  IInv'
<1>1. TypeOK /\ IdsInv /\ WindowsInv /\ NavsInv /\ TreeInv /\ queue \in Seq(Tasks) /\ WindowOK(w)
  BY Types DEF IInv
<1>2. PICK i \in DOMAIN tabs[w] : current' = [current EXCEPT ![w] = i]
  BY DEF SwitchTab, Places
<1>3. UNCHANGED <<phase, windows, tabs, nav, kids, nextId, saved, tree, torn>>
      /\ queue' = WithUpdate(queue, w) /\ Scheduled(queue') /\ Counted
  BY DEF SwitchTab
<1>4. Grows
  BY <1>1, <1>3, Types DEF Grows
<1>5. OnlyOf(w) /\ i \in 1 .. Len(tabs[w]) /\ Len(tabs[w]) \in Nat
  BY <1>1, <1>2, <1>3, Types, ItemTypes DEF OnlyOf
<1>6. /\ queue' \in Seq(Tasks') /\ timer' \in Nat \union {Off}
      /\ ToSet(queue') = ToSet(queue) \union {Update(w)}
  BY <1>1, <1>3, <1>4, ToldOfChange
<1>7. OthersOf(w)
  BY <1>3, <1>6 DEF OthersOf
<1>8. current'[w] = i
  BY <1>1, <1>2, Types
<1>9. WellNext(w)
  <2>1. current'[w] \in 0 .. Len(tabs'[w]) /\ current'[w] # 0
    BY <1>3, <1>5, <1>8
  <2>2. kids'[w] \in Seq(Items') /\ tabs'[w] \in Seq(DOMAIN nav')
    BY <1>1, <1>3, <1>4, Growing DEF WindowOK
  <2> QED BY <1>1, <1>3, <2>1, <2>2 DEF WellNext, WindowOK, IdsInv
<1>10. RestNext /\ Whole' = Whole
  <2>1. phase' \in {"running", "exited"} /\ ops' \in 0 .. MaxOps
    BY <1>1, <1>3, Types, ControllerAssumption DEF Counted
  <2>2. DOMAIN nav' \subseteq 1 .. nextId' /\ torn \subseteq torn' /\ torn' \subseteq DOMAIN tabs
    BY <1>1, <1>3, Types
  <2> QED BY <1>3, <1>6, <2>1, <2>2 DEF RestNext, Whole
<1>11. TreeNext(w)
  <2>1. Told /\ w \in Whole => ReadAre(w, kids[w], tree.lists)
    BY <1>1 DEF TreeInv
  <2> QED BY <1>3, <1>4, <1>10, <2>1, TreeIsLeft DEF TreeNext
<1>12. NavsInv'
  BY <1>1, <1>3 DEF NavsInv, Linked, Shown
<1>13. w \in Whole' => GoodNext(w)
  BY <1>1, <1>3, <1>6, <1>10 DEF WindowsInv, GoodNext
<1> QED BY <1>4, <1>5, <1>7, <1>9, <1>10, <1>11, <1>12, <1>13, WindowStep

\* How many of the first items have no child.
LEMMA Counting ==
    ASSUME NEW items, NEW n \in Nat, NEW i \in 1 .. n
    PROVE  LET new(k) == Cardinality({j \in 1 .. k : items[j].child = 0})
           IN /\ new(i) \in Nat /\ new(n) \in Nat /\ new(i) <= new(n)
              /\ items[i].child = 0 => 1 <= new(i)
<1> DEFINE C(k) == {j \in 1 .. k : items[j].child = 0}
<1>1. C(n) \subseteq 1 .. n /\ C(i) \in SUBSET C(n)
  OBVIOUS
<1>2. IsFiniteSet(1 .. n)
  BY FS_Interval
<1>3. IsFiniteSet(C(n))
  BY <1>1, <1>2, FS_Subset
<1>4. IsFiniteSet(C(i)) /\ Cardinality(C(i)) <= Cardinality(C(n))
  BY <1>1, <1>3, FS_Subset
<1>5. Cardinality(C(i)) \in Nat /\ Cardinality(C(n)) \in Nat
  BY <1>3, <1>4, FS_CardinalityType
<1>6. ASSUME items[i].child = 0 PROVE 1 <= Cardinality(C(i))
  <2>1. i \in C(i)
    BY <1>6
  <2>2. Cardinality(C(i)) # 0
    BY <1>4, <2>1, FS_EmptySet
  <2> QED BY <1>5, <2>2
<1> QED BY <1>4, <1>5, <1>6

\* An item after its children were updated is of the same view and place.
LEMMA Updating ==
    ASSUME NEW item \in Items, NEW i \in Nat \ {0}, NEW c
    PROVE  LET new == Updated(item, i, c)
           IN /\ new.id = item.id /\ new.view = item.view
              /\ new.child = (IF item.child = 0 THEN c ELSE item.child)
              /\ new.shows = nav[item.view].model
              /\ new.bound = [idx |-> i, model |-> nav[item.view].model]
              /\ new = [id |-> new.id, view |-> new.view, child |-> new.child, shows |-> new.shows,
                        bound |-> new.bound]
BY DEF Updated, WholeItem

\* What a navigator shows.
LEMMA NavTypes ==
    ASSUME NavsInv, NEW v \in DOMAIN nav
    PROVE  nav[v].model \in Shown
BY DEF NavsInv, Linked

\* update_children takes its own task from the queue and binds each item to its place and model.
LEMMA RunUpdateKeeps ==
    ASSUME IInv, RunUpdate
    PROVE  IInv'
<1> DEFINE w == Head(queue).win
           new(i) == Cardinality({j \in 1 .. i : kids[w][j].child = 0})
<1>1. TypeOK /\ IdsInv /\ WindowsInv /\ NavsInv /\ TreeInv /\ queue \in Seq(Tasks) /\ queue # <<>>
  BY Types DEF IInv, RunUpdate, IsNext
<1>2. Head(queue) \in Tasks /\ Tail(queue) \in Seq(Tasks) /\ ToSet(queue) = {Head(queue)} \union ToSet(Tail(queue))
  BY <1>1, Queue
<1>3. Head(queue) = Update(w) /\ w \in DOMAIN tabs
  BY <1>2, TaskTypes DEF RunUpdate, IsNext
<1>4. UNCHANGED <<phase, ops, saved>>
  BY DEF RunUpdate
<1>5. \A x : Update(x) = Head(queue) => x = w
  BY <1>3 DEF Update
<1>6. CASE (current[w] = 0 \/ w \in torn) /\ Skip
  <2>1. ASSUME NEW x \in Whole, Head(queue) = Update(x) PROVE DOMAIN tabs[x] = {}
    <3>1. x = w /\ current[w] = 0
      BY <1>5, <1>6, <2>1 DEF Whole
    <3>2. tabs[w] = <<>>
      BY <1>1, <1>3, <3>1 DEF IdsInv
    <3> QED BY <3>1, <3>2
  <2> QED BY <1>1, <1>4, <1>6, <2>1, SkipKeeps
<1>7. CASE /\ kids' = [kids EXCEPT ![w] =
                         [i \in DOMAIN kids[w] |-> Updated(kids[w][i], i, nextId + new(i))]]
           /\ nextId' = nextId + new(Len(kids[w]))
           /\ queue' = Tail(queue)
           /\ Elapsed
           /\ UNCHANGED <<windows, tabs, current, nav, tree, torn>>
  <2> DEFINE items == kids[w]
  <2>1. /\ Len(items) \in Nat /\ DOMAIN items = 1 .. Len(items) /\ WindowOK(w) /\ nextId \in Nat
        /\ \A i \in DOMAIN items : items[i] \in Items
    BY <1>1, <1>3, ItemTypes, Types
  <2>2. ASSUME NEW i \in DOMAIN items
        PROVE  /\ new(i) \in Nat /\ new(Len(items)) \in Nat /\ new(i) <= new(Len(items))
               /\ items[i].child = 0 => 1 <= new(i)
    BY <2>1, Counting
  <2>3. new(Len(items)) \in Nat
    <3>1. IsFiniteSet(1 .. Len(items))
      BY <2>1, FS_Interval
    <3>2. {j \in 1 .. Len(items) : kids[w][j].child = 0} \in SUBSET (1 .. Len(items))
      OBVIOUS
    <3>3. IsFiniteSet({j \in 1 .. Len(items) : kids[w][j].child = 0})
      BY <3>1, <3>2, FS_Subset
    <3> QED BY <3>3, FS_CardinalityType
  <2> HIDE DEF new
  <2>4. Grows
    <3>1. /\ nextId' = nextId + new(Len(items)) /\ tabs' = tabs /\ nav' = nav
      BY <1>7
    <3> QED BY <2>1, <2>3, <3>1 DEF Grows
  <2>5. kids'[w] = [i \in DOMAIN items |-> Updated(items[i], i, nextId + new(i))]
    BY <1>1, <1>3, <1>7, Types
  <2>6. ASSUME NEW i \in DOMAIN items
        PROVE  /\ kids'[w][i].id = items[i].id /\ kids'[w][i].view = items[i].view
               /\ kids'[w][i].child # 0
               /\ items[i].child # 0 => kids'[w][i].child = items[i].child
               /\ kids'[w][i].shows = nav[items[i].view].model
               /\ kids'[w][i].bound = [idx |-> i, model |-> nav[items[i].view].model]
               /\ kids'[w][i] \in Items'
    <3>1. PICK c \in Nat : c = nextId + new(i)
      <4>1. nextId + new(i) \in Nat
        BY <2>1, <2>2
      <4> QED BY <4>1
    <3>2. PICK item \in Items : item = items[i]
      BY <2>1
    <3>3. kids'[w][i] = Updated(item, i, c) /\ i \in Nat \ {0}
      BY <2>1, <2>5, <3>1, <3>2
    <3> HIDE DEF w
    <3>4. PICK e : e = Updated(item, i, c)
      OBVIOUS
    <3>5. /\ e.id = item.id /\ e.view = item.view
          /\ e.child = (IF item.child = 0 THEN c ELSE item.child)
          /\ e.shows = nav[item.view].model
          /\ e.bound = [idx |-> i, model |-> nav[item.view].model]
          /\ e = [id |-> e.id, view |-> e.view, child |-> e.child, shows |-> e.shows, bound |-> e.bound]
      BY <3>3, <3>4, Updating
    <3>6. item.child = 0 => c \in 1 .. nextId'
      BY <1>7, <2>1, <2>2, <3>1, <3>2
    <3>7. item.id \in 1 .. nextId /\ item.view \in DOMAIN nav /\ item.child \in 0 .. nextId
      BY DEF Items
    <3>8. nav[item.view].model \in Shown
      BY <1>1, <3>7, NavTypes
    <3>9. e \in Items'
      <4>1. /\ 1 .. nextId \subseteq 1 .. nextId' /\ 0 .. nextId \subseteq 0 .. nextId'
            /\ 1 .. nextId' \subseteq 0 .. nextId' /\ nav' = nav
        BY <1>1, <1>7, <2>4, Growing
      <4>2. e.id \in 1 .. nextId' /\ e.view \in DOMAIN nav' /\ e.child \in 0 .. nextId'
        BY <3>5, <3>6, <3>7, <4>1
      <4>3. e.shows \in Shown' /\ e.bound \in [idx : Nat \ {0}, model : Shown']
        BY <3>3, <3>5, <3>8 DEF Shown
      <4> QED BY <3>5, <4>2, <4>3 DEF Items
    <3> QED BY <3>2, <3>3, <3>4, <3>5, <3>6, <3>7, <3>9
  <2>7. DOMAIN kids'[w] = DOMAIN items /\ kids'[w] \in Seq(Items')
    <3>1. DOMAIN kids'[w] = 1 .. Len(items) /\ kids'[w] \in [1 .. Len(items) -> Items']
      BY <2>1, <2>5, <2>6
    <3>2. PICK S, f : S = Items' /\ f = kids'[w]
      OBVIOUS
    <3>3. f \in Seq(S)
      BY <2>1, <3>1, <3>2, IsSeq
    <3> QED BY <2>1, <3>1, <3>2, <3>3
  <2>8. ItemIds(kids'[w]) = ItemIds(items)
    BY <2>6, <2>7 DEF ItemIds
  <2>9. OnlyOf(w) /\ OthersOf(w)
    <3>1. OnlyOf(w)
      BY <1>1, <1>3, <1>7, Types DEF OnlyOf
    <3>2. \A x \in DOMAIN tabs \ {w} : Update(x) \in ToSet(queue) => Update(x) \in ToSet(queue')
      BY <1>2, <1>5, <1>7
    <3> QED BY <1>7, <3>1, <3>2 DEF OthersOf
  <2>10. WellNext(w)
    <3>1. current'[w] \in 0 .. Len(tabs'[w]) /\ (current'[w] = 0 => tabs'[w] = <<>>)
          /\ tabs'[w] \in Seq(DOMAIN nav') /\ IsInjective(tabs'[w]) /\ IsInjective(ItemIds(items))
      BY <1>1, <1>3, <1>7, <2>1 DEF WindowOK, IdsInv
    <3> QED BY <1>7, <2>7, <2>8, <3>1 DEF WellNext
  <2>11. RestNext /\ Whole' = Whole
    <3>1. timer' \in Nat \union {Off}
      BY <1>1, <1>2, <1>7, Timing
    <3> QED BY <1>1, <1>2, <1>4, <1>7, <2>4, <3>1, Types, Growing DEF RestNext, Whole
  <2>12. ASSUME Told, w \in Whole PROVE ReadAre(w, kids'[w], tree.lists)
    <3>1. ReadAre(w, items, tree.lists)
      BY <1>1, <2>12 DEF TreeInv
    <3>2. w \in DOMAIN tree.lists => tree.lists[w] = ItemIds(kids'[w])
      BY <2>8, <3>1 DEF ReadAre
    <3>3. ASSUME NEW i \in DOMAIN kids'[w], kids'[w][i].id \in DOMAIN tree.lists
          PROVE  kids'[w][i].child # 0 /\ tree.lists[kids'[w][i].id] = <<kids'[w][i].child>>
      <4>1. items[i].child # 0 /\ tree.lists[items[i].id] = <<items[i].child>>
        BY <2>6, <2>7, <3>1, <3>3 DEF ReadAre
      <4> QED BY <2>6, <2>7, <4>1
    <3> QED BY <3>2, <3>3 DEF ReadAre
  <2>13. TreeNext(w)
    <3> HIDE DEF w
    <3> QED BY <1>7, <2>4, <2>11, <2>12, TreeIsLeft DEF TreeNext
  <2>14. NavsInv'
    BY <1>1, <1>7 DEF NavsInv, Linked, Shown
  <2>15. w \in Whole' => GoodNext(w)
    <3>1. w \in Whole => ItemsAre(items, tabs[w], nav)
      BY <1>1 DEF WindowsInv
    <3> HIDE DEF w
    <3>2. ASSUME w \in Whole PROVE ItemsAre(kids'[w], tabs[w], nav) /\ BoundAre(kids'[w], tabs[w], nav)
      <4>1. DOMAIN kids'[w] = DOMAIN tabs[w] /\ \A i \in DOMAIN kids'[w] : items[i].view = tabs[w][i]
        BY <2>7, <3>1, <3>2 DEF ItemsAre
      <4>2. ItemsAre(items, tabs[w], nav)
        BY <3>1, <3>2
      <4>3. ItemsAre(kids'[w], tabs[w], nav)
        <5>1. DOMAIN items = DOMAIN tabs[w] /\ \A i \in DOMAIN items : items[i].view = tabs[w][i]
          BY <4>2 DEF ItemsAre
        <5>2. ASSUME NEW i \in DOMAIN kids'[w]
              PROVE  kids'[w][i].view = tabs[w][i] /\ kids'[w][i].shows = nav[tabs[w][i]].model
          BY <2>6, <2>7, <5>1, <5>2, Zenon
        <5> QED BY <4>1, <5>2, Zenon DEF ItemsAre
      <4>4. BoundAre(kids'[w], tabs[w], nav)
        BY <2>6, <2>7, <4>1 DEF BoundAre
      <4> QED BY <4>3, <4>4
    <3> QED BY <1>7, <2>11, <3>2 DEF GoodNext
  <2> HIDE DEF w
  <2> QED BY <1>3, <2>4, <2>9, <2>10, <2>11, <2>13, <2>14, <2>15, WindowStep
<1>8. (current[w] = 0 \/ w \in torn) \/ ~(current[w] = 0 \/ w \in torn)
  OBVIOUS
<1> QED BY <1>6, <1>7, <1>8 DEF RunUpdate

\* A command acts only on a window that is there and whole.
LEMMA WorkingIsWhole ==
    ASSUME NEW w, Works(w)
    PROVE  w \in Whole
BY DEF Works, IsLive, Whole

\* A record that may become the state of a navigator.
Fits(n) ==
    /\ n.model \in Shown
    /\ \E S : /\ Linked(S) /\ \A v \in DOMAIN nav : nav[v] \in S
              /\ n.prev = None \/ n.prev \in S
              /\ n.next = None \/ n.next \in S

\* The invariant of the navigators when one of them, or a new one, has a record that fits.
LEMMA Fitting ==
    ASSUME NEW n, Fits(n), NEW v, \A x \in DOMAIN nav' \ {v} : x \in DOMAIN nav /\ nav'[x] = nav[x],
           nav'[v] = n
    PROVE  NavsInv'
<1>1. PICK S : /\ Linked(S) /\ \A x \in DOMAIN nav : nav[x] \in S
               /\ n.prev = None \/ n.prev \in S
               /\ n.next = None \/ n.next \in S
  BY DEF Fits
<1>2. n.model \in Shown
  BY DEF Fits
<1>3. PICK T : T = S \union {n}
  OBVIOUS
<1>4. Linked(T)
  BY <1>1, <1>2, <1>3 DEF Linked
<1>5. \A x \in DOMAIN nav' : nav'[x] \in T
  BY <1>1, <1>3
<1> QED BY <1>4, <1>5 DEF NavsInv, Linked, Shown

\* The task that is taken is no update.
LEMMA Taking ==
    ASSUME TypeOK, queue # <<>>, Head(queue).kind # "update"
    PROVE  /\ Head(queue) \in Tasks /\ Tail(queue) \in Seq(Tasks)
           /\ \A x : Update(x) \in ToSet(queue) => Update(x) \in ToSet(Tail(queue))
<1>1. /\ Head(queue) \in Tasks /\ Tail(queue) \in Seq(Tasks)
      /\ ToSet(queue) = {Head(queue)} \union ToSet(Tail(queue))
  BY Types, Queue
<1>2. \A x : Update(x) # Head(queue)
  BY DEF Update
<1> QED BY <1>1, <1>2

\* The item of a navigator gets the new model when the navigator does, and the item's list a new child.
LEMMA NavigatedKeeps ==
    ASSUME IInv, NEW w \in Whole, NEW i \in DOMAIN tabs[w], NEW n, Fits(n),
           queue # <<>>, Head(queue).kind # "update", Navigated(w, i, n), UNCHANGED <<phase, ops, saved>>
    PROVE  IInv'
<1> DEFINE items == kids[w]
           item == kids[w][i]
           new == [id |-> item.id, view |-> item.view, child |-> nextId + 1, shows |-> n.model,
                   bound |-> NotBound]
<1>1. TypeOK /\ IdsInv /\ WindowsInv /\ NavsInv /\ TreeInv /\ queue \in Seq(Tasks) /\ w \in DOMAIN tabs
  BY Types, WholeAreWindows DEF IInv
<1>2. /\ Head(queue) \in Tasks /\ Tail(queue) \in Seq(Tasks)
      /\ \A x : Update(x) \in ToSet(queue) => Update(x) \in ToSet(Tail(queue))
  BY <1>1, Taking
<1>3. /\ Len(items) \in Nat /\ DOMAIN items = 1 .. Len(items) /\ WindowOK(w) /\ nextId \in Nat
      /\ DOMAIN items = DOMAIN tabs[w]
      /\ \A j \in DOMAIN tabs[w] : tabs[w][j] \in DOMAIN nav
      /\ \A j \in DOMAIN items : items[j] \in Items
      /\ \A j \in DOMAIN items : items[j].id \in 1 .. nextId /\ items[j].id \in ToSet(ItemIds(items))
                                 /\ items[j].view \in DOMAIN nav
  BY <1>1, ItemTypes, Types DEF WindowsInv, ItemsAre
<1>4. /\ nav' = [nav EXCEPT ![tabs[w][i]] = n] /\ current' = [current EXCEPT ![w] = i]
      /\ nextId' = nextId + 1 /\ queue' = WithUpdate(Tail(queue), w) /\ Scheduled(queue')
      /\ UNCHANGED <<windows, tabs, torn>>
  BY DEF Navigated
<1>5. kids' = [kids EXCEPT ![w] = [items EXCEPT ![i] = new]]
  BY DEF Navigated
<1>6. Grows
  BY <1>3, <1>4 DEF Grows
<1>7. /\ kids'[w] = [items EXCEPT ![i] = new] /\ DOMAIN kids'[w] = DOMAIN items
      /\ kids'[w][i] = new /\ \A j \in DOMAIN items \ {i} : kids'[w][j] = items[j]
      /\ current'[w] = i
  BY <1>1, <1>3, <1>4, <1>5, Types
<1>8. new \in Items'
  <2>1. n.model \in Shown'
    BY DEF Fits, Shown
  <2>2. item.id \in 1 .. nextId' /\ item.view \in DOMAIN nav' /\ nextId + 1 \in 0 .. nextId'
    BY <1>3, <1>4
  <2> QED BY <2>1, <2>2 DEF Items
<1> HIDE DEF new
<1>9. kids'[w] \in Seq(Items')
  <2>1. PICK S, f : S = Items' /\ f = kids'[w]
    OBVIOUS
  <2>2. \A j \in DOMAIN items : items[j] \in Items'
    BY <1>1, <1>3, <1>6, Growing
  <2>3. f \in [1 .. Len(items) -> S]
    BY <1>3, <1>7, <1>8, <2>1, <2>2
  <2>4. f \in Seq(S)
    BY <1>3, <2>3, IsSeq
  <2> QED BY <2>1, <2>4
<1>10. new.id = item.id /\ new.view = item.view /\ new.child = nextId + 1 /\ new.shows = n.model
  BY DEF new
<1>11. ItemIds(kids'[w]) = ItemIds(items)
  BY <1>7, <1>10 DEF ItemIds
<1>12. /\ queue' \in Seq(Tasks') /\ timer' \in Nat \union {Off}
       /\ ToSet(queue') = ToSet(Tail(queue)) \union {Update(w)}
  <2>1. PICK q \in Seq(Tasks) : q = Tail(queue)
    BY <1>2
  <2> QED BY <1>1, <1>4, <1>6, <2>1, ToldOfChange
<1>13. OnlyOf(w)
  BY <1>1, <1>4, <1>5, Types DEF OnlyOf
<1>14. OthersOf(w)
  <2>1. ASSUME NEW x \in DOMAIN tabs \ {w}, NEW j \in DOMAIN tabs[x] PROVE nav'[tabs[x][j]] = nav[tabs[x][j]]
    <3>1. tabs[x][j] # tabs[w][i]
      BY <1>1 DEF IdsInv, ToSet
    <3>2. tabs[x][j] \in DOMAIN nav
      BY <1>1, ItemTypes
    <3> QED BY <1>4, <3>1, <3>2
  <2> QED BY <1>2, <1>12, <2>1 DEF OthersOf
<1>15. WellNext(w)
  <2>1. current'[w] \in 0 .. Len(tabs'[w]) /\ current'[w] # 0
    <3>1. DOMAIN tabs[w] = 1 .. Len(tabs[w]) /\ Len(tabs[w]) \in Nat
      BY <1>1, ItemTypes
    <3> QED BY <1>4, <1>7, <3>1
  <2>2. tabs'[w] \in Seq(DOMAIN nav') /\ IsInjective(tabs'[w]) /\ IsInjective(ItemIds(items))
    BY <1>1, <1>3, <1>4, <1>6, Growing DEF WindowOK, IdsInv
  <2> QED BY <1>4, <1>9, <1>11, <2>1, <2>2 DEF WellNext
<1>16. RestNext /\ Whole' = Whole
  <2>1. DOMAIN nav' \subseteq 1 .. nextId'
    BY <1>1, <1>4, <1>6, Types, Growing
  <2> QED BY <1>1, <1>4, <1>12, <2>1, Types DEF RestNext, Whole
<1>17. NavsInv'
  <2>1. PICK v \in DOMAIN nav : v = tabs[w][i]
    BY <1>3
  <2> QED BY <1>4, <2>1, Fitting
<1>18. GoodNext(w)
  <2>1. ItemsAre(items, tabs[w], nav)
    BY <1>1 DEF WindowsInv
  <2>2. ASSUME NEW j \in DOMAIN items
        PROVE  /\ kids'[w][j].view = tabs[w][j]
               /\ kids'[w][j].child # 0 => kids'[w][j].shows = nav'[tabs[w][j]].model
    <3>1. CASE j = i
      <4>1. nav'[tabs[w][i]] = n
        BY <1>3, <1>4
      <4> QED BY <1>7, <1>10, <2>1, <3>1, <4>1 DEF ItemsAre
    <3>2. CASE j # i
      <4>1. tabs[w][j] # tabs[w][i] /\ tabs[w][j] \in DOMAIN nav
        BY <1>3, <3>2 DEF WindowOK, IsInjective
      <4>2. nav'[tabs[w][j]] = nav[tabs[w][j]] /\ kids'[w][j] = items[j]
        BY <1>4, <1>7, <3>2, <4>1
      <4> QED BY <2>1, <4>2 DEF ItemsAre
    <3> QED BY <3>1, <3>2
  <2> QED BY <1>3, <1>4, <1>7, <1>12, <2>2 DEF GoodNext, ItemsAre
<1>19. TreeNext(w)
  <2>1. /\ DOMAIN tree = {"state", "lists", "misread"} /\ DOMAIN NoTree = {"state", "lists", "misread"}
        /\ tree.state \in {"none", "open"} /\ tree.misread \in BOOLEAN
        /\ DOMAIN tree.lists \subseteq 0 .. nextId
    BY <1>1, Types DEF TreeInv, NoTree
  <2>2. tree' = IF Told /\ item.id \in DOMAIN tree.lists
                THEN [tree EXCEPT !.lists[item.id] = <<nextId + 1>>]
                ELSE tree
    BY DEF Navigated, Told
  <2>3. /\ DOMAIN tree' = DOMAIN NoTree
        /\ tree'.state = tree.state /\ tree'.misread = tree.misread
        /\ DOMAIN tree'.lists = DOMAIN tree.lists
        /\ \A k \in DOMAIN tree.lists : k # item.id => tree'.lists[k] = tree.lists[k]
        /\ Told /\ item.id \in DOMAIN tree.lists => tree'.lists[item.id] = <<nextId + 1>>
    <3>1. CASE Told /\ item.id \in DOMAIN tree.lists
      <4>1. tree' = [tree EXCEPT !.lists[item.id] = <<nextId + 1>>]
        BY <2>2, <3>1
      <4> QED BY <2>1, <4>1, <3>1
    <3>2. CASE ~(Told /\ item.id \in DOMAIN tree.lists)
      <4>1. tree' = tree
        BY <2>2, <3>2
      <4> QED BY <2>1, <4>1, <3>2
    <3> QED BY <3>1, <3>2
  <2>4. DOMAIN tree'.lists \subseteq 0 .. nextId'
    BY <1>1, <1>6, <2>1, <2>3, Growing
  <2>5. Told' <=> Told
    BY <2>3 DEF Told
  <2>6. Elsewhere(w)
    <3>1. item.id \in ToSet(ItemIds(kids[w]))
      BY <1>3
    <3> QED BY <2>3, <3>1 DEF Elsewhere
  <2>7. ASSUME Told PROVE ReadAre(w, kids'[w], tree'.lists)
    <3>1. ReadAre(w, items, tree.lists)
      BY <1>1, <2>7 DEF TreeInv
    <3>2. w # item.id
      BY <1>1, <1>3 DEF IdsInv
    <3>3. w \in DOMAIN tree'.lists => tree'.lists[w] = ItemIds(kids'[w])
      BY <1>11, <2>3, <3>1, <3>2 DEF ReadAre
    <3>4. ASSUME NEW j \in DOMAIN kids'[w], kids'[w][j].id \in DOMAIN tree'.lists
          PROVE  kids'[w][j].child # 0 /\ tree'.lists[kids'[w][j].id] = <<kids'[w][j].child>>
      <4>1. CASE j = i
        BY <1>3, <1>7, <1>10, <2>3, <2>7, <3>4, <4>1
      <4>2. CASE j # i
        <5>1. items[j].id # item.id
          <6>1. IsInjective(ItemIds(items))
            BY <1>1 DEF IdsInv
          <6>2. DOMAIN ItemIds(items) = DOMAIN items /\ ItemIds(items)[j] = items[j].id
                /\ ItemIds(items)[i] = items[i].id
            BY <1>3, <1>7 DEF ItemIds
          <6> QED BY <1>3, <1>7, <4>2, <6>1, <6>2 DEF IsInjective
        <5>2. kids'[w][j] = items[j]
          BY <1>7, <4>2
        <5> QED BY <1>7, <2>3, <3>1, <3>4, <5>1, <5>2 DEF ReadAre
      <4> QED BY <4>1, <4>2
    <3> QED BY <3>3, <3>4 DEF ReadAre
  <2> QED BY <2>1, <2>3, <2>4, <2>5, <2>6, <2>7 DEF TreeNext
<1> QED BY <1>1, <1>6, <1>13, <1>14, <1>15, <1>16, <1>17, <1>18, <1>19, WindowStep

\* The records that open, back and forward give.
LEMMA Moving ==
    ASSUME NavsInv, NEW v \in DOMAIN nav
    PROVE  /\ \A model \in Models \union {ErrorModel} : Fits(Opened(nav[v], model))
           /\ nav[v].prev # None => Fits(WentBack(nav[v]))
           /\ nav[v].next # None => Fits(WentForward(nav[v]))
<1>1. PICK S : Linked(S) /\ \A x \in DOMAIN nav : nav[x] \in S
  BY DEF NavsInv
<1>2. PICK n \in S : n = nav[v]
  BY <1>1
<1>3. ASSUME NEW model \in Models \union {ErrorModel} PROVE Fits(Opened(n, model))
  <2>1. /\ Opened(n, model).model = model /\ Opened(n, model).prev = n
        /\ Opened(n, model).next = None
    BY DEF Opened
  <2>2. model \in Shown
    BY DEF Shown
  <2> QED BY <1>1, <2>1, <2>2 DEF Fits
<1>4. ASSUME n.prev # None PROVE Fits(WentBack(n))
  <2>1. WentBack(n).model = n.prev.model /\ WentBack(n).prev = n.prev.prev /\ WentBack(n).next = n
    BY DEF WentBack
  <2>2. n.prev \in S
    BY <1>1, <1>4 DEF Linked
  <2>3. n.prev.model \in Shown /\ (n.prev.prev = None \/ n.prev.prev \in S)
    BY <1>1, <2>2 DEF Linked
  <2> QED BY <1>1, <2>1, <2>3 DEF Fits
<1>5. ASSUME n.next # None PROVE Fits(WentForward(n))
  <2>1. WentForward(n).model = n.next.model /\ WentForward(n).prev = n /\ WentForward(n).next = n.next.next
    BY DEF WentForward
  <2>2. n.next \in S
    BY <1>1, <1>5 DEF Linked
  <2>3. n.next.model \in Shown /\ (n.next.next = None \/ n.next.next \in S)
    BY <1>1, <2>2 DEF Linked
  <2> QED BY <1>1, <2>1, <2>3 DEF Fits
<1> QED BY <1>2, <1>3, <1>4, <1>5

\* go_back and go_forward find a record in the closed set of NavsInv; open makes one.
LEMMA RunNavigatorKeeps ==
    ASSUME IInv, RunNavigator
    PROVE  IInv'
<1> DEFINE task == Head(queue)
           w == task.win
           n == nav[task.view]
<1>1. TypeOK /\ NavsInv /\ queue # <<>> /\ task.kind \in {"open", "back", "forward"}
      /\ UNCHANGED <<phase, ops, saved>>
  BY DEF IInv, RunNavigator, IsNext
<1>2. task \in Tasks /\ task.kind # "update"
  BY <1>1, Taking
<1>3. task.view \in DOMAIN nav
  BY <1>1, <1>2, TaskTypes
<1>4. CASE Skip
  <2>1. \A x \in Whole : task # Update(x)
    BY <1>2 DEF Update
  <2> QED BY <1>1, <1>4, <2>1, SkipKeeps
<1>5. ASSUME Works(w), NEW i \in Places(w), NEW m, Fits(m), Navigated(w, i, m)
      PROVE  IInv'
  <2>1. PICK x \in Whole : x = w
    BY <1>5, WorkingIsWhole
  <2>2. PICK j \in DOMAIN tabs[x] : j = i
    BY <2>1 DEF Places
  <2>3. Navigated(x, j, m)
    BY <1>5, <2>1, <2>2
  <2> QED BY <1>1, <1>2, <1>5, <2>3, NavigatedKeeps
<1>6. ASSUME Works(w), NEW i \in Places(w), task.kind = "open",
             NEW model \in Models \union {ErrorModel}, Navigated(w, i, Opened(n, model))
      PROVE  IInv'
  <2>1. PICK m : m = Opened(n, model)
    OBVIOUS
  <2>2. Fits(m) /\ Navigated(w, i, m)
    BY <1>1, <1>3, <1>6, <2>1, Moving
  <2> QED BY <1>5, <1>6, <2>2
<1>7. ASSUME Works(w), NEW i \in Places(w), n.prev # None, Navigated(w, i, WentBack(n))
      PROVE  IInv'
  <2>1. PICK m : m = WentBack(n)
    OBVIOUS
  <2>2. Fits(m) /\ Navigated(w, i, m)
    BY <1>1, <1>3, <1>7, <2>1, Moving
  <2> QED BY <1>5, <1>7, <2>2
<1>8. ASSUME Works(w), NEW i \in Places(w), n.next # None, Navigated(w, i, WentForward(n))
      PROVE  IInv'
  <2>1. PICK m : m = WentForward(n)
    OBVIOUS
  <2>2. Fits(m) /\ Navigated(w, i, m)
    BY <1>1, <1>3, <1>8, <2>1, Moving
  <2> QED BY <1>5, <1>8, <2>2
<1>9. \/ Skip
      \/ Works(w) /\ \E i \in Places(w) :
            \/ task.kind = "open" /\ \E model \in Models \union {ErrorModel} : Navigated(w, i, Opened(n, model))
            \/ n.prev # None /\ Navigated(w, i, WentBack(n))
            \/ n.next # None /\ Navigated(w, i, WentForward(n))
  BY DEF RunNavigator
<1> QED BY <1>4, <1>6, <1>7, <1>8, <1>9

\* A list with one more, or one less: what InsertAt and RemoveAt make of a sequence that is
\* typed, injective and in its place.
LEMMA Inserted1 ==
    ASSUME NEW S, NEW list \in Seq(S), NEW T, S \subseteq T, NEW e \in T, NEW i \in 1 .. Len(list) + 1
    PROVE  /\ InsertAt(list, i, e) \in Seq(T)
           /\ DOMAIN InsertAt(list, i, e) = 1 .. Len(list) + 1 /\ Len(InsertAt(list, i, e)) = Len(list) + 1
           /\ \A j \in 1 .. Len(list) + 1 :
                InsertAt(list, i, e)[j] = IF j < i THEN list[j] ELSE IF j = i THEN e ELSE list[j - 1]
           /\ ToSet(InsertAt(list, i, e)) = ToSet(list) \union {e}
           /\ IsInjective(list) /\ e \notin ToSet(list) => IsInjective(InsertAt(list, i, e))
<1>1. list \in Seq(T)
  BY SeqMonotonic
<1>2. /\ InsertAt(list, i, e) \in Seq(T)
      /\ Len(InsertAt(list, i, e)) = Len(list) + 1
      /\ DOMAIN InsertAt(list, i, e) = 1 .. Len(list) + 1
      /\ \A j \in 1 .. Len(list) + 1 :
           InsertAt(list, i, e)[j] = IF j < i THEN list[j] ELSE IF j = i THEN e ELSE list[j - 1]
  <2>1. PICK l \in Seq(T), k \in 1 .. Len(list) + 1 : l = list /\ k = i
    BY <1>1
  <2>2. PICK m \in 1 .. Len(l) + 1 : m = k
    BY <2>1
  <2>3. /\ InsertAt(l, m, e) \in Seq(T)
        /\ Len(InsertAt(l, m, e)) = Len(l) + 1
        /\ DOMAIN InsertAt(l, m, e) = 1 .. Len(l) + 1
        /\ \A j \in 1 .. Len(l) + 1 :
             InsertAt(l, m, e)[j] = IF j < m THEN l[j] ELSE IF j = m THEN e ELSE l[j - 1]
    BY Inserting
  <2> QED BY <2>1, <2>2, <2>3
<1>3. ToSet(InsertAt(list, i, e)) = ToSet(list) \union {e}
  BY <1>1, Elements
<1>4. ASSUME IsInjective(list), e \notin ToSet(list) PROVE IsInjective(InsertAt(list, i, e))
  BY <1>1, <1>4, InjectiveStays
<1> QED BY <1>2, <1>3, <1>4

\* A tab and its item are inserted at one place, or the window is torn.
LEMMA InsertedKeeps ==
    ASSUME IInv, NEW w \in Whole, NEW i \in Nat \ {0}, NEW n, Fits(n),
           queue # <<>>, Head(queue).kind # "update", Inserted(w, i, n), UNCHANGED <<phase, ops, saved>>
    PROVE  IInv'
<1> DEFINE items == kids[w]
           view == nextId + 1
           place == IF i > Len(tabs[w]) + 1 THEN Len(tabs[w]) + 1 ELSE i
<1>1. TypeOK /\ IdsInv /\ WindowsInv /\ NavsInv /\ TreeInv /\ queue \in Seq(Tasks) /\ w \in DOMAIN tabs
      /\ torn \subseteq DOMAIN tabs /\ nextId \in Nat
  BY Types, WholeAreWindows DEF IInv
<1>2. /\ Head(queue) \in Tasks /\ Tail(queue) \in Seq(Tasks)
      /\ \A x : Update(x) \in ToSet(queue) => Update(x) \in ToSet(Tail(queue))
  BY <1>1, Taking
<1>3. /\ Len(items) \in Nat /\ DOMAIN items = 1 .. Len(items) /\ WindowOK(w)
      /\ Len(tabs[w]) \in Nat /\ DOMAIN tabs[w] = 1 .. Len(tabs[w])
      /\ DOMAIN items = DOMAIN tabs[w]
      /\ \A j \in DOMAIN tabs[w] : tabs[w][j] \in DOMAIN nav
      /\ \A j \in DOMAIN items : items[j] \in Items
      /\ \A j \in DOMAIN items : items[j].id \in 1 .. nextId /\ items[j].id \in ToSet(ItemIds(items))
  BY <1>1, ItemTypes, Types DEF WindowsInv, ItemsAre
<1>4. Len(items) = Len(tabs[w])
  <2>1. \A p, q \in Nat : 1 .. p = 1 .. q => p = q
    <3>1. SUFFICES ASSUME NEW p \in Nat, NEW q \in Nat, 1 .. p = 1 .. q PROVE p = q
      OBVIOUS
    <3>2. (p # 0 => p \in 1 .. p) /\ (q # 0 => q \in 1 .. q)
      OBVIOUS
    <3> QED BY <3>1, <3>2
  <2> QED BY <1>3, <2>1
<1>5. /\ tabs' = [tabs EXCEPT ![w] = InsertAt(@, place, view)] /\ current' = [current EXCEPT ![w] = place]
      /\ nav' = Extended(nav, view, n) /\ nextId' = nextId + 2 /\ windows' = windows
  BY DEF Inserted
<1>6. place \in 1 .. Len(tabs[w]) + 1
  BY <1>3
<1>7. DOMAIN nav \subseteq 1 .. nextId /\ view \notin DOMAIN nav /\ view \in Nat
  BY <1>1, Types
<1>8. /\ DOMAIN nav' = DOMAIN nav \union {view} /\ nav'[view] = n
      /\ \A v \in DOMAIN nav : nav'[v] = nav[v]
  BY <1>5, <1>7 DEF Extended
<1>9. Grows
  BY <1>1, <1>5, <1>8 DEF Grows
<1>10. PICK p \in 1 .. Len(tabs[w]) + 1, v \in DOMAIN nav' : p = place /\ v = view
  BY <1>6, <1>8
<1>11. v \in Given /\ nextId + 2 \in Given /\ v = nextId + 1 /\ nextId' = nextId + 2
  BY <1>1, <1>5, <1>10 DEF Given
<1> HIDE DEF view, place
<1>12. tabs'[w] = InsertAt(tabs[w], p, v) /\ current'[w] = p
  BY <1>1, <1>5, <1>10, Types
<1>13. /\ tabs'[w] \in Seq(DOMAIN nav')
       /\ DOMAIN tabs'[w] = 1 .. Len(tabs[w]) + 1 /\ Len(tabs'[w]) = Len(tabs[w]) + 1
       /\ \A j \in 1 .. Len(tabs[w]) + 1 :
            tabs'[w][j] = IF j < p THEN tabs[w][j] ELSE IF j = p THEN v ELSE tabs[w][j - 1]
       /\ ToSet(tabs'[w]) = ToSet(tabs[w]) \union {v}
       /\ IsInjective(tabs'[w])
  <2>0. PICK S, T : S = DOMAIN nav /\ T = DOMAIN nav'
    OBVIOUS
  <2>1. PICK list \in Seq(S) : list = tabs[w]
    BY <1>3, <2>0 DEF WindowOK
  <2>2. S \subseteq T /\ v \in T /\ p \in 1 .. Len(list) + 1
    BY <1>8, <2>0, <2>1
  <2>3. /\ InsertAt(list, p, v) \in Seq(T)
        /\ DOMAIN InsertAt(list, p, v) = 1 .. Len(list) + 1 /\ Len(InsertAt(list, p, v)) = Len(list) + 1
        /\ \A j \in 1 .. Len(list) + 1 :
             InsertAt(list, p, v)[j] = IF j < p THEN list[j] ELSE IF j = p THEN v ELSE list[j - 1]
        /\ ToSet(InsertAt(list, p, v)) = ToSet(list) \union {v}
        /\ IsInjective(list) /\ v \notin ToSet(list) => IsInjective(InsertAt(list, p, v))
    BY <2>2, Inserted1
  <2>4. IsInjective(list) /\ v \notin ToSet(list)
    BY <1>3, <1>7, <1>10, <2>1 DEF WindowOK, ToSet
  <2> QED BY <1>12, <2>0, <2>1, <2>3, <2>4
<1>14. current'[w] \in 0 .. Len(tabs'[w]) /\ current'[w] # 0
  BY <1>3, <1>12, <1>13
<1>15. ASSUME NEW x \in DOMAIN tabs, NEW j \in DOMAIN tabs[x] PROVE nav'[tabs[x][j]] = nav[tabs[x][j]]
  BY <1>1, <1>8, ItemTypes
<1>16. DOMAIN nav' \subseteq 1 .. nextId'
  BY <1>1, <1>7, <1>8, <1>10, <1>11
<1>17. NavsInv'
  BY <1>8, Fitting
<1>18. CASE i # place
  <2>1. /\ torn' = torn \union {w} /\ queue' = Tail(queue) /\ Elapsed /\ UNCHANGED <<kids, tree>>
    BY <1>18 DEF Inserted, place
  <2>2. OnlyOf(w) /\ OthersOf(w)
    BY <1>1, <1>2, <1>5, <1>15, <2>1, Types DEF OnlyOf, OthersOf
  <2>3. w \notin Whole'
    BY <2>1 DEF Whole
  <2>4. WellNext(w)
    <3>1. kids'[w] \in Seq(Items') /\ IsInjective(ItemIds(kids'[w]))
      BY <1>1, <1>3, <1>9, <2>1, Growing DEF WindowOK, IdsInv
    <3> QED BY <1>11, <1>13, <1>14, <2>1, <3>1 DEF WellNext
  <2>5. RestNext
    <3>1. timer' \in Nat \union {Off}
      BY <1>1, <1>2, <2>1, Timing
    <3> QED BY <1>1, <1>2, <1>5, <1>9, <1>16, <2>1, <3>1, Types, Growing DEF RestNext
  <2>6. TreeNext(w)
    BY <1>9, <2>1, <2>3, TreeIsLeft DEF TreeNext
  <2> QED BY <1>1, <1>9, <1>17, <2>2, <2>3, <2>4, <2>5, <2>6, WindowStep
<1>19. CASE i = place
  <2> DEFINE item == NewItem(nextId + 2, nextId + 1)
  <2>1. /\ kids' = [kids EXCEPT ![w] = WithKid(@, i, item)]
        /\ queue' = WithUpdate(Tail(queue), w) /\ Scheduled(queue')
        /\ tree' = Applies(tree, w, InsertAt(tree.lists[w], i, item.id)) /\ torn' = torn
    BY <1>19 DEF Inserted, place
  <2>2. item \in Items' /\ item.id = nextId + 2 /\ item.view = v /\ item.child = 0
    <3>1. nextId + 2 \in 1 .. nextId' /\ nextId + 1 \in DOMAIN nav' /\ 0 \in 0 .. nextId'
          /\ "None" \in Shown'
      BY <1>1, <1>8, <1>10, <1>11 DEF Shown
    <3> QED BY <1>11, <3>1 DEF Items, NewItem
  <2> HIDE DEF item
  <2>3. PICK e \in Items' : e = item
    BY <2>2
  <2>4. kids'[w] = InsertAt(items, p, e)
    BY <1>1, <1>10, <1>19, <2>1, <2>3, Types DEF WithKid
  <2>5. p \in 1 .. Len(items) + 1
    BY <1>4, <1>10
  <2>6. /\ kids'[w] \in Seq(Items')
        /\ DOMAIN kids'[w] = 1 .. Len(items) + 1
        /\ \A j \in 1 .. Len(items) + 1 :
             kids'[w][j] = IF j < p THEN items[j] ELSE IF j = p THEN e ELSE items[j - 1]
    <3>0. PICK S, T : S = Items /\ T = Items'
      OBVIOUS
    <3>1. PICK list \in Seq(S) : list = items
      BY <1>3, <3>0 DEF WindowOK
    <3>2. S \subseteq T /\ e \in T /\ p \in 1 .. Len(list) + 1
      BY <1>1, <1>9, <2>5, <3>0, <3>1, Growing
    <3>3. /\ InsertAt(list, p, e) \in Seq(T)
          /\ DOMAIN InsertAt(list, p, e) = 1 .. Len(list) + 1 /\ Len(InsertAt(list, p, e)) = Len(list) + 1
          /\ \A j \in 1 .. Len(list) + 1 :
               InsertAt(list, p, e)[j] = IF j < p THEN list[j] ELSE IF j = p THEN e ELSE list[j - 1]
      BY <3>2, Inserted1
    <3> QED BY <2>4, <3>0, <3>1, <3>3
  <2>7. /\ ItemIds(kids'[w]) = InsertAt(ItemIds(items), p, e.id)
        /\ ToSet(ItemIds(kids'[w])) = ToSet(ItemIds(items)) \union {e.id}
        /\ IsInjective(ItemIds(kids'[w]))
    <3>0. PICK T, N : T = Items' /\ N = Nat
      OBVIOUS
    <3>1. PICK list \in Seq(T), f \in T : list = items /\ f = e
      <4>1. items \in Seq(Items')
        BY <1>1, <1>3, <1>9, Growing DEF WindowOK
      <4> QED BY <3>0, <4>1
    <3>2. \A g \in T : g.id \in Nat
      BY <1>1, <1>11, <3>0, <3>1 DEF Items
    <3>3. PICK q \in 1 .. Len(list) + 1 : q = p
      BY <2>5, <3>1
    <3>4. ItemIds(InsertAt(list, q, f)) = InsertAt(ItemIds(list), q, f.id)
          /\ ItemIds(list) \in Seq(Nat) /\ Len(ItemIds(list)) = Len(list)
      BY <3>2, Numbered
    <3>5. PICK ids \in Seq(N), c \in N : ids = ItemIds(list) /\ c = f.id
      BY <3>0, <3>2, <3>4
    <3>6. PICK r \in 1 .. Len(ids) + 1 : r = q
      BY <3>4, <3>5
    <3>7. /\ ToSet(InsertAt(ids, r, c)) = ToSet(ids) \union {c}
          /\ IsInjective(ids) /\ c \notin ToSet(ids) => IsInjective(InsertAt(ids, r, c))
      <4>1. N \subseteq N
        OBVIOUS
      <4> QED BY <4>1, Inserted1
    <3>8. IsInjective(ids)
      BY <1>1, <3>1, <3>5 DEF IdsInv
    <3>9. c \notin ToSet(ids)
      <4>1. \A k \in ToSet(ItemIds(items)) : k \in 1 .. nextId
        <5>1. \A k \in ToSet(ItemIds(items)) : \E j \in DOMAIN items : k = items[j].id
          BY IdsSet
        <5> QED BY <1>3, <5>1
      <4>2. c = nextId + 2
        BY <2>2, <2>3, <3>1, <3>5
      <4> QED BY <1>1, <3>1, <3>5, <4>1, <4>2
    <3> QED BY <2>4, <3>1, <3>3, <3>4, <3>5, <3>6, <3>7, <3>8, <3>9
  <2>8. /\ queue' \in Seq(Tasks') /\ timer' \in Nat \union {Off}
        /\ ToSet(queue') = ToSet(Tail(queue)) \union {Update(w)}
    <3>1. PICK q \in Seq(Tasks) : q = Tail(queue)
      BY <1>2
    <3> QED BY <1>1, <1>9, <2>1, <3>1, ToldOfChange
  <2>9. OnlyOf(w) /\ OthersOf(w)
    BY <1>1, <1>2, <1>5, <1>15, <2>1, <2>8, Types DEF OnlyOf, OthersOf
  <2>10. WellNext(w)
    BY <1>11, <1>13, <1>14, <2>2, <2>3, <2>6, <2>7 DEF WellNext
  <2>11. RestNext /\ Whole' = Whole
    BY <1>1, <1>5, <1>16, <2>1, <2>8, Types DEF RestNext, Whole
  <2>12. GoodNext(w)
    <3>1. ItemsAre(items, tabs[w], nav)
      BY <1>1 DEF WindowsInv
    <3>2. ASSUME NEW j \in DOMAIN kids'[w]
          PROVE  /\ kids'[w][j].view = tabs'[w][j]
                 /\ kids'[w][j].child # 0 => kids'[w][j].shows = nav'[tabs'[w][j]].model
      <4>1. j \in 1 .. Len(items) + 1 /\ j \in 1 .. Len(tabs[w]) + 1 /\ p \in Nat /\ j \in Nat
        BY <1>3, <1>4, <2>5, <2>6
      <4>2. CASE j = p
        <5>1. kids'[w][j] = e /\ tabs'[w][j] = v
          BY <1>13, <2>6, <4>1, <4>2
        <5> QED BY <2>2, <2>3, <5>1
      <4>3. ASSUME NEW k \in DOMAIN items, kids'[w][j] = items[k], tabs'[w][j] = tabs[w][k]
            PROVE  /\ kids'[w][j].view = tabs'[w][j]
                   /\ kids'[w][j].child # 0 => kids'[w][j].shows = nav'[tabs'[w][j]].model
        <5>1. nav'[tabs[w][k]] = nav[tabs[w][k]]
          BY <1>1, <1>3, <1>15
        <5> QED BY <3>1, <4>3, <5>1 DEF ItemsAre
      <4>4. CASE j < p
        <5>1. j \in DOMAIN items /\ kids'[w][j] = items[j] /\ tabs'[w][j] = tabs[w][j]
          BY <1>3, <1>13, <2>5, <2>6, <4>1, <4>4
        <5> QED BY <4>3, <5>1
      <4>5. CASE ~(j < p) /\ j # p
        <5>1. PICK k \in DOMAIN items : k = j - 1
          BY <1>3, <2>5, <4>1, <4>5
        <5>2. kids'[w][j] = items[k] /\ tabs'[w][j] = tabs[w][k]
          BY <1>13, <2>6, <4>1, <4>5, <5>1
        <5> QED BY <4>3, <5>2
      <4> QED BY <4>2, <4>4, <4>5
    <3>3. DOMAIN kids'[w] = DOMAIN tabs'[w]
      BY <1>4, <1>13, <2>6
    <3> QED BY <2>8, <3>2, <3>3 DEF GoodNext, ItemsAre
  <2>13. TreeNext(w)
    <3>1. PICK list : list = InsertAt(tree.lists[w], i, item.id)
      OBVIOUS
    <3>2. /\ DOMAIN tree' = DOMAIN NoTree
          /\ tree'.state \in {"none", "open"} /\ tree'.misread \in BOOLEAN
          /\ DOMAIN tree'.lists = DOMAIN tree.lists
          /\ Told' => /\ Told /\ w \in DOMAIN tree.lists /\ tree'.lists[w] = list
                      /\ \A k \in DOMAIN tree.lists \ {w} : tree'.lists[k] = tree.lists[k]
      BY <1>1, <2>1, <3>1, Applying
    <3>3. DOMAIN tree.lists \subseteq 0 .. nextId /\ DOMAIN tree'.lists \subseteq 0 .. nextId'
      BY <1>1, <1>9, <3>2, Types, Growing
    <3>4. ASSUME Told' PROVE Elsewhere(w) /\ ReadAre(w, kids'[w], tree'.lists)
      <4>1. ReadAre(w, items, tree.lists)
        BY <1>1, <3>2, <3>4 DEF TreeInv
      <4>2. tree'.lists[w] = ItemIds(kids'[w])
        BY <1>10, <1>19, <2>3, <2>7, <3>1, <3>2, <3>4, <4>1 DEF ReadAre
      <4>3. ASSUME NEW j \in DOMAIN kids'[w], kids'[w][j].id \in DOMAIN tree'.lists
            PROVE  kids'[w][j].child # 0 /\ tree'.lists[kids'[w][j].id] = <<kids'[w][j].child>>
        <5>1. j \in 1 .. Len(items) + 1 /\ p \in Nat /\ j \in Nat
          BY <1>3, <2>5, <2>6
        <5>2. CASE j = p
          <6>1. kids'[w][j].id = nextId + 2
            BY <2>2, <2>3, <2>6, <5>1, <5>2
          <6> QED BY <1>1, <3>2, <3>3, <4>3, <6>1
        <5>3. ASSUME NEW k \in DOMAIN items, kids'[w][j] = items[k]
              PROVE  kids'[w][j].child # 0 /\ tree'.lists[kids'[w][j].id] = <<kids'[w][j].child>>
          <6>1. items[k].id # w
            BY <1>1, <1>3 DEF IdsInv
          <6> QED BY <3>2, <3>4, <4>1, <4>3, <5>3, <6>1 DEF ReadAre
        <5>4. CASE j < p
          <6>1. j \in DOMAIN items /\ kids'[w][j] = items[j]
            BY <1>3, <2>5, <2>6, <5>1, <5>4
          <6> QED BY <5>3, <6>1
        <5>5. CASE ~(j < p) /\ j # p
          <6>1. PICK k \in DOMAIN items : k = j - 1
            BY <1>3, <2>5, <5>1, <5>5
          <6>2. kids'[w][j] = items[k]
            BY <2>6, <5>1, <5>5, <6>1
          <6> QED BY <5>3, <6>2
        <5> QED BY <5>2, <5>4, <5>5
      <4> QED BY <3>2, <3>4, <4>2, <4>3 DEF ReadAre, Elsewhere
    <3> QED BY <3>2, <3>3, <3>4 DEF TreeNext
  <2> QED BY <1>1, <1>9, <1>17, <2>9, <2>10, <2>11, <2>12, <2>13, WindowStep
<1> QED BY <1>18, <1>19

\* A tab and its item are removed at one place.
LEMMA RemovedKeeps ==
    ASSUME IInv, NEW w \in Whole, NEW i \in DOMAIN tabs[w],
           queue # <<>>, Head(queue).kind # "update", Removed(w, i), UNCHANGED <<phase, ops, saved>>
    PROVE  IInv'
<1> DEFINE items == kids[w]
<1>1. TypeOK /\ IdsInv /\ WindowsInv /\ NavsInv /\ TreeInv /\ queue \in Seq(Tasks) /\ w \in DOMAIN tabs
      /\ torn \subseteq DOMAIN tabs /\ nextId \in Nat
  BY Types, WholeAreWindows DEF IInv
<1>2. /\ Head(queue) \in Tasks /\ Tail(queue) \in Seq(Tasks)
      /\ \A x : Update(x) \in ToSet(queue) => Update(x) \in ToSet(Tail(queue))
  BY <1>1, Taking
<1>3. /\ Len(items) \in Nat /\ DOMAIN items = 1 .. Len(items) /\ WindowOK(w)
      /\ Len(tabs[w]) \in Nat /\ DOMAIN tabs[w] = 1 .. Len(tabs[w])
      /\ DOMAIN items = DOMAIN tabs[w]
      /\ \A j \in DOMAIN items : items[j] \in Items
      /\ \A j \in DOMAIN items : items[j].id \in 1 .. nextId /\ items[j].id \in ToSet(ItemIds(items))
  BY <1>1, ItemTypes, Types DEF WindowsInv, ItemsAre
<1>4. Len(items) = Len(tabs[w])
  <2>1. \A p, q \in Nat : 1 .. p = 1 .. q => p = q
    <3>1. SUFFICES ASSUME NEW p \in Nat, NEW q \in Nat, 1 .. p = 1 .. q PROVE p = q
      OBVIOUS
    <3>2. (p # 0 => p \in 1 .. p) /\ (q # 0 => q \in 1 .. q)
      OBVIOUS
    <3> QED BY <3>1, <3>2
  <2> QED BY <1>3, <2>1
<1>5. /\ tabs' = [tabs EXCEPT ![w] = RemoveAt(@, i)]
      /\ current' = [current EXCEPT ![w] = CurrentWithout(w, i)]
      /\ kids' = [kids EXCEPT ![w] = RemoveAt(@, i)]
      /\ queue' = WithUpdate(Tail(queue), w) /\ Scheduled(queue')
      /\ tree' = Applies(tree, w, RemoveAt(tree.lists[w], i))
      /\ UNCHANGED <<windows, nav, nextId, torn>>
  BY DEF Removed, TreeWithout
<1>6. Grows
  BY <1>1, <1>5 DEF Grows
<1>7. /\ tabs'[w] = RemoveAt(tabs[w], i) /\ kids'[w] = RemoveAt(items, i)
      /\ current'[w] = IF i < Len(tabs[w]) THEN i ELSE IF current[w] = i THEN i - 1 ELSE current[w]
  BY <1>1, <1>5, Types DEF CurrentWithout
<1>8. /\ tabs'[w] \in Seq(DOMAIN nav)
      /\ DOMAIN tabs'[w] = 1 .. Len(tabs[w]) - 1 /\ Len(tabs'[w]) = Len(tabs[w]) - 1
      /\ \A j \in 1 .. Len(tabs[w]) - 1 : tabs'[w][j] = IF j < i THEN tabs[w][j] ELSE tabs[w][j + 1]
      /\ ToSet(tabs'[w]) \subseteq ToSet(tabs[w])
      /\ IsInjective(tabs'[w])
  <2>0. PICK S : S = DOMAIN nav
    OBVIOUS
  <2>1. PICK list \in Seq(S) : list = tabs[w]
    BY <1>3, <2>0 DEF WindowOK
  <2>2. PICK k \in DOMAIN list : k = i
    BY <2>1
  <2>3. /\ RemoveAt(list, k) \in Seq(S)
        /\ Len(RemoveAt(list, k)) = Len(list) - 1
        /\ DOMAIN RemoveAt(list, k) = 1 .. Len(list) - 1
        /\ \A j \in 1 .. Len(list) - 1 :
             RemoveAt(list, k)[j] = IF j < k THEN list[j] ELSE list[j + 1]
    BY Removing
  <2>4. ToSet(RemoveAt(list, k)) \subseteq ToSet(list)
    BY Elements
  <2>5. IsInjective(list)
    BY <1>3, <2>1 DEF WindowOK
  <2>6. IsInjective(RemoveAt(list, k))
    BY <2>5, InjectiveStays
  <2> QED BY <1>7, <2>0, <2>1, <2>2, <2>3, <2>4, <2>6
<1>9. /\ kids'[w] \in Seq(Items)
      /\ DOMAIN kids'[w] = 1 .. Len(items) - 1
      /\ \A j \in 1 .. Len(items) - 1 : kids'[w][j] = IF j < i THEN items[j] ELSE items[j + 1]
      /\ ItemIds(kids'[w]) = RemoveAt(ItemIds(items), i)
      /\ ToSet(ItemIds(kids'[w])) \subseteq ToSet(ItemIds(items))
      /\ IsInjective(ItemIds(kids'[w]))
  <2>0. PICK S, N : S = Items /\ N = Nat
    OBVIOUS
  <2>1. PICK list \in Seq(S) : list = items
    BY <1>3, <2>0 DEF WindowOK
  <2>2. PICK k \in DOMAIN list : k = i
    BY <1>3, <2>1
  <2>3. /\ RemoveAt(list, k) \in Seq(S)
        /\ Len(RemoveAt(list, k)) = Len(list) - 1
        /\ DOMAIN RemoveAt(list, k) = 1 .. Len(list) - 1
        /\ \A j \in 1 .. Len(list) - 1 :
             RemoveAt(list, k)[j] = IF j < k THEN list[j] ELSE list[j + 1]
    BY Removing
  <2>4. \A e \in S : e.id \in Nat
    BY <1>1, <2>0 DEF Items
  <2>5. /\ ItemIds(list) \in Seq(Nat) /\ Len(ItemIds(list)) = Len(list)
        /\ ItemIds(RemoveAt(list, k)) = RemoveAt(ItemIds(list), k)
    BY <2>4, Numbered
  <2>6. PICK ids \in Seq(N) : ids = ItemIds(list)
    BY <2>0, <2>5
  <2>7. PICK l \in DOMAIN ids : l = k
    BY <2>6 DEF ItemIds
  <2>8. ToSet(RemoveAt(ids, l)) \subseteq ToSet(ids)
    BY Elements
  <2>9. IsInjective(ids)
    BY <1>1, <2>1, <2>6 DEF IdsInv
  <2>10. IsInjective(RemoveAt(ids, l))
    BY <2>9, InjectiveStays
  <2> QED BY <1>7, <2>0, <2>1, <2>2, <2>3, <2>5, <2>6, <2>7, <2>8, <2>10
<1>10. kids'[w] \in Seq(Items') /\ tabs'[w] \in Seq(DOMAIN nav')
  BY <1>1, <1>6, <1>8, <1>9, Growing
<1>11. /\ queue' \in Seq(Tasks') /\ timer' \in Nat \union {Off}
       /\ ToSet(queue') = ToSet(Tail(queue)) \union {Update(w)}
  <2>1. PICK q \in Seq(Tasks) : q = Tail(queue)
    BY <1>2
  <2> QED BY <1>1, <1>5, <1>6, <2>1, ToldOfChange
<1>12. OnlyOf(w) /\ OthersOf(w)
  BY <1>1, <1>2, <1>5, <1>11, Types DEF OnlyOf, OthersOf
<1>13. WellNext(w)
  <2>0. i \in 1 .. Len(tabs[w]) /\ current[w] \in 1 .. Len(tabs[w])
    <3>1. i \in 1 .. Len(tabs[w]) /\ current[w] \in 0 .. Len(tabs[w])
      BY <1>3 DEF WindowOK
    <3>2. current[w] # 0
      <4>1. tabs[w] = <<>> => DOMAIN tabs[w] = {}
        BY EmptySeq
      <4> QED BY <1>1, <4>1 DEF IdsInv
    <3> QED BY <1>3, <3>1, <3>2
  <2>1. current'[w] \in 0 .. Len(tabs'[w])
    BY <1>3, <1>7, <1>8, <2>0
  <2>2. current'[w] = 0 => tabs'[w] = <<>>
    <3>1. SUFFICES ASSUME current'[w] = 0 PROVE Len(tabs'[w]) = 0
      BY <1>8, EmptySeq
    <3>2. i \in 1 .. Len(tabs[w])
      BY <1>3
    <3>3. i = Len(tabs[w]) /\ i - 1 = 0
      BY <1>3, <1>7, <2>0, <3>1, <3>2
    <3> QED BY <1>3, <1>8, <3>3
  <2> QED BY <1>8, <1>9, <1>10, <2>1, <2>2 DEF WellNext
<1>14. RestNext /\ Whole' = Whole
  BY <1>1, <1>5, <1>11, Types DEF RestNext, Whole
<1>15. NavsInv'
  BY <1>1, <1>5 DEF NavsInv, Linked, Shown
<1>16. ASSUME NEW j \in DOMAIN kids'[w]
       PROVE  \E k \in DOMAIN items : kids'[w][j] = items[k] /\ tabs'[w][j] = tabs[w][k]
  <2>1. j \in 1 .. Len(items) - 1 /\ j \in 1 .. Len(tabs[w]) - 1 /\ j \in Nat /\ i \in Nat
    BY <1>3, <1>4, <1>9
  <2>2. CASE j < i
    <3>1. j \in DOMAIN items
      BY <1>3, <2>1
    <3> QED BY <1>8, <1>9, <2>1, <2>2, <3>1
  <2>3. CASE ~(j < i)
    <3>1. PICK k \in DOMAIN items : k = j + 1
      BY <1>3, <2>1
    <3> QED BY <1>8, <1>9, <2>1, <2>3, <3>1
  <2> QED BY <2>2, <2>3
<1>17. GoodNext(w)
  <2>1. ItemsAre(items, tabs[w], nav)
    BY <1>1 DEF WindowsInv
  <2>2. ASSUME NEW j \in DOMAIN kids'[w]
        PROVE  /\ kids'[w][j].view = tabs'[w][j]
               /\ kids'[w][j].child # 0 => kids'[w][j].shows = nav'[tabs'[w][j]].model
    BY <1>5, <1>16, <2>1 DEF ItemsAre
  <2>3. DOMAIN kids'[w] = DOMAIN tabs'[w]
    BY <1>4, <1>8, <1>9
  <2> QED BY <1>11, <2>2, <2>3 DEF GoodNext, ItemsAre
<1>18. TreeNext(w)
  <2>1. PICK list : list = RemoveAt(tree.lists[w], i)
    OBVIOUS
  <2>2. /\ DOMAIN tree' = DOMAIN NoTree
        /\ tree'.state \in {"none", "open"} /\ tree'.misread \in BOOLEAN
        /\ DOMAIN tree'.lists = DOMAIN tree.lists
        /\ Told' => /\ Told /\ w \in DOMAIN tree.lists /\ tree'.lists[w] = list
                    /\ \A k \in DOMAIN tree.lists \ {w} : tree'.lists[k] = tree.lists[k]
    BY <1>1, <1>5, <2>1, Applying
  <2>3. DOMAIN tree'.lists \subseteq 0 .. nextId'
    BY <1>1, <1>6, <2>2, Types, Growing
  <2>4. ASSUME Told' PROVE Elsewhere(w) /\ ReadAre(w, kids'[w], tree'.lists)
    <3>1. ReadAre(w, items, tree.lists)
      BY <1>1, <2>2, <2>4 DEF TreeInv
    <3>2. tree'.lists[w] = ItemIds(kids'[w])
      BY <1>9, <2>1, <2>2, <2>4, <3>1 DEF ReadAre
    <3>3. ASSUME NEW j \in DOMAIN kids'[w], kids'[w][j].id \in DOMAIN tree'.lists
          PROVE  kids'[w][j].child # 0 /\ tree'.lists[kids'[w][j].id] = <<kids'[w][j].child>>
      <4>1. PICK k \in DOMAIN items : kids'[w][j] = items[k]
        BY <1>16
      <4>2. items[k].id # w
        BY <1>1, <1>3 DEF IdsInv
      <4> QED BY <2>2, <2>4, <3>1, <3>3, <4>1, <4>2 DEF ReadAre
    <3> QED BY <2>2, <2>4, <3>2, <3>3 DEF ReadAre, Elsewhere
  <2> QED BY <2>2, <2>3, <2>4 DEF TreeNext
<1> QED BY <1>1, <1>6, <1>12, <1>13, <1>14, <1>15, <1>17, <1>18, WindowStep

\* Commands on tabs insert, remove, or find nothing to do.
LEMMA RunTabsKeeps ==
    ASSUME IInv, RunTabs
    PROVE  IInv'
<1> DEFINE task == Head(queue)
           w == task.win
<1>1. TypeOK /\ NavsInv /\ IdsInv /\ queue # <<>>
      /\ task.kind \in {"insert", "remove", "duplicate_tab", "close_tab"}
      /\ UNCHANGED <<phase, ops, saved>>
  BY DEF IInv, RunTabs, IsNext
<1>2. task \in Tasks /\ task.kind # "update"
  BY <1>1, Taking
<1>3. task.kind \in {"insert", "remove"} => task.idx \in Nat \ {0}
  BY <1>1, <1>2, TaskTypes
<1>4. CASE Skip
  <2>1. \A x \in Whole : task # Update(x)
    BY <1>2 DEF Update
  <2> QED BY <1>1, <1>4, <2>1, SkipKeeps
<1>5. ASSUME Works(w), NEW i \in Nat \ {0}, NEW n, Fits(n), Inserted(w, i, n)
      PROVE  IInv'
  <2>1. PICK x \in Whole : x = w
    BY <1>5, WorkingIsWhole
  <2>2. Inserted(x, i, n)
    BY <1>5, <2>1
  <2> QED BY <1>1, <1>2, <1>5, <2>2, InsertedKeeps
<1>6. ASSUME Works(w), NEW i \in Places(w), Removed(w, i)
      PROVE  IInv'
  <2>1. PICK x \in Whole : x = w
    BY <1>6, WorkingIsWhole
  <2>2. PICK j \in DOMAIN tabs[x] : j = i
    BY <2>1 DEF Places
  <2>3. Removed(x, j)
    BY <1>6, <2>1, <2>2
  <2> QED BY <1>1, <1>2, <2>3, RemovedKeeps
<1>7. ASSUME Works(w)
      PROVE  /\ w \in DOMAIN tabs /\ current[w] \in 0 .. Len(tabs[w])
             /\ Len(tabs[w]) \in Nat /\ DOMAIN tabs[w] = 1 .. Len(tabs[w])
             /\ \A j \in DOMAIN tabs[w] : tabs[w][j] \in DOMAIN nav
             /\ current[w] = 0 => tabs[w] = <<>>
  <2>1. PICK x \in DOMAIN tabs : x = w
    BY <1>1, <1>2, TaskTypes
  <2> QED BY <1>1, <2>1, ItemTypes, Types DEF WindowOK, IdsInv
<1>8. CASE Works(w) /\ task.kind = "insert" /\ Inserted(w, task.idx, Fresh(FirstModel))
  <2>1. PICK n : n = Fresh(FirstModel)
    OBVIOUS
  <2>2. Fits(n)
    BY <1>1, <2>1, ControllerAssumption DEF NavsInv, Fits, Fresh, Shown
  <2>3. PICK i \in Nat \ {0} : i = task.idx
    BY <1>3, <1>8
  <2> QED BY <1>5, <1>8, <2>1, <2>2, <2>3
<1>9. CASE Works(w) /\ task.idx \in Places(w) /\ Removed(w, task.idx)
  BY <1>6, <1>9
<1>10. CASE Works(w) /\ current[w] # 0 /\ Inserted(w, current[w] + 1, nav[tabs[w][current[w]]])
  <2>1. current[w] \in DOMAIN tabs[w] /\ current[w] + 1 \in Nat \ {0}
    BY <1>7, <1>10
  <2>2. PICK n : n = nav[tabs[w][current[w]]]
    OBVIOUS
  <2>3. PICK S : Linked(S) /\ \A v \in DOMAIN nav : nav[v] \in S
    BY <1>1 DEF NavsInv
  <2>4. n \in S
    BY <1>7, <1>10, <2>1, <2>2, <2>3
  <2>5. Fits(n)
    BY <2>3, <2>4 DEF Fits, Linked
  <2>6. PICK i \in Nat \ {0} : i = current[w] + 1
    BY <2>1
  <2> QED BY <1>5, <1>10, <2>2, <2>5, <2>6
<1>11. CASE Works(w) /\ ~(Len(tabs[w]) <= 1) /\ Removed(w, current[w])
  <2>1. current[w] # 0
    <3>1. Len(<<>>) = 0
      OBVIOUS
    <3> QED BY <1>7, <1>11, <3>1
  <2>2. current[w] \in Places(w)
    BY <1>7, <1>11, <2>1 DEF Places
  <2> QED BY <1>6, <1>11, <2>2
<1> QED BY <1>4, <1>8, <1>9, <1>10, <1>11 DEF RunTabs

-----------------------------------------------------------------------------
(* Steps of the layout tree, and of windows *)

\* The whole invariant after a step that only reads lists for the tree.
LEMMA TreeStep ==
    ASSUME IInv, Counted, UNCHANGED <<phase, queue, windows, tabs, current, nav, kids, nextId, timer, saved, torn>>,
           DOMAIN tree' = DOMAIN NoTree, tree'.state \in {"none", "open"}, tree'.misread \in BOOLEAN,
           DOMAIN tree'.lists \subseteq 0 .. nextId,
           Root \in DOMAIN tree'.lists, tree'.lists[Root] = windows,
           \A w \in Whole : ReadAre(w, kids[w], tree'.lists)
    PROVE  IInv'
<1>1. TypeOK
  BY DEF IInv
<1>2. Whole' = Whole
  BY DEF Whole
<1>3. TreeInv'
  BY <1>2 DEF TreeInv, NoTree
<1>4. /\ Grows /\ NavsInv' /\ IdsInv' /\ WindowsInv'
      /\ \A w \in DOMAIN tabs' : WindowOK(w)'
      /\ DOMAIN tabs' = DOMAIN current' /\ DOMAIN tabs' = DOMAIN kids'
      /\ DOMAIN tabs' \subseteq 1 .. nextId' /\ DOMAIN nav' \subseteq 1 .. nextId'
      /\ torn' \subseteq DOMAIN tabs' /\ Tasks' = Tasks
  BY <1>2, Quiet
<1>5. /\ windows' \in Seq(DOMAIN tabs') /\ windows' # <<>> /\ IsInjective(windows')
      /\ queue' \in Seq(Tasks') /\ phase' \in {"running", "exited"} /\ timer' \in Nat \union {Off}
      /\ ops' \in 0 .. MaxOps
  BY <1>1, <1>4, Types, ControllerAssumption DEF Counted
<1>6. TypeOK'
  BY <1>1, <1>4, <1>5, IsTyped
<1> QED BY <1>3, <1>4, <1>6 DEF IInv

\* A list that the tree reads is added to the others.
LEMMA Reading ==
    ASSUME NEW t, DOMAIN t = DOMAIN NoTree, NEW parent, parent \notin DOMAIN t.lists, NEW list
    PROVE  /\ DOMAIN Reads(t, parent, list) = DOMAIN NoTree
           /\ Reads(t, parent, list).state = t.state /\ Reads(t, parent, list).misread = t.misread
           /\ DOMAIN Reads(t, parent, list).lists = DOMAIN t.lists \union {parent}
           /\ Reads(t, parent, list).lists[parent] = list
           /\ \A k \in DOMAIN t.lists : Reads(t, parent, list).lists[k] = t.lists[k]
<1>1. DOMAIN t = {"state", "lists", "misread"}
  BY DEF NoTree
<1>2. PICK lists : lists = Extended(t.lists, parent, list)
  OBVIOUS
<1>3. Reads(t, parent, list) = [t EXCEPT !.lists = lists]
  BY <1>2 DEF Reads
<1>4. /\ DOMAIN lists = DOMAIN t.lists \union {parent} /\ lists[parent] = list
      /\ \A k \in DOMAIN t.lists : lists[k] = t.lists[k]
  BY <1>2 DEF Extended
<1> QED BY <1>1, <1>3, <1>4

\* The root, the windows and the items are numbered apart.
LEMMA Apart ==
    ASSUME TypeOK, IdsInv, NEW w \in DOMAIN tabs
    PROVE  /\ w # Root /\ w \in 0 .. nextId
           /\ \A i \in DOMAIN kids[w] : /\ kids[w][i].id # Root /\ kids[w][i].id \in 0 .. nextId
                                        /\ kids[w][i].id \notin DOMAIN tabs
           /\ \A x \in DOMAIN tabs : \A i \in DOMAIN kids[w], j \in DOMAIN kids[x] :
                kids[w][i].id = kids[x][j].id => w = x /\ i = j
<1>1. /\ DOMAIN tabs \subseteq 1 .. nextId /\ nextId \in Nat
      /\ \A i \in DOMAIN kids[w] : kids[w][i].id \in 1 .. nextId /\ kids[w][i].id \in ToSet(ItemIds(kids[w]))
  BY Types, ItemTypes
<1>2. \A i \in DOMAIN kids[w] : kids[w][i].id \notin DOMAIN tabs
  BY <1>1 DEF IdsInv
<1>3. ASSUME NEW x \in DOMAIN tabs, NEW i \in DOMAIN kids[w], NEW j \in DOMAIN kids[x],
             kids[w][i].id = kids[x][j].id
      PROVE  w = x /\ i = j
  <2>1. kids[w][i].id \in ToSet(ItemIds(kids[w])) /\ kids[x][j].id \in ToSet(ItemIds(kids[x]))
    BY IdsSet
  <2>2. w = x
    BY <1>3, <2>1 DEF IdsInv
  <2>3. IsInjective(ItemIds(kids[w]))
    BY DEF IdsInv
  <2>4. /\ DOMAIN ItemIds(kids[w]) = DOMAIN kids[w]
        /\ \A k \in DOMAIN kids[w] : ItemIds(kids[w])[k] = kids[w][k].id
    BY DEF ItemIds
  <2>5. i = j
    BY <1>3, <2>2, <2>3, <2>4 DEF IsInjective
  <2> QED BY <2>2, <2>5
<1> QED BY <1>1, <1>2, <1>3 DEF Root

\* A new tree reads the list of windows.
LEMMA OpenTreeKeeps ==
    ASSUME IInv, OpenTree
    PROVE  IInv'
<1>1. TypeOK /\ IdsInv /\ nextId \in Nat
  BY Types DEF IInv
<1>2. /\ Counted /\ tree' = Reads(NewTree, Root, windows)
      /\ UNCHANGED <<phase, queue, windows, tabs, current, nav, kids, nextId, timer, saved, torn>>
  BY DEF OpenTree
<1>3. PICK t, list : t = NewTree /\ list = windows
  OBVIOUS
<1>4. DOMAIN t = DOMAIN NoTree /\ t.state = "open" /\ t.misread = FALSE /\ DOMAIN t.lists = {}
  BY <1>3 DEF NewTree, NoTree
<1>5. /\ DOMAIN tree' = DOMAIN NoTree /\ tree'.state = t.state /\ tree'.misread = t.misread
      /\ DOMAIN tree'.lists = DOMAIN t.lists \union {Root} /\ tree'.lists[Root] = list
  BY <1>2, <1>3, <1>4, Reading
<1>6. ASSUME NEW w \in Whole PROVE ReadAre(w, kids[w], tree'.lists)
  <2>1. w \in DOMAIN tabs
    BY <1>1, WholeAreWindows
  <2> QED BY <1>1, <1>4, <1>5, <2>1, Apart DEF ReadAre
<1>7. DOMAIN tree'.lists \subseteq 0 .. nextId
  BY <1>1, <1>4, <1>5 DEF Root
<1> QED BY <1>2, <1>3, <1>4, <1>5, <1>6, <1>7, TreeStep

\* The tree reads a list that it had not read, as the invariant has it.
LEMMA ExpandedKeeps ==
    ASSUME IInv, Counted, UNCHANGED <<phase, queue, windows, tabs, current, nav, kids, nextId, timer, saved, torn>>,
           tree.state = "open", ~tree.misread, NEW parent \in 0 .. nextId, parent \notin DOMAIN tree.lists,
           NEW list, tree' = Reads(tree, parent, list),
           \A x \in Whole : /\ x = parent => list = ItemIds(kids[x])
                            /\ \A i \in DOMAIN kids[x] : kids[x][i].id = parent =>
                                    kids[x][i].child # 0 /\ list = <<kids[x][i].child>>
    PROVE  IInv'
<1>1. TypeOK /\ TreeInv /\ DOMAIN tree = DOMAIN NoTree /\ DOMAIN tree.lists \subseteq 0 .. nextId
  BY Types DEF IInv, TreeInv
<1>2. Root \in DOMAIN tree.lists /\ tree.lists[Root] = windows /\ \A w \in Whole : ReadAre(w, kids[w], tree.lists)
  BY <1>1 DEF TreeInv, Told
<1>3. /\ DOMAIN tree' = DOMAIN NoTree /\ tree'.state = tree.state /\ tree'.misread = tree.misread
      /\ DOMAIN tree'.lists = DOMAIN tree.lists \union {parent} /\ tree'.lists[parent] = list
      /\ \A k \in DOMAIN tree.lists : tree'.lists[k] = tree.lists[k]
  <2>1. PICK t : t = tree
    OBVIOUS
  <2>2. DOMAIN t = DOMAIN NoTree /\ parent \notin DOMAIN t.lists
    BY <1>1, <2>1
  <2>3. /\ DOMAIN Reads(t, parent, list) = DOMAIN NoTree
        /\ Reads(t, parent, list).state = t.state /\ Reads(t, parent, list).misread = t.misread
        /\ DOMAIN Reads(t, parent, list).lists = DOMAIN t.lists \union {parent}
        /\ Reads(t, parent, list).lists[parent] = list
        /\ \A k \in DOMAIN t.lists : Reads(t, parent, list).lists[k] = t.lists[k]
    BY <2>2, Reading
  <2> QED BY <2>1, <2>3
<1>4. ASSUME NEW w \in Whole PROVE ReadAre(w, kids[w], tree'.lists)
  <2>1. ReadAre(w, kids[w], tree.lists)
    BY <1>2
  <2>2. w \in DOMAIN tree'.lists => tree'.lists[w] = ItemIds(kids[w])
    BY <1>3, <2>1 DEF ReadAre
  <2>3. ASSUME NEW i \in DOMAIN kids[w], kids[w][i].id \in DOMAIN tree'.lists
        PROVE  kids[w][i].child # 0 /\ tree'.lists[kids[w][i].id] = <<kids[w][i].child>>
    BY <1>3, <2>1, <2>3 DEF ReadAre
  <2> QED BY <2>2, <2>3 DEF ReadAre
<1>5. Root \in DOMAIN tree'.lists /\ tree'.lists[Root] = windows /\ DOMAIN tree'.lists \subseteq 0 .. nextId
  BY <1>1, <1>2, <1>3
<1>6. tree'.state \in {"none", "open"} /\ tree'.misread \in BOOLEAN
  BY <1>1, <1>3, Types
<1> QED BY <1>3, <1>4, <1>5, <1>6, TreeStep

\* The list of a window is read as its items are now.
LEMMA ExpandKeeps ==
    ASSUME IInv, Expand
    PROVE  IInv'
<1>1. TypeOK /\ IdsInv
  BY DEF IInv
<1>2. PICK w \in {windows[i] : i \in DOMAIN windows} \ DOMAIN tree.lists : tree' = Reads(tree, w, ItemIds(kids[w]))
  BY DEF Expand
<1>3. w \in DOMAIN tabs
  BY <1>1, <1>2, WholeAreWindows
<1>4. PICK parent \in 0 .. nextId, list \in {ItemIds(kids[w])} : parent = w
  BY <1>1, <1>3, Apart
<1>5. ASSUME NEW x \in Whole
      PROVE  /\ x = parent => list = ItemIds(kids[x])
             /\ \A i \in DOMAIN kids[x] : kids[x][i].id = parent =>
                    kids[x][i].child # 0 /\ list = <<kids[x][i].child>>
  <2>1. \A i \in DOMAIN kids[x] : kids[x][i].id \notin DOMAIN tabs
    BY <1>1, Apart, WholeAreWindows
  <2> QED BY <1>3, <1>4, <2>1
<1>6. /\ Counted /\ tree.state = "open" /\ ~tree.misread
      /\ UNCHANGED <<phase, queue, windows, tabs, current, nav, kids, nextId, timer, saved, torn>>
  BY DEF Expand
<1>7. parent \notin DOMAIN tree.lists /\ tree' = Reads(tree, parent, list)
  BY <1>2, <1>4
<1> QED BY <1>5, <1>6, <1>7, ExpandedKeeps

\* The list of an item is read only when it has a child.
LEMMA ExpandItemKeeps ==
    ASSUME IInv, ExpandItem
    PROVE  IInv'
<1>1. TypeOK /\ IdsInv
  BY DEF IInv
<1>2. PICK w \in {windows[i] : i \in DOMAIN windows} \intersect DOMAIN tree.lists :
        \E k \in DOMAIN kids[w] :
            /\ kids[w][k].child # 0
            /\ kids[w][k].id \notin DOMAIN tree.lists
            /\ tree' = Reads(tree, kids[w][k].id, <<kids[w][k].child>>)
  BY DEF ExpandItem
<1>3. w \in DOMAIN tabs
  BY <1>1, <1>2, WholeAreWindows
<1>4. PICK k \in DOMAIN kids[w] :
        /\ kids[w][k].child # 0
        /\ kids[w][k].id \notin DOMAIN tree.lists
        /\ tree' = Reads(tree, kids[w][k].id, <<kids[w][k].child>>)
  BY <1>2
<1>5. PICK parent \in 0 .. nextId, list \in {<<kids[w][k].child>>} : parent = kids[w][k].id
  BY <1>1, <1>3, Apart
<1>6. ASSUME NEW x \in Whole
      PROVE  /\ x = parent => list = ItemIds(kids[x])
             /\ \A i \in DOMAIN kids[x] : kids[x][i].id = parent =>
                    kids[x][i].child # 0 /\ list = <<kids[x][i].child>>
  <2>1. x \in DOMAIN tabs
    BY <1>1, WholeAreWindows
  <2>2. parent \notin DOMAIN tabs
    BY <1>1, <1>3, <1>5, Apart
  <2>3. \A i \in DOMAIN kids[x] : kids[x][i].id = parent => x = w /\ i = k
    BY <1>1, <1>3, <1>5, <2>1, Apart
  <2> QED BY <1>4, <1>5, <2>1, <2>2, <2>3
<1>7. /\ Counted /\ tree.state = "open" /\ ~tree.misread
      /\ UNCHANGED <<phase, queue, windows, tabs, current, nav, kids, nextId, timer, saved, torn>>
  BY DEF ExpandItem
<1>8. parent \notin DOMAIN tree.lists /\ tree' = Reads(tree, parent, list)
  BY <1>4, <1>5
<1> QED BY <1>6, <1>7, <1>8, ExpandedKeeps

\* A closed window leaves the list of windows and that of the tree.
LEMMA CloseWindowKeeps ==
    ASSUME IInv, NEW i \in DOMAIN windows, CloseWindow(i)
    PROVE  IInv'
<1>1. TypeOK /\ TreeInv /\ queue \in Seq(Tasks) /\ windows \in Seq(DOMAIN tabs) /\ windows # <<>>
      /\ IsInjective(windows) /\ DOMAIN tree.lists \subseteq 0 .. nextId
  BY Types DEF IInv
<1>2. /\ Counted /\ Scheduled(queue)
      /\ UNCHANGED <<queue, tabs, current, nav, kids, nextId, saved, torn>>
  BY DEF CloseWindow
<1>3. timer' \in Nat \union {Off} /\ ops' \in 0 .. MaxOps
  BY <1>1, <1>2, Timing, Types, ControllerAssumption DEF Counted
<1>4. CASE ~(Len(windows) > 1)
  <2>1. phase' = "exited" /\ UNCHANGED <<windows, tree>>
    BY <1>4 DEF CloseWindow
  <2> QED BY <1>1, <1>2, <1>3, <2>1, QuietStep
<1>5. CASE Len(windows) > 1
  <2>1. /\ windows' = RemoveAt(windows, i) /\ phase' = phase
        /\ tree' = Applies(tree, Root, RemoveAt(tree.lists[Root], i))
    BY <1>5 DEF CloseWindow
  <2>2. /\ windows' \in Seq(DOMAIN tabs) /\ Len(windows') = Len(windows) - 1
        /\ ToSet(windows') \subseteq ToSet(windows) /\ IsInjective(windows')
    <3>0. PICK S : S = DOMAIN tabs
      OBVIOUS
    <3>1. PICK list \in Seq(S) : list = windows
      BY <1>1, <3>0
    <3>2. PICK k \in DOMAIN list : k = i
      BY <3>1
    <3>3. RemoveAt(list, k) \in Seq(S) /\ Len(RemoveAt(list, k)) = Len(list) - 1
      BY Removing
    <3>4. ToSet(RemoveAt(list, k)) \subseteq ToSet(list)
      BY Elements
    <3>5. IsInjective(list)
      BY <1>1, <3>1
    <3>6. IsInjective(RemoveAt(list, k))
      BY <3>5, InjectiveStays
    <3> QED BY <2>1, <3>0, <3>1, <3>2, <3>3, <3>4, <3>6
  <2>3. windows' # <<>>
    <3>1. Len(windows) \in Nat
      BY <1>1, LenProperties
    <3>2. Len(<<>>) = 0
      OBVIOUS
    <3> QED BY <1>5, <2>2, <3>1, <3>2
  <2>4. Whole' \subseteq Whole
    BY <1>2, <2>2 DEF Whole, ToSet
  <2>5. /\ Grows /\ NavsInv' /\ IdsInv' /\ WindowsInv'
        /\ \A w \in DOMAIN tabs' : WindowOK(w)'
        /\ DOMAIN tabs' = DOMAIN current' /\ DOMAIN tabs' = DOMAIN kids'
        /\ DOMAIN tabs' \subseteq 1 .. nextId' /\ DOMAIN nav' \subseteq 1 .. nextId'
        /\ torn' \subseteq DOMAIN tabs' /\ Tasks' = Tasks
    BY <1>2, <2>4, Quiet
  <2>6. PICK list : list = RemoveAt(tree.lists[Root], i)
    OBVIOUS
  <2>7. /\ DOMAIN tree' = DOMAIN NoTree
        /\ tree'.state \in {"none", "open"} /\ tree'.misread \in BOOLEAN
        /\ DOMAIN tree'.lists = DOMAIN tree.lists
        /\ Told' => /\ Told /\ Root \in DOMAIN tree.lists /\ tree'.lists[Root] = list
                    /\ \A k \in DOMAIN tree.lists \ {Root} : tree'.lists[k] = tree.lists[k]
    BY <1>1, <2>1, <2>6, Applying
  <2>8. ASSUME Told'
        PROVE  /\ Root \in DOMAIN tree'.lists /\ tree'.lists[Root] = windows'
               /\ \A w \in Whole' : ReadAre(w, kids'[w], tree'.lists)
    <3>1. tree.lists[Root] = windows /\ \A w \in Whole : ReadAre(w, kids[w], tree.lists)
      BY <1>1, <2>7, <2>8 DEF TreeInv
    <3>2. ASSUME NEW w \in Whole' PROVE ReadAre(w, kids'[w], tree'.lists)
      <4>1. ReadAre(w, kids[w], tree.lists) /\ w \in DOMAIN tabs /\ IdsInv
        BY <1>1, <2>4, <3>1, WholeAreWindows DEF IInv
      <4>2. w # Root /\ \A j \in DOMAIN kids[w] : kids[w][j].id # Root
        BY <1>1, <4>1, Apart
      <4> QED BY <1>2, <2>7, <2>8, <4>1, <4>2 DEF ReadAre
    <3> QED BY <2>1, <2>6, <2>7, <2>8, <3>1, <3>2
  <2>9. TreeInv'
    BY <2>7, <2>8 DEF TreeInv, NoTree
  <2>10. TypeOK'
    <3>1. windows' \in Seq(DOMAIN tabs') /\ queue' \in Seq(Tasks') /\ phase' \in {"running", "exited"}
          /\ DOMAIN tree'.lists \subseteq 0 .. nextId'
      BY <1>1, <1>2, <2>1, <2>2, <2>5, <2>7, Types
    <3> QED BY <1>1, <1>3, <2>2, <2>3, <2>5, <2>7, <3>1, IsTyped
  <2> QED BY <2>5, <2>9, <2>10 DEF IInv
<1> QED BY <1>4, <1>5

\* A list with a new element at its end has different elements if it had.
LEMMA Appended ==
    ASSUME NEW S, NEW list \in Seq(S), IsInjective(list), NEW e \in S, e \notin ToSet(list)
    PROVE  IsInjective(Append(list, e)) /\ Append(list, e) # <<>>
<1>1. Len(list) \in Nat /\ DOMAIN list = 1 .. Len(list)
  BY LenProperties
<1>2. PICK new : new = Append(list, e)
  OBVIOUS
<1>3. /\ DOMAIN new = 1 .. Len(list) + 1 /\ Len(new) = Len(list) + 1
      /\ \A j \in 1 .. Len(list) : new[j] = list[j]
      /\ new[Len(list) + 1] = e
  BY <1>1, <1>2
<1>4. \A j \in DOMAIN new : j = Len(list) + 1 \/ (j \in DOMAIN list /\ new[j] = list[j] /\ new[j] # e)
  BY <1>1, <1>3 DEF ToSet
<1>5. IsInjective(new)
  BY <1>3, <1>4 DEF IsInjective
<1>6. new # <<>>
  <2>1. Len(<<>>) = 0
    OBVIOUS
  <2> QED BY <1>1, <1>3, <2>1
<1> QED BY <1>2, <1>5, <1>6

\* The views, items and children of a new window get numbers above all others.
LEMMA RunDuplicateWindowKeeps ==
    ASSUME IInv, RunDuplicateWindow
    PROVE  IInv'
<1> DEFINE task == Head(queue)
<1>1. TypeOK /\ IdsInv /\ WindowsInv /\ NavsInv /\ TreeInv /\ queue # <<>> /\ task.kind = "duplicate_window"
      /\ UNCHANGED <<phase, ops, saved>>
  BY DEF IInv, RunDuplicateWindow, IsNext
<1>2. /\ task \in Tasks /\ Tail(queue) \in Seq(Tasks)
      /\ \A x : Update(x) \in ToSet(queue) => Update(x) \in ToSet(Tail(queue))
      /\ task.kind # "update"
  BY <1>1, Taking
<1>3. CASE Skip
  <2>1. \A x \in Whole : task # Update(x)
    <3>1. \A x : Update(x).kind = "update"
      BY DEF Update
    <3> QED BY <1>2, <3>1
  <2> QED BY <1>1, <1>3, <2>1, SkipKeeps
<1>4. CASE ~Skip
  <2>1. task.win \notin torn /\ task.win \in DOMAIN tabs
    BY <1>2, <1>4, TaskTypes DEF RunDuplicateWindow
  <2>2. PICK w \in DOMAIN tabs : w = task.win
    BY <2>1
  <2>3. /\ Len(tabs[w]) \in Nat /\ DOMAIN tabs[w] = 1 .. Len(tabs[w]) /\ nextId \in Nat
        /\ \A j \in DOMAIN tabs[w] : tabs[w][j] \in DOMAIN nav
        /\ current[w] \in 0 .. Len(tabs[w])
        /\ DOMAIN tabs \subseteq 1 .. nextId /\ DOMAIN nav \subseteq 1 .. nextId /\ torn \subseteq DOMAIN tabs
        /\ DOMAIN tabs = DOMAIN current /\ DOMAIN tabs = DOMAIN kids
    BY <1>1, <2>1, <2>2, ItemTypes, Types DEF WindowOK
  <2>4. PICK new \in Nat, count \in Nat : new = nextId + 1 /\ count = Len(tabs[w])
    <3>1. nextId + 1 \in Nat /\ Len(tabs[w]) \in Nat
      BY <2>3
    <3> QED BY <3>1
  <2> DEFINE item(i) == WholeItem(new + count + i, new + i, new + 2 * count + i, i, nav[tabs[w][i]].model)
  <2>5. /\ windows' = Append(windows, new)
        /\ tabs' = Extended(tabs, new, [i \in 1 .. count |-> new + i])
        /\ current' = Extended(current, new, current[w])
        /\ nav' = [v \in DOMAIN nav \union (new + 1 .. new + count) |->
                    IF v \in DOMAIN nav THEN nav[v] ELSE nav[tabs[w][v - new]]]
        /\ kids' = Extended(kids, new, [i \in 1 .. count |-> item(i)])
        /\ nextId' = new + 3 * count
        /\ queue' = Tail(queue)
        /\ Scheduled(queue')
        /\ tree' = Applies(tree, Root, Append(tree.lists[Root], new))
        /\ torn' = torn
    BY <1>4, <2>2, <2>4 DEF RunDuplicateWindow
  <2>6. new \notin DOMAIN tabs /\ new \notin DOMAIN nav /\ ~(new \in 0 .. nextId)
    BY <2>3, <2>4
  <2>7. /\ DOMAIN tabs' = DOMAIN tabs \union {new} /\ DOMAIN kids' = DOMAIN tabs \union {new}
        /\ DOMAIN current' = DOMAIN tabs \union {new}
        /\ tabs'[new] = [i \in 1 .. count |-> new + i]
        /\ kids'[new] = [i \in 1 .. count |-> item(i)]
        /\ current'[new] = current[w]
        /\ \A x \in DOMAIN tabs : tabs'[x] = tabs[x] /\ kids'[x] = kids[x] /\ current'[x] = current[x]
    BY <2>3, <2>5, <2>6 DEF Extended
  <2>8. /\ DOMAIN nav' = DOMAIN nav \union (new + 1 .. new + count)
        /\ \A v \in DOMAIN nav : nav'[v] = nav[v]
        /\ \A i \in 1 .. count : new + i \in DOMAIN nav' /\ nav'[new + i] = nav[tabs[w][i]]
    <3>1. \A i \in 1 .. count : /\ new + i \in new + 1 .. new + count /\ new + i \notin DOMAIN nav
                                /\ (new + i) - new = i
      BY <2>3, <2>4
    <3> QED BY <2>5, <3>1
  <2>9. Grows
    <3>1. nextId' = nextId + 1 + 3 * count
      BY <2>4, <2>5
    <3>2. nextId' \in Nat /\ nextId <= nextId'
      BY <2>3, <3>1
    <3> QED BY <2>7, <2>8, <3>2 DEF Grows
  <2>10. /\ nextId' \in Nat /\ new \in 1 .. nextId' /\ 1 .. nextId \subseteq 1 .. nextId'
         /\ new + 1 .. new + count \subseteq 1 .. nextId'
         /\ \A i \in 1 .. count : /\ new + count + i \in 1 .. nextId' /\ new + 2 * count + i \in 0 .. nextId'
                                  /\ i \in Nat \ {0}
    <3>1. nextId \in Nat /\ nextId' = new + 3 * count /\ new = nextId + 1
      BY <2>3, <2>4, <2>5
    <3> QED BY <3>1
  <2>11. DOMAIN nav' \subseteq 1 .. nextId' /\ DOMAIN tabs' \subseteq 1 .. nextId'
    BY <2>3, <2>7, <2>8, <2>10
  <2>12. ASSUME NEW i \in 1 .. count
         PROVE  /\ kids'[new][i].id = new + count + i /\ kids'[new][i].view = new + i
                /\ kids'[new][i].child # 0
                /\ kids'[new][i].shows = nav[tabs[w][i]].model
                /\ kids'[new][i].bound = [idx |-> i, model |-> nav[tabs[w][i]].model]
                /\ kids'[new][i] \in Items'
                /\ tabs'[new][i] = new + i
    <3>1. PICK m : m = nav[tabs[w][i]].model
      OBVIOUS
    <3>2. m \in Shown /\ Shown' = Shown
      BY <1>1, <2>3, <2>4, <3>1, NavTypes DEF Shown
    <3>3. kids'[new][i] = WholeItem(new + count + i, new + i, new + 2 * count + i, i, m)
      BY <2>7, <3>1
    <3>4. WholeItem(new + count + i, new + i, new + 2 * count + i, i, m) \in Items'
      BY <2>8, <2>10, <3>2 DEF Items, WholeItem
    <3>5. new + 2 * count + i # 0
      BY <2>4
    <3>6. tabs'[new][i] = new + i
      BY <2>7
    <3> QED BY <3>1, <3>3, <3>4, <3>5, <3>6 DEF WholeItem
  <2>19. DOMAIN kids'[new] = 1 .. count /\ DOMAIN tabs'[new] = 1 .. count
    BY <2>7
  <2> HIDE DEF item
  <2>13. WindowOK(new)'
    <3>1. tabs'[new] \in Seq(DOMAIN nav') /\ Len(tabs'[new]) = count
      <4>1. PICK S, f : S = DOMAIN nav' /\ f = tabs'[new]
        OBVIOUS
      <4>2. f \in [1 .. count -> S]
        BY <2>7, <2>8, <4>1
      <4>3. f \in Seq(S) /\ Len(f) = count
        BY <4>2, IsSeq
      <4> QED BY <4>1, <4>3
    <3>2. kids'[new] \in Seq(Items')
      <4>1. PICK S, f : S = Items' /\ f = kids'[new]
        OBVIOUS
      <4>2. f \in [1 .. count -> S]
        BY <2>7, <2>12, <4>1
      <4>3. f \in Seq(S)
        BY <4>2, IsSeq
      <4> QED BY <4>1, <4>3
    <3>3. IsInjective(tabs'[new])
      BY <2>4, <2>7 DEF IsInjective
    <3> QED BY <2>3, <2>4, <2>7, <3>1, <3>2, <3>3 DEF WindowOK
  <2>14. \A x \in DOMAIN tabs' : WindowOK(x)'
    <3>1. ASSUME NEW x \in DOMAIN tabs PROVE WindowOK(x)'
      <4>1. WindowOK(x)
        BY <1>1, Types
      <4> QED BY <1>1, <2>7, <2>9, <4>1, Growing DEF WindowOK
    <3> QED BY <2>7, <2>13, <3>1
  <2>15. NavsInv'
    <3>1. PICK S : Linked(S) /\ \A v \in DOMAIN nav : nav[v] \in S
      BY <1>1 DEF NavsInv
    <3>2. \A v \in DOMAIN nav' : v \in DOMAIN nav \/ \E i \in 1 .. count : v = new + i
      <4>1. ASSUME NEW v \in new + 1 .. new + count PROVE \E i \in 1 .. count : v = new + i
        <5>1. v - new \in 1 .. count /\ v = new + (v - new)
          BY <2>4
        <5> QED BY <5>1
      <4> QED BY <2>8, <4>1
    <3>3. \A i \in 1 .. count : nav'[new + i] \in S
      BY <2>3, <2>4, <2>8, <3>1
    <3>4. \A v \in DOMAIN nav : nav'[v] \in S
      BY <2>8, <3>1
    <3>5. \A v \in DOMAIN nav' : nav'[v] \in S
      BY <3>2, <3>3, <3>4
    <3> QED BY <3>1, <3>5 DEF NavsInv, Linked, Shown
  <2>16. IdsInv'
    <3>1. /\ \A k \in ToSet(tabs'[new]) : k > new
          /\ \A k \in ToSet(ItemIds(kids'[new])) : k > new
          /\ DOMAIN kids'[new] = 1 .. count
      <4>1. \A i \in 1 .. count : new + i > new /\ new + count + i > new
        BY <2>4
      <4>2. \A i \in 1 .. count : tabs'[new][i] = new + i /\ kids'[new][i].id = new + count + i
        BY <2>12
      <4>3. DOMAIN tabs'[new] = 1 .. count /\ DOMAIN kids'[new] = 1 .. count
        BY <2>7
      <4>4. \A k \in ToSet(ItemIds(kids'[new])) : \E i \in DOMAIN kids'[new] : k = kids'[new][i].id
        BY IdsSet
      <4> QED BY <4>1, <4>2, <4>3, <4>4 DEF ToSet
    <3>2. ASSUME NEW x \in DOMAIN tabs
          PROVE  /\ \A k \in ToSet(tabs[x]) : k \in 1 .. nextId
                 /\ \A k \in ToSet(ItemIds(kids[x])) : k \in 1 .. nextId
      <4>1. /\ \A i \in DOMAIN tabs[x] : tabs[x][i] \in 1 .. nextId
            /\ \A i \in DOMAIN kids[x] : kids[x][i].id \in 1 .. nextId
        BY <1>1, <2>3, ItemTypes
      <4>2. \A k \in ToSet(ItemIds(kids[x])) : \E i \in DOMAIN kids[x] : k = kids[x][i].id
        BY IdsSet
      <4> QED BY <4>1, <4>2 DEF ToSet
    <3>3. \A k : k \in 1 .. nextId => ~(k > new) /\ k # new
      BY <2>3, <2>4
    <3>4. ASSUME NEW x \in DOMAIN tabs
          PROVE  /\ ToSet(tabs'[x]) \intersect ToSet(tabs'[new]) = {}
                 /\ ToSet(ItemIds(kids'[x])) \intersect ToSet(ItemIds(kids'[new])) = {}
                 /\ new \notin ToSet(ItemIds(kids'[x])) /\ x \notin ToSet(ItemIds(kids'[new]))
      BY <2>3, <2>7, <3>1, <3>2, <3>3
    <3>5. new \notin ToSet(ItemIds(kids'[new]))
      <4>1. ~(new > new)
        BY <2>4
      <4> QED BY <3>1, <4>1
    <3>6. IsInjective(ItemIds(kids'[new]))
      <4>1. /\ DOMAIN ItemIds(kids'[new]) = 1 .. count
            /\ \A i \in 1 .. count : ItemIds(kids'[new])[i] = new + count + i
        BY <2>7, <2>12, <3>1 DEF ItemIds
      <4> QED BY <2>4, <4>1 DEF IsInjective
    <3>7. current'[new] = 0 => tabs'[new] = <<>>
      <4>1. SUFFICES ASSUME current'[new] = 0 PROVE tabs'[new] = <<>>
        OBVIOUS
      <4>2. count = 0
        <5>1. tabs[w] = <<>> /\ Len(<<>>) = 0
          BY <1>1, <2>7, <4>1 DEF IdsInv
        <5> QED BY <2>4, <5>1
      <4>3. tabs'[new] = [i \in 1 .. 0 |-> new + i]
        BY <2>7, <4>2
      <4> QED BY <4>3
    <3>8. /\ \A x, y \in DOMAIN tabs : x # y =>
                ToSet(tabs'[x]) \intersect ToSet(tabs'[y]) = {}
                /\ ToSet(ItemIds(kids'[x])) \intersect ToSet(ItemIds(kids'[y])) = {}
          /\ \A x \in DOMAIN tabs : /\ IsInjective(ItemIds(kids'[x]))
                                    /\ ToSet(ItemIds(kids'[x])) \intersect DOMAIN tabs = {}
                                    /\ current'[x] = 0 => tabs'[x] = <<>>
      <4>1. ASSUME NEW x \in DOMAIN tabs
            PROVE  tabs'[x] = tabs[x] /\ kids'[x] = kids[x] /\ current'[x] = current[x]
        BY <2>7
      <4>2. \A x \in DOMAIN tabs : ItemIds(kids'[x]) = ItemIds(kids[x])
        BY <4>1, Zenon
      <4>3. /\ \A x, y \in DOMAIN tabs : x # y =>
                  ToSet(tabs[x]) \intersect ToSet(tabs[y]) = {}
                  /\ ToSet(ItemIds(kids[x])) \intersect ToSet(ItemIds(kids[y])) = {}
            /\ \A x \in DOMAIN tabs : /\ IsInjective(ItemIds(kids[x]))
                                      /\ ToSet(ItemIds(kids[x])) \intersect DOMAIN tabs = {}
                                      /\ current[x] = 0 => tabs[x] = <<>>
        BY <1>1 DEF IdsInv
      <4> QED BY <4>1, <4>2, <4>3
    <3>9. \A x, y \in DOMAIN tabs' : x # y =>
            /\ ToSet(tabs'[x]) \intersect ToSet(tabs'[y]) = {}
            /\ ToSet(ItemIds(kids'[x])) \intersect ToSet(ItemIds(kids'[y])) = {}
      BY <2>7, <3>4, <3>8
    <3>10. \A x \in DOMAIN tabs' : /\ IsInjective(ItemIds(kids'[x]))
                                   /\ ToSet(ItemIds(kids'[x])) \intersect DOMAIN tabs' = {}
                                   /\ current'[x] = 0 => tabs'[x] = <<>>
      <4>1. DOMAIN tabs' = DOMAIN tabs \union {new}
        BY <2>7
      <4>2. ASSUME NEW x \in DOMAIN tabs
            PROVE  ToSet(ItemIds(kids'[x])) \intersect DOMAIN tabs' = {}
        BY <3>4, <3>8, <4>1, <4>2
      <4>3. ToSet(ItemIds(kids'[new])) \intersect DOMAIN tabs' = {}
        BY <3>4, <3>5, <4>1
      <4> QED BY <3>6, <3>7, <3>8, <4>1, <4>2, <4>3
    <3> QED BY <3>9, <3>10 DEF IdsInv
  <2>17. windows' \in Seq(DOMAIN tabs') /\ windows' # <<>> /\ IsInjective(windows')
         /\ ToSet(windows') = ToSet(windows) \union {new}
    <3>1. PICK S : S = DOMAIN tabs'
      OBVIOUS
    <3>2. PICK list \in Seq(S) : list = windows
      BY <1>1, <2>9, <3>1, Types, Growing
    <3>3. PICK e \in S : e = new
      BY <2>7, <3>1
    <3>4. IsInjective(list)
      BY <1>1, <3>2, Types
    <3>5. e \notin ToSet(list)
      BY <1>1, <2>6, <3>2, <3>3, WholeAreWindows DEF ToSet
    <3>6. IsInjective(Append(list, e)) /\ Append(list, e) # <<>>
      BY <3>4, <3>5, Appended
    <3>7. Append(list, e) \in Seq(S) /\ ToSet(Append(list, e)) = ToSet(list) \union {e}
      BY Elements
    <3> QED BY <2>5, <3>1, <3>2, <3>3, <3>6, <3>7
  <2>18. ASSUME NEW x \in Whole' PROVE x = new \/ (x \in Whole /\ x \in DOMAIN tabs)
    <3>1. x \in ToSet(windows') /\ x \notin torn
      BY <2>5 DEF Whole, ToSet
    <3>2. x = new \/ x \in Whole
      BY <2>17, <3>1 DEF Whole, ToSet
    <3> QED BY <1>1, <3>2, WholeAreWindows
  <2>20. WindowsInv'
    <3>1. ItemsAre(kids'[new], tabs'[new], nav') /\ BoundAre(kids'[new], tabs'[new], nav')
      <4>1. ASSUME NEW i \in 1 .. count
            PROVE  /\ kids'[new][i].view = tabs'[new][i]
                   /\ kids'[new][i].shows = nav'[tabs'[new][i]].model
                   /\ kids'[new][i].bound = [idx |-> i, model |-> nav'[tabs'[new][i]].model]
        <5>1. nav'[tabs'[new][i]] = nav[tabs[w][i]]
          BY <2>8, <2>12
        <5> QED BY <2>12, <5>1
      <4>2. ItemsAre(kids'[new], tabs'[new], nav')
        BY <2>19, <4>1 DEF ItemsAre
      <4>3. BoundAre(kids'[new], tabs'[new], nav')
        BY <2>19, <4>1 DEF BoundAre
      <4> QED BY <4>2, <4>3
    <3>2. ASSUME NEW x \in Whole, x \in DOMAIN tabs
          PROVE  /\ ItemsAre(kids'[x], tabs'[x], nav')
                 /\ Update(x) \notin ToSet(queue') => BoundAre(kids'[x], tabs'[x], nav')
      <4>1. \A i \in DOMAIN tabs[x] : nav'[tabs[x][i]] = nav[tabs[x][i]]
        BY <1>1, <2>8, <3>2, ItemTypes
      <4>2. ItemsAre(kids[x], tabs[x], nav) /\ (Update(x) \notin ToSet(queue) => BoundAre(kids[x], tabs[x], nav))
        BY <1>1 DEF WindowsInv
      <4>3. ItemsAre(kids[x], tabs[x], nav')
            /\ (BoundAre(kids[x], tabs[x], nav) => BoundAre(kids[x], tabs[x], nav'))
        BY <4>1, <4>2, BoundAsBefore
      <4> QED BY <1>2, <2>5, <2>7, <3>2, <4>2, <4>3
    <3> QED BY <2>18, <3>1, <3>2 DEF WindowsInv
  <2>21. PICK list : list = Append(tree.lists[Root], new)
    OBVIOUS
  <2>22. /\ DOMAIN tree' = DOMAIN NoTree
         /\ tree'.state \in {"none", "open"} /\ tree'.misread \in BOOLEAN
         /\ DOMAIN tree'.lists = DOMAIN tree.lists
         /\ Told' => /\ Told /\ Root \in DOMAIN tree.lists /\ tree'.lists[Root] = list
                     /\ \A k \in DOMAIN tree.lists \ {Root} : tree'.lists[k] = tree.lists[k]
    BY <1>1, <2>5, <2>21, Applying
  <2>23. DOMAIN tree.lists \subseteq 0 .. nextId /\ DOMAIN tree'.lists \subseteq 0 .. nextId'
    BY <1>1, <2>9, <2>22, Types, Growing
  <2>24. ASSUME Told'
         PROVE  /\ Root \in DOMAIN tree'.lists /\ tree'.lists[Root] = windows'
                /\ \A x \in Whole' : ReadAre(x, kids'[x], tree'.lists)
    <3>1. tree.lists[Root] = windows /\ \A x \in Whole : ReadAre(x, kids[x], tree.lists)
      BY <1>1, <2>22, <2>24 DEF TreeInv
    <3>2. ASSUME NEW x \in Whole, x \in DOMAIN tabs PROVE ReadAre(x, kids'[x], tree'.lists)
      <4>1. ReadAre(x, kids[x], tree.lists)
        BY <3>1
      <4>2. x # Root /\ \A j \in DOMAIN kids[x] : kids[x][j].id # Root
        BY <1>1, <3>2, Apart
      <4> QED BY <2>7, <2>22, <2>24, <3>2, <4>1, <4>2 DEF ReadAre
    <3>3. ReadAre(new, kids'[new], tree'.lists)
      <4>1. \A i \in 1 .. count : kids'[new][i].id = new + count + i /\ new + count + i \notin 0 .. nextId
        <5>1. \A i \in 1 .. count : new + count + i \notin 0 .. nextId
          BY <2>3, <2>4
        <5> QED BY <2>12, <5>1
      <4> QED BY <2>6, <2>19, <2>22, <2>23, <4>1 DEF ReadAre
    <3> QED BY <2>5, <2>18, <2>21, <2>22, <2>24, <3>1, <3>2, <3>3
  <2>25. TreeInv'
    BY <2>22, <2>24 DEF TreeInv, NoTree
  <2>26. TypeOK'
    <3>1. queue' \in Seq(Tasks') /\ timer' \in Nat \union {Off}
      <4>1. PICK q \in Seq(Tasks) : q = queue'
        BY <1>2, <2>5
      <4> QED BY <1>1, <2>5, <2>9, <4>1, Timing, Growing
    <3>2. phase' \in {"running", "exited"} /\ ops' \in 0 .. MaxOps
          /\ DOMAIN tabs' = DOMAIN current' /\ DOMAIN tabs' = DOMAIN kids' /\ torn' \subseteq DOMAIN tabs'
      BY <1>1, <2>3, <2>5, <2>7, Types
    <3> QED BY <1>1, <2>9, <2>11, <2>14, <2>17, <2>22, <2>23, <3>1, <3>2, IsTyped
  <2> QED BY <2>15, <2>16, <2>20, <2>25, <2>26 DEF IInv
<1> QED BY <1>3, <1>4

-----------------------------------------------------------------------------
(* The invariant *)

\* The loaded layout has the invariant.
LEMMA InitInv == Init => IInv
<1> SUFFICES ASSUME Init PROVE IInv
  OBVIOUS
<1> DEFINE item(i) == WholeItem(3 + i, 1 + i, 5 + i, i, FirstModel)
<1>1. /\ phase = "running" /\ ops = 0 /\ windows = <<1>> /\ nextId = 7 /\ queue = <<>> /\ timer = Off
      /\ tree = NoTree /\ torn = {}
      /\ DOMAIN tabs = {1} /\ DOMAIN current = {1} /\ DOMAIN kids = {1} /\ DOMAIN nav = {2, 3}
      /\ tabs[1] = <<2, 3>> /\ current[1] = 1 /\ kids[1] = [i \in 1 .. 2 |-> item(i)]
      /\ \A v \in {2, 3} : nav[v] = Fresh(FirstModel)
  BY DEF Init
<1>2. FirstModel \in Shown /\ MaxOps \in Nat
  BY ControllerAssumption DEF Shown
<1>3. /\ nav[2].model = FirstModel /\ nav[3].model = FirstModel
      /\ Fresh(FirstModel).prev = None /\ Fresh(FirstModel).next = None /\ Fresh(FirstModel).model = FirstModel
  BY <1>1 DEF Fresh
<1>4. NavsInv
  <2>1. Linked({Fresh(FirstModel)})
    BY <1>2, <1>3 DEF Linked
  <2> QED BY <1>1, <2>1 DEF NavsInv
<1>5. DOMAIN kids[1] = 1 .. 2 /\ kids[1][1] = item(1) /\ kids[1][2] = item(2)
  BY <1>1
<1>6. /\ item(1) \in Items /\ item(2) \in Items
      /\ item(1).id = 4 /\ item(2).id = 5 /\ item(1).view = 2 /\ item(2).view = 3
      /\ item(1).shows = FirstModel /\ item(2).shows = FirstModel
      /\ item(1).bound = [idx |-> 1, model |-> FirstModel] /\ item(2).bound = [idx |-> 2, model |-> FirstModel]
  BY <1>1, <1>2 DEF Items, WholeItem
<1> HIDE DEF item
<1>7. 1 .. 2 = {1, 2}
  OBVIOUS
<1>8. kids[1] \in Seq(Items)
  <2>1. PICK S, f : S = Items /\ f = kids[1]
    OBVIOUS
  <2>2. f \in [1 .. 2 -> S]
    BY <1>1, <1>5, <1>6, <1>7, <2>1
  <2>3. f \in Seq(S)
    BY <2>2, IsSeq
  <2> QED BY <2>1, <2>3
<1>9. DOMAIN ItemIds(kids[1]) = {1, 2} /\ ItemIds(kids[1])[1] = 4 /\ ItemIds(kids[1])[2] = 5
  BY <1>5, <1>6, <1>7 DEF ItemIds
<1>10. IdsInv
  <2>1. IsInjective(ItemIds(kids[1]))
    BY <1>9 DEF IsInjective
  <2>2. 1 \notin ToSet(ItemIds(kids[1]))
    BY <1>9 DEF ToSet
  <2> QED BY <1>1, <2>1, <2>2 DEF IdsInv
<1>11. DOMAIN tabs[1] = {1, 2} /\ tabs[1][1] = 2 /\ tabs[1][2] = 3 /\ Len(tabs[1]) = 2
  BY <1>1, <1>7
<1>12. ItemsAre(kids[1], tabs[1], nav) /\ BoundAre(kids[1], tabs[1], nav)
  <2>1. \A i \in {1, 2} : /\ kids[1][i].view = tabs[1][i]
                          /\ kids[1][i].shows = nav[tabs[1][i]].model
                          /\ kids[1][i].bound = [idx |-> i, model |-> nav[tabs[1][i]].model]
    BY <1>3, <1>5, <1>6, <1>11
  <2> QED BY <1>5, <1>7, <1>11, <2>1 DEF ItemsAre, BoundAre
<1>13. Whole = {1} /\ WindowsInv
  BY <1>1, <1>12 DEF Whole, WindowsInv
<1>14. TreeInv
  BY <1>1 DEF TreeInv, Told, NoTree
<1>15. TypeOK
  <2>1. /\ tabs[1] \in Seq(DOMAIN nav) /\ IsInjective(tabs[1]) /\ current[1] \in 0 .. Len(tabs[1])
    BY <1>1, <1>11 DEF IsInjective
  <2>2. windows \in Seq(DOMAIN tabs) /\ windows # <<>> /\ IsInjective(windows) /\ queue \in Seq(Tasks)
    BY <1>1 DEF IsInjective
  <2>3. DOMAIN tree.lists = {} /\ tree.state = "none" /\ tree.misread = FALSE
    BY <1>1 DEF NoTree
  <2>4. /\ phase \in {"running", "exited"} /\ ops \in 0 .. MaxOps /\ nextId \in Nat
        /\ timer \in Nat \union {Off} /\ DOMAIN tabs \subseteq 1 .. nextId /\ DOMAIN nav \subseteq 1 .. nextId
    BY <1>1, <1>2
  <2> QED BY <1>1, <1>8, <2>1, <2>2, <2>3, <2>4 DEF TypeOK
<1> QED BY <1>4, <1>10, <1>13, <1>14, <1>15 DEF IInv

\* Every step keeps the invariant.
LEMMA NextInv == IInv /\ [Next]_vars => IInv'
<1> SUFFICES ASSUME IInv, [Next]_vars PROVE IInv'
  OBVIOUS
<1>1. ASSUME NEW i \in DOMAIN windows,
             Works(windows[i]) /\ (ClickElement(windows[i]) \/ ClickWindow(windows[i]))
      PROVE  IInv'
  <2>1. PICK w \in DOMAIN tabs : w = windows[i]
    BY WholeAreWindows DEF IInv
  <2>2. ClickElement(w) \/ ClickWindow(w)
    BY <1>1, <2>1
  <2> QED BY <2>2, ClickElementKeeps, ClickWindowKeeps
<1>2. ASSUME NEW i \in DOMAIN windows, Works(windows[i]) /\ SwitchTab(windows[i])
      PROVE  IInv'
  <2>1. PICK w \in DOMAIN tabs : w = windows[i]
    BY WholeAreWindows DEF IInv
  <2>2. SwitchTab(w)
    BY <1>2, <2>1
  <2> QED BY <2>2, SwitchTabKeeps
<1>3. ASSUME NEW i \in DOMAIN windows, CloseWindow(i)
      PROVE  IInv'
  BY <1>3, CloseWindowKeeps
<1>4. CASE OpenTree
  BY <1>4, OpenTreeKeeps
<1>5. CASE Expand
  BY <1>5, ExpandKeeps
<1>6. CASE ExpandItem
  BY <1>6, ExpandItemKeeps
<1>7. CASE RunTask
  BY <1>7, RunUpdateKeeps, RunNavigatorKeeps, RunTabsKeeps, RunDuplicateWindowKeeps, RunQuitKeeps DEF RunTask
<1>8. CASE SaveState
  BY <1>8, SaveStateKeeps
<1>9. CASE UNCHANGED vars
  <2>1. /\ UNCHANGED <<windows, tabs, current, nav, kids, nextId, tree, torn>>
        /\ UNCHANGED <<phase, ops, queue, timer>>
    BY <1>9 DEF vars
  <2>2. TypeOK
    BY DEF IInv
  <2> QED BY <2>1, <2>2, Types, QuietStep
<1> QED BY <1>1, <1>2, <1>3, <1>4, <1>5, <1>6, <1>7, <1>8, <1>9 DEF Next

\* The inductive invariant holds in every reachable state, for any models, bounds and clicks.
THEOREM Invariance == Spec => []IInv
<1>1. Init => IInv
  BY InitInv
<1>2. IInv /\ [Next]_vars => IInv'
  BY NextInv
<1> QED BY <1>1, <1>2, PTL DEF Spec

\* The items of a window are always those of its views, in the same order.  About
\* _Item and the views that call its hooks.
THEOREM ItemsMatch == Spec => []ItemsMatchViews
<1>1. IInv => ItemsMatchViews
  <2> SUFFICES ASSUME IInv, NEW w \in Whole
               PROVE  /\ [i \in DOMAIN kids[w] |-> kids[w][i].view] = tabs[w]
                      /\ \A i \in DOMAIN kids[w] :
                          kids[w][i].child # 0 => kids[w][i].shows = nav[kids[w][i].view].model
    BY DEF IInv, ItemsMatchViews
  <2>1. ItemsAre(kids[w], tabs[w], nav)
    BY DEF IInv, WindowsInv
  <2>2. tabs[w] = [i \in DOMAIN tabs[w] |-> tabs[w][i]]
    <3>1. w \in DOMAIN tabs
      BY WholeAreWindows DEF IInv
    <3>2. tabs[w] \in Seq(DOMAIN nav)
      BY <3>1, Types DEF IInv, WindowOK
    <3>3. tabs[w] \in [1 .. Len(tabs[w]) -> DOMAIN nav]
      BY <3>2, LenProperties
    <3> QED BY <3>3
  <2>3. [i \in DOMAIN kids[w] |-> kids[w][i].view] = tabs[w]
    BY <2>1, <2>2 DEF ItemsAre
  <2> QED BY <2>1, <2>3 DEF ItemsAre
<1> QED BY <1>1, Invariance, PTL

\* A command of an item acts on what it is shown for when no update of its window waits.
\* About children_changed and update_children.
THEOREM CommandsStayCurrent == Spec => []CommandsAreCurrent
<1>1. IInv => CommandsAreCurrent
  <2> SUFFICES ASSUME IInv, NEW w \in Whole, Update(w) \notin {queue[i] : i \in DOMAIN queue}
               PROVE  \A i \in DOMAIN kids[w] :
                        kids[w][i].bound = [idx |-> i, model |-> nav[kids[w][i].view].model]
    BY DEF CommandsAreCurrent
  <2>1. ItemsAre(kids[w], tabs[w], nav) /\ BoundAre(kids[w], tabs[w], nav)
    BY DEF IInv, WindowsInv, ToSet
  <2> QED BY <2>1 DEF ItemsAre, BoundAre
<1> QED BY <1>1, Invariance, PTL

\* The lists the layout tree has read stay those of the windows and items, unless a diff came
\* for a list that was not read.  About the diffs of the hooks and the tree adapter.
THEOREM TreeIsFollowing == Spec => []TreeFollows
<1>1. IInv => TreeFollows
  BY DEF IInv, TreeInv, Told, TreeFollows, ReadAre
<1> QED BY <1>1, Invariance, PTL

-----------------------------------------------------------------------------
(* The trails of navigators *)

\* What holds of 0, and of a number when of the one before, holds of all of them.
LEMMA UpTo ==
    ASSUME NEW L \in Nat, NEW S, 0 \in S, \A n \in 0 .. L : n < L /\ n \in S => n + 1 \in S
    PROVE  0 .. L \subseteq S
<1> DEFINE bad == {n \in Nat : n <= L /\ n \notin S}
           less == {p \in Nat \X Nat : p[1] < p[2]}
<1> SUFFICES ASSUME bad # {} PROVE FALSE
  OBVIOUS
<1>1. IsWellFoundedOn(less, Nat)
  <2>1. OpToRel(<, Nat) = less
    BY DEF OpToRel
  <2> QED BY <2>1, NatLessThanWellFounded
<1>2. bad \subseteq Nat /\ bad # {}
  OBVIOUS
<1> HIDE DEF less
<1>3. PICK m \in bad : \A k \in bad : <<k, m>> \notin less
  BY <1>1, <1>2, WFMin, Zenon
<1>4. \A k \in bad : ~(k < m)
  BY <1>3 DEF less
<1>5. m \in Nat /\ m # 0 /\ m <= L /\ m \notin S
  BY <1>3
<1>6. m - 1 \in 0 .. L /\ m - 1 < L /\ m - 1 < m /\ (m - 1) + 1 = m
  BY <1>5
<1>7. m - 1 \in S
  BY <1>4, <1>6
<1> QED BY <1>5, <1>6, <1>7

\* The records from n on to one side, up to the last.
IsChain(c, n, side) ==
    /\ Len(c) \in Nat \ {0} /\ c[1] = n
    /\ \A i \in 1 .. Len(c) - 1 : Beside(c[i], side) # None /\ c[i + 1] = Beside(c[i], side)
    /\ Beside(c[Len(c)], side) = None

\* A chain that is not longer than the limit is what Chain gives.
LEMMA ChainIs ==
    ASSUME NEW S, NEW c \in Seq(S), NEW n, NEW side, NEW limit \in Nat,
           IsChain(c, n, side), Len(c) <= limit + 1
    PROVE  Chain(n, side, limit) = c
<1> DEFINE L == Len(c)
           Longer(d) == IF Beside(Last(d), side) = None THEN d ELSE Append(d, Beside(Last(d), side))
           Is(f) == f = [k \in 0 .. limit |-> IF k = 0 THEN <<n>> ELSE Longer(f[k - 1])]
           chain == CHOOSE f : Is(f)
           Size(k) == IF k < L THEN k + 1 ELSE L
           Part(k) == [i \in 1 .. Size(k) |-> c[i]]
           parts == [k \in 0 .. limit |-> Part(k)]
<1>1. /\ L \in Nat \ {0} /\ L <= limit + 1 /\ c[1] = n /\ DOMAIN c = 1 .. L
      /\ \A i \in 1 .. L - 1 : Beside(c[i], side) # None /\ c[i + 1] = Beside(c[i], side)
      /\ Beside(c[L], side) = None
      /\ \A i \in 1 .. L : c[i] \in S
  BY ElementOfSeq, LenProperties DEF IsChain
<1>l. PICK len \in Nat : len = L /\ len <= limit + 1 /\ len # 0
  BY <1>1
<1>s. \A k : Size(k) = IF k < len THEN k + 1 ELSE len
  BY <1>l
<1>2. Chain(n, side, limit) = chain[limit]
  BY DEF Chain
<1>3. ASSUME NEW k \in 0 .. limit
      PROVE  /\ Size(k) \in 1 .. L /\ Part(k) \in Seq(S) /\ Len(Part(k)) = Size(k)
             /\ Last(Part(k)) = c[Size(k)]
  <2>1. Size(k) \in 1 .. L
    BY <1>1
  <2> HIDE DEF Size, L
  <2>2. Size(k) \in Nat /\ Part(k) \in [1 .. Size(k) -> S]
    BY <1>1, <2>1
  <2> HIDE DEF Part
  <2>3. Part(k) \in Seq(S) /\ Len(Part(k)) = Size(k)
    BY <2>2, IsSeq
  <2>4. Part(k)[Size(k)] = c[Size(k)]
    BY <1>1, <2>1 DEF Part
  <2> QED BY <2>1, <2>3, <2>4 DEF Last
<1>4. Part(0) = <<n>>
  <2>1. Size(0) = 1
    BY <1>1
  <2>2. Part(0) = [i \in 1 .. 1 |-> n]
    BY <1>1, <2>1
  <2> QED BY <2>2
<1>5. ASSUME NEW k \in 1 .. limit PROVE Part(k) = Longer(Part(k - 1))
  <2>0. k - 1 \in 0 .. limit /\ k \in 0 .. limit
    OBVIOUS
  <2>1. CASE k < L
    <3>1. Size(k - 1) = k /\ Size(k) = k + 1
      <4> HIDE DEF Size, L
      <4> QED BY <1>l, <1>s, <2>1
    <3>2. /\ Part(k - 1) \in Seq(S) /\ Len(Part(k - 1)) = k /\ Last(Part(k - 1)) = c[k]
          /\ Part(k) \in Seq(S) /\ Len(Part(k)) = k + 1
      BY <1>3, <2>0, <3>1
    <3>3. Beside(c[k], side) # None /\ c[k + 1] = Beside(c[k], side) /\ c[k + 1] \in S
      BY <1>1, <2>1
    <3>4. /\ \A i \in 1 .. k : Part(k - 1)[i] = c[i]
          /\ \A i \in 1 .. k + 1 : Part(k)[i] = c[i]
      BY <3>1
    <3> HIDE DEF Part, Size, L
    <3>5. Part(k) = Append(Part(k - 1), c[k + 1])
      BY <3>2, <3>3, <3>4
    <3> QED BY <3>2, <3>3, <3>5
  <2>2. CASE ~(k < L)
    <3>1. Size(k - 1) = L /\ Size(k) = L
      <4> HIDE DEF Size, L
      <4> QED BY <1>l, <1>s, <2>2
    <3>2. Last(Part(k - 1)) = c[L]
      BY <1>3, <2>0, <3>1
    <3>3. Part(k) = Part(k - 1)
      BY <3>1
    <3> HIDE DEF Part, Size, L
    <3> QED BY <1>1, <3>2, <3>3
  <2> QED BY <2>1, <2>2
<1> HIDE DEF Part, Longer
<1>6. Is(parts)
  <2>1. \A k \in 0 .. limit : Part(k) = IF k = 0 THEN <<n>> ELSE Longer(parts[k - 1])
    BY <1>4, <1>5
  <2> QED BY <2>1
<1>7. Is(chain)
  <2> HIDE DEF parts, Is
  <2> QED BY <1>6
<1> HIDE DEF chain, parts
<1>8. chain[0] = <<n>> /\ \A k \in 1 .. limit : chain[k] = Longer(chain[k - 1])
  BY <1>7
<1> DEFINE T == {k \in 0 .. limit : chain[k] = Part(k)}
<1>9. 0 \in T
  BY <1>4, <1>8
<1>10. ASSUME NEW k \in 0 .. limit, k < limit, k \in T PROVE k + 1 \in T
  <2>1. k + 1 \in 1 .. limit /\ (k + 1) - 1 = k
    BY <1>10
  <2> QED BY <1>5, <1>8, <1>10, <2>1
<1>11. 0 .. limit \subseteq T
  <2> HIDE DEF T
  <2> QED BY <1>9, <1>10, UpTo
<1>12. chain[limit] = Part(limit)
  BY <1>11
<1>13. Part(limit) = c
  <2>1. Size(limit) = L
    <3> HIDE DEF Size, L
    <3> QED BY <1>l, <1>s
  <2>2. c = [i \in 1 .. L |-> c[i]]
    BY <1>1
  <2> QED BY <2>1, <2>2 DEF Part
<1> QED BY <1>2, <1>12, <1>13

\* A record with nothing to one side.
LEMMA ChainEnds ==
    ASSUME NEW n, NEW side, Beside(n, side) = None
    PROVE  <<n>> \in Seq({n}) /\ IsChain(<<n>>, n, side) /\ Len(<<n>>) = 1 /\ <<n>>[1] = n
BY DEF IsChain

\* A record before a chain.
LEMMA ChainGrows ==
    ASSUME NEW S, NEW c \in Seq(S), NEW n, NEW m, NEW side,
           IsChain(c, n, side), n # None, Beside(m, side) = n
    PROVE  \E T, d : /\ d \in Seq(T) /\ IsChain(d, m, side) /\ Len(d) = Len(c) + 1
                     /\ d[1] = m /\ \A i \in 1 .. Len(c) : d[i + 1] = c[i]
<1> DEFINE L == Len(c)
           d == [i \in 1 .. L + 1 |-> IF i = 1 THEN m ELSE c[i - 1]]
           T == S \union {m}
<1>1. /\ L \in Nat \ {0} /\ c[1] = n
      /\ \A i \in 1 .. L - 1 : Beside(c[i], side) # None /\ c[i + 1] = Beside(c[i], side)
      /\ Beside(c[L], side) = None
      /\ \A i \in 1 .. L : c[i] \in S
  BY ElementOfSeq DEF IsChain
<1> HIDE DEF L
<1>2. L + 1 \in Nat /\ d \in [1 .. L + 1 -> T]
  BY <1>1
<1>3. d[1] = m /\ \A i \in 1 .. L : d[i + 1] = c[i]
  BY <1>1
<1> HIDE DEF d, T
<1>4. d \in Seq(T) /\ Len(d) = L + 1
  BY <1>2, IsSeq
<1>5. \A i \in 1 .. L : Beside(d[i], side) # None /\ d[i + 1] = Beside(d[i], side)
  <2> SUFFICES ASSUME NEW i \in 1 .. L
               PROVE  Beside(d[i], side) # None /\ d[i + 1] = Beside(d[i], side)
    OBVIOUS
  <2>1. CASE i = 1
    BY <1>1, <1>3, <2>1
  <2>2. CASE i # 1
    <3>1. PICK k \in 1 .. L - 1 : k + 1 = i /\ k \in 1 .. L
      BY <1>1, <2>2
    <3>2. d[i] = c[k] /\ d[i + 1] = c[i]
      BY <1>3, <3>1
    <3>3. Beside(c[k], side) # None /\ c[k + 1] = Beside(c[k], side)
      BY <1>1
    <3> QED BY <3>1, <3>2, <3>3
  <2> QED BY <2>1, <2>2
<1>6. IsChain(d, m, side)
  <2>1. d[L + 1] = c[L]
    BY <1>1, <1>3
  <2> QED BY <1>1, <1>3, <1>4, <1>5, <2>1 DEF IsChain
<1> QED BY <1>3, <1>4, <1>6 DEF L

\* A record in the place of the first two of a chain.
LEMMA ChainShrinks ==
    ASSUME NEW S, NEW c \in Seq(S), NEW n, NEW m, NEW side,
           IsChain(c, n, side), Beside(n, side) # None, Beside(m, side) = Beside(Beside(n, side), side)
    PROVE  \E T, d : /\ d \in Seq(T) /\ IsChain(d, m, side) /\ Len(d) = Len(c) - 1
                     /\ d[1] = m /\ c[2] = Beside(n, side)
                     /\ \A i \in 2 .. Len(c) - 1 : d[i] = c[i + 1]
<1> DEFINE L == Len(c)
           d == [i \in 1 .. L - 1 |-> IF i = 1 THEN m ELSE c[i + 1]]
           T == S \union {m}
<1>1. /\ L \in Nat \ {0} /\ c[1] = n
      /\ \A i \in 1 .. L - 1 : Beside(c[i], side) # None /\ c[i + 1] = Beside(c[i], side)
      /\ Beside(c[L], side) = None
      /\ \A i \in 1 .. L : c[i] \in S
  BY ElementOfSeq DEF IsChain
<1> HIDE DEF L
<1>2. L # 1 /\ L - 1 \in Nat \ {0} /\ c[2] = Beside(n, side)
  BY <1>1
<1>3. d \in [1 .. L - 1 -> T]
  BY <1>1, <1>2
<1>4. d[1] = m /\ \A i \in 2 .. L - 1 : d[i] = c[i + 1]
  BY <1>1, <1>2
<1> HIDE DEF d, T
<1>5. d \in Seq(T) /\ Len(d) = L - 1
  BY <1>2, <1>3, IsSeq
<1>6. \A i \in 1 .. L - 1 : Beside(d[i], side) = Beside(c[i + 1], side)
  BY <1>1, <1>2, <1>4
<1>7. ASSUME NEW i \in 1 .. (L - 1) - 1 PROVE Beside(d[i], side) # None /\ d[i + 1] = Beside(d[i], side)
  <2>1. i + 1 \in 1 .. L - 1 /\ i + 1 \in 2 .. L - 1 /\ i \in 1 .. L - 1
    BY <1>1
  <2> QED BY <1>1, <1>4, <1>6, <2>1
<1>8. Beside(d[L - 1], side) = None
  <2>1. L - 1 \in 1 .. L - 1 /\ (L - 1) + 1 = L
    BY <1>2, <1>1
  <2> QED BY <1>1, <1>6, <2>1
<1> QED BY <1>2, <1>4, <1>5, <1>7, <1>8 DEF L, IsChain

\* The chains of a navigator to both sides come to an end.
SideEnds(n, side, limit) ==
    \E S, c : c \in Seq(S) /\ IsChain(c, n, side) /\ Len(c) <= limit + 1
Ends(n, limit) == n # None /\ SideEnds(n, "prev", limit) /\ SideEnds(n, "next", limit)

\* The trail that two chains of a navigator make.
TrailOf(p, f) ==
    [i \in 1 .. Len(p) + Len(f) - 1 |->
        IF i <= Len(p) THEN p[Len(p) + 1 - i].model ELSE f[i - Len(p) + 1].model]

\* It is the one that is read off the navigator.
LEMMA TrailIs ==
    ASSUME NEW S, NEW p \in Seq(S), NEW T, NEW f \in Seq(T), NEW n, NEW limit \in Nat,
           IsChain(p, n, "prev"), IsChain(f, n, "next"), Len(p) <= limit + 1, Len(f) <= limit + 1
    PROVE  Here(n, limit) = Len(p) /\ Trail(n, limit) = TrailOf(p, f)
<1>1. Chain(n, "prev", limit) = p
  BY ChainIs
<1>2. Chain(n, "next", limit) = f
  BY ChainIs
<1> QED BY <1>1, <1>2 DEF Here, Trail, TrailOf

\* A new navigator.
LEMMA FreshEnds ==
    ASSUME NEW model, NEW limit \in Nat
    PROVE  Ends(Fresh(model), limit)
<1>1. PICK n : n = Fresh(model)
  OBVIOUS
<1>2. n # None /\ Beside(n, "prev") = None /\ Beside(n, "next") = None
  BY <1>1 DEF Fresh, None, Beside
<1>3. ASSUME NEW side \in {"prev", "next"} PROVE SideEnds(n, side, limit)
  <2>1. <<n>> \in Seq({n}) /\ IsChain(<<n>>, n, side) /\ Len(<<n>>) <= limit + 1
    BY <1>2, <1>3, ChainEnds
  <2> QED BY <2>1 DEF SideEnds
<1> QED BY <1>1, <1>2, <1>3 DEF Ends

\* What ends within a limit does so within a greater one.
LEMMA EndsLater ==
    ASSUME NEW n, NEW k \in Nat, NEW l \in Nat, k <= l, Ends(n, k)
    PROVE  Ends(n, l)
<1>1. ASSUME NEW side \in {"prev", "next"} PROVE SideEnds(n, side, l)
  <2>1. PICK S, c : c \in Seq(S) /\ IsChain(c, n, side) /\ Len(c) <= k + 1
    BY DEF Ends, SideEnds
  <2>2. Len(c) <= l + 1
    BY <2>1 DEF IsChain
  <2> QED BY <2>1, <2>2 DEF SideEnds
<1> QED BY <1>1 DEF Ends

\* To open a model cuts the trail behind the record that was shown, and adds the model.
LEMMA OpenedTrail ==
    ASSUME NEW n, NEW model, NEW k \in Nat, Ends(n, k)
    PROVE  /\ Ends(Opened(n, model), k + 1)
           /\ Trail(Opened(n, model), k + 1) = Append(SubSeq(Trail(n, k), 1, Here(n, k)), model)
<1>1. PICK o : o = Opened(n, model)
  OBVIOUS
<1>2. o # None /\ Beside(o, "prev") = n /\ Beside(o, "next") = None /\ o.model = model
  BY <1>1 DEF Opened, None, Beside
<1>3. PICK S, p : p \in Seq(S) /\ IsChain(p, n, "prev") /\ Len(p) <= k + 1
  BY DEF Ends, SideEnds
<1>4. PICK T, f : f \in Seq(T) /\ IsChain(f, n, "next") /\ Len(f) <= k + 1
  BY DEF Ends, SideEnds
<1>5. PICK U, q : /\ q \in Seq(U) /\ IsChain(q, o, "prev") /\ Len(q) = Len(p) + 1
                  /\ q[1] = o /\ \A i \in 1 .. Len(p) : q[i + 1] = p[i]
  BY <1>2, <1>3, ChainGrows DEF Ends
<1>6. <<o>> \in Seq({o}) /\ IsChain(<<o>>, o, "next") /\ Len(<<o>>) = 1 /\ <<o>>[1] = o
  BY <1>2, ChainEnds
<1>7. PICK P \in Nat, F \in Nat : P = Len(p) /\ F = Len(f) /\ P # 0 /\ F # 0 /\ P <= k + 1 /\ F <= k + 1
  BY <1>3, <1>4 DEF IsChain
<1>8. Len(q) = P + 1 /\ Len(q) <= (k + 1) + 1 /\ Len(<<o>>) <= (k + 1) + 1 /\ k + 1 \in Nat
  BY <1>5, <1>6, <1>7
<1>9. Ends(o, k + 1)
  <2>1. SideEnds(o, "prev", k + 1)
    BY <1>5, <1>8 DEF SideEnds
  <2>2. SideEnds(o, "next", k + 1)
    BY <1>6, <1>8 DEF SideEnds
  <2> QED BY <1>2, <2>1, <2>2 DEF Ends
<1>10. Here(n, k) = P /\ Trail(n, k) = TrailOf(p, f)
  BY <1>3, <1>4, <1>7, TrailIs
<1>11. Trail(o, k + 1) = TrailOf(q, <<o>>)
  BY <1>5, <1>6, <1>8, TrailIs
<1>12. /\ TrailOf(q, <<o>>) = [i \in 1 .. P + 1 |-> q[P + 2 - i].model]
       /\ \A i \in 1 .. P : TrailOf(p, f)[i] = p[P + 1 - i].model
  <2>1. \A i \in 1 .. P : i \in 1 .. P + F - 1 /\ i <= P
    BY <1>7
  <2>2. \A i \in 1 .. P : TrailOf(p, f)[i] = p[P + 1 - i].model
    BY <1>7, <2>1 DEF TrailOf
  <2>3. TrailOf(q, <<o>>) = [i \in 1 .. (P + 1) + 1 - 1 |->
            IF i <= P + 1 THEN q[(P + 1) + 1 - i].model ELSE <<o>>[i - (P + 1) + 1].model]
    BY <1>6, <1>8 DEF TrailOf
  <2>4. 1 .. (P + 1) + 1 - 1 = 1 .. P + 1 /\ \A i \in 1 .. P + 1 : i <= P + 1 /\ (P + 1) + 1 - i = P + 2 - i
    BY <1>7
  <2> QED BY <2>2, <2>3, <2>4
<1> DEFINE M == {TrailOf(p, f)[i] : i \in 1 .. P + F - 1}
           cut == SubSeq(TrailOf(p, f), 1, P)
<1>13. /\ TrailOf(p, f) \in Seq(M) /\ Len(TrailOf(p, f)) = P + F - 1
  <2>1. PICK N \in Nat : N = P + F - 1
    BY <1>7
  <2>2. TrailOf(p, f) \in [1 .. N -> M]
    BY <1>7, <2>1 DEF TrailOf
  <2> HIDE DEF M
  <2> QED BY <2>1, <2>2, IsSeq
<1> HIDE DEF M
<1>14. cut \in Seq(M) /\ Len(cut) = P /\ \A i \in 1 .. P : cut[i] = TrailOf(p, f)[i]
  BY <1>7, <1>13, SubSeqProperties
<1> HIDE DEF cut
<1>15. /\ \A i \in 1 .. P : q[P + 2 - i].model = cut[i]
       /\ q[P + 2 - (P + 1)].model = model
  <2>1. \A i \in 1 .. P : P + 1 - i \in 1 .. P /\ (P + 1 - i) + 1 = P + 2 - i
    BY <1>7
  <2>2. \A i \in 1 .. P : q[P + 2 - i] = p[P + 1 - i]
    BY <1>5, <1>7, <2>1
  <2>3. P + 2 - (P + 1) = 1
    BY <1>7
  <2> QED BY <1>2, <1>5, <1>12, <1>14, <2>2, <2>3
<1>16. TrailOf(q, <<o>>) = Append(cut, model)
  <2>1. Append(cut, model) = [i \in 1 .. P + 1 |-> IF i <= P THEN cut[i] ELSE model]
    <3>1. cut \in Seq(M \union {model})
      BY <1>14, SeqMonotonic
    <3>2. /\ Append(cut, model) \in Seq(M \union {model}) /\ Len(Append(cut, model)) = P + 1
          /\ \A i \in 1 .. P : Append(cut, model)[i] = cut[i]
          /\ Append(cut, model)[P + 1] = model
      BY <1>14, <3>1, AppendProperties
    <3>3. Append(cut, model) = [i \in 1 .. P + 1 |-> Append(cut, model)[i]]
      BY <3>2, LenProperties
    <3>4. \A i \in 1 .. P + 1 : Append(cut, model)[i] = IF i <= P THEN cut[i] ELSE model
      BY <1>7, <3>2
    <3> QED BY <3>3, <3>4
  <2>2. \A i \in 1 .. P + 1 : q[P + 2 - i].model = IF i <= P THEN cut[i] ELSE model
    BY <1>7, <1>15
  <2> QED BY <1>12, <2>1, <2>2
<1> QED BY <1>1, <1>9, <1>10, <1>11, <1>16 DEF cut

\* To go back shows what was before, and the record that was shown is the first behind it.
LEMMA BackTrail ==
    ASSUME NEW n, NEW k \in Nat, Ends(n, k), n.prev # None
    PROVE  Ends(WentBack(n), k + 1) /\ Trail(WentBack(n), k + 1) = Trail(n, k)
<1>1. PICK o : o = WentBack(n)
  OBVIOUS
<1>2. /\ o # None /\ Beside(o, "next") = n /\ o.model = n.prev.model
      /\ Beside(n, "prev") = n.prev /\ Beside(o, "prev") = Beside(Beside(n, "prev"), "prev")
  BY <1>1 DEF WentBack, None, Beside
<1>3. PICK S, p : p \in Seq(S) /\ IsChain(p, n, "prev") /\ Len(p) <= k + 1
  BY DEF Ends, SideEnds
<1>4. PICK T, f : f \in Seq(T) /\ IsChain(f, n, "next") /\ Len(f) <= k + 1
  BY DEF Ends, SideEnds
<1>5. PICK P \in Nat, F \in Nat : /\ P = Len(p) /\ F = Len(f) /\ P # 0 /\ F # 0 /\ P <= k + 1 /\ F <= k + 1
                                /\ p[1] = n /\ f[1] = n
  BY <1>3, <1>4 DEF IsChain
<1>6. PICK U, g : /\ g \in Seq(U) /\ IsChain(g, o, "next") /\ Len(g) = F + 1
                  /\ g[1] = o /\ \A i \in 1 .. F : g[i + 1] = f[i]
  BY <1>2, <1>3, <1>4, <1>5, ChainGrows DEF Ends
<1>7. PICK V, q : /\ q \in Seq(V) /\ IsChain(q, o, "prev") /\ Len(q) = P - 1
                  /\ q[1] = o /\ p[2] = n.prev /\ \A i \in 2 .. P - 1 : q[i] = p[i + 1]
  <2>1. p \in Seq(S) /\ IsChain(p, n, "prev") /\ Beside(n, "prev") # None
    BY <1>2, <1>3
  <2>2. \E V, q : /\ q \in Seq(V) /\ IsChain(q, o, "prev") /\ Len(q) = Len(p) - 1
                 /\ q[1] = o /\ p[2] = Beside(n, "prev")
                 /\ \A i \in 2 .. Len(p) - 1 : q[i] = p[i + 1]
    BY <1>2, <2>1, ChainShrinks
  <2> QED BY <1>2, <1>5, <2>2
<1>8. Len(q) <= (k + 1) + 1 /\ Len(g) <= (k + 1) + 1 /\ k + 1 \in Nat /\ P - 1 \in Nat \ {0}
  BY <1>5, <1>6, <1>7 DEF IsChain
<1>9. Ends(o, k + 1)
  BY <1>2, <1>6, <1>7, <1>8 DEF Ends, SideEnds
<1>10. Trail(n, k) = TrailOf(p, f)
  BY <1>3, <1>4, <1>5, TrailIs
<1>11. Trail(o, k + 1) = TrailOf(q, g)
  BY <1>6, <1>7, <1>8, TrailIs
<1>12. TrailOf(p, f) = [i \in 1 .. P + F - 1 |-> IF i <= P THEN p[P + 1 - i].model ELSE f[i - P + 1].model]
  BY <1>5 DEF TrailOf
<1>13. TrailOf(q, g) = [i \in 1 .. P + F - 1 |->
            IF i <= P - 1 THEN q[P - i].model ELSE g[i - P + 2].model]
  <2>1. TrailOf(q, g) = [i \in 1 .. (P - 1) + (F + 1) - 1 |->
            IF i <= P - 1 THEN q[(P - 1) + 1 - i].model ELSE g[i - (P - 1) + 1].model]
    BY <1>6, <1>7 DEF TrailOf
  <2>2. /\ 1 .. (P - 1) + (F + 1) - 1 = 1 .. P + F - 1
        /\ \A i \in 1 .. P + F - 1 : (P - 1) + 1 - i = P - i /\ i - (P - 1) + 1 = i - P + 2
    BY <1>5
  <2> QED BY <2>1, <2>2
<1>14. ASSUME NEW i \in 1 .. P + F - 1
       PROVE  (IF i <= P - 1 THEN q[P - i].model ELSE g[i - P + 2].model) =
              (IF i <= P THEN p[P + 1 - i].model ELSE f[i - P + 1].model)
  <2>1. CASE i = P - 1
    <3>1. P - i = 1 /\ P + 1 - i = 2 /\ i <= P - 1 /\ i <= P
      BY <1>5, <2>1
    <3> QED BY <1>2, <1>7, <3>1
  <2>2. CASE i < P - 1
    <3>1. P - i \in 2 .. P - 1 /\ (P - i) + 1 = P + 1 - i /\ i <= P - 1 /\ i <= P
      BY <1>5, <2>2
    <3> QED BY <1>7, <3>1
  <2>3. CASE i = P
    <3>1. i - P + 2 = 2 /\ P + 1 - i = 1 /\ ~(i <= P - 1) /\ i <= P /\ 1 \in 1 .. F /\ 1 + 1 = 2
      BY <1>5, <2>3
    <3>2. g[2] = f[1]
      BY <1>6, <3>1
    <3> QED BY <1>5, <3>1, <3>2
  <2>4. CASE i > P
    <3>1. i - P + 1 \in 1 .. F /\ (i - P + 1) + 1 = i - P + 2 /\ ~(i <= P - 1) /\ ~(i <= P)
      BY <1>5, <2>4
    <3> QED BY <1>6, <3>1
  <2> QED BY <1>5, <2>1, <2>2, <2>3, <2>4
<1> QED BY <1>1, <1>9, <1>10, <1>11, <1>12, <1>13, <1>14

\* To go forward shows what was behind, and the record that was shown is the first before it.
LEMMA ForwardTrail ==
    ASSUME NEW n, NEW k \in Nat, Ends(n, k), n.next # None
    PROVE  Ends(WentForward(n), k + 1) /\ Trail(WentForward(n), k + 1) = Trail(n, k)
<1>1. PICK o : o = WentForward(n)
  OBVIOUS
<1>2. /\ o # None /\ Beside(o, "prev") = n /\ o.model = n.next.model
      /\ Beside(n, "next") = n.next /\ Beside(o, "next") = Beside(Beside(n, "next"), "next")
  BY <1>1 DEF WentForward, None, Beside
<1>3. PICK S, p : p \in Seq(S) /\ IsChain(p, n, "prev") /\ Len(p) <= k + 1
  BY DEF Ends, SideEnds
<1>4. PICK T, f : f \in Seq(T) /\ IsChain(f, n, "next") /\ Len(f) <= k + 1
  BY DEF Ends, SideEnds
<1>5. PICK P \in Nat, F \in Nat : /\ P = Len(p) /\ F = Len(f) /\ P # 0 /\ F # 0 /\ P <= k + 1 /\ F <= k + 1
                                /\ p[1] = n /\ f[1] = n
  BY <1>3, <1>4 DEF IsChain
<1>6. PICK U, q : /\ q \in Seq(U) /\ IsChain(q, o, "prev") /\ Len(q) = P + 1
                  /\ q[1] = o /\ \A i \in 1 .. P : q[i + 1] = p[i]
  BY <1>2, <1>3, <1>4, <1>5, ChainGrows DEF Ends
<1>7. PICK V, g : /\ g \in Seq(V) /\ IsChain(g, o, "next") /\ Len(g) = F - 1
                  /\ g[1] = o /\ f[2] = n.next /\ \A i \in 2 .. F - 1 : g[i] = f[i + 1]
  <2>1. f \in Seq(T) /\ IsChain(f, n, "next") /\ Beside(n, "next") # None
    BY <1>2, <1>4
  <2>2. \E V, g : /\ g \in Seq(V) /\ IsChain(g, o, "next") /\ Len(g) = Len(f) - 1
                 /\ g[1] = o /\ f[2] = Beside(n, "next")
                 /\ \A i \in 2 .. Len(f) - 1 : g[i] = f[i + 1]
    BY <1>2, <2>1, ChainShrinks
  <2> QED BY <1>2, <1>5, <2>2
<1>8. Len(q) <= (k + 1) + 1 /\ Len(g) <= (k + 1) + 1 /\ k + 1 \in Nat /\ F - 1 \in Nat \ {0}
  BY <1>5, <1>6, <1>7 DEF IsChain
<1>9. Ends(o, k + 1)
  BY <1>2, <1>6, <1>7, <1>8 DEF Ends, SideEnds
<1>10. Trail(n, k) = TrailOf(p, f)
  BY <1>3, <1>4, <1>5, TrailIs
<1>11. Trail(o, k + 1) = TrailOf(q, g)
  BY <1>6, <1>7, <1>8, TrailIs
<1>12. TrailOf(p, f) = [i \in 1 .. P + F - 1 |-> IF i <= P THEN p[P + 1 - i].model ELSE f[i - P + 1].model]
  BY <1>5 DEF TrailOf
<1>13. TrailOf(q, g) = [i \in 1 .. P + F - 1 |->
            IF i <= P + 1 THEN q[P + 2 - i].model ELSE g[i - P].model]
  <2>1. TrailOf(q, g) = [i \in 1 .. (P + 1) + (F - 1) - 1 |->
            IF i <= P + 1 THEN q[(P + 1) + 1 - i].model ELSE g[i - (P + 1) + 1].model]
    BY <1>6, <1>7 DEF TrailOf
  <2>2. /\ 1 .. (P + 1) + (F - 1) - 1 = 1 .. P + F - 1
        /\ \A i \in 1 .. P + F - 1 : (P + 1) + 1 - i = P + 2 - i /\ i - (P + 1) + 1 = i - P
    BY <1>5
  <2> QED BY <2>1, <2>2
<1>14. ASSUME NEW i \in 1 .. P + F - 1
       PROVE  (IF i <= P + 1 THEN q[P + 2 - i].model ELSE g[i - P].model) =
              (IF i <= P THEN p[P + 1 - i].model ELSE f[i - P + 1].model)
  <2>1. CASE i <= P
    <3>1. P + 1 - i \in 1 .. P /\ (P + 1 - i) + 1 = P + 2 - i /\ i <= P + 1
      BY <1>5, <2>1
    <3> QED BY <1>6, <2>1, <3>1
  <2>2. CASE i = P + 1
    <3>1. P + 2 - i = 1 /\ i - P + 1 = 2 /\ i <= P + 1 /\ ~(i <= P)
      BY <1>5, <2>2
    <3> QED BY <1>2, <1>6, <1>7, <3>1
  <2>3. CASE i > P + 1
    <3>1. i - P \in 2 .. F - 1 /\ (i - P) + 1 = i - P + 1 /\ ~(i <= P + 1) /\ ~(i <= P)
      BY <1>5, <2>3
    <3> QED BY <1>7, <3>1
  <2> QED BY <1>5, <2>1, <2>2, <2>3
<1> QED BY <1>1, <1>9, <1>10, <1>11, <1>12, <1>13, <1>14

\* What a step may do to the navigators: it adds new ones or copies, or moves one.
OnlyAdded ==
    /\ nextId <= nextId' /\ DOMAIN nav \subseteq DOMAIN nav'
    /\ \A v \in DOMAIN nav : nav'[v] = nav[v]
    /\ \A v \in DOMAIN nav' \ DOMAIN nav :
        nav'[v] = Fresh(FirstModel) \/ \E u \in DOMAIN nav : nav'[v] = nav[u]
Moved(n, o) ==
    \/ \E model \in Models \union {ErrorModel} : o = Opened(n, model)
    \/ n.prev # None /\ o = WentBack(n)
    \/ n.next # None /\ o = WentForward(n)
OneMoved ==
    /\ nextId' = nextId + 1 /\ DOMAIN nav' = DOMAIN nav
    /\ \E v \in DOMAIN nav : /\ Moved(nav[v], nav'[v])
                             /\ \A u \in DOMAIN nav : u # v => nav'[u] = nav[u]

\* Nothing is added.
LEMMA NavsStay ==
    ASSUME TypeOK, UNCHANGED <<nav, nextId>>
    PROVE  OnlyAdded
BY Types DEF OnlyAdded

\* RunUpdate numbers items only.
LEMMA UpdateMovesNone ==
    ASSUME IInv, RunUpdate
    PROVE  OnlyAdded
<1> DEFINE w == Head(queue).win
           Counted0 == {j \in 1 .. Len(kids[w]) : kids[w][j].child = 0}
<1>1. TypeOK /\ nextId \in Nat /\ queue \in Seq(Tasks) /\ queue # <<>>
  BY Types DEF IInv, RunUpdate, IsNext
<1>2. Head(queue) \in Tasks
  BY <1>1, Queue
<1>3. w \in DOMAIN tabs
  BY <1>2, TaskTypes
<1>4. Len(kids[w]) \in Nat
  BY <1>1, <1>3, ItemTypes
<1>5. Cardinality(Counted0) \in Nat
  <2>1. IsFiniteSet(1 .. Len(kids[w]))
    BY <1>4, FS_Interval
  <2>2. Counted0 \in SUBSET (1 .. Len(kids[w]))
    OBVIOUS
  <2>3. IsFiniteSet(Counted0)
    BY <2>1, <2>2, FS_Subset
  <2> QED BY <2>3, FS_CardinalityType
<1>6. nav' = nav /\ (nextId' = nextId \/ nextId' = nextId + Cardinality(Counted0))
  BY DEF RunUpdate, Skip
<1> HIDE DEF Counted0
<1>7. nextId <= nextId'
  BY <1>1, <1>5, <1>6
<1> QED BY <1>6, <1>7 DEF OnlyAdded

\* A task of a navigator moves that one only.
LEMMA NavigatorMovesOne ==
    ASSUME IInv, RunNavigator
    PROVE  OnlyAdded \/ OneMoved
<1> DEFINE task == Head(queue)
           w == task.win
           n == nav[task.view]
<1>1. TypeOK /\ queue # <<>> /\ task.kind \in {"open", "back", "forward"}
  BY DEF IInv, RunNavigator, IsNext
<1>2. task \in Tasks
  BY <1>1, Taking
<1>3. task.view \in DOMAIN nav
  BY <1>1, <1>2, TaskTypes
<1>4. CASE Skip
  BY <1>1, <1>4, NavsStay DEF Skip
<1>5. ASSUME NEW i, tabs[w][i] = task.view, NEW o, Moved(n, o), Navigated(w, i, o)
      PROVE  OneMoved
  <2>1. nav' = [nav EXCEPT ![task.view] = o] /\ nextId' = nextId + 1
    BY <1>5 DEF Navigated
  <2>2. /\ DOMAIN nav' = DOMAIN nav /\ nav'[task.view] = o
        /\ \A u \in DOMAIN nav : u # task.view => nav'[u] = nav[u]
    BY <1>3, <2>1
  <2> QED BY <1>3, <1>5, <2>1, <2>2 DEF OneMoved
<1>6. ASSUME NEW i, tabs[w][i] = task.view, NEW model \in Models \union {ErrorModel},
             Navigated(w, i, Opened(n, model))
      PROVE  OneMoved
  <2>1. Moved(n, Opened(n, model))
    BY <1>6 DEF Moved
  <2> QED BY <1>5, <1>6, <2>1
<1>7. ASSUME NEW i, tabs[w][i] = task.view, n.prev # None, Navigated(w, i, WentBack(n))
      PROVE  OneMoved
  <2>1. Moved(n, WentBack(n))
    BY <1>7 DEF Moved
  <2> QED BY <1>5, <1>7, <2>1
<1>8. ASSUME NEW i, tabs[w][i] = task.view, n.next # None, Navigated(w, i, WentForward(n))
      PROVE  OneMoved
  <2>1. Moved(n, WentForward(n))
    BY <1>8 DEF Moved
  <2> QED BY <1>5, <1>8, <2>1
<1>9. \/ Skip
      \/ \E i \in Places(w) :
            /\ tabs[w][i] = task.view
            /\ \/ \E model \in Models \union {ErrorModel} : Navigated(w, i, Opened(n, model))
               \/ n.prev # None /\ Navigated(w, i, WentBack(n))
               \/ n.next # None /\ Navigated(w, i, WentForward(n))
  BY DEF RunNavigator
<1> QED BY <1>4, <1>6, <1>7, <1>8, <1>9

\* A task of the tabs adds a navigator, a new one or a copy.
LEMMA TabsMoveNone ==
    ASSUME IInv, RunTabs
    PROVE  OnlyAdded
<1> DEFINE task == Head(queue)
           w == task.win
<1>1. /\ TypeOK /\ queue # <<>> /\ nextId \in Nat /\ DOMAIN nav \subseteq 1 .. nextId
      /\ task.kind \in {"insert", "remove", "duplicate_tab", "close_tab"}
  BY Types DEF IInv, RunTabs, IsNext
<1>2. task \in Tasks
  BY <1>1, Taking
<1>3. PICK x \in DOMAIN tabs : x = w
  BY <1>1, <1>2, TaskTypes
<1>4. /\ Len(tabs[x]) \in Nat /\ DOMAIN tabs[x] = 1 .. Len(tabs[x]) /\ current[x] \in 0 .. Len(tabs[x])
      /\ \A j \in DOMAIN tabs[x] : tabs[x][j] \in DOMAIN nav
  BY <1>1, ItemTypes, Types DEF WindowOK
<1>5. CASE Skip
  BY <1>1, <1>5, NavsStay DEF Skip
<1>6. ASSUME NEW i, Removed(w, i) PROVE OnlyAdded
  BY <1>1, <1>6, NavsStay DEF Removed
<1>7. ASSUME NEW i, NEW n, Inserted(w, i, n), n = Fresh(FirstModel) \/ \E u \in DOMAIN nav : n = nav[u]
      PROVE  OnlyAdded
  <2>1. nav' = Extended(nav, nextId + 1, n) /\ nextId' = nextId + 2
    BY <1>7 DEF Inserted
  <2>2. nextId + 1 \notin DOMAIN nav /\ nextId <= nextId'
    <3>1. nextId \in Nat /\ nextId' = nextId + 2
      BY <1>1, <2>1
    <3>2. nextId <= nextId'
      BY <3>1
    <3>3. ~(nextId + 1 \in 1 .. nextId)
      BY <3>1
    <3> QED BY <1>1, <3>2, <3>3
  <2>3. /\ DOMAIN nav' = DOMAIN nav \union {nextId + 1} /\ nav'[nextId + 1] = n
        /\ \A v \in DOMAIN nav : nav'[v] = nav[v]
    BY <2>1, <2>2 DEF Extended
  <2> QED BY <1>7, <2>2, <2>3 DEF OnlyAdded
<1>8. CASE Inserted(w, task.idx, Fresh(FirstModel))
  <2>1. PICK n : n = Fresh(FirstModel)
    OBVIOUS
  <2> QED BY <1>7, <1>8, <2>1
<1>9. CASE current[w] # 0 /\ Inserted(w, current[w] + 1, nav[tabs[w][current[w]]])
  <2>1. current[w] \in DOMAIN tabs[w] /\ tabs[w][current[w]] \in DOMAIN nav
    BY <1>3, <1>4, <1>9
  <2>2. PICK n : n = nav[tabs[w][current[w]]]
    OBVIOUS
  <2> QED BY <1>7, <1>9, <2>1, <2>2
<1> QED BY <1>5, <1>6, <1>8, <1>9 DEF RunTabs

\* A new window has copies of the navigators of the old one.
LEMMA WindowMovesNone ==
    ASSUME IInv, RunDuplicateWindow
    PROVE  OnlyAdded
<1> DEFINE task == Head(queue)
<1>1. TypeOK /\ queue # <<>> /\ nextId \in Nat /\ DOMAIN nav \subseteq 1 .. nextId /\ task.kind # "update"
  BY Types DEF IInv, RunDuplicateWindow, IsNext
<1>2. task \in Tasks
  BY <1>1, Taking
<1>3. PICK w \in DOMAIN tabs : w = task.win
  BY <1>1, <1>2, TaskTypes
<1>4. PICK new \in Nat, count \in Nat :
          /\ new = nextId + 1 /\ count = Len(tabs[w])
          /\ \A j \in 1 .. count : tabs[w][j] \in DOMAIN nav
  <2>1. nextId + 1 \in Nat
    BY <1>1
  <2>2. Len(tabs[w]) \in Nat /\ \A j \in 1 .. Len(tabs[w]) : tabs[w][j] \in DOMAIN nav
    <3>1. TypeOK
      BY <1>1
    <3>2. /\ Len(tabs[w]) \in Nat /\ DOMAIN tabs[w] = 1 .. Len(tabs[w])
          /\ \A j \in DOMAIN tabs[w] : tabs[w][j] \in DOMAIN nav
      BY <3>1, ItemTypes
    <3> QED BY <3>2
  <2> QED BY <2>1, <2>2
<1>5. CASE Skip
  BY <1>1, <1>5, NavsStay DEF Skip
<1>6. CASE ~Skip
  <2>1. /\ nav' = [v \in DOMAIN nav \union (new + 1 .. new + count) |->
                    IF v \in DOMAIN nav THEN nav[v] ELSE nav[tabs[w][v - new]]]
        /\ nextId' = new + 3 * count
    BY <1>3, <1>4, <1>6 DEF RunDuplicateWindow
  <2>2. nextId <= nextId'
    BY <1>1, <1>4, <2>1
  <2>3. \A v \in DOMAIN nav' \ DOMAIN nav : v - new \in 1 .. count /\ nav'[v] = nav[tabs[w][v - new]]
    BY <1>4, <2>1
  <2>4. DOMAIN nav \subseteq DOMAIN nav' /\ \A v \in DOMAIN nav : nav'[v] = nav[v]
    BY <2>1
  <2> QED BY <1>4, <2>2, <2>3, <2>4 DEF OnlyAdded
<1> QED BY <1>5, <1>6

\* A step adds navigators or moves one.
LEMMA NavsChange ==
    ASSUME IInv, [Next]_vars
    PROVE  OnlyAdded \/ OneMoved
<1>1. TypeOK
  BY DEF IInv
<1>2. CASE RunTask
  BY <1>2, UpdateMovesNone, NavigatorMovesOne, TabsMoveNone, WindowMovesNone, <1>1, NavsStay DEF RunTask, RunQuit
<1>3. CASE OpenTree \/ Expand \/ ExpandItem \/ SaveState \/ UNCHANGED vars
  BY <1>1, <1>3, NavsStay DEF OpenTree, Expand, ExpandItem, SaveState, vars
<1>4. ASSUME NEW i \in DOMAIN windows, CloseWindow(i) PROVE OnlyAdded
  BY <1>1, <1>4, NavsStay DEF CloseWindow
<1>5. ASSUME NEW w, ClickElement(w) \/ ClickWindow(w) \/ SwitchTab(w) PROVE OnlyAdded
  BY <1>1, <1>5, NavsStay DEF ClickElement, ClickWindow, Click, SwitchTab
<1> QED BY <1>2, <1>3, <1>4, <1>5 DEF Next

\* No navigator has more records to a side than numbers were given, so the trails are whole.
TrailsInv == \A v \in DOMAIN nav : Ends(nav[v], nextId)

\* To move a navigator keeps its trail or opens a model after the one it showed.
LEMMA MovedTrail ==
    ASSUME NEW n, NEW o, NEW k \in Nat, Ends(n, k), Moved(n, o)
    PROVE  /\ Ends(o, k + 1)
           /\ \/ Trail(o, k + 1) = Trail(n, k)
              \/ \E model \in Models \union {ErrorModel} :
                    Trail(o, k + 1) = Append(SubSeq(Trail(n, k), 1, Here(n, k)), model)
<1>1. ASSUME NEW model \in Models \union {ErrorModel}, o = Opened(n, model)
      PROVE  /\ Ends(o, k + 1)
             /\ Trail(o, k + 1) = Append(SubSeq(Trail(n, k), 1, Here(n, k)), model)
  BY <1>1, OpenedTrail
<1>2. CASE n.prev # None /\ o = WentBack(n)
  BY <1>2, BackTrail
<1>3. CASE n.next # None /\ o = WentForward(n)
  BY <1>3, ForwardTrail
<1> QED BY <1>1, <1>2, <1>3 DEF Moved

\* The trails stay whole.
LEMMA TrailsStay ==
    ASSUME IInv, TrailsInv, [Next]_vars
    PROVE  TrailsInv'
<1>1. nextId \in Nat /\ nextId' \in Nat
  <2>1. IInv'
    BY NextInv
  <2> QED BY <2>1 DEF IInv, TypeOK
<1>2. CASE OnlyAdded
  <2> SUFFICES ASSUME NEW v \in DOMAIN nav' PROVE Ends(nav'[v], nextId')
    BY DEF TrailsInv, Ends, SideEnds, IsChain, Beside
  <2>1. ASSUME NEW u \in DOMAIN nav, nav'[v] = nav[u] PROVE Ends(nav'[v], nextId')
    BY <1>1, <1>2, <2>1, EndsLater DEF OnlyAdded, TrailsInv
  <2>2. CASE nav'[v] = Fresh(FirstModel)
    BY <1>1, <2>2, FreshEnds
  <2> QED BY <1>2, <2>1, <2>2 DEF OnlyAdded
<1>3. CASE OneMoved
  <2>1. PICK v \in DOMAIN nav : /\ Moved(nav[v], nav'[v])
                                /\ \A u \in DOMAIN nav : u # v => nav'[u] = nav[u]
    BY <1>3 DEF OneMoved
  <2>2. Ends(nav'[v], nextId + 1)
    BY <1>1, <2>1, MovedTrail DEF TrailsInv
  <2>3. \A u \in DOMAIN nav : u # v => Ends(nav'[u], nextId + 1)
    BY <1>1, <2>1, EndsLater DEF TrailsInv
  <2>4. \A u \in DOMAIN nav' : Ends(nav'[u], nextId')
    BY <1>3, <2>2, <2>3 DEF OneMoved
  <2> QED BY <2>4 DEF TrailsInv, Ends, SideEnds, IsChain, Beside
<1> QED BY <1>2, <1>3, NavsChange

\* What goes back and forward keeps the trail of a navigator, and what opens a model puts it
\* after the one that was shown, for any models, clicks and commands.  About go_back,
\* go_forward and _safe_open.
THEOREM TrailsAreKept == Spec => TrailIsKept
<1> DEFINE Kept ==
        \A v \in DOMAIN nav :
            \/ nav'[v] = nav[v]
            \/ Trail(nav'[v], nextId') = Trail(nav[v], nextId)
            \/ \E model \in Models \union {ErrorModel} :
                Trail(nav'[v], nextId') = Append(SubSeq(Trail(nav[v], nextId), 1, Here(nav[v], nextId)), model)
<1>1. Init => TrailsInv
  <2> SUFFICES ASSUME Init, NEW v \in DOMAIN nav PROVE Ends(nav[v], nextId)
    BY DEF TrailsInv
  <2>1. nav[v] = Fresh(FirstModel) /\ nextId \in Nat
    BY DEF Init
  <2> QED BY <2>1, FreshEnds
<1>2. IInv /\ TrailsInv /\ [Next]_vars => TrailsInv'
  BY TrailsStay
<1>3. IInv /\ TrailsInv /\ [Next]_vars => [Kept]_vars
  <2> SUFFICES ASSUME IInv, TrailsInv, [Next]_vars PROVE Kept
    OBVIOUS
  <2>1. CASE OnlyAdded
    BY <2>1 DEF OnlyAdded
  <2>2. CASE OneMoved
    <3>1. PICK v \in DOMAIN nav : /\ Moved(nav[v], nav'[v])
                                  /\ \A u \in DOMAIN nav : u # v => nav'[u] = nav[u]
      BY <2>2 DEF OneMoved
    <3>2. Ends(nav[v], nextId) /\ nextId \in Nat /\ nextId' = nextId + 1
      BY <2>2 DEF OneMoved, TrailsInv, IInv, TypeOK
    <3> QED BY <3>1, <3>2, MovedTrail
  <2> QED BY <2>1, <2>2, NavsChange
<1> QED BY <1>1, <1>2, <1>3, Invariance, PTL DEF Spec, TrailIsKept

=============================================================================
