-------------------------- MODULE ControllerTrails --------------------------
(* The trails of the navigators of Controller: the models one can go back  *)
(* and forward to, read off the linked records of a navigator.             *)
EXTENDS Controller

\* The record before or behind the one of a navigator.
Beside(n, side) == IF side = "prev" THEN n.prev ELSE n.next

\* The records from n on to one side, no more than limit of them after n.
Chain(n, side, limit) ==
    LET chain[k \in 0 .. limit] ==
            IF k = 0 THEN <<n>>
            ELSE LET c == chain[k - 1]
                     next == Beside(Last(c), side)
                 IN  IF next = None THEN c ELSE Append(c, next)
    IN  chain[limit]

\* The models of the records before n, of n, and of those behind it.
Here(n, limit) == Len(Chain(n, "prev", limit))
Trail(n, limit) ==
    LET before == Chain(n, "prev", limit)
        behind == Chain(n, "next", limit)
    IN  [i \in 1 .. Len(before) + Len(behind) - 1 |->
            IF i <= Len(before) THEN before[Len(before) + 1 - i].model
                                ELSE behind[i - Len(before) + 1].model]

\* A step that changes a navigator keeps its trail, the previous, shown and next
\* models in order, or opens a model after the one it showed.  About
\* _safe_open, go_back and go_forward.  A step that adds a record to a side numbers a
\* new item, so there are no more records than numbers.
TrailIsKept ==
    [][\A v \in DOMAIN nav :
        \/ nav'[v] = nav[v]
        \/ Trail(nav'[v], nextId') = Trail(nav[v], nextId)
        \/ \E model \in Models \union {ErrorModel} :
            Trail(nav'[v], nextId') = Append(SubSeq(Trail(nav[v], nextId), 1, Here(nav[v], nextId)), model)]_vars
=============================================================================
