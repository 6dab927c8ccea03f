----------------------------- MODULE Controller -----------------------------
(***************************************************************************)
(* The client's controller: windows of tabs with a navigator in each, the  *)
(* items the controller keeps for them, the commands bound to the items,   *)
(* the saved layout and the layout tree that follows the items.            *)
(*                                                                         *)
(* Everything runs in the event loop of one thread.  A clicked command and *)
(* an update of the items of a window are tasks, run in order; no task of  *)
(* the client waits for anything, so each is one step.  Tab switching, the *)
(* closing of windows and the timer are events of Qt between the tasks.    *)
(* A navigator is the immediate element of a tab; a menu bar and the items *)
(* above the tabs never change and are left out.                           *)
(***************************************************************************)
EXTENDS Integers, Sequences, FiniteSets, SequencesExt

CONSTANTS
    Models,     \* models that navigators open
    ErrorModel, \* the model of the error view
    FirstModel, \* what the loaded layout shows
    MaxOps,     \* bound: clicks and events of the user
    MaxTabs,    \* bound: tabs in a window
    MaxWindows, \* bound: windows
    MaxClicks   \* bound: clicked commands waiting to run

ASSUME ControllerAssumption ==
    /\ ErrorModel \notin Models
    /\ FirstModel \in Models
    /\ {MaxOps, MaxTabs, MaxWindows, MaxClicks} \subseteq Nat

None == [model |-> "None"]
NotBound == [idx |-> 0, model |-> "None"]
Root == 0
Off == -1

VARIABLES
    phase,      \* "running" or "exited"
    ops,
    queue,      \* tasks of the event loop
    windows,    \* windows in order, by number; children of the root item
    tabs,       \* window -> the views of its tabs in order
    current,    \* window -> its current tab, 0 when it has none
    nav,        \* view -> the state of its navigator: a model and two linked lists
    kids,       \* window -> the items of its tabs
    nextId,     \* what was numbered so far: items, views and windows
    timer,      \* tasks to run before the save timer can fire, or Off
    saved,      \* the layout in the layout file
    tree,       \* the layout tree: lists of items it has read
    torn        \* history: windows with a tab that was inserted and not registered

\* A function with one more value.
Extended(f, x, value) == [y \in DOMAIN f \union {x} |-> IF y = x THEN value ELSE f[y]]

vars == <<phase, ops, queue, windows, tabs, current, nav, kids, nextId, timer, saved, tree, torn>>

---------------------------------------------------------------------------
(* Navigators *)

Fresh(model) == [model |-> model, prev |-> None, next |-> None]

\* _safe_open: the record of what is shown becomes the previous one.
Opened(n, model) == [model |-> model, prev |-> n, next |-> None]

\* go_back as it would be if the next record was lost, for a mutant.
BackLosingNext(n) == [model |-> n.prev.model, prev |-> n.prev.prev, next |-> [n EXCEPT !.next = None]]

WentBack(n) == [model |-> n.prev.model, prev |-> n.prev.prev, next |-> n]
WentForward(n) == [model |-> n.next.model, prev |-> n, next |-> n.next.next]

---------------------------------------------------------------------------
(* The layout and its items *)

\* What _save_state writes: the pieces and states of the windows.
Layout ==
    [i \in DOMAIN windows |->
        [tabs |-> [j \in DOMAIN tabs[windows[i]] |-> nav[tabs[windows[i]][j]]],
         current |-> current[windows[i]]]]

\* _make_child_item: an item whose own children are not enumerated and which
\* has no commands.
NewItem(id, view) == [id |-> id, view |-> view, child |-> 0, shows |-> "None", bound |-> NotBound]

\* An item after its children were updated.
WholeItem(id, view, childId, idx, model) ==
    [id |-> id, view |-> view, child |-> childId, shows |-> model,
     bound |-> [idx |-> idx, model |-> model]]

\* update_children binds the commands of an item to its place and model,
\* and enumerates its child.
Updated(item, idx, childId) ==
    WholeItem(item.id, item.view, IF item.child = 0 THEN childId ELSE item.child, idx,
              nav[item.view].model)

\* A new tab's item goes to the end, for a mutant.
WithKidLast(items, i, item) == Append(items, item)

WithKid(items, i, item) == InsertAt(items, i, item)

ItemIds(items) == [i \in DOMAIN items |-> items[i].id]

Places(w) == DOMAIN tabs[w]
IsLive(w) == \E i \in DOMAIN windows : windows[i] = w
Works(w) == IsLive(w) /\ w \notin torn

---------------------------------------------------------------------------
(* The layout tree *)

NoTree == [state |-> "none", lists |-> <<>>, misread |-> FALSE]
NewTree == [state |-> "open", lists |-> [x \in {} |-> <<>>], misread |-> FALSE]

\* The adapter reads the list of a parent it has not read yet.
Reads(t, parent, list) ==
    IF parent \in DOMAIN t.lists THEN t ELSE [t EXCEPT !.lists = Extended(@, parent, list)]

\* It applies a diff to a list.  One it had not read has the change already.
Applies(t, parent, list) ==
    IF t.state # "open" \/ t.misread THEN t
    ELSE IF parent \in DOMAIN t.lists
    THEN [t EXCEPT !.lists[parent] = list]
    ELSE [t EXCEPT !.misread = TRUE]

\* The tree is not told of a removal, for a mutant.
TreeUntold(w, i) == tree

TreeWithout(w, i) == Applies(tree, w, RemoveAt(tree.lists[w], i))

---------------------------------------------------------------------------
(* Tasks *)

\* The items are not updated, for a mutant.
WithoutUpdate(q, w) == q

Update(w) == [kind |-> "update", win |-> w]

\* children_changed of the window.  Updates in a row are taken as one.
WithUpdate(q, w) == IF q # <<>> /\ Last(q) = Update(w) THEN q ELSE Append(q, Update(w))

\* The timer is left running, for a mutant of a forgotten call.
NotScheduled(q) == timer' = IF timer > 0 THEN timer - 1 ELSE timer

\* schedule_save_state starts the timer anew.  It fires after the tasks that
\* are in the queue now, as they are due earlier.
Scheduled(q) == timer' = Len(q)

\* The timer as a task is taken from the queue.
Elapsed == timer' = IF timer > 0 THEN timer - 1 ELSE timer

Counted == phase = "running" /\ ops < MaxOps /\ ops' = ops + 1

IsNext(kind) == phase = "running" /\ queue # <<>> /\ Head(queue).kind = kind

---------------------------------------------------------------------------
Init ==
    /\ phase = "running"
    /\ ops = 0
    /\ windows = <<1>>
    /\ tabs = [w \in {1} |-> <<2, 3>>]
    /\ current = [w \in {1} |-> 1]
    /\ nav = [v \in {2, 3} |-> Fresh(FirstModel)]
    /\ kids = [w \in {1} |-> [i \in 1..2 |-> WholeItem(3 + i, 1 + i, 5 + i, i, FirstModel)]]
    /\ nextId = 7
    /\ queue = <<>>
    /\ timer = Off
    /\ saved = Layout
    /\ tree = NoTree
    /\ torn = {}

---------------------------------------------------------------------------
(* What the user does *)

Waiting(kinds) == Cardinality({i \in DOMAIN queue : queue[i].kind \in kinds})

AddsTab == {"insert", "duplicate_tab"}

Clickable(task) ==
    /\ Cardinality({i \in DOMAIN queue : queue[i].kind # "update"}) < MaxClicks
    /\ task.kind \in AddsTab => Len(tabs[task.win]) + Waiting(AddsTab) < MaxTabs
    /\ task.kind = "duplicate_window" => Len(windows) + Waiting({"duplicate_window"}) < MaxWindows

Click(task) ==
    /\ Counted
    /\ Clickable(task)
    /\ queue' = Append(queue, task)
    /\ UNCHANGED <<phase, windows, tabs, current, nav, kids, nextId, timer, saved, tree, torn>>

\* A command of the item of a tab, with the place and view it was bound to.
ClickElement(w) ==
    \E i \in DOMAIN kids[w] :
        LET item == kids[w][i]
        IN /\ item.bound # NotBound
           /\ \/ \E kind \in {"insert", "remove"} :
                    Click([kind |-> kind, win |-> w, idx |-> item.bound.idx])
              \/ \E kind \in {"open", "back", "forward"} :
                    Click([kind |-> kind, win |-> w, view |-> item.view])

\* A command of the tabs or of the window.
ClickWindow(w) ==
    \E kind \in {"duplicate_tab", "close_tab", "duplicate_window", "quit"} :
        Click([kind |-> kind, win |-> w])

\* The tab bar: the controller hears of the new current tab.
SwitchTab(w) ==
    /\ Counted
    /\ \E i \in Places(w) \ {current[w]} : current' = [current EXCEPT ![w] = i]
    /\ queue' = WithUpdate(queue, w)
    /\ Scheduled(queue')
    /\ UNCHANGED <<phase, windows, tabs, nav, kids, nextId, saved, tree, torn>>

\* The window is closed by its frame.  The last one stays in the layout and
\* the application exits.
CloseWindow(i) ==
    /\ Counted
    /\ IF Len(windows) > 1
       THEN /\ windows' = RemoveAt(windows, i)
            /\ tree' = Applies(tree, Root, RemoveAt(tree.lists[Root], i))
            /\ phase' = phase
       ELSE /\ phase' = "exited"
            /\ UNCHANGED <<windows, tree>>
    /\ Scheduled(queue)
    /\ UNCHANGED <<queue, tabs, current, nav, kids, nextId, saved, torn>>

\* The layout tree is opened; a list of it is read when it is shown.
OpenTree ==
    /\ Counted
    /\ tree.state = "none"
    /\ tree' = Reads(NewTree, Root, windows)
    /\ UNCHANGED <<phase, queue, windows, tabs, current, nav, kids, nextId, timer, saved, torn>>

Expand ==
    /\ Counted
    /\ tree.state = "open"
    /\ ~tree.misread
    /\ \E w \in {windows[i] : i \in DOMAIN windows} \ DOMAIN tree.lists :
        tree' = Reads(tree, w, ItemIds(kids[w]))
    /\ UNCHANGED <<phase, queue, windows, tabs, current, nav, kids, nextId, timer, saved, torn>>

ExpandItem ==
    /\ Counted
    /\ tree.state = "open"
    /\ ~tree.misread
    /\ \E w \in {windows[i] : i \in DOMAIN windows} \intersect DOMAIN tree.lists :
        \E i \in DOMAIN kids[w] :
            /\ kids[w][i].child # 0
            /\ kids[w][i].id \notin DOMAIN tree.lists
            /\ tree' = Reads(tree, kids[w][i].id, <<kids[w][i].child>>)
    /\ UNCHANGED <<phase, queue, windows, tabs, current, nav, kids, nextId, timer, saved, torn>>

---------------------------------------------------------------------------
(* Running tasks *)

\* A task that raises or finds nothing to do.
Skip ==
    /\ queue' = Tail(queue)
    /\ Elapsed
    /\ UNCHANGED <<windows, tabs, current, nav, kids, nextId, tree, torn>>

\* update_children of a window.  It raises when there is no current tab.
RunUpdate ==
    /\ IsNext("update")
    /\ LET w == Head(queue).win
           items == kids[w]
           new(i) == Cardinality({j \in 1..i : items[j].child = 0})
       IN IF current[w] = 0 \/ w \in torn THEN Skip
          ELSE /\ kids' = [kids EXCEPT ![w] =
                            [i \in DOMAIN items |-> Updated(items[i], i, nextId + new(i))]]
               /\ nextId' = nextId + new(Len(items))
               /\ queue' = Tail(queue)
               /\ Elapsed
               /\ UNCHANGED <<windows, tabs, current, nav, tree, torn>>
    /\ UNCHANGED <<phase, ops, saved>>

\* _replace_widget and element_replaced: a new item for the element of the
\* navigator, whose tab becomes the current one.
Navigated(w, i, n) ==
    /\ nav' = [nav EXCEPT ![tabs[w][i]] = n]
    /\ current' = [current EXCEPT ![w] = i]
    /\ kids' = [kids EXCEPT ![w][i] =
                    [id |-> @.id, view |-> @.view, child |-> nextId + 1, shows |-> n.model, bound |-> NotBound]]
    /\ nextId' = nextId + 1
    /\ queue' = WithUpdate(Tail(queue), w)
    /\ Scheduled(queue')
    /\ tree' = IF tree.state = "open" /\ ~tree.misread /\ kids[w][i].id \in DOMAIN tree.lists
               THEN [tree EXCEPT !.lists[kids[w][i].id] = <<nextId + 1>>]
               ELSE tree
    /\ UNCHANGED <<windows, tabs, torn>>

\* A command that opens a model, or the error view instead; go_back and
\* go_forward.  Nothing happens when the navigator is gone or has no record.
RunNavigator ==
    /\ \E kind \in {"open", "back", "forward"} : IsNext(kind)
    /\ LET task == Head(queue)
           w == task.win
           places == {i \in Places(w) : tabs[w][i] = task.view}
           n == nav[task.view]
       IN IF ~Works(w) \/ places = {} THEN Skip
          ELSE \E i \in places :
            \/ /\ task.kind = "open"
               /\ \E model \in Models \union {ErrorModel} : Navigated(w, i, Opened(n, model))
            \/ /\ task.kind = "back"
               /\ IF n.prev = None THEN Skip ELSE Navigated(w, i, WentBack(n))
            \/ /\ task.kind = "forward"
               /\ IF n.next = None THEN Skip ELSE Navigated(w, i, WentForward(n))
    /\ UNCHANGED <<phase, ops, saved>>

\* insert_tab and element_inserted of a view with the given navigator.  A
\* place past the end is the end for the view, and raises in the controller.
Inserted(w, i, n) ==
    LET view == nextId + 1
        item == NewItem(nextId + 2, view)
        place == IF i > Len(tabs[w]) + 1 THEN Len(tabs[w]) + 1 ELSE i
    IN
    /\ tabs' = [tabs EXCEPT ![w] = InsertAt(@, place, view)]
    /\ current' = [current EXCEPT ![w] = place]
    /\ nav' = Extended(nav, view, n)
    /\ nextId' = nextId + 2
    /\ IF place = i
       THEN /\ kids' = [kids EXCEPT ![w] = WithKid(@, i, item)]
            /\ queue' = WithUpdate(Tail(queue), w)
            /\ Scheduled(queue')
            /\ tree' = Applies(tree, w, InsertAt(tree.lists[w], i, item.id))
            /\ torn' = torn
       ELSE /\ torn' = torn \union {w}
            /\ queue' = Tail(queue)
            /\ Elapsed
            /\ UNCHANGED <<kids, tree>>
    /\ UNCHANGED windows

\* The tab that is current after one was removed: the next one, or the one
\* before if the last one was current.  Another one stays current, as there is
\* no tab any more at the place of the last one.
CurrentWithout(w, i) ==
    IF i < Len(tabs[w]) THEN i ELSE IF current[w] = i THEN i - 1 ELSE current[w]

\* close_tab of the view and element_removed.
Removed(w, i) ==
    /\ tabs' = [tabs EXCEPT ![w] = RemoveAt(@, i)]
    /\ current' = [current EXCEPT ![w] = CurrentWithout(w, i)]
    /\ kids' = [kids EXCEPT ![w] = RemoveAt(@, i)]
    /\ queue' = WithUpdate(Tail(queue), w)
    /\ Scheduled(queue')
    /\ tree' = TreeWithout(w, i)
    /\ UNCHANGED <<windows, nav, nextId, torn>>

\* insert_element and remove_element, at the place of their binding, and the
\* commands on the current tab.  The last tab may be removed but not closed.
RunTabs ==
    /\ \E kind \in {"insert", "remove", "duplicate_tab", "close_tab"} : IsNext(kind)
    /\ LET task == Head(queue)
           w == task.win
       IN IF ~Works(w) THEN Skip
          ELSE
            \/ task.kind = "insert" /\ Inserted(w, task.idx, Fresh(FirstModel))
            \/ /\ task.kind = "remove"
               /\ IF task.idx \in Places(w) THEN Removed(w, task.idx) ELSE Skip
            \/ /\ task.kind = "duplicate_tab"
               /\ IF current[w] = 0 THEN Skip
                  ELSE Inserted(w, current[w] + 1, nav[tabs[w][current[w]]])
            \/ /\ task.kind = "close_tab"
               /\ IF Len(tabs[w]) <= 1 THEN Skip ELSE Removed(w, current[w])
    /\ UNCHANGED <<phase, ops, saved>>

\* duplicate_window and create_window: the items of the new window are made
\* and updated at once.  The item of a closed window keeps its widget, so its
\* command does the same.
RunDuplicateWindow ==
    /\ IsNext("duplicate_window")
    /\ LET w == Head(queue).win
           new == nextId + 1
           count == Len(tabs[w])
       IN IF w \in torn THEN Skip
          ELSE
            /\ windows' = Append(windows, new)
            /\ tabs' = Extended(tabs, new, [i \in 1..count |-> new + i])
            /\ current' = Extended(current, new, current[w])
            /\ nav' = [v \in DOMAIN nav \union (new + 1..new + count) |->
                        IF v \in DOMAIN nav THEN nav[v] ELSE nav[tabs[w][v - new]]]
            /\ kids' = Extended(kids, new, [i \in 1..count |->
                        WholeItem(new + count + i, new + i, new + 2 * count + i, i, nav[tabs[w][i]].model)])
            /\ nextId' = new + 3 * count
            /\ queue' = Tail(queue)
            /\ Scheduled(queue')
            /\ tree' = Applies(tree, Root, Append(tree.lists[Root], new))
            /\ torn' = torn
    /\ UNCHANGED <<phase, ops, saved>>

\* quit: the state is scheduled to be saved and the application exits.
RunQuit ==
    /\ IsNext("quit")
    /\ queue' = Tail(queue)
    /\ Scheduled(queue')
    /\ phase' = "exited"
    /\ UNCHANGED <<ops, windows, tabs, current, nav, kids, nextId, saved, tree, torn>>

\* _save_state
SaveState ==
    /\ phase = "running"
    /\ timer = 0
    /\ timer' = Off
    /\ saved' = Layout
    /\ UNCHANGED <<phase, ops, queue, windows, tabs, current, nav, kids, nextId, tree, torn>>

RunTask ==
    RunUpdate \/ RunNavigator \/ RunTabs \/ RunDuplicateWindow \/ RunQuit

Next ==
    \/ \E i \in DOMAIN windows :
        \/ Works(windows[i]) /\ (ClickElement(windows[i]) \/ ClickWindow(windows[i]))
        \/ Works(windows[i]) /\ SwitchTab(windows[i])
        \/ CloseWindow(i)
    \/ OpenTree
    \/ Expand
    \/ ExpandItem
    \/ RunTask
    \/ SaveState

Spec == Init /\ [][Next]_vars

\* The event loop runs its tasks and the timer fires.
FairSpec == Spec /\ WF_vars(RunTask) /\ WF_vars(SaveState)

---------------------------------------------------------------------------
(* Properties *)

Shown == Models \union {ErrorModel, "None"}

Items == [id : 1..nextId, view : DOMAIN nav, child : 0..nextId, shows : Shown,
          bound : {NotBound} \union [idx : Nat \ {0}, model : Shown]]

Tasks ==
    [kind : {"update", "duplicate_tab", "close_tab", "duplicate_window", "quit"}, win : DOMAIN tabs]
    \union [kind : {"insert", "remove"}, win : DOMAIN tabs, idx : Nat \ {0}]
    \union [kind : {"open", "back", "forward"}, win : DOMAIN tabs, view : DOMAIN nav]

TypeOK ==
    /\ phase \in {"running", "exited"}
    /\ ops \in 0..MaxOps
    /\ nextId \in Nat
    /\ queue \in Seq(Tasks)
    /\ DOMAIN tabs = DOMAIN current /\ DOMAIN tabs = DOMAIN kids
    /\ DOMAIN tabs \subseteq 1..nextId /\ DOMAIN nav \subseteq 1..nextId
    /\ windows \in Seq(DOMAIN tabs) /\ windows # <<>> /\ IsInjective(windows)
    /\ \A w \in DOMAIN tabs :
        /\ tabs[w] \in Seq(DOMAIN nav) /\ IsInjective(tabs[w])
        /\ current[w] \in 0..Len(tabs[w])
        /\ kids[w] \in Seq(Items)
    /\ timer \in Nat \union {Off}
    /\ tree.state \in {"none", "open"} /\ tree.misread \in BOOLEAN
    /\ DOMAIN tree.lists \subseteq 0..nextId
    /\ torn \subseteq DOMAIN tabs

Whole == {windows[i] : i \in DOMAIN windows} \ torn

\* The items of a window are those of its view, in the same order, and the
\* item of a navigator shows the navigator's model, between any two steps.
\* About the hooks of _Item and the views that call them.
ItemsMatchViews ==
    /\ TypeOK
    /\ \A w \in Whole :
        /\ [i \in DOMAIN kids[w] |-> kids[w][i].view] = tabs[w]
        /\ \A i \in DOMAIN kids[w] :
            kids[w][i].child # 0 => kids[w][i].shows = nav[kids[w][i].view].model

\* When no update of a window is waiting, the commands of each of its items
\* are bound to the place and the model the item has: a command that is
\* clicked then acts on what it is shown for.  About children_changed and
\* update_children.
CommandsAreCurrent ==
    \A w \in Whole :
        Update(w) \notin {queue[i] : i \in DOMAIN queue} =>
            \A i \in DOMAIN kids[w] :
                kids[w][i].bound = [idx |-> i, model |-> nav[kids[w][i].view].model]

\* The lists the layout tree has read are those of the items, as long as no
\* diff came for a list before it was read.  About the diffs that the hooks
\* send and the tree adapter.
TreeFollows ==
    tree.state = "open" /\ ~tree.misread =>
        /\ tree.lists[Root] = windows
        /\ \A w \in Whole \intersect DOMAIN tree.lists :
            /\ tree.lists[w] = ItemIds(kids[w])
            /\ \A i \in DOMAIN kids[w] :
                kids[w][i].id \in DOMAIN tree.lists =>
                    tree.lists[kids[w][i].id] = <<kids[w][i].child>>

\* Unless the application exits, the layout file gets the layout that stays.
\* About schedule_save_state, which every change has to call.
SavedInTheEnd ==
    <>[](phase = "exited" \/ torn # {} \/ saved = Layout)
=============================================================================
