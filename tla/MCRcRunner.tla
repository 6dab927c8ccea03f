----------------------------- MODULE MCRcRunner -----------------------------
(* Three modules and two drivers: a module waits in the queue.  Item 11 is a  *)
(* service, 12 an actor.                                                     *)
EXTENDS RcRunner

ThreeModules == 1 .. 3
TwoItems     == {11, 12}
Requires(a, b, c) == [m \in ThreeModules |-> CASE m = 1 -> a [] m = 2 -> b [] m = 3 -> c]

\* The targets in the order of their names: of kinds by their prefixes.
TargetsByName ==
    LET imports(m) == <<Import(m), ImportJob(m, 1), ImportJob(m, 2), ImportJob(m, 3), Cached(m)>>
        tests(m)   == <<Test(m), TestJob(m, 1), TestJob(m, 2), TestJob(m, 3), TestCached(m)>>
    IN  <<Known>> \o imports(1) \o imports(2) \o imports(3)
        \o <<Complete(11), Complete(12), Ready(11), Ready(12), Resolved(11), Resolved(12)>>
        \o <<Resource(1), Resource(2), Resource(3)>> \o tests(1) \o tests(2) \o tests(3)

NoTests == [m \in ThreeModules |-> {}]
Builtin == [i \in TwoItems |-> 0]

\* 1 and 3 need 2 and the service that it has; 3 has an item that configures it.
Service ==
    [requires |-> Requires({2, 11}, {}, {2, 11}), provides |-> Requires({}, {11}, {12}),
     actors |-> {}, service |-> [Builtin EXCEPT ![12] = 11],
     tests |-> NoTests, fixtures |-> NoTests, uses |-> NoTests]
\* 1 needs the service of 2 and then the actor that 3 registers for it.
Actor ==
    [requires |-> Requires({11, 12}, {}, {2}), provides |-> Requires({}, {11}, {12}),
     actors |-> {12}, service |-> [Builtin EXCEPT ![12] = 11],
     tests |-> NoTests, fixtures |-> NoTests, uses |-> NoTests]
\* 2 and 3 import each other; 1 needs an item of 2.
Cycle ==
    [requires |-> Requires({2, 11}, {3}, {2}), provides |-> Requires({}, {11}, {12}),
     actors |-> {}, service |-> Builtin,
     tests |-> NoTests, fixtures |-> NoTests, uses |-> NoTests]
\* 1 needs an actor that 2 registers with a builtin registry.
Early ==
    [requires |-> Requires({12}, {}, {}), provides |-> Requires({}, {12}, {}),
     actors |-> {12}, service |-> Builtin,
     tests |-> NoTests, fixtures |-> NoTests, uses |-> NoTests]

\* 3 tests 1, which imports 2, and needs the service of 2 and the actor of 1.
Tested ==
    [requires |-> Requires({2}, {}, {2}), provides |-> Requires({12}, {11}, {}),
     actors |-> {12}, service |-> [Builtin EXCEPT ![12] = 11],
     tests |-> Requires({}, {}, {1}), fixtures |-> NoTests, uses |-> Requires({}, {}, {11, 12})]
\* 3 tests 1 and 2, which imports 1 and needs its actor.
TestedBoth ==
    [requires |-> Requires({}, {1}, {}), provides |-> Requires({12}, {}, {}),
     actors |-> {12}, service |-> Builtin,
     tests |-> Requires({}, {}, {1, 2}), fixtures |-> NoTests, uses |-> Requires({}, {}, {12})]
\* 3 tests 1 with the fixtures of 2, which also import 1, and needs its actor.
Fixtures ==
    [requires |-> Requires({}, {1}, {}), provides |-> Requires({12}, {}, {}),
     actors |-> {12}, service |-> Builtin,
     tests |-> Requires({}, {}, {1}), fixtures |-> Requires({}, {}, {2}), uses |-> Requires({}, {}, {12})]
\* 3 tests 1 and imports 2, which imports 1.
TestedByUser ==
    [requires |-> Requires({}, {1}, {2}), provides |-> Requires({11}, {}, {}),
     actors |-> {}, service |-> Builtin,
     tests |-> Requires({}, {}, {1}), fixtures |-> NoTests, uses |-> NoTests]
\* 1 needs a service that no module has; 3 needs 2.
Lacks ==
    [requires |-> Requires({11}, {}, {2}), provides |-> Requires({}, {12}, {}),
     actors |-> {}, service |-> Builtin,
     tests |-> NoTests, fixtures |-> NoTests, uses |-> NoTests]

AllPrograms == {Service, Actor, Cycle, Early, Tested, TestedBoth, Fixtures, TestedByUser, Lacks}
AllOptions  == [failFast : BOOLEAN, timed : BOOLEAN]
=============================================================================
