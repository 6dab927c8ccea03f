---------------------------- MODULE BuildTargets ----------------------------
(***************************************************************************)
(* The targets of the resource compiler: rc/target_set.dyn.py,              *)
(* rc/import_target.dyn.py, rc/python_module_resource_target.dyn.py,        *)
(* rc/config_item_target.dyn.py and rc/test_target.dyn.py, for one project.  *)
(* A store is a record with the fields that these objects keep; an operator *)
(* that takes one and returns one is a method.  A tests module has one test  *)
(* function; what it tests and its fixtures are imported before its other    *)
(* code runs, so that an import that does not succeed has them too.           *)
(*                                                                         *)
(* A module and a configuration item are numbers, in the order of their     *)
(* names; a requirement is the module or the item it is for.                *)
(***************************************************************************)
EXTENDS Naturals, Sequences, FiniteSets, Functions

CONSTANTS
    Module,      \* modules compiled, the manual ones are always complete
    Item,        \* configuration items
    Programs,    \* the possible contents of the modules
    MaxJobs,     \* bound: import jobs of a module, and test jobs of a test
    ByName,      \* the targets in the order of their names
    None

\* In a program, requires[m]: what the code of m imports, or uses when it is
\* imported; provides[m]: the items that a successful import of m constructs;
\* actors: the items required by a CfgItemReq, the others are by a ServiceReq;
\* service[i]: the item of the service that i configures, None for a builtin one;
\* tests[m]: the modules that m imports from tested.code, none if it has no tests;
\* fixtures[m]: those it imports as fixtures; uses[m]: what its test function needs
\* besides, apart from the services that the tested modules have.
ASSUME TargetAssumption ==
    /\ Module \subseteq Nat /\ Item \subseteq Nat /\ Module \cap Item = {}
    /\ None \notin Module \cup Item
    /\ Programs \subseteq [requires : [Module -> SUBSET (Module \cup Item)],
                            provides : [Module -> SUBSET Item],
                            actors : SUBSET Item,
                            service : [Item -> Item \cup {None}],
                            tests : [Module -> SUBSET Module], fixtures : [Module -> SUBSET Module],
                            uses : [Module -> SUBSET (Module \cup Item)]]
    /\ \A p \in Programs : \A m, n \in Module : m # n => p.provides[m] \cap p.provides[n] = {}
    /\ \A p \in Programs : \A i \in Item : p.service[i] # None => p.service[p.service[i]] = None

\* Targets.
Known       == [kind |-> "known", of |-> 0, idx |-> 0]
Import(m)   == [kind |-> "import", of |-> m, idx |-> 0]
ImportJob(m, k) == [kind |-> "job", of |-> m, idx |-> k]
Cached(m)   == [kind |-> "cached", of |-> m, idx |-> 0]
Resource(m) == [kind |-> "resource", of |-> m, idx |-> 0]
Ready(i)    == [kind |-> "ready", of |-> i, idx |-> 0]
Resolved(i) == [kind |-> "resolved", of |-> i, idx |-> 0]
Complete(i) == [kind |-> "complete", of |-> i, idx |-> 0]
Test(m)     == [kind |-> "test", of |-> m, idx |-> 0]
TestJob(m, k) == [kind |-> "testjob", of |-> m, idx |-> k]
TestCached(m) == [kind |-> "testcached", of |-> m, idx |-> 0]

NoTarget == [kind |-> "none", of |-> 0, idx |-> 0]

Target ==
    {Known}
    \cup {Import(m) : m \in Module} \cup {ImportJob(m, k) : m \in Module, k \in 1 .. MaxJobs}
    \cup {Cached(m) : m \in Module} \cup {Resource(m) : m \in Module}
    \cup {Ready(i) : i \in Item} \cup {Resolved(i) : i \in Item} \cup {Complete(i) : i \in Item}
    \cup {Test(m) : m \in Module} \cup {TestJob(m, k) : m \in Module, k \in 1 .. MaxJobs}
    \cup {TestCached(m) : m \in Module}

ASSUME OrderAssumption ==
    MaxJobs \in Nat \ {0} /\ ByName \in Seq(Target) /\ Range(ByName) = Target

\* t is the first of some targets.
First(targets, t) ==
    \E n \in DOMAIN ByName : ByName[n] = t /\ \A k \in 1 .. n - 1 : ByName[k] \notin targets

-----------------------------------------------------------------------------
(* A store: the targets that exist, those that the target set of the        *)
(* project has (the rest are global), and their attributes.                 *)

\* f, with what only g has.
Joined(f, g) == [x \in DOMAIN f \cup DOMAIN g |-> IF x \in DOMAIN f THEN f[x] ELSE g[x]]

NoNeeds == <<>>
Needs(w, t)    == IF t \in DOMAIN w.needs THEN w.needs[t] ELSE NoNeeds
Provider(w, i) == CHOOSE m \in Module : i \in w.code.provides[m]
Provided(w, i) == i \in w.provided

ServiceTarget(w, i) == {Complete(s) : s \in {w.code.service[i]} \ {None}}

\* The modules imported from tested.code and fixtures.
IsTests(w, m)    == w.code.tests[m] # {}
IsFixtures(w, m) == \E n \in Module : m \in w.code.fixtures[n]
Helpers(w, m)    == w.code.tests[m] \cup w.code.fixtures[m]
ImportsOf(set)   == {Import(m) : m \in set}

\* Those that a test job takes from the imports of its tested modules are completed
\* with them, and are left out.
Deps(w, t) ==
    CASE t.kind = "known"    -> w.first
      [] t.kind = "import"   -> {w.job[t.of]} \cup Range(Needs(w, t))
                                \cup IF t.of \in w.got THEN ImportsOf(Helpers(w, t.of)) ELSE {}
      [] t.kind \in {"job", "cached"} -> Range(Needs(w, t))
      [] t.kind = "resource" -> {Known, Import(t.of)} \cup Range(Needs(w, t))
                                \cup {Resolved(i) : i \in w.items[t.of]}
                                \cup ImportsOf(w.testsImports[t.of]) \cup {Test(m) : m \in w.testedBy[t.of]}
      [] t.kind = "ready"    -> IF Provided(w, t.of) THEN {Import(Provider(w, t.of))} ELSE {Known}
      [] t.kind = "resolved" -> {Ready(t.of)}
      [] t.kind = "complete" -> {Resolved(t.of)} \cup ServiceTarget(w, t.of)
                                \cup IF t.of \in w.picked THEN {Resource(Provider(w, t.of))} ELSE {}
      [] t.kind = "test"     -> ImportsOf(w.code.tests[t.of]) \cup {w.test[t.of]}
      [] t.kind \in {"testjob", "testcached"} ->
            ImportsOf({t.of} \cup Helpers(w, t.of)) \cup Range(Needs(w, t))

Satisfied(w, targets) == targets \subseteq w.completed
Incomplete(w) == w.all \ w.completed

Adopted(w, target) == [w EXCEPT !.all = @ \cup {target}, !.own = @ \cup {target}]
Completed(w, t)    == [w EXCEPT !.completed = @ \cup {t}]

\* A test of some modules has their code as it is imported, not their resources.
TargetIn(w, tested, r) ==
    IF r \in tested THEN Import(r)
    ELSE IF r \in Module THEN Resource(r)
    ELSE IF r \in w.code.actors /\ (Resolved(r) \notin w.completed \/ Provider(w, r) \in tested) THEN Resolved(r)
    ELSE Complete(r)
TargetOf(w, r) == TargetIn(w, {}, r)

\* req.get_target(factory): creates the targets that are not there yet.
ItemTargets(w, i) ==
    UNION {{Ready(j), Resolved(j), Complete(j)} : j \in {i} \cup ({w.code.service[i]} \ {None})}
TargetsFor(w, r) ==
    IF r \in Module THEN {Resource(r)}
    ELSE IF TargetOf(w, r) = Resolved(r) THEN {Ready(r), Resolved(r)}
    ELSE ItemTargets(w, r)
WithTargets(w, reqs) ==
    [w EXCEPT !.all = @ \cup UNION {TargetsFor(w, r) : r \in reqs},
              !.own = @ \cup {Resource(m) : m \in reqs \cap Module}]
ResolveIn(w, tested, reqs) == [r \in reqs |-> TargetIn(w, tested, r)]
Resolve(w, reqs) == ResolveIn(w, {}, reqs)

\* to_import_req: an import target waits for imports, a resource for resources.
ImportNeeds(w, reqs) == [r \in reqs |-> IF r \in Module THEN Import(r) ELSE TargetOf(w, r)]

WithNeeds(w, t, needs) == [w EXCEPT !.needs = [u \in DOMAIN @ \cup {t} |-> IF u = t THEN needs ELSE @[u]]]

\* ImportJobTarget, the next one of its module, with the targets it waits for.
WithJob(w, m, k, needs) ==
    WithNeeds([Adopted(w, ImportJob(m, k)) EXCEPT !.job[m] = ImportJob(m, k)], ImportJob(m, k), needs)

\* TestTarget._create_job_target: the next job of the test of m.
WithTestJob(w, m, k, needs) ==
    LET v == [Adopted(w, TestJob(m, k)) EXCEPT !.test[m] = TestJob(m, k)]
    IN  WithNeeds(WithNeeds(v, TestJob(m, k), needs), Test(m), needs)

\* An assertion that none of these resources is completed yet.
Asserted(w, set) == [w EXCEPT !.failed = @ \/ \E m \in set : Resource(m) \in w.completed]

\* add_tests_import: a tested resource waits for the import of its tests, before it
\* is known what they are.  The mutated form is one that does not.
NoTestsImport(w, m) == w
AddTestsImport(w, m) ==
    [WithTargets(w, w.code.tests[m]) EXCEPT
        !.testsImports = [n \in Module |-> IF n \in w.code.tests[m] THEN @[n] \cup {m} ELSE @[n]]]

\* ImportTarget.create_test_target, add_test, and TestTarget.create_job_target.
TestReqs(w, m) == (UNION {w.code.requires[n] : n \in {m} \cup Helpers(w, m)}) \cup w.code.uses[m]
AddTest(w, m) ==
    LET tested == w.code.tests[m]
        v     == Asserted(WithTargets(w, w.code.requires[m] \cup tested), tested)
        x     == [Adopted(v, Test(m)) EXCEPT
                    !.testedBy = [n \in Module |-> IF n \in tested THEN @[n] \cup {m} ELSE @[n]]]
        needs == ResolveIn(x, tested, w.code.requires[m])
        y     == WithTargets(x, TestReqs(w, m))
    IN  IF m \in w.cache.tests
        THEN WithNeeds(WithNeeds([Adopted(y, TestCached(m)) EXCEPT !.test[m] = TestCached(m)],
                                 TestCached(m), ResolveIn(y, tested, TestReqs(w, m))),
                       Test(m), needs)
        ELSE WithTestJob(x, m, 1, needs)

-----------------------------------------------------------------------------
(* update_status, by the class of the target. *)

\* ConfigItemResolvedTarget.update_status
UpdateResolved(w, i) ==
    IF i \notin w.resolved THEN w
    ELSE LET v == Adopted(w, Resolved(i)) IN
         IF Satisfied(v, Deps(v, Resolved(i))) THEN Completed(v, Resolved(i)) ELSE v

\* The constructors of m: config_items(service, key, req, provider, ctr), which
\* resolves the item at once, and add_cfg_item_target.
Constructed(w, m) ==
    LET items == w.code.provides[m] IN
    [w EXCEPT !.all = @ \cup UNION {ItemTargets(w, i) : i \in items},
              !.own = @ \cup {Ready(i) : i \in items} \cup {Resolved(i) : i \in items},
              !.completed = @ \cup {Resolved(i) : i \in {j \in items : Ready(j) \in @}},
              !.provided = @ \cup items, !.resolved = @ \cup items, !.items[m] = @ \cup items]

\* SucceededImportResult.update_targets of the import target of m: a tests module
\* makes its test target, another one that is not of fixtures its resource.
UseResult(w, m, reqs) ==
    LET v == WithTargets(w, reqs)
        x == WithNeeds([v EXCEPT !.got = @ \cup {m}], Import(m), ImportNeeds(v, reqs))
        y == WithNeeds(Adopted(Asserted(x, {m}), Resource(m)), Resource(m), Resolve(v, reqs))
    IN  IF IsTests(w, m) THEN AddTest(AddTestsImport(x, m), m)
        ELSE IF IsFixtures(w, m) THEN x
        ELSE Constructed(y, m)

\* ImportCachedTarget: resolves its requirements again, then uses the cached result
\* or, when the resources are not those it was made with, falls back to a job.
UpdateCached(w, m) ==
    LET reqs == DOMAIN Needs(w, Cached(m))
        v    == WithTargets(w, reqs)
        x    == WithNeeds(v, Cached(m), Resolve(v, reqs))
        y    == Completed(x, Cached(m))
    IN  IF ~Satisfied(w, Deps(w, Cached(m))) THEN w
        ELSE IF ~Satisfied(x, Deps(x, Cached(m))) THEN x
        ELSE IF m \in w.cache.stale THEN WithJob(y, m, 1, Needs(x, Cached(m)))
        ELSE UseResult(y, m, reqs)

UpdateComplete(w, i) ==
    LET v == IF Resolved(i) \in w.completed THEN [w EXCEPT !.picked = @ \cup {i}] ELSE w IN
    IF i \in v.picked /\ Resource(Provider(v, i)) \in v.completed /\ Satisfied(v, ServiceTarget(w, i))
    THEN Completed(Adopted(v, Complete(i)), Complete(i))
    ELSE v

\* CompiledPythonModuleResourceTarget waits for all its deps.
UpdateResource(w, t) == IF Satisfied(w, Deps(w, t)) THEN Completed(w, t) ELSE w

UpdateKnown(w) == IF Satisfied(w, w.first) THEN Completed(w, Known) ELSE w
UpdateImport(w, t) == IF t.of \in w.got /\ Satisfied(w, Deps(w, t)) THEN Completed(w, t) ELSE w
UpdateJob(w, t) == [w EXCEPT !.ready = IF Satisfied(w, Deps(w, t)) THEN @ \cup {t} ELSE @ \ {t}]
UpdateTest(w, t) == IF Satisfied(w, Deps(w, t)) THEN Completed(w, t) ELSE w

\* TestJobTarget: takes over what its tested modules and fixtures import, and when
\* all that is completed resolves it again.
UpdateTestJob(w, t) ==
    LET tested == w.code.tests[t.of]
        picked == UNION {w.code.requires[m] : m \in {n \in Helpers(w, t.of) : Import(n) \in w.completed}}
        v    == WithTargets(w, picked)
        x    == WithNeeds(v, t, Joined(Needs(w, t), ResolveIn(v, tested, picked)))
        reqs == DOMAIN Needs(x, t)
        y    == WithTargets(x, reqs)
        z    == WithNeeds(y, t, ResolveIn(y, tested, reqs))
    IN  IF ~Satisfied(x, Deps(x, t)) THEN x
        ELSE [z EXCEPT !.ready = IF Satisfied(z, Deps(z, t)) THEN @ \cup {t} ELSE @ \ {t}]

\* A test result: what its tested modules used is added to their resources.
UseTestResult(w, m) == Asserted(w, w.code.tests[m])

\* TestCachedTarget
UpdateTestCached(w, t) ==
    LET m == t.of
        reqs == DOMAIN Needs(w, t)
        v    == WithTargets(w, reqs)
        x    == WithNeeds(v, t, ResolveIn(v, w.code.tests[m], reqs))
        y    == Completed(x, t)
    IN  IF ~Satisfied(w, Deps(w, t)) THEN w
        ELSE IF ~Satisfied(x, Deps(x, t)) THEN x
        ELSE IF m \in w.cache.staleTests THEN WithTestJob(y, m, 1, Needs(w, Test(m)))
        ELSE UseTestResult(y, m)

UpdateReady(w, t) ==
    IF Provided(w, t.of) /\ \E d \in {Import(Provider(w, t.of)), Resource(Provider(w, t.of))} : d \in w.completed
    THEN Completed(w, t) ELSE w

\* FullTargetSet._update_target
Updated(w, t) ==
    IF t \in w.completed THEN w
    ELSE CASE t.kind = "known"    -> UpdateKnown(w)
           [] t.kind = "import"   -> UpdateImport(w, t)
           [] t.kind = "job"      -> UpdateJob(w, t)
           [] t.kind = "cached"   -> UpdateCached(w, t.of)
           [] t.kind = "resource" -> UpdateResource(w, t)
           [] t.kind = "ready"    -> UpdateReady(w, t)
           [] t.kind = "resolved" -> UpdateResolved(w, t.of)
           [] t.kind = "complete" -> UpdateComplete(w, t.of)
           [] t.kind = "test"     -> UpdateTest(w, t)
           [] t.kind = "testjob"  -> UpdateTestJob(w, t)
           [] t.kind = "testcached" -> UpdateTestCached(w, t)

\* Some targets, one after the other.
UpdatedAll(w, targets) ==
    LET upTo[n \in 0 .. Len(ByName)] ==
            IF n = 0 THEN w
            ELSE IF ByName[n] \in targets THEN Updated(upTo[n - 1], ByName[n])
            ELSE upTo[n - 1]
    IN  upTo[Len(ByName)]

-----------------------------------------------------------------------------
(* FullTargetSet *)

\* _incomplete_deps_map
DepsMap(w) == [t \in Incomplete(w) |-> Deps(w, t)]

\* Targets with new deps.  A mutated form forgets the targets that are new.
ChangedOnly(w, prev) == {t \in Incomplete(w) \cap DOMAIN prev : Deps(w, t) # prev[t]}
Changed(w, prev) == {t \in Incomplete(w) : t \notin DOMAIN prev \/ Deps(w, t) # prev[t]}

\* One pass of update_statuses: the dependents of what has completed, then the changed.
Dependent(w, targets) == {t \in w.all : Deps(w, t) \cap targets # {}}
UpdatePass(w, prevCompleted, prevMap) ==
    LET v == UpdatedAll(w, Dependent(w, w.completed \ prevCompleted))
    IN  UpdatedAll(v, Changed(w, prevMap))

\* The targets of a project before anything is known.  cache: the modules and the
\* tests that have a cached result, and those of them whose resources have changed.
EmptyStore(program, cache) ==
    [code |-> program, cache |-> cache,
     all |-> {Known} \cup ImportsOf(Module), own |-> {Known} \cup ImportsOf(Module),
     completed |-> {}, ready |-> {}, first |-> {}, needs |-> [t \in {} |-> NoNeeds],
     job |-> [m \in Module |-> NoTarget], got |-> {}, provided |-> {}, resolved |-> {},
     items |-> [m \in Module |-> {}], picked |-> {},
     test |-> [m \in Module |-> NoTarget], testsImports |-> [m \in Module |-> {}],
     testedBy |-> [m \in Module |-> {}], failed |-> FALSE]

\* ImportTarget.create_job_target; only a job, not a cached result, is waited for by
\* Known, so non_ready_update_targets tells now what a cached tests module tests.
CreatedStore(program, cache) ==
    LET w == WithTargets(EmptyStore(program, cache),
                         UNION {program.tests[m] \cup program.requires[m] : m \in cache.imports})
        first   == {ImportJob(m, 1) : m \in Module \ cache.imports}
        targets == first \cup {Cached(m) : m \in cache.imports}
    IN  [w EXCEPT
            !.all = @ \cup targets, !.own = @ \cup targets, !.first = first,
            !.job = [m \in Module |-> IF m \in cache.imports THEN Cached(m) ELSE ImportJob(m, 1)],
            !.needs = [t \in targets |-> IF t \in first THEN NoNeeds ELSE Resolve(w, program.requires[t.of])],
            !.testsImports = [n \in Module |-> {m \in cache.imports : n \in program.tests[m]}]]

\* _init_all_statuses
InitialStore(w) == UpdatedAll(UpdatedAll(w, w.all \ w.own), w.own)
=============================================================================
