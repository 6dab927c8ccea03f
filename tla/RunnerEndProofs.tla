--------------------------- MODULE RunnerEndProofs ---------------------------
(* Proofs about how a run of the resource compiler ends: what is left when no  *)
(* job is ready, none is running and none has failed is left because of the    *)
(* program, whose imports, resources and tests wait for each other or for an    *)
(* item that it does not have.                                                  *)
EXTENDS ProcessesProofs

\* The fields of a store that an operator may change.
Fields == {"code", "cache", "all", "own", "completed", "ready", "first", "needs", "job", "got", "provided",
           "resolved", "items", "picked", "test", "testsImports", "testedBy", "failed"}

\* What the program has a target wait for: an import and its resource for what the module
\* requires, a test for what the code that it runs requires or uses; tested modules
\* and their actors as they are imported.
ReqsOf(code, t) ==
    IF t.kind \in {"test", "testjob", "testcached"}
    THEN (UNION {code.requires[n] : n \in {t.of} \cup (code.tests[t.of] \cup code.fixtures[t.of])}) \cup code.uses[t.of]
    ELSE code.requires[t.of]
Fit(code, t, needs) ==
    /\ DOMAIN needs \subseteq ReqsOf(code, t)
    /\ t.kind \in {"test", "testjob", "testcached"} => \A r \in DOMAIN needs :
        /\ r \in code.tests[t.of] => needs[r] = Import(r)
        /\ r \in Item \cap code.actors /\ (\E n \in code.tests[t.of] : r \in code.provides[n]) => needs[r] = Resolved(r)

\* A module with a result, that is not one of tests or fixtures, has given its items.
Gives(w, set) ==
    \A m \in set : m \in w.got => IsTests(w, m) \/ IsFixtures(w, m) \/ w.code.provides[m] \subseteq w.provided

\* What is in a store comes from the program: needs are required there, items of the
\* project are provided, tests are of what they test.
Tidy(w, set) ==
    /\ Fields \subseteq DOMAIN w /\ w.code \in Programs
    /\ \A t \in DOMAIN w.needs : Fit(w.code, t, w.needs[t])
    /\ Gives(w, set)
    /\ w.resolved = w.provided
    /\ \A i \in w.provided : \A m \in Module : i \in w.code.provides[m] => Resource(m) \in w.all
    /\ \A t \in w.own : /\ t.kind \in {"ready", "resolved"} => t.of \in w.provided
                        /\ t.kind = "complete" => t \in w.completed
    /\ \A m \in Module : w.items[m] \subseteq w.code.provides[m] \cap w.provided
    /\ \A n \in Module : \A m \in w.testsImports[n] \cup w.testedBy[n] : n \in w.code.tests[m]

\* A store that has grown, tidily.
LEMMA TidyGrows ==
    ASSUME NEW w, NEW set, Tidy(w, set), NEW v, Fields \subseteq DOMAIN v, v.code = w.code,
           \A t \in DOMAIN v.needs : (t \in DOMAIN w.needs /\ v.needs[t] = w.needs[t]) \/ Fit(w.code, t, v.needs[t]),
           \A m \in set : m \in v.got => m \in w.got,
           w.all \subseteq v.all, w.completed \subseteq v.completed, w.provided = v.provided, v.resolved = w.resolved,
           \A t \in v.own \ w.own : /\ t.kind \in {"ready", "resolved"} => t.of \in v.provided
                                    /\ t.kind = "complete" => t \in v.completed,
           v.items = w.items,
           \A n \in Module : \A m \in v.testsImports[n] \cup v.testedBy[n] :
                m \in w.testsImports[n] \cup w.testedBy[n] \/ n \in w.code.tests[m]
    PROVE  Tidy(v, set)
<1>1. Gives(v, set)
  BY DEF Tidy, Gives, IsTests, IsFixtures
<1>2. \A t \in DOMAIN v.needs : Fit(v.code, t, v.needs[t])
  BY DEF Tidy
<1> QED BY <1>1, <1>2 DEF Tidy

\* The operators that change one thing.
LEMMA TidyChange ==
    ASSUME NEW w, NEW set, Tidy(w, set), NEW x
    PROVE  /\ \A v \in {[w EXCEPT !.job = x], [w EXCEPT !.test = x], [w EXCEPT !.ready = x],
                        [w EXCEPT !.picked = x], [w EXCEPT !.failed = x]} : Tidy(v, set) /\ v.code = w.code
           /\ LET v == [w EXCEPT !.got = @ \cup {x}] IN Tidy(v, set \ {x}) /\ v.code = w.code
           /\ Tidy(Completed(w, x), set) /\ Completed(w, x).code = w.code
<1> USE DEF Fields
<1>1. ASSUME NEW v \in {[w EXCEPT !.job = x], [w EXCEPT !.test = x], [w EXCEPT !.ready = x],
                        [w EXCEPT !.picked = x], [w EXCEPT !.failed = x]}
      PROVE  Tidy(v, set) /\ v.code = w.code
  <2>1. /\ Fields \subseteq DOMAIN v /\ v.code = w.code /\ v.needs = w.needs /\ v.got = w.got
        /\ v.all = w.all /\ v.completed = w.completed /\ v.provided = w.provided /\ v.resolved = w.resolved
        /\ v.own = w.own /\ v.items = w.items /\ v.testsImports = w.testsImports /\ v.testedBy = w.testedBy
    BY DEF Tidy
  <2> HIDE DEF Fields
  <2> QED BY <2>1, TidyGrows
<1>2. LET v == [w EXCEPT !.got = @ \cup {x}] IN Tidy(v, set \ {x}) /\ v.code = w.code
  <2> DEFINE v == [w EXCEPT !.got = @ \cup {x}]
  <2>1. /\ Fields \subseteq DOMAIN v /\ v.code = w.code /\ v.needs = w.needs /\ v.got = w.got \cup {x}
        /\ v.all = w.all /\ v.completed = w.completed /\ v.provided = w.provided /\ v.resolved = w.resolved
        /\ v.own = w.own /\ v.items = w.items /\ v.testsImports = w.testsImports /\ v.testedBy = w.testedBy
    BY DEF Tidy
  <2> HIDE DEF Fields, v
  <2>2. Tidy(w, set \ {x})
    BY DEF Tidy, Gives
  <2>3. Tidy(v, set \ {x})
    BY <2>1, <2>2, TidyGrows
  <2> QED BY <2>1, <2>3 DEF v
<1>3. Tidy(Completed(w, x), set) /\ Completed(w, x).code = w.code
  <2> DEFINE v == Completed(w, x)
  <2>1. /\ Fields \subseteq DOMAIN v /\ v.code = w.code /\ v.needs = w.needs /\ v.got = w.got
        /\ v.all = w.all /\ w.completed \subseteq v.completed /\ v.provided = w.provided /\ v.resolved = w.resolved
        /\ v.own = w.own /\ v.items = w.items /\ v.testsImports = w.testsImports /\ v.testedBy = w.testedBy
    BY DEF Tidy, Completed
  <2> HIDE DEF Fields, v
  <2>2. Tidy(v, set)
    BY <2>1, TidyGrows
  <2> QED BY <2>1, <2>2 DEF v
<1> QED BY <1>1, <1>2, <1>3

\* Targets that are made, and needs that fit.
LEMMA TidyMade ==
    ASSUME NEW w, NEW set, Tidy(w, set)
    PROVE  /\ \A reqs : Tidy(WithTargets(w, reqs), set) /\ WithTargets(w, reqs).code = w.code
           /\ \A t : (/\ t.kind \in {"ready", "resolved"} => t.of \in w.provided
                      /\ t.kind = "complete" => t \in w.completed)
                     => /\ Tidy(Adopted(w, t), set) /\ Adopted(w, t).code = w.code
                        /\ t \in Adopted(w, t).all
           /\ \A t, needs : Fit(w.code, t, needs) =>
                Tidy(WithNeeds(w, t, needs), set) /\ WithNeeds(w, t, needs).code = w.code
<1> USE DEF Fields
<1>1. ASSUME NEW reqs PROVE Tidy(WithTargets(w, reqs), set) /\ WithTargets(w, reqs).code = w.code
  <2> DEFINE v == WithTargets(w, reqs)
  <2>1. /\ Fields \subseteq DOMAIN v /\ v.code = w.code /\ v.needs = w.needs /\ v.got = w.got
        /\ w.all \subseteq v.all /\ v.completed = w.completed /\ v.provided = w.provided /\ v.resolved = w.resolved
        /\ v.own = w.own \cup {Resource(m) : m \in reqs \cap Module}
        /\ v.items = w.items /\ v.testsImports = w.testsImports /\ v.testedBy = w.testedBy
    BY DEF Tidy, WithTargets
  <2> HIDE DEF Fields, v
  <2>2. \A t \in v.own \ w.own : t.kind = "resource"
    BY <2>1, TargetFields
  <2>3. Tidy(v, set)
    BY <2>1, <2>2, TidyGrows
  <2> QED BY <2>1, <2>3 DEF v
<1>2. ASSUME NEW t, t.kind \in {"ready", "resolved"} => t.of \in w.provided, t.kind = "complete" => t \in w.completed
      PROVE  Tidy(Adopted(w, t), set) /\ Adopted(w, t).code = w.code /\ t \in Adopted(w, t).all
  <2> DEFINE v == Adopted(w, t)
  <2>1. /\ Fields \subseteq DOMAIN v /\ v.code = w.code /\ v.needs = w.needs /\ v.got = w.got
        /\ v.all = w.all \cup {t} /\ v.completed = w.completed /\ v.provided = w.provided /\ v.resolved = w.resolved
        /\ v.own = w.own \cup {t}
        /\ v.items = w.items /\ v.testsImports = w.testsImports /\ v.testedBy = w.testedBy
    BY DEF Tidy, Adopted
  <2> HIDE DEF Fields, v
  <2>2. Tidy(v, set)
    BY <1>2, <2>1, TidyGrows
  <2> QED BY <2>1, <2>2 DEF v
<1>3. ASSUME NEW t, NEW needs, Fit(w.code, t, needs)
      PROVE  Tidy(WithNeeds(w, t, needs), set) /\ WithNeeds(w, t, needs).code = w.code
  <2> DEFINE v == WithNeeds(w, t, needs)
  <2>1. /\ Fields \subseteq DOMAIN v /\ v.code = w.code /\ v.got = w.got /\ v.all = w.all /\ v.own = w.own
        /\ v.needs = [u \in DOMAIN w.needs \cup {t} |-> IF u = t THEN needs ELSE w.needs[u]]
        /\ v.completed = w.completed /\ v.provided = w.provided /\ v.resolved = w.resolved
        /\ v.items = w.items /\ v.testsImports = w.testsImports /\ v.testedBy = w.testedBy
    BY DEF Tidy, WithNeeds
  <2> HIDE DEF Fields, v
  <2>2. Tidy(v, set)
    BY <1>3, <2>1, TidyGrows
  <2> QED BY <2>1, <2>2 DEF v
<1> QED BY <1>1, <1>2, <1>3

\* A resource that is completed fails an assertion.
LEMMA TidyAsserted ==
    ASSUME NEW w, NEW set, Tidy(w, set), NEW ms
    PROVE  Tidy(Asserted(w, ms), set) /\ Asserted(w, ms).code = w.code
<1> DEFINE v == Asserted(w, ms)
<1>1. PICK x : x = (w.failed \/ \E m \in ms : Resource(m) \in w.completed)
  OBVIOUS
<1>2. v = [w EXCEPT !.failed = x]
  BY <1>1 DEF Asserted
<1> HIDE DEF v
<1>3. Tidy(v, set) /\ v.code = w.code
  BY <1>2, TidyChange
<1> QED BY <1>3 DEF v

\* The first job of an import or of a test.
LEMMA TidyFirst ==
    ASSUME NEW w, NEW set, Tidy(w, set), NEW x, NEW v, v = [w EXCEPT !.job = x] \/ v = [w EXCEPT !.test = x]
    PROVE  Tidy(v, set) /\ v.code = w.code
<1>1. /\ Fields \subseteq DOMAIN v /\ v.code = w.code /\ v.needs = w.needs /\ v.got = w.got
      /\ v.all = w.all /\ v.completed = w.completed /\ v.provided = w.provided /\ v.resolved = w.resolved
      /\ v.own = w.own /\ v.items = w.items /\ v.testsImports = w.testsImports /\ v.testedBy = w.testedBy
  BY DEF Tidy, Fields
<1> QED BY <1>1, TidyGrows

\* A target that is not of an item is adopted.
LEMMA TidyAdopted ==
    ASSUME NEW w, NEW set, Tidy(w, set), NEW t, t.kind \notin {"ready", "resolved", "complete"}
    PROVE  Tidy(Adopted(w, t), set) /\ Adopted(w, t).code = w.code
BY TidyMade

\* What is found of tests.
LEMMA TidyTests ==
    ASSUME NEW w, NEW set, Tidy(w, set), NEW m \in Module
    PROVE  /\ Tidy(TestsMade(w, m, w.code.tests[m]), set) /\ TestsMade(w, m, w.code.tests[m]).code = w.code
           /\ Tidy(AddTestsImport(w, m), set) /\ AddTestsImport(w, m).code = w.code
<1> USE DEF Fields
<1>1. ASSUME NEW x, Tidy(x, set), x.code = w.code
      PROVE  \A v \in {TestsMade(x, m, w.code.tests[m]), TestsFound(x, m, w.code.tests[m])} : Tidy(v, set) /\ v.code = w.code
  <2> SUFFICES ASSUME NEW v \in {TestsMade(x, m, w.code.tests[m]), TestsFound(x, m, w.code.tests[m])}
               PROVE  Tidy(v, set) /\ v.code = w.code
    OBVIOUS
  <2>1. /\ Fields \subseteq DOMAIN v /\ v.code = x.code /\ v.needs = x.needs /\ v.got = x.got /\ v.own = x.own
        /\ v.all = x.all /\ v.completed = x.completed /\ v.provided = x.provided /\ v.resolved = x.resolved
        /\ v.items = x.items
    BY <1>1 DEF Tidy, TestsMade, TestsFound
  <2>2. \A n \in Module : /\ v.testsImports[n] \subseteq x.testsImports[n] \cup IF n \in w.code.tests[m] THEN {m} ELSE {}
                          /\ v.testedBy[n] \subseteq x.testedBy[n] \cup IF n \in w.code.tests[m] THEN {m} ELSE {}
    BY <1>1 DEF Tidy, TestsMade, TestsFound
  <2> HIDE DEF Fields
  <2>3. \A n \in Module : \A k \in v.testsImports[n] \cup v.testedBy[n] :
            k \in x.testsImports[n] \cup x.testedBy[n] \/ n \in x.code.tests[k]
    BY <1>1, <2>2
  <2> QED BY <1>1, <2>1, <2>3, TidyGrows
<1>2. AddTestsImport(w, m) = TestsFound(WithTargets(w, w.code.tests[m]), m, w.code.tests[m])
  BY DEF AddTestsImport, TestsFound
<1> QED BY <1>1, <1>2, TidyMade

\* The items of a module whose resource is made.
LEMMA TidyConstructed ==
    ASSUME NEW w, NEW set, NEW m \in Module, Tidy(w, set), Resource(m) \in w.all
    PROVE  Tidy(Constructed(w, m), set \cup {m})
<1> DEFINE v == Constructed(w, m)  items == w.code.provides[m]
<1>1. /\ Fields \subseteq DOMAIN v /\ v.code = w.code /\ v.needs = w.needs /\ v.got = w.got
      /\ w.all \subseteq v.all /\ w.completed \subseteq v.completed
      /\ v.provided = w.provided \cup items /\ v.resolved = w.resolved \cup items
      /\ v.own = w.own \cup {Ready(i) : i \in items} \cup {Resolved(i) : i \in items}
      /\ v.testsImports = w.testsImports /\ v.testedBy = w.testedBy
  BY DEF Tidy, Constructed, Fields
<1>2. v.items = [w.items EXCEPT ![m] = @ \cup items]
  BY DEF Tidy, Constructed, Fields
<1> HIDE DEF v
<1>3. \A n \in Module : v.items[n] \subseteq w.items[n] \cup IF n = m THEN items ELSE {}
  BY <1>2
<1>4. \A t \in v.own \ w.own : t.kind \in {"ready", "resolved"} /\ t.of \in v.provided
  BY <1>1, TargetFields
<1>5. \A t \in v.own : /\ t.kind \in {"ready", "resolved"} => t.of \in v.provided
                       /\ t.kind = "complete" => t \in v.completed
  BY <1>1, <1>4 DEF Tidy
<1>6. Gives(v, set \cup {m})
  BY <1>1 DEF Tidy, Gives, IsTests, IsFixtures
<1>7. \A i \in v.provided : \A n \in Module : i \in v.code.provides[n] => Resource(n) \in v.all
  <2>1. \A i \in items : \A n \in Module : i \in w.code.provides[n] => n = m
    BY ProgramTypes DEF Tidy
  <2> QED BY <1>1, <2>1 DEF Tidy
<1>8. \A n \in Module : v.items[n] \subseteq v.code.provides[n] \cap v.provided
  BY <1>1, <1>3 DEF Tidy
<1>9. Tidy(v, set \cup {m})
  BY <1>1, <1>5, <1>6, <1>7, <1>8 DEF Tidy
<1> QED BY <1>9 DEF v

\* What fits.
LEMMA Fitting ==
    ASSUME NEW w, NEW set, Tidy(w, set)
    PROVE  /\ \A t : Fit(w.code, t, Needs(w, t)) /\ Fit(w.code, t, NoNeeds)
           /\ \A t, reqs, x : /\ t.kind \notin {"test", "testjob", "testcached"} /\ reqs \subseteq ReqsOf(w.code, t)
                              => Fit(w.code, t, Resolve(x, reqs)) /\ Fit(w.code, t, ImportNeeds(x, reqs))
           /\ \A t, reqs, x : x.code = w.code /\ reqs \subseteq ReqsOf(w.code, t) /\ t.of \in Module
                              => Fit(w.code, t, ResolveIn(x, w.code.tests[t.of], reqs))
           /\ \A t, f, g : Fit(w.code, t, f) /\ Fit(w.code, t, g) => Fit(w.code, t, Joined(f, g))
<1>1. ASSUME NEW t PROVE Fit(w.code, t, Needs(w, t)) /\ Fit(w.code, t, NoNeeds)
  <2>1. Fit(w.code, t, NoNeeds)
    BY DEF Fit, NoNeeds
  <2> QED BY <2>1 DEF Needs, Tidy
<1>2. ASSUME NEW t, NEW reqs, NEW x, t.kind \notin {"test", "testjob", "testcached"}, reqs \subseteq ReqsOf(w.code, t)
      PROVE  Fit(w.code, t, Resolve(x, reqs)) /\ Fit(w.code, t, ImportNeeds(x, reqs))
  BY <1>2 DEF Fit, Resolve, ResolveIn, ImportNeeds
<1>3. ASSUME NEW t, NEW reqs, NEW x, x.code = w.code, reqs \subseteq ReqsOf(w.code, t), t.of \in Module
      PROVE  Fit(w.code, t, ResolveIn(x, w.code.tests[t.of], reqs))
  <2> DEFINE tested == w.code.tests[t.of]
  <2>1. DOMAIN ResolveIn(x, tested, reqs) = reqs /\ \A r \in reqs : ResolveIn(x, tested, reqs)[r] = TargetIn(x, tested, r)
    BY DEF ResolveIn
  <2>2. \A r \in tested : TargetIn(x, tested, r) = Import(r)
    BY DEF TargetIn
  <2>3. ASSUME NEW r \in Item \cap w.code.actors, NEW n \in tested, r \in w.code.provides[n]
        PROVE  TargetIn(x, tested, r) = Resolved(r)
    <3>1. tested \subseteq Module /\ w.code \in Programs
      BY <1>3, ProgramTypes DEF Tidy
    <3>2. Provider(x, r) = n
      BY <1>3, <2>3, <3>1, ProviderIs
    <3>3. r \notin Module
      BY TargetAssumption
    <3> QED BY <1>3, <2>3, <3>1, <3>2, <3>3 DEF TargetIn
  <2> HIDE DEF tested
  <2>4. Fit(w.code, t, ResolveIn(x, tested, reqs))
    BY <1>3, <2>1, <2>2, <2>3 DEF Fit, tested
  <2> QED BY <2>4 DEF tested
<1>4. ASSUME NEW t, NEW f, NEW g, Fit(w.code, t, f), Fit(w.code, t, g) PROVE Fit(w.code, t, Joined(f, g))
  <2>1. /\ DOMAIN Joined(f, g) = DOMAIN f \cup DOMAIN g
        /\ \A r \in DOMAIN Joined(f, g) : (r \in DOMAIN f /\ Joined(f, g)[r] = f[r]) \/ (r \in DOMAIN g /\ Joined(f, g)[r] = g[r])
    BY DEF Joined
  <2> QED BY <1>4, <2>1 DEF Fit
<1> QED BY <1>1, <1>2, <1>3, <1>4

\* A job more of an import or of a test.
LEMMA TidyJobs ==
    ASSUME NEW w, NEW set, Tidy(w, set), NEW m \in Module, NEW k, NEW needs
    PROVE  /\ Fit(w.code, ImportJob(m, k), needs) => Tidy(WithJob(w, m, k, needs), set)
           /\ Fit(w.code, Test(m), needs) => Tidy(WithTestJob(w, m, k, needs), set)
<1>1. ASSUME Fit(w.code, ImportJob(m, k), needs) PROVE Tidy(WithJob(w, m, k, needs), set)
  <2> DEFINE x == Adopted(w, ImportJob(m, k))  v == [x EXCEPT !.job[m] = ImportJob(m, k)]
  <2>1. Tidy(x, set) /\ x.code = w.code
    <3>1. ImportJob(m, k).kind = "job"
      BY TargetFields
    <3> QED BY <3>1, TidyAdopted
  <2>2. v = [x EXCEPT !.job = [x.job EXCEPT ![m] = ImportJob(m, k)]]
    OBVIOUS
  <2>3. WithJob(w, m, k, needs) = WithNeeds(v, ImportJob(m, k), needs)
    BY DEF WithJob
  <2> HIDE DEF x, v
  <2>4. Tidy(v, set) /\ v.code = w.code
    BY <2>1, <2>2, TidyFirst
  <2> QED BY <1>1, <2>3, <2>4, TidyMade
<1>2. ASSUME Fit(w.code, Test(m), needs) PROVE Tidy(WithTestJob(w, m, k, needs), set)
  <2> DEFINE x == Adopted(w, TestJob(m, k))  v == [x EXCEPT !.test[m] = TestJob(m, k)]
             y == WithNeeds(v, TestJob(m, k), needs)
  <2>1. Tidy(x, set) /\ x.code = w.code
    <3>1. TestJob(m, k).kind = "testjob"
      BY TargetFields
    <3> QED BY <3>1, TidyAdopted
  <2>2. v = [x EXCEPT !.test = [x.test EXCEPT ![m] = TestJob(m, k)]]
    OBVIOUS
  <2>3. WithTestJob(w, m, k, needs) = WithNeeds(y, Test(m), needs)
    BY DEF WithTestJob
  <2>4. Fit(w.code, TestJob(m, k), needs)
    BY <1>2, TargetFields DEF Fit, ReqsOf
  <2> HIDE DEF x, v
  <2>5. Tidy(v, set) /\ v.code = w.code
    BY <2>1, <2>2, TidyFirst
  <2>6. Tidy(y, set) /\ y.code = w.code
    BY <2>4, <2>5, TidyMade
  <2> QED BY <1>2, <2>3, <2>6, TidyMade
<1> QED BY <1>1, <1>2

\* The test of a module.
LEMMA TidyAddTest ==
    ASSUME NEW w, NEW set, Tidy(w, set), NEW m \in Module
    PROVE  Tidy(AddTest(w, m), set)
<1> DEFINE tested == w.code.tests[m]
           v == Asserted(WithTargets(w, w.code.requires[m] \cup tested), tested)
           a == Adopted(v, Test(m))
           x == TestsMade(a, m, tested)
           needs == ResolveIn(x, tested, w.code.requires[m])
           y == WithTargets(x, TestReqs(w, m))
           later == ResolveIn(y, tested, TestReqs(w, m))
           b == Adopted(y, TestCached(m))
           c == [b EXCEPT !.test = [b.test EXCEPT ![m] = TestCached(m)]]
           d == WithNeeds(c, TestCached(m), later)
<1>1. AddTest(w, m) = IF m \in w.cache.tests THEN WithNeeds(d, Test(m), needs) ELSE WithTestJob(x, m, 1, needs)
  BY DEF AddTest, TestsMade
<1>k. Test(m).kind = "test" /\ Test(m).of = m /\ TestCached(m).kind = "testcached" /\ TestCached(m).of = m
  BY TargetFields
<1>2. ReqsOf(w.code, Test(m)) = TestReqs(w, m) /\ ReqsOf(w.code, TestCached(m)) = TestReqs(w, m)
  BY <1>k DEF ReqsOf, TestReqs, Helpers
<1>3. w.code.requires[m] \subseteq TestReqs(w, m)
  BY DEF TestReqs
<1>4. Tidy(v, set) /\ v.code = w.code
  <2>1. Tidy(WithTargets(w, w.code.requires[m] \cup tested), set) /\ WithTargets(w, w.code.requires[m] \cup tested).code = w.code
    BY TidyMade
  <2> QED BY <2>1, TidyAsserted
<1> HIDE DEF v
<1>5. Tidy(a, set) /\ a.code = w.code
  BY <1>4, <1>k, TidyMade
<1> HIDE DEF a
<1>6. Tidy(x, set) /\ x.code = w.code
  BY <1>5, TidyTests
<1> HIDE DEF x
<1>7. Tidy(y, set) /\ y.code = w.code
  BY <1>6, TidyMade
<1>8. Fit(w.code, Test(m), needs)
  BY <1>2, <1>3, <1>6, <1>k, Fitting
<1>9. Fit(w.code, TestCached(m), later)
  BY <1>2, <1>7, <1>k, Fitting
<1> HIDE DEF y, needs, later
<1>10. Tidy(b, set) /\ b.code = w.code
  BY <1>7, <1>k, TidyMade
<1> HIDE DEF b
<1>11. Tidy(c, set) /\ c.code = w.code
  BY <1>10, TidyChange
<1> HIDE DEF c
<1>12. Tidy(d, set) /\ d.code = w.code
  BY <1>9, <1>11, TidyMade
<1> HIDE DEF d
<1> QED BY <1>1, <1>6, <1>8, <1>12, TidyJobs, TidyMade

\* The result of an import.
LEMMA TidyResult ==
    ASSUME NEW w, Tidy(w, Module), NEW m \in Module, NEW reqs, reqs \subseteq w.code.requires[m]
    PROVE  Tidy(UseResult(w, m, reqs), Module)
<1> DEFINE v == WithTargets(w, reqs)
           g == [v EXCEPT !.got = @ \cup {m}]
           x == WithNeeds(g, Import(m), ImportNeeds(v, reqs))
           r == Adopted(Asserted(x, {m}), Resource(m))
           y == WithNeeds(r, Resource(m), Resolve(v, reqs))
           f == AddTestsImport(x, m)
           rest == Module \ {m}
<1>1. UseResult(w, m, reqs) = IF IsTests(w, m) THEN AddTest(f, m) ELSE IF IsFixtures(w, m) THEN x ELSE Constructed(y, m)
  BY DEF UseResult
<1>2. Tidy(v, Module) /\ v.code = w.code
  BY TidyMade
<1>3. reqs \subseteq ReqsOf(w.code, Import(m)) /\ reqs \subseteq ReqsOf(w.code, Resource(m))
  BY TargetFields DEF ReqsOf
<1>4. Fit(w.code, Import(m), ImportNeeds(v, reqs)) /\ Fit(w.code, Resource(m), Resolve(v, reqs))
  BY <1>3, Fitting, TargetFields
<1>5. Tidy(g, rest) /\ g.code = w.code
  BY <1>2, TidyChange
<1> HIDE DEF g, v
<1>6. Tidy(x, rest) /\ x.code = w.code
  BY <1>4, <1>5, TidyMade
<1> HIDE DEF x
<1>7. Tidy(r, rest) /\ r.code = w.code /\ Resource(m) \in r.all
  <2>1. Tidy(Asserted(x, {m}), rest) /\ Asserted(x, {m}).code = w.code
    BY <1>6, TidyAsserted
  <2>2. Resource(m).kind = "resource"
    BY TargetFields
  <2> QED BY <2>1, <2>2, TidyMade
<1>8. Tidy(y, rest) /\ y.code = w.code /\ Resource(m) \in y.all
  <2>1. y.all = r.all
    BY <1>7 DEF WithNeeds, Tidy, Fields
  <2> QED BY <1>4, <1>7, <2>1, TidyMade
<1> HIDE DEF r, y
<1>9. Tidy(f, rest) /\ f.code = w.code
  BY <1>6, TidyTests
<1> HIDE DEF f
<1>10. ASSUME NEW z, Tidy(z, rest), IsTests(z, m) \/ IsFixtures(z, m) PROVE Tidy(z, Module)
  <2>1. Gives(z, Module)
    BY <1>10 DEF Tidy, Gives
  <2> QED BY <1>10, <2>1 DEF Tidy
<1>11. CASE IsTests(w, m)
  <2>1. IsTests(f, m)
    BY <1>9, <1>11 DEF IsTests
  <2>2. Tidy(f, Module)
    BY <1>9, <1>10, <2>1
  <2> QED BY <1>1, <1>11, <2>2, TidyAddTest
<1>12. CASE ~IsTests(w, m) /\ IsFixtures(w, m)
  <2>1. IsFixtures(x, m)
    BY <1>6, <1>12 DEF IsFixtures
  <2> QED BY <1>1, <1>6, <1>10, <1>12, <2>1
<1>13. CASE ~IsTests(w, m) /\ ~IsFixtures(w, m)
  <2>1. Tidy(Constructed(y, m), rest \cup {m})
    BY <1>8, TidyConstructed
  <2>2. rest \cup {m} = Module
    OBVIOUS
  <2> QED BY <1>1, <1>13, <2>1, <2>2
<1> QED BY <1>11, <1>12, <1>13

\* An update of an item.
LEMMA TidyItems ==
    ASSUME NEW w, Tidy(w, Module), NEW i \in Item
    PROVE  Tidy(UpdateResolved(w, i), Module) /\ Tidy(UpdateComplete(w, i), Module)
<1>1. Tidy(UpdateResolved(w, i), Module)
  <2>1. CASE i \in w.resolved
    <3>1. i \in w.provided /\ Resolved(i).of = i /\ Resolved(i).kind = "resolved"
      BY <2>1, TargetFields DEF Tidy
    <3>2. Tidy(Adopted(w, Resolved(i)), Module)
      BY <3>1, TidyMade
    <3> QED BY <2>1, <3>2, TidyChange DEF UpdateResolved
  <2> QED BY <2>1 DEF UpdateResolved
<1>2. Tidy(UpdateComplete(w, i), Module)
  <2> DEFINE c == Complete(i)
             p == [w EXCEPT !.picked = @ \cup {i}]
             v == IF Resolved(i) \in w.completed THEN p ELSE w
             y == Completed(Adopted(v, c), c)
  <2>1. Tidy(v, Module) /\ v.code = w.code
    BY TidyChange
  <2>2. UpdateComplete(w, i) \in {v, y}
    BY DEF UpdateComplete
  <2>k. c.kind = "complete"
    BY TargetFields
  <2> HIDE DEF v, c
  <2>3. /\ Fields \subseteq DOMAIN y /\ y.code = v.code /\ y.needs = v.needs /\ y.got = v.got
        /\ y.all = v.all \cup {c} /\ y.own = v.own \cup {c} /\ y.completed = v.completed \cup {c}
        /\ y.provided = v.provided /\ y.resolved = v.resolved
        /\ y.items = v.items /\ y.testsImports = v.testsImports /\ y.testedBy = v.testedBy
    BY <2>1 DEF Tidy, Adopted, Completed, Fields
  <2> HIDE DEF y
  <2>4. Tidy(y, Module)
    BY <2>1, <2>3, <2>k, TidyGrows
  <2> QED BY <2>1, <2>2, <2>4
<1> QED BY <1>1, <1>2

\* An update of a target with a cached result.
LEMMA TidyCached ==
    ASSUME NEW w, Tidy(w, Module), NEW m \in Module
    PROVE  Tidy(UpdateCached(w, m), Module) /\ Tidy(UpdateTestCached(w, TestCached(m)), Module)
<1>1. Tidy(UpdateCached(w, m), Module)
  <2> DEFINE t == Cached(m)  reqs == DOMAIN Needs(w, t)  v == WithTargets(w, reqs)
             x == WithNeeds(v, t, Resolve(v, reqs))  y == Completed(x, t)
             j == WithJob(y, m, 1, Needs(x, t))  u == UseResult(y, m, reqs)
  <2>1. UpdateCached(w, m) \in {w, x, j, u}
    BY DEF UpdateCached
  <2>k. t.kind = "cached" /\ t.of = m /\ ImportJob(m, 1).kind = "job" /\ ImportJob(m, 1).of = m
    BY TargetFields
  <2>2. reqs \subseteq ReqsOf(w.code, t) /\ ReqsOf(w.code, t) = w.code.requires[m]
        /\ ReqsOf(w.code, ImportJob(m, 1)) = w.code.requires[m]
    BY <2>k, Fitting DEF Fit, ReqsOf
  <2>3. Tidy(v, Module) /\ v.code = w.code
    BY TidyMade
  <2>4. Fit(w.code, t, Resolve(v, reqs))
    BY <2>2, <2>k, Fitting
  <2> HIDE DEF t, reqs, v
  <2>5. Tidy(x, Module) /\ x.code = w.code
    BY <2>3, <2>4, TidyMade
  <2>6. Fit(w.code, ImportJob(m, 1), Needs(x, t))
    <3>1. Fit(w.code, t, Needs(x, t))
      BY <2>5, Fitting
    <3> QED BY <3>1, <2>2, <2>k DEF Fit
  <2> HIDE DEF x
  <2>7. Tidy(y, Module) /\ y.code = w.code
    BY <2>5, TidyChange
  <2> HIDE DEF y
  <2>8. Tidy(j, Module) /\ Tidy(u, Module)
    BY <2>2, <2>6, <2>7, TidyJobs, TidyResult
  <2> HIDE DEF j, u
  <2> QED BY <2>1, <2>5, <2>8
<1>2. Tidy(UpdateTestCached(w, TestCached(m)), Module)
  <2> DEFINE t == TestCached(m)  reqs == DOMAIN Needs(w, t)  v == WithTargets(w, reqs)
             x == WithNeeds(v, t, ResolveIn(v, w.code.tests[m], reqs))  y == Completed(x, t)
             j == WithTestJob(y, m, 1, Needs(w, Test(m)))  u == UseTestResult(y, m)
  <2>k. t.kind = "testcached" /\ t.of = m
    BY TargetFields
  <2>1. UpdateTestCached(w, t) \in {w, x, j, u}
    BY <2>k DEF UpdateTestCached
  <2>2. reqs \subseteq ReqsOf(w.code, t)
    BY Fitting DEF Fit
  <2>3. Tidy(v, Module) /\ v.code = w.code
    BY TidyMade
  <2>4. Fit(w.code, t, ResolveIn(v, w.code.tests[m], reqs))
    BY <2>2, <2>3, <2>k, Fitting
  <2>6. Fit(w.code, Test(m), Needs(w, Test(m)))
    BY Fitting
  <2>e. UpdateTestCached(w, TestCached(m)) = UpdateTestCached(w, t)
    OBVIOUS
  <2> HIDE DEF t, reqs, v
  <2>5. Tidy(x, Module) /\ x.code = w.code
    BY <2>3, <2>4, TidyMade
  <2> HIDE DEF x
  <2>7. Tidy(y, Module) /\ y.code = w.code
    BY <2>5, TidyChange
  <2> HIDE DEF y
  <2>8. Tidy(j, Module)
    BY <2>6, <2>7, TidyJobs
  <2>9. Tidy(u, Module)
    BY <2>7, TidyAsserted DEF UseTestResult
  <2> HIDE DEF j, u
  <2> QED BY <2>1, <2>5, <2>8, <2>9, <2>e
<1> QED BY <1>1, <1>2

\* An update of a test job.
LEMMA TidyTestJob ==
    ASSUME NEW w, Tidy(w, Module), NEW t, t.kind = "testjob", t.of \in Module
    PROVE  Tidy(UpdateTestJob(w, t), Module)
<1> DEFINE tested == w.code.tests[t.of]
           picked == UNION {w.code.requires[m] : m \in {n \in Helpers(w, t.of) : Import(n) \in w.completed}}
           v == WithTargets(w, picked)
           needs == Joined(Needs(w, t), ResolveIn(v, tested, picked))
           x == WithNeeds(v, t, needs)
           reqs == DOMAIN Needs(x, t)
           y == WithTargets(x, reqs)
           again == ResolveIn(y, tested, reqs)
           z == WithNeeds(y, t, again)
           r == [z EXCEPT !.ready = IF Satisfied(z, Deps(z, t)) THEN @ \cup {t} ELSE @ \ {t}]
<1>1. UpdateTestJob(w, t) \in {x, r}
  BY DEF UpdateTestJob
<1>2. picked \subseteq ReqsOf(w.code, t)
  BY DEF ReqsOf, Helpers
<1>3. Tidy(v, Module) /\ v.code = w.code
  BY TidyMade
<1> HIDE DEF picked, v
<1>4. Fit(w.code, t, needs)
  BY <1>2, <1>3, Fitting
<1> HIDE DEF needs
<1>5. Tidy(x, Module) /\ x.code = w.code
  BY <1>3, <1>4, TidyMade
<1> HIDE DEF x
<1>6. reqs \subseteq ReqsOf(w.code, t)
  BY <1>5, Fitting DEF Fit
<1>7. Tidy(y, Module) /\ y.code = w.code
  BY <1>5, TidyMade
<1> HIDE DEF y, reqs
<1>8. Fit(w.code, t, again)
  BY <1>6, <1>7, Fitting
<1> HIDE DEF again
<1>9. Tidy(z, Module)
  BY <1>7, <1>8, TidyMade
<1> HIDE DEF z
<1>10. Tidy(r, Module)
  BY <1>9, TidyChange
<1> HIDE DEF r
<1> QED BY <1>1, <1>5, <1>10

\* An update.
LEMMA TidyUpdated ==
    ASSUME NEW w, Tidy(w, Module), NEW t \in Target
    PROVE  Tidy(Updated(w, t), Module)
<1>w. OfItsKind(t)
  BY TargetShape
<1>c. Tidy(Completed(w, t), Module)
  BY TidyChange
<1>1. CASE t \in w.completed
  BY <1>1 DEF Updated
<1>2. ASSUME t \notin w.completed, t.kind \in {"known", "import", "resource", "test", "ready"}
      PROVE  Tidy(Updated(w, t), Module)
  <2>1. Updated(w, t) \in {w, Completed(w, t)}
    BY <1>2, <1>w DEF Updated, OfItsKind, UpdateKnown, UpdateImport, UpdateResource, UpdateTest, UpdateReady
  <2> QED BY <1>c, <2>1
<1>3. ASSUME t \notin w.completed, t.kind = "job" PROVE Tidy(Updated(w, t), Module)
  BY <1>3, TidyChange DEF Updated, UpdateJob
<1>4. ASSUME t \notin w.completed, t.kind = "cached" PROVE Tidy(Updated(w, t), Module)
  BY <1>4, <1>w, TidyCached DEF Updated, OfItsKind
<1>5. ASSUME t \notin w.completed, t.kind \in {"resolved", "complete"} PROVE Tidy(Updated(w, t), Module)
  BY <1>5, <1>w, TidyItems DEF Updated, OfItsKind
<1>6. ASSUME t \notin w.completed, t.kind = "testjob" PROVE Tidy(Updated(w, t), Module)
  BY <1>6, <1>w, TidyTestJob DEF Updated, OfItsKind
<1>7. ASSUME t \notin w.completed, t.kind = "testcached" PROVE Tidy(Updated(w, t), Module)
  BY <1>7, <1>w, TidyCached DEF Updated, OfItsKind
<1> QED BY <1>1, <1>2, <1>3, <1>4, <1>5, <1>6, <1>7, <1>w DEF OfItsKind

\* A result, when what an incomplete one asks for is required.
LEMMA TidyHandled ==
    ASSUME NEW w, Tidy(w, Module), NEW t, t.kind \in {"job", "testjob"}, t.of \in Module,
           NEW a, a = Ok \/ a.req \in ReqsOf(w.code, t)
    PROVE  Tidy(Handled(w, t, a), Module)
<1> DEFINE m == t.of  c == Completed(w, t)
<1>c. Tidy(c, Module) /\ c.code = w.code
  BY TidyChange
<1> HIDE DEF c
<1>1. CASE t.kind = "job"
  <2> DEFINE f == AddTestsImport(c, m)  x == WithTargets(f, {a.req})
             needs == Resolve(x, {a.req})
  <2>1. Handled(w, t, a) = IF a = Ok THEN UseResult(c, m, w.code.requires[m]) ELSE WithJob(x, m, t.idx + 1, needs)
    BY <1>1 DEF Handled, ImportHandled, c
  <2>2. Tidy(f, Module) /\ f.code = w.code
    BY <1>c, TidyTests
  <2> HIDE DEF f
  <2>3. Tidy(x, Module) /\ x.code = w.code
    BY <2>2, TidyMade
  <2>k. ImportJob(m, t.idx + 1).kind = "job" /\ ImportJob(m, t.idx + 1).of = m
    BY TargetFields
  <2>4. a # Ok => Fit(w.code, ImportJob(m, t.idx + 1), needs)
    <3>1. ReqsOf(w.code, ImportJob(m, t.idx + 1)) = ReqsOf(w.code, t)
      BY <1>1, <2>k DEF ReqsOf
    <3> QED BY <3>1, <2>k, Fitting
  <2> HIDE DEF x, needs
  <2> QED BY <1>c, <2>1, <2>3, <2>4, TidyJobs, TidyResult
<1>2. CASE t.kind = "testjob"
  <2> DEFINE v == UseTestResult(c, m)  x == WithTargets(v, {a.req})
             asked == ResolveIn(x, w.code.tests[m], {a.req})
             needs == Joined(asked, Needs(x, Test(m)))
  <2>1. Handled(w, t, a) = IF a = Ok THEN v ELSE WithTestJob(x, m, t.idx + 1, needs)
    BY <1>2 DEF Handled, TestHandled, c
  <2>2. Tidy(v, Module) /\ v.code = w.code
    BY <1>c, TidyAsserted DEF UseTestResult
  <2> HIDE DEF v
  <2>3. Tidy(x, Module) /\ x.code = w.code
    BY <2>2, TidyMade
  <2> HIDE DEF x
  <2>k. Test(m).kind = "test" /\ Test(m).of = m
    BY TargetFields
  <2>4. a # Ok => Fit(w.code, Test(m), needs)
    <3>1. ReqsOf(w.code, Test(m)) = ReqsOf(w.code, t)
      BY <1>2, <2>k DEF ReqsOf
    <3>2. a # Ok => Fit(w.code, Test(m), asked)
      BY <2>3, <2>k, <3>1, Fitting
    <3>3. Fit(w.code, Test(m), Needs(x, Test(m)))
      BY <2>3, Fitting
    <3> HIDE DEF asked
    <3> QED BY <3>2, <3>3, Fitting
  <2> HIDE DEF needs
  <2> QED BY <2>1, <2>2, <2>3, <2>4, TidyJobs
<1> QED BY <1>1, <1>2

\* The first store is tidy.
LEMMA TidyCreated ==
    ASSUME NEW program \in Programs,
           NEW cache \in [imports : SUBSET Module, stale : SUBSET Module, tests : SUBSET Module, staleTests : SUBSET Module]
    PROVE  LET v == CreatedStore(program, cache) IN
           Tidy(v, Module) /\ v.first \subseteq v.all /\ \A t \in v.first : Needs(v, t) = NoNeeds
<1> DEFINE v == CreatedStore(program, cache)
<1> HIDE DEF v
<1>1. /\ v \in Store /\ v.code = program /\ NothingDone(v)
      /\ v.all = {Known} \cup ImportsOf(Module) \cup ForAll(v, CreatedReqs(program, cache))
                 \cup (CreatedFirst(cache) \cup CreatedCached(cache))
      /\ v.own = {Known} \cup ImportsOf(Module) \cup {Resource(m) : m \in CreatedReqs(program, cache) \cap Module}
                 \cup (CreatedFirst(cache) \cup CreatedCached(cache))
      /\ v.first = CreatedFirst(cache)
      /\ \A n \in Module : v.testsImports[n] = {m \in cache.imports : n \in program.tests[m]}
      /\ DOMAIN v.needs = CreatedFirst(cache) \cup CreatedCached(cache)
      /\ \A t \in CreatedFirst(cache) : v.needs[t] = NoNeeds
      /\ \A m \in cache.imports : v.needs[Cached(m)] = Resolve(v, program.requires[m])
  BY CreatedIs DEF v
<1>2. Fields \subseteq DOMAIN v
  BY <1>1 DEF Store, Fields
<1>3. \A t \in v.own : t.kind \in {"known", "import", "resource", "job", "cached"}
  BY <1>1, TargetFields DEF ImportsOf, CreatedFirst, CreatedCached
<1>4. ASSUME NEW t \in DOMAIN v.needs PROVE Fit(program, t, v.needs[t])
  <2>1. CASE t \in CreatedFirst(cache)
    BY <1>1, <2>1 DEF Fit, NoNeeds
  <2>2. ASSUME NEW m \in cache.imports, t = Cached(m) PROVE Fit(program, t, v.needs[t])
    <3>1. v.needs[t] = Resolve(v, program.requires[m]) /\ t.kind = "cached" /\ t.of = m
      BY <1>1, <2>2, TargetFields
    <3> QED BY <3>1 DEF Fit, ReqsOf, Resolve, ResolveIn
  <2> QED BY <1>1, <2>1, <2>2 DEF CreatedCached
<1>5. v.got = {} /\ v.provided = {} /\ v.resolved = {} /\ \A m \in Module : v.items[m] = {} /\ v.testedBy[m] = {}
  BY <1>1 DEF NothingDone
<1>6. Gives(v, Module)
  BY <1>5 DEF Gives
<1>7. Tidy(v, Module)
  BY <1>1, <1>2, <1>3, <1>4, <1>5, <1>6 DEF Tidy
<1>8. \A t \in v.first : Needs(v, t) = NoNeeds
  BY <1>1 DEF Needs
<1> QED BY <1>1, <1>7, <1>8 DEF v

\* A store that is tidy and in which the first jobs have nothing to wait for.
Orderly(w) ==
    StoreInv(w) /\ Tidy(w, Module) /\ w.first \subseteq w.all /\ \A t \in w.first : Needs(w, t) = NoNeeds

\* A step keeps that.
LEMMA OrderlyStep ==
    ASSUME NEW w, Orderly(w), NEW v, NEW u, Step(w, v, u), Tidy(v, Module)
    PROVE  Orderly(v)
<1>1. StoreInv(w) /\ StoreInv(v) /\ v.first = w.first /\ w.first \subseteq w.all /\ w.all \subseteq v.all
  BY DEF Orderly, Step, Grows
<1>2. ASSUME NEW t \in w.first PROVE Needs(v, t) = NoNeeds
  <2>1. Needs(w, t) = NoNeeds /\ t \in w.all
    BY <1>1 DEF Orderly
  <2>2. t.kind = "job"
    BY <1>1, TargetFields DEF StoreInv, FoundInv
  <2>3. Settled(w, t)
    <3>1. Deps(w, t) = {}
      <4>1. Range(NoNeeds) = {}
        BY DEF NoNeeds, Range
      <4> QED BY <2>1, <2>2, <4>1, DepsOfJobs
    <3> QED BY <2>2, <3>1 DEF Settled, Satisfied
  <2> QED BY <2>1, <2>2, <2>3 DEF Step, Fixed
<1> QED BY <1>1, <1>2 DEF Orderly

\* The updates of some targets keep it.
LEMMA OrderlyUpdates ==
    ASSUME NEW w, Orderly(w), NEW targets, targets \subseteq w.all
    PROVE  Orderly(UpdatedAll(w, targets)) /\ w.all \subseteq UpdatedAll(w, targets).all
<1> DEFINE L == Len(ByName)
<1>1. PICK f : /\ f[0] = w /\ UpdatedAll(w, targets) = f[L]
               /\ \A n \in 1 .. L :
                    f[n] = IF ByName[n] \in targets THEN Updated(f[n - 1], ByName[n]) ELSE f[n - 1]
  BY UpdatedAllIs
<1> DEFINE S == {n \in Nat : Orderly(f[n]) /\ w.all \subseteq f[n].all}
<1>l. L \in Nat
  BY OrderAssumption
<1> HIDE DEF L
<1>2. 0 \in S
  BY <1>1
<1>3. ASSUME NEW n \in 0 .. L, n < L, n \in S PROVE n + 1 \in S
  <2>1. n + 1 \in 1 .. L /\ (n + 1) - 1 = n /\ n + 1 \in Nat
    BY <1>l, <1>3
  <2>2. f[n + 1] = IF ByName[n + 1] \in targets THEN Updated(f[n], ByName[n + 1]) ELSE f[n]
    BY <1>1, <2>1
  <2>3. Orderly(f[n]) /\ w.all \subseteq f[n].all
    BY <1>3
  <2>4. CASE ByName[n + 1] \in targets
    <3> DEFINE t == ByName[n + 1]
    <3>1. t \in f[n].all /\ t \in Target
      BY <2>3, <2>4, StoreTypes DEF Orderly, StoreInv
    <3> HIDE DEF t
    <3>2. Step(f[n], Updated(f[n], t), t) /\ Tidy(Updated(f[n], t), Module)
      BY <2>3, <3>1, UpdatedStep, TidyUpdated DEF Orderly
    <3>3. Orderly(Updated(f[n], t)) /\ f[n].all \subseteq Updated(f[n], t).all
      BY <2>3, <3>2, OrderlyStep DEF Step, Grows
    <3> QED BY <2>1, <2>2, <2>3, <2>4, <3>3 DEF t
  <2>5. CASE ByName[n + 1] \notin targets
    BY <2>1, <2>2, <2>3, <2>5
  <2> QED BY <2>4, <2>5
<1>4. L \in S
  <2> HIDE DEF S
  <2>1. 0 .. L \subseteq S
    BY <1>l, <1>2, <1>3, UpTo
  <2> QED BY <2>1, <1>l
<1> QED BY <1>1, <1>4

\* Passes of update_statuses do, and _init_all_statuses does.
LEMMA OrderlyPasses ==
    ASSUME NEW w, Orderly(w)
    PROVE  Orderly(InitialStore(w)) /\ \A prev, map : Orderly(UpdatePass(w, prev, map))
<1>1. Orderly(InitialStore(w))
  <2> DEFINE v == UpdatedAll(w, w.all \ w.own)
  <2>1. Orderly(v) /\ w.all \subseteq v.all
    <3>1. w.all \ w.own \subseteq w.all
      OBVIOUS
    <3> QED BY <3>1, OrderlyUpdates
  <2>2. InitialStore(w) = UpdatedAll(v, w.own)
    BY DEF InitialStore
  <2> HIDE DEF v
  <2>3. w.own \subseteq v.all
    BY <2>1 DEF Orderly, StoreInv, ClosedInv
  <2> QED BY <2>1, <2>2, <2>3, OrderlyUpdates
<1>2. ASSUME NEW prev, NEW map PROVE Orderly(UpdatePass(w, prev, map))
  <2> DEFINE v == UpdatedAll(w, Dependent(w, w.completed \ prev))
  <2>1. Orderly(v)
    <3>1. Dependent(w, w.completed \ prev) \subseteq w.all
      BY DEF Dependent
    <3> QED BY <3>1, OrderlyUpdates
  <2>2. UpdatePass(w, prev, map) = UpdatedAll(v, Changed(w, map))
    BY DEF UpdatePass
  <2>3. w.all \subseteq v.all
    <3>1. Dependent(w, w.completed \ prev) \subseteq w.all
      BY DEF Dependent
    <3> QED BY <3>1, OrderlyUpdates
  <2> HIDE DEF v
  <2>4. Changed(w, map) \subseteq v.all
    BY <2>3 DEF Changed, Incomplete
  <2> QED BY <2>1, <2>2, <2>4, OrderlyUpdates
<1> QED BY <1>1, <1>2

-----------------------------------------------------------------------------
(* What waits, when nothing is to be done *)

\* An item that a module provides which is compiled to a resource.
Regular(code, i) ==
    \E n \in Providers(code, i) : code.tests[n] = {} /\ \A k \in Module : n \notin code.fixtures[k]
RegularNeed(code, r) ==
    r \in Item => Regular(code, r) /\ (code.service[r] # None => Regular(code, code.service[r]))

\* A store in which an update changes nothing, and no job is ready.
Stuck(w) ==
    /\ Orderly(w)
    /\ \A t \in Incomplete(w) : Calm(w, t) /\ (t.kind \in {"job", "testjob"} => t \notin w.ready)

\* The stages that are not completed.
Stages(w) ==
    {x \in {"import", "resource", "test"} \X Module :
        /\ x[1] = "import" => Import(x[2]) \notin w.completed
        /\ x[1] = "resource" => /\ Resource(x[2]) \notin w.completed
                                /\ Resource(x[2]) \in w.all \/ Import(x[2]) \notin w.completed
        /\ x[1] = "test" => IsTests(w, x[2]) /\ Test(x[2]) \notin w.completed}

\* Which stages of a module are among them; a module that is imported has a result.
LEMMA StageOf ==
    ASSUME NEW w, StoreInv(w), NEW m \in Module
    PROVE  /\ <<"import", m>> \in Stages(w) <=> Import(m) \notin w.completed
           /\ Resource(m) \notin w.completed /\ Resource(m) \in w.all => <<"resource", m>> \in Stages(w)
           /\ Import(m) \notin w.completed => <<"resource", m>> \in Stages(w) /\ Resource(m) \notin w.completed
           /\ <<"test", m>> \in Stages(w) <=> IsTests(w, m) /\ Test(m) \notin w.completed
           /\ Import(m) \in w.completed => m \in w.got
<1>1. Resource(m) \in w.completed => Import(m) \in w.completed
  BY DepsOf DEF StoreInv, SatInv, Satisfied
<1>2. Import(m) \in w.completed => m \in w.got
  <2>1. Import(m) \in w.completed => w.job[m] \in w.completed
    BY DepsOf DEF StoreInv, SatInv, Satisfied
  <2> QED BY <2>1 DEF StoreInv, JobsInv
<1> QED BY <1>1, <1>2 DEF Stages

\* What the stages of a program wait for.
LEMMA WaitsForAre ==
    ASSUME NEW code, NEW m
    PROVE  /\ \A n \in code.tests[m] \cup code.fixtures[m] : <<"import", n>> \in WaitsFor(code, <<"import", m>>)
           /\ \A n \in NeededBy(code, code.requires[m]) :
                /\ <<"resource", n>> \in WaitsFor(code, <<"import", m>>)
                /\ <<"resource", n>> \in WaitsFor(code, <<"resource", m>>)
           /\ <<"import", m>> \in WaitsFor(code, <<"resource", m>>)
           /\ \A n \in Module : m \in code.tests[n] =>
                /\ <<"import", n>> \in WaitsFor(code, <<"resource", m>>)
                /\ <<"test", n>> \in WaitsFor(code, <<"resource", m>>)
           /\ \A n \in {m} \cup (code.tests[m] \cup code.fixtures[m]) : <<"import", n>> \in WaitsFor(code, <<"test", m>>)
           /\ LET early == code.tests[m] \cup {i \in code.actors : Providers(code, i) \cap code.tests[m] # {}} IN
              \A n \in NeededBy(code, ReqsOf(code, Test(m)) \ early) : <<"resource", n>> \in WaitsFor(code, <<"test", m>>)
<1>1. WaitsFor(code, <<"import", m>>) =
        Stage("import", code.tests[m] \cup code.fixtures[m]) \cup Stage("resource", NeededBy(code, code.requires[m]))
  BY DEF WaitsFor
<1>2. WaitsFor(code, <<"resource", m>>) =
        Stage("import", {m} \cup {n \in Module : m \in code.tests[n]}) \cup Stage("test", {n \in Module : m \in code.tests[n]})
        \cup Stage("resource", NeededBy(code, code.requires[m]))
  BY DEF WaitsFor
<1>3. ReqsOf(code, Test(m)) =
        (UNION {code.requires[n] : n \in {m} \cup (code.tests[m] \cup code.fixtures[m])}) \cup code.uses[m]
  BY TargetFields DEF ReqsOf
<1>4. WaitsFor(code, <<"test", m>>) =
        Stage("import", {m} \cup (code.tests[m] \cup code.fixtures[m]))
        \cup Stage("resource", NeededBy(code, ReqsOf(code, Test(m)) \
                (code.tests[m] \cup {i \in code.actors : Providers(code, i) \cap code.tests[m] # {}})))
  BY <1>3 DEF WaitsFor
<1> QED BY <1>1, <1>2, <1>4 DEF Stage

\* What a requirement needs, more of them need.
LEMMA NeededMore ==
    ASSUME NEW code, NEW reqs, NEW r \in reqs
    PROVE  NeededBy(code, {r}) \subseteq NeededBy(code, reqs)
  BY DEF NeededBy

\* When the program lacks nothing.
LEMMA NothingLacks ==
    ASSUME NEW code \in Programs, ~Lacking(code), NEW t, t.of \in Module
    PROVE  \A r \in ReqsOf(code, t) : r \in Module \cup Item /\ RegularNeed(code, r)
<1>1. ASSUME NEW m \in Module, NEW i \in (code.requires[m] \cup code.uses[m]) \cap Item PROVE RegularNeed(code, i)
  <2>1. \A j \in {i, code.service[i]} \ {None} : Regular(code, j)
    BY <1>1 DEF Lacking, Regular
  <2>2. i # None
    BY TargetAssumption
  <2> QED BY <2>1, <2>2 DEF RegularNeed
<1>2. ASSUME NEW r \in ReqsOf(code, t) PROVE \E m \in Module : r \in code.requires[m] \cup code.uses[m]
  BY ProgramTypes DEF ReqsOf
<1>3. ASSUME NEW r \in ReqsOf(code, t) PROVE r \in Module \cup Item /\ RegularNeed(code, r)
  <2>1. PICK m \in Module : r \in code.requires[m] \cup code.uses[m]
    BY <1>2
  <2>2. r \in Module \cup Item
    BY <2>1, ProgramTypes
  <2>3. r \in Item => RegularNeed(code, r)
    BY <1>1, <2>1
  <2> QED BY <2>2, <2>3 DEF RegularNeed
<1> QED BY <1>3

\* The first jobs are done.
LEMMA KnownDone ==
    ASSUME NEW w, Stuck(w)
    PROVE  Known \in w.completed
<1>1. SUFFICES ASSUME Known \notin w.completed PROVE FALSE
  OBVIOUS
<1>2. Known \in Incomplete(w)
  BY <1>1 DEF Stuck, Orderly, StoreInv, ClosedInv, Incomplete
<1>3. ~Satisfied(w, w.first)
  BY <1>2, TargetFields, DepsOf DEF Stuck, Calm
<1>4. PICK t \in w.first : t \notin w.completed
  BY <1>3 DEF Satisfied
<1>5. t \in Incomplete(w) /\ t.kind = "job" /\ Needs(w, t) = NoNeeds
  BY <1>4, TargetFields DEF Stuck, Orderly, StoreInv, FoundInv, Incomplete
<1>6. Satisfied(w, Deps(w, t))
  <2>1. Range(NoNeeds) = {}
    BY DEF NoNeeds, Range
  <2> QED BY <1>5, <2>1, DepsOfJobs DEF Satisfied
<1> QED BY <1>5, <1>6 DEF Stuck, Calm

\* An item is waited for: its module has not been imported.
LEMMA ItemWaits ==
    ASSUME NEW w, Stuck(w), NEW i \in Item, Resolved(i) \in Incomplete(w), Regular(w.code, i) \/ i \in w.provided
    PROVE  \E n \in Providers(w.code, i) : Import(n) \notin w.completed
<1>w. StoreInv(w) /\ w \in Store /\ w.code \in Programs
  BY StoreTypes DEF Stuck, Orderly, StoreInv
<1>1. i \notin w.resolved \/ Ready(i) \notin w.completed
  BY TargetFields, DepsOf DEF Stuck, Calm, Satisfied
<1>2. CASE i \notin w.provided
  <2>1. PICK n \in Providers(w.code, i) : w.code.tests[n] = {} /\ \A k \in Module : n \notin w.code.fixtures[k]
    BY <1>2 DEF Regular
  <2>2. n \in Module /\ i \in w.code.provides[n]
    BY DEF Providers
  <2>3. n \notin w.got
    BY <1>2, <2>1, <2>2 DEF Stuck, Orderly, Tidy, Gives, IsTests, IsFixtures
  <2> QED BY <1>w, <2>2, <2>3, StageOf
<1>3. CASE i \in w.provided
  <2>1. Ready(i) \in Incomplete(w)
    BY <1>1, <1>3 DEF Stuck, Orderly, Tidy, StoreInv, ClosedInv, ItemClosed, Incomplete
  <2>2. Import(Provider(w, i)) \notin w.completed
    BY <1>3, <2>1, TargetFields DEF Stuck, Calm
  <2>3. PICK n \in Module : i \in w.code.provides[n]
    BY <1>3 DEF Stuck, Orderly, StoreInv, ItemsInv
  <2>4. Provider(w, i) = n
    BY <1>w, <2>3, ProviderIs
  <2> QED BY <2>2, <2>3, <2>4 DEF Providers
<1> QED BY <1>2, <1>3

\* An item whose constructor is there is waited for, or one of its resource and its
\* service.
LEMMA CompleteWaits ==
    ASSUME NEW w, Stuck(w), NEW i \in Item, Complete(i) \in Incomplete(w), RegularNeed(w.code, i)
    PROVE  \E n \in Providers(w.code, i) \cup Providers(w.code, w.code.service[i]) : <<"resource", n>> \in Stages(w)
<1>w. StoreInv(w) /\ w \in Store /\ w.code \in Programs
  BY StoreTypes DEF Stuck, Orderly, StoreInv
<1>1. ASSUME NEW j \in Item, Complete(j) \in Incomplete(w), Regular(w.code, j)
      PROVE  \/ \E n \in Providers(w.code, j) : <<"resource", n>> \in Stages(w)
             \/ ~Satisfied(w, ServiceTarget(w, j))
  <2>1. Resolved(j) \in w.all
    BY <1>w, <1>1, ItemTargetsAre DEF StoreInv, ClosedInv, ItemClosed, Incomplete
  <2>2. CASE Resolved(j) \notin w.completed
    <3>1. PICK n \in Providers(w.code, j) : Import(n) \notin w.completed
      BY <1>1, <2>1, <2>2, ItemWaits DEF Incomplete
    <3> QED BY <1>w, <3>1, StageOf DEF Providers
  <2>3. CASE Resolved(j) \in w.completed
    <3>1. j \in w.picked
      BY <1>1, <2>3, TargetFields DEF Stuck, Calm
    <3>2. Resource(Provider(w, j)) \notin w.completed \/ ~Satisfied(w, ServiceTarget(w, j))
      BY <1>1, <3>1, TargetFields DEF Stuck, Calm
    <3>3. Ready(j) \in w.completed
      BY <1>w, <2>3, DepsOf DEF StoreInv, SatInv, Satisfied
    <3>4. j \in w.provided
      BY <1>w, <3>3 DEF StoreInv, ItemsInv
    <3>5. PICK n \in Module : j \in w.code.provides[n]
      BY <1>w, <3>4 DEF StoreInv, ItemsInv
    <3>6. Provider(w, j) = n /\ Resource(n) \in w.all
      BY <1>w, <3>4, <3>5, ProviderIs DEF Stuck, Orderly, Tidy
    <3> QED BY <1>w, <3>2, <3>5, <3>6, StageOf DEF Providers
  <2> QED BY <2>2, <2>3
<1>2. CASE Satisfied(w, ServiceTarget(w, i))
  BY <1>1, <1>2 DEF RegularNeed
<1>3. CASE ~Satisfied(w, ServiceTarget(w, i))
  <2> DEFINE s == w.code.service[i]
  <2>1. s # None /\ Complete(s) \notin w.completed
    BY <1>3 DEF Satisfied, ServiceTarget
  <2>2. s \in Item /\ w.code.service[s] = None
    BY <1>w, <2>1, ProgramTypes
  <2>3. Complete(s) \in w.all
    BY <1>w, <2>1 DEF StoreInv, ClosedInv, ItemClosed, ItemTargets, Incomplete
  <2>4. Satisfied(w, ServiceTarget(w, s))
    BY <2>2 DEF Satisfied, ServiceTarget
  <2>5. Regular(w.code, s)
    BY <2>1 DEF RegularNeed
  <2> QED BY <1>1, <2>1, <2>2, <2>3, <2>4, <2>5 DEF Incomplete
<1> QED BY <1>2, <1>3

\* Something that is needed is waited for: a resource.
LEMMA NeedWaits ==
    ASSUME NEW w, Stuck(w), ~Lacking(w.code), NEW t, t.of \in Module, NEW r \in DOMAIN Needs(w, t),
           Needs(w, t)[r] \notin w.completed
    PROVE  /\ r \in ReqsOf(w.code, t) /\ RegularNeed(w.code, r)
           /\ \E n \in NeededBy(w.code, {r}) : n \in Module /\ <<"resource", n>> \in Stages(w)
<1> DEFINE s == Needs(w, t)[r]
<1>w. StoreInv(w) /\ w \in Store /\ w.code \in Programs /\ Tidy(w, Module)
  BY StoreTypes DEF Stuck, Orderly, StoreInv
<1>1. r \in ReqsOf(w.code, t)
  BY <1>w, Fitting DEF Fit
<1>2. r \in Module \cup Item /\ RegularNeed(w.code, r)
  BY <1>1, <1>w, NothingLacks
<1>3. /\ s \in w.all
      /\ r \in Module => s \in {Import(r), Resource(r)} /\ Resource(r) \in w.all
      /\ r \in Item => s \in {Resolved(r), Complete(r)}
  <2>1. t \in DOMAIN w.needs
    BY <1>w, NeedsTypes
  <2> QED BY <1>w, <2>1 DEF Needs, StoreInv, ClosedInv, NeedsExist
<1>p. s \notin w.completed
  OBVIOUS
<1> HIDE DEF s
<1>4. CASE r \in Module
  <2>1. r \in NeededBy(w.code, {r})
    BY <1>4 DEF NeededBy
  <2>2. <<"resource", r>> \in Stages(w)
    BY <1>3, <1>4, <1>p, <1>w, StageOf
  <2> QED BY <1>1, <1>2, <1>4, <2>1, <2>2
<1>5. CASE r \in Item
  <2>1. Providers(w.code, r) \cup Providers(w.code, w.code.service[r]) \subseteq NeededBy(w.code, {r})
    BY <1>5 DEF NeededBy
  <2>2. s \in Incomplete(w)
    BY <1>3, <1>p DEF Incomplete
  <2>3. CASE s = Resolved(r)
    <3>1. PICK n \in Providers(w.code, r) : Import(n) \notin w.completed
      BY <1>2, <1>5, <2>2, <2>3, ItemWaits DEF RegularNeed
    <3>2. n \in Module /\ <<"resource", n>> \in Stages(w)
      BY <1>w, <3>1, StageOf DEF Providers
    <3> QED BY <1>1, <1>2, <2>1, <3>2
  <2>4. CASE s = Complete(r)
    <3>1. PICK n \in Providers(w.code, r) \cup Providers(w.code, w.code.service[r]) : <<"resource", n>> \in Stages(w)
      BY <1>2, <1>5, <2>2, <2>4, CompleteWaits
    <3>2. n \in Module
      BY DEF Providers
    <3> QED BY <1>1, <1>2, <2>1, <3>1, <3>2
  <2> QED BY <1>3, <1>5, <2>3, <2>4
<1> QED BY <1>2, <1>4, <1>5

\* An import waits: for its job, or for helpers.
LEMMA ImportWaits ==
    ASSUME NEW w, Stuck(w), ~Lacking(w.code), NEW m \in Module, Import(m) \notin w.completed
    PROVE  WaitsFor(w.code, <<"import", m>>) \cap Stages(w) # {}
<1>w. StoreInv(w) /\ w \in Store /\ w.code \in Programs /\ Tidy(w, Module)
  BY StoreTypes DEF Stuck, Orderly, StoreInv
<1>1. ASSUME NEW t, t.of = m, t.kind \in {"import", "job", "cached"}, ~Satisfied(w, Range(Needs(w, t)))
      PROVE  WaitsFor(w.code, <<"import", m>>) \cap Stages(w) # {}
  <2>1. PICK r \in DOMAIN Needs(w, t) : Needs(w, t)[r] \notin w.completed
    BY <1>1 DEF Satisfied, Range
  <2>2. r \in ReqsOf(w.code, t)
    BY <1>1, <2>1, NeedWaits
  <2>3. PICK n \in NeededBy(w.code, {r}) : n \in Module /\ <<"resource", n>> \in Stages(w)
    BY <1>1, <2>1, NeedWaits
  <2>4. r \in w.code.requires[m]
    BY <1>1, <2>2 DEF ReqsOf
  <2>5. n \in NeededBy(w.code, w.code.requires[m])
    BY <2>3, <2>4, NeededMore
  <2> QED BY <2>3, <2>5, WaitsForAre
<1>2. CASE m \notin w.got
  <2> DEFINE t == w.job[m]
  <2>1. t \in w.all /\ t \notin w.completed /\ t.kind \in {"job", "cached"} /\ t.of = m
    BY <1>2, <1>w, TargetFields DEF StoreInv, JobsInv, ClosedInv
  <2> HIDE DEF t
  <2>2. ~Satisfied(w, Deps(w, t))
    BY <2>1 DEF Stuck, Calm, Incomplete
  <2>3. Deps(w, t) = Range(Needs(w, t))
    BY <2>1, DepsOfJobs
  <2> QED BY <1>1, <2>1, <2>2, <2>3
<1>3. CASE m \in w.got
  <2>1. Import(m) \in Incomplete(w)
    BY <1>w DEF StoreInv, ClosedInv, Incomplete
  <2>2. ~Satisfied(w, {w.job[m]} \cup Range(Needs(w, Import(m))) \cup ImportsOf(Helpers(w, m)))
    <3>1. Calm(w, Import(m)) /\ Import(m).kind = "import" /\ Import(m).of = m
      BY <2>1, TargetFields DEF Stuck
    <3>2. ~Satisfied(w, Deps(w, Import(m)))
      BY <1>3, <3>1 DEF Calm
    <3> QED BY <1>3, <3>2, DepsOf
  <2>3. w.job[m] \in w.completed
    BY <1>3, <1>w DEF StoreInv, JobsInv
  <2>4. CASE ~Satisfied(w, Range(Needs(w, Import(m))))
    BY <1>1, <2>4, TargetFields
  <2>5. CASE ~Satisfied(w, ImportsOf(Helpers(w, m)))
    <3>1. PICK n \in Helpers(w, m) : Import(n) \notin w.completed
      BY <2>5 DEF Satisfied, ImportsOf
    <3>2. n \in Module
      BY <1>w, ProgramTypes DEF Helpers
    <3> QED BY <1>w, <3>1, <3>2, StageOf, WaitsForAre DEF Helpers
  <2> QED BY <2>2, <2>3, <2>4, <2>5 DEF Satisfied
<1> QED BY <1>2, <1>3

\* A resource waits: for its import, for what it needs, or for tests of its module.
LEMMA ResourceWaits ==
    ASSUME NEW w, Stuck(w), ~Lacking(w.code), NEW m \in Module, <<"resource", m>> \in Stages(w)
    PROVE  WaitsFor(w.code, <<"resource", m>>) \cap Stages(w) # {}
<1>w. StoreInv(w) /\ w \in Store /\ w.code \in Programs /\ Tidy(w, Module)
  BY StoreTypes DEF Stuck, Orderly, StoreInv
<1>1. CASE Import(m) \notin w.completed
  BY <1>1, <1>w, StageOf, WaitsForAre
<1>2. CASE Import(m) \in w.completed
  <2>1. Resource(m) \in Incomplete(w)
    BY <1>2 DEF Stages, Incomplete
  <2>2. ~Satisfied(w, Deps(w, Resource(m)))
    BY <2>1, TargetFields DEF Stuck, Calm
  <2>3. Known \in w.completed
    BY KnownDone
  <2>4. CASE ~Satisfied(w, Range(Needs(w, Resource(m))))
    <3>1. PICK r \in DOMAIN Needs(w, Resource(m)) : Needs(w, Resource(m))[r] \notin w.completed
      BY <2>4 DEF Satisfied, Range
    <3>o. Resource(m).of \in Module
      BY TargetFields
    <3>2. r \in ReqsOf(w.code, Resource(m))
      BY <3>1, <3>o, NeedWaits
    <3>3. PICK n \in NeededBy(w.code, {r}) : n \in Module /\ <<"resource", n>> \in Stages(w)
      BY <3>1, <3>o, NeedWaits
    <3>4. r \in w.code.requires[m]
      BY <3>2, TargetFields DEF ReqsOf
    <3>5. n \in NeededBy(w.code, w.code.requires[m])
      BY <3>3, <3>4, NeededMore
    <3> QED BY <3>3, <3>5, WaitsForAre
  <2>5. ASSUME NEW i \in w.items[m] PROVE Resolved(i) \in w.completed
    <3>1. i \in w.code.provides[m] /\ i \in w.provided /\ i \in w.resolved /\ i \in Item
      BY <1>w, ProgramTypes DEF Tidy
    <3>2. Provider(w, i) = m
      BY <1>w, <3>1, ProviderIs
    <3>3. SUFFICES ASSUME Resolved(i) \notin w.completed PROVE FALSE
      OBVIOUS
    <3>4. Resolved(i) \in Incomplete(w)
      BY <1>w, <3>1, <3>3 DEF StoreInv, ItemsInv, ClosedInv, Incomplete
    <3>5. PICK n \in Providers(w.code, i) : Import(n) \notin w.completed
      BY <3>1, <3>4, ItemWaits
    <3>6. n = m
      BY <1>w, <3>1, <3>2, ProviderIs DEF Providers
    <3> QED BY <1>2, <3>5, <3>6
  <2>6. ASSUME NEW n \in w.testsImports[m], Import(n) \notin w.completed
        PROVE  WaitsFor(w.code, <<"resource", m>>) \cap Stages(w) # {}
    <3>1. n \in Module /\ m \in w.code.tests[n]
      BY <1>w, StoreTypes DEF Tidy
    <3> QED BY <1>w, <2>6, <3>1, StageOf, WaitsForAre
  <2>7. ASSUME NEW n \in w.testedBy[m], Test(n) \notin w.completed
        PROVE  WaitsFor(w.code, <<"resource", m>>) \cap Stages(w) # {}
    <3>1. n \in Module /\ m \in w.code.tests[n]
      BY <1>w, StoreTypes DEF Tidy
    <3> QED BY <1>w, <2>7, <3>1, StageOf, WaitsForAre DEF IsTests
  <2>8. PICK t \in Deps(w, Resource(m)) : t \notin w.completed
    BY <2>2 DEF Satisfied
  <2>9. t \notin {Known, Import(m)}
    BY <1>2, <2>3, <2>8
  <2>10. \/ t \in Range(Needs(w, Resource(m))) \/ \E i \in w.items[m] : t = Resolved(i)
         \/ (\E n \in w.testsImports[m] : t = Import(n)) \/ (\E n \in w.testedBy[m] : t = Test(n))
    BY <2>8, <2>9, DepsOf DEF ImportsOf
  <2> QED BY <2>4, <2>5, <2>6, <2>7, <2>8, <2>10 DEF Satisfied
<1> QED BY <1>1, <1>2

\* A test waits: for its import, for those of what it tests, or for its job.
LEMMA TestWaits ==
    ASSUME NEW w, Stuck(w), ~Lacking(w.code), NEW m \in Module, <<"test", m>> \in Stages(w)
    PROVE  WaitsFor(w.code, <<"test", m>>) \cap Stages(w) # {}
<1> DEFINE tested == w.code.tests[m]
           early  == tested \cup {i \in w.code.actors : Providers(w.code, i) \cap tested # {}}
<1>w. StoreInv(w) /\ w \in Store /\ w.code \in Programs /\ Tidy(w, Module)
  BY StoreTypes DEF Stuck, Orderly, StoreInv
<1>t. IsTests(w, m) /\ Test(m) \notin w.completed
  BY <1>w, StageOf
<1>1. ASSUME NEW n \in {m} \cup (tested \cup w.code.fixtures[m]), Import(n) \notin w.completed
      PROVE  WaitsFor(w.code, <<"test", m>>) \cap Stages(w) # {}
  <2>1. n \in Module
    BY <1>w, <1>1, ProgramTypes
  <2> QED BY <1>w, <1>1, <2>1, StageOf, WaitsForAre
<1>2. ASSUME \A n \in {m} \cup (tested \cup w.code.fixtures[m]) : Import(n) \in w.completed
      PROVE  WaitsFor(w.code, <<"test", m>>) \cap Stages(w) # {}
  <2> DEFINE t == w.test[m]
  <2>1. m \in w.got
    BY <1>w, <1>2, StageOf
  <2>2. t # NoTarget /\ Test(m) \in Incomplete(w)
    BY <1>t, <1>w, <2>1 DEF StoreInv, TestsInv, Incomplete
  <2>3. ~Satisfied(w, ImportsOf(tested) \cup {t})
    <3>1. Calm(w, Test(m)) /\ Test(m).kind = "test"
      BY <2>2, TargetFields DEF Stuck
    <3>2. ~Satisfied(w, Deps(w, Test(m)))
      BY <3>1 DEF Calm
    <3> QED BY <3>2, DepsOf
  <2>4. t \notin w.completed
    BY <1>2, <2>3 DEF Satisfied, ImportsOf
  <2>5. t \in w.all /\ t.kind \in {"testjob", "testcached"} /\ t.of = m
    BY <1>w, <2>2, TargetFields DEF StoreInv, TestsInv, ClosedInv
  <2> HIDE DEF t
  <2>6. ~Satisfied(w, Deps(w, t))
    BY <2>4, <2>5 DEF Stuck, Calm, CalmTestJob, Incomplete
  <2>7. Deps(w, t) = ImportsOf({m} \cup Helpers(w, m)) \cup Range(Needs(w, t))
    BY <2>5, DepsOfJobs
  <2>8. Satisfied(w, ImportsOf({m} \cup Helpers(w, m)))
    BY <1>2 DEF Satisfied, ImportsOf, Helpers
  <2>9. PICK r \in DOMAIN Needs(w, t) : Needs(w, t)[r] \notin w.completed
    BY <2>6, <2>7, <2>8 DEF Satisfied, Range
  <2>10. r \in ReqsOf(w.code, t) /\ RegularNeed(w.code, r)
    BY <2>5, <2>9, NeedWaits
  <2>11. PICK n \in NeededBy(w.code, {r}) : n \in Module /\ <<"resource", n>> \in Stages(w)
    BY <2>5, <2>9, NeedWaits
  <2>12. ReqsOf(w.code, t) = ReqsOf(w.code, Test(m))
    <3>1. Test(m).kind = "test" /\ Test(m).of = m
      BY TargetFields
    <3> DEFINE reqs(j) ==
                 (UNION {w.code.requires[h] : h \in {j} \cup (w.code.tests[j] \cup w.code.fixtures[j])}) \cup w.code.uses[j]
    <3>2. ReqsOf(w.code, t) = reqs(t.of)
      BY <2>5 DEF ReqsOf
    <3>3. ReqsOf(w.code, Test(m)) = reqs(Test(m).of)
      BY <3>1 DEF ReqsOf
    <3> HIDE DEF reqs
    <3> QED BY <3>1, <3>2, <3>3, <2>5
  <2>13. Fit(w.code, t, Needs(w, t))
    BY <1>w, Fitting
  <2>14. r \notin tested
    BY <1>2, <2>5, <2>9, <2>13 DEF Fit
  <2>15. r \notin {i \in w.code.actors : Providers(w.code, i) \cap tested # {}}
    <3>1. SUFFICES ASSUME r \in w.code.actors, NEW k \in tested, r \in w.code.provides[k] PROVE FALSE
      BY DEF Providers
    <3>2. r \in Item /\ k \in Module
      BY <1>w, <3>1, ProgramTypes
    <3>3. Needs(w, t)[r] = Resolved(r)
      BY <2>5, <2>9, <2>13, <3>1, <3>2 DEF Fit
    <3>4. Resolved(r) \in Incomplete(w)
      <4>1. t \in DOMAIN w.needs
        BY <1>w, <2>9, NeedsTypes
      <4> QED BY <1>w, <2>9, <3>3, <4>1 DEF Needs, StoreInv, ClosedInv, NeedsExist, Incomplete
    <3>5. PICK n1 \in Providers(w.code, r) : Import(n1) \notin w.completed
      BY <2>10, <3>2, <3>4, ItemWaits DEF RegularNeed
    <3>6. n1 = k
      BY <1>w, <3>1, <3>2, <3>5, ProgramTypes DEF Providers
    <3> QED BY <1>2, <3>5, <3>6
  <2>16. n \in NeededBy(w.code, ReqsOf(w.code, Test(m)) \ early)
    <3>1. r \in ReqsOf(w.code, Test(m)) \ early
      BY <2>10, <2>12, <2>14, <2>15
    <3> HIDE DEF early
    <3> QED BY <2>11, <3>1, NeededMore
  <2> QED BY <2>11, <2>16, WaitsForAre
<1> QED BY <1>1, <1>2

\* A job that is not completed is the last one of its import or of its test.
LEMMA LastJob ==
    ASSUME NEW w, StoreInv(w), NEW t \in w.all, t \notin w.completed, t.kind \in {"job", "testjob"}
    PROVE  /\ t.of \in Module /\ t \in w.own
           /\ t.kind = "job" => w.job[t.of] = t
           /\ t.kind = "testjob" => w.test[t.of] = t /\ w.test[t.of] # NoTarget
<1>1. t \in Target /\ OfItsKind(t)
  BY TargetShape, StoreTypes DEF StoreInv
<1>2. CASE t.kind = "job"
  <2>1. t.of \in Module /\ t.idx \in 1 .. MaxJobs /\ t = ImportJob(t.of, t.idx)
    BY <1>1, <1>2 DEF OfItsKind
  <2>2. t.idx <= w.job[t.of].idx /\ ~(t.idx < w.job[t.of].idx) /\ w.job[t.of].kind = "job"
    BY <2>1 DEF StoreInv, JobsInv
  <2>3. PICK k \in 1 .. MaxJobs : w.job[t.of] = ImportJob(t.of, k)
    BY <2>1, <2>2, TargetFields DEF StoreInv, JobsInv
  <2>4. k = t.idx
    BY <2>1, <2>2, <2>3, TargetFields
  <2> QED BY <1>2, <2>1, <2>3, <2>4 DEF StoreInv, JobsInv
<1>3. CASE t.kind = "testjob"
  <2>1. t.of \in Module /\ t.idx \in 1 .. MaxJobs /\ t = TestJob(t.of, t.idx)
    BY <1>1, <1>3 DEF OfItsKind
  <2>2. t.idx <= w.test[t.of].idx /\ ~(t.idx < w.test[t.of].idx) /\ w.test[t.of].kind = "testjob"
    BY <2>1 DEF StoreInv, TestsInv
  <2>3. PICK k \in 1 .. MaxJobs : w.test[t.of] = TestJob(t.of, k)
    BY <2>1, <2>2, TargetFields DEF StoreInv, TestsInv
  <2>4. k = t.idx
    BY <2>1, <2>2, <2>3, TargetFields
  <2>5. w.test[t.of] # NoTarget
    BY <1>3, <2>1, <2>3, <2>4, TargetFields
  <2> QED BY <1>3, <2>1, <2>3, <2>4, <2>5 DEF StoreInv, TestsInv
<1> QED BY <1>2, <1>3

\* A target of the project that is not completed is of a stage that is not.
LEMMA SomeStage ==
    ASSUME NEW w, Stuck(w), NEW t \in w.own, t \notin w.completed
    PROVE  Stages(w) # {}
<1>w. StoreInv(w) /\ w \in Store /\ w.code \in Programs /\ Tidy(w, Module)
  BY StoreTypes DEF Stuck, Orderly, StoreInv
<1>a. t \in Target /\ t \in Incomplete(w) /\ t \in w.all
  BY <1>w, StoreTypes DEF StoreInv, ClosedInv, Incomplete
<1>k. OfItsKind(t)
  BY <1>a, TargetShape
<1>1. t.kind \notin {"known", "complete"}
  BY <1>k, <1>w, KnownDone DEF OfItsKind, Tidy
<1>2. ASSUME NEW m \in Module, m \notin w.got PROVE Stages(w) # {}
  BY <1>2, <1>w, StageOf
<1>3. CASE t.kind \in {"import", "resource"}
  BY <1>3, <1>a, <1>k, <1>w, StageOf DEF OfItsKind
<1>4. CASE t.kind \in {"job", "cached"}
  <2>1. t.of \in Module /\ w.job[t.of] = t
    <3>1. CASE t.kind = "job"
      BY <1>a, <1>w, <3>1, LastJob
    <3>2. CASE t.kind = "cached"
      BY <1>a, <1>k, <1>w, <3>2 DEF OfItsKind, StoreInv, JobsInv
    <3> QED BY <1>4, <3>1, <3>2
  <2>2. t.of \notin w.got
    BY <1>w, <2>1 DEF StoreInv, JobsInv
  <2> QED BY <1>2, <2>1, <2>2
<1>5. CASE t.kind \in {"ready", "resolved"}
  <2>1. t.of \in w.provided /\ t.of \in Item /\ t.of \in w.resolved
    BY <1>5, <1>k, <1>w DEF Tidy, OfItsKind
  <2>2. Ready(t.of) \in Incomplete(w)
    <3>1. CASE t.kind = "ready"
      BY <1>a, <1>k, <3>1 DEF OfItsKind
    <3>2. CASE t.kind = "resolved"
      <4>1. t = Resolved(t.of)
        BY <1>k, <3>2 DEF OfItsKind
      <4>2. Ready(t.of) \notin w.completed
        BY <1>a, <2>1, <3>2, <4>1, DepsOf DEF Stuck, Calm, Satisfied
      <4> QED BY <1>a, <1>w, <2>1, <4>1, <4>2 DEF StoreInv, ClosedInv, ItemClosed, Incomplete
    <3> QED BY <1>5, <3>1, <3>2
  <2>3. Import(Provider(w, t.of)) \notin w.completed
    BY <2>1, <2>2, TargetFields DEF Stuck, Calm
  <2>4. PICK n \in Module : t.of \in w.code.provides[n]
    BY <1>w, <2>1 DEF StoreInv, ItemsInv
  <2>5. Provider(w, t.of) = n
    BY <1>w, <2>1, <2>4, ProviderIs
  <2> QED BY <1>w, <2>3, <2>5, StageOf
<1>6. CASE t.kind \in {"test", "testjob", "testcached"}
  <2> DEFINE m == t.of
  <2>1. m \in Module /\ w.test[m] # NoTarget /\ (t = Test(m) \/ w.test[m] = t)
    <3>1. CASE t.kind = "test"
      BY <1>a, <1>k, <1>w, <3>1 DEF OfItsKind, StoreInv, TestsInv
    <3>2. CASE t.kind = "testjob"
      BY <1>a, <1>w, <3>2, LastJob
    <3>3. CASE t.kind = "testcached"
      BY <1>a, <1>k, <1>w, <3>3, TargetFields DEF OfItsKind, StoreInv, TestsInv
    <3> QED BY <1>6, <3>1, <3>2, <3>3
  <2>2. IsTests(w, m)
    BY <1>w, <2>1 DEF StoreInv, TestsInv
  <2>3. Test(m) \notin w.completed
    BY <1>w, <2>1, DepsOf DEF StoreInv, SatInv, Satisfied
  <2> QED BY <1>w, <2>1, <2>2, <2>3, StageOf
<1> QED BY <1>k, <1>1, <1>3, <1>4, <1>5, <1>6 DEF OfItsKind

\* What is stuck is so by the program.
LEMMA StuckByProgram ==
    ASSUME NEW w, Stuck(w), ~(w.own \subseteq w.completed)
    PROVE  Cyclic(w.code) \/ Lacking(w.code)
<1>1. SUFFICES ASSUME ~Lacking(w.code) PROVE Cyclic(w.code)
  OBVIOUS
<1>2. Stages(w) # {}
  BY SomeStage
<1>3. Stages(w) \in SUBSET ({"import", "resource", "test"} \X Module)
  BY DEF Stages
<1>4. ASSUME NEW x \in Stages(w) PROVE WaitsFor(w.code, x) \cap Stages(w) # {}
  <2>1. PICK k \in {"import", "resource", "test"}, m \in Module : x = <<k, m>>
    BY <1>3
  <2>2. CASE k = "import"
    <3>1. Import(m) \notin w.completed
      BY <2>1, <2>2 DEF Stages
    <3> QED BY <1>1, <2>1, <2>2, <3>1, ImportWaits
  <2>3. CASE k = "resource"
    BY <1>1, <1>4, <2>1, <2>3, ResourceWaits
  <2>4. CASE k = "test"
    BY <1>1, <1>4, <2>1, <2>4, TestWaits
  <2> QED BY <2>1, <2>2, <2>3, <2>4
<1> QED BY <1>2, <1>3, <1>4 DEF Cyclic

-----------------------------------------------------------------------------
(* The end of a run *)

\* What an incomplete answer asks for is required.
AnswersFit ==
    \A t \in DOMAIN answer : answer[t].status = "incomplete" => answer[t].req \in ReqsOf(store.code, t)

\* When the target set is completed the statuses had settled, no job was ready, and
\* the pool had none.
DoneInv ==
    phase = "done" =>
        /\ store.completed = prevCompleted /\ Changed(store, prevMap) = {}
        /\ ReadyJobs = {} /\ (AllCompleted \/ JobCount = 0)

EndInv == StatusInv /\ Orderly(store) /\ AnswersFit /\ DoneInv

\* At the start the store is tidy, and there is no answer.
LEMMA EndInit == ASSUME RunnerInit PROVE Orderly(store) /\ AnswersFit /\ DoneInv
<1>1. PICK program \in Programs, cache \in Caches :
        store = InitialStore(CreatedStore(program, cache))
  BY DEF RunnerInit
<1>2. cache \in [imports : SUBSET Module, stale : SUBSET Module, tests : SUBSET Module, staleTests : SUBSET Module]
  BY CacheAssumption DEF Caches
<1>3. Orderly(CreatedStore(program, cache))
  BY <1>2, CreatedInv, TidyCreated DEF Orderly
<1>4. Orderly(store)
  BY <1>1, <1>3, OrderlyPasses
<1>5. AnswersFit /\ DoneInv
  BY DEF RunnerInit, AnswersFit, DoneInv
<1> QED BY <1>4, <1>5

\* A driver asks for what is required.
LEMMA AnswersRequired ==
    ASSUME NEW t, t.kind \in {"job", "testjob"}, NEW a \in Answers(t), a.status = "incomplete"
    PROVE  a.req \in ReqsOf(store.code, t)
<1>1. ASSUME NEW missing, a \in Errors(t, missing) PROVE a.req \in missing
  BY <1>1 DEF Errors, Missing, Failed
<1>2. a # Ok
  BY DEF Ok
<1>3. CASE t.kind = "job"
  <2>1. a \in Errors(t, store.code.requires[t.of] \ given[t])
    BY <1>2, <1>3 DEF Answers, ImportAnswers
  <2> QED BY <1>1, <1>3, <2>1 DEF ReqsOf
<1>4. CASE t.kind = "testjob"
  <2>1. a \in Errors(t, (store.code.requires[t.of] \cup store.code.uses[t.of]) \ given[t])
    BY <1>2, <1>4 DEF Answers, TestAnswers
  <2> QED BY <1>1, <1>4, <2>1 DEF ReqsOf
<1> QED BY <1>3, <1>4

\* A job that ends keeps the answers fit.
LEMMA EndRunJob ==
    ASSUME RunnerInv, AnswersFit, NEW p \in Process, RunJob(p)
    PROVE  AnswersFit'
<1> DEFINE t == assigned[p]
<1>1. PICK a \in Answers(t) : answer' = Joined([u \in {t} |-> a], answer)
  BY DEF RunJob
<1>2. UNCHANGED <<store, given>> /\ t \in Job /\ t \in Jobs
  BY PoolAssumption DEF RunJob, PoolFinish, Jobs
<1>3. t.kind \in {"job", "testjob"}
  BY <1>2 DEF RunnerInv, SubmittedInv, InPool, IsJob
<1> HIDE DEF t
<1>4. DOMAIN answer' = DOMAIN answer \cup {t} /\ answer'[t] = a /\ \A u \in DOMAIN answer : u # t => answer'[u] = answer[u]
  BY <1>1 DEF Joined
<1> QED BY <1>1, <1>2, <1>3, <1>4, AnswersRequired DEF AnswersFit

\* A result keeps the store tidy.
LEMMA EndCollect ==
    ASSUME RunnerInv, Orderly(store), AnswersFit, NEW p \in Process, Collect(p)
    PROVE  Orderly(store') /\ AnswersFit'
<1> DEFINE t == assigned[p]
           a == answer[t]
<1>1. /\ t \in Jobs \cap finished /\ t \in submitted /\ t \in store.all /\ UNCHANGED answer
      /\ store' = store \/ (Step(store, store', t) /\ t \in store'.completed)
  BY CollectStep
<1>2. store' \in {store, Completed(store, t), Handled(store, t, a)} /\ (a.status = "failed" => store' = store)
  BY DEF Collect
<1>3. t \in DOMAIN answer /\ a \in JobAnswer
  BY <1>1 DEF RunnerInv, AnswersInv
<1>4. t.kind \in {"job", "testjob"} /\ t.of \in Module
  BY <1>1, JobTargets, StoreTypes DEF RunnerInv, SubmittedInv, StoreInv, IsJob
<1>5. a = Ok \/ a.status = "failed" \/ (a.status = "incomplete" /\ a.req \in ReqsOf(store.code, t))
  BY <1>3 DEF AnswersFit, JobAnswer, Failed, Missing
<1> HIDE DEF t, a
<1>6. Tidy(store', Module)
  <2>1. Tidy(store, Module)
    BY DEF Orderly
  <2>2. Tidy(Completed(store, t), Module)
    BY <2>1, TidyChange
  <2>3. a.status # "failed" => Tidy(Handled(store, t, a), Module)
    <3>1. a.status # "failed" => a = Ok \/ a.req \in ReqsOf(store.code, t)
      BY <1>5
    <3> QED BY <1>4, <2>1, <3>1, TidyHandled
  <2> QED BY <1>2, <2>1, <2>2, <2>3
<1>7. Orderly(store') /\ store'.code = store.code
  BY <1>1, <1>6, OrderlyStep DEF Step, Grows
<1> QED BY <1>1, <1>7 DEF AnswersFit

\* The invariant of the end of a run.
LEMMA EndInvariance == RunnerSpec => []EndInv
<1>1. RunnerInit => Orderly(store) /\ AnswersFit /\ DoneInv
  BY EndInit
<1>2. StatusInv /\ StatusInv' /\ (Orderly(store) /\ AnswersFit /\ DoneInv) /\ [RunnerNext]_runnerVars
      => (Orderly(store) /\ AnswersFit /\ DoneInv)'
  <2> SUFFICES ASSUME StatusInv, Orderly(store), AnswersFit, DoneInv, [RunnerNext]_runnerVars
               PROVE  Orderly(store') /\ AnswersFit' /\ DoneInv'
    OBVIOUS
  <2>r. RunnerInv
    BY DEF StatusInv
  <2>1. CASE UpdateStatuses
    <3>1. Orderly(store') /\ UNCHANGED answer /\ phase' # "done"
      BY <2>1, OrderlyPasses DEF UpdateStatuses, jobVars
    <3>2. store'.code = store.code
      BY <2>1, <2>r, PassFollows DEF UpdateStatuses, RunnerInv, Follows, Grows
    <3> QED BY <3>1, <3>2 DEF AnswersFit, DoneInv
  <2>2. ASSUME NEW p \in Process, Collect(p) PROVE Orderly(store') /\ AnswersFit' /\ DoneInv'
    <3>1. phase' # "done"
      BY <2>2 DEF Collect
    <3> QED BY <2>2, <2>r, <3>1, EndCollect DEF DoneInv
  <2>3. ASSUME NEW p \in Process, RunJob(p) PROVE Orderly(store') /\ AnswersFit' /\ DoneInv'
    <3>1. UNCHANGED <<store, statusVars, submitted, phase, assigned, queue>>
      BY <2>3 DEF RunJob, PoolFinish
    <3>2. AnswersFit'
      BY <2>3, <2>r, EndRunJob
    <3> QED BY <3>1, <3>2 DEF DoneInv, statusVars, ReadyJobs, AllCompleted, JobCount, Jobs
  <2>4. CASE EndTargetSet
    <3>1. UNCHANGED <<store, statusVars, submitted, assigned, queue, answer>> /\ phase = "submit" /\ ReadyJobs = {} /\ Over
      BY <2>4 DEF EndTargetSet, jobVars, poolVars
    <3> QED BY <3>1 DEF AnswersFit, DoneInv, StatusInv, statusVars, ReadyJobs, AllCompleted, JobCount, Jobs, Over
  <2>5. CASE SubmitJob \/ MakeJobFails \/ Iterate \/ TimeOut \/ EndBatch
    <3>1. UNCHANGED <<store, answer>> /\ phase' # "done"
      BY <2>5 DEF SubmitJob, MakeJobFails, Iterate, TimeOut, EndBatch, jobVars
    <3> QED BY <3>1 DEF AnswersFit, DoneInv
  <2>6. CASE Ended \/ UNCHANGED runnerVars
    BY <2>6 DEF Ended, runnerVars, AnswersFit, DoneInv, statusVars, jobVars, poolVars, ReadyJobs, AllCompleted, JobCount, Jobs
  <2> QED BY <2>1, <2>2, <2>3, <2>4, <2>5, <2>6 DEF RunnerNext
<1> QED BY <1>1, <1>2, StatusInvariance, PTL DEF RunnerSpec, EndInv

\* Without jobs.
LEMMA NoJobs == ASSUME PoolInv, JobCount = 0 PROVE Jobs = {} /\ queue = <<>>
<1> DEFINE all == {assigned[p] : p \in Process}
<1>1. assigned \in [Process -> Job \cup {Idle}] /\ queue \in Seq(Job)
  BY DEF PoolInv, PoolTypeOK
<1>2. IsFiniteSet(all)
  <2>1. assigned \in Surjection(Process, all)
    BY <1>1 DEF Surjection
  <2> QED BY <2>1, PoolAssumption, FS_Surjection
<1>3. IsFiniteSet(Jobs)
  BY <1>2, FS_Subset DEF Jobs
<1>4. Cardinality(Jobs) \in Nat /\ Len(queue) \in Nat
  BY <1>1, <1>3, FS_CardinalityType
<1>5. Cardinality(Jobs) = 0 /\ Len(queue) = 0
  BY <1>4 DEF JobCount
<1> QED BY <1>1, <1>3, <1>5, FS_EmptySet, EmptySeq

\* A run that ends with targets that are not completed, and no failure, is stuck.
LEMMA EndsStuck ==
    ASSUME EndInv, phase = "done", ~AllCompleted, failures = {}
    PROVE  Stuck(store)
<1>1. Orderly(store) /\ StoreInv(store) /\ RunnerInv
  BY DEF EndInv, Orderly, StatusInv
<1>2. store.completed = prevCompleted /\ Changed(store, prevMap) = {} /\ ReadyJobs = {} /\ JobCount = 0
  BY DEF EndInv, DoneInv
<1>3. submitted \subseteq store.completed
  <2>1. Jobs = {} /\ queue = <<>>
    BY <1>1, <1>2, NoJobs DEF RunnerInv
  <2>2. InPool = {}
    BY <2>1 DEF InPool, Elements
  <2> QED BY <1>1, <2>2 DEF RunnerInv, SubmittedInv
<1>4. ASSUME NEW t \in Incomplete(store) PROVE Calm(store, t)
  <2>1. PICK w \in Store :
            /\ StoreInv(w) /\ Grows(w, store)
            /\ prevCompleted = w.completed /\ prevMap = DepsMap(w)
            /\ \A u \in w.all \ store.completed : Rel(w, store, u)
    BY DEF EndInv, StatusInv, SeenInv
  <2>2. store.completed = w.completed /\ Changed(store, DepsMap(w)) = {}
    BY <1>2, <2>1
  <2>3. t \in DOMAIN DepsMap(w) /\ Deps(store, t) = DepsMap(w)[t]
    BY <2>2 DEF Changed
  <2>4. t \in w.all /\ Deps(store, t) = Deps(w, t)
    BY <2>3 DEF DepsMap, Incomplete
  <2>5. t \notin store.completed
    BY DEF Incomplete
  <2> QED BY <2>1, <2>2, <2>4, <2>5 DEF Rel
<1>5. ASSUME NEW t \in Incomplete(store), t.kind \in {"job", "testjob"} PROVE t \notin store.ready
  <2>1. t \in store.all /\ t \notin store.completed /\ t \notin submitted /\ t \in Target
    BY <1>1, <1>3, StoreTypes DEF Incomplete, StoreInv
  <2>2. t \in store.own
    BY <1>1, <1>5, <2>1, LastJob
  <2> QED BY <1>2, <2>1, <2>2 DEF ReadyJobs
<1> QED BY <1>1, <1>4, <1>5 DEF Stuck

\* The loop does not give up early: it ends with all targets of the project completed,
\* or a job has failed, or imports, resources and tests of the program wait for each
\* other, or it requires an item that it does not have.
THEOREM EndsWhenComplete == RunnerSpec => []EndsComplete
<1>1. EndInv => EndsComplete
  <2> SUFFICES ASSUME EndInv, phase = "done", ~AllCompleted, failures = {}
               PROVE  Cyclic(store.code) \/ Lacking(store.code)
    BY DEF EndsComplete
  <2>1. ~(store.own \subseteq store.completed)
    BY DEF AllCompleted
  <2> QED BY <2>1, EndsStuck, StuckByProgram
<1> QED BY <1>1, EndInvariance, PTL
=============================================================================
