------------------------------ MODULE RcRunner ------------------------------
(***************************************************************************)
(* rc/rc.dyn.py: the resource compiler's main loop over one project.  It    *)
(* submits the jobs of the targets that are ready, waits for the futures it *)
(* has at that moment, hands each result to its target, and then brings the *)
(* statuses of all targets to a fixpoint.  Jobs run in driver processes     *)
(* (ProcessPool) meanwhile; what a job may answer is modelled from           *)
(* rc/import_job.dyn.py and rc/test_job.dyn.py.                              *)
(***************************************************************************)
EXTENDS BuildTargets, ProcessPool

CONSTANTS
    Cacheable,   \* modules that may have a job cache entry for their present source
    MayFail,     \* modules whose import or test may fail
    TestRetries, \* TEST_JOB_RETRY_LIMIT
    Options      \* records: failFast, options.fail_fast; timed, a timeout is given

VARIABLES
    options,
    store,          \* the targets
    prevCompleted,  \* _prev_completed
    prevMap,        \* _prev_incomplete_deps_map
    submitted,      \* _target_to_job: job targets, "Jobs are never removed"
    given,          \* given[t]: requirements of the resources sent with job t
    answer,         \* answer[t]: what the driver answered
    failures,       \* targets whose job failed
    phase           \* "submit", "collect", "update", "done", "stopped" or "error"

JobTarget == {ImportJob(m, k) : m \in Module, k \in 1 .. MaxJobs}
             \cup {TestJob(m, k) : m \in Module, k \in 1 .. MaxJobs}

\* What the pool runs here.
ASSUME JobAssumption == Job = JobTarget

ASSUME CacheAssumption == Cacheable \subseteq Module

statusVars == <<prevCompleted, prevMap>>
jobVars  == <<submitted, given, answer, failures>>
runnerVars == <<options, poolVars, store, statusVars, jobVars, phase>>

Ok == [status |-> "ok", req |-> None]
Failed == [status |-> "failed", req |-> None]
Missing(r) == [status |-> "incomplete", req |-> r]
JobAnswer == {Ok, Failed} \cup {Missing(r) : r \in Module \cup Item}

\* A test is cached with the import of its module.
Caches ==
    {c \in [imports : SUBSET Cacheable, stale : SUBSET Cacheable,
            tests : SUBSET Cacheable, staleTests : SUBSET Cacheable] :
        c.stale \cup c.tests \subseteq c.imports /\ c.staleTests \subseteq c.tests}

RunnerInit ==
    /\ options \in Options
    /\ \E program \in Programs, cache \in Caches :
        LET created == CreatedStore(program, cache) IN
        /\ \A m \in cache.tests : program.tests[m] # {}
        /\ store = InitialStore(created)
        /\ prevMap = DepsMap(created)
    /\ prevCompleted = {}
    /\ submitted = {} /\ failures = {}
    /\ given = [t \in {} |-> {}] /\ answer = [t \in {} |-> Ok]
    /\ PoolInit
    /\ phase = "update"

-----------------------------------------------------------------------------
(* Submission *)

ReadyJobs  == (store.ready \cap store.own) \ (store.completed \cup submitted)

\* The requirements whose resources make_job puts in the job.
Given(t) ==
    DOMAIN Needs(store, t) \cup {i \in Item : Complete(i) \in store.completed}
                           \cup {m \in Module : Resource(m) \in store.completed}

\* CfgItemReq.make_resource: assert resource_tgt.completed.
ResourceMissing(t) ==
    \E i \in store.code.actors \cap DOMAIN Needs(store, t) :
        /\ Needs(store, t)[i] = Resolved(i) /\ Resource(Provider(store, i)) \notin store.completed
        /\ t.kind = "testjob" => Provider(store, i) \notin store.code.tests[t.of]

SubmitJob ==
    /\ phase = "submit"
    /\ \E t \in ReadyJobs :
        /\ First(ReadyJobs, t) /\ ~ResourceMissing(t)
        /\ PoolSubmit(t)
        /\ submitted' = submitted \cup {t}
        /\ given' = Joined([u \in {t} |-> Given(t)], given)
    /\ UNCHANGED <<options, store, statusVars, answer, failures, phase>>

MakeJobFails ==
    /\ phase = "submit"
    /\ \E t \in ReadyJobs : First(ReadyJobs, t) /\ ResourceMissing(t)
    /\ phase' = "error"
    /\ UNCHANGED <<options, poolVars, store, statusVars, jobVars>>

AllCompleted == store.own \subseteq store.completed

\* All targets are completed, or there are no jobs.  Mutated forms: it waits for the
\* former only; jobs that have a process are not counted.
OverWhenDone      == AllCompleted
OverWhenNoneWaits == AllCompleted \/ queue = <<>>
Over              == AllCompleted \/ JobCount = 0

EndTargetSet ==
    /\ phase = "submit" /\ ReadyJobs = {} /\ Over
    /\ phase' = "done"
    /\ UNCHANGED <<options, poolVars, store, statusVars, jobVars>>

Iterate ==
    /\ phase = "submit" /\ ReadyJobs = {} /\ ~Over
    /\ PoolIterate
    /\ phase' = "collect"
    /\ UNCHANGED <<options, store, statusVars, jobVars>>

-----------------------------------------------------------------------------
(* A driver runs a job. *)

\* convert_errors: a requirement that was not given, where an actor is looked for by
\* its service only, or a failure of the module's own.
Errors(t, missing) ==
    LET service(r) == store.code.service[r] \in given[t] \cup {None} IN
    {Missing(r) : r \in {q \in missing : q \in store.code.actors => service(q)}}
    \cup IF t.of \in MayFail THEN {Failed} ELSE {}

\* An import may meet a module only by its name.
ImportAnswers(t) ==
    LET missing == store.code.requires[t.of] \ given[t] IN
    Errors(t, missing) \cup IF missing \cap Item = {} THEN {Ok} ELSE {}

\* A test meets all that it uses.
TestAnswers(t) ==
    LET uses    == store.code.uses[t.of]
        missing == (store.code.requires[t.of] \cup uses) \ given[t]
    IN  Errors(t, missing) \cup IF missing \cap (Item \cup uses) = {} THEN {Ok} ELSE {}

Answers(t) == IF t.kind = "testjob" THEN TestAnswers(t) ELSE ImportAnswers(t)

RunJob(p) ==
    /\ PoolFinish(p)
    /\ \E a \in Answers(assigned[p]) : answer' = Joined([u \in {assigned[p]} |-> a], answer)
    /\ UNCHANGED <<options, store, statusVars, submitted, given, failures, phase>>

-----------------------------------------------------------------------------
(* Results *)

\* target.handle_job_result: the job target is completed, then the result updates
\* the targets: the requirements of a success, a further job for an incomplete one.
ImportHandled(w, t, a) ==
    LET v == Completed(w, t)
        x == WithTargets(AddTestsImport(v, t.of), {a.req})
    IN  IF a = Ok THEN UseResult(v, t.of, w.code.requires[t.of])
        ELSE WithJob(x, t.of, t.idx + 1, Resolve(x, {a.req}))

\* A further test keeps the requirements of those before.
TestHandled(w, t, a) ==
    LET v == UseTestResult(Completed(w, t), t.of)
        x == WithTargets(v, {a.req})
    IN  IF a = Ok THEN v
        ELSE WithTestJob(x, t.of, t.idx + 1,
                         Joined(ResolveIn(x, w.code.tests[t.of], {a.req}), Needs(x, Test(t.of))))

Handled(w, t, a) == IF t.kind = "testjob" THEN TestHandled(w, t, a) ELSE ImportHandled(w, t, a)

\* A test that needs nothing new, or has been tried too many times.
GivesUp(t, a) ==
    /\ t.kind = "testjob" /\ a.status = "incomplete"
    /\ a.req \in DOMAIN Needs(store, Test(t.of)) \/ t.idx >= TestRetries

\* The bound of this model: no further job after MaxJobs of them.
WithinBound(t, a) == a.status = "incomplete" => GivesUp(t, a) \/ t.idx < MaxJobs

\* One iteration of the loop over iter_completed.
Collect(p) ==
    /\ phase = "collect"
    /\ PoolYield(p)
    /\ LET t == assigned[p]  a == answer[t] IN
        /\ WithinBound(t, a)
        /\ IF a.status = "failed"
           THEN failures' = failures \cup {t} /\ UNCHANGED store
           ELSE store' = (IF GivesUp(t, a) THEN Completed(store, t) ELSE Handled(store, t, a)) /\ UNCHANGED failures
        /\ phase' = IF GivesUp(t, a) THEN "error"
                    ELSE IF a.status = "failed" /\ options.failFast THEN "stopped" ELSE phase
    /\ UNCHANGED <<options, statusVars, submitted, given, answer>>

\* TimeoutError of as_completed: the run ends with jobs still at the drivers.
TimeOut ==
    /\ phase = "collect" /\ options.timed
    /\ batch \ finished # {}
    /\ phase' = "error"
    /\ UNCHANGED <<options, poolVars, store, statusVars, jobVars>>

EndBatch ==
    /\ phase = "collect"
    /\ PoolEnd
    /\ phase' = "update"
    /\ UNCHANGED <<options, store, statusVars, jobVars>>

\* update_statuses: passes until nothing is new.
UpdateStatuses ==
    /\ phase = "update"
    /\ IF store.completed = prevCompleted /\ Changed(store, prevMap) = {}
       THEN phase' = "submit" /\ UNCHANGED <<options, store, statusVars>>
       ELSE /\ store' = UpdatePass(store, prevCompleted, prevMap)
            /\ prevCompleted' = store.completed
            /\ prevMap' = DepsMap(store)
            /\ UNCHANGED phase
    /\ UNCHANGED <<options, poolVars, jobVars>>

\* The run has ended: drivers may still finish their jobs.
Ended == phase \in {"done", "stopped", "error"} /\ UNCHANGED runnerVars

RunnerNext ==
    \/ SubmitJob \/ MakeJobFails \/ EndTargetSet \/ Iterate
    \/ TimeOut \/ EndBatch \/ UpdateStatuses \/ Ended
    \/ \E p \in Process : RunJob(p) \/ Collect(p)

\* The compiler does not stop while it has something to do, and a driver ends the
\* job it has: weak fairness, with ENABLED spelled out.
RunnerStep  == SubmitJob \/ MakeJobFails \/ EndTargetSet \/ Iterate \/ EndBatch \/ UpdateStatuses
               \/ \E p \in Process : Collect(p)
RunnerReady == phase \in {"submit", "update"} \/ (phase = "collect" /\ (batch = {} \/ batch \cap finished # {}))
RunnerFairness ==
    /\ []<>~RunnerReady \/ []<><<RunnerStep>>_runnerVars
    /\ \A p \in Process : []<>(assigned[p] \notin JobTarget \ finished) \/ []<><<RunJob(p)>>_runnerVars

RunnerSpec     == RunnerInit /\ [][RunnerNext]_runnerVars
RunnerFairSpec == RunnerSpec /\ RunnerFairness

-----------------------------------------------------------------------------
RunnerTypeOK ==
    /\ options \in Options /\ store.code \in Programs
    /\ PoolTypeOK
    /\ store.own \subseteq store.all /\ store.completed \subseteq store.all
    /\ store.ready \subseteq JobTarget
    /\ submitted \subseteq JobTarget /\ DOMAIN given = submitted
    /\ DOMAIN answer \subseteq submitted /\ Range(answer) \subseteq JobAnswer
    /\ failures \subseteq submitted
    /\ phase \in {"submit", "collect", "update", "done", "stopped", "error"}

\* check_statuses: when update_statuses ends no target that is not completed would
\* complete, become ready, or get other deps, if it were updated once more; what is
\* completed stands over completed deps, though deps of other targets are found and
\* added all the time; and "Demotions are not allowed".
Fixpoint ==
    /\ RunnerTypeOK
    /\ phase = "submit" => \A t \in Incomplete(store) : Updated(store, t) = store
    /\ \A t \in store.completed : Satisfied(store, Deps(store, t))
    /\ prevCompleted \subseteq store.completed

\* No resource is completed before the tests of its module have been found, which
\* their imports do, and have succeeded; the assertions that rely on it hold.
TestedFirst ==
    /\ ~store.failed
    /\ \A m, n \in Module :
        n \in store.code.tests[m] /\ Resource(n) \in store.completed => Test(m) \in store.completed

\* Results are not lost or handled twice: a job that was submitted is in the pool,
\* has failed, or has completed its target; its module or test goes on with a later job.
EachJobOnce ==
    \A t \in submitted :
        /\ (t \in Jobs \cup Elements(queue)) # (t \in failures \cup store.completed)
        /\ t \in store.completed /\ t.kind = "job" /\ store.job[t.of] = t => t.of \in store.got
        /\ t \in store.completed /\ t.kind = "testjob" /\ store.test[t.of] = t =>
                answer[t] = Ok \/ phase = "error"

\* What waits for what, in a program: the imports, resources and tests of modules.  A
\* test has the modules that it tests, and their actors, as they are imported.
Stage(kind, set) == {kind} \X set
Providers(code, i) == {n \in Module : i \in code.provides[n]}
NeededBy(code, reqs) ==
    (reqs \cap Module) \cup UNION {Providers(code, i) \cup Providers(code, code.service[i]) : i \in reqs \cap Item}
WaitsFor(code, x) ==
    LET m == x[2]
        tested  == code.tests[m]
        helpers == tested \cup code.fixtures[m]
        testers == {n \in Module : m \in code.tests[n]}
        reqs    == (UNION {code.requires[n] : n \in {m} \cup helpers}) \cup code.uses[m]
        early   == tested \cup {i \in code.actors : Providers(code, i) \cap tested # {}}
    IN  CASE x[1] = "import" ->
                Stage("import", helpers) \cup Stage("resource", NeededBy(code, code.requires[m]))
          [] x[1] = "resource" ->
                Stage("import", {m} \cup testers) \cup Stage("test", testers)
                \cup Stage("resource", NeededBy(code, code.requires[m]))
          [] x[1] = "test" ->
                Stage("import", {m} \cup helpers) \cup Stage("resource", NeededBy(code, reqs \ early))
\* Some of them wait for each other.
Cyclic(code) ==
    \E stages \in SUBSET ({"import", "resource", "test"} \X Module) :
        stages # {} /\ \A x \in stages : WaitsFor(code, x) \cap stages # {}
\* An item is needed, or its service, that no module provides which is compiled to a resource.
Lacking(code) ==
    \E m \in Module : \E i \in (code.requires[m] \cup code.uses[m]) \cap Item :
        \E j \in {i, code.service[i]} \ {None} :
            \A n \in Providers(code, j) : code.tests[n] # {} \/ \E k \in Module : n \in code.fixtures[k]

\* The loop does not give up early: it ends with everything completed, or a job has
\* failed, or the code of the program waits for itself or for what it does not have.
EndsComplete ==
    phase = "done" /\ ~AllCompleted => failures # {} \/ Cyclic(store.code) \/ Lacking(store.code)

\* The runner ends.
RunEnds == <>(phase \in {"done", "stopped", "error"})
=============================================================================
