---------------------------- MODULE ProcessPool ----------------------------
(***************************************************************************)
(* rc/process_pool.dyn.py: the resource compiler hands its jobs to a fixed  *)
(* list of rc-driver processes.  A future completes in the background; the  *)
(* compiler sees it only when it iterates over iter_completed, which works  *)
(* on a snapshot of the futures taken when the iteration starts, so a job   *)
(* that is started from the queue meanwhile waits for the next iteration.   *)
(***************************************************************************)
EXTENDS Naturals, Sequences, FiniteSets

CONSTANTS
    Process,
    Job,
    Idle         \* not a job

ASSUME PoolAssumption == IsFiniteSet(Process) /\ Idle \notin Job

VARIABLES
    free,        \* _free_processes: a stack
    queue,       \* _job_queue
    assigned,    \* _future_to_rec: the job each process was given, or Idle
    finished,    \* jobs of assigned whose future is done
    batch,       \* jobs that the running iteration has still to yield
    iterating    \* iter_completed has started

poolVars == <<free, queue, assigned, finished, batch, iterating>>

Jobs     == {assigned[p] : p \in Process} \ {Idle}
JobCount == Cardinality(Jobs) + Len(queue)
Unique(seq) == \A i, j \in DOMAIN seq : seq[i] = seq[j] => i = j
Elements(seq) == {seq[i] : i \in DOMAIN seq}

PoolTypeOK ==
    /\ free \in Seq(Process) /\ queue \in Seq(Job)
    /\ assigned \in [Process -> Job \cup {Idle}]
    /\ finished \subseteq Job /\ batch \subseteq Job /\ iterating \in BOOLEAN

\* Before the first job: every process is free, in the order of process_list.
PoolInit ==
    /\ free \in [1 .. Cardinality(Process) -> Process]
    /\ Unique(free) /\ Elements(free) = Process
    /\ queue = <<>>
    /\ assigned = [p \in Process |-> Idle]
    /\ finished = {} /\ batch = {} /\ iterating = FALSE

\* submit; whose jobs are all different.
PoolSubmit(job) ==
    /\ \/ /\ free # <<>>
          /\ assigned' = [assigned EXCEPT ![free[Len(free)]] = job]
          /\ free' = SubSeq(free, 1, Len(free) - 1)
          /\ UNCHANGED queue
       \/ /\ free = <<>>
          /\ queue' = Append(queue, job)
          /\ UNCHANGED <<assigned, free>>
    /\ UNCHANGED <<finished, batch, iterating>>

\* The driver answers: the future of its job is done.
PoolFinish(p) ==
    /\ assigned[p] \in Job \ finished
    /\ finished' = finished \cup {assigned[p]}
    /\ UNCHANGED <<free, queue, assigned, batch, iterating>>

\* as_completed(self._future_to_rec): the snapshot.
PoolIterate ==
    /\ ~iterating
    /\ iterating' = TRUE
    /\ batch' = Jobs
    /\ UNCHANGED <<free, queue, assigned, finished>>

\* One step of the loop: the process of a completed future takes the next job.
\* Mutated forms: it is put back before the queue is looked at; the job stays in the
\* queue.
FreeAndStart(p) ==
    /\ iterating /\ assigned[p] \in batch \cap finished
    /\ batch' = batch \ {assigned[p]}
    /\ finished' = finished \ {assigned[p]}
    /\ free' = Append(free, p)
    /\ \/ /\ queue # <<>>
          /\ assigned' = [assigned EXCEPT ![p] = Head(queue)]
          /\ queue' = Tail(queue)
       \/ /\ queue = <<>>
          /\ assigned' = [assigned EXCEPT ![p] = Idle]
          /\ UNCHANGED queue
    /\ UNCHANGED iterating
RunAgain(p) ==
    /\ iterating /\ assigned[p] \in batch \cap finished
    /\ batch' = batch \ {assigned[p]}
    /\ finished' = finished \ {assigned[p]}
    /\ assigned' = [assigned EXCEPT ![p] = IF queue = <<>> THEN Idle ELSE Head(queue)]
    /\ free' = IF queue = <<>> THEN Append(free, p) ELSE free
    /\ UNCHANGED <<queue, iterating>>
PoolYield(p) ==
    /\ iterating /\ assigned[p] \in batch \cap finished
    /\ batch' = batch \ {assigned[p]}
    /\ finished' = finished \ {assigned[p]}
    /\ \/ /\ queue # <<>>
          /\ assigned' = [assigned EXCEPT ![p] = Head(queue)]
          /\ queue' = Tail(queue)
          /\ UNCHANGED free
       \/ /\ queue = <<>>
          /\ assigned' = [assigned EXCEPT ![p] = Idle]
          /\ free' = Append(free, p)
          /\ UNCHANGED queue
    /\ UNCHANGED iterating

\* The iteration ends: every future of the snapshot was yielded.
PoolEnd ==
    /\ iterating /\ batch = {}
    /\ iterating' = FALSE
    /\ UNCHANGED <<free, queue, assigned, finished, batch>>

PoolNext ==
    \/ \E job \in Job \ (Jobs \cup Elements(queue)) : PoolSubmit(job)
    \/ \E p \in Process : PoolFinish(p) \/ PoolYield(p)
    \/ PoolIterate \/ PoolEnd

PoolSpec == PoolInit /\ [][PoolNext]_poolVars

-----------------------------------------------------------------------------
\* A process is free, or has exactly one job, never both: no two jobs run in one
\* driver, no driver is lost to the pool.
OneJobPerProcess ==
    /\ Unique(free)
    /\ Elements(free) = {p \in Process : assigned[p] = Idle}

\* No job waits while a process is free.
WorkConserving == queue # <<>> => free = <<>>

\* A job is in one place: one process has it, or it is once in the queue.
OnePlacePerJob ==
    /\ \A p, q \in Process : assigned[p] = assigned[q] => p = q \/ assigned[p] = Idle
    /\ Unique(queue)
    /\ Elements(queue) \cap Jobs = {}

\* The running iteration will end: what it waits for is assigned to some process.
BatchAssigned == finished \subseteq Jobs /\ batch \subseteq Jobs

\* The invariant of the pool, which is inductive.
PoolInv == PoolTypeOK /\ OneJobPerProcess /\ WorkConserving /\ OnePlacePerJob /\ BatchAssigned
=============================================================================
