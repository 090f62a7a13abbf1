----------------------------- MODULE ThreadPool -----------------------------
(***************************************************************************)
(* VoidThreadPool: worker threads, one thread that owns the pool (the      *)
(* solver), the job queue under m_queue_lock with m_queue_condition and    *)
(* the count of pending jobs under m_counter_lock with m_counter_condition.*)
(* Each critical section is one step; what lies between two of them are    *)
(* steps of other threads.  A wait releases its lock and falls asleep in   *)
(* one step, and may wake up without being notified.                       *)
(***************************************************************************)
EXTENDS Naturals, Sequences, FiniteSets, Functions

CONSTANTS Worker, Job

ASSUME PoolAssumption == IsFiniteSet(Job)

VARIABLES
  job_queue,               \* m_job_queue
  jobs_pending,            \* m_jobs_pending
  waiting_for_completion,  \* m_waiting_for_completion
  finish,                  \* m_finish
  worker,                  \* where each worker is in WorkerFunction
  held,                    \* the job each worker has taken last
  owner,                   \* where the owner is in AddJob, WaitForAllJobs, Finish
  adding,                  \* the set of at most one job that AddJob has counted, not yet queued
  added, ran               \* the jobs queued so far, and those that were run

shared == <<job_queue, jobs_pending, waiting_for_completion, finish>>
history == <<added, ran>>
vars == <<shared, worker, held, owner, adding, history>>

WorkerAt == {"queue", "asleep", "run", "count", "stopped"}
OwnerAt == {"working", "push", "notify", "wait", "asleep", "woken", "notify_all", "join", "stopped"}

TypeOK ==
  /\ job_queue \in Seq(Job) /\ jobs_pending \in Nat
  /\ waiting_for_completion \in BOOLEAN /\ finish \in BOOLEAN
  /\ worker \in [Worker -> WorkerAt]
  /\ held \in [Worker -> SUBSET Job]
  /\ owner \in OwnerAt
  /\ adding \subseteq Job
  /\ added \subseteq Job /\ ran \subseteq Job

Init ==
  /\ job_queue = <<>> /\ jobs_pending = 0
  /\ waiting_for_completion = FALSE /\ finish = FALSE
  /\ worker = [w \in Worker |-> "queue"]
  /\ held = [w \in Worker |-> {}]
  /\ owner = "working" /\ adding = {} /\ added = {} /\ ran = {}

-----------------------------------------------------------------------------
(* WorkerFunction.                                                         *)

\* Mutant: the job is read but not popped.
MutantNoPop(w) ==
  /\ worker[w] = "queue" /\ job_queue # <<>>
  /\ held' = [held EXCEPT ![w] = {Head(job_queue)}]
  /\ worker' = [worker EXCEPT ![w] = "run"]
  /\ UNCHANGED <<shared, owner, adding, history>>

\* The predicate of the queue condition holds: take a job, or stop.
TakeJob(w) ==
  /\ worker[w] = "queue" /\ job_queue # <<>>
  /\ held' = [held EXCEPT ![w] = {Head(job_queue)}]
  /\ job_queue' = Tail(job_queue)
  /\ worker' = [worker EXCEPT ![w] = "run"]
  /\ UNCHANGED <<jobs_pending, waiting_for_completion, finish, owner, adding, history>>

StopWorker(w) ==
  /\ worker[w] = "queue" /\ job_queue = <<>> /\ finish
  /\ worker' = [worker EXCEPT ![w] = "stopped"]
  /\ UNCHANGED <<shared, held, owner, adding, history>>

SleepWorker(w) ==
  /\ worker[w] = "queue" /\ job_queue = <<>> /\ ~finish
  /\ worker' = [worker EXCEPT ![w] = "asleep"]
  /\ UNCHANGED <<shared, held, owner, adding, history>>

\* A spurious wake-up.
WakeWorker(w) ==
  /\ worker[w] = "asleep"
  /\ worker' = [worker EXCEPT ![w] = "queue"]
  /\ UNCHANGED <<shared, held, owner, adding, history>>

RunJob(w) ==
  /\ worker[w] = "run"
  /\ ran' = ran \cup held[w]
  /\ worker' = [worker EXCEPT ![w] = "count"]
  /\ UNCHANGED <<shared, held, owner, adding, added>>

\* Mutant: the owner is not notified.
MutantSilentCount(w) ==
  /\ worker[w] = "count"
  /\ jobs_pending' = jobs_pending - 1
  /\ held' = [held EXCEPT ![w] = {}]
  /\ worker' = [worker EXCEPT ![w] = "queue"]
  /\ UNCHANGED <<job_queue, waiting_for_completion, finish, owner, adding, history>>

\* The count goes down; the last job notifies a waiting owner.
CountJob(w) ==
  /\ worker[w] = "count"
  /\ jobs_pending' = jobs_pending - 1
  /\ owner' = IF jobs_pending' = 0 /\ waiting_for_completion /\ owner = "asleep"
              THEN "woken" ELSE owner
  /\ held' = [held EXCEPT ![w] = {}]
  /\ worker' = [worker EXCEPT ![w] = "queue"]
  /\ UNCHANGED <<job_queue, waiting_for_completion, finish, adding, history>>

-----------------------------------------------------------------------------
(* The owner.                                                              *)

\* Mutant: the job is not counted.
MutantUncounted(j) ==
  /\ owner = "working" /\ j \notin added
  /\ adding' = {j}
  /\ owner' = "push"
  /\ UNCHANGED <<shared, worker, held, history>>

\* AddJob: count, queue, notify, in critical sections of their own.
AddJob(j) ==
  /\ owner = "working" /\ j \notin added
  /\ adding' = {j}
  /\ jobs_pending' = jobs_pending + 1
  /\ owner' = "push"
  /\ UNCHANGED <<job_queue, waiting_for_completion, finish, worker, held, history>>

PushJob ==
  /\ owner = "push"
  /\ \E j \in adding : job_queue' = Append(job_queue, j)
  /\ added' = added \cup adding
  /\ adding' = {}
  /\ owner' = "notify"
  /\ UNCHANGED <<jobs_pending, waiting_for_completion, finish, worker, held, ran>>

\* Mutant: no worker is notified.
MutantNoNotify ==
  /\ owner = "notify"
  /\ owner' = "working"
  /\ UNCHANGED <<shared, worker, held, adding, history>>

NotifyOne ==
  /\ owner = "notify"
  /\ \/ \E w \in Worker : worker[w] = "asleep" /\ worker' = [worker EXCEPT ![w] = "queue"]
     \/ (\A w \in Worker : worker[w] # "asleep") /\ UNCHANGED worker
  /\ owner' = "working"
  /\ UNCHANGED <<shared, held, adding, history>>

WaitForAllJobs ==
  /\ owner = "working"
  /\ owner' = "wait"
  /\ UNCHANGED <<shared, worker, held, adding, history>>

\* Nothing is pending: return at once.
NoJobs ==
  /\ owner = "wait" /\ jobs_pending = 0
  /\ owner' = "working"
  /\ UNCHANGED <<shared, worker, held, adding, history>>

WaitForCount ==
  /\ owner = "wait" /\ jobs_pending > 0
  /\ waiting_for_completion' = TRUE
  /\ owner' = "asleep"
  /\ UNCHANGED <<job_queue, jobs_pending, finish, worker, held, adding, history>>

\* A spurious wake-up.
WakeOwner ==
  /\ owner = "asleep"
  /\ owner' = "woken"
  /\ UNCHANGED <<shared, worker, held, adding, history>>

\* Mutant: the count is not tested again after the wake-up.
MutantNoRecheck ==
  /\ owner = "woken"
  /\ owner' = "working"
  /\ waiting_for_completion' = FALSE
  /\ UNCHANGED <<job_queue, jobs_pending, finish, worker, held, adding, history>>

\* Awake with the lock: back to sleep while jobs are pending, or return.
CheckCount ==
  /\ owner = "woken"
  /\ owner' = IF jobs_pending = 0 THEN "working" ELSE "asleep"
  /\ waiting_for_completion' = (jobs_pending # 0)
  /\ UNCHANGED <<job_queue, jobs_pending, finish, worker, held, adding, history>>

\* Finish: the flag, notify_all, and join every thread.
Finish ==
  /\ owner = "working"
  /\ finish' = TRUE
  /\ owner' = "notify_all"
  /\ UNCHANGED <<job_queue, jobs_pending, waiting_for_completion, worker, held, adding, history>>

NotifyAll ==
  /\ owner = "notify_all"
  /\ worker' = [w \in Worker |-> IF worker[w] = "asleep" THEN "queue" ELSE worker[w]]
  /\ owner' = "join"
  /\ UNCHANGED <<shared, held, adding, history>>

Join ==
  /\ owner = "join" /\ \A w \in Worker : worker[w] = "stopped"
  /\ owner' = "stopped"
  /\ UNCHANGED <<shared, worker, held, adding, history>>

-----------------------------------------------------------------------------
WorkerStep(w) ==
  TakeJob(w) \/ StopWorker(w) \/ SleepWorker(w) \/ RunJob(w) \/ CountJob(w)

\* The steps of a call that has begun; whether to call is the owner's choice.
OwnerStep ==
  PushJob \/ NotifyOne \/ NoJobs \/ WaitForCount \/ CheckCount \/ NotifyAll \/ Join

\* The destructor has returned.
Stopped == owner = "stopped" /\ UNCHANGED vars

Next ==
  \/ \E w \in Worker : WorkerStep(w) \/ WakeWorker(w)
  \/ \E j \in Job : AddJob(j)
  \/ WaitForAllJobs \/ Finish \/ WakeOwner \/ OwnerStep \/ Stopped

Spec == Init /\ [][Next]_vars

\* The operating system runs every thread, and hands every lock to each of the
\* threads that ask for it.  No wake-up is assumed that the code does not cause.
FairSpec == Spec /\ (\A w \in Worker : WF_vars(WorkerStep(w))) /\ WF_vars(OwnerStep)

-----------------------------------------------------------------------------
(* The pool as the solver sees it.                                         *)

\* What the owner is doing, as the abstract pool sees it.
Caller ==
  CASE owner \in {"wait", "asleep", "woken"} -> "waiting"
    [] owner \in {"notify_all", "join"} -> "finishing"
    [] owner = "stopped" -> "stopped"
    [] OTHER -> "working"

JP == INSTANCE JobPool WITH caller <- Caller, submitted <- added, completed <- ran

\* The threads, locks and wake-ups together do what the README promises: a call
\* of WaitForAllJobs or Finish returns only when every job has been run, every
\* job is run exactly once, ...
PoolSpec == JP!Spec

\* ... and every job is run, every call returns.
PoolFairSpec == JP!FairSpec

Unfinished == adding \cup Range(job_queue) \cup UNION {held[w] : w \in Worker}

\* The counter counts exactly the jobs between their AddJob and the end of
\* their run, so that 0 means that nothing is outstanding.
CountIsExact == jobs_pending = Cardinality(Unfinished)

\* A job is in one place only: in AddJob, in the queue, or with one worker.
JobInOnePlace ==
  /\ IsInjective(job_queue)
  /\ adding \cap Range(job_queue) = {}
  /\ \A w \in Worker :
       /\ held[w] \cap (adding \cup Range(job_queue)) = {}
       /\ \A x \in Worker \ {w} : held[w] \cap held[x] = {}

\* No job waits in the queue while every worker sleeps without the notification
\* that AddJob is about to send.
NoLostWakeup ==
  job_queue # <<>> /\ owner # "notify" /\ Worker # {} =>
    \E w \in Worker : worker[w] # "asleep"

=============================================================================
