-------------------------- MODULE ThreadPoolProofs --------------------------
(***************************************************************************)
(* VoidThreadPool for any number of workers and jobs: the counter is exact,*)
(* no job is in two places, and the pool implements JobPool.               *)
(***************************************************************************)
EXTENDS ThreadPool, QueueLemmas, FiniteSetTheorems

-----------------------------------------------------------------------------
(* The inductive invariant.                                                *)

\* What the owner and the workers have in hand follows from where they are.
InHand ==
  /\ owner = "push" => \E j \in Job \ added : adding = {j}
  /\ owner # "push" => adding = {}
  /\ \A w \in Worker : worker[w] \in {"run", "count"} => \E j \in Job : held[w] = {j}
  /\ \A w \in Worker : worker[w] \notin {"run", "count"} => held[w] = {}

\* Every job queued so far has been run, or is waiting, or is being run.
Ledger ==
  /\ ran \subseteq added
  /\ Range(job_queue) \subseteq added \ ran
  /\ \A w \in Worker : worker[w] = "run" => held[w] \subseteq added \ ran
  /\ \A w \in Worker : worker[w] = "count" => held[w] \subseteq ran
  /\ added \ ran \subseteq Unfinished

\* Workers stop only for Finish, and only with nothing left to take.
Stopping ==
  /\ finish <=> owner \in {"notify_all", "join", "stopped"}
  /\ \A w \in Worker : worker[w] = "stopped" => finish /\ job_queue = <<>>

PoolInv == TypeOK /\ InHand /\ JobInOnePlace /\ Ledger /\ Stopping /\ CountIsExact

-----------------------------------------------------------------------------
(* Initiation.                                                             *)

\* The constructor leaves an empty queue and a count of zero.
LEMMA InitInv == Init => PoolInv
<1> SUFFICES ASSUME Init PROVE PoolInv
  OBVIOUS
<1>1. Range(job_queue) = {} /\ job_queue \in Seq(Job)
  <2>1. job_queue = <<>> /\ job_queue \in Seq(Job)
    BY DEF Init
  <2> QED
    BY <2>1, EmptyQueue
<1>2. TypeOK
  BY <1>1 DEF Init, TypeOK, WorkerAt, OwnerAt
<1>3. InHand
  BY DEF Init, InHand
<1>4. JobInOnePlace
  BY <1>1 DEF Init, JobInOnePlace, IsInjective
<1>5. Ledger
  BY <1>1 DEF Init, Ledger
<1>6. Stopping
  BY DEF Init, Stopping
<1>7. Unfinished = {}
  BY <1>1 DEF Init, Unfinished
<1>8. CountIsExact
  BY <1>7, FS_EmptySet DEF Init, CountIsExact
<1> QED
  BY <1>2, <1>3, <1>4, <1>5, <1>6, <1>8 DEF PoolInv

-----------------------------------------------------------------------------
(* Steps that move no job.                                                 *)

\* Where no job changes place, only the control of the threads has to be looked at.
LEMMA NoJobMoves ==
  ASSUME PoolInv, UNCHANGED <<job_queue, jobs_pending, held, adding, history>>,
         TypeOK', InHand', Stopping',
         \A w \in Worker : worker'[w] = worker[w]
                           \/ {worker[w], worker'[w]} \cap {"run", "count"} = {}
  PROVE  PoolInv'
<1>1. Unfinished' = Unfinished
  BY DEF Unfinished, Range
<1>2. JobInOnePlace'
  BY DEF PoolInv, JobInOnePlace, Range, IsInjective
<1>3. Ledger'
  BY <1>1 DEF PoolInv, Ledger, Range, history
<1>4. CountIsExact'
  BY <1>1 DEF PoolInv, CountIsExact
<1> QED
  BY <1>2, <1>3, <1>4 DEF PoolInv

\* A worker that finds the queue empty goes to sleep, or stops when told to
\* finish; it may wake up for no reason.
LEMMA RestKeepsInv ==
  ASSUME PoolInv, NEW w \in Worker, StopWorker(w) \/ SleepWorker(w) \/ WakeWorker(w)
  PROVE  PoolInv'
<1> USE DEF PoolInv
<1>1. worker \in [Worker -> WorkerAt] /\ worker[w] \notin {"run", "count"}
  BY DEF TypeOK, StopWorker, SleepWorker, WakeWorker
<1>2. PICK at \in WorkerAt \ {"run", "count"} :
        worker' = [worker EXCEPT ![w] = at] /\ (at = "stopped" => job_queue = <<>> /\ finish)
  BY DEF StopWorker, SleepWorker, WakeWorker, WorkerAt
<1>3. UNCHANGED <<shared, held, owner, adding, history>>
  BY DEF StopWorker, SleepWorker, WakeWorker
<1>4. worker' \in [Worker -> WorkerAt]
  BY <1>1, <1>2
<1>5. TypeOK'
  BY <1>3, <1>4 DEF TypeOK, shared, history
<1>6. InHand'
  BY <1>1, <1>2, <1>3 DEF InHand, history
<1>7. Stopping'
  BY <1>1, <1>2, <1>3 DEF Stopping, shared
<1>8. \A x \in Worker : worker'[x] = worker[x] \/ {worker[x], worker'[x]} \cap {"run", "count"} = {}
  BY <1>1, <1>2
<1> QED
  BY <1>3, <1>5, <1>6, <1>7, <1>8, NoJobMoves DEF shared

\* The steps of the owner that neither count nor queue a job.
OwnerMoves ==
  \/ NotifyOne \/ NoJobs \/ WaitForCount \/ CheckCount \/ NotifyAll \/ Join
  \/ WaitForAllJobs \/ Finish \/ WakeOwner \/ Stopped

\* Notifying, waiting and joining move no job.
LEMMA OwnerMovesKeepInv ==
  ASSUME PoolInv, OwnerMoves
  PROVE  PoolInv'
<1> USE DEF PoolInv
<1>1. UNCHANGED <<job_queue, jobs_pending, held, adding, history>>
  BY DEF OwnerMoves, NotifyOne, NoJobs, WaitForCount, CheckCount, NotifyAll, Join,
         WaitForAllJobs, Finish, WakeOwner, Stopped, shared, vars
<1>2. owner \in OwnerAt \ {"push"} /\ owner' \in OwnerAt \ {"push"}
  BY DEF OwnerMoves, NotifyOne, NoJobs, WaitForCount, CheckCount, NotifyAll, Join,
         WaitForAllJobs, Finish, WakeOwner, Stopped, vars, OwnerAt
<1>3. /\ worker' \in [Worker -> WorkerAt]
      /\ \A w \in Worker : worker'[w] = worker[w] \/ (worker[w] = "asleep" /\ worker'[w] = "queue")
  <2>1. worker \in [Worker -> WorkerAt]
    BY DEF TypeOK
  <2>2. CASE UNCHANGED worker
    BY <2>1, <2>2
  <2>3. CASE NotifyOne
    BY <2>1, <2>3 DEF NotifyOne, WorkerAt
  <2>4. CASE NotifyAll
    BY <2>1, <2>4 DEF NotifyAll, WorkerAt
  <2> QED
    BY <2>2, <2>3, <2>4 DEF OwnerMoves, NoJobs, WaitForCount, CheckCount, Join, WaitForAllJobs,
                            Finish, WakeOwner, Stopped, vars
<1>4. /\ waiting_for_completion' \in BOOLEAN /\ finish' \in BOOLEAN
      /\ finish' <=> owner' \in {"notify_all", "join", "stopped"}
      /\ finish => finish'
  <2> USE DEF TypeOK, Stopping
  <2>1. CASE NotifyOne \/ NoJobs \/ WaitForAllJobs \/ WakeOwner
    BY <2>1 DEF NotifyOne, NoJobs, WaitForAllJobs, WakeOwner, shared
  <2>2. CASE WaitForCount \/ CheckCount
    <3>1. waiting_for_completion' \in BOOLEAN
      BY <2>2 DEF WaitForCount, CheckCount
    <3>2. finish' = finish /\ owner \notin {"notify_all", "join", "stopped"}
          /\ owner' \notin {"notify_all", "join", "stopped"}
      BY <2>2 DEF WaitForCount, CheckCount
    <3> QED
      BY <3>1, <3>2
  <2>3. CASE Finish
    BY <2>3 DEF Finish
  <2>4. CASE NotifyAll \/ Join \/ Stopped
    BY <2>4 DEF NotifyAll, Join, Stopped, shared, vars
  <2> QED
    BY <2>1, <2>2, <2>3, <2>4 DEF OwnerMoves
<1>5. TypeOK'
  BY <1>1, <1>2, <1>3, <1>4 DEF TypeOK, history
<1>6. InHand'
  BY <1>1, <1>2, <1>3 DEF InHand, history
<1>7. Stopping'
  BY <1>1, <1>3, <1>4 DEF Stopping
<1> QED
  BY <1>1, <1>3, <1>5, <1>6, <1>7, NoJobMoves

-----------------------------------------------------------------------------
(* Steps that move a job.                                                  *)

\* The jobs on their way are finitely many.
LEMMA UnfinishedFinite ==
  ASSUME TypeOK
  PROVE  IsFiniteSet(Unfinished) /\ Unfinished \subseteq Job
<1>1. Range(job_queue) \subseteq Job
  BY EmptyQueue DEF TypeOK
<1>2. Unfinished \subseteq Job
  BY <1>1 DEF Unfinished, TypeOK
<1> QED
  BY <1>2, FS_Subset, PoolAssumption

\* AddJob counts a job that nobody knows yet.
LEMMA AddJobKeepsInv ==
  ASSUME PoolInv, NEW j \in Job, AddJob(j)
  PROVE  PoolInv'
<1> USE DEF PoolInv
<1>1. /\ adding = {} /\ adding' = {j} /\ owner' = "push" /\ j \notin added
      /\ owner = "working" /\ jobs_pending' = jobs_pending + 1
      /\ UNCHANGED <<job_queue, waiting_for_completion, finish, worker, held, history>>
  BY DEF AddJob, InHand
<1>2. TypeOK'
  BY <1>1 DEF TypeOK, OwnerAt, history
<1>3. InHand'
  BY <1>1 DEF InHand, history
<1>4. j \notin Unfinished
  <2>1. Range(job_queue) \subseteq added
    BY DEF Ledger
  <2>2. ASSUME NEW w \in Worker PROVE held[w] \subseteq added
    BY DEF Ledger, InHand
  <2> QED
    BY <1>1, <2>1, <2>2 DEF Unfinished
<1>5. Unfinished' = Unfinished \cup {j}
  BY <1>1 DEF Unfinished, Range
<1>6. JobInOnePlace'
  BY <1>1, <1>4 DEF JobInOnePlace, Unfinished, Range, IsInjective
<1>7. Ledger'
  BY <1>1, <1>5 DEF Ledger, history, Range
<1>8. Stopping'
  BY <1>1 DEF Stopping
<1>9. CountIsExact'
  BY <1>1, <1>4, <1>5, UnfinishedFinite, FS_AddElement DEF CountIsExact
<1> QED
  BY <1>2, <1>3, <1>6, <1>7, <1>8, <1>9

\* Pushing moves the counted job from the owner's hands to the queue.
LEMMA PushJobKeepsInv ==
  ASSUME PoolInv, PushJob
  PROVE  PoolInv'
<1> USE DEF PoolInv
<1>1. PICK j \in Job \ added : adding = {j}
  BY DEF PushJob, InHand
<1>2. /\ job_queue' = Append(job_queue, j) /\ added' = added \cup {j} /\ adding' = {}
      /\ owner = "push" /\ owner' = "notify"
      /\ UNCHANGED <<jobs_pending, waiting_for_completion, finish, worker, held, ran>>
  BY <1>1 DEF PushJob
<1>3. job_queue \in Seq(Job) /\ job_queue' \in Seq(Job)
      /\ Range(job_queue') = Range(job_queue) \cup {j}
  BY <1>2, AppendElements DEF TypeOK
<1>4. TypeOK'
  BY <1>2, <1>3 DEF TypeOK, OwnerAt
<1>5. InHand'
  BY <1>2 DEF InHand
<1>6. Unfinished' = Unfinished
  BY <1>1, <1>2, <1>3 DEF Unfinished
<1>7. IsInjective(job_queue')
  BY <1>1, <1>2, <1>3, AppendNew DEF JobInOnePlace
<1>8. JobInOnePlace'
  BY <1>1, <1>2, <1>3, <1>7 DEF JobInOnePlace
<1>9. Ledger'
  BY <1>1, <1>2, <1>3, <1>6 DEF Ledger, Unfinished
<1>10. Stopping'
  BY <1>2 DEF Stopping
<1>11. CountIsExact'
  BY <1>2, <1>6 DEF CountIsExact
<1> QED
  BY <1>4, <1>5, <1>8, <1>9, <1>10, <1>11

\* A worker takes the head of the queue: the job changes hands under the lock.
LEMMA TakeJobKeepsInv ==
  ASSUME PoolInv, NEW w \in Worker, TakeJob(w)
  PROVE  PoolInv'
<1> USE DEF PoolInv
<1> DEFINE j == Head(job_queue)
<1>1. /\ worker[w] = "queue" /\ held' = [held EXCEPT ![w] = {j}]
      /\ job_queue' = Tail(job_queue) /\ worker' = [worker EXCEPT ![w] = "run"]
      /\ UNCHANGED <<jobs_pending, waiting_for_completion, finish, owner, adding, history>>
      /\ job_queue # <<>>
  BY DEF TakeJob
<1>2. /\ job_queue \in Seq(Job) /\ held \in [Worker -> SUBSET Job]
      /\ worker \in [Worker -> WorkerAt] /\ held[w] = {}
  BY <1>1 DEF TypeOK, InHand
<1>3. /\ j \in Job /\ job_queue' \in Seq(Job)
      /\ Range(job_queue) = Range(job_queue') \cup {j}
      /\ j \notin Range(job_queue') /\ IsInjective(job_queue')
  BY <1>1, <1>2, PopElements DEF JobInOnePlace
<1> HIDE DEF j
<1>4. /\ held'[w] = {j} /\ worker'[w] = "run"
      /\ \A x \in Worker \ {w} : held'[x] = held[x] /\ worker'[x] = worker[x]
  BY <1>1, <1>2
<1>5. TypeOK'
  <2>1. held' \in [Worker -> SUBSET Job] /\ worker' \in [Worker -> WorkerAt]
    BY <1>1, <1>2, <1>3 DEF WorkerAt
  <2> QED
    BY <1>1, <1>3, <2>1 DEF TypeOK, history
<1>6. InHand'
  BY <1>1, <1>3, <1>4 DEF InHand, history
<1>7. Unfinished' = Unfinished
  <2>1. UNION {held'[x] : x \in Worker} = (UNION {held[x] : x \in Worker}) \cup {j}
    BY <1>2, <1>4
  <2> QED
    BY <1>1, <1>3, <2>1 DEF Unfinished
<1>8. JobInOnePlace'
  BY <1>1, <1>2, <1>3, <1>4 DEF JobInOnePlace
<1>9. Ledger'
  BY <1>1, <1>3, <1>4, <1>7 DEF Ledger, history
<1>10. Stopping'
  BY <1>1, <1>4 DEF Stopping
<1>11. CountIsExact'
  BY <1>1, <1>7 DEF CountIsExact
<1> QED
  BY <1>5, <1>6, <1>8, <1>9, <1>10, <1>11

\* A job that has been run moves from outstanding to run in the ledger.
LEMMA RunJobKeepsInv ==
  ASSUME PoolInv, NEW w \in Worker, RunJob(w)
  PROVE  PoolInv'
<1> USE DEF PoolInv
<1>1. /\ worker[w] = "run" /\ ran' = ran \cup held[w] /\ worker' = [worker EXCEPT ![w] = "count"]
      /\ UNCHANGED <<shared, held, owner, adding, added>>
  BY DEF RunJob
<1>2. /\ worker \in [Worker -> WorkerAt] /\ held[w] \subseteq added \ ran
      /\ held \in [Worker -> SUBSET Job]
  BY <1>1 DEF TypeOK, Ledger
<1>3. worker'[w] = "count" /\ \A x \in Worker \ {w} : worker'[x] = worker[x]
  BY <1>1, <1>2
<1>4. TypeOK'
  <2>1. worker' \in [Worker -> WorkerAt]
    BY <1>1, <1>2 DEF WorkerAt
  <2>2. ran' \subseteq Job
    BY <1>1, <1>2 DEF TypeOK
  <2> QED
    BY <1>1, <2>1, <2>2 DEF TypeOK, shared
<1>5. InHand'
  BY <1>1, <1>3 DEF InHand
<1>6. Unfinished' = Unfinished
  BY <1>1 DEF Unfinished, Range, shared
<1>7. JobInOnePlace'
  BY <1>1 DEF JobInOnePlace, Range, IsInjective, shared
<1>8. Ledger'
  <2>1. Range(job_queue) \cap held[w] = {}
    BY DEF JobInOnePlace
  <2>2. \A x \in Worker \ {w} : held[x] \cap held[w] = {}
    BY DEF JobInOnePlace
  <2>3. Range(job_queue') = Range(job_queue)
    BY <1>1 DEF shared
  <2> QED
    BY <1>1, <1>2, <1>3, <1>6, <2>1, <2>2, <2>3 DEF Ledger, shared
<1>9. Stopping'
  BY <1>1, <1>3 DEF Stopping, shared
<1>10. CountIsExact'
  BY <1>1, <1>6 DEF CountIsExact, shared
<1> QED
  BY <1>4, <1>5, <1>7, <1>8, <1>9, <1>10

\* The count goes down together with the set of outstanding jobs.
LEMMA CountJobKeepsInv ==
  ASSUME PoolInv, NEW w \in Worker, CountJob(w)
  PROVE  PoolInv'
<1> USE DEF PoolInv
<1>1. /\ worker[w] = "count" /\ jobs_pending' = jobs_pending - 1
      /\ held' = [held EXCEPT ![w] = {}] /\ worker' = [worker EXCEPT ![w] = "queue"]
      /\ UNCHANGED <<job_queue, waiting_for_completion, finish, adding, history>>
  BY DEF CountJob
<1>2. owner' = owner \/ (owner = "asleep" /\ owner' = "woken")
  BY DEF CountJob
<1>3. /\ worker \in [Worker -> WorkerAt] /\ held \in [Worker -> SUBSET Job]
      /\ job_queue \in Seq(Job)
  BY DEF TypeOK
<1>4. PICK j \in Job : held[w] = {j}
  BY <1>1 DEF InHand
<1>5. /\ held'[w] = {} /\ worker'[w] = "queue"
      /\ \A x \in Worker \ {w} : held'[x] = held[x] /\ worker'[x] = worker[x]
  BY <1>1, <1>3
<1>6. j \in Unfinished
  BY <1>4 DEF Unfinished
<1>7. Unfinished' = Unfinished \ {j}
  <2>1. j \notin adding \cup Range(job_queue)
    BY <1>4 DEF JobInOnePlace
  <2>2. UNION {held'[x] : x \in Worker} = (UNION {held[x] : x \in Worker}) \ {j}
    <3>1. \A x \in Worker \ {w} : j \notin held[x]
      BY <1>4 DEF JobInOnePlace
    <3> QED
      BY <1>4, <1>5, <3>1
  <2>3. Range(job_queue') = Range(job_queue) /\ adding' = adding
    BY <1>1
  <2> QED
    BY <2>1, <2>2, <2>3 DEF Unfinished
<1>8. IsFiniteSet(Unfinished) /\ Cardinality(Unfinished) \in Nat /\ Cardinality(Unfinished) # 0
  BY <1>6, UnfinishedFinite, FS_CardinalityType, FS_EmptySet
<1>9. CountIsExact'
  BY <1>1, <1>6, <1>7, <1>8, FS_RemoveElement DEF CountIsExact
<1>10. TypeOK'
  <2>1. held' \in [Worker -> SUBSET Job] /\ worker' \in [Worker -> WorkerAt]
    BY <1>1, <1>3 DEF WorkerAt
  <2>2. jobs_pending' \in Nat
    BY <1>1, <1>8 DEF CountIsExact
  <2>3. owner' \in OwnerAt
    BY <1>2 DEF TypeOK, OwnerAt
  <2> QED
    BY <1>1, <2>1, <2>2, <2>3 DEF TypeOK, history
<1>11. InHand'
  BY <1>1, <1>2, <1>5 DEF InHand, history
<1>12. JobInOnePlace'
  BY <1>1, <1>3, <1>5 DEF JobInOnePlace, Range, IsInjective
<1>13. Ledger'
  <2>1. j \in ran
    BY <1>1, <1>4 DEF Ledger
  <2>2. Range(job_queue') = Range(job_queue)
    BY <1>1
  <2> QED
    BY <1>1, <1>5, <1>7, <2>1, <2>2 DEF Ledger, history
<1>14. Stopping'
  BY <1>1, <1>2, <1>5 DEF Stopping
<1> QED
  BY <1>9, <1>10, <1>11, <1>12, <1>13, <1>14

\* No step of any thread invalidates the invariant.
LEMMA NextInv == PoolInv /\ [Next]_vars => PoolInv'
<1> SUFFICES ASSUME PoolInv, [Next]_vars PROVE PoolInv'
  OBVIOUS
<1>1. ASSUME NEW w \in Worker, WorkerStep(w) \/ WakeWorker(w) PROVE PoolInv'
  BY <1>1, RestKeepsInv, TakeJobKeepsInv, RunJobKeepsInv, CountJobKeepsInv DEF WorkerStep
<1>2. ASSUME NEW j \in Job, AddJob(j) PROVE PoolInv'
  BY <1>2, AddJobKeepsInv
<1>3. CASE PushJob
  BY <1>3, PushJobKeepsInv
<1>4. CASE OwnerMoves
  BY <1>4, OwnerMovesKeepInv
<1>5. CASE UNCHANGED vars
  <2>1. UNCHANGED <<job_queue, jobs_pending, held, adding, history, worker, owner,
                    waiting_for_completion, finish>>
    BY <1>5 DEF vars, shared
  <2>2. TypeOK'
    BY <2>1 DEF PoolInv, TypeOK, history
  <2>3. InHand' /\ Stopping'
    BY <2>1 DEF PoolInv, InHand, Stopping, history
  <2> QED
    BY <2>1, <2>2, <2>3, NoJobMoves
<1> QED
  BY <1>1, <1>2, <1>3, <1>4, <1>5 DEF Next, OwnerStep, OwnerMoves

\* The bookkeeping of the pool is right in every reachable state.
THEOREM PoolInvariant == Spec => []PoolInv
<1>1. Init => PoolInv
  BY InitInv
<1>2. PoolInv /\ [Next]_vars => PoolInv'
  BY NextInv
<1> QED
  BY <1>1, <1>2, PTL DEF Spec

\* The count of pending jobs is exact: WaitForAllJobs may rely on its reaching zero.
THEOREM CountCorrect == Spec => []CountIsExact
<1>1. PoolInv => CountIsExact
  BY DEF PoolInv
<1> QED
  BY <1>1, PoolInvariant, PTL

\* No job is lost between two threads, and none is in the hands of two.
THEOREM NoJobTwice == Spec => []JobInOnePlace
<1>1. PoolInv => JobInOnePlace
  BY DEF PoolInv
<1> QED
  BY <1>1, PoolInvariant, PTL

(* The variables of the pool's threads have their types; the counter, that  *)
(* a worker decrements without looking at it, stays at zero or above.       *)
THEOREM PoolTypes == Spec => []TypeOK
<1>1. PoolInv => TypeOK
  BY DEF PoolInv
<1> QED
  BY <1>1, PoolInvariant, PTL

(* No wake-up is lost between AddJob and WorkerFunction: as long as a job   *)
(* waits some worker is awake, or AddJob is about to notify one.            *)
THEOREM WakeupsArrive == Spec => []NoLostWakeup
<1> DEFINE WakeInv == PoolInv /\ NoLostWakeup
<1>1. Init => WakeInv
  <2>1. Init => NoLostWakeup
    BY DEF Init, NoLostWakeup
  <2> QED
    BY <2>1, InitInv
<1>2. WakeInv /\ [Next]_vars => WakeInv'
  <2> SUFFICES ASSUME PoolInv, NoLostWakeup, [Next]_vars PROVE NoLostWakeup'
    BY NextInv
  <2>1. worker \in [Worker -> WorkerAt]
    BY DEF PoolInv, TypeOK
  \* An awake worker stays awake, or there is nothing to take.
  <2>2. ASSUME job_queue' # <<>> => job_queue # <<>> /\ owner # "notify",
               \A w \in Worker : worker[w] # "asleep" => worker'[w] # "asleep" \/ job_queue' = <<>>
        PROVE  NoLostWakeup'
    BY <2>2 DEF NoLostWakeup
  <2>3. ASSUME NEW w \in Worker, WorkerStep(w) \/ WakeWorker(w) PROVE NoLostWakeup'
    <3>1. CASE TakeJob(w) \/ RunJob(w) \/ CountJob(w) \/ WakeWorker(w)
      <4>1. worker'[w] # "asleep"
        BY <2>1, <3>1 DEF TakeJob, RunJob, CountJob, WakeWorker
      <4> QED
        BY <4>1 DEF NoLostWakeup
    <3>2. CASE StopWorker(w) \/ SleepWorker(w)
      <4>1. job_queue' = <<>>
        BY <3>2 DEF StopWorker, SleepWorker, shared
      <4> QED
        BY <4>1 DEF NoLostWakeup
    <3> QED
      BY <2>3, <3>1, <3>2 DEF WorkerStep
  <2>4. CASE PushJob
    <3>1. owner' = "notify"
      BY <2>4 DEF PushJob
    <3> QED
      BY <3>1 DEF NoLostWakeup
  <2>5. CASE NotifyOne
    <3> SUFFICES ASSUME Worker # {} PROVE \E w \in Worker : worker'[w] # "asleep"
      BY DEF NoLostWakeup
    <3>1. CASE \E w \in Worker : worker[w] = "asleep" /\ worker' = [worker EXCEPT ![w] = "queue"]
      BY <2>1, <3>1
    <3>2. CASE (\A w \in Worker : worker[w] # "asleep") /\ UNCHANGED worker
      BY <3>2
    <3> QED
      BY <2>5, <3>1, <3>2 DEF NotifyOne
  <2>6. CASE NotifyAll
    <3>1. \A w \in Worker : worker'[w] # "asleep"
      BY <2>1, <2>6 DEF NotifyAll
    <3> QED
      BY <3>1 DEF NoLostWakeup
  <2>7. CASE \/ \E j \in Job : AddJob(j)
             \/ WaitForAllJobs \/ Finish \/ WakeOwner
             \/ NoJobs \/ WaitForCount \/ CheckCount \/ Join
    <3>1. UNCHANGED <<job_queue, worker>> /\ owner # "notify"
      BY <2>7 DEF AddJob, WaitForAllJobs, Finish, WakeOwner, NoJobs, WaitForCount,
         CheckCount, Join, shared
    <3> QED
      BY <2>2, <3>1
  <2>8. CASE UNCHANGED vars
    BY <2>8 DEF vars, shared, NoLostWakeup
  <2> QED
    BY <2>3, <2>4, <2>5, <2>6, <2>7, <2>8 DEF Next, OwnerStep, Stopped
<1>3. WakeInv => NoLostWakeup
  OBVIOUS
<1> QED
  BY <1>1, <1>2, <1>3, PTL DEF Spec

-----------------------------------------------------------------------------
(* The pool implements JobPool.                                            *)

\* With a count of zero everything that was queued has been run.
LEMMA ZeroMeansDone ==
  ASSUME PoolInv, jobs_pending = 0
  PROVE  ran = added
<1>1. Unfinished = {}
  BY UnfinishedFinite, FS_EmptySet DEF PoolInv, CountIsExact
<1> QED
  BY <1>1 DEF PoolInv, Ledger

\* Once every worker has stopped, and there was one, everything that was queued has been run.
LEMMA AllStoppedMeansDone ==
  ASSUME PoolInv, Worker # {}, owner = "join", \A w \in Worker : worker[w] = "stopped"
  PROVE  ran = added
<1>1. adding = {} /\ \A w \in Worker : held[w] = {}
  BY DEF PoolInv, InHand
<1>2. job_queue = <<>>
  BY DEF PoolInv, Stopping
<1>3. Range(job_queue) = {}
  BY <1>2, EmptyQueue DEF PoolInv, TypeOK
<1>4. Unfinished = {}
  BY <1>1, <1>3 DEF Unfinished
<1> QED
  BY <1>4 DEF PoolInv, Ledger

\* What a step of the threads is to the solver: a step of the abstract pool, or none.
LEMMA StepRefines ==
  ASSUME PoolInv, Worker # {}, [Next]_vars
  PROVE  [JP!Next]_JP!vars
<1> USE DEF Caller, JP!vars
<1>1. ASSUME NEW w \in Worker, RunJob(w)
      PROVE  JP!Next
  <2>1. PICK j \in Job : held[w] = {j}
    BY <1>1 DEF RunJob, PoolInv, InHand
  <2>2. j \in added \ ran
    BY <1>1, <2>1 DEF RunJob, PoolInv, Ledger
  <2>3. JP!Complete(j)
    BY <1>1, <2>1, <2>2 DEF RunJob, JP!Complete
  <2> QED
    BY <2>3 DEF JP!Next
<1>2. ASSUME NEW w \in Worker,
             TakeJob(w) \/ StopWorker(w) \/ SleepWorker(w) \/ WakeWorker(w)
      PROVE  UNCHANGED JP!vars
  BY <1>2 DEF TakeJob, StopWorker, SleepWorker, WakeWorker, history
<1>3. ASSUME NEW w \in Worker, CountJob(w)
      PROVE  UNCHANGED JP!vars
  BY <1>3 DEF CountJob, history
<1>4. ASSUME NEW j \in Job, AddJob(j)
      PROVE  UNCHANGED JP!vars
  BY <1>4 DEF AddJob, history
<1>5. CASE PushJob
  <2>1. PICK j \in Job \ added : adding = {j}
    BY <1>5 DEF PushJob, PoolInv, InHand
  <2>2. JP!Submit(j)
    BY <1>5, <2>1 DEF PushJob, JP!Submit
  <2> QED
    BY <2>2 DEF JP!Next
<1>6. CASE NotifyOne \/ WaitForCount \/ WakeOwner \/ NotifyAll
  BY <1>6 DEF NotifyOne, WaitForCount, WakeOwner, NotifyAll, history
<1>7. CASE WaitForAllJobs
  <2>1. JP!Call("waiting")
    BY <1>7 DEF WaitForAllJobs, JP!Call, history
  <2> QED
    BY <2>1 DEF JP!Next
<1>8. CASE Finish
  <2>1. JP!Call("finishing")
    BY <1>8 DEF Finish, JP!Call, history
  <2> QED
    BY <2>1 DEF JP!Next
<1>9. CASE NoJobs
  <2>1. JP!Return("waiting", "working")
    BY <1>9, ZeroMeansDone DEF NoJobs, JP!Return, history
  <2> QED
    BY <2>1 DEF JP!Next
<1>10. CASE CheckCount
  <2>1. CASE jobs_pending = 0
    <3>1. JP!Return("waiting", "working")
      BY <1>10, <2>1, ZeroMeansDone DEF CheckCount, JP!Return, history
    <3> QED
      BY <3>1 DEF JP!Next
  <2>2. CASE jobs_pending # 0
    BY <1>10, <2>2 DEF CheckCount, history
  <2> QED
    BY <2>1, <2>2
<1>11. CASE Join
  <2>1. JP!Return("finishing", "stopped")
    BY <1>11, AllStoppedMeansDone DEF Join, JP!Return, history
  <2> QED
    BY <2>1 DEF JP!Next
<1>12. CASE UNCHANGED vars
  BY <1>12 DEF vars, history
<1> QED
  BY <1>1, <1>2, <1>3, <1>4, <1>5, <1>6, <1>7, <1>8, <1>9, <1>10, <1>11, <1>12
     DEF Next, WorkerStep, OwnerStep, Stopped

\* WaitForAllJobs and Finish return only when every job that was queued has been
\* run, and no job is run twice: the threads, locks and condition variables keep
\* the promise of the pool's README, provided the pool has a worker at all.
THEOREM PoolImplemented ==
  ASSUME Worker # {}
  PROVE  Spec => PoolSpec
<1>1. Init => JP!Init
  BY DEF Init, JP!Init, Caller
<1>2. PoolInv /\ [Next]_vars => [JP!Next]_JP!vars
  BY StepRefines
<1> QED
  BY <1>1, <1>2, PoolInvariant, PTL DEF Spec, PoolSpec, JP!Spec

=============================================================================
