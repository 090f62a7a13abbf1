------------------------------ MODULE JobPool ------------------------------
(***************************************************************************)
(* What the solver needs of its thread pool, as void_thread_pool/README.md *)
(* words it: WaitForAllJobs "will return when the job queue is empty and   *)
(* all running jobs are completed", Finish "will stop the worker threads   *)
(* once all currently queued jobs are completed".  How threads, locks and  *)
(* condition variables achieve it is left to ThreadPool.                   *)
(***************************************************************************)
CONSTANT Job

VARIABLES
  caller,      \* what the thread that owns the pool is doing
  submitted,   \* the jobs handed to AddJob
  completed    \* the jobs that have been run

vars == <<caller, submitted, completed>>

Init == caller = "working" /\ submitted = {} /\ completed = {}

Submit(j) ==
  /\ caller = "working" /\ j \notin submitted
  /\ submitted' = submitted \cup {j}
  /\ UNCHANGED <<caller, completed>>

\* A job is run once, by whichever thread comes to it.
Complete(j) ==
  /\ j \in submitted \ completed
  /\ completed' = completed \cup {j}
  /\ UNCHANGED <<caller, submitted>>

Call(operation) ==
  /\ caller = "working"
  /\ caller' = operation
  /\ UNCHANGED <<submitted, completed>>

Return(operation, next) ==
  /\ caller = operation /\ completed = submitted
  /\ caller' = next
  /\ UNCHANGED <<submitted, completed>>

Next ==
  \/ \E j \in Job : Submit(j) \/ Complete(j)
  \/ Call("waiting") \/ Return("waiting", "working")
  \/ Call("finishing") \/ Return("finishing", "stopped")

Spec == Init /\ [][Next]_vars

FairSpec ==
  /\ Spec
  /\ \A j \in Job : WF_vars(Complete(j))
  /\ WF_vars(Return("waiting", "working"))
  /\ WF_vars(Return("finishing", "stopped"))

=============================================================================
