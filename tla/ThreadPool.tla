-------------------------------- MODULE ThreadPool --------------------------------
(***************************************************************************)
(* detail::ThreadPool of include/server/httplib.h: workers around a list   *)
(* of jobs, a mutex and a condition variable.  What is done under the      *)
(* mutex is one step; the notifications come after it is released.  The    *)
(* thread that enqueues and shuts down is the one of HttpListener, which   *)
(* runs the jobs' contents too.                                            *)
(***************************************************************************)
EXTENDS Integers, Sequences, SequencesExt

CONSTANTS
  Workers,
  Jobs,
  max_queued_requests_   \* 0: no bound

ASSUME ThreadPoolAssumption == max_queued_requests_ \in Nat

VARIABLES
  jobs_,
  shutdown_,
  worker,     \* "test" the predicate, "waiting" in cond_, "running" fn, "done"
  fn          \* per worker, {} or the job it runs

poolVars == <<jobs_, shutdown_, worker, fn>>

PoolInit ==
  /\ jobs_ = <<>> /\ shutdown_ = FALSE
  /\ worker = [w \in Workers |-> "test"]
  /\ fn = [w \in Workers |-> {}]

\* enqueue: the bound is tested under the mutex.
QueueFull == max_queued_requests_ > 0 /\ Len(jobs_) >= max_queued_requests_

Push(job) ==
  /\ ~QueueFull
  /\ jobs_' = Append(jobs_, job)
  /\ UNCHANGED <<shutdown_, worker, fn>>

NotifyNobody == UNCHANGED poolVars   \* mutant: no notification

\* cond_.notify_one(): one of those waiting, if any
NotifyOne ==
  LET waiting == {w \in Workers : worker[w] = "waiting"} IN
  /\ IF waiting = {} THEN UNCHANGED worker
     ELSE \E w \in waiting : worker' = [worker EXCEPT ![w] = "test"]
  /\ UNCHANGED <<jobs_, shutdown_, fn>>

BeginShutdown == shutdown_' = TRUE /\ UNCHANGED <<jobs_, worker, fn>>

NotifyAll ==
  /\ worker' = [w \in Workers |-> IF worker[w] = "waiting" THEN "test" ELSE worker[w]]
  /\ UNCHANGED <<jobs_, shutdown_, fn>>

\* Every thread can be joined.
Joined == \A w \in Workers : worker[w] = "done"

PeekJob(w) ==   \* mutant: no pop_front
  /\ worker[w] = "test"
  /\ IF jobs_ # <<>>
     THEN /\ fn' = [fn EXCEPT ![w] = {Head(jobs_)}]
          /\ worker' = [worker EXCEPT ![w] = "running"]
     ELSE /\ worker' = [worker EXCEPT ![w] = IF shutdown_ THEN "done" ELSE "waiting"]
          /\ UNCHANGED fn
  /\ UNCHANGED <<jobs_, shutdown_>>

LeaveAtShutdown(w) ==   \* mutant: jobs still queued are dropped
  /\ worker[w] = "test"
  /\ IF shutdown_
     THEN worker' = [worker EXCEPT ![w] = "done"] /\ UNCHANGED <<jobs_, fn>>
     ELSE IF jobs_ # <<>>
          THEN /\ fn' = [fn EXCEPT ![w] = {Head(jobs_)}] /\ jobs_' = Tail(jobs_)
               /\ worker' = [worker EXCEPT ![w] = "running"]
          ELSE worker' = [worker EXCEPT ![w] = "waiting"] /\ UNCHANGED <<jobs_, fn>>
  /\ UNCHANGED shutdown_

\* The worker's loop: it waits while there is no job and no shutdown; it ends when
\* there is no job left after the shutdown.
Take(w) ==
  /\ worker[w] = "test"
  /\ IF jobs_ # <<>>
     THEN /\ fn' = [fn EXCEPT ![w] = {Head(jobs_)}] /\ jobs_' = Tail(jobs_)
          /\ worker' = [worker EXCEPT ![w] = "running"]
     ELSE /\ worker' = [worker EXCEPT ![w] = IF shutdown_ THEN "done" ELSE "waiting"]
          /\ UNCHANGED <<jobs_, fn>>
  /\ UNCHANGED shutdown_

Finish(w) ==
  /\ worker[w] = "running"
  /\ worker' = [worker EXCEPT ![w] = "test"] /\ fn' = [fn EXCEPT ![w] = {}]
  /\ UNCHANGED <<jobs_, shutdown_>>

=============================================================================
