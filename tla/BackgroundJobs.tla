--------------------------- MODULE BackgroundJobs ---------------------------
(***************************************************************************)
(* The background threads (bio.c): one thread, mutex, condition variable   *)
(* and queue for every type of job.  The main thread queues jobs and asks  *)
(* how many are pending; a thread works on the first job without the       *)
(* mutex, while the job stays in the queue.                                *)
(***************************************************************************)
EXTENDS Integers, Sequences

CONSTANTS
  Type,      \* REDIS_BIO_CLOSE_FILE, REDIS_BIO_AOF_FSYNC
  MaxJobs    \* jobs created of every type

BackgroundJobsAssumption == MaxJobs \in Nat

VARIABLES
  mutex,     \* free, main or bio
  jobs,      \* bio_jobs: numbers of the jobs
  pending,   \* bio_pending
  bio,       \* where the thread is: lock, check, wait, woken, work, relock
  main,      \* the call the main thread is in: idle, or the type and the step of bioCreateBackgroundJob
  created,   \* how many jobs were created
  done,      \* the jobs carried out, in order
  seen       \* the last answer of bioPendingJobsOfType: none, or what was created and done then

vars == <<mutex, jobs, pending, bio, main, created, done, seen>>

Idle == [step |-> "idle", type |-> "none"]
NotAsked == [val |-> -1, undone |-> 0]

(* bioInit *)
Init ==
  /\ mutex = [t \in Type |-> "free"] /\ jobs = [t \in Type |-> <<>>] /\ pending = [t \in Type |-> 0]
  /\ bio = [t \in Type |-> "lock"] /\ main = Idle
  /\ created = [t \in Type |-> 0] /\ done = [t \in Type |-> <<>>] /\ seen = [t \in Type |-> NotAsked]

-----------------------------------------------------------------------------
(* bioCreateBackgroundJob: lock, append and count, signal, unlock *)
CreateLock(t) ==
  /\ main = Idle /\ created[t] < MaxJobs /\ mutex[t] = "free"
  /\ mutex' = [mutex EXCEPT ![t] = "main"]
  /\ main' = [step |-> "append", type |-> t]
  /\ UNCHANGED <<jobs, pending, bio, created, done, seen>>

CreateAppend(t) ==
  /\ main = [step |-> "append", type |-> t]
  /\ jobs' = [jobs EXCEPT ![t] = Append(@, created[t] + 1)]
  /\ created' = [created EXCEPT ![t] = @ + 1]
  /\ pending' = [pending EXCEPT ![t] = @ + 1]
  /\ main' = [step |-> "signal", type |-> t]
  /\ UNCHANGED <<mutex, bio, done, seen>>

\* Faulty variant: the thread is woken only by the first job.
SignalFirst(t) == IF bio[t] = "wait" /\ created[t] = 1 THEN [bio EXCEPT ![t] = "woken"] ELSE bio

\* A signal wakes a thread that waits; it has no effect otherwise.
Signal(t) == IF bio[t] = "wait" THEN [bio EXCEPT ![t] = "woken"] ELSE bio

CreateSignal(t) ==
  /\ main = [step |-> "signal", type |-> t]
  /\ bio' = Signal(t)
  /\ mutex' = [mutex EXCEPT ![t] = "free"] /\ main' = Idle
  /\ UNCHANGED <<jobs, pending, created, done, seen>>

(* bioPendingJobsOfType *)
Pending(t) ==
  /\ main = Idle /\ mutex[t] = "free"
  /\ seen' = [seen EXCEPT ![t] = [val |-> pending[t], undone |-> created[t] - Len(done[t])]]
  /\ UNCHANGED <<mutex, jobs, pending, bio, main, created, done>>

(* bioProcessBackgroundJobs: at the start, after a wait and after a job *)
Lock(t) ==
  /\ bio[t] \in {"lock", "woken"} /\ mutex[t] = "free"
  /\ mutex' = [mutex EXCEPT ![t] = "bio"]
  /\ bio' = [bio EXCEPT ![t] = "check"]
  /\ UNCHANGED <<jobs, pending, main, created, done, seen>>

\* pthread_cond_wait gives the mutex back and waits in one step
Wait(t) ==
  /\ jobs[t] = <<>>
  /\ mutex' = [mutex EXCEPT ![t] = "free"]
  /\ bio' = [bio EXCEPT ![t] = "wait"]

\* The first job; it stays in the queue, and the mutex is free while it is worked on.
Take(t) ==
  /\ jobs[t] # <<>>
  /\ mutex' = [mutex EXCEPT ![t] = "free"] /\ pending' = pending
  /\ bio' = [bio EXCEPT ![t] = "work"]

Check(t) ==
  /\ bio[t] = "check"
  /\ \/ Wait(t) /\ UNCHANGED pending
     \/ Take(t)
  /\ UNCHANGED <<jobs, main, created, done, seen>>

SpuriousWakeup(t) ==
  /\ bio[t] = "wait"
  /\ bio' = [bio EXCEPT ![t] = "woken"]
  /\ UNCHANGED <<mutex, jobs, pending, main, created, done, seen>>

NextJob(t) == Head(jobs[t])

Work(t) ==
  /\ bio[t] = "work"
  /\ done' = [done EXCEPT ![t] = Append(@, NextJob(t))]
  /\ bio' = [bio EXCEPT ![t] = "relock"]
  /\ UNCHANGED <<mutex, jobs, pending, main, created, seen>>

(* Lock again, listDelNode of that job, count *)
Finish(t) ==
  /\ bio[t] = "relock" /\ mutex[t] = "free"
  /\ mutex' = [mutex EXCEPT ![t] = "bio"]
  /\ jobs' = [jobs EXCEPT ![t] = Tail(@)] /\ pending' = [pending EXCEPT ![t] = @ - 1]
  /\ bio' = [bio EXCEPT ![t] = "check"]
  /\ UNCHANGED <<main, created, done, seen>>

Thread(t) == Lock(t) \/ Check(t) \/ Work(t) \/ Finish(t)
Main(t) == CreateAppend(t) \/ CreateSignal(t)

Next == \E t \in Type : CreateLock(t) \/ Main(t) \/ Pending(t) \/ Thread(t) \/ SpuriousWakeup(t)

(* The threads are scheduled; a thread that asks for its mutex gets it if  *)
(* the main thread does not take it again and again.                       *)
TakesMutex(t) == Lock(t) \/ Finish(t)

Spec ==
  /\ Init /\ [][Next]_vars
  /\ \A t \in Type : WF_vars(Main(t)) /\ WF_vars(Check(t)) /\ WF_vars(Work(t)) /\ WF_vars(TakesMutex(t))

-----------------------------------------------------------------------------
(* When the main thread is told that nothing is pending, all it asked for  *)
(* is done; the AOF goes by that before it writes (bio.c:193, aof.c:297).  *)
NothingPendingIsDone == \A t \in Type : seen[t].val = 0 => seen[t].undone = 0

(* "Jobs of the same type are guaranteed to be processed from the least    *)
(* recently inserted to the most recently inserted" (bio.c:24), and none   *)
(* twice.                                                                  *)
InOrder == \A t \in Type : \A i \in DOMAIN done[t] : done[t][i] = i

(* The queue and the count change only with the mutex: pending counts the  *)
(* queue when nobody holds it (bio.c:69).                                  *)
CountsQueue == \A t \in Type : mutex[t] = "free" => pending[t] = Len(jobs[t])

(* No signal is lost: once the jobs are created they are all carried out   *)
(* in the end (bio.c:164, the thread looks at the queue before it waits    *)
(* and after it).                                                          *)
AllDone == \A t \in Type : Len(done[t]) = MaxJobs
AllCreated == \A t \in Type : created[t] = MaxJobs

(* A thread that waits while there is work is about to be woken: the job   *)
(* was just appended, by the main thread, which holds the mutex until it   *)
(* has signalled (bio.c:133-137, 163-166).                                 *)
NoLostSignal ==
  \A t \in Type : bio[t] = "wait" /\ jobs[t] # <<>> => main = [step |-> "signal", type |-> t]

-----------------------------------------------------------------------------
(* What makes them hold.  A mutex is held where the code between lock and  *)
(* unlock is; a queue is the jobs from the first one not yet removed to    *)
(* the last one created, and the thread has done those before it, and the  *)
(* first one of the queue when it is about to remove it.                   *)
TypeOK ==
  /\ mutex \in [Type -> {"free", "main", "bio"}]
  /\ jobs \in [Type -> Seq(Nat)] /\ pending \in [Type -> Nat]
  /\ bio \in [Type -> {"lock", "check", "wait", "woken", "work", "relock"}]
  /\ main \in {Idle} \cup [step : {"append", "signal"}, type : Type]
  /\ created \in [Type -> Nat] /\ done \in [Type -> Seq(Nat)]
  /\ seen \in [Type -> [val : Int, undone : Int]]

Holders(t) ==
  /\ mutex[t] = "main" <=> main # Idle /\ main.type = t
  /\ mutex[t] = "bio" <=> bio[t] = "check"

Removed(t) == created[t] - Len(jobs[t])

Queue(t) ==
  /\ pending[t] = Len(jobs[t]) /\ Removed(t) >= 0
  /\ \A i \in 1..Len(jobs[t]) : jobs[t][i] = Removed(t) + i
  /\ bio[t] \in {"work", "relock"} => Len(jobs[t]) > 0

Carried(t) ==
  /\ Len(done[t]) = Removed(t) + (IF bio[t] = "relock" THEN 1 ELSE 0)
  /\ \A i \in 1..Len(done[t]) : done[t][i] = i

JobsInvariant ==
  /\ TypeOK
  /\ \A t \in Type : Holders(t) /\ Queue(t) /\ Carried(t)
  /\ NoLostSignal
  /\ NothingPendingIsDone
=============================================================================
