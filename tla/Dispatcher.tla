------------------------------ MODULE Dispatcher ------------------------------
(***************************************************************************)
(* mustache::Dispatcher (utils/dispatch.cpp): worker threads that take jobs *)
(* from one parallel queue and from serial queues, and callers that add     *)
(* jobs, help with them while they wait, and destroy the dispatcher.        *)
(*                                                                          *)
(* The code under the mutex is one step, except that a worker holds it from *)
(* its last test of `terminate` until it sleeps ("dozing"): the destructor  *)
(* sets that flag without the mutex. threads_waiting, terminate and the     *)
(* state of a queue are read without the mutex where the code does.         *)
(*                                                                          *)
(* A job may add jobs; it does not wait or destroy. Queues exist from the   *)
(* start. Single-thread mode, where addJob only calls the job, is left out. *)
(***************************************************************************)
EXTENDS Integers, Sequences, FiniteSets

CONSTANTS
    Workers,        \* the threads initThreads creates, thread_count of them
    Callers,        \* threads that are not the dispatcher's
    Parallel,       \* parallel_jobs
    Serial,         \* the queues made by createQueue
    Priority,       \* the place of each serial queue in by_priority
    SerialWaits,    \* the serial queues some caller waits for
    Jobs, QueueOf,  \* the jobs that may be added, and the queue of each
    NoJob

Queues == Serial \cup {Parallel}
Threads == Workers \cup Callers

ASSUME DispatcherAssumption ==
    /\ IsFiniteSet(Workers) /\ Workers \cap Callers = {}
    /\ Parallel \notin Serial /\ SerialWaits \subseteq Serial
    /\ Priority \in [Serial -> Int]
    /\ \A q, r \in Serial : Priority[q] = Priority[r] => q = r
    /\ QueueOf \in [Jobs -> Queues] /\ NoJob \notin Jobs

VARIABLES
    jobs,            \* jobs[q]: the jobs of a queue, first to run first
    locked,          \* the serial queues in state kLocked
    threadsWaiting,  \* threads_waiting
    started,         \* threads
    terminate,
    pc,              \* where each thread is
    cur,             \* the job a thread runs
    sub,             \* the job a thread is adding and the steps left
    target,          \* the queue a caller waits for (else Parallel)
    count,           \* num_threads in a caller's wait (else 0)
    status,          \* history: what became of each job
    accepted         \* history: accepted[q], the jobs pushed so far

vars == <<jobs, locked, threadsWaiting, started, terminate, pc, cur, sub,
          target, count, status, accepted>>

NotAdding == [job |-> NoJob, todo |-> <<>>]

Init ==
    /\ jobs = [q \in Queues |-> <<>>]
    /\ locked = {}
    /\ threadsWaiting = 0
    /\ started = {}
    /\ terminate = FALSE
    /\ pc = [t \in Threads |-> IF t \in Workers THEN "off" ELSE "idle"]
    /\ cur = [t \in Threads |-> NoJob]
    /\ sub = [t \in Threads |-> NotAdding]
    /\ target = [c \in Callers |-> Parallel]
    /\ count = [c \in Callers |-> 0]
    /\ status = [j \in Jobs |-> "new"]
    /\ accepted = [q \in Queues |-> <<>>]

-------------------------------------------------------------------------------

MutexFree == \A w \in Workers : pc[w] # "dozing"

\* onTaskBegin and onTaskEnd: only serial queues have a lock.
LockedBy(q) == locked \cup ({q} \cap Serial)

\* Mistaken variant: the queue stays locked after its job.
UnlockedByNone(q) == locked

UnlockedBy(q) == locked \ {q}

\* Mistaken variant: a queue whose job still runs gives out the next one.
ReadyLocked(q) == jobs[q] # <<>>

\* isOk
Ready(q) == q \notin locked /\ jobs[q] # <<>>

\* q is what findQueue returns.
Found(q) ==
    /\ Ready(q)
    /\ q # Parallel => /\ ~Ready(Parallel)
                       /\ \A r \in Serial : Ready(r) => Priority[q] <= Priority[r]

NothingFound == \A q \in Queues : ~Ready(q)

\* front, pop and onTaskBegin; the thread then runs the job without the mutex.
TakeFrom(t, q) ==
    /\ cur' = [cur EXCEPT ![t] = Head(jobs[q])]
    /\ status' = [status EXCEPT ![Head(jobs[q])] = "running"]
    /\ jobs' = [jobs EXCEPT ![q] = Tail(@)]
    /\ locked' = LockedBy(q)
    /\ pc' = [pc EXCEPT ![t] = "run"]
    /\ UNCHANGED <<started, terminate, sub, target, count, accepted>>

\* The job returns.
EndRun(t) ==
    /\ pc[t] = "run" /\ sub[t] = NotAdding
    /\ status' = [status EXCEPT ![cur[t]] = "done"]
    /\ pc' = [pc EXCEPT ![t] = "ended"]
    /\ UNCHANGED <<jobs, locked, threadsWaiting, started, terminate, cur, sub,
                   target, count, accepted>>

\* onTaskEnd, under the mutex, and back to the head of the loop.
TaskEnd(t) ==
    /\ pc[t] = "ended" /\ MutexFree
    /\ locked' = UnlockedBy(QueueOf[cur[t]])
    /\ cur' = [cur EXCEPT ![t] = NoJob]
    /\ pc' = [pc EXCEPT ![t] = IF t \in Workers THEN "top" ELSE "loop"]
    /\ UNCHANGED <<jobs, threadsWaiting, started, terminate, sub, target, count,
                   status, accepted>>

-------------------------------------------------------------------------------
(* Workers: threadTask. At "top" a worker is about to test terminate and to  *)
(* lock; "waiting" is in the condition variable, "notified" on its way out.  *)

\* Mistaken variant: a worker that wakes up stays counted as waiting.
AwakeCountKept(w) == threadsWaiting

\* A worker that wakes up takes itself off threads_waiting.
AwakeCount(w) == IF pc[w] = "notified" THEN threadsWaiting - 1 ELSE threadsWaiting

WorkerTake(w) ==
    /\ pc[w] \in {"top", "notified"} /\ MutexFree /\ ~terminate
    /\ \E q \in Queues : Found(q) /\ TakeFrom(w, q)
    /\ threadsWaiting' = AwakeCount(w)

WorkerDoze(w) ==
    /\ pc[w] \in {"top", "notified"} /\ MutexFree /\ ~terminate /\ NothingFound
    /\ pc' = [pc EXCEPT ![w] = "dozing"]
    /\ threadsWaiting' = AwakeCount(w) + 1
    /\ UNCHANGED <<jobs, locked, started, terminate, cur, sub, target, count,
                   status, accepted>>

WorkerSleep(w) ==
    /\ pc[w] = "dozing"
    /\ pc' = [pc EXCEPT ![w] = "waiting"]
    /\ UNCHANGED <<jobs, locked, threadsWaiting, started, terminate, cur, sub,
                   target, count, status, accepted>>

\* At the head of the loop terminate is tested without the mutex.
WorkerStop(w) ==
    /\ terminate
    /\ \/ pc[w] = "top"
       \/ pc[w] = "notified" /\ MutexFree
    /\ pc' = [pc EXCEPT ![w] = "exited"]
    /\ threadsWaiting' = AwakeCount(w)
    /\ UNCHANGED <<jobs, locked, started, terminate, cur, sub, target, count,
                   status, accepted>>

\* A condition variable may wake a thread for no reason.
SpuriousWake(w) ==
    /\ pc[w] = "waiting"
    /\ pc' = [pc EXCEPT ![w] = "notified"]
    /\ UNCHANGED <<jobs, locked, threadsWaiting, started, terminate, cur, sub,
                   target, count, status, accepted>>

-------------------------------------------------------------------------------
(* Adding a job, from a caller or from a running job.                         *)

CanCall(t) ==
    /\ sub[t] = NotAdding
    /\ \/ pc[t] = "run"
       \/ pc[t] = "idle" /\ ~terminate

\* Mistaken variant: a worker is notified before there is a job for it.
StepsNotifyFirst(q) == <<"start", "notify", "push">>

\* The order of the steps in addJob and in async.
Steps(q) == IF q = Parallel THEN <<"start", "push", "notify">>
                            ELSE <<"push", "start", "notify">>

Add(t, j) ==
    /\ CanCall(t) /\ status[j] = "new"
    /\ sub' = [sub EXCEPT ![t] = [job |-> j, todo |-> Steps(QueueOf[j])]]
    /\ status' = [status EXCEPT ![j] = "claimed"]
    /\ UNCHANGED <<jobs, locked, threadsWaiting, started, terminate, pc, cur,
                   target, count, accepted>>

Todo(t, step) == sub[t].todo # <<>> /\ Head(sub[t].todo) = step

StepDone(t) ==
    sub' = [sub EXCEPT ![t] = IF Len(sub[t].todo) = 1
                              THEN NotAdding
                              ELSE [job |-> sub[t].job, todo |-> Tail(sub[t].todo)]]

\* One turn of the loop of initThreads, or its return when all run.
StartThreads(t) ==
    /\ Todo(t, "start")
    /\ \/ /\ started = Workers
          /\ StepDone(t)
          /\ UNCHANGED <<started, pc>>
       \/ \E w \in Workers \ started :
             /\ started' = started \cup {w}
             /\ pc' = [pc EXCEPT ![w] = "top"]
             /\ UNCHANGED sub
    /\ UNCHANGED <<jobs, locked, threadsWaiting, terminate, cur, target, count,
                   status, accepted>>

Push(t) ==
    LET j == sub[t].job
        q == QueueOf[j]
    IN /\ Todo(t, "push") /\ MutexFree
       /\ jobs' = [jobs EXCEPT ![q] = Append(@, j)]
       /\ accepted' = [accepted EXCEPT ![q] = Append(@, j)]
       /\ status' = [status EXCEPT ![j] = "queued"]
       /\ StepDone(t)
       /\ UNCHANGED <<locked, threadsWaiting, started, terminate, pc, cur,
                      target, count>>

Waiting == {w \in Workers : pc[w] = "waiting"}

\* notify_one needs no mutex.
Notify(t) ==
    /\ Todo(t, "notify")
    /\ \/ Waiting = {} /\ UNCHANGED pc
       \/ \E w \in Waiting : pc' = [pc EXCEPT ![w] = "notified"]
    /\ StepDone(t)
    /\ UNCHANGED <<jobs, locked, threadsWaiting, started, terminate, cur,
                   target, count, status, accepted>>

-------------------------------------------------------------------------------
(* Waiting for a queue: waitForParallelFinish and waitQueue.                  *)

Wait(c, q) ==
    /\ pc[c] = "idle" /\ CanCall(c)
    /\ target' = [target EXCEPT ![c] = q]
    /\ pc' = [pc EXCEPT ![c] = "loop"]
    /\ UNCHANGED <<jobs, locked, threadsWaiting, started, terminate, cur, sub,
                   count, status, accepted>>

\* The caller takes a job itself; whether the queue is locked is not tested.
WaitTake(c) ==
    /\ pc[c] = "loop" /\ MutexFree /\ ~terminate
    /\ jobs[target[c]] # <<>>
    /\ TakeFrom(c, target[c])
    /\ UNCHANGED threadsWaiting

WaitEmpty(c) ==
    /\ pc[c] = "loop"
    /\ ~terminate => MutexFree /\ jobs[target[c]] = <<>>
    /\ pc' = [pc EXCEPT ![c] = IF target[c] = Parallel THEN "size" ELSE "spin"]
    /\ UNCHANGED <<jobs, locked, threadsWaiting, started, terminate, cur, sub,
                   target, count, status, accepted>>

\* num_threads = threads.size(), read once.
WaitSize(c) ==
    /\ pc[c] = "size"
    /\ count' = [count EXCEPT ![c] = Cardinality(started)]
    /\ pc' = [pc EXCEPT ![c] = "spin"]
    /\ UNCHANGED <<jobs, locked, threadsWaiting, started, terminate, cur, sub,
                   target, status, accepted>>

\* Mistaken variant: nothing left to take is taken for nothing left to run.
SpinOverEmpty(c) == jobs[target[c]] = <<>>

\* The condition of the two spinning loops, read without the mutex.
SpinOver(c) == IF target[c] = Parallel THEN threadsWaiting = count[c]
                                       ELSE target[c] \notin locked

WaitReturn(c) ==
    /\ pc[c] = "spin" /\ SpinOver(c)
    /\ pc' = [pc EXCEPT ![c] = "idle"]
    /\ target' = [target EXCEPT ![c] = Parallel]
    /\ count' = [count EXCEPT ![c] = 0]
    /\ UNCHANGED <<jobs, locked, threadsWaiting, started, terminate, cur, sub,
                   status, accepted>>

-------------------------------------------------------------------------------
(* clear() and the destructor. Destroying a dispatcher another caller still   *)
(* uses is a misuse of the object, so the other callers are idle.             *)

\* Mistaken variant: the jobs are dropped without the mutex.
ClearJobsUnlocked ==
    /\ jobs' = [jobs EXCEPT ![Parallel] = <<>>]
    /\ status' = [j \in Jobs |-> IF \E i \in 1..Len(jobs[Parallel]) : jobs[Parallel][i] = j
                                 THEN "dropped" ELSE status[j]]
    /\ UNCHANGED <<locked, threadsWaiting, started, terminate, cur, sub, target,
                   count, accepted>>

ClearJobs ==
    /\ MutexFree
    /\ jobs' = [jobs EXCEPT ![Parallel] = <<>>]
    /\ status' = [j \in Jobs |-> IF \E i \in 1..Len(jobs[Parallel]) : jobs[Parallel][i] = j
                                 THEN "dropped" ELSE status[j]]
    /\ UNCHANGED <<locked, threadsWaiting, started, terminate, cur, sub, target,
                   count, accepted>>

Clear(c) ==
    /\ pc[c] = "idle" /\ CanCall(c)
    /\ ClearJobs /\ UNCHANGED pc

Destroy(c) ==
    /\ \A d \in Callers : pc[d] = "idle" /\ CanCall(d)
    /\ terminate' = TRUE
    /\ pc' = [pc EXCEPT ![c] = "clearing"]
    /\ UNCHANGED <<jobs, locked, threadsWaiting, started, cur, sub, target,
                   count, status, accepted>>

DestroyClear(c) ==
    /\ pc[c] = "clearing"
    /\ ClearJobs
    /\ pc' = [pc EXCEPT ![c] = "waking"]

DestroyNotify(c) ==
    /\ pc[c] = "waking"
    /\ pc' = [t \in Threads |-> IF t = c THEN "joining"
                                ELSE IF t \in Waiting THEN "notified"
                                ELSE pc[t]]
    /\ UNCHANGED <<jobs, locked, threadsWaiting, started, terminate, cur, sub,
                   target, count, status, accepted>>

DestroyJoin(c) ==
    /\ pc[c] = "joining"
    /\ \A w \in started : pc[w] = "exited"
    /\ pc' = [pc EXCEPT ![c] = "gone"]
    /\ UNCHANGED <<jobs, locked, threadsWaiting, started, terminate, cur, sub,
                   target, count, status, accepted>>

-------------------------------------------------------------------------------

WorkerLoop(w) == WorkerTake(w) \/ WorkerDoze(w) \/ WorkerSleep(w) \/ WorkerStop(w)

AddStep(t) == StartThreads(t) \/ Push(t) \/ Notify(t)

WaitStep(c) == WaitTake(c) \/ WaitEmpty(c) \/ WaitSize(c) \/ WaitReturn(c)

DestroyStep(c) == DestroyClear(c) \/ DestroyNotify(c) \/ DestroyJoin(c)

Next ==
    \/ \E w \in Workers : WorkerLoop(w) \/ SpuriousWake(w)
    \/ \E t \in Threads : AddStep(t) \/ EndRun(t) \/ TaskEnd(t)
    \/ \E t \in Threads, j \in Jobs : Add(t, j)
    \/ \E c \in Callers, q \in SerialWaits \cup {Parallel} : Wait(c, q)
    \/ \E c \in Callers : WaitStep(c) \/ Clear(c) \/ Destroy(c) \/ DestroyStep(c)

Spec == Init /\ [][Next]_vars

(***************************************************************************)
(* Fairness. The scheduler runs every thread, and a thread that asks for    *)
(* the mutex again and again gets it (strong fairness: another thread may   *)
(* hold it in between). A thread is at one point of its code at a time, so  *)
(* one condition per thread is enough; that EndRun is in it says that jobs  *)
(* return. Nobody has to call anything, and nothing wakes for no reason.    *)
(***************************************************************************)
Step(t) ==
    \/ AddStep(t) \/ EndRun(t) \/ TaskEnd(t)
    \/ t \in Workers /\ WorkerLoop(t)
    \/ t \in Callers /\ (WaitStep(t) \/ DestroyStep(t))

FairSpec == Spec /\ \A t \in Threads : SF_vars(Step(t))

-------------------------------------------------------------------------------

Asleep == {w \in Workers : pc[w] \in {"dozing", "waiting", "notified"}}

(* Types; threads_waiting is the number of workers between its increment and
   its decrement, and a job has its place in a queue or a thread. *)
TypeOK ==
    /\ jobs \in [Queues -> Seq(Jobs)] /\ accepted \in [Queues -> Seq(Jobs)]
    /\ locked \subseteq Serial /\ started \subseteq Workers
    /\ terminate \in BOOLEAN
    /\ pc \in [Threads -> {"off", "top", "dozing", "waiting", "notified", "exited",
                           "run", "ended", "idle", "loop", "size", "spin",
                           "clearing", "waking", "joining", "gone"}]
    /\ cur \in [Threads -> Jobs \cup {NoJob}]
    /\ target \in [Callers -> Queues] /\ count \in [Callers -> Nat]
    /\ status \in [Jobs -> {"new", "claimed", "queued", "running", "done", "dropped"}]
    /\ threadsWaiting = Cardinality(Asleep)

(* waitForParallelFinish returns only when every parallel job that anybody
   began to add has been run or cleared, also those added by jobs; needs a
   single caller, or another one may still run a job it took. *)
ParallelWaitComplete ==
    [][\A c \in Callers :
          pc[c] = "spin" /\ pc'[c] = "idle" /\ target[c] = Parallel =>
             \A j \in Jobs : QueueOf[j] = Parallel => status[j] \in {"new", "done", "dropped"}]_vars

(* The jobs of a serial queue run one after the other in the order they were
   added, whatever threads run them, unless somebody calls waitQueue on it. *)
SerialInOrder ==
    \A q \in Serial \ SerialWaits : \A i, k \in 1..Len(accepted[q]) :
        i < k /\ status[accepted[q][k]] \in {"running", "done"}
            => status[accepted[q][i]] = "done"

(* A job in a queue is run, if the dispatcher is not destroyed or cleared: no
   wakeup is lost between adding it and the workers going to sleep, and the
   lock of a serial queue is always opened again. Jobs are finitely many, so
   this is to say that the queues drain again and again. *)
JobsRun == []<>(terminate \/ \A j \in Jobs : status[j] # "queued")

(* Waiting for a queue ends. *)
WaitsReturn == \A c \in Callers : pc[c] = "loop" ~> pc[c] = "idle"

(* The destructor joins all workers: none sleeps through its notification. *)
WorkersStop == \A c \in Callers : pc[c] = "clearing" ~> pc[c] = "gone"

===============================================================================
