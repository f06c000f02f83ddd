--------------------------- MODULE DispatcherProofs ---------------------------
(***************************************************************************)
(* Proofs about Dispatcher, for every set of workers, callers, queues and   *)
(* jobs: the types, that a job is always in one place, the order of serial  *)
(* queues, and what the return of waitForParallelFinish means.              *)
(*                                                                          *)
(* The invariants are about jobs more than about threads, and most steps    *)
(* move no job. So StepKinds first sorts the steps by what they do to jobs, *)
(* and the invariants about jobs are proved for its kinds.                  *)
(***************************************************************************)
EXTENDS Dispatcher, FiniteSetTheorems, TLAPS

WorkerStates == {"off", "top", "dozing", "waiting", "notified", "exited", "run", "ended"}
CallerStates == {"idle", "loop", "size", "spin", "clearing", "waking", "joining", "gone",
                 "run", "ended"}

(* The steps left of an addJob or async. *)
Todos == {<<"start", "push", "notify">>, <<"push", "notify">>,
          <<"push", "start", "notify">>, <<"start", "notify">>, <<"notify">>}

Additions == [job : Jobs, todo : Todos]

Statuses == {"new", "claimed", "queued", "running", "done", "dropped"}

Types ==
    /\ jobs \in [Queues -> Seq(Jobs)] /\ accepted \in [Queues -> Seq(Jobs)]
    /\ locked \subseteq Serial /\ started \subseteq Workers
    /\ terminate \in BOOLEAN /\ threadsWaiting \in Int
    /\ pc \in [Threads -> WorkerStates \cup CallerStates]
    /\ \A w \in Workers : pc[w] \in WorkerStates
    /\ \A c \in Callers : pc[c] \in CallerStates
    /\ cur \in [Threads -> Jobs \cup {NoJob}]
    /\ sub \in [Threads -> Additions \cup {NotAdding}]
    /\ target \in [Callers -> SerialWaits \cup {Parallel}]
    /\ count \in [Callers -> Nat]
    /\ status \in [Jobs -> Statuses]

Running == {"run", "ended"}

(* Where a thread can be. *)
Threading ==
    /\ \A w \in Workers : w \in started <=> pc[w] # "off"
    /\ \A t \in Threads : pc[t] \in Running => cur[t] \in Jobs
    /\ \A t \in Threads : sub[t] # NotAdding => pc[t] \in {"run", "idle"}

WaitingCounted == threadsWaiting = Cardinality(Asleep)

(* The job that a thread is still to push, if any. *)
PushLeft == {<<"start", "push", "notify">>, <<"push", "notify">>, <<"push", "start", "notify">>}

ToPush(t) == sub[t] # NotAdding /\ sub[t].todo \in PushLeft

(* The place of a job is its status. *)
JobsInThreads ==
    /\ \A t \in Threads : pc[t] = "run" => status[cur[t]] = "running"
    /\ \A t \in Threads : pc[t] = "ended" => status[cur[t]] = "done"
    /\ \A t, u \in Threads : pc[t] = "run" /\ pc[u] = "run" /\ t # u => cur[t] # cur[u]
    /\ \A t \in Threads : ToPush(t) => status[sub[t].job] = "claimed"
    /\ \A t, u \in Threads : ToPush(t) /\ ToPush(u) /\ t # u => sub[t].job # sub[u].job

JobsInQueues ==
    \A q \in Queues :
        /\ \A i \in 1..Len(jobs[q]) : QueueOf[jobs[q][i]] = q /\ status[jobs[q][i]] = "queued"
        /\ \A i, k \in 1..Len(jobs[q]) : i # k => jobs[q][i] # jobs[q][k]

InQueue(j) == \E i \in 1..Len(jobs[QueueOf[j]]) : jobs[QueueOf[j]][i] = j

NoJobLost ==
    \A j \in Jobs :
        /\ status[j] = "running" => \E t \in Threads : pc[t] = "run" /\ cur[t] = j
        /\ status[j] = "claimed" => \E t \in Threads : ToPush(t) /\ sub[t].job = j
        /\ status[j] = "queued" => InQueue(j)

Taken(q) == Len(accepted[q]) - Len(jobs[q])

\* Whether t runs a job of q.
Holds(t, q) == pc[t] \in Running /\ QueueOf[cur[t]] = q

(* The jobs of q that were taken are finished but for the last, which a
   thread may run, the only one to run a job of q; the others still are in q. *)
Ordered(q) ==
    /\ Taken(q) \in Nat
    /\ \A i \in 1..Len(jobs[q]) : jobs[q][i] = accepted[q][Taken(q) + i]
    /\ \A i \in 1..Len(accepted[q]) : QueueOf[accepted[q][i]] = q
    /\ \A i \in 1..Len(accepted[q]) : i < Taken(q) => status[accepted[q][i]] = "done"
    /\ Taken(q) > 0 => status[accepted[q][Taken(q)]] \in {"running", "done"}
    /\ Taken(q) > 0 /\ q \notin locked => status[accepted[q][Taken(q)]] = "done"
    /\ \A t \in Threads : Holds(t, q) =>
          q \in locked /\ Taken(q) > 0 /\ cur[t] = accepted[q][Taken(q)]
    /\ \A t, u \in Threads : Holds(t, q) /\ Holds(u, q) => t = u

Order == \A q \in Serial \ SerialWaits : Ordered(q)

StartLeft == {<<"start", "push", "notify">>, <<"push", "start", "notify">>, <<"start", "notify">>}

Starting(c) == sub[c] # NotAdding /\ sub[c].todo \in StartLeft

Destroying == {"clearing", "waking", "joining", "gone"}

\* A caller that adds nothing sees all threads started, or none and no job.
ThreadsStarted(c) == started = Workers \/ Starting(c) \/ (started = {} /\ \A j \in Jobs : status[j] = "new")

Waits(c, states) == pc[c] \in states /\ target[c] = Parallel

SizeRead(c) == Waits(c, {"spin"}) => count[c] = Cardinality(started)

SomeoneAwake(c) == Waits(c, {"size", "spin"}) => jobs[Parallel] = <<>> \/ \E w \in started : w \notin Asleep

CallerWaits ==
    \A c \in Callers :
        /\ ThreadsStarted(c) /\ SizeRead(c) /\ SomeoneAwake(c)
        /\ terminate => pc[c] \in Destroying

(* What the steps left of an addition say of its next step. *)
LEMMA TodoFacts ==
  ASSUME NEW s \in Todos
  PROVE  /\ Head(s) \in {"start", "push", "notify"}
         /\ Len(s) = 1 <=> Head(s) = "notify"
         /\ Len(s) # 1 => Tail(s) \in Todos
         /\ Head(s) = "push" => s \in PushLeft /\ Tail(s) \notin PushLeft
         /\ Head(s) = "start" => (s \in PushLeft <=> Tail(s) \in PushLeft)
         /\ Head(s) = "notify" => s \notin PushLeft /\ s \notin StartLeft
         /\ Head(s) = "start" => s \in StartLeft /\ Tail(s) \notin StartLeft
         /\ Head(s) = "push" => (s \in StartLeft <=> Tail(s) \in StartLeft)
<1> DEFINE P1 == <<"start", "push", "notify">>
           P2 == <<"push", "notify">>
           P3 == <<"notify">>
           A1 == <<"push", "start", "notify">>
           A2 == <<"start", "notify">>
<1>1. /\ Head(P1) = "start" /\ Len(P1) = 3 /\ Tail(P1) = P2
      /\ Head(P2) = "push" /\ Len(P2) = 2 /\ Tail(P2) = P3
      /\ Head(P3) = "notify" /\ Len(P3) = 1
      /\ Head(A1) = "push" /\ Len(A1) = 3 /\ Tail(A1) = A2
      /\ Head(A2) = "start" /\ Len(A2) = 2 /\ Tail(A2) = P3
  <2>1. Head(P1) = "start" /\ Len(P1) = 3 /\ Tail(P1) = P2
    OBVIOUS
  <2>2. Head(P2) = "push" /\ Len(P2) = 2 /\ Tail(P2) = P3
    OBVIOUS
  <2>3. Head(P3) = "notify" /\ Len(P3) = 1
    OBVIOUS
  <2>4. Head(A1) = "push" /\ Len(A1) = 3 /\ Tail(A1) = A2
    OBVIOUS
  <2>5. Head(A2) = "start" /\ Len(A2) = 2 /\ Tail(A2) = P3
    OBVIOUS
  <2> QED
    BY <2>1, <2>2, <2>3, <2>4, <2>5
<1>2. /\ Todos = {P1, P2, P3, A1, A2}
      /\ PushLeft = {P1, P2, A1}
      /\ StartLeft = {P1, A1, A2}
  BY DEF Todos, PushLeft, StartLeft
<1>3. /\ P1 # P2 /\ P1 # P3 /\ P1 # A1 /\ P1 # A2
      /\ P2 # P3 /\ P2 # A1 /\ P2 # A2 /\ P3 # A1 /\ P3 # A2 /\ A1 # A2
  BY <1>1
<1> HIDE DEF P1, P2, P3, A1, A2
<1>4. CASE s = P1
  <2>1. Head(s) = "start" /\ Len(s) = 3 /\ Tail(s) = P2
    BY <1>1, <1>4
  <2>2. s \in PushLeft /\ s \in StartLeft
    BY <1>2, <1>4
  <2>3. P2 \in Todos /\ P2 \in PushLeft /\ P2 \notin StartLeft
    BY <1>2, <1>3
  <2>4. Head(s) # "push" /\ Head(s) # "notify" /\ Len(s) # 1
    BY <2>1
  <2>5. Tail(s) \in Todos /\ Tail(s) \in PushLeft /\ Tail(s) \notin StartLeft
    BY <2>1, <2>3
  <2> QED
    BY <2>1, <2>2, <2>4, <2>5
<1>5. CASE s = P2
  BY <1>1, <1>2, <1>3, <1>5
<1>6. CASE s = P3
  BY <1>1, <1>2, <1>3, <1>6
<1>7. CASE s = A1
  BY <1>1, <1>2, <1>3, <1>7
<1>8. CASE s = A2
  BY <1>1, <1>2, <1>3, <1>8
<1> QED
  BY <1>2, <1>4, <1>5, <1>6, <1>7, <1>8

(* A step of an addition is of one of three kinds, and only pushing the job
   takes it from the thread. *)
LEMMA StepDoneFacts ==
  ASSUME Types, NEW t \in Threads, NEW step, Todo(t, step), StepDone(t)
  PROVE  /\ sub[t] \in Additions
         /\ step \in {"start", "push", "notify"}
         /\ sub' \in [Threads -> Additions \cup {NotAdding}]
         /\ \A u \in Threads : u # t => sub'[u] = sub[u]
         /\ sub'[t] # NotAdding => sub'[t].job = sub[t].job
         /\ step = "push" => ToPush(t) /\ ~ToPush(t)'
         /\ step # "push" => (ToPush(t)' <=> ToPush(t))
         /\ step = "start" => Starting(t) /\ ~Starting(t)'
         /\ step = "push" /\ Starting(t) => Starting(t)'
         /\ step = "notify" => ~Starting(t)
<1>1. sub[t] \in Additions
  BY DEF Types, Todo, NotAdding
<1>2. PICK j \in Jobs, s \in Todos : sub[t] = [job |-> j, todo |-> s]
  BY <1>1 DEF Additions
<1>3. Head(s) = step
  BY <1>2 DEF Todo
<1>4. sub' = [sub EXCEPT ![t] = IF Len(s) = 1 THEN NotAdding ELSE [job |-> j, todo |-> Tail(s)]]
  BY <1>2 DEF StepDone, Types
<1>5. /\ Len(s) = 1 <=> step = "notify"
      /\ step \in {"start", "push", "notify"}
      /\ Len(s) # 1 => Tail(s) \in Todos
  BY <1>3, TodoFacts
<1>6. sub' \in [Threads -> Additions \cup {NotAdding}]
  BY <1>4, <1>5 DEF Types, Additions
<1>7. sub'[t] = IF Len(s) = 1 THEN NotAdding ELSE [job |-> j, todo |-> Tail(s)]
  BY <1>4 DEF Types
<1>8. \A u \in Threads : u # t => sub'[u] = sub[u]
  BY <1>4 DEF Types
<1>9. /\ sub[t].job = j /\ sub[t].todo = s
      /\ sub[t] # NotAdding
      /\ sub'[t] # NotAdding => sub'[t].job = j /\ sub'[t].todo = Tail(s) /\ Len(s) # 1
      /\ Len(s) # 1 => sub'[t] # NotAdding
  BY <1>2, <1>7, DispatcherAssumption DEF NotAdding
<1>10. /\ step = "push" => ToPush(t) /\ ~ToPush(t)'
       /\ step # "push" => (ToPush(t)' <=> ToPush(t))
  BY <1>9, <1>3, <1>5, TodoFacts DEF ToPush
<1>11. /\ step = "start" => Starting(t) /\ ~Starting(t)'
       /\ step = "push" /\ Starting(t) => Starting(t)'
       /\ step = "notify" => ~Starting(t)
  BY <1>9, <1>3, <1>5, TodoFacts DEF Starting
<1> QED
  BY <1>1, <1>5, <1>6, <1>8, <1>9, <1>10, <1>11

(* A thread that begins to add a job has it to push and threads to start. *)
LEMMA AddFacts ==
  ASSUME Types, NEW t \in Threads, NEW j \in Jobs, Add(t, j)
  PROVE  /\ sub' \in [Threads -> Additions \cup {NotAdding}]
         /\ \A u \in Threads : u # t => sub'[u] = sub[u]
         /\ sub[t] = NotAdding /\ sub'[t] # NotAdding
         /\ sub'[t].job = j /\ ToPush(t)' /\ Starting(t)'
<1>1. sub'[t] = [job |-> j, todo |-> Steps(QueueOf[j])]
  BY DEF Types, Add
<1>2. Steps(QueueOf[j]) \in {<<"start", "push", "notify">>, <<"push", "start", "notify">>}
  BY DEF Steps
<1>3. sub' \in [Threads -> Additions \cup {NotAdding}]
  BY <1>2 DEF Types, Add, Additions, Todos
<1>4. \A u \in Threads : u # t => sub'[u] = sub[u]
  BY DEF Types, Add
<1>5. sub'[t] # NotAdding /\ sub'[t].job = j /\ sub'[t].todo = Steps(QueueOf[j])
  BY <1>1, DispatcherAssumption DEF NotAdding
<1> QED
  BY <1>2, <1>3, <1>4, <1>5 DEF Add, CanCall, ToPush, Starting, PushLeft, StartLeft

(* Taking the first job of a queue. *)
LEMMA TakeFacts ==
  ASSUME Types, NEW t \in Threads, NEW q \in Queues, jobs[q] # <<>>, TakeFrom(t, q)
  PROVE  /\ jobs[q][1] \in Jobs
         /\ cur' = [cur EXCEPT ![t] = jobs[q][1]]
         /\ status' = [status EXCEPT ![jobs[q][1]] = "running"]
         /\ jobs' = [jobs EXCEPT ![q] = Tail(jobs[q])]
         /\ jobs'[q] = Tail(jobs[q]) /\ Len(jobs'[q]) = Len(jobs[q]) - 1
         /\ \A i \in 1..Len(jobs'[q]) : jobs'[q][i] = jobs[q][i + 1]
         /\ Len(jobs[q]) \in Nat \ {0}
<1>1. jobs[q] \in Seq(Jobs) /\ jobs[q] # <<>>
  BY DEF Types
<1>2. /\ Head(jobs[q]) = jobs[q][1] /\ jobs[q][1] \in Jobs
      /\ Tail(jobs[q]) \in Seq(Jobs) /\ Len(Tail(jobs[q])) = Len(jobs[q]) - 1
      /\ \A i \in 1..Len(Tail(jobs[q])) : Tail(jobs[q])[i] = jobs[q][i + 1]
      /\ Len(jobs[q]) \in Nat \ {0}
  BY <1>1
<1>3. jobs' = [jobs EXCEPT ![q] = Tail(jobs[q])]
  BY DEF TakeFrom
<1>4. jobs'[q] = Tail(jobs[q])
  BY <1>3 DEF Types
<1> QED
  BY <1>2, <1>3, <1>4 DEF TakeFrom

(* Taking a job keeps the types. *)
LEMMA TakeKeepsTypes ==
  ASSUME Types, NEW t \in Threads, NEW q \in Queues, jobs[q] # <<>>, TakeFrom(t, q),
         threadsWaiting' \in Int
  PROVE  Types'
<1>1. /\ jobs' \in [Queues -> Seq(Jobs)] /\ locked' \subseteq Serial
      /\ cur' \in [Threads -> Jobs \cup {NoJob}] /\ status' \in [Jobs -> Statuses]
  BY TakeFacts DEF Types, TakeFrom, LockedBy, Statuses
<1>2. /\ pc' \in [Threads -> WorkerStates \cup CallerStates]
      /\ \A w \in Workers : pc'[w] \in WorkerStates
      /\ \A c \in Callers : pc'[c] \in CallerStates
  BY DEF Types, TakeFrom, WorkerStates, CallerStates, Threads
<1> QED
  BY <1>1, <1>2 DEF Types, TakeFrom

(* Dropping the parallel jobs keeps the types. *)
LEMMA ClearKeepsTypes ==
  ASSUME Types, ClearJobs
  PROVE  /\ jobs' \in [Queues -> Seq(Jobs)]
         /\ status' \in [Jobs -> Statuses]
BY DEF Types, ClearJobs, Statuses, Queues

(* Moving a worker keeps the types. *)
LEMMA PcTypes ==
  ASSUME Types, NEW w \in Workers, NEW x \in WorkerStates, pc' = [pc EXCEPT ![w] = x]
  PROVE  /\ pc' \in [Threads -> WorkerStates \cup CallerStates]
         /\ \A v \in Workers : pc'[v] \in WorkerStates
         /\ \A c \in Callers : pc'[c] \in CallerStates
BY DispatcherAssumption DEF Types, Threads

(* Every step keeps the types. *)
LEMMA TypesStep == Types /\ [Next]_vars => Types'
<1> SUFFICES ASSUME Types, [Next]_vars PROVE Types'
  OBVIOUS
<1>1. ASSUME NEW w \in Workers, WorkerTake(w) PROVE Types'
  <2>1. PICK q \in Queues : jobs[q] # <<>> /\ TakeFrom(w, q)
    BY <1>1 DEF WorkerTake, Found, Ready
  <2>2. threadsWaiting' \in Int
    BY <1>1 DEF WorkerTake, AwakeCount, Types
  <2>3. w \in Threads
    BY DEF Threads
  <2> QED
    BY <2>1, <2>2, <2>3, TakeKeepsTypes
<1>2. ASSUME NEW w \in Workers, WorkerDoze(w) PROVE Types'
  <2>1. threadsWaiting' \in Int
    BY <1>2 DEF WorkerDoze, AwakeCount, Types
  <2>2. pc' = [pc EXCEPT ![w] = "dozing"] /\ "dozing" \in WorkerStates
    BY <1>2 DEF WorkerDoze, WorkerStates
  <2> QED
    BY <1>2, <2>1, <2>2, PcTypes DEF WorkerDoze, Types
<1>3. ASSUME NEW w \in Workers, WorkerSleep(w) PROVE Types'
  BY <1>3, DispatcherAssumption DEF WorkerSleep, Types, WorkerStates, CallerStates, Threads
<1>4. ASSUME NEW w \in Workers, WorkerStop(w) PROVE Types'
  <2>1. threadsWaiting' \in Int
    BY <1>4 DEF WorkerStop, AwakeCount, Types
  <2>2. pc' = [pc EXCEPT ![w] = "exited"] /\ "exited" \in WorkerStates
    BY <1>4 DEF WorkerStop, WorkerStates
  <2> QED
    BY <1>4, <2>1, <2>2, PcTypes DEF WorkerStop, Types
<1>5. ASSUME NEW w \in Workers, SpuriousWake(w) PROVE Types'
  BY <1>5, DispatcherAssumption DEF SpuriousWake, Types, WorkerStates, CallerStates, Threads
<1>6. ASSUME NEW t \in Threads, StartThreads(t) PROVE Types'
  <2>1. CASE StepDone(t) /\ UNCHANGED <<started, pc>>
    BY <1>6, <2>1, StepDoneFacts DEF StartThreads, Types
  <2>2. CASE UNCHANGED sub
    <3>1. \/ pc' = pc /\ started' = started
          \/ \E w \in Workers : started' = started \cup {w} /\ pc' = [pc EXCEPT ![w] = "top"]
      BY <1>6, <2>2 DEF StartThreads
    <3>2. "top" \in WorkerStates
      BY DEF WorkerStates
    <3> QED
      BY <1>6, <2>2, <3>1, <3>2, PcTypes DEF StartThreads, Types
  <2> QED
    BY <1>6, <2>1, <2>2 DEF StartThreads
<1>7. ASSUME NEW t \in Threads, Push(t) PROVE Types'
  <2>1. sub[t].job \in Jobs /\ sub' \in [Threads -> Additions \cup {NotAdding}]
    BY <1>7, StepDoneFacts DEF Push, Additions
  <2>2. QueueOf[sub[t].job] \in Queues
    BY <2>1, DispatcherAssumption
  <2>3. /\ jobs' \in [Queues -> Seq(Jobs)]
        /\ accepted' \in [Queues -> Seq(Jobs)]
        /\ status' \in [Jobs -> Statuses]
    BY <1>7, <2>1, <2>2 DEF Push, Types, Statuses
  <2> QED
    BY <1>7, <2>1, <2>3 DEF Push, Types
<1>8. ASSUME NEW t \in Threads, Notify(t) PROVE Types'
  <2>1. sub' \in [Threads -> Additions \cup {NotAdding}]
    BY <1>8, StepDoneFacts DEF Notify
  <2>2. \/ pc' = pc
        \/ \E w \in Workers : pc' = [pc EXCEPT ![w] = "notified"]
    BY <1>8 DEF Notify, Waiting
  <2>3. "notified" \in WorkerStates
    BY DEF WorkerStates
  <2> QED
    BY <1>8, <2>1, <2>2, <2>3, PcTypes DEF Notify, Types
<1>9. ASSUME NEW t \in Threads, EndRun(t) PROVE Types'
  BY <1>9 DEF EndRun, Types, WorkerStates, CallerStates, Statuses, Threads
<1>10. ASSUME NEW t \in Threads, TaskEnd(t) PROVE Types'
  BY <1>10, DispatcherAssumption DEF TaskEnd, Types, WorkerStates, CallerStates, Threads, UnlockedBy
<1>11. ASSUME NEW t \in Threads, NEW j \in Jobs, Add(t, j) PROVE Types'
  BY <1>11, AddFacts DEF Add, Types, Statuses
<1>12. ASSUME NEW c \in Callers, NEW q \in SerialWaits \cup {Parallel}, Wait(c, q) PROVE Types'
  BY <1>12, DispatcherAssumption DEF Wait, Types, WorkerStates, CallerStates, Threads
<1>13. ASSUME NEW c \in Callers, WaitTake(c) PROVE Types'
  <2>1. target[c] \in Queues /\ c \in Threads
    BY DispatcherAssumption DEF Types, Queues, Threads
  <2> QED
    BY <1>13, <2>1, TakeKeepsTypes DEF WaitTake, Types
<1>14. ASSUME NEW c \in Callers, WaitEmpty(c) PROVE Types'
  BY <1>14, DispatcherAssumption DEF WaitEmpty, Types, WorkerStates, CallerStates, Threads
<1>15. ASSUME NEW c \in Callers, WaitSize(c) PROVE Types'
  <2>1. Cardinality(started) \in Nat
    BY DispatcherAssumption, FS_Subset, FS_CardinalityType DEF Types
  <2> QED
    BY <1>15, <2>1, DispatcherAssumption DEF WaitSize, Types, CallerStates, Threads
<1>16. ASSUME NEW c \in Callers, WaitReturn(c) PROVE Types'
  BY <1>16, DispatcherAssumption DEF WaitReturn, Types, WorkerStates, CallerStates, Threads
<1>17. ASSUME NEW c \in Callers, Clear(c) PROVE Types'
  BY <1>17, ClearKeepsTypes DEF Clear, ClearJobs, Types
<1>18. ASSUME NEW c \in Callers, Destroy(c) PROVE Types'
  BY <1>18, DispatcherAssumption DEF Destroy, Types, WorkerStates, CallerStates, Threads
<1>19. ASSUME NEW c \in Callers, DestroyClear(c) PROVE Types'
  BY <1>19, ClearKeepsTypes, DispatcherAssumption DEF DestroyClear, ClearJobs, Types, CallerStates, Threads
<1>20. ASSUME NEW c \in Callers, DestroyNotify(c) PROVE Types'
  BY <1>20, DispatcherAssumption DEF DestroyNotify, Types, WorkerStates, CallerStates, Waiting, Threads
<1>21. ASSUME NEW c \in Callers, DestroyJoin(c) PROVE Types'
  BY <1>21, DispatcherAssumption DEF DestroyJoin, Types, WorkerStates, CallerStates, Threads
<1>22. CASE UNCHANGED vars
  BY <1>22 DEF vars, Types
<1> QED
  BY <1>1, <1>2, <1>3, <1>4, <1>5, <1>6, <1>7, <1>8, <1>9, <1>10, <1>11, <1>12, <1>13,
     <1>14, <1>15, <1>16, <1>17, <1>18, <1>19, <1>20, <1>21, <1>22
     DEF Next, WorkerLoop, AddStep, WaitStep, DestroyStep

(* Taking a job keeps what is said of the threads. *)
LEMMA TakeKeepsThreading ==
  ASSUME Types, Threading, NEW t \in Threads, NEW q \in Queues, jobs[q] # <<>>, TakeFrom(t, q),
         pc[t] \in {"top", "notified", "loop"}
  PROVE  Threading'
BY TakeFacts DEF Types, Threading, TakeFrom, Running, Threads

(* Every step keeps what is said of the threads; only initThreads starts one. *)
LEMMA ThreadingStep == Types /\ Threading /\ [Next]_vars => Threading'
<1> SUFFICES ASSUME Types, Threading, [Next]_vars PROVE Threading'
  OBVIOUS
<1>1. ASSUME NEW w \in Workers, WorkerTake(w) PROVE Threading'
  <2>1. PICK q \in Queues : jobs[q] # <<>> /\ TakeFrom(w, q)
    BY <1>1 DEF WorkerTake, Found, Ready
  <2>2. w \in Threads /\ pc[w] \in {"top", "notified"}
    BY <1>1 DEF Threads, WorkerTake
  <2> QED
    BY <2>1, <2>2, TakeKeepsThreading
<1>2. ASSUME NEW w \in Workers, WorkerDoze(w) PROVE Threading'
  BY <1>2, DispatcherAssumption DEF WorkerDoze, Threading, Types, Threads, Running, CanCall, Waiting
<1>3. ASSUME NEW w \in Workers, WorkerSleep(w) PROVE Threading'
  BY <1>3, DispatcherAssumption DEF WorkerSleep, Threading, Types, Threads, Running, CanCall, Waiting
<1>4. ASSUME NEW w \in Workers, WorkerStop(w) PROVE Threading'
  BY <1>4, DispatcherAssumption DEF WorkerStop, Threading, Types, Threads, Running, CanCall, Waiting
<1>5. ASSUME NEW w \in Workers, SpuriousWake(w) PROVE Threading'
  BY <1>5, DispatcherAssumption DEF SpuriousWake, Threading, Types, Threads, Running, CanCall, Waiting
<1>6. ASSUME NEW t \in Threads, StartThreads(t) PROVE Threading'
  <2>1. CASE StepDone(t) /\ UNCHANGED <<started, pc>>
    <3>1. \A u \in Threads : sub'[u] # NotAdding => sub[u] # NotAdding
      BY <1>6, <2>1, StepDoneFacts, DispatcherAssumption DEF StartThreads, Additions, NotAdding
    <3> QED
      BY <1>6, <2>1, <3>1 DEF StartThreads, Threading
  <2>2. ASSUME NEW w \in Workers \ started, started' = started \cup {w},
               pc' = [pc EXCEPT ![w] = "top"], UNCHANGED sub
        PROVE  Threading'
    <3>1. pc[w] = "off"
      BY <2>2 DEF Threading
    <3> QED
      BY <1>6, <2>2, <3>1 DEF StartThreads, Threading, Types, Threads, Running
  <2> QED
    BY <1>6, <2>1, <2>2 DEF StartThreads
<1>7. ASSUME NEW t \in Threads, Push(t) PROVE Threading'
  <2>1. \A u \in Threads : sub'[u] # NotAdding => sub[u] # NotAdding
    BY <1>7, StepDoneFacts, DispatcherAssumption DEF Push, Additions, NotAdding
  <2> QED
    BY <1>7, <2>1 DEF Push, Threading
<1>8. ASSUME NEW t \in Threads, Notify(t) PROVE Threading'
  <2>1. \A u \in Threads : sub'[u] # NotAdding => sub[u] # NotAdding
    BY <1>8, StepDoneFacts, DispatcherAssumption DEF Notify, Additions, NotAdding
  <2> QED
    BY <1>8, <2>1 DEF Notify, Threading, Types, Waiting, Running, Threads
<1>9. ASSUME NEW t \in Threads, EndRun(t) PROVE Threading'
  BY <1>9, DispatcherAssumption DEF EndRun, Threading, Types, Threads, Running
<1>10. ASSUME NEW t \in Threads, TaskEnd(t) PROVE Threading'
  BY <1>10, DispatcherAssumption DEF TaskEnd, Threading, Types, Threads, Running
<1>11. ASSUME NEW t \in Threads, NEW j \in Jobs, Add(t, j) PROVE Threading'
  <2>1. pc[t] \in {"run", "idle"}
    BY <1>11 DEF Add, CanCall
  <2> QED
    BY <1>11, <2>1, AddFacts DEF Add, Threading
<1>12. ASSUME NEW c \in Callers, NEW q \in SerialWaits \cup {Parallel}, Wait(c, q)
       PROVE  Threading'
  BY <1>12, DispatcherAssumption DEF Wait, Threading, Types, Threads, Running, CanCall, Waiting
<1>13. ASSUME NEW c \in Callers, WaitTake(c) PROVE Threading'
  <2>1. target[c] \in Queues /\ c \in Threads /\ pc[c] = "loop"
    BY <1>13, DispatcherAssumption DEF WaitTake, Types, Queues, Threads
  <2> QED
    BY <1>13, <2>1, TakeKeepsThreading DEF WaitTake
<1>14. ASSUME NEW c \in Callers, WaitEmpty(c) PROVE Threading'
  BY <1>14, DispatcherAssumption DEF WaitEmpty, Threading, Types, Threads, Running, CanCall, Waiting
<1>15. ASSUME NEW c \in Callers, WaitSize(c) PROVE Threading'
  BY <1>15, DispatcherAssumption DEF WaitSize, Threading, Types, Threads, Running, CanCall, Waiting
<1>16. ASSUME NEW c \in Callers, WaitReturn(c) PROVE Threading'
  BY <1>16, DispatcherAssumption DEF WaitReturn, Threading, Types, Threads, Running, CanCall, Waiting
<1>17. ASSUME NEW c \in Callers, Clear(c) PROVE Threading'
  BY <1>17 DEF Clear, ClearJobs, Threading
<1>18. ASSUME NEW c \in Callers, Destroy(c) PROVE Threading'
  BY <1>18, DispatcherAssumption DEF Destroy, Threading, Types, Threads, Running, CanCall, Waiting
<1>19. ASSUME NEW c \in Callers, DestroyClear(c) PROVE Threading'
  BY <1>19, DispatcherAssumption DEF DestroyClear, ClearJobs, Threading, Types, Threads, Running
<1>20. ASSUME NEW c \in Callers, DestroyNotify(c) PROVE Threading'
  BY <1>20, DispatcherAssumption DEF DestroyNotify, Threading, Types, Threads, Running, CanCall, Waiting
<1>21. ASSUME NEW c \in Callers, DestroyJoin(c) PROVE Threading'
  BY <1>21, DispatcherAssumption DEF DestroyJoin, Threading, Types, Threads, Running, CanCall, Waiting
<1>22. CASE UNCHANGED vars
  BY <1>22 DEF vars, Threading
<1> QED
  BY <1>1, <1>2, <1>3, <1>4, <1>5, <1>6, <1>7, <1>8, <1>9, <1>10, <1>11, <1>12, <1>13,
     <1>14, <1>15, <1>16, <1>17, <1>18, <1>19, <1>20, <1>21, <1>22
     DEF Next, WorkerLoop, AddStep, WaitStep, DestroyStep

(* Sleeping workers can be counted. *)
LEMMA AsleepFinite == IsFiniteSet(Asleep) /\ Cardinality(Asleep) \in Nat
<1>1. Asleep \subseteq Workers
  BY DEF Asleep
<1> QED
  BY <1>1, DispatcherAssumption, FS_Subset, FS_CardinalityType

(* One worker more is asleep, *)
LEMMA AsleepAdd ==
  ASSUME NEW w \in Workers, w \notin Asleep
  PROVE  Cardinality(Asleep \cup {w}) = Cardinality(Asleep) + 1
BY AsleepFinite, FS_AddElement

(* and one less. *)
LEMMA AsleepRemove ==
  ASSUME NEW w \in Workers
  PROVE  Cardinality(Asleep \ {w}) = IF w \in Asleep THEN Cardinality(Asleep) - 1 ELSE Cardinality(Asleep)
BY AsleepFinite, FS_RemoveElement

(* threads_waiting is changed exactly when a worker falls asleep or wakes up. *)
LEMMA WaitingCountedStep == Types /\ Threading /\ WaitingCounted /\ [Next]_vars => WaitingCounted'
<1> SUFFICES ASSUME Types, Threading, WaitingCounted, [Next]_vars PROVE WaitingCounted'
  OBVIOUS
<1>1. ASSUME NEW w \in Workers, WorkerTake(w) PROVE WaitingCounted'
  <2>1. Asleep' = Asleep \ {w} /\ (w \in Asleep <=> pc[w] = "notified")
    BY <1>1 DEF WorkerTake, Asleep, TakeFrom, Types, Threads
  <2>2. threadsWaiting' = AwakeCount(w)
    BY <1>1 DEF WorkerTake
  <2> QED
    BY <2>1, <2>2, AsleepFinite, AsleepRemove DEF AwakeCount, WaitingCounted
<1>2. ASSUME NEW w \in Workers, WorkerDoze(w) PROVE WaitingCounted'
  <2>1. Asleep' = Asleep \cup {w} /\ (w \in Asleep <=> pc[w] = "notified")
    BY <1>2 DEF WorkerDoze, Asleep, Types, Threads
  <2>2. threadsWaiting' = AwakeCount(w) + 1
    BY <1>2 DEF WorkerDoze
  <2>3. CASE w \in Asleep
    <3>1. Asleep' = Asleep
      BY <2>1, <2>3
    <3> QED
      BY <2>1, <2>2, <2>3, <3>1, AsleepFinite DEF AwakeCount, WaitingCounted
  <2>4. CASE w \notin Asleep
    BY <2>1, <2>2, <2>4, AsleepFinite, AsleepAdd DEF AwakeCount, WaitingCounted
  <2> QED
    BY <2>3, <2>4
<1>3. ASSUME NEW w \in Workers, WorkerSleep(w) PROVE WaitingCounted'
  <2>1. Asleep' = Asleep
    BY <1>3, DispatcherAssumption DEF WorkerSleep, Asleep, Types, Threads, Waiting, TakeFrom
  <2> QED
    BY <1>3, <2>1 DEF WorkerSleep, WaitingCounted
<1>4. ASSUME NEW w \in Workers, WorkerStop(w) PROVE WaitingCounted'
  <2>1. Asleep' = Asleep \ {w} /\ (w \in Asleep <=> pc[w] = "notified")
    BY <1>4 DEF WorkerStop, Asleep, TakeFrom, Types, Threads
  <2>2. threadsWaiting' = AwakeCount(w)
    BY <1>4 DEF WorkerStop
  <2> QED
    BY <2>1, <2>2, AsleepFinite, AsleepRemove DEF AwakeCount, WaitingCounted
<1>5. ASSUME NEW w \in Workers, SpuriousWake(w) PROVE WaitingCounted'
  <2>1. Asleep' = Asleep
    BY <1>5, DispatcherAssumption DEF SpuriousWake, Asleep, Types, Threads, Waiting, TakeFrom
  <2> QED
    BY <1>5, <2>1 DEF SpuriousWake, WaitingCounted
<1>6. ASSUME NEW t \in Threads, StartThreads(t) PROVE WaitingCounted'
  <2>1. \A w \in Workers : w \notin started => pc[w] = "off"
    BY DEF Threading
  <2>2. Asleep' = Asleep
    BY <1>6, <2>1 DEF StartThreads, Asleep, Types, Threads
  <2> QED
    BY <1>6, <2>2 DEF StartThreads, WaitingCounted
<1>7. ASSUME NEW t \in Threads, Push(t) PROVE WaitingCounted'
  BY <1>7 DEF Push, WaitingCounted, Asleep
<1>8. ASSUME NEW t \in Threads, Notify(t) PROVE WaitingCounted'
  <2>1. Asleep' = Asleep
    BY <1>8, DispatcherAssumption DEF Notify, Asleep, Types, Threads, Waiting, TakeFrom
  <2> QED
    BY <1>8, <2>1 DEF Notify, WaitingCounted
<1>9. ASSUME NEW t \in Threads, EndRun(t) PROVE WaitingCounted'
  <2>1. Asleep' = Asleep
    BY <1>9, DispatcherAssumption DEF EndRun, Asleep, Types, Threads, Waiting, TakeFrom
  <2> QED
    BY <1>9, <2>1 DEF EndRun, WaitingCounted
<1>10. ASSUME NEW t \in Threads, TaskEnd(t) PROVE WaitingCounted'
  <2>1. Asleep' = Asleep
    BY <1>10, DispatcherAssumption DEF TaskEnd, Asleep, Types, Threads, Waiting, TakeFrom
  <2> QED
    BY <1>10, <2>1 DEF TaskEnd, WaitingCounted
<1>11. ASSUME NEW t \in Threads, NEW j \in Jobs, Add(t, j) PROVE WaitingCounted'
  BY <1>11 DEF Add, WaitingCounted, Asleep
<1>12. ASSUME NEW c \in Callers, NEW q \in SerialWaits \cup {Parallel}, Wait(c, q)
       PROVE  WaitingCounted'
  <2>1. Asleep' = Asleep
    BY <1>12, DispatcherAssumption DEF Wait, Asleep, Types, Threads, Waiting, TakeFrom
  <2> QED
    BY <1>12, <2>1 DEF Wait, WaitingCounted
<1>13. ASSUME NEW c \in Callers, WaitTake(c) PROVE WaitingCounted'
  <2>1. Asleep' = Asleep
    BY <1>13, DispatcherAssumption DEF WaitTake, Asleep, Types, Threads, Waiting, TakeFrom
  <2> QED
    BY <1>13, <2>1 DEF WaitTake, WaitingCounted
<1>14. ASSUME NEW c \in Callers, WaitEmpty(c) PROVE WaitingCounted'
  <2>1. Asleep' = Asleep
    BY <1>14, DispatcherAssumption DEF WaitEmpty, Asleep, Types, Threads, Waiting, TakeFrom
  <2> QED
    BY <1>14, <2>1 DEF WaitEmpty, WaitingCounted
<1>15. ASSUME NEW c \in Callers, WaitSize(c) PROVE WaitingCounted'
  <2>1. Asleep' = Asleep
    BY <1>15, DispatcherAssumption DEF WaitSize, Asleep, Types, Threads, Waiting, TakeFrom
  <2> QED
    BY <1>15, <2>1 DEF WaitSize, WaitingCounted
<1>16. ASSUME NEW c \in Callers, WaitReturn(c) PROVE WaitingCounted'
  <2>1. Asleep' = Asleep
    BY <1>16, DispatcherAssumption DEF WaitReturn, Asleep, Types, Threads, Waiting, TakeFrom
  <2> QED
    BY <1>16, <2>1 DEF WaitReturn, WaitingCounted
<1>17. ASSUME NEW c \in Callers, Clear(c) PROVE WaitingCounted'
  BY <1>17 DEF Clear, ClearJobs, WaitingCounted, Asleep
<1>18. ASSUME NEW c \in Callers, Destroy(c) PROVE WaitingCounted'
  <2>1. Asleep' = Asleep
    BY <1>18, DispatcherAssumption DEF Destroy, Asleep, Types, Threads, Waiting, TakeFrom
  <2> QED
    BY <1>18, <2>1 DEF Destroy, WaitingCounted
<1>19. ASSUME NEW c \in Callers, DestroyClear(c) PROVE WaitingCounted'
  <2>1. Asleep' = Asleep
    BY <1>19, DispatcherAssumption DEF DestroyClear, ClearJobs, Asleep, Types, Threads, Waiting, TakeFrom
  <2> QED
    BY <1>19, <2>1 DEF DestroyClear, ClearJobs, WaitingCounted
<1>20. ASSUME NEW c \in Callers, DestroyNotify(c) PROVE WaitingCounted'
  <2>1. Asleep' = Asleep
    BY <1>20, DispatcherAssumption DEF DestroyNotify, Asleep, Types, Threads, Waiting, TakeFrom
  <2> QED
    BY <1>20, <2>1 DEF DestroyNotify, WaitingCounted
<1>21. ASSUME NEW c \in Callers, DestroyJoin(c) PROVE WaitingCounted'
  <2>1. Asleep' = Asleep
    BY <1>21, DispatcherAssumption DEF DestroyJoin, Asleep, Types, Threads, Waiting, TakeFrom
  <2> QED
    BY <1>21, <2>1 DEF DestroyJoin, WaitingCounted
<1>22. CASE UNCHANGED vars
  BY <1>22 DEF vars, WaitingCounted, Asleep
<1> QED
  BY <1>1, <1>2, <1>3, <1>4, <1>5, <1>6, <1>7, <1>8, <1>9, <1>10, <1>11, <1>12, <1>13,
     <1>14, <1>15, <1>16, <1>17, <1>18, <1>19, <1>20, <1>21, <1>22
     DEF Next, WorkerLoop, AddStep, WaitStep, DestroyStep

(* What a step does to the jobs. *)
SamePlaces ==
    \A t \in Threads : (pc'[t] = "run" <=> pc[t] = "run") /\ (pc'[t] = "ended" <=> pc[t] = "ended")

SameToPush ==
    \A t \in Threads : (ToPush(t)' <=> ToPush(t)) /\ (ToPush(t) => sub'[t].job = sub[t].job)

Quiet == UNCHANGED <<jobs, cur, status, accepted, locked>> /\ SamePlaces /\ SameToPush

Takes(t, q) ==
    /\ TakeFrom(t, q) /\ jobs[q] # <<>> /\ pc[t] \in {"top", "notified", "loop"}
    /\ q \notin SerialWaits \cup {Parallel} => q \notin locked

Drops ==
    /\ jobs' = [jobs EXCEPT ![Parallel] = <<>>]
    /\ status' = [j \in Jobs |-> IF \E i \in 1..Len(jobs[Parallel]) : jobs[Parallel][i] = j
                                 THEN "dropped" ELSE status[j]]
    /\ UNCHANGED <<cur, sub, accepted, locked>> /\ SamePlaces

StepKind ==
    \/ Quiet \/ Drops
    \/ \E t \in Threads, q \in Queues : Takes(t, q)
    \/ \E t \in Threads : EndRun(t) \/ TaskEnd(t) \/ Push(t)
    \/ \E t \in Threads, j \in Jobs : Add(t, j)

(* Every step leaves the jobs alone or is one of six kinds. *)
LEMMA StepKinds == Types /\ Threading /\ [Next]_vars => StepKind
<1> SUFFICES ASSUME Types, Threading, [Next]_vars PROVE StepKind
  OBVIOUS
<1>1. ASSUME NEW w \in Workers, WorkerTake(w) PROVE StepKind
  <2>1. PICK q \in Queues : Found(q) /\ TakeFrom(w, q)
    BY <1>1 DEF WorkerTake
  <2>2. w \in Threads /\ Takes(w, q)
    BY <1>1, <2>1 DEF WorkerTake, Takes, Found, Ready, Threads
  <2> QED
    BY <2>2 DEF StepKind
<1>2. ASSUME NEW w \in Workers, WorkerDoze(w) PROVE StepKind
  <2>1. SamePlaces
    BY <1>2, DispatcherAssumption DEF WorkerDoze, SamePlaces, Types, Threads, Waiting
  <2> QED
    BY <1>2, <2>1 DEF WorkerDoze, Quiet, StepKind, SameToPush, ToPush
<1>3. ASSUME NEW w \in Workers, WorkerSleep(w) PROVE StepKind
  <2>1. SamePlaces
    BY <1>3, DispatcherAssumption DEF WorkerSleep, SamePlaces, Types, Threads, Waiting
  <2> QED
    BY <1>3, <2>1 DEF WorkerSleep, Quiet, StepKind, SameToPush, ToPush
<1>4. ASSUME NEW w \in Workers, WorkerStop(w) PROVE StepKind
  <2>1. SamePlaces
    BY <1>4, DispatcherAssumption DEF WorkerStop, SamePlaces, Types, Threads, Waiting
  <2> QED
    BY <1>4, <2>1 DEF WorkerStop, Quiet, StepKind, SameToPush, ToPush
<1>5. ASSUME NEW w \in Workers, SpuriousWake(w) PROVE StepKind
  <2>1. SamePlaces
    BY <1>5, DispatcherAssumption DEF SpuriousWake, SamePlaces, Types, Threads, Waiting
  <2> QED
    BY <1>5, <2>1 DEF SpuriousWake, Quiet, StepKind, SameToPush, ToPush
<1>6. ASSUME NEW t \in Threads, StartThreads(t) PROVE StepKind
  <2>1. SamePlaces
    BY <1>6, DispatcherAssumption DEF StartThreads, SamePlaces, Types, Threads, Threading
  <2>2. SameToPush
    <3>1. CASE StepDone(t)
      BY <1>6, <3>1, StepDoneFacts DEF StartThreads, SameToPush, ToPush
    <3>2. CASE UNCHANGED sub
      BY <3>2 DEF SameToPush, ToPush
    <3> QED
      BY <1>6, <3>1, <3>2 DEF StartThreads
  <2> QED
    BY <1>6, <2>1, <2>2 DEF StartThreads, Quiet, StepKind
<1>7. ASSUME NEW t \in Threads, Push(t) PROVE StepKind
  BY <1>7 DEF StepKind
<1>8. ASSUME NEW t \in Threads, Notify(t) PROVE StepKind
  <2>1. SamePlaces
    BY <1>8, DispatcherAssumption DEF Notify, SamePlaces, Types, Threads, Waiting
  <2>2. SameToPush
    BY <1>8, StepDoneFacts DEF Notify, SameToPush, ToPush
  <2> QED
    BY <1>8, <2>1, <2>2 DEF Notify, Quiet, StepKind
<1>9. ASSUME NEW t \in Threads, EndRun(t) PROVE StepKind
  BY <1>9 DEF StepKind
<1>10. ASSUME NEW t \in Threads, TaskEnd(t) PROVE StepKind
  BY <1>10 DEF StepKind
<1>11. ASSUME NEW t \in Threads, NEW j \in Jobs, Add(t, j) PROVE StepKind
  BY <1>11 DEF StepKind
<1>12. ASSUME NEW c \in Callers, NEW q \in SerialWaits \cup {Parallel}, Wait(c, q)
       PROVE  StepKind
  <2>1. SamePlaces
    BY <1>12, DispatcherAssumption DEF Wait, SamePlaces, Types, Threads, Waiting
  <2> QED
    BY <1>12, <2>1 DEF Wait, Quiet, StepKind, SameToPush, ToPush
<1>13. ASSUME NEW c \in Callers, WaitTake(c) PROVE StepKind
  <2>1. target[c] \in Queues /\ c \in Threads
    BY DispatcherAssumption DEF Types, Queues, Threads
  <2>2. Takes(c, target[c])
    BY <1>13 DEF WaitTake, Takes, Types
  <2> QED
    BY <2>1, <2>2 DEF StepKind
<1>14. ASSUME NEW c \in Callers, WaitEmpty(c) PROVE StepKind
  <2>1. SamePlaces
    BY <1>14, DispatcherAssumption DEF WaitEmpty, SamePlaces, Types, Threads, Waiting
  <2> QED
    BY <1>14, <2>1 DEF WaitEmpty, Quiet, StepKind, SameToPush, ToPush
<1>15. ASSUME NEW c \in Callers, WaitSize(c) PROVE StepKind
  <2>1. SamePlaces
    BY <1>15, DispatcherAssumption DEF WaitSize, SamePlaces, Types, Threads, Waiting
  <2> QED
    BY <1>15, <2>1 DEF WaitSize, Quiet, StepKind, SameToPush, ToPush
<1>16. ASSUME NEW c \in Callers, WaitReturn(c) PROVE StepKind
  <2>1. SamePlaces
    BY <1>16, DispatcherAssumption DEF WaitReturn, SamePlaces, Types, Threads, Waiting
  <2> QED
    BY <1>16, <2>1 DEF WaitReturn, Quiet, StepKind, SameToPush, ToPush
<1>17. ASSUME NEW c \in Callers, Clear(c) PROVE StepKind
  BY <1>17 DEF Clear, ClearJobs, Drops, SamePlaces, StepKind
<1>18. ASSUME NEW c \in Callers, Destroy(c) PROVE StepKind
  <2>1. SamePlaces
    BY <1>18, DispatcherAssumption DEF Destroy, SamePlaces, Types, Threads, Waiting
  <2> QED
    BY <1>18, <2>1 DEF Destroy, Quiet, StepKind, SameToPush, ToPush
<1>19. ASSUME NEW c \in Callers, DestroyClear(c) PROVE StepKind
  <2>1. SamePlaces
    BY <1>19, DispatcherAssumption DEF DestroyClear, SamePlaces, Types, Threads
  <2> QED
    BY <1>19, <2>1 DEF DestroyClear, ClearJobs, Drops, StepKind
<1>20. ASSUME NEW c \in Callers, DestroyNotify(c) PROVE StepKind
  <2>1. SamePlaces
    BY <1>20, DispatcherAssumption DEF DestroyNotify, SamePlaces, Types, Threads, Waiting
  <2> QED
    BY <1>20, <2>1 DEF DestroyNotify, Quiet, StepKind, SameToPush, ToPush
<1>21. ASSUME NEW c \in Callers, DestroyJoin(c) PROVE StepKind
  <2>1. SamePlaces
    BY <1>21, DispatcherAssumption DEF DestroyJoin, SamePlaces, Types, Threads, Waiting
  <2> QED
    BY <1>21, <2>1 DEF DestroyJoin, Quiet, StepKind, SameToPush, ToPush
<1>22. CASE UNCHANGED vars
  BY <1>22 DEF vars, Quiet, SamePlaces, SameToPush, ToPush, StepKind
<1> QED
  BY <1>1, <1>2, <1>3, <1>4, <1>5, <1>6, <1>7, <1>8, <1>9, <1>10, <1>11, <1>12, <1>13,
     <1>14, <1>15, <1>16, <1>17, <1>18, <1>19, <1>20, <1>21, <1>22
     DEF Next, WorkerLoop, AddStep, WaitStep, DestroyStep

(* Taking a job, thread by thread, queue by queue and job by job. *)
LEMMA TakesFacts ==
  ASSUME Types, NEW t \in Threads, NEW q \in Queues, Takes(t, q)
  PROVE  /\ jobs[q][1] \in Jobs /\ jobs[q] \in Seq(Jobs)
         /\ 1 \in 1..Len(jobs[q])
         /\ cur'[t] = jobs[q][1] /\ pc'[t] = "run"
         /\ pc[t] \notin Running /\ sub' = sub /\ accepted' = accepted
         /\ \A u \in Threads : u # t => cur'[u] = cur[u] /\ pc'[u] = pc[u]
         /\ status'[jobs[q][1]] = "running"
         /\ \A j \in Jobs : j # jobs[q][1] => status'[j] = status[j]
         /\ \A r \in Queues : r # q => jobs'[r] = jobs[r]
         /\ Len(jobs'[q]) = Len(jobs[q]) - 1 /\ Len(jobs[q]) \in Nat \ {0}
         /\ \A i \in 1..Len(jobs'[q]) : jobs'[q][i] = jobs[q][i + 1] /\ i + 1 \in 1..Len(jobs[q])
<1>1. jobs[q] # <<>> /\ TakeFrom(t, q) /\ pc[t] \in {"top", "notified", "loop"}
  BY DEF Takes
<1>2. Len(jobs'[q]) \in Nat /\ Len(jobs[q]) \in Nat \ {0}
  BY <1>1, TakeFacts
<1> QED
  BY <1>1, <1>2, TakeFacts DEF Types, TakeFrom, Running, Threads

(* Pushing a job. *)
LEMMA PushFacts ==
  ASSUME Types, NEW t \in Threads, Push(t)
  PROVE  \E j \in Jobs, q \in Queues :
         /\ sub[t].job = j /\ QueueOf[j] = q /\ ToPush(t) /\ ~ToPush(t)'
         /\ \A u \in Threads : u # t => sub'[u] = sub[u]
         /\ \A i \in Jobs : i # j => status'[i] = status[i]
         /\ status'[j] = "queued" /\ pc' = pc /\ cur' = cur /\ locked' = locked
         /\ \A r \in Queues : r # q => jobs'[r] = jobs[r] /\ accepted'[r] = accepted[r]
         /\ jobs[q] \in Seq(Jobs) /\ jobs'[q] = Append(jobs[q], j)
         /\ accepted[q] \in Seq(Jobs) /\ accepted'[q] = Append(accepted[q], j)
<1>1. ToPush(t) /\ ~ToPush(t)' /\ \A u \in Threads : u # t => sub'[u] = sub[u]
  BY StepDoneFacts DEF Push
<1>2. sub[t].job \in Jobs
  BY StepDoneFacts DEF Push, Additions
<1>3. QueueOf[sub[t].job] \in Queues
  BY <1>2, DispatcherAssumption
<1> QED
  BY <1>1, <1>2, <1>3 DEF Push, Types

(* A sequence and one more element. *)
LEMMA AppendFacts ==
  ASSUME NEW s \in Seq(Jobs), NEW j \in Jobs
  PROVE  /\ Len(s) \in Nat /\ Len(Append(s, j)) = Len(s) + 1
         /\ \A i \in 1..Len(s) : Append(s, j)[i] = s[i] /\ i \in 1..Len(Append(s, j))
         /\ Append(s, j)[Len(s) + 1] = j
         /\ \A i \in 1..Len(Append(s, j)) : i \in 1..Len(s) \/ i = Len(s) + 1
  OBVIOUS

(* Every step keeps each job in the place its status names. *)
LEMMA PlacesStep ==
  Types /\ Threading /\ JobsInThreads /\ JobsInQueues /\ StepKind
    => JobsInThreads' /\ JobsInQueues'
<1> SUFFICES ASSUME Types, Threading, JobsInThreads, JobsInQueues, StepKind
             PROVE  JobsInThreads' /\ JobsInQueues'
  OBVIOUS
<1> USE DEF Running
<1>0. /\ \A t \in Threads : pc[t] \in {"run", "ended"} => cur[t] \in Jobs
      /\ \A t \in Threads : ToPush(t) => sub[t].job \in Jobs
      /\ \A q \in Queues : \A i \in 1..Len(jobs[q]) : jobs[q][i] \in Jobs
  BY DEF Threading, Types, ToPush, Additions
<1>1. CASE Quiet
  BY <1>1 DEF Quiet, SamePlaces, SameToPush, JobsInThreads, JobsInQueues
<1>2. CASE Drops
  <2>1. \A j \in Jobs : status'[j] = status[j] \/ (status[j] = "queued" /\ QueueOf[j] = Parallel)
    BY <1>2, <1>0 DEF Drops, JobsInQueues, Queues, Types
  <2>2. \A j \in Jobs : QueueOf[j] # Parallel => status'[j] = status[j]
    BY <1>2, <1>0 DEF Drops, JobsInQueues, Queues, Types
  <2>3. JobsInThreads'
    BY <1>2, <1>0, <2>1 DEF Drops, SamePlaces, JobsInThreads, ToPush
  <2>4. jobs'[Parallel] = <<>> /\ \A q \in Queues : q # Parallel => jobs'[q] = jobs[q]
    BY <1>2 DEF Drops, Types, Queues
  <2>5. JobsInQueues'
    BY <1>0, <2>2, <2>4 DEF JobsInQueues
  <2> QED
    BY <2>3, <2>5
<1>3. ASSUME NEW t \in Threads, NEW q \in Queues, Takes(t, q)
      PROVE  JobsInThreads' /\ JobsInQueues'
  <2>1. status[jobs[q][1]] = "queued" /\ QueueOf[jobs[q][1]] = q
    BY <1>3, TakesFacts DEF JobsInQueues
  <2>2. JobsInThreads'
    BY <1>0, <1>3, <2>1, TakesFacts DEF JobsInThreads, ToPush
  <2>3. \A i \in 1..Len(jobs'[q]) : jobs'[q][i] # jobs[q][1]
    BY <1>3, TakesFacts DEF JobsInQueues
  <2>4. ASSUME NEW i \in 1..Len(jobs'[q])
        PROVE  QueueOf[jobs'[q][i]] = q /\ status'[jobs'[q][i]] = "queued"
    <3>1. jobs'[q][i] = jobs[q][i + 1] /\ i + 1 \in 1..Len(jobs[q])
      BY <1>3, TakesFacts
    <3>2. jobs'[q][i] \in Jobs /\ QueueOf[jobs'[q][i]] = q /\ status[jobs'[q][i]] = "queued"
      BY <1>0, <3>1 DEF JobsInQueues
    <3> QED
      BY <1>3, <2>3, <3>2, TakesFacts
  <2>5. ASSUME NEW i \in 1..Len(jobs'[q]), NEW k \in 1..Len(jobs'[q]), i # k
        PROVE  jobs'[q][i] # jobs'[q][k]
    <3>1. /\ jobs'[q][i] = jobs[q][i + 1] /\ i + 1 \in 1..Len(jobs[q])
          /\ jobs'[q][k] = jobs[q][k + 1] /\ k + 1 \in 1..Len(jobs[q])
      BY <1>3, TakesFacts
    <3> QED
      BY <2>5, <3>1 DEF JobsInQueues
  <2>6. ASSUME NEW r \in Queues, r # q
        PROVE  jobs'[r] = jobs[r] /\ \A i \in 1..Len(jobs[r]) : status'[jobs[r][i]] = "queued"
    <3>1. jobs'[r] = jobs[r]
      BY <1>3, <2>6, TakesFacts
    <3>2. ASSUME NEW i \in 1..Len(jobs[r]) PROVE status'[jobs[r][i]] = "queued"
      <4>1. jobs[r][i] \in Jobs /\ jobs[r][i] # jobs[q][1] /\ status[jobs[r][i]] = "queued"
        BY <1>0, <2>1, <2>6 DEF JobsInQueues
      <4> QED
        BY <1>3, <4>1, TakesFacts
    <3> QED
      BY <3>1, <3>2
  <2>7. JobsInQueues'
    BY <2>4, <2>5, <2>6 DEF JobsInQueues
  <2> QED
    BY <2>2, <2>7
<1>4. ASSUME NEW t \in Threads, EndRun(t) PROVE JobsInThreads' /\ JobsInQueues'
  <2>1. /\ pc[t] = "run" /\ status[cur[t]] = "running" /\ cur[t] \in Jobs
        /\ pc'[t] = "ended" /\ status'[cur[t]] = "done" /\ UNCHANGED <<cur, jobs, sub>>
        /\ \A u \in Threads : u # t => pc'[u] = pc[u]
        /\ \A j \in Jobs : j # cur[t] => status'[j] = status[j]
    BY <1>4, <1>0 DEF EndRun, JobsInThreads, Types
  <2>2. JobsInThreads'
    BY <1>0, <2>1 DEF JobsInThreads, ToPush
  <2>3. JobsInQueues'
    BY <1>0, <2>1 DEF JobsInQueues
  <2> QED
    BY <2>2, <2>3
<1>5. ASSUME NEW t \in Threads, TaskEnd(t) PROVE JobsInThreads' /\ JobsInQueues'
  <2>1. /\ pc'[t] \notin Running /\ UNCHANGED <<jobs, sub, status>>
        /\ \A u \in Threads : u # t => pc'[u] = pc[u] /\ cur'[u] = cur[u]
    BY <1>5 DEF TaskEnd, Types
  <2> QED
    BY <2>1 DEF JobsInThreads, JobsInQueues, ToPush
<1>6. ASSUME NEW t \in Threads, Push(t) PROVE JobsInThreads' /\ JobsInQueues'
  <2>1. PICK j \in Jobs, q \in Queues :
         /\ sub[t].job = j /\ QueueOf[j] = q /\ ToPush(t) /\ ~ToPush(t)'
         /\ \A u \in Threads : u # t => sub'[u] = sub[u]
         /\ \A i \in Jobs : i # j => status'[i] = status[i]
         /\ status'[j] = "queued" /\ pc' = pc /\ cur' = cur /\ locked' = locked
         /\ \A r \in Queues : r # q => jobs'[r] = jobs[r] /\ accepted'[r] = accepted[r]
         /\ jobs[q] \in Seq(Jobs) /\ jobs'[q] = Append(jobs[q], j)
         /\ accepted[q] \in Seq(Jobs) /\ accepted'[q] = Append(accepted[q], j)
    BY <1>6, PushFacts
  <2>2. status[j] = "claimed"
    BY <2>1 DEF JobsInThreads
  <2>3. JobsInThreads'
    <3>1. \A u \in Threads : ToPush(u)' => u # t /\ ToPush(u) /\ sub'[u] = sub[u] /\ sub[u].job # j
      BY <2>1 DEF JobsInThreads, ToPush
    <3>2. \A u \in Threads : pc[u] = "run" \/ pc[u] = "ended" => cur[u] # j
      BY <2>2 DEF JobsInThreads
    <3>3. \A u \in Threads : pc[u] = "run" \/ pc[u] = "ended" => status'[cur[u]] = status[cur[u]]
      BY <1>0, <2>1, <3>2
    <3>4. \A u \in Threads : ToPush(u)' => status'[sub'[u].job] = "claimed"
      <4> SUFFICES ASSUME NEW u \in Threads, ToPush(u)' PROVE status'[sub'[u].job] = "claimed"
        OBVIOUS
      <4>1. ToPush(u) /\ sub'[u] = sub[u] /\ sub[u].job # j /\ sub[u].job \in Jobs
        BY <1>0, <3>1
      <4>2. status[sub[u].job] = "claimed"
        BY <4>1 DEF JobsInThreads
      <4> QED
        BY <2>1, <4>1, <4>2
    <3>5. \A u, v \in Threads : ToPush(u)' /\ ToPush(v)' /\ u # v => sub'[u].job # sub'[v].job
      BY <3>1 DEF JobsInThreads
    <3> QED
      BY <2>1, <3>3, <3>4, <3>5 DEF JobsInThreads
  <2>4. ASSUME NEW i \in 1..Len(jobs[q]) PROVE jobs[q][i] # j
    BY <2>2 DEF JobsInQueues
  <2>5. ASSUME NEW i \in 1..Len(jobs'[q])
        PROVE  QueueOf[jobs'[q][i]] = q /\ status'[jobs'[q][i]] = "queued"
    <3>1. CASE i \in 1..Len(jobs[q])
      <4>1. jobs'[q][i] = jobs[q][i]
        BY <2>1, <3>1, AppendFacts
      <4>2. jobs[q][i] \in Jobs /\ jobs[q][i] # j /\ QueueOf[jobs[q][i]] = q /\ status[jobs[q][i]] = "queued"
        BY <1>0, <2>4, <3>1 DEF JobsInQueues
      <4> QED
        BY <2>1, <4>1, <4>2
    <3>2. CASE i = Len(jobs[q]) + 1
      <4>1. jobs'[q][i] = j
        BY <2>1, <3>2, AppendFacts
      <4> QED
        BY <2>1, <4>1
    <3> QED
      BY <2>1, <3>1, <3>2, AppendFacts
  <2>6. ASSUME NEW i \in 1..Len(jobs'[q]), NEW k \in 1..Len(jobs'[q]), i # k
        PROVE  jobs'[q][i] # jobs'[q][k]
    <3>1. \A h \in 1..Len(jobs'[q]) :
             \/ h \in 1..Len(jobs[q]) /\ jobs'[q][h] = jobs[q][h]
             \/ h = Len(jobs[q]) + 1 /\ jobs'[q][h] = j
      BY <2>1, AppendFacts
    <3>2. \A h, l \in 1..Len(jobs[q]) : h # l => jobs[q][h] # jobs[q][l]
      BY DEF JobsInQueues
    <3> QED
      BY <2>4, <2>6, <3>1, <3>2
  <2>7. ASSUME NEW r \in Queues, r # q
        PROVE  jobs'[r] = jobs[r] /\ \A i \in 1..Len(jobs[r]) : status'[jobs[r][i]] = "queued"
    BY <1>0, <2>1, <2>2, <2>7 DEF JobsInQueues
  <2>8. JobsInQueues'
    BY <2>5, <2>6, <2>7 DEF JobsInQueues
  <2> QED
    BY <2>3, <2>8
<1>7. ASSUME NEW t \in Threads, NEW j \in Jobs, Add(t, j) PROVE JobsInThreads' /\ JobsInQueues'
  <2>1. /\ status[j] = "new" /\ status'[j] = "claimed" /\ UNCHANGED <<jobs, pc, cur>>
        /\ \A i \in Jobs : i # j => status'[i] = status[i]
        /\ sub'[t].job = j
        /\ \A u \in Threads : u # t => sub'[u] = sub[u]
    BY <1>7, AddFacts DEF Add, Types
  <2>2. JobsInThreads'
    BY <1>0, <2>1 DEF JobsInThreads, ToPush
  <2>3. JobsInQueues'
    BY <1>0, <2>1 DEF JobsInQueues
  <2> QED
    BY <2>2, <2>3
<1> QED
  BY <1>1, <1>2, <1>3, <1>4, <1>5, <1>6, <1>7 DEF StepKind

(* No step leaves a job without its place. *)
LEMMA NoJobLostStep ==
  Types /\ Threading /\ JobsInThreads /\ JobsInQueues /\ NoJobLost /\ StepKind => NoJobLost'
<1> SUFFICES ASSUME Types, Threading, JobsInThreads, JobsInQueues, NoJobLost, StepKind
             PROVE  NoJobLost'
  OBVIOUS
<1> USE DEF Running
<1>0. \A j \in Jobs : QueueOf[j] \in Queues
  BY DispatcherAssumption
<1>1. CASE Quiet
  BY <1>1 DEF Quiet, SamePlaces, SameToPush, NoJobLost, InQueue
<1>2. CASE Drops
  <2>1. \A j \in Jobs : status'[j] = status[j] \/ status'[j] = "dropped"
    BY <1>2 DEF Drops
  <2>2. \A j \in Jobs : status'[j] = "queued" => QueueOf[j] # Parallel
    BY <1>2 DEF Drops, NoJobLost, InQueue
  <2>3. \A q \in Queues : q # Parallel => jobs'[q] = jobs[q]
    BY <1>2 DEF Drops, Types
  <2> QED
    BY <1>0, <1>2, <2>1, <2>2, <2>3 DEF Drops, SamePlaces, NoJobLost, InQueue, ToPush
<1>3. ASSUME NEW t \in Threads, NEW q \in Queues, Takes(t, q) PROVE NoJobLost'
  <2>1. \A j \in Jobs : status'[j] = "queued" => InQueue(j)'
    <3> SUFFICES ASSUME NEW j \in Jobs, status'[j] = "queued" PROVE InQueue(j)'
      OBVIOUS
    <3>1. j # jobs[q][1] /\ status[j] = "queued"
      BY <1>3, TakesFacts
    <3>2. PICK i \in 1..Len(jobs[QueueOf[j]]) : jobs[QueueOf[j]][i] = j
      BY <3>1 DEF NoJobLost, InQueue
    <3>3. CASE QueueOf[j] # q
      BY <1>0, <1>3, <3>2, <3>3, TakesFacts DEF InQueue
    <3>4. CASE QueueOf[j] = q
      <4>1. i # 1 /\ i - 1 \in 1..Len(jobs'[q])
        BY <1>3, <3>1, <3>2, <3>4, TakesFacts
      <4>2. jobs'[q][i - 1] = jobs[q][(i - 1) + 1]
        BY <1>3, <4>1, TakesFacts
      <4> QED
        BY <3>2, <3>4, <4>1, <4>2 DEF InQueue
    <3> QED
      BY <3>3, <3>4
  <2>2. \A j \in Jobs : status'[j] = "running" => \E u \in Threads : pc'[u] = "run" /\ cur'[u] = j
    BY <1>3, TakesFacts DEF NoJobLost
  <2>3. \A j \in Jobs : status'[j] = "claimed" => \E u \in Threads : ToPush(u)' /\ sub'[u].job = j
    BY <1>3, TakesFacts DEF NoJobLost, ToPush
  <2> QED
    BY <2>1, <2>2, <2>3 DEF NoJobLost
<1>4. ASSUME NEW t \in Threads, EndRun(t) PROVE NoJobLost'
  <2>1. /\ pc[t] = "run" /\ cur[t] \in Jobs /\ UNCHANGED <<cur, jobs, sub>>
        /\ status'[cur[t]] = "done"
        /\ \A u \in Threads : u # t => pc'[u] = pc[u]
        /\ \A j \in Jobs : j # cur[t] => status'[j] = status[j]
    BY <1>4 DEF EndRun, Types, Threading
  <2> QED
    BY <2>1 DEF NoJobLost, ToPush, InQueue
<1>5. ASSUME NEW t \in Threads, TaskEnd(t) PROVE NoJobLost'
  <2>1. /\ pc[t] = "ended" /\ UNCHANGED <<jobs, sub, status>>
        /\ \A u \in Threads : u # t => pc'[u] = pc[u] /\ cur'[u] = cur[u]
    BY <1>5 DEF TaskEnd, Types
  <2> QED
    BY <2>1 DEF NoJobLost, ToPush, InQueue
<1>6. ASSUME NEW t \in Threads, Push(t) PROVE NoJobLost'
  <2>1. PICK j \in Jobs, q \in Queues :
         /\ sub[t].job = j /\ QueueOf[j] = q /\ ToPush(t) /\ ~ToPush(t)'
         /\ \A u \in Threads : u # t => sub'[u] = sub[u]
         /\ \A i \in Jobs : i # j => status'[i] = status[i]
         /\ status'[j] = "queued" /\ pc' = pc /\ cur' = cur /\ locked' = locked
         /\ \A r \in Queues : r # q => jobs'[r] = jobs[r] /\ accepted'[r] = accepted[r]
         /\ jobs[q] \in Seq(Jobs) /\ jobs'[q] = Append(jobs[q], j)
         /\ accepted[q] \in Seq(Jobs) /\ accepted'[q] = Append(accepted[q], j)
    BY <1>6, PushFacts
  <2>2. InQueue(j)'
    <3>1. Len(jobs[q]) + 1 \in 1..Len(jobs'[q]) /\ jobs'[q][Len(jobs[q]) + 1] = j
      BY <2>1, AppendFacts
    <3> QED
      BY <2>1, <3>1 DEF InQueue
  <2>3. ASSUME NEW i \in Jobs, InQueue(i) PROVE InQueue(i)'
    <3>1. PICK k \in 1..Len(jobs[QueueOf[i]]) : jobs[QueueOf[i]][k] = i
      BY <2>3 DEF InQueue
    <3>2. CASE QueueOf[i] = q
      <4>1. k \in 1..Len(jobs'[q]) /\ jobs'[q][k] = i
        BY <2>1, <3>1, <3>2, AppendFacts
      <4> QED
        BY <3>2, <4>1 DEF InQueue
    <3>3. CASE QueueOf[i] # q
      BY <1>0, <2>1, <3>1, <3>3 DEF InQueue
    <3> QED
      BY <3>2, <3>3
  <2>4. \A i \in Jobs : status'[i] = "claimed" => \E u \in Threads : ToPush(u)' /\ sub'[u].job = i
    BY <2>1 DEF NoJobLost, ToPush
  <2> QED
    BY <2>1, <2>2, <2>3, <2>4 DEF NoJobLost
<1>7. ASSUME NEW t \in Threads, NEW j \in Jobs, Add(t, j) PROVE NoJobLost'
  <2>1. /\ status[j] = "new" /\ status'[j] = "claimed" /\ UNCHANGED <<jobs, pc, cur>>
        /\ \A i \in Jobs : i # j => status'[i] = status[i]
        /\ sub'[t].job = j /\ ToPush(t)' /\ sub[t] = NotAdding
        /\ \A u \in Threads : u # t => sub'[u] = sub[u]
    BY <1>7, AddFacts DEF Add, Types
  <2> QED
    BY <2>1 DEF NoJobLost, ToPush, InQueue
<1> QED
  BY <1>1, <1>2, <1>3, <1>4, <1>5, <1>6, <1>7 DEF StepKind

(* The status of a job tells whether it was taken from its queue. *)
LEMMA AcceptedStatus ==
  ASSUME Types, JobsInQueues, NEW q \in Queues, Ordered(q), NEW i \in 1..Len(accepted[q])
  PROVE  /\ accepted[q][i] \in Jobs
         /\ i > Taken(q) => status[accepted[q][i]] = "queued"
         /\ i <= Taken(q) => status[accepted[q][i]] \in {"running", "done"}
         /\ Taken(q) \in 0..Len(accepted[q])
<1>1. /\ accepted[q] \in Seq(Jobs) /\ jobs[q] \in Seq(Jobs) /\ Taken(q) \in Nat
      /\ Len(jobs[q]) \in Nat /\ Len(accepted[q]) \in Nat
      /\ Len(jobs[q]) = Len(accepted[q]) - Taken(q)
  BY DEF Types, Ordered, Taken
<1>2. ASSUME i > Taken(q) PROVE status[accepted[q][i]] = "queued"
  <2>1. i - Taken(q) \in 1..Len(jobs[q]) /\ Taken(q) + (i - Taken(q)) = i
    BY <1>1, <1>2
  <2>2. jobs[q][i - Taken(q)] = accepted[q][i]
    BY <2>1 DEF Ordered
  <2> QED
    BY <2>1, <2>2 DEF JobsInQueues
<1>3. i <= Taken(q) => status[accepted[q][i]] \in {"running", "done"}
  BY <1>1 DEF Ordered
<1> QED
  BY <1>1, <1>2, <1>3

(* A step that leaves a queue alone. *)
LEMMA OrderFrame ==
  ASSUME Types, NEW q \in Queues, Ordered(q),
         jobs'[q] = jobs[q], accepted'[q] = accepted[q], q \in locked' <=> q \in locked,
         \A i \in 1..Len(accepted[q]) : status'[accepted[q][i]] = status[accepted[q][i]],
         \A t \in Threads : Holds(t, q)' => Holds(t, q) /\ cur'[t] = cur[t]
  PROVE  Ordered(q)'
<1>1. Taken(q)' = Taken(q)
  BY DEF Taken
<1>2. Len(accepted[q]) \in Nat /\ Taken(q) \in Nat /\ Len(jobs[q]) \in Nat
      /\ (Taken(q) > 0 => Taken(q) \in 1..Len(accepted[q]))
  <2>1. Len(accepted[q]) \in Nat /\ Len(jobs[q]) \in Nat
    <3>1. accepted[q] \in Seq(Jobs) /\ jobs[q] \in Seq(Jobs)
      BY DEF Types
    <3> QED
      BY <3>1
  <2>2. Taken(q) \in Nat
    BY DEF Ordered
  <2>3. \A a, b \in Nat : a - b \in Nat => a = (a - b) + b /\ (a - b > 0 => a - b \in 1..a)
    OBVIOUS
  <2> QED
    BY <2>1, <2>2, <2>3 DEF Taken
<1>3. \A t, u \in Threads : Holds(t, q)' /\ Holds(u, q)' => t = u
  BY DEF Ordered
<1>4. \A t \in Threads : Holds(t, q)' =>
        q \in locked /\ Taken(q) > 0 /\ cur'[t] = accepted[q][Taken(q)]
  BY DEF Ordered
<1>5. /\ \A i \in 1..Len(jobs[q]) : jobs[q][i] = accepted[q][Taken(q) + i]
      /\ \A i \in 1..Len(accepted[q]) : QueueOf[accepted[q][i]] = q
      /\ \A i \in 1..Len(accepted[q]) : i < Taken(q) => status'[accepted[q][i]] = "done"
      /\ Taken(q) > 0 => status'[accepted[q][Taken(q)]] \in {"running", "done"}
      /\ Taken(q) > 0 /\ q \notin locked => status'[accepted[q][Taken(q)]] = "done"
  BY <1>2 DEF Ordered
<1> QED
  BY <1>1, <1>2, <1>3, <1>4, <1>5 DEF Ordered

(* Every step keeps the order of a queue nobody waits for: a worker takes a job
   of it only when it is not locked, so the last job taken is finished. *)
LEMMA OrderStep ==
  Types /\ Threading /\ JobsInThreads /\ JobsInQueues /\ Order /\ StepKind => Order'
<1> SUFFICES ASSUME Types, Threading, JobsInThreads, JobsInQueues, Order, StepKind,
                    NEW q \in Serial \ SerialWaits
             PROVE  Ordered(q)'
  BY DEF Order
<1>0. /\ q \in Queues /\ q # Parallel /\ q \notin SerialWaits \cup {Parallel}
      /\ Ordered(q) /\ \A i \in 1..Len(accepted[q]) : QueueOf[accepted[q][i]] = q
      /\ \A i \in 1..Len(accepted[q]) : accepted[q][i] \in Jobs
      /\ accepted[q] \in Seq(Jobs) /\ jobs[q] \in Seq(Jobs)
      /\ \A t \in Threads : pc[t] \in Running => cur[t] \in Jobs
      /\ \A r \in Queues : \A i \in 1..Len(jobs[r]) : jobs[r][i] \in Jobs
  BY DispatcherAssumption DEF Queues, Types, Threading, Order, Ordered
<1>n. /\ Len(accepted[q]) \in Nat /\ Taken(q) \in Nat /\ Len(jobs[q]) \in Nat
      /\ Len(accepted[q]) = Taken(q) + Len(jobs[q])
      /\ (Taken(q) > 0 => Taken(q) \in 1..Len(accepted[q]))
  <2>1. Len(accepted[q]) \in Nat /\ Len(jobs[q]) \in Nat
    BY <1>0
  <2>2. Taken(q) \in Nat
    BY <1>0 DEF Ordered
  <2>3. \A a, b \in Nat : a - b \in Nat => a = (a - b) + b /\ (a - b > 0 => a - b \in 1..a)
    OBVIOUS
  <2> QED
    BY <2>1, <2>2, <2>3 DEF Taken
<1>1. CASE Quiet
  <2>1. \A t \in Threads : Holds(t, q)' => Holds(t, q) /\ cur'[t] = cur[t]
    BY <1>1 DEF Quiet, SamePlaces, Holds, Running
  <2> QED
    BY <1>0, <1>1, <2>1, OrderFrame DEF Quiet
<1>2. CASE Drops
  <2>1. \A j \in Jobs : QueueOf[j] # Parallel => status'[j] = status[j]
    BY <1>2 DEF Drops, JobsInQueues, Queues, Types
  <2>2. \A t \in Threads : Holds(t, q)' => Holds(t, q) /\ cur'[t] = cur[t]
    BY <1>2 DEF Drops, SamePlaces, Holds, Running
  <2>3. jobs'[q] = jobs[q]
    BY <1>0, <1>2 DEF Drops, Types
  <2>4. \A i \in 1..Len(accepted[q]) : status'[accepted[q][i]] = status[accepted[q][i]]
    BY <1>0, <2>1
  <2> QED
    BY <1>0, <1>2, <2>2, <2>3, <2>4, OrderFrame DEF Drops
<1>3. ASSUME NEW t \in Threads, NEW r \in Queues, Takes(t, r) PROVE Ordered(q)'
  <2>1. QueueOf[jobs[r][1]] = r /\ status[jobs[r][1]] = "queued" /\ jobs[r][1] \in Jobs
    BY <1>3, TakesFacts DEF JobsInQueues
  <2>2. locked' = LockedBy(r)
    BY <1>3 DEF Takes, TakeFrom
  <2>3. CASE r # q
    <3>1. \A i \in 1..Len(accepted[q]) : status'[accepted[q][i]] = status[accepted[q][i]]
      BY <1>0, <1>3, <2>1, <2>3, TakesFacts
    <3>2. \A u \in Threads : Holds(u, q)' => Holds(u, q) /\ cur'[u] = cur[u]
      BY <1>3, <2>1, <2>3, TakesFacts DEF Holds, Running
    <3>3. q \in locked' <=> q \in locked
      BY <2>2, <2>3 DEF LockedBy
    <3>4. jobs'[q] = jobs[q] /\ accepted'[q] = accepted[q]
      BY <1>0, <1>3, <2>3, TakesFacts
    <3> QED
      BY <1>0, <3>1, <3>2, <3>3, <3>4, OrderFrame
  <2>4. CASE r = q
    <3>1. q \notin locked /\ q \in locked'
      BY <1>0, <1>3, <2>2, <2>4 DEF Takes, LockedBy
    <3>2. \A u \in Threads : ~Holds(u, q)
      BY <1>0, <3>1 DEF Ordered
    <3>3. \A u \in Threads : Holds(u, q)' <=> u = t
      BY <1>3, <2>1, <2>4, <3>2, TakesFacts DEF Holds, Running
    <3>4. Taken(q)' = Taken(q) + 1 /\ accepted' = accepted /\ Len(jobs[q]) > 0
      <4>1. Len(jobs'[q]) = Len(jobs[q]) - 1 /\ Len(jobs[q]) \in Nat \ {0} /\ accepted' = accepted
        BY <1>3, <2>4, TakesFacts
      <4> QED
        BY <1>n, <4>1 DEF Taken
    <3>5. accepted[q][Taken(q) + 1] = jobs[q][1]
      BY <1>0, <1>n, <3>4 DEF Ordered
    <3>6. \A i \in 1..Len(jobs'[q]) : jobs'[q][i] = accepted[q][Taken(q) + 1 + i]
      <4> SUFFICES ASSUME NEW i \in 1..Len(jobs'[q]) PROVE jobs'[q][i] = accepted[q][Taken(q) + 1 + i]
        OBVIOUS
      <4>1. jobs'[q][i] = jobs[q][i + 1] /\ i + 1 \in 1..Len(jobs[q])
        BY <1>3, <2>4, TakesFacts
      <4>2. jobs[q][i + 1] = accepted[q][Taken(q) + (i + 1)]
        BY <1>0, <4>1 DEF Ordered
      <4>3. Taken(q) + (i + 1) = Taken(q) + 1 + i
        BY <1>n, <4>1
      <4> QED
        BY <4>1, <4>2, <4>3
    <3>7. \A i \in 1..Len(accepted[q]) : i < Taken(q) + 1 => status'[accepted[q][i]] = "done"
      <4> SUFFICES ASSUME NEW i \in 1..Len(accepted[q]), i < Taken(q) + 1
                   PROVE  status'[accepted[q][i]] = "done"
        OBVIOUS
      <4>1. status[accepted[q][i]] = "done"
        <5>1. CASE i < Taken(q)
          BY <1>0, <5>1 DEF Ordered
        <5>2. CASE i = Taken(q)
          BY <1>0, <1>n, <3>1, <5>2 DEF Ordered
        <5> QED
          BY <1>n, <5>1, <5>2
      <4> QED
        BY <1>0, <1>3, <2>1, <2>4, <4>1, TakesFacts
    <3>8. status'[accepted[q][Taken(q) + 1]] = "running" /\ cur'[t] = accepted[q][Taken(q) + 1]
      BY <1>3, <2>4, <3>5, TakesFacts
    <3> QED
      BY <1>0, <1>n, <3>1, <3>3, <3>4, <3>6, <3>7, <3>8 DEF Ordered
  <2> QED
    BY <2>3, <2>4
<1>4. ASSUME NEW t \in Threads, EndRun(t) PROVE Ordered(q)'
  <2>1. /\ pc[t] = "run" /\ status[cur[t]] = "running" /\ cur[t] \in Jobs
        /\ status'[cur[t]] = "done" /\ UNCHANGED <<cur, jobs, accepted, locked>>
        /\ \A j \in Jobs : j # cur[t] => status'[j] = status[j]
    BY <1>4, <1>0 DEF EndRun, JobsInThreads, Types, Running
  <2>2. \A u \in Threads : Holds(u, q)' => Holds(u, q)
    BY <1>4 DEF EndRun, Types, Holds, Running
  <2>3. CASE QueueOf[cur[t]] # q
    <3>1. \A i \in 1..Len(accepted[q]) : status'[accepted[q][i]] = status[accepted[q][i]]
      BY <1>0, <2>1, <2>3
    <3> QED
      BY <1>0, <2>1, <2>2, <3>1, OrderFrame
  <2>4. CASE QueueOf[cur[t]] = q
    <3>1. Holds(t, q)
      BY <2>1, <2>4 DEF Holds, Running
    <3>2. /\ Taken(q) > 0 /\ cur[t] = accepted[q][Taken(q)] /\ q \in locked
          /\ \A u \in Threads : Holds(u, q)' => u = t
      BY <1>0, <2>2, <3>1 DEF Ordered
    <3>3. \A i \in 1..Len(accepted[q]) : status[accepted[q][i]] = "done" => status'[accepted[q][i]] = "done"
      BY <1>0, <2>1
    <3>4. Taken(q)' = Taken(q)
      BY <2>1 DEF Taken
    <3>5. /\ \A i \in 1..Len(jobs[q]) : jobs[q][i] = accepted[q][Taken(q) + i]
          /\ \A i \in 1..Len(accepted[q]) : i < Taken(q) => status'[accepted[q][i]] = "done"
      BY <1>0, <3>3 DEF Ordered
    <3> QED
      BY <1>0, <1>n, <2>1, <3>2, <3>4, <3>5 DEF Ordered
  <2> QED
    BY <2>3, <2>4
<1>5. ASSUME NEW t \in Threads, TaskEnd(t) PROVE Ordered(q)'
  <2>1. /\ pc[t] = "ended" /\ UNCHANGED <<jobs, accepted, status>>
        /\ pc'[t] \notin Running /\ locked' = locked \ {QueueOf[cur[t]]}
        /\ \A u \in Threads : u # t => cur'[u] = cur[u] /\ pc'[u] = pc[u]
    BY <1>5 DEF TaskEnd, Types, Running, UnlockedBy
  <2>2. \A u \in Threads : Holds(u, q)' => u # t /\ Holds(u, q) /\ cur'[u] = cur[u]
    BY <2>1 DEF Holds
  <2>3. CASE QueueOf[cur[t]] # q
    BY <1>0, <2>1, <2>2, <2>3, OrderFrame
  <2>4. CASE QueueOf[cur[t]] = q
    <3>1. Holds(t, q)
      BY <2>1, <2>4 DEF Holds, Running
    <3>2. /\ Taken(q) > 0 /\ cur[t] = accepted[q][Taken(q)]
          /\ \A u \in Threads : ~Holds(u, q)'
      BY <1>0, <2>2, <3>1 DEF Ordered
    <3>3. status[accepted[q][Taken(q)]] = "done"
      BY <2>1, <3>2 DEF JobsInThreads
    <3>4. Taken(q)' = Taken(q)
      BY <2>1 DEF Taken
    <3>5. /\ \A i \in 1..Len(jobs[q]) : jobs[q][i] = accepted[q][Taken(q) + i]
          /\ \A i \in 1..Len(accepted[q]) : i < Taken(q) => status[accepted[q][i]] = "done"
      BY <1>0 DEF Ordered
    <3> QED
      BY <1>0, <1>n, <2>1, <3>2, <3>3, <3>4, <3>5 DEF Ordered
  <2> QED
    BY <2>3, <2>4
<1>6. ASSUME NEW t \in Threads, Push(t) PROVE Ordered(q)'
  <2>1. PICK j \in Jobs, r \in Queues :
         /\ sub[t].job = j /\ QueueOf[j] = r /\ ToPush(t) /\ ~ToPush(t)'
         /\ \A u \in Threads : u # t => sub'[u] = sub[u]
         /\ \A i \in Jobs : i # j => status'[i] = status[i]
         /\ status'[j] = "queued" /\ pc' = pc /\ cur' = cur /\ locked' = locked
         /\ \A s \in Queues : s # r => jobs'[s] = jobs[s] /\ accepted'[s] = accepted[s]
         /\ jobs[r] \in Seq(Jobs) /\ jobs'[r] = Append(jobs[r], j)
         /\ accepted[r] \in Seq(Jobs) /\ accepted'[r] = Append(accepted[r], j)
    BY <1>6, PushFacts
  <2>2. status[j] = "claimed"
    BY <2>1 DEF JobsInThreads
  <2>3. \A i \in 1..Len(accepted[q]) : accepted[q][i] # j /\ status'[accepted[q][i]] = status[accepted[q][i]]
    <3> SUFFICES ASSUME NEW i \in 1..Len(accepted[q])
                 PROVE  accepted[q][i] # j /\ status'[accepted[q][i]] = status[accepted[q][i]]
      OBVIOUS
    <3>1. status[accepted[q][i]] \in {"queued", "running", "done"} /\ accepted[q][i] \in Jobs
      <4>1. i > Taken(q) \/ i <= Taken(q)
        BY <1>n
      <4> QED
        BY <1>0, <4>1, AcceptedStatus
    <3> QED
      BY <2>1, <2>2, <3>1
  <2>4. \A u \in Threads : Holds(u, q)' => Holds(u, q) /\ cur'[u] = cur[u]
    BY <2>1 DEF Holds
  <2>5. CASE r # q
    BY <1>0, <2>1, <2>3, <2>4, <2>5, OrderFrame
  <2>6. CASE r = q
    <3>1. /\ Len(jobs'[q]) = Len(jobs[q]) + 1 /\ Len(accepted'[q]) = Len(accepted[q]) + 1
          /\ Taken(q)' = Taken(q)
      <4>1. Len(jobs'[q]) = Len(jobs[q]) + 1 /\ Len(accepted'[q]) = Len(accepted[q]) + 1
        BY <2>1, <2>6, AppendFacts
      <4> QED
        BY <1>n, <4>1 DEF Taken
    <3>2. /\ accepted'[q][Len(accepted[q]) + 1] = j
          /\ \A i \in 1..Len(accepted[q]) : accepted'[q][i] = accepted[q][i]
          /\ jobs'[q][Len(jobs[q]) + 1] = j
          /\ \A i \in 1..Len(jobs[q]) : jobs'[q][i] = jobs[q][i]
      BY <2>1, <2>6, AppendFacts
    <3>3. ASSUME NEW i \in 1..Len(jobs'[q]) PROVE jobs'[q][i] = accepted'[q][Taken(q) + i]
      <4>1. CASE i \in 1..Len(jobs[q])
        <5>1. Taken(q) + i \in 1..Len(accepted[q])
          BY <1>n, <4>1
        <5>2. jobs[q][i] = accepted[q][Taken(q) + i]
          BY <1>0, <4>1 DEF Ordered
        <5> QED
          BY <3>2, <4>1, <5>1, <5>2
      <4>2. CASE i = Len(jobs[q]) + 1
        <5>1. Taken(q) + i = Len(accepted[q]) + 1
          BY <1>n, <4>2
        <5> QED
          BY <3>2, <4>2, <5>1
      <4> QED
        BY <1>n, <3>1, <4>1, <4>2
    <3>4. ASSUME NEW i \in 1..Len(accepted'[q])
          PROVE  /\ QueueOf[accepted'[q][i]] = q
                 /\ i < Taken(q) => status'[accepted'[q][i]] = "done"
      <4>1. CASE i \in 1..Len(accepted[q])
        <5>1. accepted'[q][i] = accepted[q][i] /\ status'[accepted'[q][i]] = status[accepted[q][i]]
          BY <2>3, <3>2, <4>1
        <5> QED
          BY <1>0, <4>1, <5>1 DEF Ordered
      <4>2. CASE i = Len(accepted[q]) + 1
        BY <1>n, <2>1, <2>6, <3>2, <4>2
      <4> QED
        BY <1>n, <3>1, <4>1, <4>2
    <3>5. /\ Taken(q) > 0 => status'[accepted'[q][Taken(q)]] \in {"running", "done"}
          /\ Taken(q) > 0 /\ q \notin locked => status'[accepted'[q][Taken(q)]] = "done"
          /\ Taken(q) > 0 => accepted'[q][Taken(q)] = accepted[q][Taken(q)]
      BY <1>0, <1>n, <2>3, <3>2 DEF Ordered
    <3>6. \A u \in Threads : Holds(u, q)' =>
            q \in locked /\ Taken(q) > 0 /\ cur'[u] = accepted'[q][Taken(q)]
      BY <1>0, <2>4, <3>5 DEF Ordered
    <3>7. \A u, v \in Threads : Holds(u, q)' /\ Holds(v, q)' => u = v
      BY <1>0, <2>4 DEF Ordered
    <3> QED
      BY <1>n, <2>1, <3>1, <3>3, <3>4, <3>5, <3>6, <3>7 DEF Ordered
  <2> QED
    BY <2>5, <2>6
<1>7. ASSUME NEW t \in Threads, NEW j \in Jobs, Add(t, j) PROVE Ordered(q)'
  <2>1. /\ status[j] = "new" /\ UNCHANGED <<jobs, pc, cur, accepted, locked>>
        /\ \A i \in Jobs : i # j => status'[i] = status[i]
    BY <1>7 DEF Add, Types
  <2>2. \A i \in 1..Len(accepted[q]) : status'[accepted[q][i]] = status[accepted[q][i]]
    <3> SUFFICES ASSUME NEW i \in 1..Len(accepted[q])
                 PROVE  status'[accepted[q][i]] = status[accepted[q][i]]
      OBVIOUS
    <3>1. status[accepted[q][i]] \in {"queued", "running", "done"} /\ accepted[q][i] \in Jobs
      <4>1. i > Taken(q) \/ i <= Taken(q)
        BY <1>n
      <4> QED
        BY <1>0, <4>1, AcceptedStatus
    <3> QED
      BY <2>1, <3>1
  <2>3. \A u \in Threads : Holds(u, q)' => Holds(u, q) /\ cur'[u] = cur[u]
    BY <2>1 DEF Holds
  <2> QED
    BY <1>0, <2>1, <2>2, <2>3, OrderFrame
<1> QED
  BY <1>1, <1>2, <1>3, <1>4, <1>5, <1>6, <1>7 DEF StepKind

(* A thread about to start threads is adding a job. *)
LEMMA TodoStart ==
  ASSUME Types, NEW t \in Threads, Todo(t, "start")
  PROVE  Starting(t) /\ sub[t] # NotAdding
<1>1. sub[t] \in Additions /\ sub[t] # NotAdding
  BY DispatcherAssumption DEF Types, Todo, Additions, NotAdding
<1>2. sub[t].todo \in Todos /\ Head(sub[t].todo) = "start"
  BY <1>1 DEF Additions, Todo
<1> QED
  BY <1>1, <1>2, TodoFacts DEF Starting

(* Only one caller: another thread that adds a job is a worker running one. *)
LEMMA Adders ==
  ASSUME Types, Threading, JobsInThreads, \A c, d \in Callers : c = d,
         NEW c \in Callers, NEW t \in Threads, sub[t] # NotAdding
  PROVE  t = c \/ \E j \in Jobs : status[j] # "new" /\ t \in started
<1>1. CASE t \in Callers
  BY <1>1
<1>2. CASE t \in Workers
  <2>1. pc[t] = "run" /\ t \in started /\ cur[t] \in Jobs
    BY <1>2 DEF Threading, Types, WorkerStates, Running
  <2> QED
    BY <2>1 DEF JobsInThreads
<1> QED
  BY <1>1, <1>2 DEF Threads

(* With one caller: threads are being started while it adds a job, and later
   all have been. *)
LEMMA ThreadsStartedStep ==
  ASSUME \A c, d \in Callers : c = d,
         Types, Threading, JobsInThreads, JobsInQueues, [Next]_vars,
         NEW c0 \in Callers, ThreadsStarted(c0)
  PROVE  ThreadsStarted(c0)'
<1>1. ASSUME NEW w \in Workers, WorkerTake(w) PROVE ThreadsStarted(c0)'
  <2>1. \E j \in Jobs : status[j] = "queued"
    <3>1. PICK q \in Queues : jobs[q] # <<>> /\ TakeFrom(w, q)
      BY <1>1 DEF WorkerTake, Found, Ready
    <3>2. jobs[q] \in Seq(Jobs) /\ jobs[q] # <<>>
      BY <3>1 DEF Types
    <3>3. jobs[q][1] \in Jobs /\ 1 \in 1..Len(jobs[q])
      BY <3>2
    <3> QED
      BY <3>3 DEF JobsInQueues
  <2>2. sub' = sub /\ started' = started
    BY <1>1 DEF WorkerTake, TakeFrom
  <2> QED
    BY <2>1, <2>2 DEF ThreadsStarted, Starting
<1>2. ASSUME NEW w \in Workers, WorkerDoze(w) PROVE ThreadsStarted(c0)'
  <2>1. sub'[c0] = sub[c0] /\ UNCHANGED <<started, status>>
    BY <1>2 DEF WorkerDoze
  <2> QED
    BY <2>1 DEF ThreadsStarted, Starting
<1>3. ASSUME NEW w \in Workers, WorkerSleep(w) PROVE ThreadsStarted(c0)'
  <2>1. sub'[c0] = sub[c0] /\ UNCHANGED <<started, status>>
    BY <1>3 DEF WorkerSleep
  <2> QED
    BY <2>1 DEF ThreadsStarted, Starting
<1>4. ASSUME NEW w \in Workers, WorkerStop(w) PROVE ThreadsStarted(c0)'
  <2>1. sub'[c0] = sub[c0] /\ UNCHANGED <<started, status>>
    BY <1>4 DEF WorkerStop
  <2> QED
    BY <2>1 DEF ThreadsStarted, Starting
<1>5. ASSUME NEW w \in Workers, SpuriousWake(w) PROVE ThreadsStarted(c0)'
  <2>1. sub'[c0] = sub[c0] /\ UNCHANGED <<started, status>>
    BY <1>5 DEF SpuriousWake
  <2> QED
    BY <2>1 DEF ThreadsStarted, Starting
<1>6. ASSUME NEW t \in Threads, StartThreads(t) PROVE ThreadsStarted(c0)'
  <2>1. CASE started = Workers
    BY <1>6, <2>1 DEF StartThreads, ThreadsStarted
  <2>2. CASE started # Workers
    <3>1. Starting(t) /\ sub[t] # NotAdding
      BY <1>6, TodoStart DEF StartThreads
    <3>2. Starting(c0)
      BY <2>2, <3>1, Adders DEF ThreadsStarted
    <3>3. sub' = sub
      BY <1>6, <2>2 DEF StartThreads
    <3> QED
      BY <3>2, <3>3 DEF ThreadsStarted, Starting
  <2> QED
    BY <2>1, <2>2
<1>7. ASSUME NEW t \in Threads, Push(t) PROVE ThreadsStarted(c0)'
  <2>1. Starting(c0) => Starting(c0)'
    BY <1>7, StepDoneFacts DEF Push, Starting, Threads
  <2>2. \E j \in Jobs : status[j] # "new"
    BY <1>7, StepDoneFacts DEF Push, JobsInThreads, Additions
  <2>3. started' = started
    BY <1>7 DEF Push
  <2> QED
    BY <2>1, <2>2, <2>3 DEF ThreadsStarted
<1>8. ASSUME NEW t \in Threads, Notify(t) PROVE ThreadsStarted(c0)'
  <2>1. Starting(c0) => Starting(c0)'
    BY <1>8, StepDoneFacts DEF Notify, Starting, Threads
  <2>2. started' = started /\ status' = status
    BY <1>8 DEF Notify
  <2> QED
    BY <2>1, <2>2 DEF ThreadsStarted
<1>9. ASSUME NEW t \in Threads, EndRun(t) PROVE ThreadsStarted(c0)'
  <2>1. cur[t] \in Jobs /\ status[cur[t]] = "running" /\ sub' = sub /\ started' = started
    BY <1>9 DEF EndRun, JobsInThreads, Threading, Running
  <2> QED
    BY <2>1 DEF ThreadsStarted, Starting
<1>10. ASSUME NEW t \in Threads, TaskEnd(t) PROVE ThreadsStarted(c0)'
  <2>1. sub'[c0] = sub[c0] /\ UNCHANGED <<started, status>>
    BY <1>10 DEF TaskEnd
  <2> QED
    BY <2>1 DEF ThreadsStarted, Starting
<1>11. ASSUME NEW t \in Threads, NEW j \in Jobs, Add(t, j) PROVE ThreadsStarted(c0)'
  <2>1. started' = started
    BY <1>11 DEF Add
  <2>2. CASE t = c0
    BY <1>11, <2>2, AddFacts DEF ThreadsStarted
  <2>3. CASE t # c0
    <3>1. t \in Workers /\ pc[t] = "run"
      BY <1>11, <2>3 DEF Add, CanCall, Threads, Types, WorkerStates
    <3>2. cur[t] \in Jobs /\ status[cur[t]] = "running"
      BY <3>1 DEF JobsInThreads, Threading, Running, Threads
    <3>3. sub'[c0] = sub[c0]
      BY <1>11, <2>3, AddFacts DEF Threads
    <3> QED
      BY <2>1, <3>2, <3>3 DEF ThreadsStarted, Starting
  <2> QED
    BY <2>2, <2>3
<1>12. ASSUME NEW c \in Callers, NEW q \in SerialWaits \cup {Parallel}, Wait(c, q)
       PROVE  ThreadsStarted(c0)'
  <2>1. sub'[c0] = sub[c0] /\ UNCHANGED <<started, status>>
    BY <1>12 DEF Wait
  <2> QED
    BY <2>1 DEF ThreadsStarted, Starting
<1>13. ASSUME NEW c \in Callers, WaitTake(c) PROVE ThreadsStarted(c0)'
  <2>1. \E j \in Jobs : status[j] = "queued"
    <3>1. PICK q \in Queues : jobs[q] # <<>>
      BY <1>13, DispatcherAssumption DEF WaitTake, Types, Queues
    <3>2. jobs[q] \in Seq(Jobs) /\ jobs[q] # <<>>
      BY <3>1 DEF Types
    <3>3. jobs[q][1] \in Jobs /\ 1 \in 1..Len(jobs[q])
      BY <3>2
    <3> QED
      BY <3>3 DEF JobsInQueues
  <2>2. sub' = sub /\ started' = started
    BY <1>13 DEF WaitTake, TakeFrom
  <2> QED
    BY <2>1, <2>2 DEF ThreadsStarted, Starting
<1>14. ASSUME NEW c \in Callers, WaitEmpty(c) PROVE ThreadsStarted(c0)'
  <2>1. sub'[c0] = sub[c0] /\ UNCHANGED <<started, status>>
    BY <1>14 DEF WaitEmpty
  <2> QED
    BY <2>1 DEF ThreadsStarted, Starting
<1>15. ASSUME NEW c \in Callers, WaitSize(c) PROVE ThreadsStarted(c0)'
  <2>1. sub'[c0] = sub[c0] /\ UNCHANGED <<started, status>>
    BY <1>15 DEF WaitSize
  <2> QED
    BY <2>1 DEF ThreadsStarted, Starting
<1>16. ASSUME NEW c \in Callers, WaitReturn(c) PROVE ThreadsStarted(c0)'
  <2>1. sub'[c0] = sub[c0] /\ UNCHANGED <<started, status>>
    BY <1>16 DEF WaitReturn
  <2> QED
    BY <2>1 DEF ThreadsStarted, Starting
<1>17. ASSUME NEW c \in Callers, Clear(c) PROVE ThreadsStarted(c0)'
  <2>1. (\A j \in Jobs : status[j] = "new") => \A j \in Jobs : status'[j] = "new"
    BY <1>17 DEF Clear, ClearJobs, JobsInQueues, Queues
  <2>2. sub' = sub /\ started' = started
    BY <1>17 DEF Clear, ClearJobs
  <2> QED
    BY <2>1, <2>2 DEF ThreadsStarted, Starting
<1>18. ASSUME NEW c \in Callers, Destroy(c) PROVE ThreadsStarted(c0)'
  <2>1. sub'[c0] = sub[c0] /\ UNCHANGED <<started, status>>
    BY <1>18 DEF Destroy
  <2> QED
    BY <2>1 DEF ThreadsStarted, Starting
<1>19. ASSUME NEW c \in Callers, DestroyClear(c) PROVE ThreadsStarted(c0)'
  <2>1. (\A j \in Jobs : status[j] = "new") => \A j \in Jobs : status'[j] = "new"
    BY <1>19 DEF DestroyClear, ClearJobs, JobsInQueues, Queues
  <2>2. sub' = sub /\ started' = started
    BY <1>19 DEF DestroyClear, ClearJobs
  <2> QED
    BY <2>1, <2>2 DEF ThreadsStarted, Starting
<1>20. ASSUME NEW c \in Callers, DestroyNotify(c) PROVE ThreadsStarted(c0)'
  <2>1. sub'[c0] = sub[c0] /\ UNCHANGED <<started, status>>
    BY <1>20 DEF DestroyNotify
  <2> QED
    BY <2>1 DEF ThreadsStarted, Starting
<1>21. ASSUME NEW c \in Callers, DestroyJoin(c) PROVE ThreadsStarted(c0)'
  <2>1. sub'[c0] = sub[c0] /\ UNCHANGED <<started, status>>
    BY <1>21 DEF DestroyJoin
  <2> QED
    BY <2>1 DEF ThreadsStarted, Starting
<1>22. CASE UNCHANGED vars
  BY <1>22 DEF vars, ThreadsStarted, Starting
<1> QED
  BY <1>1, <1>2, <1>3, <1>4, <1>5, <1>6, <1>7, <1>8, <1>9, <1>10, <1>11, <1>12, <1>13,
     <1>14, <1>15, <1>16, <1>17, <1>18, <1>19, <1>20, <1>21, <1>22
     DEF Next, WorkerLoop, AddStep, WaitStep, DestroyStep

(* With one caller: only that caller destroys the dispatcher. *)
LEMMA TerminateStep ==
  ASSUME \A c, d \in Callers : c = d,
         Types, [Next]_vars, NEW c0 \in Callers, terminate => pc[c0] \in Destroying
  PROVE  terminate' => pc'[c0] \in Destroying
<1>1. ASSUME NEW w \in Workers, WorkerTake(w) PROVE terminate' => pc'[c0] \in Destroying
  BY <1>1, DispatcherAssumption DEF WorkerTake, TakeFrom, Types, Threads, Destroying
<1>2. ASSUME NEW w \in Workers, WorkerDoze(w) PROVE terminate' => pc'[c0] \in Destroying
  BY <1>2, DispatcherAssumption DEF WorkerDoze, Types, Threads, Destroying, Waiting
<1>3. ASSUME NEW w \in Workers, WorkerSleep(w) PROVE terminate' => pc'[c0] \in Destroying
  BY <1>3, DispatcherAssumption DEF WorkerSleep, Types, Threads, Destroying, Waiting
<1>4. ASSUME NEW w \in Workers, WorkerStop(w) PROVE terminate' => pc'[c0] \in Destroying
  BY <1>4, DispatcherAssumption DEF WorkerStop, Types, Threads, Destroying, Waiting
<1>5. ASSUME NEW w \in Workers, SpuriousWake(w) PROVE terminate' => pc'[c0] \in Destroying
  BY <1>5, DispatcherAssumption DEF SpuriousWake, Types, Threads, Destroying, Waiting
<1>6. ASSUME NEW t \in Threads, StartThreads(t) PROVE terminate' => pc'[c0] \in Destroying
  BY <1>6, DispatcherAssumption DEF StartThreads, Types, Threads, Destroying
<1>7. ASSUME NEW t \in Threads, Push(t) PROVE terminate' => pc'[c0] \in Destroying
  BY <1>7 DEF Push
<1>8. ASSUME NEW t \in Threads, Notify(t) PROVE terminate' => pc'[c0] \in Destroying
  BY <1>8, DispatcherAssumption DEF Notify, Types, Threads, Destroying, Waiting
<1>9. ASSUME NEW t \in Threads, EndRun(t) PROVE terminate' => pc'[c0] \in Destroying
  BY <1>9, DispatcherAssumption DEF EndRun, Types, Threads, Destroying, Waiting
<1>10. ASSUME NEW t \in Threads, TaskEnd(t) PROVE terminate' => pc'[c0] \in Destroying
  BY <1>10, DispatcherAssumption DEF TaskEnd, Types, Threads, Destroying, Waiting
<1>11. ASSUME NEW t \in Threads, NEW j \in Jobs, Add(t, j)
       PROVE  terminate' => pc'[c0] \in Destroying
  BY <1>11 DEF Add
<1>12. ASSUME NEW c \in Callers, NEW q \in SerialWaits \cup {Parallel}, Wait(c, q)
       PROVE  terminate' => pc'[c0] \in Destroying
  BY <1>12, DispatcherAssumption DEF Wait, Types, Threads, Destroying, Waiting
<1>13. ASSUME NEW c \in Callers, WaitTake(c) PROVE terminate' => pc'[c0] \in Destroying
  BY <1>13, DispatcherAssumption DEF WaitTake, TakeFrom, Types, Threads, Destroying
<1>14. ASSUME NEW c \in Callers, WaitEmpty(c) PROVE terminate' => pc'[c0] \in Destroying
  BY <1>14, DispatcherAssumption DEF WaitEmpty, Types, Threads, Destroying, Waiting
<1>15. ASSUME NEW c \in Callers, WaitSize(c) PROVE terminate' => pc'[c0] \in Destroying
  BY <1>15, DispatcherAssumption DEF WaitSize, Types, Threads, Destroying, Waiting
<1>16. ASSUME NEW c \in Callers, WaitReturn(c) PROVE terminate' => pc'[c0] \in Destroying
  BY <1>16, DispatcherAssumption DEF WaitReturn, Types, Threads, Destroying, Waiting
<1>17. ASSUME NEW c \in Callers, Clear(c) PROVE terminate' => pc'[c0] \in Destroying
  BY <1>17 DEF Clear, ClearJobs
<1>18. ASSUME NEW c \in Callers, Destroy(c) PROVE terminate' => pc'[c0] \in Destroying
  <2>1. c = c0
    OBVIOUS
  <2> QED
    BY <1>18, <2>1 DEF Destroy, Types, Threads, Destroying
<1>19. ASSUME NEW c \in Callers, DestroyClear(c) PROVE terminate' => pc'[c0] \in Destroying
  BY <1>19, DispatcherAssumption DEF DestroyClear, ClearJobs, Types, Threads, Destroying
<1>20. ASSUME NEW c \in Callers, DestroyNotify(c) PROVE terminate' => pc'[c0] \in Destroying
  BY <1>20, DispatcherAssumption DEF DestroyNotify, Types, Threads, Destroying, Waiting
<1>21. ASSUME NEW c \in Callers, DestroyJoin(c) PROVE terminate' => pc'[c0] \in Destroying
  BY <1>21, DispatcherAssumption DEF DestroyJoin, Types, Threads, Destroying, Waiting
<1>22. CASE UNCHANGED vars
  BY <1>22 DEF vars
<1> QED
  BY <1>1, <1>2, <1>3, <1>4, <1>5, <1>6, <1>7, <1>8, <1>9, <1>10, <1>11, <1>12, <1>13,
     <1>14, <1>15, <1>16, <1>17, <1>18, <1>19, <1>20, <1>21, <1>22
     DEF Next, WorkerLoop, AddStep, WaitStep, DestroyStep

(* With one caller: no thread is started between threads.size() and its use. *)
LEMMA SizeReadStep ==
  ASSUME \A c, d \in Callers : c = d,
         Types, Threading, JobsInThreads, [Next]_vars, NEW c0 \in Callers,
         ThreadsStarted(c0), SizeRead(c0)
  PROVE  SizeRead(c0)'
<1>1. ASSUME NEW w \in Workers, WorkerTake(w) PROVE SizeRead(c0)'
  BY <1>1, DispatcherAssumption DEF WorkerTake, TakeFrom, SizeRead, Waits, Types, Threads
<1>2. ASSUME NEW w \in Workers, WorkerDoze(w) PROVE SizeRead(c0)'
  BY <1>2, DispatcherAssumption DEF WorkerDoze, SizeRead, Waits, Types, Threads, Waiting
<1>3. ASSUME NEW w \in Workers, WorkerSleep(w) PROVE SizeRead(c0)'
  BY <1>3, DispatcherAssumption DEF WorkerSleep, SizeRead, Waits, Types, Threads, Waiting
<1>4. ASSUME NEW w \in Workers, WorkerStop(w) PROVE SizeRead(c0)'
  BY <1>4, DispatcherAssumption DEF WorkerStop, SizeRead, Waits, Types, Threads, Waiting
<1>5. ASSUME NEW w \in Workers, SpuriousWake(w) PROVE SizeRead(c0)'
  BY <1>5, DispatcherAssumption DEF SpuriousWake, SizeRead, Waits, Types, Threads, Waiting
<1>6. ASSUME NEW t \in Threads, StartThreads(t) PROVE SizeRead(c0)'
  <2>1. CASE started' = started
    BY <1>6, <2>1, DispatcherAssumption DEF StartThreads, SizeRead, Waits, Types, Threads
  <2>2. CASE started' # started
    <3>1. Starting(c0)
      BY <1>6, <2>2, TodoStart, Adders DEF StartThreads, ThreadsStarted
    <3>2. pc[c0] # "spin"
      BY <3>1 DEF Threading, Starting, Threads
    <3>3. pc'[c0] # "spin"
      BY <1>6, <3>2, DispatcherAssumption DEF StartThreads, Types, Threads
    <3> QED
      BY <3>3 DEF SizeRead, Waits
  <2> QED
    BY <2>1, <2>2
<1>7. ASSUME NEW t \in Threads, Push(t) PROVE SizeRead(c0)'
  BY <1>7 DEF Push, SizeRead, Waits
<1>8. ASSUME NEW t \in Threads, Notify(t) PROVE SizeRead(c0)'
  BY <1>8, DispatcherAssumption DEF Notify, SizeRead, Waits, Types, Threads, Waiting
<1>9. ASSUME NEW t \in Threads, EndRun(t) PROVE SizeRead(c0)'
  BY <1>9, DispatcherAssumption DEF EndRun, SizeRead, Waits, Types, Threads, Waiting
<1>10. ASSUME NEW t \in Threads, TaskEnd(t) PROVE SizeRead(c0)'
  BY <1>10, DispatcherAssumption DEF TaskEnd, SizeRead, Waits, Types, Threads, Waiting
<1>11. ASSUME NEW t \in Threads, NEW j \in Jobs, Add(t, j) PROVE SizeRead(c0)'
  BY <1>11 DEF Add, SizeRead, Waits
<1>12. ASSUME NEW c \in Callers, NEW q \in SerialWaits \cup {Parallel}, Wait(c, q)
       PROVE  SizeRead(c0)'
  BY <1>12, DispatcherAssumption DEF Wait, SizeRead, Waits, Types, Threads, Waiting
<1>13. ASSUME NEW c \in Callers, WaitTake(c) PROVE SizeRead(c0)'
  BY <1>13, DispatcherAssumption DEF WaitTake, TakeFrom, SizeRead, Waits, Types, Threads
<1>14. ASSUME NEW c \in Callers, WaitEmpty(c) PROVE SizeRead(c0)'
  BY <1>14, DispatcherAssumption DEF WaitEmpty, SizeRead, Waits, Types, Threads, Waiting
<1>15. ASSUME NEW c \in Callers, WaitSize(c) PROVE SizeRead(c0)'
  <2>1. c = c0 /\ count'[c0] = Cardinality(started) /\ started' = started
    BY <1>15 DEF WaitSize, Types
  <2> QED
    BY <2>1 DEF SizeRead
<1>16. ASSUME NEW c \in Callers, WaitReturn(c) PROVE SizeRead(c0)'
  BY <1>16, DispatcherAssumption DEF WaitReturn, SizeRead, Waits, Types, Threads, Waiting
<1>17. ASSUME NEW c \in Callers, Clear(c) PROVE SizeRead(c0)'
  BY <1>17 DEF Clear, ClearJobs, SizeRead, Waits
<1>18. ASSUME NEW c \in Callers, Destroy(c) PROVE SizeRead(c0)'
  BY <1>18, DispatcherAssumption DEF Destroy, SizeRead, Waits, Types, Threads, Waiting
<1>19. ASSUME NEW c \in Callers, DestroyClear(c) PROVE SizeRead(c0)'
  BY <1>19, DispatcherAssumption DEF DestroyClear, ClearJobs, SizeRead, Waits, Types, Threads
<1>20. ASSUME NEW c \in Callers, DestroyNotify(c) PROVE SizeRead(c0)'
  BY <1>20, DispatcherAssumption DEF DestroyNotify, SizeRead, Waits, Types, Threads, Waiting
<1>21. ASSUME NEW c \in Callers, DestroyJoin(c) PROVE SizeRead(c0)'
  BY <1>21, DispatcherAssumption DEF DestroyJoin, SizeRead, Waits, Types, Threads, Waiting
<1>22. CASE UNCHANGED vars
  BY <1>22 DEF vars, SizeRead, Waits
<1> QED
  BY <1>1, <1>2, <1>3, <1>4, <1>5, <1>6, <1>7, <1>8, <1>9, <1>10, <1>11, <1>12, <1>13,
     <1>14, <1>15, <1>16, <1>17, <1>18, <1>19, <1>20, <1>21, <1>22
     DEF Next, WorkerLoop, AddStep, WaitStep, DestroyStep

(* With one caller: between finding no parallel job and returning, a parallel job
   is added only by a worker that is awake, and no worker falls asleep over it. *)
LEMMA SomeoneAwakeStep ==
  ASSUME \A c, d \in Callers : c = d,
         Types, Threading, [Next]_vars, NEW c0 \in Callers, terminate => pc[c0] \in Destroying,
         SomeoneAwake(c0)
  PROVE  SomeoneAwake(c0)'
<1>1. ASSUME NEW w \in Workers, WorkerTake(w) PROVE SomeoneAwake(c0)'
  <2>1. pc'[w] = "run" /\ w \in started /\ started' = started
    BY <1>1 DEF WorkerTake, TakeFrom, Types, Threads, Threading
  <2>2. w \notin Asleep'
    BY <2>1 DEF Asleep
  <2> QED
    BY <2>1, <2>2 DEF SomeoneAwake
<1>2. ASSUME NEW w \in Workers, WorkerDoze(w) PROVE SomeoneAwake(c0)'
  <2>1. jobs[Parallel] = <<>> /\ jobs' = jobs
    BY <1>2, DispatcherAssumption DEF WorkerDoze, NothingFound, Ready, Queues, Types
  <2> QED
    BY <2>1 DEF SomeoneAwake
<1>3. ASSUME NEW w \in Workers, WorkerSleep(w) PROVE SomeoneAwake(c0)'
  <2>1. Asleep' = Asleep
    BY <1>3, DispatcherAssumption DEF WorkerSleep, Asleep, Types, Threads, Waiting, TakeFrom
  <2>2. Waits(c0, {"size", "spin"})' => Waits(c0, {"size", "spin"})
    BY <1>3, DispatcherAssumption DEF WorkerSleep, Waits, Types, Threads, Waiting
  <2> QED
    BY <1>3, <2>1, <2>2 DEF WorkerSleep, SomeoneAwake
<1>4. ASSUME NEW w \in Workers, WorkerStop(w) PROVE SomeoneAwake(c0)'
  <2>1. pc[c0] \in Destroying
    BY <1>4 DEF WorkerStop
  <2>2. pc'[c0] \notin {"size", "spin"}
    BY <1>4, <2>1, DispatcherAssumption DEF WorkerStop, Destroying, Types, Threads
  <2> QED
    BY <2>2 DEF SomeoneAwake, Waits
<1>5. ASSUME NEW w \in Workers, SpuriousWake(w) PROVE SomeoneAwake(c0)'
  <2>1. Asleep' = Asleep
    BY <1>5, DispatcherAssumption DEF SpuriousWake, Asleep, Types, Threads, Waiting, TakeFrom
  <2>2. Waits(c0, {"size", "spin"})' => Waits(c0, {"size", "spin"})
    BY <1>5, DispatcherAssumption DEF SpuriousWake, Waits, Types, Threads, Waiting
  <2> QED
    BY <1>5, <2>1, <2>2 DEF SpuriousWake, SomeoneAwake
<1>6. ASSUME NEW t \in Threads, StartThreads(t) PROVE SomeoneAwake(c0)'
  <2>1. Asleep' = Asleep
    BY <1>6 DEF StartThreads, Asleep, Types, Threads, Threading
  <2>2. Waits(c0, {"size", "spin"})' => Waits(c0, {"size", "spin"})
    BY <1>6, DispatcherAssumption DEF StartThreads, Waits, Types, Threads
  <2> QED
    BY <1>6, <2>1, <2>2 DEF StartThreads, SomeoneAwake
<1>7. ASSUME NEW t \in Threads, Push(t) PROVE SomeoneAwake(c0)'
  <2>1. pc[t] \in {"run", "idle"} /\ pc' = pc /\ target' = target
    BY <1>7, StepDoneFacts, DispatcherAssumption DEF Push, Threading, Additions, NotAdding
  <2> SUFFICES ASSUME Waits(c0, {"size", "spin"}) PROVE \E w \in started' : w \notin Asleep'
    BY <2>1 DEF SomeoneAwake, Waits
  <2>2. t \in Workers /\ pc[t] = "run"
    BY <2>1 DEF Waits, Threads, Types, WorkerStates
  <2>3. t \in started' /\ t \notin Asleep'
    BY <1>7, <2>1, <2>2 DEF Push, Threading, Asleep
  <2> QED
    BY <2>3
<1>8. ASSUME NEW t \in Threads, Notify(t) PROVE SomeoneAwake(c0)'
  <2>1. Asleep' = Asleep
    BY <1>8, DispatcherAssumption DEF Notify, Asleep, Types, Threads, Waiting, TakeFrom
  <2>2. Waits(c0, {"size", "spin"})' => Waits(c0, {"size", "spin"})
    BY <1>8, DispatcherAssumption DEF Notify, Waits, Types, Threads, Waiting
  <2> QED
    BY <1>8, <2>1, <2>2 DEF Notify, SomeoneAwake
<1>9. ASSUME NEW t \in Threads, EndRun(t) PROVE SomeoneAwake(c0)'
  <2>1. Asleep' = Asleep
    BY <1>9, DispatcherAssumption DEF EndRun, Asleep, Types, Threads, Waiting, TakeFrom
  <2>2. Waits(c0, {"size", "spin"})' => Waits(c0, {"size", "spin"})
    BY <1>9, DispatcherAssumption DEF EndRun, Waits, Types, Threads, Waiting
  <2> QED
    BY <1>9, <2>1, <2>2 DEF EndRun, SomeoneAwake
<1>10. ASSUME NEW t \in Threads, TaskEnd(t) PROVE SomeoneAwake(c0)'
  <2>1. Asleep' = Asleep
    BY <1>10, DispatcherAssumption DEF TaskEnd, Asleep, Types, Threads, Waiting, TakeFrom
  <2>2. Waits(c0, {"size", "spin"})' => Waits(c0, {"size", "spin"})
    BY <1>10, DispatcherAssumption DEF TaskEnd, Waits, Types, Threads, Waiting
  <2> QED
    BY <1>10, <2>1, <2>2 DEF TaskEnd, SomeoneAwake
<1>11. ASSUME NEW t \in Threads, NEW j \in Jobs, Add(t, j) PROVE SomeoneAwake(c0)'
  BY <1>11 DEF Add, SomeoneAwake, Waits, Asleep
<1>12. ASSUME NEW c \in Callers, NEW q \in SerialWaits \cup {Parallel}, Wait(c, q)
       PROVE  SomeoneAwake(c0)'
  <2>1. Asleep' = Asleep
    BY <1>12, DispatcherAssumption DEF Wait, Asleep, Types, Threads, Waiting, TakeFrom
  <2>2. Waits(c0, {"size", "spin"})' => Waits(c0, {"size", "spin"})
    BY <1>12, DispatcherAssumption DEF Wait, Waits, Types, Threads, Waiting
  <2> QED
    BY <1>12, <2>1, <2>2 DEF Wait, SomeoneAwake
<1>13. ASSUME NEW c \in Callers, WaitTake(c) PROVE SomeoneAwake(c0)'
  <2>1. c = c0
    OBVIOUS
  <2>2. ~Waits(c0, {"size", "spin"})'
    BY <1>13, <2>1 DEF WaitTake, Waits, Types, Threads, TakeFrom, ClearJobs
  <2> QED
    BY <2>2 DEF SomeoneAwake
<1>14. ASSUME NEW c \in Callers, WaitEmpty(c) PROVE SomeoneAwake(c0)'
  <2>1. c = c0 /\ ~terminate
    BY <1>14 DEF WaitEmpty, Destroying
  <2>2. jobs[target[c0]] = <<>> /\ jobs' = jobs /\ target' = target
    BY <1>14, <2>1 DEF WaitEmpty
  <2> QED
    BY <2>2 DEF SomeoneAwake, Waits
<1>15. ASSUME NEW c \in Callers, WaitSize(c) PROVE SomeoneAwake(c0)'
  <2>1. c = c0 /\ Asleep' = Asleep
    BY <1>15, DispatcherAssumption DEF WaitSize, Asleep, Types, Threads
  <2>2. Waits(c0, {"size", "spin"})' => Waits(c0, {"size", "spin"})
    BY <1>15, <2>1 DEF WaitSize, Waits
  <2> QED
    BY <1>15, <2>1, <2>2 DEF WaitSize, SomeoneAwake
<1>16. ASSUME NEW c \in Callers, WaitReturn(c) PROVE SomeoneAwake(c0)'
  <2>1. c = c0
    OBVIOUS
  <2>2. ~Waits(c0, {"size", "spin"})'
    BY <1>16, <2>1 DEF WaitReturn, Waits, Types, Threads, TakeFrom, ClearJobs
  <2> QED
    BY <2>2 DEF SomeoneAwake
<1>17. ASSUME NEW c \in Callers, Clear(c) PROVE SomeoneAwake(c0)'
  <2>1. jobs'[Parallel] = <<>>
    BY <1>17 DEF Clear, ClearJobs, Types, Queues
  <2> QED
    BY <2>1 DEF SomeoneAwake
<1>18. ASSUME NEW c \in Callers, Destroy(c) PROVE SomeoneAwake(c0)'
  <2>1. Asleep' = Asleep
    BY <1>18, DispatcherAssumption DEF Destroy, Asleep, Types, Threads, Waiting, TakeFrom
  <2>2. Waits(c0, {"size", "spin"})' => Waits(c0, {"size", "spin"})
    BY <1>18, DispatcherAssumption DEF Destroy, Waits, Types, Threads, Waiting
  <2> QED
    BY <1>18, <2>1, <2>2 DEF Destroy, SomeoneAwake
<1>19. ASSUME NEW c \in Callers, DestroyClear(c) PROVE SomeoneAwake(c0)'
  <2>1. jobs'[Parallel] = <<>>
    BY <1>19 DEF DestroyClear, ClearJobs, Types, Queues
  <2> QED
    BY <2>1 DEF SomeoneAwake
<1>20. ASSUME NEW c \in Callers, DestroyNotify(c) PROVE SomeoneAwake(c0)'
  <2>1. Asleep' = Asleep
    BY <1>20, DispatcherAssumption DEF DestroyNotify, Asleep, Types, Threads, Waiting, TakeFrom
  <2>2. Waits(c0, {"size", "spin"})' => Waits(c0, {"size", "spin"})
    BY <1>20, DispatcherAssumption DEF DestroyNotify, Waits, Types, Threads, Waiting
  <2> QED
    BY <1>20, <2>1, <2>2 DEF DestroyNotify, SomeoneAwake
<1>21. ASSUME NEW c \in Callers, DestroyJoin(c) PROVE SomeoneAwake(c0)'
  <2>1. Asleep' = Asleep
    BY <1>21, DispatcherAssumption DEF DestroyJoin, Asleep, Types, Threads, Waiting, TakeFrom
  <2>2. Waits(c0, {"size", "spin"})' => Waits(c0, {"size", "spin"})
    BY <1>21, DispatcherAssumption DEF DestroyJoin, Waits, Types, Threads, Waiting
  <2> QED
    BY <1>21, <2>1, <2>2 DEF DestroyJoin, SomeoneAwake
<1>22. CASE UNCHANGED vars
  BY <1>22 DEF vars, SomeoneAwake, Waits, Asleep
<1> QED
  BY <1>1, <1>2, <1>3, <1>4, <1>5, <1>6, <1>7, <1>8, <1>9, <1>10, <1>11, <1>12, <1>13,
     <1>14, <1>15, <1>16, <1>17, <1>18, <1>19, <1>20, <1>21, <1>22
     DEF Next, WorkerLoop, AddStep, WaitStep, DestroyStep

IInv == /\ Types /\ Threading /\ WaitingCounted
        /\ JobsInThreads /\ JobsInQueues /\ NoJobLost /\ Order

(* The inductive invariant holds initially, *)
LEMMA IInvInit == Init => IInv
<1> SUFFICES ASSUME Init PROVE IInv
  OBVIOUS
<1>1. Types
  <2>1. /\ jobs \in [Queues -> Seq(Jobs)] /\ accepted \in [Queues -> Seq(Jobs)]
        /\ locked \subseteq Serial /\ started \subseteq Workers
        /\ terminate \in BOOLEAN /\ threadsWaiting \in Int
    <3>1. <<>> \in Seq(Jobs)
      OBVIOUS
    <3>2. jobs \in [Queues -> Seq(Jobs)] /\ accepted \in [Queues -> Seq(Jobs)]
      BY <3>1 DEF Init
    <3>3. locked = {} /\ started = {} /\ terminate = FALSE /\ threadsWaiting = 0
      BY DEF Init
    <3>4. terminate \in BOOLEAN
      BY <3>3
    <3> QED
      BY <3>2, <3>3, <3>4
  <2>2. /\ pc \in [Threads -> WorkerStates \cup CallerStates]
        /\ \A w \in Workers : pc[w] \in WorkerStates
        /\ \A c \in Callers : pc[c] \in CallerStates
    BY DispatcherAssumption DEF Init, Threads, WorkerStates, CallerStates
  <2>3. /\ cur \in [Threads -> Jobs \cup {NoJob}]
        /\ sub \in [Threads -> Additions \cup {NotAdding}]
    BY DEF Init
  <2>4. /\ target \in [Callers -> SerialWaits \cup {Parallel}] /\ count \in [Callers -> Nat]
        /\ status \in [Jobs -> Statuses]
    BY DEF Init, Statuses
  <2> QED
    BY <2>1, <2>2, <2>3, <2>4 DEF Types
<1>2. Threading
  BY DEF Init, Threading, Threads, Running
<1>3. WaitingCounted
  <2>1. Asleep = {}
    BY DEF Init, Asleep, Threads
  <2>2. Cardinality({}) = 0
    BY FS_EmptySet
  <2> QED
    BY <2>1, <2>2 DEF Init, WaitingCounted
<1>4. JobsInThreads /\ NoJobLost
  BY DEF Init, JobsInThreads, NoJobLost, ToPush
<1>5. JobsInQueues
  BY DEF Init, JobsInQueues
<1>6. Order
  <2> SUFFICES ASSUME NEW q \in Serial \ SerialWaits PROVE Ordered(q)
    BY DEF Order
  <2>1. accepted[q] = <<>> /\ jobs[q] = <<>>
    BY DEF Init, Queues
  <2>2. Taken(q) = 0
    BY <2>1 DEF Taken
  <2>3. \A t \in Threads : ~Holds(t, q)
    BY DEF Init, Holds, Running
  <2> QED
    BY <2>1, <2>2, <2>3 DEF Ordered
<1> QED
  BY <1>1, <1>2, <1>3, <1>4, <1>5, <1>6 DEF IInv

(* is kept by every step, *)
LEMMA IInvStep == IInv /\ [Next]_vars => IInv'
BY TypesStep, ThreadingStep, WaitingCountedStep, StepKinds, PlacesStep, NoJobLostStep, OrderStep
   DEF IInv

(* and so always holds. *)
LEMMA IInvAlways == Spec => []IInv
BY IInvInit, IInvStep, PTL DEF Spec

(* The types; threads_waiting counts the sleeping workers, whatever the order in
   which they fall asleep, are notified, wake for no reason and stop. *)
THEOREM TypeCorrect == Spec => []TypeOK
<1>1. IInv => TypeOK
  <2> SUFFICES ASSUME IInv PROVE TypeOK
    OBVIOUS
  <2>1. target \in [Callers -> Queues]
    BY DispatcherAssumption DEF IInv, Types, Queues
  <2>2. threadsWaiting = Cardinality(Asleep)
    BY DEF IInv, WaitingCounted
  <2> QED
    BY <2>1, <2>2 DEF IInv, Types, TypeOK, WorkerStates, CallerStates, Statuses
<1> QED
  BY <1>1, IInvAlways, PTL

(* A job has one place: a thread that is to push it, its queue, or the one thread
   that runs it. None is lost, none is in two places, none is run twice. *)
THEOREM JobsHaveOnePlace == Spec => [](JobsInThreads /\ JobsInQueues /\ NoJobLost)
<1>1. IInv => JobsInThreads /\ JobsInQueues /\ NoJobLost
  BY DEF IInv
<1> QED
  BY <1>1, IInvAlways, PTL

(* The jobs of a serial queue nobody waits for run one after the other in the
   order they were added, for any number of threads, queues and jobs. *)
THEOREM SerialOrder == Spec => []SerialInOrder
<1>1. IInv => SerialInOrder
  <2> SUFFICES ASSUME IInv, NEW q \in Serial \ SerialWaits,
                      NEW i \in 1..Len(accepted[q]), NEW k \in 1..Len(accepted[q]),
                      i < k, status[accepted[q][k]] \in {"running", "done"}
               PROVE  status[accepted[q][i]] = "done"
    BY DEF SerialInOrder
  <2>1. Types /\ JobsInQueues /\ Ordered(q) /\ q \in Queues
    BY DEF IInv, Order, Queues
  <2>2. Taken(q) \in Nat /\ ~(k > Taken(q))
    BY <2>1, AcceptedStatus DEF Ordered
  <2>3. i < Taken(q)
    BY <2>2
  <2> QED
    BY <2>1, <2>3 DEF Ordered
<1> QED
  BY <1>1, IInvAlways, PTL

(* A wait ends only when threads_waiting is the number that was read. *)
LEMMA ReturnFacts ==
  ASSUME \A c, d \in Callers : c = d,
         Types, [Next]_vars, NEW c0 \in Callers,
         pc[c0] = "spin", pc'[c0] = "idle", target[c0] = Parallel
  PROVE  threadsWaiting = count[c0]
<1>1. ASSUME NEW w \in Workers, WorkerTake(w) PROVE threadsWaiting = count[c0]
  BY <1>1, DispatcherAssumption DEF WorkerTake, TakeFrom, Types, Threads
<1>2. ASSUME NEW w \in Workers, WorkerDoze(w) PROVE threadsWaiting = count[c0]
  BY <1>2, DispatcherAssumption DEF WorkerDoze, Types, Threads, Waiting
<1>3. ASSUME NEW w \in Workers, WorkerSleep(w) PROVE threadsWaiting = count[c0]
  BY <1>3, DispatcherAssumption DEF WorkerSleep, Types, Threads, Waiting
<1>4. ASSUME NEW w \in Workers, WorkerStop(w) PROVE threadsWaiting = count[c0]
  BY <1>4, DispatcherAssumption DEF WorkerStop, Types, Threads, Waiting
<1>5. ASSUME NEW w \in Workers, SpuriousWake(w) PROVE threadsWaiting = count[c0]
  BY <1>5, DispatcherAssumption DEF SpuriousWake, Types, Threads, Waiting
<1>6. ASSUME NEW t \in Threads, StartThreads(t) PROVE threadsWaiting = count[c0]
  BY <1>6, DispatcherAssumption DEF StartThreads, Types, Threads, Waiting
<1>7. ASSUME NEW t \in Threads, Push(t) PROVE threadsWaiting = count[c0]
  BY <1>7, DispatcherAssumption DEF Push, Types, Threads, Waiting
<1>8. ASSUME NEW t \in Threads, Notify(t) PROVE threadsWaiting = count[c0]
  BY <1>8, DispatcherAssumption DEF Notify, Types, Threads, Waiting
<1>9. ASSUME NEW t \in Threads, EndRun(t) PROVE threadsWaiting = count[c0]
  BY <1>9, DispatcherAssumption DEF EndRun, Types, Threads, Waiting
<1>10. ASSUME NEW t \in Threads, TaskEnd(t) PROVE threadsWaiting = count[c0]
  BY <1>10, DispatcherAssumption DEF TaskEnd, Types, Threads, Waiting
<1>11. ASSUME NEW t \in Threads, NEW j \in Jobs, Add(t, j) PROVE threadsWaiting = count[c0]
  BY <1>11, DispatcherAssumption DEF Add, Types, Threads, Waiting
<1>12. ASSUME NEW c \in Callers, NEW q \in SerialWaits \cup {Parallel}, Wait(c, q)
       PROVE  threadsWaiting = count[c0]
  BY <1>12, DispatcherAssumption DEF Wait, Types, Threads, Waiting
<1>13. ASSUME NEW c \in Callers, WaitTake(c) PROVE threadsWaiting = count[c0]
  BY <1>13, DispatcherAssumption DEF WaitTake, TakeFrom, Types, Threads
<1>14. ASSUME NEW c \in Callers, WaitEmpty(c) PROVE threadsWaiting = count[c0]
  BY <1>14, DispatcherAssumption DEF WaitEmpty, Types, Threads, Waiting
<1>15. ASSUME NEW c \in Callers, WaitSize(c) PROVE threadsWaiting = count[c0]
  BY <1>15, DispatcherAssumption DEF WaitSize, Types, Threads, Waiting
<1>16. ASSUME NEW c \in Callers, WaitReturn(c) PROVE threadsWaiting = count[c0]
  <2>1. c = c0
    OBVIOUS
  <2> QED
    BY <1>16, <2>1 DEF WaitReturn, SpinOver
<1>17. ASSUME NEW c \in Callers, Clear(c) PROVE threadsWaiting = count[c0]
  BY <1>17 DEF Clear, ClearJobs
<1>18. ASSUME NEW c \in Callers, Destroy(c) PROVE threadsWaiting = count[c0]
  BY <1>18, DispatcherAssumption DEF Destroy, Types, Threads, Waiting
<1>19. ASSUME NEW c \in Callers, DestroyClear(c) PROVE threadsWaiting = count[c0]
  BY <1>19, DispatcherAssumption DEF DestroyClear, ClearJobs, Types, Threads
<1>20. ASSUME NEW c \in Callers, DestroyNotify(c) PROVE threadsWaiting = count[c0]
  BY <1>20, DispatcherAssumption DEF DestroyNotify, Types, Threads, Waiting
<1>21. ASSUME NEW c \in Callers, DestroyJoin(c) PROVE threadsWaiting = count[c0]
  BY <1>21, DispatcherAssumption DEF DestroyJoin, Types, Threads, Waiting
<1>22. CASE UNCHANGED vars
  BY <1>22 DEF vars
<1> QED
  BY <1>1, <1>2, <1>3, <1>4, <1>5, <1>6, <1>7, <1>8, <1>9, <1>10, <1>11, <1>12, <1>13,
     <1>14, <1>15, <1>16, <1>17, <1>18, <1>19, <1>20, <1>21, <1>22
     DEF Next, WorkerLoop, AddStep, WaitStep, DestroyStep

(* With one caller, waitForParallelFinish returns only when no parallel job is left
   to run: the sizes it compares mean that every worker sleeps, and a worker that
   added a job was awake to take it. *)
THEOREM ParallelWait ==
  ASSUME \A c, d \in Callers : c = d
  PROVE  Spec => ParallelWaitComplete
<1> DEFINE Inv == IInv /\ CallerWaits
<1>1. Init => Inv
  <2> SUFFICES ASSUME Init PROVE CallerWaits
    BY IInvInit
  <2> QED
    BY DEF Init, CallerWaits, ThreadsStarted, SizeRead, SomeoneAwake, Waits, Threads
<1>2. Inv /\ [Next]_vars => Inv'
  <2> SUFFICES ASSUME IInv, CallerWaits, [Next]_vars PROVE CallerWaits'
    BY IInvStep
  <2> SUFFICES ASSUME NEW c \in Callers
               PROVE  /\ ThreadsStarted(c)' /\ SizeRead(c)' /\ SomeoneAwake(c)'
                      /\ terminate' => pc'[c] \in Destroying
    BY DEF CallerWaits
  <2>1. /\ Types /\ Threading /\ JobsInThreads /\ JobsInQueues
        /\ ThreadsStarted(c) /\ SizeRead(c) /\ SomeoneAwake(c)
        /\ terminate => pc[c] \in Destroying
    BY DEF IInv, CallerWaits
  <2> QED
    BY <2>1, ThreadsStartedStep, TerminateStep, SizeReadStep, SomeoneAwakeStep
<1>3. Inv /\ [Next]_vars =>
        [\A c \in Callers : pc[c] = "spin" /\ pc'[c] = "idle" /\ target[c] = Parallel =>
             \A j \in Jobs : QueueOf[j] = Parallel => status[j] \in {"new", "done", "dropped"}]_vars
  <2> SUFFICES ASSUME IInv, CallerWaits, Next, NEW c \in Callers,
                      pc[c] = "spin", pc'[c] = "idle", target[c] = Parallel,
                      NEW j \in Jobs, QueueOf[j] = Parallel
               PROVE  status[j] \in {"new", "done", "dropped"}
    OBVIOUS
  <2>0. Types /\ Threading /\ WaitingCounted /\ NoJobLost /\ c \in Threads /\ c \notin Workers
    BY DispatcherAssumption DEF IInv, Threads
  <2>1. threadsWaiting = count[c]
    BY <2>0, ReturnFacts
  <2>2. Asleep = started
    <3>1. Cardinality(Asleep) = Cardinality(started)
      BY <2>0, <2>1 DEF WaitingCounted, CallerWaits, SizeRead, Waits
    <3>2. Asleep \subseteq started /\ IsFiniteSet(started)
      <4>1. started \subseteq Workers /\ Asleep \subseteq started
        BY <2>0 DEF Types, Threading, Asleep
      <4> QED
        BY <4>1, DispatcherAssumption, FS_Subset
    <3> QED
      BY <3>1, <3>2, FS_Subset
  <2>3. jobs[Parallel] = <<>>
    BY <2>2 DEF CallerWaits, SomeoneAwake, Waits
  <2>4. \A t \in Threads : pc[t] \notin {"run", "idle"}
    <3>1. \A w \in Workers : pc[w] # "idle"
      BY <2>0 DEF Types, WorkerStates
    <3>2. \A w \in Workers : w \in started => pc[w] # "run"
      BY <2>2 DEF Asleep
    <3>3. \A w \in Workers : w \notin started => pc[w] # "run"
      BY <2>0 DEF Threading
    <3> QED
      BY <3>1, <3>2, <3>3 DEF Threads
  <2>5. \A t \in Threads : ~ToPush(t)
    BY <2>0, <2>4 DEF Threading, ToPush
  <2>6. ~InQueue(j)
    BY <2>3 DEF InQueue
  <2>7. status[j] \notin {"running", "claimed", "queued"}
    BY <2>0, <2>4, <2>5, <2>6 DEF NoJobLost
  <2> QED
    BY <2>0, <2>7 DEF Types, Statuses
<1> QED
  BY <1>1, <1>2, <1>3, PTL DEF Spec, ParallelWaitComplete

===============================================================================
