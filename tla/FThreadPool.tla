----------------------------- MODULE FThreadPool ----------------------------
(* FThreadPool of FLib: threads that take tasks from a queue for ever. The  *)
(* queue is a list behind a mutex, and a semaphore that counts its tasks; a *)
(* thread first gets a permit and then the mutex. terminate() kills the     *)
(* threads wherever they are.                                               *)
EXTENDS Naturals, Sequences, FiniteSets

CONSTANTS Worker,    \* the threads that init may create
          Client,    \* threads that call addTask
          Task, NoTask, Nobody

ASSUME ThreadPoolAssumption ==
    /\ IsFiniteSet(Worker) /\ Worker \cap Client = {}
    /\ NoTask \notin Task /\ Nobody \notin Worker \cup Client

VARIABLES inited,   \* _inited
          tasks,    \* _tasks of the queue
          permits,  \* count of its semaphore
          mutex,    \* owner of its _mutex
          pc, cur,  \* where a thread is in taskRunner, and its task
          put,      \* where a client is in put: the task it hands over
          ending,   \* terminate() was called
          fate      \* history: what became of each task

threadPoolVars == <<inited, tasks, permits, mutex, pc, cur, put, ending, fate>>

ThreadPoolInit ==
    /\ inited = FALSE
    /\ tasks = <<>>
    /\ permits = 0
    /\ mutex = Nobody
    /\ pc = [w \in Worker |-> "off"]
    /\ cur = [w \in Worker |-> NoTask]
    /\ put = [c \in Client |-> NoTask]
    /\ ending = FALSE
    /\ fate = [o \in Task |-> "fresh"]

\* init: some threads may fail to start.
InitPool(started) ==
    /\ ~inited
    /\ inited' = TRUE
    /\ pc' = [w \in Worker |-> IF w \in started THEN "wait" ELSE "off"]
    /\ UNCHANGED <<tasks, permits, mutex, cur, put, ending, fate>>

(* ---- _FTaskQueue::put ---- *)

\* A client calls addTask and waits for the mutex.
AddTask(c, o) ==
    /\ put[c] = NoTask
    /\ fate[o] = "fresh"
    /\ put' = [put EXCEPT ![c] = o]
    /\ fate' = [fate EXCEPT ![o] = "adding"]
    /\ UNCHANGED <<inited, tasks, permits, mutex, pc, cur, ending>>

PutPush(c) ==
    /\ put[c] # NoTask /\ mutex = Nobody
    /\ mutex' = c
    /\ tasks' = Append(tasks, put[c])
    /\ fate' = [fate EXCEPT ![put[c]] = "queued"]
    /\ UNCHANGED <<inited, permits, pc, cur, put, ending>>

Signalled_WhenEmpty == IF Len(tasks) = 1 THEN permits + 1 ELSE permits

\* _sem.signal()
Signalled == permits + 1

\* The permit is given, then the mutex released.
PutSignal(c) ==
    /\ mutex = c
    /\ permits' = Signalled
    /\ mutex' = Nobody
    /\ put' = [put EXCEPT ![c] = NoTask]
    /\ UNCHANGED <<inited, tasks, pc, cur, ending, fate>>

(* ---- _FTaskQueue::get and taskRunner ---- *)

Permitted == permits > 0

\* _sem.wait(kInfinite)
GetPermit(w) ==
    /\ pc[w] = "wait" /\ Permitted
    /\ permits' = IF permits > 0 THEN permits - 1 ELSE 0
    /\ pc' = [pc EXCEPT ![w] = "permitted"]
    /\ UNCHANGED <<inited, tasks, mutex, cur, put, ending, fate>>

GetLock(w) ==
    /\ pc[w] = "permitted" /\ mutex = Nobody
    /\ mutex' = w
    /\ pc' = [pc EXCEPT ![w] = "locked"]
    /\ UNCHANGED <<inited, tasks, permits, cur, put, ending, fate>>

Rest_Unpopped == tasks

Rest == Tail(tasks)

OwnerAfterPop_Same(w) == w

OwnerAfterPop(w) == Nobody

\* front() and pop(); of an empty queue they are undefined.
GetPop(w) ==
    /\ pc[w] = "locked"
    /\ IF tasks = <<>>
       THEN /\ pc' = [pc EXCEPT ![w] = "undefined"]
            /\ UNCHANGED <<tasks, cur, fate, mutex>>
       ELSE /\ cur' = [cur EXCEPT ![w] = Head(tasks)]
            /\ tasks' = Rest
            /\ fate' = [fate EXCEPT ![Head(tasks)] = "running"]
            /\ pc' = [pc EXCEPT ![w] = "run"]
            /\ mutex' = OwnerAfterPop(w)
    /\ UNCHANGED <<inited, permits, put, ending>>

TaskReturns(w) ==
    /\ pc[w] = "run"
    /\ pc' = [pc EXCEPT ![w] = "wait"]
    /\ cur' = [cur EXCEPT ![w] = NoTask]
    /\ fate' = [fate EXCEPT ![cur[w]] = "done"]
    /\ UNCHANGED <<inited, tasks, permits, mutex, put, ending>>

(* ---- terminate ---- *)

Terminate ==
    /\ inited /\ ~ending
    /\ ending' = TRUE
    /\ UNCHANGED <<inited, tasks, permits, mutex, pc, cur, put, fate>>

\* TerminateThread: whatever the thread holds, it keeps.
Kill(w) ==
    /\ ending /\ pc[w] \notin {"off", "killed"}
    /\ pc' = [pc EXCEPT ![w] = "killed"]
    /\ UNCHANGED <<inited, tasks, permits, mutex, cur, put, ending, fate>>

(* ---- the specification ---- *)

ClientStep(c) == PutPush(c) \/ PutSignal(c)
WorkerStep(w) == GetPermit(w) \/ GetLock(w) \/ GetPop(w) \/ TaskReturns(w)

ThreadPoolNext ==
    \/ \E started \in SUBSET Worker : InitPool(started)
    \/ \E c \in Client, o \in Task : AddTask(c, o)
    \/ \E c \in Client : ClientStep(c)
    \/ \E w \in Worker : WorkerStep(w) \/ Kill(w)
    \/ Terminate

ThreadPoolSpec == ThreadPoolInit /\ [][ThreadPoolNext]_threadPoolVars

\* Threads are scheduled, a mutex that is free again and again is had in the
\* end, tasks return.
ThreadPoolLiveSpec ==
    /\ ThreadPoolSpec
    /\ \A c \in Client : SF_threadPoolVars(ClientStep(c))
    /\ \A w \in Worker : SF_threadPoolVars(WorkerStep(w))

-----------------------------------------------------------------------------
Fates == {"fresh", "adding", "queued", "running", "done"}
PCs == {"off", "wait", "permitted", "locked", "run", "killed", "undefined"}

\* The variables have their types.
TypeOK ==
    /\ inited \in BOOLEAN /\ ending \in BOOLEAN
    /\ tasks \in Seq(Task)
    /\ permits \in Nat
    /\ mutex \in Worker \cup Client \cup {Nobody}
    /\ pc \in [Worker -> PCs]
    /\ cur \in [Worker -> Task \cup {NoTask}]
    /\ put \in [Client -> Task \cup {NoTask}]
    /\ fate \in [Task -> Fates]

\* The semaphore promises no task that is not there: front() is never
\* called on an empty queue, although a thread that has a permit gets the
\* mutex later and may be killed between the two.
PopFindsTask == \A w \in Worker : pc[w] # "undefined"

\* The threads that have a permit and no task yet.
Promised == {w \in Worker : pc[w] \in {"permitted", "locked"}}

\* The queue of FThreadPool is that of the operation queue without cancel and
\* stop: a killed thread goes on executing its task for ever.
Abs == INSTANCE TaskQueue WITH
    Workers <- Worker, Clients <- Client, Ops <- Task, NoOp <- NoTask,
    MaxConcurrency <- Cardinality(Worker),
    accepting <- TRUE, pending <- tasks, exec <- cur, quiet <- {},
    fate <- [o \in Task |-> IF fate[o] = "adding" THEN "fresh" ELSE fate[o]]

\* Tasks begin in the order of the queue, each once, at most one in a thread.
ImplementsTaskQueue == Abs!AbsSpec

\* A task that was added begins if a thread was started, until terminate.
EveryTaskBegins ==
    \A o \in Task : fate[o] = "queued" ~>
       fate[o] \in {"running", "done"} \/ ending \/ \A w \in Worker : pc[w] = "off"

\* addTask returns unless terminate() left the mutex locked.
AddTaskReturns ==
    \A c \in Client : put[c] # NoTask ~>
       put[c] = NoTask \/ \E w \in Worker : mutex = w /\ pc[w] = "killed"
=============================================================================
