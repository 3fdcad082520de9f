--------------------------- MODULE OperationQueue ---------------------------
(***************************************************************************)
(* COperationQueueImpl of thirdpart/operationQueue: a list of operations   *)
(* run by at most MaxConcurrency threads, started on demand, ended when    *)
(* idle for MaxTimeOutCnt timed waits, and joined by polling in stop().    *)
(*                                                                         *)
(* One action is one critical section of _mu, or one access made without   *)
(* it: _isRunning is read and written unlocked and notify_all is called    *)
(* unlocked, which is where the interleavings are.  A worker at "block"    *)
(* has found nothing to do and still holds _mu; no other critical section  *)
(* spans two actions, so that is the whole state of the mutex.             *)
(***************************************************************************)
EXTENDS Integers, Sequences, FiniteSets

CONSTANTS
    Workers,         \* identities of the threads the queue may start
    Clients,         \* threads of the program that hold the queue
    Ops,             \* operations; each is handed to addOperation once
    NoOp,            \* no operation
    StopOps,         \* operations whose body may call stop()
    MaxConcurrency,  \* _maxConcurrency, at least 1 (constructor)
    MaxTimeOutCnt    \* MaxTimeOutCnt: timed waits before an idle thread ends

Threads == Clients \cup Workers

ASSUME WorkersAssumption == IsFiniteSet(Workers) /\ Clients \cap Workers = {}
ASSUME OpsAssumption == StopOps \subseteq Ops /\ NoOp \notin Ops
ASSUME BoundsAssumption ==
    MaxConcurrency \in Nat \ {0} /\ MaxTimeOutCnt \in Nat \ {0}

VARIABLES
    isRunning,     \* _isRunning, volatile, accessed without _mu
    opList,        \* _opList
    threadIdSet,   \* _threadIdSet
    curThreadCnt,  \* _curThreadCnt
    pc,            \* where each worker is in onOpThreadPro
    timeOutCnt,    \* the local timeOutCnt of each worker
    cur,           \* the operation each worker has taken, or NoOp
    call,          \* the public call each thread is in, and how far it is
    arg,           \* the operation a thread is adding
    isOpThread,    \* the local isOpThread of a thread inside stop()
    stopped,       \* threads one of whose calls of stop() has returned
    fate           \* history: what has become of each operation

queueVars == <<isRunning, opList, threadIdSet, curThreadCnt>>
vars == <<isRunning, opList, threadIdSet, curThreadCnt, pc, timeOutCnt, cur,
          call, arg, isOpThread, stopped, fate>>

WorkerPCs == {"off", "start", "loop", "lock", "block", "wait", "run", "exit"}
CallPCs == {"none", "push", "notify", "stopNotify", "stopCancle",
            "stopProbe", "stopWake", "stopLook"}
Fates == {"fresh", "adding", "queued", "running", "done", "refused", "cancelled"}

LockFree == \A w \in Workers : pc[w] # "block"
Alive == {w \in Workers : pc[w] # "off"}

(* A thread may call the queue when it is a client, or a worker that is    *)
(* executing the body of an operation, and it is not already in a call.    *)
CanCall(t) == /\ call[t] = "none"
              /\ t \in Workers => pc[t] = "run"

Init ==
    /\ isRunning = TRUE
    /\ opList = <<>>
    /\ threadIdSet = {}
    /\ curThreadCnt = 0
    /\ pc = [w \in Workers |-> "off"]
    /\ timeOutCnt = [w \in Workers |-> 0]
    /\ cur = [w \in Workers |-> NoOp]
    /\ call = [t \in Threads |-> "none"]
    /\ arg = [t \in Threads |-> NoOp]
    /\ isOpThread = [t \in Threads |-> FALSE]
    /\ stopped = {}
    /\ fate = [o \in Ops |-> "fresh"]

-----------------------------------------------------------------------------
(* addOperation *)

Spawn(w) == /\ pc[w] = "off"
            /\ pc' = [pc EXCEPT ![w] = "start"]
            /\ curThreadCnt' = curThreadCnt + 1

(* Mutant: a thread for the second waiting operation only. *)
NeedsThread_Late(list) == Len(list) > curThreadCnt + 1 /\ curThreadCnt < MaxConcurrency
(* Mutant: the limit is tested after the count has passed it. *)
NeedsThread_OverLimit(list) == Len(list) > curThreadCnt /\ curThreadCnt <= MaxConcurrency
NeedsThread(list) == /\ Len(list) > curThreadCnt
                     /\ curThreadCnt < MaxConcurrency

(* The first test of _isRunning, made without the lock. *)
AddOperation(t, o) ==
    /\ CanCall(t)
    /\ fate[o] = "fresh"
    /\ IF isRunning
         THEN /\ call' = [call EXCEPT ![t] = "push"]
              /\ arg' = [arg EXCEPT ![t] = o]
              /\ fate' = [fate EXCEPT ![o] = "adding"]
         ELSE /\ fate' = [fate EXCEPT ![o] = "refused"]
              /\ UNCHANGED <<call, arg>>
    /\ UNCHANGED <<queueVars, pc, timeOutCnt, cur, isOpThread, stopped>>

(* The second test of _isRunning, under the lock. *)
(* Mutant: only the unlocked test is left. *)
StillRunning_Untested == TRUE
StillRunning == isRunning

(* The critical section: test again, link the operation at either end of   *)
(* the list, start a thread when the list outnumbers the threads.          *)
AddPush(t, atfont) ==
    /\ call[t] = "push"
    /\ LockFree
    /\ StillRunning
    /\ opList' = IF atfont THEN <<arg[t]>> \o opList ELSE Append(opList, arg[t])
    /\ IF NeedsThread(opList')
         THEN \E w \in Workers : Spawn(w)
         ELSE UNCHANGED <<pc, curThreadCnt>>
    /\ call' = [call EXCEPT ![t] = "notify"]
    /\ arg' = [arg EXCEPT ![t] = NoOp]
    /\ fate' = [fate EXCEPT ![arg[t]] = "queued"]
    /\ UNCHANGED <<isRunning, threadIdSet, timeOutCnt, cur, isOpThread, stopped>>

AddRefuse(t) ==
    /\ call[t] = "push"
    /\ LockFree
    /\ ~StillRunning
    /\ call' = [call EXCEPT ![t] = "none"]
    /\ arg' = [arg EXCEPT ![t] = NoOp]
    /\ fate' = [fate EXCEPT ![arg[t]] = "refused"]
    /\ UNCHANGED <<queueVars, pc, timeOutCnt, cur, isOpThread, stopped>>

(* _con.notify_all(): every waiting thread goes to take the lock again. *)
NotifyAll == pc' = [w \in Workers |-> IF pc[w] = "wait" THEN "lock" ELSE pc[w]]

AddNotify(t) ==
    /\ call[t] = "notify"
    /\ NotifyAll
    /\ call' = [call EXCEPT ![t] = "none"]
    /\ UNCHANGED <<queueVars, timeOutCnt, cur, arg, isOpThread, stopped, fate>>

-----------------------------------------------------------------------------
(* cancle and stop *)

ClearList ==
    /\ opList' = <<>>
    /\ fate' = [o \in Ops |-> IF fate[o] = "queued" THEN "cancelled" ELSE fate[o]]

Cancle(t) ==
    /\ CanCall(t)
    /\ LockFree
    /\ ClearList
    /\ UNCHANGED <<isRunning, threadIdSet, curThreadCnt, pc, timeOutCnt, cur,
                   call, arg, isOpThread, stopped>>

(* _isRunning = false, without the lock. *)
Stop(t) ==
    /\ CanCall(t)
    /\ t \in Workers => cur[t] \in StopOps
    /\ isRunning' = FALSE
    /\ call' = [call EXCEPT ![t] = "stopNotify"]
    /\ UNCHANGED <<opList, threadIdSet, curThreadCnt, pc, timeOutCnt, cur, arg,
                   isOpThread, stopped, fate>>

StopNotify(t) ==
    /\ call[t] \in {"stopNotify", "stopWake"}
    /\ NotifyAll
    /\ call' = [call EXCEPT ![t] =
                    IF @ = "stopNotify" THEN "stopCancle" ELSE "stopLook"]
    /\ UNCHANGED <<queueVars, timeOutCnt, cur, arg, isOpThread, stopped, fate>>

StopCancle(t) ==
    /\ call[t] = "stopCancle"
    /\ LockFree
    /\ ClearList
    /\ call' = [call EXCEPT ![t] = "stopProbe"]
    /\ UNCHANGED <<isRunning, threadIdSet, curThreadCnt, pc, timeOutCnt, cur,
                   arg, isOpThread, stopped>>

StopProbe(t) ==
    /\ call[t] = "stopProbe"
    /\ LockFree
    /\ isOpThread' = [isOpThread EXCEPT ![t] = t \in threadIdSet]
    /\ call' = [call EXCEPT ![t] = "stopWake"]
    /\ UNCHANGED <<queueVars, pc, timeOutCnt, cur, arg, stopped, fate>>

(* After the one-second sleep: return once no other thread is left. *)
(* Mutant: one thread may be left whoever calls. *)
OthersGone_AnyOne(t) == curThreadCnt <= 1
(* Mutant: the calling thread is not allowed for. *)
OthersGone_AllGone(t) == curThreadCnt = 0
OthersGone(t) == curThreadCnt = IF isOpThread[t] THEN 1 ELSE 0

StopLook(t) ==
    /\ call[t] = "stopLook"
    /\ LockFree
    /\ IF OthersGone(t)
         THEN /\ call' = [call EXCEPT ![t] = "none"]
              /\ stopped' = stopped \cup {t}
         ELSE /\ call' = [call EXCEPT ![t] = "stopWake"]
              /\ UNCHANGED stopped
    /\ UNCHANGED <<queueVars, pc, timeOutCnt, cur, arg, isOpThread, fate>>

-----------------------------------------------------------------------------
(* onOpThreadPro *)

Register(w) ==
    /\ pc[w] = "start"
    /\ LockFree
    /\ threadIdSet' = threadIdSet \cup {w}
    /\ timeOutCnt' = [timeOutCnt EXCEPT ![w] = 0]
    /\ pc' = [pc EXCEPT ![w] = "loop"]
    /\ UNCHANGED <<isRunning, opList, curThreadCnt, cur, call, arg, isOpThread,
                   stopped, fate>>

While(w) ==
    /\ pc[w] = "loop"
    /\ pc' = [pc EXCEPT ![w] = IF isRunning THEN "lock" ELSE "exit"]
    /\ UNCHANGED <<queueVars, timeOutCnt, cur, call, arg, isOpThread, stopped,
                   fate>>

(* The predicate of the timed wait. *)
hasOperation == ~(opList = <<>> /\ isRunning)

Leave(w) ==
    /\ threadIdSet' = threadIdSet \ {w}
    /\ curThreadCnt' = curThreadCnt - 1
    /\ pc' = [pc EXCEPT ![w] = "off"]

(* The first operation is copied, then erased. *)
EraseTaken == opList' = Tail(opList)

(* What follows a timed wait that returned true. *)
TakeOrLeave(w) ==
    /\ IF isRunning
         THEN /\ EraseTaken
              /\ cur' = [cur EXCEPT ![w] = Head(opList)]
              /\ fate' = [fate EXCEPT ![Head(opList)] = "running"]
              /\ pc' = [pc EXCEPT ![w] = "run"]
              /\ UNCHANGED <<threadIdSet, curThreadCnt>>
         ELSE Leave(w) /\ UNCHANGED <<opList, cur, fate>>
    /\ UNCHANGED <<isRunning, timeOutCnt, call, arg, isOpThread, stopped>>

(* The predicate is tested under the lock, on entry and after a notify. *)
Take(w) ==
    /\ pc[w] = "lock"
    /\ LockFree
    /\ hasOperation
    /\ TakeOrLeave(w)

FindNothing(w) ==
    /\ pc[w] = "lock"
    /\ LockFree
    /\ ~hasOperation
    /\ pc' = [pc EXCEPT ![w] = "block"]
    /\ UNCHANGED <<queueVars, timeOutCnt, cur, call, arg, isOpThread, stopped,
                   fate>>

Block(w) ==
    /\ pc[w] = "block"
    /\ pc' = [pc EXCEPT ![w] = "wait"]
    /\ UNCHANGED <<queueVars, timeOutCnt, cur, call, arg, isOpThread, stopped,
                   fate>>

(* The wait times out: boost tests the predicate once more under the lock. *)
TimeOutTake(w) ==
    /\ pc[w] = "wait"
    /\ LockFree
    /\ hasOperation
    /\ TakeOrLeave(w)

IdleTooLong(w) == timeOutCnt[w] + 1 >= MaxTimeOutCnt

TimeOutIdle(w) ==
    /\ pc[w] = "wait"
    /\ LockFree
    /\ ~hasOperation
    /\ timeOutCnt' = [timeOutCnt EXCEPT ![w] = IF IdleTooLong(w) THEN 0 ELSE @ + 1]
    /\ IF IdleTooLong(w) /\ curThreadCnt > 1
         THEN Leave(w)
         ELSE /\ pc' = [pc EXCEPT ![w] = "loop"]
              /\ UNCHANGED <<threadIdSet, curThreadCnt>>
    /\ UNCHANGED <<isRunning, opList, cur, call, arg, isOpThread, stopped, fate>>

(* op() returns. *)
OpReturns(w) ==
    /\ pc[w] = "run"
    /\ call[w] = "none"
    /\ pc' = [pc EXCEPT ![w] = "loop"]
    /\ cur' = [cur EXCEPT ![w] = NoOp]
    /\ fate' = [fate EXCEPT ![cur[w]] = "done"]
    /\ UNCHANGED <<queueVars, timeOutCnt, call, arg, isOpThread, stopped>>

Exit(w) ==
    /\ pc[w] = "exit"
    /\ LockFree
    /\ Leave(w)
    /\ UNCHANGED <<isRunning, opList, timeOutCnt, cur, call, arg, isOpThread,
                   stopped, fate>>

-----------------------------------------------------------------------------

CallStep(t) ==
    \/ \E atfont \in BOOLEAN : AddPush(t, atfont)
    \/ AddRefuse(t)
    \/ AddNotify(t)
    \/ StopNotify(t)
    \/ StopCancle(t)
    \/ StopProbe(t)
    \/ StopLook(t)

WorkerStep(w) ==
    \/ Register(w)
    \/ While(w)
    \/ Take(w)
    \/ FindNothing(w)
    \/ Block(w)
    \/ TimeOutTake(w)
    \/ TimeOutIdle(w)
    \/ OpReturns(w)
    \/ Exit(w)

Next ==
    \/ \E t \in Threads, o \in Ops : AddOperation(t, o)
    \/ \E t \in Threads : Cancle(t) \/ Stop(t) \/ CallStep(t)
    \/ \E w \in Workers : WorkerStep(w)

Spec == Init /\ [][Next]_vars

(* Threads are scheduled, sleeps and timed waits end, operations return.   *)
(* Nothing makes a thread call the queue.                                  *)
Fairness ==
    /\ \A t \in Threads : WF_vars(CallStep(t))
    /\ \A w \in Workers : WF_vars(WorkerStep(w)) /\ SF_vars(OpReturns(w))

LiveSpec == Spec /\ Fairness

-----------------------------------------------------------------------------
(* Properties *)

TypeOK ==
    /\ isRunning \in BOOLEAN
    /\ opList \in Seq(Ops)
    /\ threadIdSet \subseteq Workers
    /\ curThreadCnt \in Int
    /\ pc \in [Workers -> WorkerPCs]
    /\ timeOutCnt \in [Workers -> 0 .. MaxTimeOutCnt - 1]
    /\ cur \in [Workers -> Ops \cup {NoOp}]
    /\ call \in [Threads -> CallPCs]
    /\ arg \in [Threads -> Ops \cup {NoOp}]
    /\ isOpThread \in [Threads -> BOOLEAN]
    /\ stopped \subseteq Threads
    /\ fate \in [Ops -> Fates]

(* _curThreadCnt counts exactly the threads that are alive, whatever the   *)
(* order of starts, idle exits and shutdown exits; it never exceeds the    *)
(* limit, and _threadIdSet holds the threads past their registration.      *)
ThreadAccounting ==
    /\ curThreadCnt = Cardinality(Alive)
    /\ curThreadCnt <= MaxConcurrency
    /\ threadIdSet = {w \in Workers : pc[w] \notin {"off", "start"}}

(* Once a call of stop() has returned, the list is empty and no thread of  *)
(* the queue is left but the caller's own, when an operation called it:    *)
(* what ~COperationQueue relies on before it deletes the queue.            *)
StopIsQuiet ==
    stopped # {} =>
        /\ ~isRunning
        /\ opList = <<>>
        /\ \A t \in stopped : Alive \subseteq {t}

(* A queued operation is begun or cancelled: a busy or idle queue never    *)
(* forgets it, although notify_all is sent after the lock is released.     *)
EveryOpSettles ==
    \A o \in Ops : fate[o] = "queued" ~> fate[o] \in {"running", "done", "cancelled"}

(* stop() returns although its flag is set without the lock, so that a     *)
(* thread may start to wait after the first notify_all.                    *)
StopReturns == \A t \in Threads : call[t] = "stopNotify" ~> call[t] = "none"

-----------------------------------------------------------------------------
(* The queue as its callers see it: an operation between the two tests of  *)
(* _isRunning has not been accepted yet.                                   *)
Abs == INSTANCE TaskQueue WITH
    accepting <- isRunning,
    pending <- opList,
    exec <- cur,
    quiet <- stopped,
    fate <- [o \in Ops |-> IF fate[o] = "adding" THEN "fresh" ELSE fate[o]]

(* Every behaviour of the threads, notifications and timed waits is one    *)
(* the callers were promised.                                              *)
ImplementsTaskQueue == Abs!AbsSpec

=============================================================================
