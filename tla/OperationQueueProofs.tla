------------------------ MODULE OperationQueueProofs ------------------------
(***************************************************************************)
(* Theorems about OperationQueue for every set of threads and operations   *)
(* and every limit: the types, the accounting of threads, what a return of *)
(* stop() guarantees, and that the queue implements TaskQueue.             *)
(***************************************************************************)
EXTENDS OperationQueue, FiniteSetTheorems, SequenceTheorems, TLAPS

(* Where a thread is inside a public call decides what its locals hold.    *)
CallDiscipline ==
    /\ \A t \in Threads : call[t] = "push" => arg[t] \in Ops
    /\ \A w \in Workers : call[w] # "none" => pc[w] = "run"

InStop == {"stopNotify", "stopCancle", "stopProbe", "stopWake", "stopLook"}

(* What stop() has established when it is at each of its points.           *)
StopProgress ==
    \A t \in Threads :
        /\ call[t] \in InStop => ~isRunning
        /\ call[t] \in {"stopProbe", "stopWake", "stopLook"} => opList = <<>>
        /\ call[t] \in {"stopWake", "stopLook"} => (isOpThread[t] <=> t \in Workers)

TypeInv == TypeOK /\ CallDiscipline

-----------------------------------------------------------------------------
(* A waiting worker that is notified stays alive, and no other moves.      *)
LEMMA NotifyKeepsAlive ==
    ASSUME TypeOK, NotifyAll
    PROVE  /\ Alive' = Alive
           /\ \A w \in Workers : pc'[w] = pc[w] \/ (pc[w] = "wait" /\ pc'[w] = "lock")
           /\ pc' \in [Workers -> WorkerPCs]
  BY DEF TypeOK, NotifyAll, Alive, WorkerPCs

LEMMA TypeInvInit == Init => TypeInv
  BY BoundsAssumption, OpsAssumption
     DEF Init, TypeInv, TypeOK, CallDiscipline, WorkerPCs, CallPCs, Fates, Threads

LEMMA TypeInvStep == TypeInv /\ [Next]_vars => TypeInv'
  <1> SUFFICES ASSUME TypeInv, [Next]_vars PROVE TypeInv'
    OBVIOUS
  <1> USE OpsAssumption, BoundsAssumption
  <1> USE DEF TypeInv, TypeOK, CallDiscipline, WorkerPCs, CallPCs, Fates, Threads
  <1>1. ASSUME NEW t \in Threads, NEW o \in Ops, AddOperation(t, o) PROVE TypeInv'
    <2>1. UNCHANGED <<isRunning, opList, threadIdSet, curThreadCnt, pc,
                      timeOutCnt, cur, isOpThread, stopped>>
      BY <1>1 DEF AddOperation, queueVars
    <2>2. CASE isRunning
      <3>1. /\ call' = [call EXCEPT ![t] = "push"]
            /\ arg' = [arg EXCEPT ![t] = o]
            /\ fate' = [fate EXCEPT ![o] = "adding"]
            /\ t \in Workers => pc[t] = "run"
        BY <1>1, <2>2 DEF AddOperation, CanCall
      <3> QED
        BY <2>1, <3>1
    <2>3. CASE ~isRunning
      <3>1. fate' = [fate EXCEPT ![o] = "refused"] /\ UNCHANGED <<call, arg>>
        BY <1>1, <2>3 DEF AddOperation
      <3> QED
        BY <2>1, <3>1
    <2> QED
      BY <2>2, <2>3
  <1>2. ASSUME NEW t \in Threads, Cancle(t) PROVE TypeInv'
    BY <1>2 DEF Cancle, ClearList, CanCall
  <1>3. ASSUME NEW t \in Threads, Stop(t) PROVE TypeInv'
    BY <1>3 DEF Stop, CanCall
  <1>4. ASSUME NEW t \in Threads, NEW atfont \in BOOLEAN, AddPush(t, atfont)
        PROVE TypeInv'
    <2>1. arg[t] \in Ops
      BY <1>4 DEF AddPush
    <2>2. opList' \in Seq(Ops)
      BY <1>4, <2>1 DEF AddPush
    <2>3. /\ pc' \in [Workers -> WorkerPCs] /\ curThreadCnt' \in Int
          /\ \A w \in Workers : pc'[w] = pc[w] \/ pc[w] = "off"
      BY <1>4 DEF AddPush, Spawn
    <2> QED
      BY <1>4, <2>1, <2>2, <2>3 DEF AddPush
  <1>5. ASSUME NEW t \in Threads, AddRefuse(t) PROVE TypeInv'
    BY <1>5 DEF AddRefuse, queueVars
  <1>6. ASSUME NEW t \in Threads, AddNotify(t) PROVE TypeInv'
    BY <1>6, NotifyKeepsAlive DEF AddNotify, queueVars
  <1>7. ASSUME NEW t \in Threads, StopNotify(t) PROVE TypeInv'
    BY <1>7, NotifyKeepsAlive DEF StopNotify, queueVars
  <1>8. ASSUME NEW t \in Threads, StopCancle(t) PROVE TypeInv'
    BY <1>8 DEF StopCancle, ClearList
  <1>9. ASSUME NEW t \in Threads, StopProbe(t) PROVE TypeInv'
    BY <1>9 DEF StopProbe, queueVars
  <1>10. ASSUME NEW t \in Threads, StopLook(t) PROVE TypeInv'
    BY <1>10 DEF StopLook, queueVars
  <1>11. ASSUME NEW w \in Workers, Register(w) PROVE TypeInv'
    BY <1>11 DEF Register
  <1>12. ASSUME NEW w \in Workers, While(w) PROVE TypeInv'
    BY <1>12 DEF While, queueVars
  <1>13. ASSUME NEW w \in Workers, TakeOrLeave(w), hasOperation,
                pc[w] \in {"lock", "wait"}
         PROVE TypeInv'
    <2>1. CASE isRunning
      <3>1. opList # <<>>
        BY <1>13, <2>1 DEF hasOperation
      <3>2. Head(opList) \in Ops /\ Tail(opList) \in Seq(Ops)
        BY <3>1
      <3>3. /\ opList' = Tail(opList)
            /\ cur' = [cur EXCEPT ![w] = Head(opList)]
            /\ fate' = [fate EXCEPT ![Head(opList)] = "running"]
            /\ pc' = [pc EXCEPT ![w] = "run"]
            /\ UNCHANGED <<isRunning, threadIdSet, curThreadCnt, timeOutCnt,
                           call, arg, isOpThread, stopped>>
        BY <1>13, <2>1 DEF TakeOrLeave, EraseTaken
      <3>4. TypeOK'
        BY <3>2, <3>3
      <3>5. CallDiscipline'
        BY <3>3
      <3> QED
        BY <3>4, <3>5
    <2>2. CASE ~isRunning
      <3>1. /\ threadIdSet' = threadIdSet \ {w}
            /\ curThreadCnt' = curThreadCnt - 1
            /\ pc' = [pc EXCEPT ![w] = "off"]
            /\ UNCHANGED <<isRunning, opList, timeOutCnt, cur, call, arg,
                           isOpThread, stopped, fate>>
        BY <1>13, <2>2 DEF TakeOrLeave, Leave
      <3> QED
        BY <1>13, <3>1
    <2> QED
      BY <2>1, <2>2
  <1>14. ASSUME NEW w \in Workers, FindNothing(w) PROVE TypeInv'
    BY <1>14 DEF FindNothing, queueVars
  <1>15. ASSUME NEW w \in Workers, Block(w) PROVE TypeInv'
    BY <1>15 DEF Block, queueVars
  <1>16. ASSUME NEW w \in Workers, TimeOutIdle(w) PROVE TypeInv'
    BY <1>16 DEF TimeOutIdle, IdleTooLong, Leave
  <1>17. ASSUME NEW w \in Workers, OpReturns(w) PROVE TypeInv'
    BY <1>17 DEF OpReturns, queueVars
  <1>18. ASSUME NEW w \in Workers, Exit(w) PROVE TypeInv'
    BY <1>18 DEF Exit, Leave
  <1>19. CASE UNCHANGED vars
    BY <1>19 DEF vars
  <1> QED
    BY <1>1, <1>2, <1>3, <1>4, <1>5, <1>6, <1>7, <1>8, <1>9, <1>10, <1>11, <1>12,
       <1>13, <1>14, <1>15, <1>16, <1>17, <1>18, <1>19
       DEF Next, CallStep, WorkerStep, Take, TimeOutTake

(* Every variable keeps its type: in particular a taken or added operation *)
(* is always one that was handed to addOperation.                          *)
THEOREM TypeCorrect == Spec => []TypeOK
  <1>1. Spec => []TypeInv
    BY TypeInvInit, TypeInvStep, PTL DEF Spec
  <1> QED
    BY <1>1, PTL DEF TypeInv

-----------------------------------------------------------------------------
(* The accounting of threads *)

(* How a step may change the set of live threads and the two variables     *)
(* that are kept in step with it.                                          *)
AccountsKept == UNCHANGED <<threadIdSet, curThreadCnt, Alive,
                            {w \in Workers : pc[w] \notin {"off", "start"}}>>

LEMMA AliveFinite ==
    /\ IsFiniteSet(Alive)
    /\ Cardinality(Alive) \in Nat
  <1>1. Alive \in SUBSET Workers
    BY DEF Alive
  <1> QED
    BY <1>1, WorkersAssumption, FS_Subset, FS_CardinalityType

(* A thread that leaves was alive: the count cannot go below zero.         *)
LEMMA LeaveAccounts ==
    ASSUME TypeInv, ThreadAccounting, NEW w \in Workers,
           pc[w] \notin {"off", "start"}, Leave(w)
    PROVE  ThreadAccounting'
  <1>1. Alive' = Alive \ {w} /\ w \in Alive
    BY DEF Alive, Leave, TypeInv, TypeOK
  <1>2. Cardinality(Alive') = Cardinality(Alive) - 1
    BY <1>1, AliveFinite, FS_RemoveElement
  <1>3. threadIdSet' = {v \in Workers : pc'[v] \notin {"off", "start"}}
    BY DEF ThreadAccounting, Leave, TypeInv, TypeOK
  <1> QED
    BY <1>2, <1>3, AliveFinite, BoundsAssumption DEF ThreadAccounting, Leave

LEMMA SpawnAccounts ==
    ASSUME TypeInv, ThreadAccounting, NEW w \in Workers, Spawn(w),
           curThreadCnt < MaxConcurrency, UNCHANGED threadIdSet
    PROVE  ThreadAccounting'
  <1>1. Alive' = Alive \cup {w} /\ w \notin Alive
    BY DEF Alive, Spawn, TypeInv, TypeOK
  <1>2. Cardinality(Alive') = Cardinality(Alive) + 1
    BY <1>1, AliveFinite, FS_AddElement
  <1>3. threadIdSet' = {v \in Workers : pc'[v] \notin {"off", "start"}}
    BY DEF ThreadAccounting, Spawn, TypeInv, TypeOK
  <1> QED
    BY <1>2, <1>3, AliveFinite, BoundsAssumption DEF ThreadAccounting, Spawn

LEMMA AccountsInit == Init => ThreadAccounting
  <1> SUFFICES ASSUME Init PROVE ThreadAccounting
    OBVIOUS
  <1>1. Alive = {}
    BY DEF Init, Alive
  <1> QED
    BY <1>1, FS_EmptySet, BoundsAssumption DEF Init, ThreadAccounting

LEMMA AccountsStep == TypeInv /\ ThreadAccounting /\ [Next]_vars => ThreadAccounting'
  <1> SUFFICES ASSUME TypeInv, ThreadAccounting, [Next]_vars
               PROVE  ThreadAccounting'
    OBVIOUS
  <1>1. ASSUME AccountsKept PROVE ThreadAccounting'
    BY <1>1 DEF AccountsKept, ThreadAccounting
  <1>2. ASSUME NEW t \in Threads, NEW o \in Ops, AddOperation(t, o) PROVE AccountsKept
    BY <1>2 DEF AddOperation, AccountsKept, Alive, queueVars
  <1>3. ASSUME NEW t \in Threads, Cancle(t) \/ Stop(t) PROVE AccountsKept
    BY <1>3 DEF Cancle, Stop, AccountsKept, Alive
  <1>4. ASSUME NEW t \in Threads, NEW atfont \in BOOLEAN, AddPush(t, atfont)
        PROVE ThreadAccounting'
    <2>1. CASE NeedsThread(opList')
      <3>1. PICK w \in Workers : Spawn(w)
        BY <1>4, <2>1 DEF AddPush
      <3> QED
        BY <1>4, <2>1, <3>1, SpawnAccounts DEF AddPush, NeedsThread
    <2>2. CASE ~NeedsThread(opList')
      BY <1>4, <2>2, <1>1 DEF AddPush, AccountsKept, Alive
    <2> QED
      BY <2>1, <2>2
  <1>5. ASSUME NEW t \in Threads,
               AddRefuse(t) \/ StopCancle(t) \/ StopProbe(t) \/ StopLook(t)
        PROVE AccountsKept
    BY <1>5 DEF AddRefuse, StopCancle, StopProbe, StopLook, AccountsKept, Alive, queueVars
  <1>6. ASSUME NEW t \in Threads, AddNotify(t) \/ StopNotify(t) PROVE AccountsKept
    <2>1. NotifyAll /\ UNCHANGED <<threadIdSet, curThreadCnt>>
      BY <1>6 DEF AddNotify, StopNotify, queueVars
    <2> QED
      BY <2>1, NotifyKeepsAlive DEF AccountsKept, TypeInv, TypeOK
  <1>7. ASSUME NEW w \in Workers, Register(w) PROVE ThreadAccounting'
    <2>1. Alive' = Alive
      BY <1>7 DEF Register, Alive, TypeInv, TypeOK
    <2>2. threadIdSet' = {v \in Workers : pc'[v] \notin {"off", "start"}}
      BY <1>7 DEF Register, ThreadAccounting, TypeInv, TypeOK
    <2> QED
      BY <1>7, <2>1, <2>2 DEF Register, ThreadAccounting
  <1>8. ASSUME NEW w \in Workers,
               While(w) \/ FindNothing(w) \/ Block(w) \/ OpReturns(w)
        PROVE AccountsKept
    BY <1>8 DEF While, FindNothing, Block, OpReturns, AccountsKept, Alive, queueVars,
                TypeInv, TypeOK
  <1>9. ASSUME NEW w \in Workers, TakeOrLeave(w), pc[w] \in {"lock", "wait"}
        PROVE ThreadAccounting'
    <2>1. CASE isRunning
      BY <1>9, <2>1, <1>1 DEF TakeOrLeave, AccountsKept, Alive, TypeInv, TypeOK
    <2>2. CASE ~isRunning
      BY <1>9, <2>2, LeaveAccounts DEF TakeOrLeave
    <2> QED
      BY <2>1, <2>2
  <1>10. ASSUME NEW w \in Workers, TimeOutIdle(w) PROVE ThreadAccounting'
    <2>1. CASE IdleTooLong(w) /\ curThreadCnt > 1
      BY <1>10, <2>1, LeaveAccounts DEF TimeOutIdle
    <2>2. CASE ~(IdleTooLong(w) /\ curThreadCnt > 1)
      BY <1>10, <2>2, <1>1 DEF TimeOutIdle, AccountsKept, Alive, TypeInv, TypeOK
    <2> QED
      BY <2>1, <2>2
  <1>11. ASSUME NEW w \in Workers, Exit(w) PROVE ThreadAccounting'
    BY <1>11, LeaveAccounts DEF Exit
  <1>12. CASE UNCHANGED vars
    BY <1>12, <1>1 DEF vars, AccountsKept, Alive
  <1> QED
    BY <1>1, <1>2, <1>3, <1>4, <1>5, <1>6, <1>7, <1>8, <1>9, <1>10, <1>11, <1>12
       DEF Next, CallStep, WorkerStep, Take, TimeOutTake

(* _curThreadCnt is the number of live threads and never passes the limit. *)
THEOREM ThreadsAccounted == Spec => []ThreadAccounting
  <1>1. Spec => [](TypeInv /\ ThreadAccounting)
    BY TypeInvInit, TypeInvStep, AccountsInit, AccountsStep, PTL DEF Spec
  <1> QED
    BY <1>1, PTL

-----------------------------------------------------------------------------
(* What a return of stop() guarantees *)

(* Nothing restarts a queue that is stopping: no step sets _isRunning,     *)
(* links an operation or starts a thread once it is cleared.               *)
LEMMA ShutdownIsOneWay ==
    ASSUME TypeInv, [Next]_vars, ~isRunning
    PROVE  /\ ~isRunning'
           /\ opList = <<>> => opList' = <<>>
           /\ Alive' \subseteq Alive
  <1> DEFINE OneWay == /\ ~isRunning'
                       /\ opList = <<>> => opList' = <<>>
                       /\ Alive' \subseteq Alive
  <1> SUFFICES OneWay
    OBVIOUS
  <1> USE DEF Alive, queueVars
  <1>1. ASSUME NEW t \in Threads, NEW o \in Ops, AddOperation(t, o) PROVE OneWay
    BY <1>1 DEF AddOperation
  <1>2. ASSUME NEW t \in Threads, Cancle(t) \/ Stop(t) \/ StopCancle(t) PROVE OneWay
    BY <1>2 DEF Cancle, Stop, StopCancle, ClearList
  <1>3. ASSUME NEW t \in Threads, NEW atfont \in BOOLEAN, AddPush(t, atfont)
        PROVE OneWay
    BY <1>3 DEF AddPush, StillRunning
  <1>4. ASSUME NEW t \in Threads, AddRefuse(t) \/ StopProbe(t) \/ StopLook(t)
        PROVE OneWay
    BY <1>4 DEF AddRefuse, StopProbe, StopLook
  <1>5. ASSUME NEW t \in Threads, AddNotify(t) \/ StopNotify(t) PROVE OneWay
    <2>1. NotifyAll /\ UNCHANGED <<isRunning, opList>>
      BY <1>5 DEF AddNotify, StopNotify
    <2> QED
      BY <2>1, NotifyKeepsAlive DEF TypeInv
  <1>6. ASSUME NEW w \in Workers,
               Register(w) \/ While(w) \/ FindNothing(w) \/ Block(w) \/ OpReturns(w)
        PROVE OneWay
    BY <1>6 DEF Register, While, FindNothing, Block, OpReturns, TypeInv, TypeOK
  <1>7. ASSUME NEW w \in Workers, TakeOrLeave(w) PROVE OneWay
    BY <1>7 DEF TakeOrLeave, Leave, TypeInv, TypeOK
  <1>8. ASSUME NEW w \in Workers, TimeOutIdle(w) \/ Exit(w) PROVE OneWay
    BY <1>8 DEF TimeOutIdle, Exit, Leave, hasOperation, TypeInv, TypeOK
  <1>9. CASE UNCHANGED vars
    BY <1>9 DEF vars
  <1> QED
    BY <1>1, <1>2, <1>3, <1>4, <1>5, <1>6, <1>7, <1>8, <1>9
       DEF Next, CallStep, WorkerStep, Take, TimeOutTake

(* A thread that has found the others gone is the only one that can be left. *)
LEMMA OthersGoneMeans ==
    ASSUME TypeInv, ThreadAccounting, StopProgress,
           NEW t \in Threads, call[t] = "stopLook", OthersGone(t)
    PROVE  Alive \subseteq {t}
  <1>1. isOpThread[t] <=> t \in Workers
    BY DEF StopProgress
  <1>2. CASE t \in Workers
    <2>1. t \in Alive
      BY <1>2 DEF TypeInv, CallDiscipline, Alive
    <2>2. Cardinality(Alive) = 1
      BY <1>1, <1>2 DEF OthersGone, ThreadAccounting
    <2>3. PICK x : Alive = {x}
      BY <2>2, AliveFinite, FS_Singleton
    <2> QED
      BY <2>1, <2>3
  <1>3. CASE t \notin Workers
    <2>1. Cardinality(Alive) = 0
      BY <1>1, <1>3 DEF OthersGone, ThreadAccounting
    <2> QED
      BY <2>1, AliveFinite, FS_EmptySet
  <1> QED
    BY <1>2, <1>3

StopInv == TypeInv /\ ThreadAccounting /\ StopProgress /\ StopIsQuiet

LEMMA StopInvInit == Init => StopInv
  <1>1. Init => StopProgress /\ StopIsQuiet
    BY DEF Init, StopProgress, StopIsQuiet, InStop
  <1> QED
    BY <1>1, TypeInvInit, AccountsInit DEF StopInv

(* Only the steps of stop() itself move a thread to a point of stop().     *)
LEMMA StopProgressStep == StopInv /\ [Next]_vars => StopProgress'
  <1> SUFFICES ASSUME StopInv, [Next]_vars, NEW s \in Threads
               PROVE  /\ call'[s] \in InStop => ~isRunning'
                      /\ call'[s] \in {"stopProbe", "stopWake", "stopLook"} => opList' = <<>>
                      /\ call'[s] \in {"stopWake", "stopLook"} =>
                            (isOpThread'[s] <=> s \in Workers)
    BY DEF StopProgress
  <1> DEFINE Goal == /\ call'[s] \in InStop => ~isRunning'
                     /\ call'[s] \in {"stopProbe", "stopWake", "stopLook"} => opList' = <<>>
                     /\ call'[s] \in {"stopWake", "stopLook"} =>
                           (isOpThread'[s] <=> s \in Workers)
  <1> USE DEF StopInv, TypeInv, TypeOK, StopProgress, InStop
  (* A thread that was already there, or is not there now. *)
  <1>1. ASSUME call'[s] = call[s] \/ call'[s] \notin InStop, isOpThread'[s] = isOpThread[s]
        PROVE Goal
    BY <1>1, ShutdownIsOneWay
  <1>2. ASSUME NEW t \in Threads, NEW o \in Ops, AddOperation(t, o) PROVE Goal
    <2>1. call'[s] = call[s] \/ call'[s] \notin InStop
      BY <1>2 DEF AddOperation
    <2> QED
      BY <1>1, <1>2, <2>1 DEF AddOperation
  <1>3. ASSUME NEW t \in Threads, Cancle(t) PROVE Goal
    BY <1>3, <1>1 DEF Cancle
  <1>4. ASSUME NEW t \in Threads, Stop(t) PROVE Goal
    <2>1. CASE s = t
      BY <1>4, <2>1 DEF Stop
    <2>2. CASE s # t
      BY <1>4, <2>2, <1>1 DEF Stop
    <2> QED
      BY <2>1, <2>2
  <1>5. ASSUME NEW t \in Threads, NEW atfont \in BOOLEAN, AddPush(t, atfont) PROVE Goal
    <2>1. call'[s] = call[s] \/ call'[s] \notin InStop
      BY <1>5 DEF AddPush
    <2> QED
      BY <1>1, <1>5, <2>1 DEF AddPush
  <1>6. ASSUME NEW t \in Threads, AddRefuse(t) \/ AddNotify(t) PROVE Goal
    <2>1. call'[s] = call[s] \/ call'[s] \notin InStop
      BY <1>6 DEF AddRefuse, AddNotify
    <2> QED
      BY <1>1, <1>6, <2>1 DEF AddRefuse, AddNotify
  <1>7. ASSUME NEW t \in Threads, StopNotify(t) PROVE Goal
    <2>1. UNCHANGED <<isRunning, opList, isOpThread>>
      BY <1>7 DEF StopNotify, queueVars
    <2>2. CASE s = t
      BY <1>7, <2>1, <2>2 DEF StopNotify
    <2>3. CASE s # t
      BY <1>7, <2>1, <2>3, <1>1 DEF StopNotify
    <2> QED
      BY <2>2, <2>3
  <1>8. ASSUME NEW t \in Threads, StopCancle(t) PROVE Goal
    <2>1. CASE s = t
      BY <1>8, <2>1 DEF StopCancle, ClearList
    <2>2. CASE s # t
      BY <1>8, <2>2, <1>1 DEF StopCancle
    <2> QED
      BY <2>1, <2>2
  <1>9. ASSUME NEW t \in Threads, StopProbe(t) PROVE Goal
    <2>1. CASE s = t
      <3>1. t \in threadIdSet <=> t \in Workers
        BY <1>9 DEF StopProbe, ThreadAccounting, CallDiscipline
      <3> QED
        BY <1>9, <2>1, <3>1 DEF StopProbe, queueVars
    <2>2. CASE s # t
      BY <1>9, <2>2, <1>1 DEF StopProbe
    <2> QED
      BY <2>1, <2>2
  <1>10. ASSUME NEW t \in Threads, StopLook(t) PROVE Goal
    <2>1. UNCHANGED <<isRunning, opList, isOpThread>>
      BY <1>10 DEF StopLook, queueVars
    <2>2. CASE s = t
      BY <1>10, <2>1, <2>2 DEF StopLook
    <2>3. CASE s # t
      BY <1>10, <2>1, <2>3, <1>1 DEF StopLook
    <2> QED
      BY <2>2, <2>3
  <1>11. ASSUME NEW w \in Workers, WorkerStep(w) PROVE Goal
    <2>1. UNCHANGED <<call, isOpThread>>
      BY <1>11 DEF WorkerStep, Register, While, Take, FindNothing, Block, TimeOutTake,
                   TakeOrLeave, TimeOutIdle, OpReturns, Exit
    <2> QED
      BY <2>1, <1>1
  <1>12. CASE UNCHANGED vars
    BY <1>12, <1>1 DEF vars
  <1> QED
    BY <1>2, <1>3, <1>4, <1>5, <1>6, <1>7, <1>8, <1>9, <1>10, <1>11, <1>12
       DEF Next, CallStep

LEMMA StopIsQuietStep == StopInv /\ [Next]_vars => StopIsQuiet'
  <1> SUFFICES ASSUME StopInv, [Next]_vars PROVE StopIsQuiet'
    OBVIOUS
  <1> USE DEF StopInv
  <1>1. CASE UNCHANGED stopped
    BY <1>1, ShutdownIsOneWay DEF StopIsQuiet
  <1>2. ASSUME NEW t \in Threads, StopLook(t), stopped' # stopped PROVE StopIsQuiet'
    <2>1. /\ call[t] = "stopLook" /\ OthersGone(t)
          /\ stopped' = stopped \cup {t}
          /\ UNCHANGED <<isRunning, opList, pc>>
      BY <1>2 DEF StopLook, queueVars
    <2>2. ~isRunning /\ opList = <<>>
      BY <2>1 DEF StopProgress, InStop
    <2>3. Alive' = Alive /\ Alive \subseteq {t}
      BY <2>1, OthersGoneMeans DEF Alive
    <2> QED
      BY <2>1, <2>2, <2>3 DEF StopIsQuiet
  <1>3. stopped' # stopped => \E t \in Threads : StopLook(t)
    BY DEF Next, CallStep, WorkerStep, vars, AddOperation, Cancle, Stop, AddPush,
           AddRefuse, AddNotify, StopNotify, StopCancle, StopProbe, Register, While,
           Take, FindNothing, Block, TimeOutTake, TakeOrLeave, TimeOutIdle, OpReturns,
           Exit
  <1> QED
    BY <1>1, <1>2, <1>3

(* When a call of stop() has returned, no thread of the queue is left but  *)
(* the caller's own, the list is empty, and both stay so: what the         *)
(* destructor of COperationQueue relies on.                                *)
THEOREM StopQuiesces == Spec => []StopIsQuiet
  <1>1. StopInv /\ [Next]_vars => StopInv'
    BY TypeInvStep, AccountsStep, StopProgressStep, StopIsQuietStep DEF StopInv
  <1>2. Spec => []StopInv
    BY <1>1, StopInvInit, PTL DEF Spec
  <1> QED
    BY <1>2, PTL DEF StopInv

-----------------------------------------------------------------------------
(* The queue implements TaskQueue *)

(* A thread has an operation exactly while it executes it.                 *)
RunHasOp == \A w \in Workers : pc[w] = "run" <=> cur[w] # NoOp

(* An operation whose fate is beyond the two tests of addOperation.        *)
Known(o) == fate[o] \notin {"fresh", "adding"}

(* An operation between the two tests is in one call; those in the list    *)
(* and in the threads are beyond them.                                     *)
Handed ==
    /\ \A t \in Threads : call[t] = "push" => fate[arg[t]] = "adding"
    /\ \A t, u \in Threads :
          call[t] = "push" /\ call[u] = "push" /\ arg[t] = arg[u] => t = u
    /\ \A i \in 1 .. Len(opList) : Known(opList[i])
    /\ \A w \in Workers : cur[w] # NoOp => Known(cur[w])

ImplInv == StopInv /\ RunHasOp /\ Handed

LEMMA ImplInvInit == Init => RunHasOp /\ Handed
  BY OpsAssumption DEF Init, RunHasOp, Handed, Known

LEMMA RunHasOpStep == ImplInv /\ [Next]_vars => RunHasOp'
  <1> SUFFICES ASSUME ImplInv, [Next]_vars PROVE RunHasOp'
    OBVIOUS
  <1> USE OpsAssumption
  <1> USE DEF ImplInv, StopInv, TypeInv, TypeOK, RunHasOp
  <1>1. ASSUME NEW t \in Threads, NEW o \in Ops, AddOperation(t, o) PROVE RunHasOp'
    BY <1>1 DEF AddOperation
  <1>2. ASSUME NEW t \in Threads,
               Cancle(t) \/ Stop(t) \/ StopCancle(t) \/ AddRefuse(t) \/ StopProbe(t) \/ StopLook(t)
        PROVE RunHasOp'
    BY <1>2 DEF Cancle, Stop, StopCancle, AddRefuse, StopProbe, StopLook
  <1>3. ASSUME NEW t \in Threads, NEW atfont \in BOOLEAN, AddPush(t, atfont)
        PROVE RunHasOp'
    BY <1>3 DEF AddPush, Spawn
  <1>4. ASSUME NEW t \in Threads, AddNotify(t) \/ StopNotify(t) PROVE RunHasOp'
    BY <1>4 DEF AddNotify, StopNotify, NotifyAll
  <1>5. ASSUME NEW w \in Workers,
               Register(w) \/ While(w) \/ FindNothing(w) \/ Block(w) \/ OpReturns(w)
        PROVE RunHasOp'
    BY <1>5 DEF Register, While, FindNothing, Block, OpReturns
  <1>6. ASSUME NEW w \in Workers, hasOperation, pc[w] # "run", TakeOrLeave(w)
        PROVE RunHasOp'
    <2>1. CASE isRunning
      <3>1. opList # <<>>
        BY <1>6, <2>1 DEF hasOperation
      <3>2. Head(opList) \in Ops
        BY <3>1, HeadTailProperties
      <3> QED
        BY <1>6, <2>1, <3>2 DEF TakeOrLeave
    <2>2. CASE ~isRunning
      BY <1>6, <2>2 DEF TakeOrLeave, Leave
    <2> QED
      BY <2>1, <2>2
  <1>7. ASSUME NEW w \in Workers, TimeOutIdle(w) \/ Exit(w) PROVE RunHasOp'
    BY <1>7 DEF TimeOutIdle, Exit, Leave
  <1>8. CASE UNCHANGED vars
    BY <1>8 DEF vars
  <1> QED
    BY <1>1, <1>2, <1>3, <1>4, <1>5, <1>6, <1>7, <1>8
       DEF Next, CallStep, WorkerStep, Take, TimeOutTake

LEMMA HandedStep == ImplInv /\ [Next]_vars => Handed'
  <1> SUFFICES ASSUME ImplInv, [Next]_vars PROVE Handed'
    OBVIOUS
  <1> USE OpsAssumption
  <1> USE DEF ImplInv, StopInv, TypeInv, TypeOK, CallDiscipline, Handed, Known
  <1>1. ASSUME NEW t \in Threads, NEW o \in Ops, AddOperation(t, o) PROVE Handed'
    <2>1. UNCHANGED <<opList, cur>> /\ fate[o] = "fresh"
      BY <1>1 DEF AddOperation, queueVars
    <2>2. CASE isRunning
      <3>1. /\ call' = [call EXCEPT ![t] = "push"] /\ arg' = [arg EXCEPT ![t] = o]
            /\ fate' = [fate EXCEPT ![o] = "adding"]
        BY <1>1, <2>2 DEF AddOperation
      <3>2. \A u \in Threads : call[u] = "push" => arg[u] # o
        BY <2>1
      <3>3. \A u \in Threads : call'[u] = "push" => fate'[arg'[u]] = "adding"
        BY <3>1, <3>2
      <3>4. \A u, v \in Threads :
               call'[u] = "push" /\ call'[v] = "push" /\ arg'[u] = arg'[v] => u = v
        BY <3>1, <3>2
      <3>5. /\ \A i \in 1 .. Len(opList) : fate'[opList[i]] \notin {"fresh", "adding"}
            /\ \A w \in Workers : cur[w] # NoOp => fate'[cur[w]] \notin {"fresh", "adding"}
        BY <2>1, <3>1
      <3> QED
        BY <2>1, <3>3, <3>4, <3>5
    <2>3. CASE ~isRunning
      <3>1. fate' = [fate EXCEPT ![o] = "refused"] /\ UNCHANGED <<call, arg>>
        BY <1>1, <2>3 DEF AddOperation
      <3> QED
        BY <2>1, <3>1
    <2> QED
      BY <2>2, <2>3
  <1>2. ASSUME NEW t \in Threads, Cancle(t) \/ StopCancle(t) PROVE Handed'
    <2>1. /\ opList' = <<>> /\ UNCHANGED <<arg, cur>>
          /\ \A p \in Ops : fate'[p] = fate[p] \/ (fate[p] = "queued" /\ fate'[p] = "cancelled")
          /\ \A u \in Threads : call'[u] = "push" => call[u] = "push"
      BY <1>2 DEF Cancle, StopCancle, ClearList
    <2>2. \A u \in Threads : call'[u] = "push" => fate'[arg'[u]] = "adding"
      BY <2>1
    <2>3. \A w \in Workers : cur'[w] # NoOp => fate'[cur'[w]] \notin {"fresh", "adding"}
      BY <2>1
    <2>4. 1 .. Len(opList') = {}
      BY <2>1
    <2> QED
      BY <2>1, <2>2, <2>3, <2>4
  <1>3. ASSUME NEW t \in Threads, NEW atfont \in BOOLEAN, AddPush(t, atfont)
        PROVE Handed'
    <2>1. PICK o \in Ops : o = arg[t] /\ fate[o] = "adding"
      BY <1>3 DEF AddPush
    <2>2. /\ call' = [call EXCEPT ![t] = "notify"] /\ arg' = [arg EXCEPT ![t] = NoOp]
          /\ fate' = [fate EXCEPT ![o] = "queued"] /\ cur' = cur
          /\ opList' = <<o>> \o opList \/ opList' = Append(opList, o)
      BY <1>3, <2>1 DEF AddPush
    <2>3. \A i \in 1 .. Len(opList') :
             opList'[i] = o \/ \E j \in 1 .. Len(opList) : opList'[i] = opList[j]
      <3>1. CASE opList' = <<o>> \o opList
        BY <3>1
      <3>2. CASE opList' = Append(opList, o)
        BY <3>2
      <3> QED
        BY <2>2, <3>1, <3>2
    <2>4. \A u \in Threads \ {t} : call[u] = "push" => arg[u] # o
      BY <1>3, <2>1 DEF AddPush
    <2>5. \A u \in Threads : call'[u] = "push" => u # t /\ fate'[arg'[u]] = "adding"
      BY <2>2, <2>4
    <2>6. \A u, v \in Threads :
             call'[u] = "push" /\ call'[v] = "push" /\ arg'[u] = arg'[v] => u = v
      BY <2>2, <2>5
    <2>7. \A p \in Ops : Known(p) \/ p = o => Known(p)'
      BY <2>2
    <2>8. \A i \in 1 .. Len(opList) : opList[i] \in Ops
      OBVIOUS
    <2>9. ASSUME NEW i \in 1 .. Len(opList') PROVE Known(opList[i])'
      <3>1. CASE opList'[i] = o
        BY <2>7, <3>1
      <3>2. CASE opList'[i] # o
        <4>1. PICK j \in 1 .. Len(opList) : opList'[i] = opList[j]
          BY <2>3, <3>2
        <4>2. opList[j] \in Ops /\ Known(opList[j])
          BY <2>8
        <4> QED
          BY <2>7, <4>1, <4>2
      <3> QED
        BY <3>1, <3>2
    <2>10. \A w \in Workers : cur[w] # NoOp => cur[w] \in Ops /\ Known(cur[w])
      OBVIOUS
    <2>11. \A w \in Workers : cur'[w] # NoOp => Known(cur[w])'
      BY <2>2, <2>7, <2>10
    <2> QED
      BY <2>5, <2>6, <2>9, <2>11
  <1>4. ASSUME NEW t \in Threads, AddRefuse(t) PROVE Handed'
    <2>1. PICK o \in Ops : o = arg[t] /\ fate[o] = "adding" /\ call[t] = "push"
      BY <1>4 DEF AddRefuse
    <2>2. /\ call' = [call EXCEPT ![t] = "none"] /\ arg' = [arg EXCEPT ![t] = NoOp]
          /\ fate' = [fate EXCEPT ![o] = "refused"] /\ UNCHANGED <<cur, opList>>
      BY <1>4, <2>1 DEF AddRefuse, queueVars
    <2>3. \A u \in Threads \ {t} : call[u] = "push" => arg[u] # o
      BY <2>1
    <2>4. \A u \in Threads : call'[u] = "push" => u # t /\ fate'[arg'[u]] = "adding"
      BY <2>2, <2>3
    <2>5. \A u, v \in Threads :
             call'[u] = "push" /\ call'[v] = "push" /\ arg'[u] = arg'[v] => u = v
      BY <2>2, <2>4
    <2>6. \A p \in Ops : Known(p) => Known(p)'
      BY <2>2
    <2>7. /\ \A i \in 1 .. Len(opList) : opList[i] \in Ops
          /\ \A w \in Workers : cur[w] # NoOp => cur[w] \in Ops
      OBVIOUS
    <2>8. \A i \in 1 .. Len(opList') : Known(opList[i])'
      BY <2>2, <2>6, <2>7
    <2>9. \A w \in Workers : cur'[w] # NoOp => Known(cur[w])'
      BY <2>2, <2>6, <2>7
    <2> QED
      BY <2>4, <2>5, <2>8, <2>9
  <1>5. ASSUME NEW t \in Threads,
               Stop(t) \/ StopProbe(t) \/ StopLook(t) \/ AddNotify(t) \/ StopNotify(t)
        PROVE Handed'
    <2>1. /\ UNCHANGED <<arg, fate, opList, cur>>
          /\ \A u \in Threads : call'[u] = "push" => call[u] = "push"
      BY <1>5 DEF Stop, StopProbe, StopLook, AddNotify, StopNotify, queueVars
    <2> QED
      BY <2>1
  <1>6. ASSUME NEW w \in Workers,
               Register(w) \/ While(w) \/ FindNothing(w) \/ Block(w) \/ TimeOutIdle(w) \/ Exit(w)
        PROVE Handed'
    BY <1>6 DEF Register, While, FindNothing, Block, TimeOutIdle, Exit, queueVars
  <1>7. ASSUME NEW w \in Workers, OpReturns(w) PROVE Handed'
    <2>1. PICK o \in Ops : o = cur[w] /\ Known(o)
      BY <1>7 DEF OpReturns, RunHasOp
    <2> QED
      BY <1>7, <2>1 DEF OpReturns, queueVars
  <1>8. ASSUME NEW w \in Workers, hasOperation, TakeOrLeave(w) PROVE Handed'
    <2>1. CASE isRunning
      <3>1. opList # <<>>
        BY <1>8, <2>1 DEF hasOperation
      <3>2. PICK o \in Ops : o = Head(opList) /\ Known(o)
        BY <3>1, HeadTailProperties
      <3>3. /\ opList' = Tail(opList) /\ cur' = [cur EXCEPT ![w] = o]
            /\ fate' = [fate EXCEPT ![o] = "running"] /\ UNCHANGED <<call, arg>>
        BY <1>8, <2>1, <3>2 DEF TakeOrLeave, EraseTaken
      <3>4. \A i \in 1 .. Len(opList') : \E j \in 1 .. Len(opList) : opList'[i] = opList[j]
        BY <3>1, <3>3
      <3> QED
        BY <3>2, <3>3, <3>4
    <2>2. CASE ~isRunning
      BY <1>8, <2>2 DEF TakeOrLeave
    <2> QED
      BY <2>1, <2>2
  <1>9. CASE UNCHANGED vars
    BY <1>9 DEF vars
  <1> QED
    BY <1>1, <1>2, <1>3, <1>4, <1>5, <1>6, <1>7, <1>8, <1>9
       DEF Next, CallStep, WorkerStep, Take, TimeOutTake

LEMMA ImplInvariant == Spec => []ImplInv
  <1>1. StopInv /\ [Next]_vars => StopInv'
    BY TypeInvStep, AccountsStep, StopProgressStep, StopIsQuietStep DEF StopInv
  <1>2. ImplInv /\ [Next]_vars => ImplInv'
    BY <1>1, RunHasOpStep, HandedStep DEF ImplInv
  <1>3. Init => ImplInv
    BY StopInvInit, ImplInvInit DEF ImplInv
  <1> QED
    BY <1>2, <1>3, PTL DEF Spec

(* The threads that execute are fewer than the limit while one that is     *)
(* alive does not.                                                         *)
LEMMA BusyBelowLimit ==
    ASSUME ImplInv, NEW w \in Workers, pc[w] \notin {"run", "off"}
    PROVE  Cardinality(Abs!Busy) < MaxConcurrency
  <1>1. Abs!Busy \subseteq Alive \ {w}
    BY DEF Abs!Busy, Alive, ImplInv, RunHasOp
  <1>2. /\ IsFiniteSet(Alive \ {w})
        /\ Cardinality(Alive \ {w}) = Cardinality(Alive) - 1
    BY AliveFinite, FS_RemoveElement DEF Alive
  <1>3. /\ Cardinality(Abs!Busy) \in Nat
        /\ Cardinality(Abs!Busy) <= Cardinality(Alive \ {w})
    BY <1>1, <1>2, FS_Subset, FS_CardinalityType
  <1>4. Cardinality(Alive) <= MaxConcurrency
    BY DEF ImplInv, StopInv, ThreadAccounting
  <1> QED
    BY <1>2, <1>3, <1>4, AliveFinite, BoundsAssumption

(* Each step is one of the abstract queue or changes nothing it knows of.  *)
LEMMA StepImplements ==
    ASSUME ImplInv, [Next]_vars PROVE [Abs!AbsNext]_(Abs!absVars)
  <1> DEFINE abs == [o \in Ops |-> IF fate[o] = "adding" THEN "fresh" ELSE fate[o]]
  <1> USE OpsAssumption
  <1> USE DEF ImplInv, StopInv, TypeInv, TypeOK
  <1>a. ASSUME UNCHANGED <<isRunning, opList, cur, stopped, fate>>
        PROVE  UNCHANGED Abs!absVars
    BY <1>a DEF Abs!absVars
  <1>1. ASSUME NEW t \in Threads, NEW o \in Ops, AddOperation(t, o)
        PROVE  [Abs!AbsNext]_(Abs!absVars)
    <2>1. UNCHANGED <<isRunning, opList, cur, stopped>> /\ fate[o] = "fresh"
      BY <1>1 DEF AddOperation, queueVars
    <2>2. CASE isRunning
      <3>1. fate' = [fate EXCEPT ![o] = "adding"]
        BY <1>1, <2>2 DEF AddOperation
      <3>2. abs' = abs
        BY <2>1, <3>1
      <3> QED
        BY <2>1, <3>2 DEF Abs!absVars
    <2>3. CASE ~isRunning
      <3>1. abs' = [abs EXCEPT ![o] = "refused"] /\ abs[o] = "fresh"
        BY <1>1, <2>1, <2>3 DEF AddOperation
      <3>2. Abs!Refuse(o)
        BY <2>1, <2>3, <3>1 DEF Abs!Refuse
      <3> QED
        BY <3>2 DEF Abs!AbsNext
    <2> QED
      BY <2>2, <2>3
  <1>2. ASSUME NEW t \in Threads, Cancle(t) \/ StopCancle(t) PROVE Abs!AbsNext
    <2>1. ClearList /\ UNCHANGED <<isRunning, cur, stopped>>
      BY <1>2 DEF Cancle, StopCancle
    <2>2. abs' = [o \in Ops |-> IF abs[o] = "queued" THEN "cancelled" ELSE abs[o]]
      BY <2>1 DEF ClearList
    <2>3. Abs!Drop
      BY <2>1, <2>2 DEF Abs!Drop, ClearList
    <2> QED
      BY <2>3 DEF Abs!AbsNext
  <1>3. ASSUME NEW t \in Threads, Stop(t) PROVE Abs!AbsNext
    <2>1. Abs!Close
      BY <1>3 DEF Stop, Abs!Close
    <2> QED
      BY <2>1 DEF Abs!AbsNext
  <1>4. ASSUME NEW t \in Threads, NEW atfont \in BOOLEAN, AddPush(t, atfont)
        PROVE Abs!AbsNext
    <2>1. PICK o \in Ops : o = arg[t] /\ fate[o] = "adding"
      BY <1>4 DEF AddPush, CallDiscipline, Handed
    <2>2. abs' = [abs EXCEPT ![o] = "queued"] /\ abs[o] = "fresh"
      BY <1>4, <2>1 DEF AddPush
    <2>3. /\ isRunning /\ UNCHANGED <<isRunning, cur, stopped>>
          /\ opList' \in {Append(opList, o), <<o>> \o opList}
      BY <1>4, <2>1 DEF AddPush, StillRunning
    <2>4. Abs!Accept(o)
      BY <2>2, <2>3 DEF Abs!Accept
    <2> QED
      BY <2>4 DEF Abs!AbsNext
  <1>5. ASSUME NEW t \in Threads, AddRefuse(t) PROVE Abs!AbsNext
    <2>1. PICK o \in Ops : o = arg[t] /\ fate[o] = "adding"
      BY <1>5 DEF AddRefuse, CallDiscipline, Handed
    <2>2. abs' = [abs EXCEPT ![o] = "refused"] /\ abs[o] = "fresh"
      BY <1>5, <2>1 DEF AddRefuse
    <2>3. ~isRunning /\ UNCHANGED <<isRunning, opList, cur, stopped>>
      BY <1>5 DEF AddRefuse, StillRunning, queueVars
    <2>4. Abs!Refuse(o)
      BY <2>2, <2>3 DEF Abs!Refuse
    <2> QED
      BY <2>4 DEF Abs!AbsNext
  <1>6. ASSUME NEW t \in Threads, AddNotify(t) \/ StopNotify(t) \/ StopProbe(t)
        PROVE  UNCHANGED Abs!absVars
    BY <1>6, <1>a DEF AddNotify, StopNotify, StopProbe, queueVars
  <1>7. ASSUME NEW t \in Threads, StopLook(t) PROVE [Abs!AbsNext]_(Abs!absVars)
    <2>1. UNCHANGED <<isRunning, opList, cur, fate>> /\ call[t] = "stopLook"
      BY <1>7 DEF StopLook, queueVars
    <2>2. CASE OthersGone(t)
      <3>1. ~isRunning /\ opList = <<>> /\ stopped' = stopped \cup {t}
        BY <1>7, <2>1, <2>2 DEF StopLook, StopProgress, InStop
      <3>2. Alive \subseteq {t}
        BY <2>1, <2>2, OthersGoneMeans
      <3>3. Abs!Busy \subseteq {t}
        BY <3>2 DEF Abs!Busy, Alive, RunHasOp
      <3>4. Abs!Quiesce(t)
        BY <2>1, <3>1, <3>3 DEF Abs!Quiesce
      <3> QED
        BY <3>4 DEF Abs!AbsNext, Threads
    <2>3. CASE ~OthersGone(t)
      BY <1>7, <2>1, <2>3, <1>a DEF StopLook
    <2> QED
      BY <2>2, <2>3
  <1>8. ASSUME NEW w \in Workers,
               Register(w) \/ While(w) \/ FindNothing(w) \/ Block(w) \/ TimeOutIdle(w) \/ Exit(w)
        PROVE  UNCHANGED Abs!absVars
    BY <1>8, <1>a DEF Register, While, FindNothing, Block, TimeOutIdle, Exit, queueVars
  <1>9. ASSUME NEW w \in Workers, OpReturns(w) PROVE Abs!AbsNext
    <2>1. PICK o \in Ops : o = cur[w] /\ o # NoOp
      BY <1>9 DEF OpReturns, RunHasOp
    <2>2. abs' = [abs EXCEPT ![o] = "done"]
      BY <1>9, <2>1 DEF OpReturns
    <2>3. Abs!Finish(w)
      BY <1>9, <2>1, <2>2 DEF OpReturns, queueVars, Abs!Finish
    <2> QED
      BY <2>3 DEF Abs!AbsNext
  <1>10. ASSUME NEW w \in Workers, hasOperation, pc[w] \in {"lock", "wait"}, TakeOrLeave(w)
         PROVE  [Abs!AbsNext]_(Abs!absVars)
    <2>1. UNCHANGED <<isRunning, stopped>>
      BY <1>10 DEF TakeOrLeave
    <2>2. CASE isRunning
      <3>1. opList # <<>>
        BY <1>10, <2>2 DEF hasOperation
      <3>2. PICK o \in Ops : o = Head(opList)
        BY <3>1, HeadTailProperties
      <3>3. /\ opList' = Tail(opList) /\ cur' = [cur EXCEPT ![w] = o]
            /\ fate' = [fate EXCEPT ![o] = "running"]
        BY <1>10, <2>2, <3>2 DEF TakeOrLeave, EraseTaken
      <3>4. abs' = [abs EXCEPT ![o] = "running"]
        BY <3>3
      <3>5. cur[w] = NoOp
        BY <1>10 DEF RunHasOp
      <3>6. Cardinality(Abs!Busy) < MaxConcurrency
        BY <1>10, BusyBelowLimit
      <3>7. Abs!Cardinality(Abs!Busy) = Cardinality(Abs!Busy)
        BY DEF Abs!Cardinality, Cardinality, Abs!IsFiniteSet, IsFiniteSet
      <3>8. Abs!Begin(w)
        BY <2>1, <2>2, <3>1, <3>2, <3>3, <3>4, <3>5, <3>6, <3>7 DEF Abs!Begin
      <3> QED
        BY <3>8 DEF Abs!AbsNext
    <2>3. CASE ~isRunning
      <3>1. UNCHANGED <<opList, cur, fate>>
        BY <1>10, <2>3 DEF TakeOrLeave
      <3> QED
        BY <2>1, <3>1, <1>a
    <2> QED
      BY <2>2, <2>3
  <1>11. CASE UNCHANGED vars
    BY <1>11, <1>a DEF vars
  <1> QED
    BY <1>1, <1>2, <1>3, <1>4, <1>5, <1>6, <1>7, <1>8, <1>9, <1>10, <1>11
       DEF Next, CallStep, WorkerStep, Take, TimeOutTake

(* The threads, notifications, timed waits and unlocked flags implement    *)
(* the queue that TaskQueue describes: operations begin in the order of    *)
(* the list, each once, none after stop(), and stop() returns to a queue   *)
(* that is quiet.                                                          *)
THEOREM QueueRefines == Spec => ImplementsTaskQueue
  <1>1. Init => Abs!AbsInit
    BY DEF Init, Abs!AbsInit
  <1>2. ImplInv /\ [Next]_vars => [Abs!AbsNext]_(Abs!absVars)
    BY StepImplements
  <1> QED
    BY <1>1, <1>2, ImplInvariant, PTL DEF Spec, ImplementsTaskQueue, Abs!AbsSpec

=============================================================================
