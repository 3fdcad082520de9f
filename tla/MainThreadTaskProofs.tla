------------------------ MODULE MainThreadTaskProofs ------------------------
(***************************************************************************)
(* Theorems about the main thread's task list, for any tasks and any       *)
(* number of additions, and about the players that use it.                 *)
(***************************************************************************)
EXTENDS LuaAVPlayer, SequenceTheorems, TLAPS

(* The flag can claim tasks that are not there only inside flush and after *)
(* it: what TickFindsTask needs to be inductive.                           *)
FlagExplained == ~empty /\ tasks = <<>> => shutdown \/ ~LockFree

IInv == TypeOK /\ TasksInOrder /\ FlagShowsTasks /\ FlagExplained /\ TickFindsTask /\ NothingLeft

-----------------------------------------------------------------------------
(* Moving the first of the waiting tasks to the end of those that were run *)
(* changes nothing in the order.                                           *)
LEMMA RunKeepsOrder ==
    ASSUME NEW S, NEW r \in Seq(S), NEW q \in Seq(S), q # <<>>
    PROVE  /\ Append(r, Head(q)) \in Seq(S) /\ Tail(q) \in Seq(S)
           /\ Append(r, Head(q)) \o Tail(q) = r \o q
  <1>1. Head(q) \in S /\ Tail(q) \in Seq(S) /\ <<Head(q)>> \in Seq(S)
    BY HeadTailProperties
  <1>2. Append(r, Head(q)) = r \o <<Head(q)>>
    BY <1>1, AppendIsConcat
  <1>3. <<Head(q)>> \o Tail(q) = q
    BY <1>1
  <1>4. (r \o <<Head(q)>>) \o Tail(q) = r \o (<<Head(q)>> \o Tail(q))
    BY <1>1, ConcatAssociative
  <1>5. Append(r, Head(q)) \in Seq(S)
    BY <1>1, AppendProperties
  <1> QED
    BY <1>1, <1>2, <1>3, <1>4, <1>5

(* A new task goes behind all those that wait.                             *)
LEMMA AddKeepsOrder ==
    ASSUME NEW S, NEW r \in Seq(S), NEW q \in Seq(S), NEW t \in S
    PROVE  /\ Append(q, t) \in Seq(S) /\ Append(q, t) # <<>>
           /\ Append(r \o q, t) = r \o Append(q, t)
           /\ Append(r \o q, t) \in Seq(S)
  <1>1. r \o q \in Seq(S) /\ <<t>> \in Seq(S)
    BY ConcatProperties
  <1>2. Append(q, t) = q \o <<t>> /\ Append(r \o q, t) = (r \o q) \o <<t>>
    BY <1>1, AppendIsConcat
  <1>3. (r \o q) \o <<t>> = r \o (q \o <<t>>)
    BY <1>1, ConcatAssociative
  <1>4. Append(q, t) \in Seq(S) /\ Append(q, t) # <<>> /\ Append(r \o q, t) \in Seq(S)
    BY <1>1, AppendProperties
  <1> QED
    BY <1>2, <1>3, <1>4

-----------------------------------------------------------------------------
LEMMA IInvInit == Init => IInv
  <1> SUFFICES ASSUME Init PROVE IInv
    OBVIOUS
  <1>1. <<>> \in Seq(Tasks)
    BY EmptySeq
  <1>2. TypeOK
    BY <1>1 DEF Init, TypeOK
  <1>3. TasksInOrder
    BY <1>1, ConcatEmptySeq DEF Init, TasksInOrder
  <1> QED
    BY <1>2, <1>3 DEF Init, IInv, FlagShowsTasks, FlagExplained, TickFindsTask, NothingLeft

(* Steps of the main thread that leave the list and its flags alone.       *)
LEMMA IInvOther ==
    ASSUME IInv, UNCHANGED <<tasks, empty, shutdown, added, ran>>,
           pc' \in {"idle", "pop", "task", "flush", "flushTask", "undefined"},
           pc' \in {"pop", "undefined"} /\ tasks = <<>> => shutdown,
           pc' = "undefined" => shutdown,
           pc \in {"flush", "flushTask"} => pc' \in {"flush", "flushTask"}
    PROVE  IInv'
  <1> USE DEF IInv
  <1>1. TypeOK' /\ TasksInOrder'
    BY DEF TypeOK, TasksInOrder
  <1>2. FlagShowsTasks' /\ NothingLeft'
    BY DEF FlagShowsTasks, NothingLeft
  <1>3. FlagExplained'
    BY DEF FlagExplained, LockFree
  <1>4. TickFindsTask'
    BY DEF TickFindsTask
  <1> QED
    BY <1>1, <1>2, <1>3, <1>4

LEMMA IInvAdd == ASSUME IInv, NEW t \in Tasks, AddTask(t) PROVE IInv'
  <1> USE DEF IInv, AddTask
  <1>1. tasks \in Seq(Tasks) /\ ran \in Seq(Tasks)
    BY DEF TypeOK
  <1>2. tasks' = Append(tasks, t) /\ added' = Append(ran \o tasks, t) /\ ran' = ran
    BY DEF Queue, TasksInOrder
  <1>3. /\ tasks' \in Seq(Tasks) /\ tasks' # <<>>
        /\ added' \in Seq(Tasks) /\ added' = ran' \o tasks'
    <2>1. /\ Append(tasks, t) \in Seq(Tasks) /\ Append(tasks, t) # <<>>
          /\ Append(ran \o tasks, t) = ran \o Append(tasks, t)
          /\ Append(ran \o tasks, t) \in Seq(Tasks)
      BY <1>1, AddKeepsOrder
    <2> QED
      BY <2>1, <1>2
  <1>4. TypeOK' /\ TasksInOrder'
    BY <1>3 DEF TypeOK, TasksInOrder
  <1>5. FlagShowsTasks' /\ FlagExplained' /\ NothingLeft'
    BY <1>3 DEF FlagShowsTasks, FlagExplained, NothingLeft, Refuses
  <1>6. TickFindsTask'
    BY <1>3 DEF TickFindsTask
  <1> QED
    BY <1>4, <1>5, <1>6

(* The first task is run, by tick or by flush. *)
LEMMA RunFirstKeepsOrder ==
    ASSUME TypeOK, TasksInOrder, RunFirst, UNCHANGED added
    PROVE  /\ tasks' \in Seq(Tasks) /\ ran' \in Seq(Tasks) /\ added' \in Seq(Tasks)
           /\ TasksInOrder'
  <1>1. tasks \in Seq(Tasks) /\ ran \in Seq(Tasks) /\ added \in Seq(Tasks) /\ tasks # <<>>
    BY DEF TypeOK, RunFirst
  <1> QED
    BY <1>1, RunKeepsOrder DEF RunFirst, TasksInOrder

LEMMA IInvTickRun == ASSUME IInv, TickRun PROVE IInv'
  <1> USE DEF IInv, TickRun, GoTo
  <1>1. /\ tasks' \in Seq(Tasks) /\ ran' \in Seq(Tasks) /\ added' \in Seq(Tasks)
        /\ TasksInOrder'
    BY RunFirstKeepsOrder
  <1>2. tasks # <<>> /\ ~empty /\ ~shutdown
    BY DEF RunFirst, FlagShowsTasks, NothingLeft
  <1>3. empty' = (tasks' = <<>>) /\ ~shutdown' /\ pc' = "task"
    BY <1>2 DEF EmptyAfter, RunFirst
  <1>4. TypeOK'
    BY <1>1, <1>3 DEF TypeOK
  <1> QED
    BY <1>1, <1>3, <1>4 DEF FlagShowsTasks, FlagExplained, TickFindsTask, NothingLeft

LEMMA IInvFlushRun == ASSUME IInv, FlushRun PROVE IInv'
  <1> USE DEF IInv, FlushRun, GoTo
  <1>1. /\ tasks' \in Seq(Tasks) /\ ran' \in Seq(Tasks) /\ added' \in Seq(Tasks)
        /\ TasksInOrder'
    BY RunFirstKeepsOrder
  <1>2. tasks # <<>> /\ ~empty /\ ~shutdown
    BY DEF RunFirst, FlagShowsTasks, NothingLeft
  <1>3. ~empty' /\ ~shutdown' /\ pc' = "flushTask"
    BY <1>2
  <1>4. TypeOK'
    BY <1>1, <1>3 DEF TypeOK
  <1> QED
    BY <1>1, <1>3, <1>4 DEF FlagShowsTasks, FlagExplained, TickFindsTask, NothingLeft, LockFree

LEMMA IInvFlushReturns == ASSUME IInv, FlushReturns PROVE IInv'
  <1> USE DEF IInv, FlushReturns, GoTo
  <1>1. tasks' = <<>> /\ shutdown' /\ ran' = ran /\ added' = ran \o <<>>
    BY DEF TasksInOrder
  <1>2. ran' = added'
    BY <1>1, ConcatEmptySeq DEF TypeOK
  <1>3. TypeOK' /\ TasksInOrder'
    BY DEF TypeOK, TasksInOrder
  <1> QED
    BY <1>1, <1>2, <1>3 DEF FlagShowsTasks, FlagExplained, TickFindsTask, NothingLeft

LEMMA IInvStep == IInv /\ [Next]_vars => IInv'
  <1> SUFFICES ASSUME IInv, [Next]_vars PROVE IInv'
    OBVIOUS
  <1>1. CASE \E t \in Tasks : AddTask(t)
    BY <1>1, IInvAdd
  <1>2. CASE TickEntry
    BY <1>2, IInvOther DEF TickEntry, GoTo, IInv, FlagExplained, LockFree
  <1>3. CASE TickRun
    BY <1>3, IInvTickRun
  <1>4. CASE TickOfNothing
    BY <1>4, IInvOther DEF TickOfNothing, GoTo, IInv, TickFindsTask
  <1>5. CASE TickReturns
    BY <1>5, IInvOther DEF TickReturns, GoTo
  <1>6. CASE FlushEntry
    BY <1>6, IInvOther DEF FlushEntry, GoTo
  <1>7. CASE FlushRun
    BY <1>7, IInvFlushRun
  <1>8. CASE FlushNext
    BY <1>8, IInvOther DEF FlushNext, GoTo
  <1>9. CASE FlushReturns
    BY <1>9, IInvFlushReturns
  <1>10. CASE UNCHANGED vars
    <2>1. pc \in {"idle", "pop", "task", "flush", "flushTask", "undefined"}
      BY DEF IInv, TypeOK
    <2> QED
      BY <1>10, <2>1, IInvOther DEF vars, IInv, TickFindsTask
  <1> QED
    BY <1>1, <1>2, <1>3, <1>4, <1>5, <1>6, <1>7, <1>8, <1>9, <1>10 DEF Next, Tick, Flush

LEMMA Invariance == Spec => []IInv
  <1> QED
    BY IInvInit, IInvStep, PTL DEF Spec

-----------------------------------------------------------------------------
(* addTask, tick and flush lose no task, run none twice, and run them in   *)
(* the order in which they were accepted, for any tasks and additions.     *)
THEOREM OrderIsKept == Spec => []TasksInOrder
  <1>1. IInv => TasksInOrder
    BY DEF IInv
  <1> QED
    BY <1>1, Invariance, PTL

(* The test of m_empty without the lock is safe in both directions until   *)
(* flush shuts the list: no task is hidden, and front() finds one.         *)
THEOREM UnlockedTestIsSafe == Spec => []UnlockedTestRight
  <1>1. IInv => UnlockedTestRight
    BY DEF IInv, UnlockedTestRight
  <1> QED
    BY <1>1, Invariance, PTL

(* After flush nothing is left or accepted. *)
THEOREM FlushIsFinal == Spec => []NothingLeft
  <1>1. IInv => NothingLeft
    BY DEF IInv
  <1> QED
    BY <1>1, Invariance, PTL

-----------------------------------------------------------------------------
(* The players. *)

(* The list is empty when Lua begins.                                      *)
LEMMA StartList == LuaInit => Init
  <1> QED
    BY DEF LuaInit

(* A step of the players, of libvlc and of Lua is at most one of the list. *)
LEMMA StepOfList == [LuaNext]_luaVars => [Next]_vars
  <1> SUFFICES ASSUME [LuaNext]_luaVars PROVE [Next]_vars
    OBVIOUS
  <1>1. CASE Lua
    BY <1>1 DEF Lua, NewPlayCenter, Release, PlayOrStop
  <1>2. CASE MainThread(Tick) \/ MainThread(FlushEntry) \/ MainThread(Flush)
    BY <1>2 DEF MainThread, Next
  <1>3. ASSUME NEW p \in Player, StopEnds(p) PROVE UNCHANGED vars
    BY <1>3 DEF StopEnds, Stopped
  <1>4. ASSUME NEW p \in Player, EventAdds(p) PROVE [Next]_vars
    <2>1. <<p, event[p]>> \in Tasks
      BY <1>4, TaskAssumption DEF EventAdds
    <2> QED
      BY <1>4, <2>1 DEF EventAdds, Adds, Next
  <1>5. ASSUME NEW p \in Player, NEW k \in Kind, EventBegins(p, k) PROVE UNCHANGED vars
    BY <1>5 DEF EventBegins
  <1>6. CASE UNCHANGED luaVars
    BY <1>6 DEF luaVars
  <1> QED
    BY <1>1, <1>2, <1>3, <1>4, <1>5, <1>6 DEF LuaNext

(* What players and libvlc do to the list are the calls that the list was  *)
(* proved for: its theorems hold with players that are stopped and         *)
(* released while their events are added and run.                          *)
THEOREM PlayersUseTheList == LuaSpec => Spec
  <1> QED
    BY StartList, StepOfList, PTL DEF LuaSpec, Spec

(* Hence the invariant of the list holds.                                  *)
LEMMA LuaList == LuaSpec => []IInv
  <1> QED
    BY PlayersUseTheList, Invariance, PTL

(* The two promises of the list, as the players meet them. *)
THEOREM ListHoldsUnderLua == LuaSpec => [](UnlockedTestRight /\ NothingLeft)
  <1> QED
    BY PlayersUseTheList, UnlockedTestIsSafe, FlushIsFinal, PTL

LuaTypes ==
    /\ object \in [Player -> {"none", "live", "dying", "gone"}]
    /\ media \in [Player -> BOOLEAN]
    /\ event \in [Player -> Kind \cup {"none", "undefined"}]
    /\ luaCall \in {NoCall} \cup ({"play", "stop", "release"} \X Player)
    /\ drained \in SUBSET Player

(* A thread of libvlc reports only for a medium, unless its player is gone. *)
SilentWithoutMedia ==
    \A p \in Player : object[p] \in {"none", "live"} /\ ~media[p] => event[p] = "none"

(* The main thread plays and stops live players, and releases dying ones.  *)
CallsOfTheLiving ==
    /\ \A p \in Player : luaCall \in {<<"play", p>>, <<"stop", p>>} => object[p] = "live"
    /\ \A p \in Player : object[p] = "none" => ~media[p]

DrainedStaySo ==
    \A p \in drained : /\ object[p] \in {"dying", "gone"} /\ ~media[p]
                       /\ Waiting(p) = {} /\ event[p] = "none"

LuaInv == LuaTypes /\ SilentWithoutMedia /\ CallsOfTheLiving /\ DrainedStaySo

(* A list without tasks of a player has none after its first was taken.    *)
LEMMA TakenLeavesNone ==
    ASSUME NEW p \in Player, tasks \in Seq(Tasks), tasks # <<>>, tasks' = Tail(tasks),
           Waiting(p) = {}
    PROVE  Waiting(p)' = {} /\ Head(tasks)[1] # p
  <1>1. Len(tasks) \in Nat \ {0} /\ Len(Tail(tasks)) = Len(tasks) - 1
    OBVIOUS
  <1>2. \A i \in 1 .. Len(tasks) - 1 : Tail(tasks)[i] = tasks[i + 1]
    BY <1>1
  <1>3. Head(tasks) = tasks[1] /\ 1 \in 1 .. Len(tasks)
    BY <1>1
  <1>4. \A i \in 1 .. Len(tasks) : tasks[i][1] # p
    BY DEF Waiting
  <1>5. \A i \in 1 .. Len(Tail(tasks)) : Tail(tasks)[i][1] # p
    BY <1>1, <1>2, <1>4
  <1>6. Waiting(p)' = {}
    BY <1>5 DEF Waiting
  <1> QED
    BY <1>3, <1>4, <1>6

(* An event of another player is added behind. *)
LEMMA AddedLeavesNone ==
    ASSUME NEW p \in Player, NEW q \in Player, q # p, NEW k \in Kind,
           tasks \in Seq(Tasks), tasks' = Append(tasks, <<q, k>>), Waiting(p) = {}
    PROVE  Waiting(p)' = {}
  <1>1. Len(tasks) \in Nat /\ Len(tasks') = Len(tasks) + 1
    OBVIOUS
  <1>2. \A i \in 1 .. Len(tasks) : tasks'[i] = tasks[i]
    BY <1>1
  <1>3. tasks'[Len(tasks) + 1] = <<q, k>>
    BY <1>1
  <1>4. \A i \in 1 .. Len(tasks) : tasks[i][1] # p
    BY DEF Waiting
  <1>5. \A i \in 1 .. Len(tasks) + 1 : tasks'[i][1] # p
    <2> SUFFICES ASSUME NEW i \in 1 .. Len(tasks) + 1 PROVE tasks'[i][1] # p
      OBVIOUS
    <2>1. CASE i = Len(tasks) + 1
      BY <1>3, <2>1
    <2>2. CASE i # Len(tasks) + 1
      <3>1. i \in 1 .. Len(tasks)
        BY <1>1, <2>2
      <3> QED
        BY <3>1, <1>2, <1>4
    <2> QED
      BY <2>1, <2>2
  <1> QED
    BY <1>1, <1>5 DEF Waiting

(* No player exists yet.                                                   *)
LEMMA LuaInvInit == LuaInit => LuaInv
  <1> QED
    BY DEF LuaInit, LuaInv, LuaTypes, SilentWithoutMedia, CallsOfTheLiving, DrainedStaySo,
           NoCall

(* Lua makes, plays, stops and releases players; only the last drains one. *)
LEMMA LuaKeepsInv == ASSUME LuaInv, Lua PROVE LuaInv'
  <1>1. UNCHANGED <<tasks, media, event>> /\ luaCall = NoCall
    BY DEF Lua, NewPlayCenter, Release, PlayOrStop, LuaRuns, vars
  <1>2. \A q \in Player : Waiting(q)' = Waiting(q)
    BY <1>1 DEF Waiting
  <1>3. PICK p \in Player : \/ NewPlayCenter(p) \/ Release(p)
                            \/ \E what \in {"play", "stop"} : PlayOrStop(p, what)
    BY DEF Lua
  <1>4. CASE NewPlayCenter(p)
    BY <1>1, <1>2, <1>4
    DEF NewPlayCenter, LuaInv, LuaTypes, SilentWithoutMedia, CallsOfTheLiving, DrainedStaySo,
        NoCall
  <1>5. CASE Release(p)
    BY <1>1, <1>2, <1>5
    DEF Release, LuaInv, LuaTypes, SilentWithoutMedia, CallsOfTheLiving, DrainedStaySo
  <1>6. ASSUME NEW what \in {"play", "stop"}, PlayOrStop(p, what) PROVE LuaInv'
    BY <1>1, <1>2, <1>6
    DEF PlayOrStop, LuaInv, LuaTypes, SilentWithoutMedia, CallsOfTheLiving, DrainedStaySo
  <1> QED
    BY <1>3, <1>4, <1>5, <1>6

(* Stopping waits for the thread of the player: it ends in silence.        *)
LEMMA StopKeepsInv ==
    ASSUME LuaInv, NEW p \in Player, NEW plays \in BOOLEAN, Stopped(p, plays)
    PROVE  LuaInv'
  <1>1. UNCHANGED <<tasks, event, drained>> /\ luaCall' = NoCall /\ event[p] = "none"
    BY DEF Stopped, Silent, vars
  <1>2. \A q \in Player : Waiting(q)' = Waiting(q)
    BY <1>1 DEF Waiting
  <1>3. /\ luaCall \in {<<"play", p>>, <<"stop", p>>, <<"release", p>>}
        /\ plays => luaCall = <<"play", p>>
    <2>1. luaCall \in {"play", "stop", "release"} \X Player /\ luaCall[2] = p
      BY DEF Stopped, LuaInv, LuaTypes
    <2> QED
      BY <2>1 DEF Stopped
  <1>4. CASE luaCall = <<"release", p>>
    <2>1. ~plays /\ object' = [object EXCEPT ![p] = "gone"] /\ media' = [media EXCEPT ![p] = FALSE]
      <3>1. luaCall[1] = "release" /\ luaCall # <<"play", p>>
        BY <1>4
      <3>2. plays = FALSE
        BY <1>3, <3>1
      <3> QED
        BY <3>1, <3>2 DEF Stopped
    <2> QED
      BY <1>1, <1>2, <2>1
      DEF LuaInv, LuaTypes, SilentWithoutMedia, CallsOfTheLiving, DrainedStaySo, NoCall
  <1>5. CASE luaCall \in {<<"play", p>>, <<"stop", p>>}
    <2>1. object[p] = "live" /\ p \notin drained
      BY <1>5 DEF LuaInv, CallsOfTheLiving, DrainedStaySo
    <2>2. object' = object /\ media' = [media EXCEPT ![p] = plays]
      BY <1>5 DEF Stopped
    <2> QED
      BY <1>1, <1>2, <2>1, <2>2
      DEF LuaInv, LuaTypes, SilentWithoutMedia, CallsOfTheLiving, DrainedStaySo, NoCall
  <1> QED
    BY <1>3, <1>4, <1>5

(* The main thread runs the first task, or none. *)
LEMMA MainThreadKeepsInv ==
    ASSUME LuaInv, TypeOK, MainThread(Tick) \/ MainThread(FlushEntry) \/ MainThread(Flush)
    PROVE  LuaInv'
  <1>1. /\ UNCHANGED <<object, media, luaCall, drained>>
        /\ event' = [p \in Player |-> IF DeletedTaskRuns(p) THEN "undefined" ELSE event[p]]
    BY DEF MainThread
  <1>2. tasks' = tasks \/ (tasks # <<>> /\ tasks' = Tail(tasks))
    BY DEF MainThread, Tick, TickEntry, TickRun, TickOfNothing, TickReturns, FlushEntry,
           Flush, FlushRun, FlushNext, FlushReturns, RunFirst
  <1>3. \A p \in Player : object[p] # "gone" => event'[p] = event[p]
    BY <1>1 DEF DeletedTaskRuns
  <1>4. ASSUME NEW p \in drained PROVE Waiting(p)' = {} /\ event'[p] = "none"
    <2>1. p \in Player /\ Waiting(p) = {} /\ event[p] = "none"
      BY <1>4 DEF LuaInv, LuaTypes, DrainedStaySo
    <2>2. tasks \in Seq(Tasks)
      BY DEF TypeOK
    <2>3. ~DeletedTaskRuns(p)
      <3>1. ASSUME tasks # <<>> PROVE Head(tasks)[1] # p
        <4>1. Len(tasks) \in Nat \ {0} /\ Head(tasks) = tasks[1]
          BY <2>2, <3>1
        <4> QED
          BY <4>1, <2>1 DEF Waiting
      <3> QED
        BY <3>1 DEF DeletedTaskRuns
    <2>4. Waiting(p)' = {}
      <3>1. CASE tasks' = tasks
        BY <2>1, <3>1 DEF Waiting
      <3>2. CASE tasks # <<>> /\ tasks' = Tail(tasks)
        BY <2>1, <2>2, <3>2, TakenLeavesNone
      <3> QED
        BY <1>2, <3>1, <3>2
    <2> QED
      BY <1>1, <2>1, <2>3, <2>4
  <1>5. LuaTypes'
    BY <1>1 DEF LuaInv, LuaTypes
  <1>6. SilentWithoutMedia' /\ CallsOfTheLiving'
    BY <1>1, <1>3 DEF LuaInv, SilentWithoutMedia, CallsOfTheLiving
  <1>7. DrainedStaySo'
    BY <1>1, <1>4 DEF LuaInv, DrainedStaySo
  <1> QED
    BY <1>5, <1>6, <1>7 DEF LuaInv

(* A thread of libvlc begins a report only with a medium, hence never of a *)
(* player that was drained.                                                *)
LEMMA EventKeepsInv ==
    ASSUME LuaInv, TypeOK, NEW p \in Player,
           EventAdds(p) \/ \E k \in Kind : EventBegins(p, k)
    PROVE  LuaInv'
  <1>1. CASE EventAdds(p)
    <2>1. event[p] \in Kind /\ event' = [event EXCEPT ![p] = "none"]
          /\ UNCHANGED <<object, media, luaCall, drained>>
      BY <1>1 DEF EventAdds
    <2>2. p \notin drained
      BY <2>1, KindAssumption DEF LuaInv, DrainedStaySo
    <2>3. tasks' = tasks \/ tasks' = Append(tasks, <<p, event[p]>>)
      BY <1>1 DEF EventAdds, Adds, AddTask, Queue, vars
    <2>4. ASSUME NEW q \in drained PROVE Waiting(q)' = {}
      <3>1. q \in Player /\ q # p /\ Waiting(q) = {} /\ tasks \in Seq(Tasks)
        BY <2>2, <2>4 DEF LuaInv, LuaTypes, DrainedStaySo, TypeOK
      <3>2. CASE tasks' = tasks
        BY <3>1, <3>2 DEF Waiting
      <3>3. CASE tasks' = Append(tasks, <<p, event[p]>>)
        BY <2>1, <3>1, <3>3, AddedLeavesNone
      <3> QED
        BY <2>3, <3>2, <3>3
    <2>5. \A q \in drained : event'[q] = "none"
      BY <2>1 DEF LuaInv, LuaTypes, DrainedStaySo
    <2> QED
      BY <2>1, <2>4, <2>5
      DEF LuaInv, LuaTypes, SilentWithoutMedia, CallsOfTheLiving, DrainedStaySo
  <1>2. ASSUME NEW k \in Kind, EventBegins(p, k) PROVE LuaInv'
    <2>1. media[p] /\ UNCHANGED <<tasks, object, media, luaCall, drained>>
      BY <1>2 DEF EventBegins, vars
    <2>2. event' = [event EXCEPT ![p] = IF object[p] = "live" THEN k ELSE "undefined"]
      BY <1>2 DEF EventBegins
    <2>3. p \notin drained
      BY <2>1 DEF LuaInv, DrainedStaySo
    <2>4. \A q \in Player : Waiting(q)' = Waiting(q)
      BY <2>1 DEF Waiting
    <2>5. \A q \in Player \ {p} : event'[q] = event[q]
      BY <2>2 DEF LuaInv, LuaTypes
    <2>6. LuaTypes'
      BY <2>1, <2>2 DEF LuaInv, LuaTypes
    <2>7. SilentWithoutMedia' /\ CallsOfTheLiving' /\ DrainedStaySo'
      BY <2>1, <2>3, <2>4, <2>5
      DEF LuaInv, LuaTypes, SilentWithoutMedia, CallsOfTheLiving, DrainedStaySo
    <2> QED
      BY <2>6, <2>7 DEF LuaInv
  <1> QED
    BY <1>1, <1>2

(* Every step keeps the invariant of the players.                          *)
LEMMA LuaInvStep == IInv /\ LuaInv /\ [LuaNext]_luaVars => LuaInv'
  <1> SUFFICES ASSUME IInv, LuaInv, [LuaNext]_luaVars PROVE LuaInv'
    OBVIOUS
  <1>1. TypeOK
    BY DEF IInv
  <1>2. CASE UNCHANGED luaVars
    <2>1. UNCHANGED <<tasks, object, media, event, luaCall, drained>>
      BY <1>2 DEF luaVars, vars
    <2>2. \A q \in Player : Waiting(q)' = Waiting(q)
      BY <2>1 DEF Waiting
    <2> QED
      BY <2>1, <2>2
      DEF LuaInv, LuaTypes, SilentWithoutMedia, CallsOfTheLiving, DrainedStaySo
  <1> QED
    BY <1>1, <1>2, LuaKeepsInv, StopKeepsInv, MainThreadKeepsInv, EventKeepsInv
    DEF LuaNext, StopEnds

(* A player that was stopped before its release, with none of its events   *)
(* in the list, leaves nothing behind that uses it, for any players,       *)
(* kinds of events and additions, whatever Lua does in the handlers.       *)
THEOREM DrainedPlayersAreSafe == LuaSpec => []DrainedIsSafe
  <1>1. LuaInv => DrainedIsSafe
    BY DEF LuaInv, DrainedStaySo, DrainedIsSafe
  <1> QED
    BY <1>1, LuaList, LuaInvInit, LuaInvStep, PTL DEF LuaSpec
=============================================================================
