--------------------------- MODULE MainThreadTask ---------------------------
(***************************************************************************)
(* MainThreadTaskManager: any thread adds tasks, the main thread runs one  *)
(* for each tick, until flush runs the rest and shuts the list.            *)
(*                                                                         *)
(* tick tests m_empty without the lock.  addTask, and the rest of tick,    *)
(* hold it from end to end and are one step each; flush holds it while     *)
(* tasks run.  tick and flush are called by the main thread, where tasks   *)
(* belong; addTask by any thread, and by tasks that tick runs.             *)
(***************************************************************************)
EXTENDS Integers, Sequences

CONSTANTS
    Tasks,      \* task objects; one may be queued many times
    MaxAdds     \* bound: tasks accepted in a behaviour

ASSUME MaxAddsAssumption == MaxAdds \in Nat

VARIABLES
    tasks,      \* m_tasks
    empty,      \* m_empty
    shutdown,   \* m_shutdown
    pc,         \* the main thread
    added,      \* history: the tasks that addTask accepted
    ran         \* history: the tasks that were run

vars == <<tasks, empty, shutdown, pc, added, ran>>

(* The main thread is elsewhere ("idle"), in tick after the test ("pop"),  *)
(* in the task of tick ("task"), in the loop of flush ("flush") or in one  *)
(* of its tasks ("flushTask").  "undefined": front() of an empty deque.    *)
LockFree_Tick == pc \notin {"task", "flush", "flushTask"}
LockFree == pc \notin {"flush", "flushTask"}

Init ==
    /\ tasks = <<>> /\ added = <<>> /\ ran = <<>>
    /\ empty = TRUE /\ shutdown = FALSE
    /\ pc = "idle"

(* Mutant: a task is accepted whether or not the list is shut. *)
Refuses_Never == FALSE
Refuses == shutdown

Queue(t) == tasks' = Append(tasks, t)

AddTask(t) ==
    /\ LockFree /\ Len(added) < MaxAdds
    /\ ~Refuses
    /\ Queue(t)
    /\ empty' = FALSE
    /\ added' = Append(added, t)
    /\ UNCHANGED <<shutdown, pc, ran>>

(* front(), pop_front(), and doTask() is called. *)
RunFirst ==
    /\ tasks # <<>>
    /\ tasks' = Tail(tasks)
    /\ ran' = Append(ran, Head(tasks))

(* Mutants: m_empty is set though tasks are left; it is never set. *)
EmptyAfter_Always(rest) == TRUE
EmptyAfter_Kept(rest) == empty
EmptyAfter(rest) == empty \/ rest = <<>>

GoTo(from, to) == pc = from /\ pc' = to

TickEntry == GoTo("idle", "pop") /\ ~empty /\ UNCHANGED <<tasks, empty, shutdown, added, ran>>

TickRun ==
    /\ GoTo("pop", "task")
    /\ RunFirst
    /\ empty' = EmptyAfter(Tail(tasks))
    /\ UNCHANGED <<shutdown, added>>

TickOfNothing ==
    GoTo("pop", "undefined") /\ tasks = <<>> /\ UNCHANGED <<tasks, empty, shutdown, added, ran>>

TickReturns == GoTo("task", "idle") /\ UNCHANGED <<tasks, empty, shutdown, added, ran>>

FlushEntry == GoTo("idle", "flush") /\ UNCHANGED <<tasks, empty, shutdown, added, ran>>

(* m_empty is left as it was, in the loop and after it. *)
FlushRun == GoTo("flush", "flushTask") /\ RunFirst /\ UNCHANGED <<empty, shutdown, added>>

FlushNext == GoTo("flushTask", "flush") /\ UNCHANGED <<tasks, empty, shutdown, added, ran>>

FlushReturns ==
    GoTo("flush", "idle") /\ tasks = <<>> /\ shutdown' = TRUE /\ UNCHANGED <<tasks, empty, added, ran>>

Tick == TickEntry \/ TickRun \/ TickOfNothing \/ TickReturns
Flush == FlushRun \/ FlushNext \/ FlushReturns

Next == (\E t \in Tasks : AddTask(t)) \/ Tick \/ FlushEntry \/ Flush

Spec == Init /\ [][Next]_vars

-----------------------------------------------------------------------------
(* Properties *)

TypeOK ==
    /\ tasks \in Seq(Tasks) /\ added \in Seq(Tasks) /\ ran \in Seq(Tasks)
    /\ empty \in BOOLEAN /\ shutdown \in BOOLEAN
    /\ pc \in {"idle", "pop", "task", "flush", "flushTask", "undefined"}

(* Every accepted task was run or waits, as often as it was accepted, and  *)
(* they run in the order in which addTask accepted them.                   *)
TasksInOrder == added = ran \o tasks

(* The unlocked test is safe: it never hides a task from tick...           *)
FlagShowsTasks == tasks # <<>> => ~empty

(* ...and what it has shown is still there under the lock, except after a  *)
(* flush, which empties the list and leaves m_empty FALSE.                 *)
TickFindsTask == pc = "undefined" \/ (pc = "pop" /\ tasks = <<>>) => shutdown

(* Neither of the two ways the test of m_empty could fail, with addTask and *)
(* flush at any moment between it and the lock: a task that tick never     *)
(* looks for, and front() of a list in which nothing is.                   *)
UnlockedTestRight == FlagShowsTasks /\ TickFindsTask

(* Once flush has shut the list every task that was ever accepted has been *)
(* run: none is accepted later and none is left.                           *)
NothingLeft == shutdown => tasks = <<>> /\ ran = added

=============================================================================
