-------------------------- MODULE FDReadAWriteLock --------------------------
(* FDReadAWriteLock of FLib: a flag of writers and a count of readers       *)
(* behind a small lock, and waiting by looking again and again.             *)
(*                                                                          *)
(* A writer takes the flag first and then waits for the count to fall to    *)
(* zero, two separate steps: between them readers leave and none enters.    *)
(* Each section under the inner lock is one action. A thread that was told  *)
(* to try again is still in its call: the action that lets it in is the     *)
(* one that is not enabled yet.                                             *)
EXTENDS Naturals, FiniteSets

CONSTANTS Thread,    \* threads that use the locks
          Lock,      \* the locks
          MaxNest    \* bound: how often one thread may be inside EnterRead of a lock

ASSUME LockAssumption == IsFiniteSet(Thread) /\ MaxNest \in Nat

VARIABLES nReadCount,  \* nReadCount[l], a member of the lock
          bWriteFlag,  \* bWriteFlag[l], a member of the lock
          readers,     \* readers[l]: sections <<t, k>> between EnterRead and LeaveRead
          flagged,     \* flagged[l]: threads in EnterWrite after the flag, or inside
          writers,     \* writers[l]: threads between EnterWrite and LeaveWrite
          want         \* want[t]: the call in which t waits, if any

lockVars == <<nReadCount, bWriteFlag, readers, flagged, writers, want>>

Section == Thread \X (1..MaxNest)
Idle == [op |-> "none"]
Call == {Idle} \cup [op : {"read", "write"}, lock : Lock]

LockInit == /\ nReadCount = [l \in Lock |-> 0]
            /\ bWriteFlag = [l \in Lock |-> FALSE]
            /\ readers = [l \in Lock |-> {}]
            /\ flagged = [l \in Lock |-> {}]
            /\ writers = [l \in Lock |-> {}]
            /\ want = [t \in Thread |-> Idle]

Reads(t, l) == {s \in readers[l] : s[1] = t}

(* ---- the calls ---- *)

\* A thread enters EnterRead or EnterWrite.
Ask(t, op, l) ==
    /\ want[t] = Idle
    /\ want' = [want EXCEPT ![t] = [op |-> op, lock |-> l]]
    /\ UNCHANGED <<nReadCount, bWriteFlag, readers, flagged, writers>>

FreeToRead(l) == ~bWriteFlag[l]

EnterRead(t, l) ==
    /\ want[t] = [op |-> "read", lock |-> l]
    /\ FreeToRead(l)
    /\ nReadCount' = [nReadCount EXCEPT ![l] = @ + 1]
    /\ \E k \in 1..MaxNest : /\ <<t, k>> \notin readers[l]
                             /\ readers' = [readers EXCEPT ![l] = @ \cup {<<t, k>>}]
    /\ want' = [want EXCEPT ![t] = Idle]
    /\ UNCHANGED <<bWriteFlag, flagged, writers>>

CountAfterLeave(n) == IF 0 < n THEN n - 1 ELSE n

LeaveRead(t, l) ==
    /\ want[t] = Idle
    /\ \E s \in Reads(t, l) : readers' = [readers EXCEPT ![l] = @ \ {s}]
    /\ nReadCount' = [nReadCount EXCEPT ![l] = CountAfterLeave(@)]
    /\ UNCHANGED <<bWriteFlag, flagged, writers, want>>

\* The first loop of EnterWrite.
TakeWriteFlag(t, l) ==
    /\ want[t] = [op |-> "write", lock |-> l]
    /\ t \notin flagged[l]
    /\ ~bWriteFlag[l]
    /\ bWriteFlag' = [bWriteFlag EXCEPT ![l] = TRUE]
    /\ flagged' = [flagged EXCEPT ![l] = @ \cup {t}]
    /\ UNCHANGED <<nReadCount, readers, writers, want>>

ReadersGone_Unread(l) == TRUE

ReadersGone(l) == nReadCount[l] = 0

\* The second loop of EnterWrite ends.
EnterWrite(t, l) ==
    /\ want[t] = [op |-> "write", lock |-> l]
    /\ t \in flagged[l]
    /\ ReadersGone(l)
    /\ writers' = [writers EXCEPT ![l] = @ \cup {t}]
    /\ want' = [want EXCEPT ![t] = Idle]
    /\ UNCHANGED <<nReadCount, bWriteFlag, readers, flagged>>

LeaveWrite(t, l) ==
    /\ want[t] = Idle
    /\ t \in writers[l]
    /\ bWriteFlag' = [bWriteFlag EXCEPT ![l] = FALSE]
    /\ flagged' = [flagged EXCEPT ![l] = @ \ {t}]
    /\ writers' = [writers EXCEPT ![l] = @ \ {t}]
    /\ UNCHANGED <<nReadCount, readers, want>>

(* ---- threads that do not wait for a section of their own ---- *)

Sane(t, op, l) ==
    /\ t \notin flagged[l]
    /\ op = "write" => Reads(t, l) = {}
    /\ op = "read" => Cardinality(Reads(t, l)) < MaxNest

Step(t, l) == \/ EnterRead(t, l) \/ LeaveRead(t, l)
              \/ TakeWriteFlag(t, l) \/ EnterWrite(t, l) \/ LeaveWrite(t, l)

LockNext == \E t \in Thread, l \in Lock :
               \/ \E op \in {"read", "write"} : Sane(t, op, l) /\ Ask(t, op, l)
               \/ Step(t, l)

LockSpec == LockInit /\ [][LockNext]_lockVars

-----------------------------------------------------------------------------
\* The variables have their types.
LockTypeOK ==
    /\ nReadCount \in [Lock -> Nat]
    /\ bWriteFlag \in [Lock -> BOOLEAN]
    /\ readers \in [Lock -> SUBSET Section]
    /\ flagged \in [Lock -> SUBSET Thread]
    /\ writers \in [Lock -> SUBSET Thread]
    /\ want \in [Thread -> Call]

\* The count is the number of open reading sections, and the flag says
\* whether a writer is in its call: EnterRead, LeaveRead, EnterWrite and
\* LeaveWrite change each of the two in separate sections of the inner lock.
CountsReaders ==
    \A l \in Lock : /\ nReadCount[l] = Cardinality(readers[l])
                    /\ bWriteFlag[l] <=> flagged[l] # {}

\* No section overlaps that of a writer, although the flag is taken before
\* the readers have left and the count is polled without the flag.
WritersAlone ==
    \A l \in Lock : writers[l] # {} => /\ readers[l] = {}
                                       /\ Cardinality(writers[l]) = 1

RW == INSTANCE ReadersWriters

\* Every behaviour of the flag and the count is one of a readers/writer lock.
ImplementsReadersWriters == RW!RWSpec
=============================================================================
