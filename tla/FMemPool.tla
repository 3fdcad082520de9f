------------------------------ MODULE FMemPool ------------------------------
(* FMemPool of FLib: a chain of pools of blocks, each block twice as large  *)
(* as those of the pool before, each pool with its readers/writer lock.     *)
(*                                                                          *)
(* GetBuf holds the write locks from the first pool to the one that fits,   *)
(* FreeBuf the read locks of the pools it passes and the write lock of the  *)
(* one it stops at. The two counters are written under the lock by GetBuf   *)
(* and without it by FreeBuf: each ++ and -- is a load and a store.         *)
EXTENDS FDReadAWriteLock, Integers, Sequences, SequencesExt

CONSTANTS Buffer,      \* blocks that malloc may return
          m_nMaxSize,  \* limit of the blocks in use of each pool, 0: none
          ULong,       \* values of an unsigned long: 0..ULong - 1
          MaxCalls     \* bound: calls in a behaviour

ASSUME PoolAssumption == /\ IsFiniteSet(Lock) /\ 1 \in Lock
                         /\ Lock = 1 .. Cardinality(Lock)
                         /\ m_nMaxSize \in Nat /\ MaxCalls \in Nat
                         /\ ULong \in Nat \ {0}

\* There are fewer blocks in a process than values of an unsigned long.
ASSUME RoomAssumption == /\ IsFiniteSet(Buffer)
                         /\ Cardinality(Buffer) + Cardinality(Thread) < ULong

VARIABLES list,     \* list[p]: the chain that m_pFirst heads
          nLen,     \* nLen[b]: pool whose block size b has; 0 if not allocated
          inUse,    \* blocks that the program has
          count,    \* count[c][p]: m_nInCount and m_nOutConut
          hasNext,  \* pools whose m_pNext is there
          at,       \* at[t]: where t is in GetBuf or FreeBuf, with its locals
          todo,     \* todo[t]: counters it has yet to change
          raced,    \* history: a store undid another thread's store
          calls     \* calls so far

poolVars == <<list, nLen, inUse, count, hasNext, at, todo, raced, calls>>
vars == <<lockVars, poolVars>>

Away == [pc |-> "away"]
Allocated == {b \in Buffer : nLen[b] # 0}

Init ==
    /\ LockInit
    /\ list = [p \in Lock |-> <<>>]
    /\ nLen = [b \in Buffer |-> 0]
    /\ inUse = {}
    /\ count = [c \in {"in", "out"} |-> [p \in Lock |-> 0]]
    /\ hasNext = {}
    /\ at = [t \in Thread |-> Away]
    /\ todo = [t \in Thread |-> <<>>]
    /\ raced = FALSE
    /\ calls = 0

Go(t, loc) == at' = [at EXCEPT ![t] = loc]
At(t, pc) == at[t].pc = pc /\ want[t] = Idle /\ todo[t] = <<>>
Change(t, work) == todo' = [todo EXCEPT ![t] = work]
By(c, p, d) == [c |-> c, p |-> p, d |-> d, loaded |-> FALSE, value |-> 0]

(* ---- the counters ---- *)

Load(t) ==
    /\ todo[t] # <<>> /\ ~Head(todo[t]).loaded
    /\ LET w == Head(todo[t]) IN
         todo' = [todo EXCEPT ![t][1].loaded = TRUE, ![t][1].value = count[w.c][w.p]]
    /\ UNCHANGED <<lockVars, list, nLen, inUse, count, hasNext, at, raced, calls>>

Store(t) ==
    /\ todo[t] # <<>> /\ Head(todo[t]).loaded
    /\ LET w == Head(todo[t]) IN
         /\ count' = [count EXCEPT ![w.c][w.p] = (w.value + w.d) % ULong]
         /\ raced' = (raced \/ count[w.c][w.p] # w.value)
    /\ todo' = [todo EXCEPT ![t] = Tail(@)]
    /\ UNCHANGED <<lockVars, list, nLen, inUse, hasNext, at, calls>>

(* ---- GetBuf ---- *)

GetBuf(t, size) ==
    /\ at[t] = Away /\ calls < MaxCalls
    /\ calls' = calls + 1
    /\ Ask(t, "write", 1)
    /\ Go(t, [pc |-> "get", pool |-> 1, size |-> size])
    /\ UNCHANGED <<list, nLen, inUse, count, hasNext, todo, raced>>

Behind_Same(p) == p

\* m_pNext
Behind(p) == p + 1

\* Too small a pool: the next one, made when it is not there.
GetNext(t) ==
    /\ At(t, "get") /\ at[t].size > at[t].pool
    /\ hasNext' = hasNext \cup {at[t].pool}
    /\ Ask(t, "write", Behind(at[t].pool))
    /\ Go(t, [at[t] EXCEPT !.pool = Behind(@)])
    /\ UNCHANGED <<list, nLen, inUse, count, todo, raced, calls>>

\* pNewNode = m_pFirst
GetFirst(t) ==
    /\ At(t, "get") /\ at[t].size <= at[t].pool
    /\ list[at[t].pool] # <<>>
    /\ Go(t, [pc |-> "unlink", pool |-> at[t].pool, chain |-> list[at[t].pool]])
    /\ UNCHANGED <<lockVars, list, nLen, inUse, count, hasNext, todo, raced, calls>>

\* m_pFirst = m_pFirst->next and the two counters
Unlink(t) ==
    /\ At(t, "unlink")
    /\ LET p == at[t].pool IN
         /\ list' = [list EXCEPT ![p] = Tail(at[t].chain)]
         /\ inUse' = inUse \cup {Head(at[t].chain)}
         /\ Change(t, <<By("in", p, -1), By("out", p, 1)>>)
         /\ Go(t, [pc |-> "gotten", pool |-> p])
    /\ UNCHANGED <<lockVars, nLen, count, hasNext, raced, calls>>

BelowLimit(p) == m_nMaxSize = 0 \/ count["out"][p] < m_nMaxSize

\* malloc, which may fail, or the limit
GetNew(t) ==
    /\ At(t, "get") /\ at[t].size <= at[t].pool
    /\ LET p == at[t].pool IN
         /\ list[p] = <<>>
         /\ \/ /\ BelowLimit(p)
               /\ \E b \in Buffer \ Allocated :
                     /\ nLen' = [nLen EXCEPT ![b] = p]
                     /\ inUse' = inUse \cup {b}
               /\ Change(t, <<By("out", p, 1)>>)
            \/ UNCHANGED <<nLen, inUse, todo>>
         /\ Go(t, [pc |-> "gotten", pool |-> p])
    /\ UNCHANGED <<lockVars, list, count, hasNext, raced, calls>>

\* LeaveWrite of one pool after the other, on the way back.
GetReturn(t) ==
    /\ At(t, "gotten")
    /\ LeaveWrite(t, at[t].pool)
    /\ IF at[t].pool = 1 THEN Go(t, Away) ELSE Go(t, [at[t] EXCEPT !.pool = @ - 1])
    /\ UNCHANGED <<list, nLen, inUse, count, hasNext, todo, raced, calls>>

(* ---- FreeBuf ---- *)

PushLock_Shared == "read"

PushLock == "write"

\* The first pool's test needs no lock; neither does deleting a block.
Arrive(t, p, b, bDelete) ==
    IF nLen[b] # p
    THEN /\ Ask(t, "read", p)
         /\ Go(t, [pc |-> "pass", pool |-> p, buf |-> b, del |-> bDelete])
         /\ UNCHANGED <<nLen, todo>>
    ELSE IF bDelete
    THEN /\ nLen' = [nLen EXCEPT ![b] = 0]
         /\ Change(t, <<By("out", p, -1)>>)
         /\ Go(t, [pc |-> "freed", pool |-> p])
         /\ UNCHANGED lockVars
    ELSE /\ Ask(t, PushLock, p)
         /\ Go(t, [pc |-> "link", pool |-> p, buf |-> b])
         /\ UNCHANGED <<nLen, todo>>

FreeBuf(t, b, bDelete) ==
    /\ at[t] = Away /\ calls < MaxCalls
    /\ calls' = calls + 1
    /\ b \in inUse
    /\ inUse' = inUse \ {b}
    /\ Arrive(t, 1, b, bDelete)
    /\ UNCHANGED <<list, count, hasNext, raced>>

FreeNext(t) ==
    /\ At(t, "pass")
    /\ at[t].pool \in hasNext
    /\ Arrive(t, Behind(at[t].pool), at[t].buf, at[t].del)
    /\ UNCHANGED <<list, inUse, count, hasNext, raced, calls>>

\* pNode->next = m_pFirst
FreeLink(t) ==
    /\ At(t, "link")
    /\ Go(t, [pc |-> "first", pool |-> at[t].pool, buf |-> at[t].buf,
              chain |-> list[at[t].pool]])
    /\ UNCHANGED <<lockVars, list, nLen, inUse, count, hasNext, todo, raced, calls>>

\* m_pFirst = pNode
FreeFirst(t) ==
    /\ At(t, "first")
    /\ list' = [list EXCEPT ![at[t].pool] = <<at[t].buf>> \o at[t].chain]
    /\ Go(t, [pc |-> "leave", pool |-> at[t].pool])
    /\ UNCHANGED <<lockVars, nLen, inUse, count, hasNext, todo, raced, calls>>

AfterFree_InOnly(p) == <<By("in", p, 1)>>

AfterFree(p) == <<By("out", p, -1), By("in", p, 1)>>

\* LeaveWrite, and only then the counters.
FreeLeave(t) ==
    /\ At(t, "leave")
    /\ LeaveWrite(t, at[t].pool)
    /\ Change(t, AfterFree(at[t].pool))
    /\ Go(t, [pc |-> "freed", pool |-> at[t].pool])
    /\ UNCHANGED <<list, nLen, inUse, count, hasNext, raced, calls>>

\* LeaveRead of the pools passed, on the way back.
FreeReturn(t) ==
    /\ At(t, "freed")
    /\ LET p == at[t].pool IN
         IF p = 1 THEN Go(t, Away) /\ UNCHANGED lockVars
                  ELSE LeaveRead(t, p - 1) /\ Go(t, [at[t] EXCEPT !.pool = @ - 1])
    /\ UNCHANGED <<list, nLen, inUse, count, hasNext, todo, raced, calls>>

(* ---- the specification ---- *)

\* A thread that waits for a lock goes on.
EnterLock(t) ==
    /\ \E l \in Lock : EnterRead(t, l) \/ TakeWriteFlag(t, l) \/ EnterWrite(t, l)
    /\ UNCHANGED poolVars

Inside(t) == \/ Load(t) \/ Store(t) \/ EnterLock(t)
             \/ GetNext(t) \/ GetFirst(t) \/ Unlink(t) \/ GetNew(t) \/ GetReturn(t)
             \/ FreeNext(t) \/ FreeLink(t) \/ FreeFirst(t) \/ FreeLeave(t) \/ FreeReturn(t)

Next == \E t \in Thread :
           \/ \E size \in Lock : GetBuf(t, size)
           \/ \E b \in Buffer, bDelete \in BOOLEAN : FreeBuf(t, b, bDelete)
           \/ Inside(t)

Spec == Init /\ [][Next]_vars

\* Threads inside a call are scheduled.
LiveSpec == Spec /\ \A t \in Thread : WF_vars(Inside(t))

-----------------------------------------------------------------------------
\* The block that a thread in FreeBuf still has to put somewhere.
Carried == {at[t].buf : t \in {u \in Thread : at[u].pc \in {"pass", "link", "first"}}}

\* A block is in one place: the program has it, one list has it once, or a
\* FreeBuf carries it. GetBuf and FreeBuf read and write the head of a list
\* in several steps, which the write lock must keep together; with a
\* thread between two of its steps nothing can be said of that list.
BlocksInOnePlace ==
    /\ \A p \in Lock :
          writers[p] = {} =>
             /\ \A i, j \in DOMAIN list[p] : i # j => list[p][i] # list[p][j]
             /\ ToSet(list[p]) \cap (inUse \cup Carried) = {}
             /\ \A b \in Allocated \ (inUse \cup Carried) :
                   nLen[b] = p => b \in ToSet(list[p])
    /\ inUse \cap Carried = {}

InUse(p) == {b \in inUse : nLen[b] = p}

\* While no unlocked counter update has been lost, no pool gives out more
\* blocks than its limit, although FreeBuf counts a block back only after it
\* is in the list and may be given out again; and once no call is under way
\* both counters are right.
CountersHold ==
    ~raced => \A p \in Lock :
       /\ m_nMaxSize # 0 => Cardinality(InUse(p)) <= m_nMaxSize
       /\ (\A t \in Thread : at[t] = Away) =>
             /\ count["out"][p] = Cardinality(InUse(p))
             /\ count["in"][p] = Len(list[p])

\* Calls return: locks of several pools are taken in one order.
CallsReturn == \A t \in Thread : at[t] # Away ~> at[t] = Away
=============================================================================
