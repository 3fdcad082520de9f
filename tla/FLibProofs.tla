----------------------------- MODULE FLibProofs -----------------------------
(* Theorems about FDReadAWriteLock, FMemPool and FThreadPool, for any       *)
(* threads, locks, blocks, clients and tasks.                               *)
EXTENDS FMemPool, FThreadPool, FiniteSetTheorems, SequenceTheorems, TLAPS

\* Facts that keep one another: the flag has at most one owner, the writers
\* inside own it, the count is the number of sections.
FlagOwned ==
    \A l \in Lock : /\ writers[l] \subseteq flagged[l]
                    /\ \A t, u \in flagged[l] : t = u
                    /\ bWriteFlag[l] <=> flagged[l] # {}

\* The count is the number of read sections, of which there are finitely many.
SectionsCounted ==
    \A l \in Lock : /\ IsFiniteSet(readers[l])
                    /\ nReadCount[l] = Cardinality(readers[l])

\* Nobody writes while somebody reads.
ReadersBarWriters ==
    \A l \in Lock : readers[l] # {} => writers[l] = {}

\* What the proofs about a lock carry from step to step.
LockInv == LockTypeOK /\ FlagOwned /\ SectionsCounted /\ ReadersBarWriters

\* Nothing is locked in the beginning.
LEMMA InitLockInv == ASSUME LockInit PROVE LockInv
<1>1. IsFiniteSet({}) /\ Cardinality({}) = 0 BY FS_EmptySet
<1>2. LockTypeOK BY DEF LockInit, LockTypeOK, Call, Idle
<1> QED BY <1>1, <1>2
        DEF LockInit, LockInv, FlagOwned, SectionsCounted, ReadersBarWriters

\* Asking for a lock changes none of them.
LEMMA AskKeeps ==
    ASSUME LockInv, NEW t \in Thread, NEW l \in Lock, NEW op \in {"read", "write"},
           Ask(t, op, l)
    PROVE  LockInv'
<1>1. LockTypeOK' BY DEF LockInv, LockTypeOK, Ask, Call
<1> QED BY <1>1 DEF LockInv, Ask, FlagOwned, SectionsCounted, ReadersBarWriters

\* A reader gets in when no writer has the flag, hence none is inside.
LEMMA EnterReadKeeps ==
    ASSUME LockInv, NEW t \in Thread, NEW l \in Lock, EnterRead(t, l)
    PROVE  LockInv'
<1>1. PICK k \in 1..MaxNest : /\ <<t, k>> \notin readers[l]
                              /\ readers' = [readers EXCEPT ![l] = @ \cup {<<t, k>>}]
      BY DEF EnterRead
<1>2. <<t, k>> \in Section BY DEF Section
<1>3. LockTypeOK'
  <2>1. readers' \in [Lock -> SUBSET Section] BY <1>1, <1>2 DEF LockInv, LockTypeOK
  <2>2. want' \in [Thread -> Call] BY DEF LockInv, LockTypeOK, EnterRead, Call
  <2>3. nReadCount' \in [Lock -> Nat] BY DEF LockInv, LockTypeOK, EnterRead
  <2> QED BY <2>1, <2>2, <2>3 DEF LockInv, LockTypeOK, EnterRead
<1>4. FlagOwned' BY DEF LockInv, FlagOwned, EnterRead
<1>5. SectionsCounted'
  <2> SUFFICES ASSUME NEW m \in Lock
               PROVE  /\ IsFiniteSet(readers'[m])
                      /\ nReadCount'[m] = Cardinality(readers'[m])
      BY DEF SectionsCounted
  <2>1. IsFiniteSet(readers[l]) /\ nReadCount[l] = Cardinality(readers[l])
        /\ nReadCount[l] \in Nat
        BY DEF LockInv, SectionsCounted, LockTypeOK
  <2>2. /\ IsFiniteSet(readers[l] \cup {<<t, k>>})
        /\ Cardinality(readers[l] \cup {<<t, k>>}) = Cardinality(readers[l]) + 1
        BY <1>1, <2>1, FS_AddElement
  <2>3. CASE m = l BY <2>3, <2>1, <2>2, <1>1 DEF LockInv, LockTypeOK, EnterRead
  <2>4. CASE m # l
        BY <2>4, <1>1 DEF LockInv, LockTypeOK, SectionsCounted, EnterRead
  <2> QED BY <2>3, <2>4
<1>6. ReadersBarWriters'
  <2>1. writers[l] = {} BY DEF LockInv, FlagOwned, EnterRead, FreeToRead
  <2> QED BY <2>1, <1>1 DEF LockInv, LockTypeOK, ReadersBarWriters, EnterRead
<1> QED BY <1>3, <1>4, <1>5, <1>6 DEF LockInv

\* A reader that leaves was counted, so that the count is positive.
LEMMA LeaveReadKeeps ==
    ASSUME LockInv, NEW t \in Thread, NEW l \in Lock, LeaveRead(t, l)
    PROVE  LockInv'
<1>1. PICK s \in readers[l] : readers' = [readers EXCEPT ![l] = @ \ {s}]
      BY DEF LeaveRead, Reads
<1>2. IsFiniteSet(readers[l]) /\ nReadCount[l] = Cardinality(readers[l])
      /\ nReadCount[l] \in Nat
      BY DEF LockInv, SectionsCounted, LockTypeOK
<1>3. /\ IsFiniteSet(readers[l] \ {s})
      /\ Cardinality(readers[l] \ {s}) = Cardinality(readers[l]) - 1
      BY <1>1, <1>2, FS_RemoveElement
<1>4. Cardinality(readers[l] \ {s}) \in Nat BY <1>3, FS_CardinalityType
<1>5. CountAfterLeave(nReadCount[l]) = Cardinality(readers[l] \ {s})
      BY <1>2, <1>3, <1>4 DEF CountAfterLeave
<1>6. nReadCount' = [nReadCount EXCEPT ![l] = CountAfterLeave(nReadCount[l])]
      BY DEF LeaveRead
<1>7. LockTypeOK' BY <1>1, <1>4, <1>5, <1>6 DEF LockInv, LockTypeOK, LeaveRead
<1>8. FlagOwned' BY DEF LockInv, FlagOwned, LeaveRead
<1>9. SectionsCounted'
  <2> SUFFICES ASSUME NEW m \in Lock
               PROVE  /\ IsFiniteSet(readers'[m])
                      /\ nReadCount'[m] = Cardinality(readers'[m])
      BY DEF SectionsCounted
  <2>1. CASE m = l BY <2>1, <1>1, <1>3, <1>5, <1>6 DEF LockInv, LockTypeOK
  <2>2. CASE m # l BY <2>2, <1>1, <1>6 DEF LockInv, LockTypeOK, SectionsCounted
  <2> QED BY <2>1, <2>2
<1>10. ReadersBarWriters'
      BY <1>1 DEF LockInv, LockTypeOK, ReadersBarWriters, LeaveRead
<1> QED BY <1>7, <1>8, <1>9, <1>10 DEF LockInv

\* The flag is taken when nobody has it.
LEMMA TakeWriteFlagKeeps ==
    ASSUME LockInv, NEW t \in Thread, NEW l \in Lock, TakeWriteFlag(t, l)
    PROVE  LockInv'
<1>1. LockTypeOK' BY DEF LockInv, LockTypeOK, TakeWriteFlag
<1>2. flagged[l] = {} BY DEF LockInv, FlagOwned, TakeWriteFlag
<1>3. FlagOwned' BY <1>2 DEF LockInv, LockTypeOK, FlagOwned, TakeWriteFlag
<1>4. SectionsCounted' /\ ReadersBarWriters'
      BY DEF LockInv, SectionsCounted, ReadersBarWriters, TakeWriteFlag
<1> QED BY <1>1, <1>3, <1>4 DEF LockInv

\* A count of zero means that no section is open.
LEMMA EnterWriteKeeps ==
    ASSUME LockInv, NEW t \in Thread, NEW l \in Lock, EnterWrite(t, l)
    PROVE  LockInv' /\ readers[l] = {} /\ writers[l] \subseteq {t}
<1>1. readers[l] = {}
  <2>1. IsFiniteSet(readers[l]) /\ Cardinality(readers[l]) = 0
        BY DEF LockInv, SectionsCounted, EnterWrite, ReadersGone
  <2> QED BY <2>1, FS_EmptySet
<1>2. writers[l] \subseteq {t} BY DEF LockInv, FlagOwned, EnterWrite
<1>3. LockTypeOK' BY DEF LockInv, LockTypeOK, EnterWrite, Call, Idle
<1>4. FlagOwned' BY DEF LockInv, LockTypeOK, FlagOwned, EnterWrite
<1>5. SectionsCounted' BY DEF LockInv, SectionsCounted, EnterWrite
<1>6. ReadersBarWriters'
      BY <1>1 DEF LockInv, LockTypeOK, ReadersBarWriters, EnterWrite
<1> QED BY <1>1, <1>2, <1>3, <1>4, <1>5, <1>6 DEF LockInv

\* The flag is cleared by its only owner.
LEMMA LeaveWriteKeeps ==
    ASSUME LockInv, NEW t \in Thread, NEW l \in Lock, LeaveWrite(t, l)
    PROVE  LockInv' /\ writers[l] = {t}
<1>1. writers[l] = {t} /\ flagged[l] = {t} BY DEF LockInv, FlagOwned, LeaveWrite
<1>2. LockTypeOK' BY DEF LockInv, LockTypeOK, LeaveWrite
<1>3. FlagOwned'
      BY <1>1 DEF LockInv, LockTypeOK, FlagOwned, LeaveWrite
<1>4. SectionsCounted' /\ ReadersBarWriters'
      BY <1>1 DEF LockInv, LockTypeOK, SectionsCounted, ReadersBarWriters, LeaveWrite
<1> QED BY <1>1, <1>2, <1>3, <1>4 DEF LockInv

\* Every step of the threads keeps them.
LEMMA StepKeeps == ASSUME LockInv, [LockNext]_lockVars PROVE LockInv'
<1>1. ASSUME NEW t \in Thread, NEW l \in Lock, Step(t, l) PROVE LockInv'
      BY <1>1, EnterReadKeeps, LeaveReadKeeps, TakeWriteFlagKeeps, EnterWriteKeeps,
         LeaveWriteKeeps DEF Step
<1>2. CASE UNCHANGED lockVars
      BY <1>2 DEF lockVars, LockInv, LockTypeOK, FlagOwned, SectionsCounted,
                  ReadersBarWriters
<1> QED BY <1>1, <1>2, AskKeeps DEF LockNext

\* The invariant of the lock.
LEMMA LockInvariant == LockSpec => []LockInv
<1>1. LockInit => LockInv BY InitLockInv
<1>2. LockInv /\ [LockNext]_lockVars => LockInv' BY StepKeeps
<1> QED BY <1>1, <1>2, PTL DEF LockSpec

\* The variables of the lock have their types.
THEOREM LockTypeCorrect == LockSpec => []LockTypeOK
<1>1. LockInv => LockTypeOK BY DEF LockInv
<1> QED BY <1>1, LockInvariant, PTL

\* nReadCount counts the readers that are inside, bWriteFlag is a writer's,
\* for any number of threads that nest EnterRead as deep as they like.
THEOREM ReadersCounted == LockSpec => []CountsReaders
<1>1. LockInv => CountsReaders
      BY DEF LockInv, FlagOwned, SectionsCounted, CountsReaders
<1> QED BY <1>1, LockInvariant, PTL

\* A writer between EnterWrite and LeaveWrite is alone.
THEOREM MutualExclusion == LockSpec => []WritersAlone
<1>1. ASSUME LockInv PROVE WritersAlone
  <2> SUFFICES ASSUME NEW l \in Lock, writers[l] # {}
               PROVE  readers[l] = {} /\ Cardinality(writers[l]) = 1
      BY DEF WritersAlone
  <2>1. readers[l] = {} BY <1>1 DEF LockInv, ReadersBarWriters
  <2>2. PICK t \in writers[l] : TRUE OBVIOUS
  <2>3. writers[l] = {t} BY <1>1, <2>2 DEF LockInv, FlagOwned
  <2> QED BY <2>1, <2>3, FS_Singleton
<1> QED BY <1>1, LockInvariant, PTL

\* A step of the lock is at most one step of its promise.
LEMMA StepRefines ==
    ASSUME LockInv, [LockNext]_lockVars
    PROVE  [RW!RWNext]_(RW!rwVars)
<1> SUFFICES ASSUME NEW t \in Thread, NEW l \in Lock, Step(t, l)
             PROVE  [RW!RWNext]_(RW!rwVars)
    BY DEF LockNext, lockVars, RW!rwVars, Ask
<1>1. CASE EnterRead(t, l)
  <2>1. writers[l] = {} BY <1>1 DEF LockInv, FlagOwned, EnterRead, FreeToRead
  <2>2. PICK k \in 1..MaxNest : readers' = [readers EXCEPT ![l] = @ \cup {<<t, k>>}]
        BY <1>1 DEF EnterRead
  <2>3. <<t, k>> \in Section /\ writers' = writers BY <1>1 DEF Section, EnterRead
  <2> QED BY <2>1, <2>2, <2>3 DEF RW!RWNext, RW!BeginRead
<1>2. CASE LeaveRead(t, l)
  <2>1. PICK s \in readers[l] : readers' = [readers EXCEPT ![l] = @ \ {s}]
        BY <1>2 DEF LeaveRead, Reads
  <2>2. s \in Section /\ writers' = writers BY <1>2 DEF LockInv, LockTypeOK, LeaveRead
  <2> QED BY <2>1, <2>2 DEF RW!RWNext, RW!EndRead
<1>3. CASE TakeWriteFlag(t, l) BY <1>3 DEF TakeWriteFlag, RW!rwVars
<1>4. CASE EnterWrite(t, l)
  <2>1. readers[l] = {} /\ writers[l] \subseteq {t} BY <1>4, EnterWriteKeeps
  <2>2. /\ writers' = [writers EXCEPT ![l] = @ \cup {t}]
        /\ UNCHANGED readers
        BY <1>4 DEF EnterWrite
  <2>3. CASE writers[l] = {}
    <3>1. writers' = [writers EXCEPT ![l] = {t}] BY <2>2, <2>3
    <3> QED BY <2>1, <2>2, <2>3, <3>1 DEF RW!RWNext, RW!BeginWrite
  <2>4. CASE writers[l] = {t}
        BY <2>2, <2>4 DEF LockInv, LockTypeOK, RW!rwVars
  <2> QED BY <2>1, <2>3, <2>4
<1>5. CASE LeaveWrite(t, l)
  <2>1. writers[l] = {t} BY <1>5, LeaveWriteKeeps
  <2>2. writers' = [writers EXCEPT ![l] = {}] BY <1>5, <2>1 DEF LeaveWrite
  <2> QED BY <1>5, <2>1, <2>2 DEF LeaveWrite, RW!RWNext, RW!EndWrite
<1> QED BY <1>1, <1>2, <1>3, <1>4, <1>5 DEF Step

\* FDReadAWriteLock is a readers/writer lock, for any threads and locks.
THEOREM LockRefines == LockSpec => ImplementsReadersWriters
<1>1. LockInit => RW!RWInit BY DEF LockInit, RW!RWInit
<1>2. LockInv /\ [LockNext]_lockVars => [RW!RWNext]_(RW!rwVars) BY StepRefines
<1> QED BY <1>1, <1>2, LockInvariant, PTL DEF LockSpec, ImplementsReadersWriters, RW!RWSpec
-----------------------------------------------------------------------------
(* The pools. A block changes its place in one step: a list is written from *)
(* a local copy of its chain, which the write lock keeps equal to it.       *)

\* Nothing is listed twice.
OnceEach(s) == \A i, j \in DOMAIN s : i # j => s[i] # s[j]

\* Taking the first element of a list that has every element once.
LEMMA TakeFirst ==
    ASSUME NEW s \in Seq(Buffer), s # <<>>, OnceEach(s)
    PROVE  /\ Tail(s) \in Seq(Buffer) /\ OnceEach(Tail(s))
           /\ Head(s) \in Buffer /\ Head(s) \in ToSet(s)
           /\ ToSet(Tail(s)) = ToSet(s) \ {Head(s)}
<1>1. Len(s) \in Nat /\ Len(s) # 0 /\ DOMAIN s = 1 .. Len(s) OBVIOUS
<1>2. /\ Tail(s) \in Seq(Buffer) /\ DOMAIN Tail(s) = 1 .. Len(s) - 1
      /\ \A i \in 1 .. Len(s) - 1 : Tail(s)[i] = s[i + 1]
      /\ Head(s) = s[1] /\ Head(s) \in Buffer
      BY <1>1
<1>3. OnceEach(Tail(s)) BY <1>1, <1>2 DEF OnceEach
<1>4. ToSet(Tail(s)) \subseteq ToSet(s) \ {Head(s)}
  <2> SUFFICES ASSUME NEW i \in 1 .. Len(s) - 1 PROVE Tail(s)[i] \in ToSet(s) \ {Head(s)}
      BY <1>2 DEF ToSet
  <2>1. i + 1 \in DOMAIN s /\ i + 1 # 1 /\ 1 \in DOMAIN s BY <1>1
  <2> QED BY <2>1, <1>2 DEF ToSet, OnceEach
<1>5. ToSet(s) \ {Head(s)} \subseteq ToSet(Tail(s))
  <2> SUFFICES ASSUME NEW i \in DOMAIN s, s[i] # Head(s) PROVE s[i] \in ToSet(Tail(s))
      BY DEF ToSet
  <2>1. i - 1 \in 1 .. Len(s) - 1 BY <1>1, <1>2
  <2>2. Tail(s)[i - 1] = s[i] BY <2>1, <1>1, <1>2
  <2> QED BY <2>1, <2>2, <1>2 DEF ToSet
<1>6. Head(s) \in ToSet(s) BY <1>1, <1>2 DEF ToSet
<1> QED BY <1>2, <1>3, <1>4, <1>5, <1>6

\* Putting a new element before the others.
LEMMA PutFirst ==
    ASSUME NEW s \in Seq(Buffer), NEW b \in Buffer, OnceEach(s), b \notin ToSet(s)
    PROVE  /\ <<b>> \o s \in Seq(Buffer) /\ OnceEach(<<b>> \o s)
           /\ ToSet(<<b>> \o s) = ToSet(s) \cup {b}
<1> DEFINE r == <<b>> \o s
<1>1. Len(s) \in Nat /\ DOMAIN s = 1 .. Len(s) OBVIOUS
<1>2. /\ r \in Seq(Buffer) /\ DOMAIN r = 1 .. Len(s) + 1
      /\ r[1] = b /\ \A i \in 1 .. Len(s) : r[i + 1] = s[i]
      BY <1>1
<1>3. \A i \in DOMAIN r : i # 1 => i - 1 \in DOMAIN s /\ r[i] = s[i - 1]
  <2> SUFFICES ASSUME NEW i \in 1 .. Len(s) + 1, i # 1
               PROVE  i - 1 \in DOMAIN s /\ r[i] = s[i - 1]
      BY <1>2
  <2>1. i - 1 \in 1 .. Len(s) /\ (i - 1) + 1 = i BY <1>1
  <2>2. r[(i - 1) + 1] = s[i - 1] BY <2>1, <1>2
  <2> QED BY <2>1, <2>2, <1>1
<1>4. \A i \in DOMAIN r : i # 1 => r[i] # b BY <1>3 DEF ToSet
<1>5. OnceEach(r)
  <2> SUFFICES ASSUME NEW i \in DOMAIN r, NEW j \in DOMAIN r, i # j PROVE r[i] # r[j]
      BY DEF OnceEach
  <2>1. CASE i = 1 BY <2>1, <1>2, <1>4
  <2>2. CASE j = 1 BY <2>2, <1>2, <1>4
  <2>3. CASE i # 1 /\ j # 1
    <3>1. i - 1 \in DOMAIN s /\ j - 1 \in DOMAIN s /\ r[i] = s[i - 1] /\ r[j] = s[j - 1]
          BY <2>3, <1>3
    <3>2. i - 1 # j - 1 BY <1>2, <1>1
    <3> QED BY <3>1, <3>2 DEF OnceEach
  <2> QED BY <2>1, <2>2, <2>3
<1>6. ToSet(r) = ToSet(s) \cup {b}
  <2>1. ToSet(r) \subseteq ToSet(s) \cup {b} BY <1>2, <1>3 DEF ToSet
  <2>2. b \in ToSet(r) BY <1>1, <1>2 DEF ToSet
  <2>3. ASSUME NEW i \in DOMAIN s PROVE s[i] \in ToSet(r)
    <3>1. i + 1 \in DOMAIN r /\ r[i + 1] = s[i] BY <1>1, <1>2
    <3> QED BY <3>1 DEF ToSet
  <2>4. ToSet(s) \subseteq ToSet(r) BY <2>3 DEF ToSet
  <2> QED BY <2>1, <2>2, <2>4
<1> HIDE DEF r
<1> QED BY <1>2, <1>5, <1>6 DEF r

\* What a thread remembers at each place of GetBuf and FreeBuf.
Locals ==
    {Away} \cup [pc : {"get"}, pool : Lock, size : Lock]
           \cup [pc : {"unlink"}, pool : Lock, chain : Seq(Buffer)]
           \cup [pc : {"gotten", "leave", "freed"}, pool : Lock]
           \cup [pc : {"pass"}, pool : Lock, buf : Buffer, del : BOOLEAN]
           \cup [pc : {"link"}, pool : Lock, buf : Buffer]
           \cup [pc : {"first"}, pool : Lock, buf : Buffer, chain : Seq(Buffer)]

\* The types of the pools.
PoolTypeOK ==
    /\ list \in [Lock -> Seq(Buffer)]
    /\ nLen \in [Buffer -> Lock \cup {0}]
    /\ inUse \in SUBSET Buffer
    /\ hasNext \in SUBSET {p \in Lock : p + 1 \in Lock}
    /\ at \in [Thread -> Locals]

\* What a thread has of the lock of its pool and knows of the pool's list.
Owns(t) ==
    /\ at[t].pc \in {"get", "link"} =>
          \/ want[t] = Idle /\ t \in writers[at[t].pool]
          \/ want[t] = [op |-> "write", lock |-> at[t].pool]
    /\ at[t].pc \in {"unlink", "first"} =>
          t \in writers[at[t].pool] /\ at[t].chain = list[at[t].pool]
    /\ at[t].pc = "unlink" => at[t].chain # <<>>
    /\ at[t].pc \in {"link", "first"} => nLen[at[t].buf] = at[t].pool

\* The block that a thread carries.
Hand(t) == IF at[t].pc \in {"pass", "link", "first"} THEN {at[t].buf} ELSE {}

\* A block that a thread carries is nobody else's and in no list.
HandsApart ==
    /\ \A t \in Thread : /\ Hand(t) \cap inUse = {}
                         /\ \A b \in Hand(t) : nLen[b] # 0
                         /\ \A p \in Lock : Hand(t) \cap ToSet(list[p]) = {}
    /\ \A t, u \in Thread : t # u => Hand(t) \cap Hand(u) = {}

\* A block is in one list at most, once, and it is of that pool.
ListsApart ==
    \A p \in Lock : /\ OnceEach(list[p])
                    /\ \A b \in ToSet(list[p]) : nLen[b] = p /\ b \notin inUse

\* A block is free, carried, or with the program.
NoneLost ==
    \A b \in Buffer : nLen[b] # 0 => \/ b \in inUse
                                     \/ \E t \in Thread : b \in Hand(t)
                                     \/ b \in ToSet(list[nLen[b]])

\* Where the blocks are.
Blocks == /\ \A b \in inUse : nLen[b] # 0
          /\ HandsApart /\ ListsApart /\ NoneLost

\* What the proofs about the pools carry from step to step.
PoolInv == LockInv /\ PoolTypeOK /\ (\A t \in Thread : Owns(t)) /\ Blocks

\* The pools are numbered from the first.
LEMMA LockRange == 1 \in Lock /\ \E n \in Nat \ {0} : Lock = 1 .. n
<1>1. Cardinality(Lock) \in Nat BY PoolAssumption, FS_CardinalityType
<1>2. Lock = 1 .. Cardinality(Lock) /\ 1 \in Lock BY PoolAssumption
<1> QED BY <1>1, <1>2

\* All threads are away and nothing is allocated.
LEMMA InitPoolInv == ASSUME Init PROVE PoolInv
<1>1. LockInv BY InitLockInv DEF Init
<1>2. ToSet(<<>>) = {} /\ OnceEach(<<>>) /\ <<>> \in Seq(Buffer) BY DEF ToSet, OnceEach
<1>3. PoolTypeOK BY <1>2 DEF Init, PoolTypeOK, Locals
<1>4. \A t \in Thread : at[t] = Away /\ Away.pc = "away" BY DEF Init, Away
<1>5. \A t \in Thread : Owns(t) /\ Hand(t) = {} BY <1>4 DEF Owns, Hand
<1>6. Blocks
  <2>1. \A p \in Lock : list[p] = <<>> BY DEF Init
  <2>2. inUse = {} /\ \A b \in Buffer : nLen[b] = 0 BY DEF Init
  <2> QED BY <1>2, <1>5, <2>1, <2>2 DEF Blocks, HandsApart, ListsApart, NoneLost
<1> QED BY <1>1, <1>3, <1>5, <1>6 DEF PoolInv

\* A step that moves no block keeps them where they are.
LEMMA NothingMoves ==
    ASSUME Blocks, UNCHANGED <<list, nLen, inUse>>,
           \A u \in Thread : Hand(u)' = Hand(u)
    PROVE  Blocks'
BY DEF Blocks, HandsApart, ListsApart, NoneLost

\* The other threads keep their place and what they carry.
LEMMA OnlyOne ==
    ASSUME PoolTypeOK, NEW t \in Thread, NEW loc, Go(t, loc)
    PROVE  at'[t] = loc /\ \A u \in Thread \ {t} : at'[u] = at[u] /\ Hand(u)' = Hand(u)
BY DEF PoolTypeOK, Go, Hand

\* What the other threads own and know is not disturbed: a lock is left by its
\* writer, and a list is changed by the writer of its lock.
LEMMA OthersOwn ==
    ASSUME PoolInv, NEW t \in Thread, NEW u \in Thread \ {t},
           at'[u] = at[u], want'[u] = want[u],
           \A p \in Lock : u \in writers[p] => u \in writers'[p],
           \A p \in Lock : t \notin writers[p] => list'[p] = list[p],
           \A b \in Hand(u) : nLen'[b] = nLen[b]
    PROVE  Owns(u)'
<1>1. Owns(u) /\ at[u] \in Locals BY DEF PoolInv, PoolTypeOK
<1>2. at[u].pc \in {"get", "link", "unlink", "first"} => at[u].pool \in Lock
      BY <1>1 DEF Locals, Away
<1>3. \A p \in Lock : u \in writers[p] => t \notin writers[p]
      BY DEF PoolInv, LockInv, FlagOwned
<1>4. at[u].pc \in {"link", "first"} => at[u].buf \in Hand(u) BY DEF Hand
<1> QED BY <1>1, <1>2, <1>3, <1>4 DEF Owns

\* The counters have no part in it.
LEMMA LoadStoreKeep ==
    ASSUME PoolInv, NEW t \in Thread, Load(t) \/ Store(t)
    PROVE  PoolInv'
<1>1. UNCHANGED <<lockVars, list, nLen, inUse, hasNext, at>> BY DEF Load, Store
<1>2. LockInv' BY <1>1, StepKeeps DEF PoolInv
<1>3. PoolTypeOK' BY <1>1 DEF PoolInv, PoolTypeOK
<1>4. \A u \in Thread : Owns(u)' BY <1>1 DEF PoolInv, Owns, lockVars
<1>5. Blocks' BY <1>1, NothingMoves DEF PoolInv, Hand
<1> QED BY <1>2, <1>3, <1>4, <1>5 DEF PoolInv

\* A thread that waits for a write lock is told of nothing but its own.
LEMMA EnterLockKeeps ==
    ASSUME PoolInv, NEW t \in Thread, EnterLock(t)
    PROVE  PoolInv'
<1>1. UNCHANGED <<list, nLen, inUse, hasNext, at>> BY DEF EnterLock, poolVars
<1>2. PICK l \in Lock : EnterRead(t, l) \/ TakeWriteFlag(t, l) \/ EnterWrite(t, l)
      BY DEF EnterLock
<1>3. LockInv' BY <1>2, EnterReadKeeps, TakeWriteFlagKeeps, EnterWriteKeeps DEF PoolInv
<1>4. PoolTypeOK' BY <1>1 DEF PoolInv, PoolTypeOK
<1>5. Blocks' BY <1>1, NothingMoves DEF PoolInv, Hand
<1>6. /\ \A p \in Lock : writers[p] \subseteq writers'[p]
      /\ \A u \in Thread \ {t} : want'[u] = want[u]
      BY <1>2 DEF PoolInv, LockInv, LockTypeOK, EnterRead, TakeWriteFlag, EnterWrite
<1>7. ASSUME NEW u \in Thread \ {t} PROVE Owns(u)' BY <1>1, <1>6, OthersOwn
<1>8. Owns(t)'
  <2>1. Owns(t) /\ at[t] \in Locals BY DEF PoolInv, PoolTypeOK
  <2>2. at[t].pc \in {"get", "link", "unlink", "first"} => at[t].pool \in Lock
        BY <2>1 DEF Locals, Away
  <2>3. CASE want'[t] = want[t] BY <1>1, <1>6, <2>1, <2>2, <2>3 DEF Owns
  <2>4. CASE EnterRead(t, l)
    <3>1. want[t] # Idle /\ at[t].pc \notin {"get", "link"}
          BY <2>1, <2>4 DEF EnterRead, Idle, Owns
    <3> QED BY <1>1, <1>6, <2>1, <2>2, <3>1 DEF Owns
  <2>5. CASE EnterWrite(t, l)
    <3>1. want[t] = [op |-> "write", lock |-> l] /\ want'[t] = Idle /\ t \in writers'[l]
          BY <2>5 DEF EnterWrite, PoolInv, LockInv, LockTypeOK
    <3>2. want[t].lock = l /\ want[t] # Idle BY <3>1 DEF Idle
    <3>3. at[t].pc \in {"get", "link"} => at[t].pool = l BY <2>1, <3>2 DEF Owns
    <3> QED BY <1>1, <1>6, <2>1, <2>2, <3>1, <3>3 DEF Owns
  <2> QED BY <1>2, <2>3, <2>4, <2>5 DEF TakeWriteFlag
<1> QED BY <1>3, <1>4, <1>5, <1>7, <1>8 DEF PoolInv

\* Asking for a lock gives no lock away.
LEMMA AskFacts ==
    ASSUME LockInv, NEW t \in Thread, NEW op \in {"read", "write"}, NEW l \in Lock,
           Ask(t, op, l)
    PROVE  /\ LockInv'
           /\ want'[t] = [op |-> op, lock |-> l]
           /\ UNCHANGED writers
           /\ \A u \in Thread \ {t} : want'[u] = want[u]
<1>1. LockInv' BY AskKeeps
<1> QED BY <1>1 DEF Ask, LockInv, LockTypeOK

\* LeaveWrite takes the lock from its caller only.
LEMMA LeaveWriteFacts ==
    ASSUME LockInv, NEW t \in Thread, NEW l \in Lock, LeaveWrite(t, l)
    PROVE  /\ LockInv'
           /\ UNCHANGED want
           /\ \A p \in Lock, u \in Thread \ {t} : u \in writers[p] => u \in writers'[p]
<1>1. LockInv' BY LeaveWriteKeeps
<1> QED BY <1>1 DEF LeaveWrite, LockInv, LockTypeOK

\* GetBuf begins with the lock of the first pool.
LEMMA GetBufKeeps ==
    ASSUME PoolInv, NEW t \in Thread, NEW size \in Lock, GetBuf(t, size)
    PROVE  PoolInv'
<1> DEFINE loc == [pc |-> "get", pool |-> 1, size |-> size]
<1>1. 1 \in Lock BY LockRange
<1>2. loc \in Locals BY <1>1 DEF Locals
<1>3. /\ at'[t] = loc /\ Hand(t)' = {} /\ Hand(t) = {}
      /\ \A u \in Thread \ {t} : at'[u] = at[u] /\ Hand(u)' = Hand(u)
      BY OnlyOne DEF GetBuf, PoolInv, Hand, Away
<1>4. UNCHANGED <<list, nLen, inUse, hasNext>> BY DEF GetBuf
<1>5. /\ LockInv' /\ want'[t] = [op |-> "write", lock |-> 1] /\ UNCHANGED writers
      /\ \A u \in Thread \ {t} : want'[u] = want[u]
      BY <1>1, AskFacts DEF GetBuf, PoolInv
<1>6. PoolTypeOK' BY <1>2, <1>4 DEF PoolInv, PoolTypeOK, GetBuf, Go
<1>7. \A u \in Thread \ {t} : Owns(u)' BY <1>3, <1>4, <1>5, OthersOwn
<1>8. Owns(t)' BY <1>3, <1>5 DEF Owns
<1>9. Blocks' BY <1>3, <1>4, NothingMoves DEF PoolInv
<1> QED BY <1>5, <1>6, <1>7, <1>8, <1>9 DEF PoolInv

\* A thread looks for a larger pool only while there is one.
LEMMA GetNextKeeps ==
    ASSUME PoolInv, NEW t \in Thread, GetNext(t)
    PROVE  PoolInv'
<1> DEFINE p == at[t].pool
           loc == [at[t] EXCEPT !.pool = Behind(@)]
<1>1. at[t] \in [pc : {"get"}, pool : Lock, size : Lock]
      BY DEF GetNext, At, PoolInv, PoolTypeOK, Locals, Away
<1>2. p \in Lock /\ p + 1 \in Lock
  <2>1. PICK n \in Nat \ {0} : Lock = 1 .. n BY LockRange
  <2>2. p \in 1 .. n /\ at[t].size \in 1 .. n /\ at[t].size > p BY <1>1, <2>1 DEF GetNext
  <2> QED BY <2>1, <2>2
<1>3. /\ loc = [pc |-> "get", pool |-> p + 1, size |-> at[t].size]
      /\ loc \in Locals /\ loc.pc = "get" /\ loc.pool = p + 1
      BY <1>1, <1>2 DEF Locals, Behind
<1>4. Go(t, loc) /\ Ask(t, "write", p + 1) BY DEF GetNext, Behind
<1> HIDE DEF loc
<1>5. /\ at'[t] = loc /\ Hand(t)' = {} /\ Hand(t) = {}
      /\ \A u \in Thread \ {t} : at'[u] = at[u] /\ Hand(u)' = Hand(u)
      BY <1>1, <1>3, <1>4, OnlyOne DEF PoolInv, Hand
<1>6. UNCHANGED <<list, nLen, inUse>> BY DEF GetNext
<1>7. /\ LockInv' /\ want'[t] = [op |-> "write", lock |-> p + 1] /\ UNCHANGED writers
      /\ \A u \in Thread \ {t} : want'[u] = want[u]
      BY <1>2, <1>4, AskFacts DEF PoolInv
<1>8. PoolTypeOK' BY <1>2, <1>3, <1>4, <1>6 DEF PoolInv, PoolTypeOK, GetNext, Go
<1>9. \A u \in Thread \ {t} : Owns(u)' BY <1>5, <1>6, <1>7, OthersOwn
<1>10. Owns(t)' BY <1>3, <1>5, <1>7 DEF Owns
<1>11. Blocks' BY <1>5, <1>6, NothingMoves DEF PoolInv
<1> QED BY <1>7, <1>8, <1>9, <1>10, <1>11 DEF PoolInv

\* The chain that was read is the list: the lock is held.
LEMMA GetFirstKeeps ==
    ASSUME PoolInv, NEW t \in Thread, GetFirst(t)
    PROVE  PoolInv'
<1> DEFINE loc == [pc |-> "unlink", pool |-> at[t].pool, chain |-> list[at[t].pool]]
<1>1. at[t].pc = "get" /\ at[t].pool \in Lock
      BY DEF GetFirst, At, PoolInv, PoolTypeOK, Locals, Away
<1>2. list[at[t].pool] \in Seq(Buffer) /\ list[at[t].pool] # <<>>
      BY <1>1 DEF GetFirst, PoolInv, PoolTypeOK
<1>3. loc \in Locals BY <1>1, <1>2 DEF Locals
<1>4. /\ at'[t] = loc /\ Hand(t)' = {} /\ Hand(t) = {}
      /\ \A u \in Thread \ {t} : at'[u] = at[u] /\ Hand(u)' = Hand(u)
  <2>1. Go(t, loc) BY DEF GetFirst
  <2>2. loc.pc = "unlink" OBVIOUS
  <2> HIDE DEF loc
  <2> QED BY <1>1, <2>1, <2>2, OnlyOne DEF PoolInv, Hand
<1>5. UNCHANGED <<lockVars, list, nLen, inUse, hasNext>> BY DEF GetFirst
<1>6. LockInv' BY <1>5, StepKeeps DEF PoolInv
<1>7. PoolTypeOK' BY <1>3, <1>5 DEF PoolInv, PoolTypeOK, GetFirst, Go
<1>8. \A u \in Thread \ {t} : Owns(u)' BY <1>4, <1>5, OthersOwn DEF lockVars
<1>9. Owns(t)'
  <2>1. t \in writers[at[t].pool]
    <3>1. want[t] = Idle BY DEF GetFirst, At
    <3>2. Owns(t) BY DEF PoolInv
    <3>3. Idle # [op |-> "write", lock |-> at[t].pool] BY DEF Idle
    <3> QED BY <1>1, <3>1, <3>2, <3>3 DEF Owns
  <2> QED BY <1>2, <1>4, <1>5, <2>1 DEF Owns, lockVars
<1>10. Blocks' BY <1>4, <1>5, NothingMoves DEF PoolInv
<1> QED BY <1>6, <1>7, <1>8, <1>9, <1>10 DEF PoolInv

\* The first block of a list goes to the program.
LEMMA UnlinkKeeps ==
    ASSUME PoolInv, NEW t \in Thread, Unlink(t)
    PROVE  PoolInv'
<1> DEFINE p == at[t].pool
           loc == [pc |-> "gotten", pool |-> p]
           b == Head(list[p])
<1>1. at[t].pc = "unlink" /\ p \in Lock
      BY DEF Unlink, At, PoolInv, PoolTypeOK, Locals, Away
<1>2. at[t].chain = list[p] /\ list[p] # <<>> /\ t \in writers[p]
      BY <1>1 DEF PoolInv, Owns
<1>3. list[p] \in Seq(Buffer) /\ OnceEach(list[p])
      BY <1>1 DEF PoolInv, PoolTypeOK, Blocks, ListsApart
<1>4. /\ Tail(list[p]) \in Seq(Buffer) /\ OnceEach(Tail(list[p]))
      /\ b \in Buffer /\ b \in ToSet(list[p])
      /\ ToSet(Tail(list[p])) = ToSet(list[p]) \ {b}
      BY <1>2, <1>3, TakeFirst
<1>5. /\ list' = [list EXCEPT ![p] = Tail(list[p])]
      /\ inUse' = inUse \cup {b}
      /\ UNCHANGED <<lockVars, nLen, hasNext>> /\ Go(t, loc)
      BY <1>2 DEF Unlink
<1> HIDE DEF b
<1>6. loc \in Locals BY <1>1 DEF Locals
<1>7. /\ at'[t] = loc /\ Hand(t)' = {} /\ Hand(t) = {}
      /\ \A u \in Thread \ {t} : at'[u] = at[u] /\ Hand(u)' = Hand(u)
      BY <1>1, <1>5, OnlyOne DEF PoolInv, Hand
<1>8. LockInv' BY <1>5, StepKeeps DEF PoolInv
<1>9. PoolTypeOK' BY <1>4, <1>5, <1>6 DEF PoolInv, PoolTypeOK, Go
<1>10. list'[p] = Tail(list[p]) /\ \A q \in Lock \ {p} : list'[q] = list[q]
       BY <1>1, <1>5 DEF PoolInv, PoolTypeOK
<1>11. \A u \in Thread \ {t} : Owns(u)'
       BY <1>2, <1>5, <1>7, <1>10, OthersOwn DEF lockVars
<1>12. Owns(t)' BY <1>7 DEF Owns
<1>13. nLen[b] = p /\ nLen[b] # 0 /\ \A q \in Lock \ {p} : b \notin ToSet(list[q])
  <2>1. 0 \notin Lock BY LockRange
  <2> QED BY <1>1, <1>4, <2>1 DEF PoolInv, Blocks, ListsApart
<1>14. Blocks'
  <2>1. \A c \in inUse' : nLen'[c] # 0 BY <1>5, <1>13 DEF PoolInv, Blocks
  <2>2. HandsApart'
    <3>1. \A u \in Thread : Hand(u)' = Hand(u) BY <1>7
    <3>2. \A q \in Lock : ToSet(list'[q]) \subseteq ToSet(list[q])
          BY <1>1, <1>4, <1>10
    <3>3. \A u \in Thread : b \notin Hand(u)
          BY <1>1, <1>4 DEF PoolInv, Blocks, HandsApart
    <3> QED BY <1>5, <3>1, <3>2, <3>3 DEF PoolInv, Blocks, HandsApart
  <2>3. ListsApart'
    <3> SUFFICES ASSUME NEW q \in Lock
                 PROVE  /\ OnceEach(list'[q])
                        /\ \A c \in ToSet(list'[q]) : nLen'[c] = q /\ c \notin inUse'
        BY DEF ListsApart
    <3>1. CASE q = p
          BY <3>1, <1>1, <1>4, <1>5, <1>10 DEF PoolInv, Blocks, ListsApart
    <3>2. CASE q # p
          BY <3>2, <1>5, <1>10, <1>13 DEF PoolInv, Blocks, ListsApart
    <3> QED BY <3>1, <3>2
  <2>4. NoneLost'
    <3> SUFFICES ASSUME NEW c \in Buffer, nLen'[c] # 0
                 PROVE  \/ c \in inUse'
                        \/ \E u \in Thread : c \in Hand(u)'
                        \/ c \in ToSet(list'[nLen'[c]])
        BY DEF NoneLost
    <3>1. nLen[c] \in Lock /\ nLen'[c] = nLen[c]
          BY <1>5 DEF PoolInv, PoolTypeOK
    <3>2. CASE c \in inUse \/ \E u \in Thread : c \in Hand(u) BY <3>2, <1>5, <1>7
    <3>3. CASE c \in ToSet(list[nLen[c]]) /\ nLen[c] = p
          BY <3>1, <3>3, <1>4, <1>5, <1>10
    <3>4. CASE c \in ToSet(list[nLen[c]]) /\ nLen[c] # p
          BY <3>1, <3>4, <1>10
    <3> QED BY <3>1, <3>2, <3>3, <3>4 DEF PoolInv, Blocks, NoneLost
  <2> QED BY <2>1, <2>2, <2>3, <2>4 DEF Blocks
<1> QED BY <1>8, <1>9, <1>11, <1>12, <1>14 DEF PoolInv

\* A block that malloc returns was nowhere.
LEMMA GetNewKeeps ==
    ASSUME PoolInv, NEW t \in Thread, GetNew(t)
    PROVE  PoolInv'
<1> DEFINE p == at[t].pool
           loc == [pc |-> "gotten", pool |-> p]
<1>1. at[t].pc = "get" /\ p \in Lock
      BY DEF GetNew, At, PoolInv, PoolTypeOK, Locals, Away
<1>2. UNCHANGED <<lockVars, list, hasNext>> /\ Go(t, loc) BY DEF GetNew
<1>3. loc \in Locals BY <1>1 DEF Locals
<1>4. /\ at'[t] = loc /\ Hand(t)' = {} /\ Hand(t) = {}
      /\ \A u \in Thread \ {t} : at'[u] = at[u] /\ Hand(u)' = Hand(u)
      BY <1>1, <1>2, OnlyOne DEF PoolInv, Hand
<1>5. LockInv' BY <1>2, StepKeeps DEF PoolInv
<1>6. Owns(t)' BY <1>4 DEF Owns
<1>7. at' \in [Thread -> Locals] BY <1>2, <1>3 DEF PoolInv, PoolTypeOK, Go
<1>8. CASE UNCHANGED <<nLen, inUse>>
  <2>1. PoolTypeOK' BY <1>2, <1>7, <1>8 DEF PoolInv, PoolTypeOK
  <2>2. \A u \in Thread \ {t} : Owns(u)' BY <1>2, <1>4, <1>8, OthersOwn DEF lockVars
  <2>3. Blocks' BY <1>2, <1>4, <1>8, NothingMoves DEF PoolInv
  <2> QED BY <1>5, <1>6, <2>1, <2>2, <2>3 DEF PoolInv
<1>9. ASSUME NEW b \in Buffer \ Allocated,
             nLen' = [nLen EXCEPT ![b] = p], inUse' = inUse \cup {b}
      PROVE  PoolInv'
  <2>1. nLen[b] = 0 /\ p # 0 /\ 0 \notin Lock BY <1>1, LockRange DEF Allocated
  <2>2. nLen'[b] = p /\ \A c \in Buffer \ {b} : nLen'[c] = nLen[c]
        BY <1>9 DEF PoolInv, PoolTypeOK
  <2>3. PoolTypeOK' BY <1>1, <1>2, <1>7, <1>9 DEF PoolInv, PoolTypeOK
  <2>4. \A u \in Thread : b \notin Hand(u) /\ Hand(u)' = Hand(u)
        BY <1>4, <2>1 DEF PoolInv, Blocks, HandsApart
  <2>5. \A q \in Lock : b \notin ToSet(list[q])
        BY <2>1 DEF PoolInv, Blocks, ListsApart
  <2>6. b \notin inUse BY <2>1 DEF PoolInv, Blocks
  <2>7. \A u \in Thread : Hand(u) \subseteq Buffer
        BY DEF PoolInv, PoolTypeOK, Locals, Hand, Away
  <2>8. \A q \in Lock : ToSet(list[q]) \subseteq Buffer
        BY DEF PoolInv, PoolTypeOK, ToSet
  <2>9. \A u \in Thread \ {t} : Owns(u)'
        BY <1>2, <1>4, <2>2, <2>4, <2>7, OthersOwn DEF lockVars
  <2>10. HandsApart'
         BY <1>2, <1>9, <2>2, <2>4, <2>7 DEF PoolInv, Blocks, HandsApart
  <2>11. ListsApart'
         BY <1>2, <1>9, <2>2, <2>5, <2>8 DEF PoolInv, Blocks, ListsApart
  <2>12. NoneLost'
         BY <1>2, <1>9, <2>2, <2>4 DEF PoolInv, Blocks, NoneLost
  <2>13. \A c \in inUse' : nLen'[c] # 0
         BY <1>9, <2>1, <2>2, <2>3 DEF PoolInv, Blocks, PoolTypeOK
  <2> QED BY <1>5, <1>6, <2>3, <2>9, <2>10, <2>11, <2>12, <2>13 DEF PoolInv, Blocks
<1> QED BY <1>8, <1>9 DEF GetNew

\* On the way back GetBuf has no list in hand.
LEMMA GetReturnKeeps ==
    ASSUME PoolInv, NEW t \in Thread, GetReturn(t)
    PROVE  PoolInv'
<1>1. at[t] \in [pc : {"gotten", "leave", "freed"}, pool : Lock] /\ at[t].pc = "gotten"
      BY DEF GetReturn, At, PoolInv, PoolTypeOK, Locals, Away
<1>2. PICK loc \in Locals : Go(t, loc) /\ loc.pc \in {"away", "gotten"}
  <2>1. CASE at[t].pool = 1 BY <2>1 DEF GetReturn, Locals, Away
  <2>2. CASE at[t].pool # 1
    <3>1. at[t].pool - 1 \in Lock
      <4>1. PICK n \in Nat \ {0} : Lock = 1 .. n BY LockRange
      <4> QED BY <4>1, <1>1, <2>2
    <3>2. [at[t] EXCEPT !.pool = @ - 1] \in [pc : {"gotten", "leave", "freed"}, pool : Lock]
          /\ [at[t] EXCEPT !.pool = @ - 1].pc = "gotten"
          BY <1>1, <3>1
    <3>3. [at[t] EXCEPT !.pool = @ - 1] \in Locals BY <3>2 DEF Locals
    <3> QED BY <2>2, <3>2, <3>3 DEF GetReturn
  <2> QED BY <2>1, <2>2
<1>3. /\ at'[t] = loc /\ Hand(t)' = {} /\ Hand(t) = {}
      /\ \A u \in Thread \ {t} : at'[u] = at[u] /\ Hand(u)' = Hand(u)
      BY <1>1, <1>2, OnlyOne DEF PoolInv, Hand
<1>4. UNCHANGED <<list, nLen, inUse, hasNext>> BY DEF GetReturn
<1>5. /\ LockInv' /\ UNCHANGED want
      /\ \A p \in Lock, u \in Thread \ {t} : u \in writers[p] => u \in writers'[p]
      BY <1>1, LeaveWriteFacts DEF GetReturn, PoolInv
<1>6. PoolTypeOK' BY <1>2, <1>4 DEF PoolInv, PoolTypeOK, Go
<1>7. \A u \in Thread \ {t} : Owns(u)' BY <1>3, <1>4, <1>5, OthersOwn
<1>8. Owns(t)' BY <1>2, <1>3 DEF Owns
<1>9. Blocks' BY <1>3, <1>4, NothingMoves DEF PoolInv
<1> QED BY <1>5, <1>6, <1>7, <1>8, <1>9 DEF PoolInv

\* A block that only its caller of FreeBuf has is passed on, deleted, or about to
\* be linked into the list of its own pool.
LEMMA ArriveKeeps ==
    ASSUME PoolInv, NEW t \in Thread, NEW p \in Lock, NEW b \in Buffer,
           NEW del \in BOOLEAN, Arrive(t, p, b, del),
           UNCHANGED <<list, hasNext>>, inUse' = inUse \ {b},
           nLen[b] # 0, Hand(t) \subseteq {b},
           \A u \in Thread \ {t} : b \notin Hand(u),
           \A q \in Lock : b \notin ToSet(list[q])
    PROVE  PoolInv'
<1>1. \A u \in Thread : Hand(u) \subseteq Buffer
      BY DEF PoolInv, PoolTypeOK, Locals, Hand, Away
<1>2. CASE UNCHANGED nLen /\ \E loc \in Locals : /\ Go(t, loc)
                                                 /\ loc.pc \in {"pass", "link"}
                                                 /\ loc.pool = p /\ loc.buf = b
                                                 /\ \/ Ask(t, "write", p) /\ nLen[b] = p
                                                    \/ Ask(t, "read", p) /\ loc.pc = "pass"
  <2>1. PICK loc \in Locals : /\ Go(t, loc)
                              /\ loc.pc \in {"pass", "link"}
                              /\ loc.pool = p /\ loc.buf = b
                              /\ \/ Ask(t, "write", p) /\ nLen[b] = p
                                 \/ Ask(t, "read", p) /\ loc.pc = "pass"
        BY <1>2
  <2>2. /\ at'[t] = loc
        /\ \A u \in Thread \ {t} : at'[u] = at[u] /\ Hand(u)' = Hand(u)
        BY <2>1, OnlyOne DEF PoolInv
  <2>3. Hand(t)' = {b} BY <2>1, <2>2 DEF Hand
  <2>4. /\ LockInv' /\ UNCHANGED writers
        /\ \A u \in Thread \ {t} : want'[u] = want[u]
        /\ \/ want'[t] = [op |-> "write", lock |-> p] /\ nLen[b] = p
           \/ loc.pc = "pass"
        BY <2>1, AskFacts DEF PoolInv
  <2>5. PoolTypeOK' BY <1>2, <2>1 DEF PoolInv, PoolTypeOK, Go
  <2>6. \A u \in Thread \ {t} : Owns(u)' BY <1>2, <2>2, <2>4, OthersOwn
  <2>7. Owns(t)' BY <1>2, <2>1, <2>2, <2>4 DEF Owns
  <2>8. HandsApart' BY <1>2, <2>2, <2>3 DEF PoolInv, Blocks, HandsApart
  <2>9. ListsApart' BY <1>2 DEF PoolInv, Blocks, ListsApart
  <2>10. NoneLost'
    <3> SUFFICES ASSUME NEW c \in Buffer, nLen[c] # 0
                 PROVE  \/ c \in inUse \ {b}
                        \/ \E u \in Thread : c \in Hand(u)'
                        \/ c \in ToSet(list[nLen[c]])
        BY <1>2 DEF NoneLost
    <3>1. CASE c = b BY <3>1, <2>3
    <3>2. CASE c # b BY <3>2, <2>2 DEF PoolInv, Blocks, NoneLost
    <3> QED BY <3>1, <3>2
  <2>11. \A c \in inUse' : nLen'[c] # 0 BY <1>2 DEF PoolInv, Blocks
  <2> QED BY <2>4, <2>5, <2>6, <2>7, <2>8, <2>9, <2>10, <2>11 DEF PoolInv, Blocks
<1>3. CASE /\ nLen' = [nLen EXCEPT ![b] = 0] /\ UNCHANGED lockVars
           /\ Go(t, [pc |-> "freed", pool |-> p])
  <2> DEFINE loc == [pc |-> "freed", pool |-> p]
  <2>1. loc \in Locals /\ loc.pc = "freed" BY DEF Locals
  <2>2. Go(t, loc) BY <1>3
  <2> HIDE DEF loc
  <2>3. /\ at'[t] = loc /\ Hand(t)' = {}
        /\ \A u \in Thread \ {t} : at'[u] = at[u] /\ Hand(u)' = Hand(u)
        BY <2>1, <2>2, OnlyOne DEF PoolInv, Hand
  <2>4. nLen'[b] = 0 /\ \A c \in Buffer \ {b} : nLen'[c] = nLen[c]
        BY <1>3 DEF PoolInv, PoolTypeOK
  <2>5. LockInv' BY <1>3, StepKeeps DEF PoolInv
  <2>6. PoolTypeOK' BY <1>3, <2>1, <2>2 DEF PoolInv, PoolTypeOK, Go
  <2>7. \A u \in Thread \ {t} : Owns(u)'
        BY <1>1, <1>3, <2>3, <2>4, OthersOwn DEF lockVars
  <2>8. Owns(t)' BY <2>1, <2>3 DEF Owns
  <2>9. HandsApart' BY <1>1, <2>3, <2>4 DEF PoolInv, Blocks, HandsApart
  <2>10. \A q \in Lock : ToSet(list[q]) \subseteq Buffer
         BY DEF PoolInv, PoolTypeOK, ToSet
  <2>11. ListsApart' BY <2>4, <2>10 DEF PoolInv, Blocks, ListsApart
  <2>12. NoneLost'
    <3> SUFFICES ASSUME NEW c \in Buffer, nLen'[c] # 0
                 PROVE  \/ c \in inUse \ {b}
                        \/ \E u \in Thread : c \in Hand(u)'
                        \/ c \in ToSet(list[nLen'[c]])
        BY DEF NoneLost
    <3>1. c # b /\ nLen'[c] = nLen[c] BY <2>4
    <3>2. ASSUME NEW v \in Thread, c \in Hand(v) PROVE c \in Hand(v)'
          BY <3>1, <3>2, <2>3
    <3> QED BY <3>1, <3>2 DEF PoolInv, Blocks, NoneLost
  <2>13. \A c \in inUse' : nLen'[c] # 0
         BY <2>4 DEF PoolInv, PoolTypeOK, Blocks
  <2> QED BY <2>5, <2>6, <2>7, <2>8, <2>9, <2>11, <2>12, <2>13 DEF PoolInv, Blocks
<1>4. CASE nLen[b] # p
  <2> DEFINE loc == [pc |-> "pass", pool |-> p, buf |-> b, del |-> del]
  <2>1. loc \in Locals BY DEF Locals
  <2>2. UNCHANGED nLen /\ Go(t, loc) /\ Ask(t, "read", p) BY <1>4 DEF Arrive
  <2> QED BY <1>2, <2>1, <2>2
<1>5. CASE nLen[b] = p /\ del BY <1>3, <1>5 DEF Arrive
<1>6. CASE nLen[b] = p /\ ~del
  <2> DEFINE loc == [pc |-> "link", pool |-> p, buf |-> b]
  <2>1. loc \in Locals BY DEF Locals
  <2>2. UNCHANGED nLen /\ Go(t, loc) /\ Ask(t, "write", p) BY <1>6 DEF Arrive, PushLock
  <2> QED BY <1>2, <1>6, <2>1, <2>2
<1> QED BY <1>4, <1>5, <1>6

\* The program gives a block up, and its thread has it.
LEMMA FreeBufKeeps ==
    ASSUME PoolInv, NEW t \in Thread, NEW b \in Buffer, NEW del \in BOOLEAN,
           FreeBuf(t, b, del)
    PROVE  PoolInv'
<1>1. 1 \in Lock BY LockRange
<1>2. Hand(t) = {} BY DEF FreeBuf, Hand, Away
<1>3. b \in inUse /\ inUse' = inUse \ {b} /\ UNCHANGED <<list, hasNext>>
      /\ Arrive(t, 1, b, del)
      BY DEF FreeBuf
<1>4. /\ nLen[b] # 0
      /\ \A u \in Thread : b \notin Hand(u)
      /\ \A q \in Lock : b \notin ToSet(list[q])
      BY <1>3 DEF PoolInv, Blocks, HandsApart, ListsApart
<1> QED BY <1>1, <1>2, <1>3, <1>4, ArriveKeeps

\* The block goes on to the next pool.
LEMMA FreeNextKeeps ==
    ASSUME PoolInv, NEW t \in Thread, FreeNext(t)
    PROVE  PoolInv'
<1> DEFINE b == at[t].buf
<1>1. at[t].pc = "pass" /\ at[t].pool \in Lock /\ b \in Buffer /\ at[t].del \in BOOLEAN
      BY DEF FreeNext, At, PoolInv, PoolTypeOK, Locals, Away
<1>2. at[t].pool + 1 \in Lock BY <1>1 DEF FreeNext, PoolInv, PoolTypeOK
<1>3. Hand(t) = {b} BY <1>1 DEF Hand
<1>4. /\ b \notin inUse /\ nLen[b] # 0
      /\ \A u \in Thread \ {t} : b \notin Hand(u)
      /\ \A q \in Lock : b \notin ToSet(list[q])
      BY <1>3 DEF PoolInv, Blocks, HandsApart
<1>5. inUse' = inUse \ {b} /\ UNCHANGED <<list, hasNext>>
      /\ Arrive(t, at[t].pool + 1, b, at[t].del)
      BY <1>4 DEF FreeNext, Behind
<1> HIDE DEF b
<1> QED BY <1>1, <1>2, <1>3, <1>4, <1>5, ArriveKeeps

\* The chain that the block is linked to is the list: the lock is held.
LEMMA FreeLinkKeeps ==
    ASSUME PoolInv, NEW t \in Thread, FreeLink(t)
    PROVE  PoolInv'
<1> DEFINE loc == [pc |-> "first", pool |-> at[t].pool, buf |-> at[t].buf,
                   chain |-> list[at[t].pool]]
<1>1. at[t].pc = "link" /\ at[t].pool \in Lock /\ at[t].buf \in Buffer
      BY DEF FreeLink, At, PoolInv, PoolTypeOK, Locals, Away
<1>2. loc \in Locals BY <1>1 DEF PoolInv, PoolTypeOK, Locals
<1>3. Go(t, loc) /\ UNCHANGED <<lockVars, list, nLen, inUse, hasNext>> BY DEF FreeLink
<1>4. /\ loc.pc = "first" /\ loc.pool = at[t].pool /\ loc.buf = at[t].buf
      /\ loc.chain = list[at[t].pool]
      OBVIOUS
<1> HIDE DEF loc
<1>5. /\ at'[t] = loc
      /\ \A u \in Thread \ {t} : at'[u] = at[u] /\ Hand(u)' = Hand(u)
      BY <1>3, OnlyOne DEF PoolInv
<1>6. Hand(t)' = Hand(t) BY <1>1, <1>4, <1>5 DEF Hand
<1>7. LockInv' BY <1>3, StepKeeps DEF PoolInv
<1>8. PoolTypeOK' BY <1>2, <1>3 DEF PoolInv, PoolTypeOK, Go
<1>9. \A u \in Thread \ {t} : Owns(u)' BY <1>3, <1>5, OthersOwn DEF lockVars
<1>10. Owns(t)'
  <2>1. Owns(t) BY DEF PoolInv
  <2>2. want[t] = Idle BY DEF FreeLink, At
  <2>3. Idle # [op |-> "write", lock |-> at[t].pool] BY DEF Idle
  <2>4. t \in writers[at[t].pool] /\ nLen[at[t].buf] = at[t].pool
        BY <1>1, <2>1, <2>2, <2>3 DEF Owns
  <2> QED BY <1>3, <1>4, <1>5, <2>4 DEF Owns, lockVars
<1>11. Blocks' BY <1>3, <1>5, <1>6, NothingMoves DEF PoolInv
<1> QED BY <1>7, <1>8, <1>9, <1>10, <1>11 DEF PoolInv

\* The block that is carried becomes the first of its list.
LEMMA FreeFirstKeeps ==
    ASSUME PoolInv, NEW t \in Thread, FreeFirst(t)
    PROVE  PoolInv'
<1> DEFINE p == at[t].pool
           b == at[t].buf
           loc == [pc |-> "leave", pool |-> p]
<1>1. at[t].pc = "first" /\ p \in Lock /\ b \in Buffer
  <2>1. at[t].pc = "first" BY DEF FreeFirst, At
  <2> QED BY <2>1 DEF PoolInv, PoolTypeOK, Locals, Away
<1>2. at[t].chain = list[p] /\ t \in writers[p] /\ nLen[b] = p /\ Hand(t) = {b}
      BY <1>1 DEF PoolInv, Owns, Hand
<1>3. /\ b \notin inUse
      /\ \A u \in Thread \ {t} : b \notin Hand(u)
      /\ \A q \in Lock : b \notin ToSet(list[q])
      BY <1>2 DEF PoolInv, Blocks, HandsApart
<1>4. list[p] \in Seq(Buffer) /\ OnceEach(list[p])
      BY <1>1 DEF PoolInv, PoolTypeOK, Blocks, ListsApart
<1> DEFINE r == <<b>> \o list[p]
<1>5. /\ r \in Seq(Buffer) /\ OnceEach(r)
      /\ ToSet(r) = ToSet(list[p]) \cup {b}
      BY <1>1, <1>3, <1>4, PutFirst
<1>6. /\ list' = [list EXCEPT ![p] = r] /\ Go(t, loc)
      /\ UNCHANGED <<lockVars, nLen, inUse, hasNext>>
      BY <1>2 DEF FreeFirst
<1>7. loc \in Locals /\ loc.pc = "leave" BY <1>1 DEF Locals
<1> HIDE DEF r, loc
<1>8. /\ at'[t] = loc /\ Hand(t)' = {}
      /\ \A u \in Thread \ {t} : at'[u] = at[u] /\ Hand(u)' = Hand(u)
      BY <1>6, <1>7, OnlyOne DEF PoolInv, Hand
<1>9. LockInv' BY <1>6, StepKeeps DEF PoolInv
<1>10. PoolTypeOK' BY <1>1, <1>5, <1>6, <1>7 DEF PoolInv, PoolTypeOK, Go
<1>11. list'[p] = r /\ \A q \in Lock \ {p} : list'[q] = list[q]
       BY <1>1, <1>6 DEF PoolInv, PoolTypeOK
<1>12. \A u \in Thread \ {t} : Owns(u)'
       BY <1>2, <1>6, <1>8, <1>11, OthersOwn DEF lockVars
<1>13. Owns(t)' BY <1>7, <1>8 DEF Owns
<1>14. HandsApart'
  <2> SUFFICES ASSUME NEW u \in Thread
               PROVE  /\ Hand(u)' \cap inUse' = {}
                      /\ \A c \in Hand(u)' : nLen'[c] # 0
                      /\ \A q \in Lock : Hand(u)' \cap ToSet(list'[q]) = {}
                      /\ \A v \in Thread : u # v => Hand(u)' \cap Hand(v)' = {}
      BY DEF HandsApart
  <2>1. CASE u = t BY <2>1, <1>8
  <2>2. CASE u # t
    <3>1. Hand(u)' = Hand(u) /\ b \notin Hand(u) BY <2>2, <1>3, <1>8
    <3>2. \A q \in Lock : ToSet(list'[q]) \subseteq ToSet(list[q]) \cup {b}
          BY <1>1, <1>5, <1>11
    <3>3. \A v \in Thread : Hand(v)' \subseteq Hand(v) BY <1>8
    <3> QED BY <1>6, <2>2, <3>1, <3>2, <3>3 DEF PoolInv, Blocks, HandsApart
  <2> QED BY <2>1, <2>2
<1>15. ListsApart'
  <2> SUFFICES ASSUME NEW q \in Lock
               PROVE  /\ OnceEach(list'[q])
                      /\ \A c \in ToSet(list'[q]) : nLen'[c] = q /\ c \notin inUse'
      BY DEF ListsApart
  <2>1. CASE q = p
        BY <2>1, <1>1, <1>2, <1>3, <1>5, <1>6, <1>11 DEF PoolInv, Blocks, ListsApart
  <2>2. CASE q # p BY <2>2, <1>6, <1>11 DEF PoolInv, Blocks, ListsApart
  <2> QED BY <2>1, <2>2
<1>16. NoneLost'
  <2> SUFFICES ASSUME NEW c \in Buffer, nLen[c] # 0
               PROVE  \/ c \in inUse
                      \/ \E u \in Thread : c \in Hand(u)'
                      \/ c \in ToSet(list'[nLen[c]])
      BY <1>6 DEF NoneLost
  <2>1. nLen[c] \in Lock BY DEF PoolInv, PoolTypeOK
  <2>2. ToSet(list[nLen[c]]) \subseteq ToSet(list'[nLen[c]])
        BY <2>1, <1>5, <1>11
  <2>3. CASE c = b BY <2>3, <1>2, <1>5, <1>11
  <2>4. CASE c # b
    <3>1. \A u \in Thread : c \in Hand(u) => c \in Hand(u)' BY <2>4, <1>2, <1>8
    <3> QED BY <2>2, <3>1 DEF PoolInv, Blocks, NoneLost
  <2> QED BY <2>3, <2>4
<1>17. \A c \in inUse' : nLen'[c] # 0 BY <1>6 DEF PoolInv, Blocks
<1> QED BY <1>9, <1>10, <1>12, <1>13, <1>14, <1>15, <1>16, <1>17 DEF PoolInv, Blocks

\* After the link the lock is left, and only counters remain.
LEMMA FreeLeaveKeeps ==
    ASSUME PoolInv, NEW t \in Thread, FreeLeave(t)
    PROVE  PoolInv'
<1> DEFINE loc == [pc |-> "freed", pool |-> at[t].pool]
<1>1. at[t].pc = "leave" /\ at[t].pool \in Lock
      BY DEF FreeLeave, At, PoolInv, PoolTypeOK, Locals, Away
<1>2. loc \in Locals /\ loc.pc = "freed" BY <1>1 DEF Locals
<1>3. Go(t, loc) /\ UNCHANGED <<list, nLen, inUse, hasNext>> BY DEF FreeLeave
<1> HIDE DEF loc
<1>4. /\ at'[t] = loc /\ Hand(t)' = {} /\ Hand(t) = {}
      /\ \A u \in Thread \ {t} : at'[u] = at[u] /\ Hand(u)' = Hand(u)
      BY <1>1, <1>2, <1>3, OnlyOne DEF PoolInv, Hand
<1>5. /\ LockInv' /\ UNCHANGED want
      /\ \A p \in Lock, u \in Thread \ {t} : u \in writers[p] => u \in writers'[p]
      BY <1>1, LeaveWriteFacts DEF FreeLeave, PoolInv
<1>6. PoolTypeOK' BY <1>2, <1>3 DEF PoolInv, PoolTypeOK, Go
<1>7. \A u \in Thread \ {t} : Owns(u)' BY <1>3, <1>4, <1>5, OthersOwn
<1>8. Owns(t)' BY <1>2, <1>4 DEF Owns
<1>9. Blocks' BY <1>3, <1>4, NothingMoves DEF PoolInv
<1> QED BY <1>5, <1>6, <1>7, <1>8, <1>9 DEF PoolInv

\* On the way back FreeBuf has no block in hand.
LEMMA FreeReturnKeeps ==
    ASSUME PoolInv, NEW t \in Thread, FreeReturn(t)
    PROVE  PoolInv'
<1>1. at[t] \in [pc : {"gotten", "leave", "freed"}, pool : Lock] /\ at[t].pc = "freed"
      BY DEF FreeReturn, At, PoolInv, PoolTypeOK, Locals, Away
<1>2. /\ \E loc \in Locals : Go(t, loc) /\ loc.pc \in {"away", "freed"}
      /\ UNCHANGED lockVars \/ \E l \in Lock : LeaveRead(t, l)
  <2>1. CASE at[t].pool = 1 BY <2>1 DEF FreeReturn, Locals, Away
  <2>2. CASE at[t].pool # 1
    <3>1. at[t].pool - 1 \in Lock
      <4>1. PICK n \in Nat \ {0} : Lock = 1 .. n BY LockRange
      <4> QED BY <4>1, <1>1, <2>2
    <3>2. [at[t] EXCEPT !.pool = @ - 1] \in [pc : {"gotten", "leave", "freed"}, pool : Lock]
          /\ [at[t] EXCEPT !.pool = @ - 1].pc = "freed"
          BY <1>1, <3>1
    <3>3. [at[t] EXCEPT !.pool = @ - 1] \in Locals BY <3>2 DEF Locals
    <3> QED BY <2>2, <3>1, <3>2, <3>3 DEF FreeReturn
  <2> QED BY <2>1, <2>2
<1>3. PICK loc \in Locals : Go(t, loc) /\ loc.pc \in {"away", "freed"} BY <1>2
<1>4. /\ at'[t] = loc /\ Hand(t)' = {} /\ Hand(t) = {}
      /\ \A u \in Thread \ {t} : at'[u] = at[u] /\ Hand(u)' = Hand(u)
      BY <1>1, <1>3, OnlyOne DEF PoolInv, Hand
<1>5. UNCHANGED <<list, nLen, inUse, hasNext>> BY DEF FreeReturn
<1>6. LockInv' /\ UNCHANGED <<want, writers>>
      BY <1>2, LeaveReadKeeps, StepKeeps DEF PoolInv, LeaveRead, lockVars
<1>7. PoolTypeOK' BY <1>3, <1>5 DEF PoolInv, PoolTypeOK, Go
<1>8. \A u \in Thread \ {t} : Owns(u)' BY <1>4, <1>5, <1>6, OthersOwn
<1>9. Owns(t)' BY <1>3, <1>4 DEF Owns
<1>10. Blocks' BY <1>4, <1>5, NothingMoves DEF PoolInv
<1> QED BY <1>6, <1>7, <1>8, <1>9, <1>10 DEF PoolInv

\* Every step of the threads keeps the invariant.
LEMMA PoolStepKeeps == ASSUME PoolInv, [Next]_vars PROVE PoolInv'
<1>1. CASE UNCHANGED vars
  <2>1. UNCHANGED <<lockVars, list, nLen, inUse, hasNext, at>> BY <1>1 DEF vars, poolVars
  <2>2. LockInv' BY <2>1, StepKeeps DEF PoolInv
  <2>3. PoolTypeOK' BY <2>1 DEF PoolInv, PoolTypeOK
  <2>4. \A u \in Thread : Owns(u)' BY <2>1 DEF PoolInv, Owns, lockVars
  <2>5. Blocks' BY <2>1, NothingMoves DEF PoolInv, Hand
  <2> QED BY <2>2, <2>3, <2>4, <2>5 DEF PoolInv
<1>2. ASSUME NEW t \in Thread, Inside(t) PROVE PoolInv'
      BY <1>2, LoadStoreKeep, EnterLockKeeps, GetNextKeeps, GetFirstKeeps, UnlinkKeeps,
         GetNewKeeps, GetReturnKeeps, FreeNextKeeps, FreeLinkKeeps, FreeFirstKeeps,
         FreeLeaveKeeps, FreeReturnKeeps
      DEF Inside
<1> QED BY <1>1, <1>2, GetBufKeeps, FreeBufKeeps DEF Next

\* The invariant of the pools.
LEMMA PoolInvariant == Spec => []PoolInv
<1> QED BY InitPoolInv, PoolStepKeeps, PTL DEF Spec

\* A block of the pools is in the program, in one list once, or carried by one
\* FreeBuf: the write lock keeps the two steps of a change of a list together,
\* for any threads, pools and blocks, and whatever the counters are.
THEOREM PoolsKeepBlocks == Spec => []BlocksInOnePlace
<1>1. ASSUME PoolInv PROVE BlocksInOnePlace
  <2>1. \A b \in Carried : \E t \in Thread : b \in Hand(t) BY DEF Carried, Hand
  <2>2. \A t \in Thread : Hand(t) \subseteq Carried BY DEF Carried, Hand
  <2>3. inUse \cap Carried = {} BY <1>1, <2>1 DEF PoolInv, Blocks, HandsApart
  <2>4. ASSUME NEW p \in Lock
        PROVE  /\ \A i, j \in DOMAIN list[p] : i # j => list[p][i] # list[p][j]
               /\ ToSet(list[p]) \cap (inUse \cup Carried) = {}
               /\ \A b \in Allocated \ (inUse \cup Carried) :
                     nLen[b] = p => b \in ToSet(list[p])
    <3>1. OnceEach(list[p]) /\ ToSet(list[p]) \cap inUse = {}
          BY <1>1 DEF PoolInv, Blocks, ListsApart
    <3>2. ToSet(list[p]) \cap Carried = {} BY <1>1, <2>1 DEF PoolInv, Blocks, HandsApart
    <3>3. \A b \in Allocated \ (inUse \cup Carried) : b \in ToSet(list[nLen[b]])
          BY <1>1, <2>2 DEF PoolInv, Blocks, NoneLost, Allocated
    <3> QED BY <3>1, <3>2, <3>3 DEF OnceEach
  <2> QED BY <2>3, <2>4 DEF BlocksInOnePlace
<1> QED BY <1>1, PoolInvariant, PTL

\* The calls of a pool use the lock as it is meant to be used.
LEMMA PoolLocks ==
    ASSUME PoolInv, [Next]_vars
    PROVE  \/ \E t \in Thread, l \in Lock : Step(t, l)
           \/ UNCHANGED <<readers, writers>>
<1>1. ASSUME NEW t \in Thread, at[t].pc \in {"gotten", "leave", "freed"}
      PROVE  /\ at[t].pool \in Lock
             /\ at[t].pool # 1 => at[t].pool - 1 \in Lock
  <2>1. at[t].pool \in Lock BY <1>1 DEF PoolInv, PoolTypeOK, Locals, Away
  <2>2. PICK n \in Nat \ {0} : Lock = 1 .. n BY LockRange
  <2> QED BY <2>1, <2>2
<1>2. CASE UNCHANGED vars BY <1>2 DEF vars, lockVars
<1>3. ASSUME NEW t \in Thread, NEW size \in Lock, GetBuf(t, size)
      PROVE  UNCHANGED <<readers, writers>>
      BY <1>3 DEF GetBuf, Ask
<1>4. ASSUME NEW t \in Thread, NEW p, NEW b, NEW del, Arrive(t, p, b, del)
      PROVE  UNCHANGED <<readers, writers>>
      BY <1>4 DEF Arrive, Ask, lockVars
<1>5. ASSUME NEW t \in Thread, Inside(t)
      PROVE  \/ \E l \in Lock : Step(t, l)
             \/ UNCHANGED <<readers, writers>>
  <2>1. CASE Load(t) \/ Store(t) \/ GetFirst(t) \/ Unlink(t) \/ GetNew(t)
             \/ FreeLink(t) \/ FreeFirst(t)
        BY <2>1 DEF Load, Store, GetFirst, Unlink, GetNew, FreeLink, FreeFirst, lockVars
  <2>2. CASE EnterLock(t) BY <2>2 DEF EnterLock, Step
  <2>3. CASE GetNext(t) BY <2>3 DEF GetNext, Ask
  <2>4. CASE FreeNext(t) BY <2>4, <1>4 DEF FreeNext
  <2>5. CASE GetReturn(t) \/ FreeLeave(t)
        BY <2>5, <1>1 DEF GetReturn, FreeLeave, At, Step
  <2>6. CASE FreeReturn(t)
    <3>1. at[t].pc = "freed" BY <2>6 DEF FreeReturn, At
    <3> QED BY <2>6, <3>1, <1>1 DEF FreeReturn, Step, lockVars
  <2> QED BY <1>5, <2>1, <2>2, <2>3, <2>4, <2>5, <2>6 DEF Inside
<1>6. ASSUME NEW t \in Thread, NEW b \in Buffer, NEW del \in BOOLEAN, FreeBuf(t, b, del)
      PROVE  UNCHANGED <<readers, writers>>
      BY <1>6, <1>4 DEF FreeBuf
<1> QED BY <1>2, <1>3, <1>5, <1>6 DEF Next

\* In the runs of the pools, too, the flag and the count are a readers/writer lock.
THEOREM PoolLocksRefine == Spec => ImplementsReadersWriters
<1>1. Init => RW!RWInit BY DEF Init, LockInit, RW!RWInit
<1>2. ASSUME PoolInv, [Next]_vars PROVE [RW!RWNext]_(RW!rwVars)
  <2>1. CASE UNCHANGED <<readers, writers>> BY <2>1 DEF RW!rwVars
  <2>2. CASE \E t \in Thread, l \in Lock : Step(t, l)
        BY <1>2, <2>2, StepRefines DEF PoolInv, LockNext
  <2> QED BY <1>2, <2>1, <2>2, PoolLocks
<1> QED BY <1>1, <1>2, PoolInvariant, PTL DEF Spec, ImplementsReadersWriters, RW!RWSpec

-----------------------------------------------------------------------------
(* The counters. What a counter lacks of what it counts is what the threads *)
(* have yet to add and to take away.                                        *)

\* The two counters of a pool.
Counter == {"in", "out"}

\* A change of a counter that a call has yet to make, as GetBuf and FreeBuf list it.
Work == [c : Counter, p : Lock, d : {1, -1}, loaded : BOOLEAN, value : 0 .. ULong - 1]

\* t has yet to change counter c of pool p by d.
Lists(s, c, d, p) == \E i \in 1 .. Len(s) : s[i].c = c /\ s[i].d = d /\ s[i].p = p

\* t owes it in a list, or will when it leaves the lock in FreeBuf.
Owing(t, c, d, p) ==
    \/ Lists(todo[t], c, d, p)
    \/ /\ at[t].pc = "leave" /\ at[t].pool = p
       /\ (c = "out" /\ d = -1) \/ (c = "in" /\ d = 1)

\* The threads that owe it.
Owers(c, d, p) == {t \in Thread : Owing(t, c, d, p)}

\* A block that is not free: the program has it or a FreeBuf carries it.
Taken(b) == b \in inUse \/ \E t \in Thread : b \in Hand(t)

\* The blocks of pool p.
Of(p) == {b \in Buffer : nLen[b] = p}

\* The blocks that a counter of p counts: those not free, those in the list.
Counted(c, p) == IF c = "out" THEN {b \in Of(p) : Taken(b)} ELSE ToSet(list[p])

\* What a counter shows while some changes are still to come.
Due(c, p) == Cardinality(Counted(c, p)) - Cardinality(Owers(c, 1, p))
                                        + Cardinality(Owers(c, -1, p))

\* A counter may be one below zero, when a block is freed before it was counted.
CountsDue == \A c \in Counter, p \in Lock : count[c][p] \in {Due(c, p), Due(c, p) + ULong}

\* The limit holds for all blocks of the pool, free ones included.
LimitKept == m_nMaxSize # 0 => \A p \in Lock : Cardinality(Of(p)) <= m_nMaxSize

\* The types of the counters.
CountTypes ==
    /\ count \in [Counter -> [Lock -> 0 .. ULong - 1]]
    /\ todo \in [Thread -> Seq(Work)]
    /\ raced \in BOOLEAN

\* Counters are changed at the end of a call; a block is counted out of a list
\* or of malloc by a thread that has the lock.
WorkOK(t) ==
    /\ Len(todo[t]) <= 2
    /\ todo[t] # <<>> => at[t].pc \in {"gotten", "freed"}
    /\ Len(todo[t]) = 2 => todo[t][1].c # todo[t][2].c
    /\ \A i \in 1 .. Len(todo[t]) :
          todo[t][i].c = "out" /\ todo[t][i].d = 1 => t \in writers[todo[t][i].p]

\* What the proof about the counters carries from step to step.
CountInv == /\ CountTypes /\ (\A t \in Thread : WorkOK(t))
            /\ ~raced => CountsDue /\ LimitKept

\* The sets that are counted are finite and leave room in an unsigned long.
LEMMA CountedFinite ==
    ASSUME PoolTypeOK, NEW c \in Counter, NEW p \in Lock
    PROVE  /\ IsFiniteSet(Of(p)) /\ Cardinality(Of(p)) \in Nat
           /\ IsFiniteSet(Counted(c, p)) /\ Cardinality(Counted(c, p)) \in Nat
           /\ Counted(c, p) \in SUBSET Buffer
<1>1. IsFiniteSet(Buffer) BY RoomAssumption
<1>2. Of(p) \in SUBSET Buffer BY DEF Of
<1>3. Counted(c, p) \in SUBSET Buffer
  <2>1. CASE c = "out" BY <2>1 DEF Counted, Of
  <2>2. CASE c # "out" BY <2>2 DEF Counted, ToSet, PoolTypeOK
  <2> QED BY <2>1, <2>2
<1> QED BY <1>1, <1>2, <1>3, FS_Subset, FS_CardinalityType

\* Those who owe a change are no more than the threads.
LEMMA OwersFinite ==
    ASSUME NEW c, NEW d, NEW p
    PROVE  /\ IsFiniteSet(Owers(c, d, p)) /\ Cardinality(Owers(c, d, p)) \in Nat
           /\ Cardinality(Owers(c, d, p)) <= Cardinality(Thread)
<1>1. Owers(c, d, p) \in SUBSET Thread BY DEF Owers
<1> QED BY <1>1, LockAssumption, FS_Subset, FS_CardinalityType

\* Sums that the program can reach fit.
LEMMA SumsFit ==
    ASSUME NEW A \in SUBSET Buffer, NEW P \in SUBSET Thread, NEW M \in SUBSET Thread
    PROVE  LET e == Cardinality(A) - Cardinality(P) + Cardinality(M)
           IN  e \in Int /\ -ULong < e /\ e < ULong
<1>1. IsFiniteSet(Buffer) /\ IsFiniteSet(Thread) BY RoomAssumption, LockAssumption
<1>2. /\ Cardinality(Buffer) \in Nat /\ Cardinality(Thread) \in Nat /\ ULong \in Nat
      /\ Cardinality(Buffer) + Cardinality(Thread) < ULong
      BY <1>1, RoomAssumption, PoolAssumption, FS_CardinalityType
<1>3. Cardinality(A) \in Nat /\ Cardinality(A) <= Cardinality(Buffer)
      BY <1>1, FS_Subset, FS_CardinalityType
<1>4. Cardinality(P) \in Nat /\ Cardinality(P) <= Cardinality(Thread)
      BY <1>1, FS_Subset, FS_CardinalityType
<1>5. Cardinality(M) \in Nat /\ Cardinality(M) <= Cardinality(Thread)
      BY <1>1, FS_Subset, FS_CardinalityType
<1> QED BY <1>2, <1>3, <1>4, <1>5

\* One thread more that owes a change, or one less.
LEMMA OneMoreOwes ==
    ASSUME NEW c, NEW d, NEW p, NEW t \in Thread,
           \A u \in Thread \ {t} : Owing(u, c, d, p)' <=> Owing(u, c, d, p),
           ~Owing(t, c, d, p), Owing(t, c, d, p)'
    PROVE  Cardinality(Owers(c, d, p))' = Cardinality(Owers(c, d, p)) + 1
<1>1. Owers(c, d, p)' = Owers(c, d, p) \cup {t} /\ t \notin Owers(c, d, p) BY DEF Owers
<1> QED BY <1>1, OwersFinite, FS_AddElement

\* A thread made the change it owed.
LEMMA OneLessOwes ==
    ASSUME NEW c, NEW d, NEW p, NEW t \in Thread,
           \A u \in Thread \ {t} : Owing(u, c, d, p)' <=> Owing(u, c, d, p),
           Owing(t, c, d, p), ~Owing(t, c, d, p)'
    PROVE  Cardinality(Owers(c, d, p))' = Cardinality(Owers(c, d, p)) - 1
<1>1. Owers(c, d, p)' = Owers(c, d, p) \ {t} /\ t \in Owers(c, d, p) BY DEF Owers
<1> QED BY <1>1, OwersFinite, FS_RemoveElement

\* Nobody takes on a change or makes one.
LEMMA SameOwe ==
    ASSUME NEW c, NEW d, NEW p,
           \A u \in Thread : Owing(u, c, d, p)' <=> Owing(u, c, d, p)
    PROVE  Owers(c, d, p)' = Owers(c, d, p)
BY DEF Owers

\* A store that undoes nothing moves the counter by what was owed.
LEMMA CountWraps ==
    ASSUME NEW v \in 0 .. ULong - 1, NEW d \in {1, -1}, NEW e \in Int,
           v \in {e, e + ULong}, -ULong < e + d, e + d < ULong
    PROVE  /\ (v + d) % ULong \in 0 .. ULong - 1
           /\ (v + d) % ULong \in {e + d, e + d + ULong}
<1>1. ULong \in Nat /\ ULong > 0 BY PoolAssumption
<1>2. (v + d) % ULong \in 0 .. ULong - 1 BY <1>1
<1>3. CASE v + d \in 0 .. ULong - 1
  <2>1. (v + d) % ULong = v + d BY <1>1, <1>3
  <2>2. v + d \in {e + d, e + d + ULong} BY <1>1
  <2> QED BY <1>3, <2>1, <2>2
<1>4. CASE v + d = -1
  <2>1. (v + d) % ULong = ULong - 1 BY <1>1, <1>4
  <2> QED BY <1>1, <1>2, <1>4, <2>1
<1>5. CASE v + d = ULong
  <2>1. (v + d) % ULong = 0 BY <1>1, <1>5
  <2> QED BY <1>1, <1>2, <1>5, <2>1
<1> QED BY <1>1, <1>3, <1>4, <1>5

\* What the other threads owe, and know of their locks, is their own.
LEMMA OthersOwe ==
    ASSUME NEW u \in Thread, WorkOK(u), todo'[u] = todo[u], at'[u] = at[u],
           \A p \in Lock : u \in writers[p] => u \in writers'[p],
           CountTypes
    PROVE  WorkOK(u)' /\ \A c, d, p : Owing(u, c, d, p)' <=> Owing(u, c, d, p)
<1>1. \A i \in 1 .. Len(todo[u]) : todo[u][i] \in Work
      BY DEF CountTypes
<1>2. \A i \in 1 .. Len(todo[u]) : todo[u][i].p \in Lock BY <1>1 DEF Work
<1>3. WorkOK(u)' BY <1>2 DEF WorkOK
<1> QED BY <1>3 DEF Owing, Lists


\* A step of t leaves the others where they are, with what they have of the locks.
Others(t) ==
    \A u \in Thread \ {t} :
       /\ at'[u] = at[u] /\ todo'[u] = todo[u]
       /\ \A p \in Lock : u \in writers[p] => u \in writers'[p]

\* What the other threads owe is kept by a step of t.
LEMMA OthersKeep ==
    ASSUME CountInv, NEW t \in Thread, Others(t)
    PROVE  /\ \A u \in Thread \ {t} : WorkOK(u)'
           /\ \A u \in Thread \ {t} : \A c, d, p : Owing(u, c, d, p)' <=> Owing(u, c, d, p)
<1> SUFFICES ASSUME NEW u \in Thread \ {t}
             PROVE  WorkOK(u)' /\ \A c, d, p : Owing(u, c, d, p)' <=> Owing(u, c, d, p)
    OBVIOUS
<1> QED BY OthersOwe DEF CountInv, Others

\* FreeBuf at a pool touches no other thread.
LEMMA ArriveOthers ==
    ASSUME PoolInv, CountTypes, NEW t \in Thread, NEW p \in Lock, NEW b, NEW del,
           Arrive(t, p, b, del)
    PROVE  Others(t)
<1>1. /\ \E loc : Go(t, loc)
      /\ UNCHANGED writers
      /\ UNCHANGED todo \/ \E s : todo' = [todo EXCEPT ![t] = s]
      BY DEF Arrive, Ask, Change, lockVars
<1> QED BY <1>1 DEF Go, Others, PoolInv, PoolTypeOK, CountTypes

\* Each action is a step of one thread.
LEMMA StepOfOne ==
    ASSUME PoolInv, CountTypes, NEW t \in Thread,
           \/ \E size \in Lock : GetBuf(t, size)
           \/ \E b \in Buffer, del \in BOOLEAN : FreeBuf(t, b, del)
           \/ Inside(t)
    PROVE  Others(t)
<1>1. ASSUME UNCHANGED at \/ \E loc : Go(t, loc),
             UNCHANGED todo \/ \E s : todo' = [todo EXCEPT ![t] = s],
             \A p \in Lock, u \in Thread \ {t} : u \in writers[p] => u \in writers'[p]
      PROVE  Others(t)
      BY <1>1 DEF Go, Others, PoolInv, PoolTypeOK, CountTypes
<1>2. CASE Load(t) \/ Store(t)
  <2>1. UNCHANGED at /\ UNCHANGED writers BY <1>2 DEF Load, Store, lockVars
  <2>2. CASE Load(t)
    <3>1. \A u \in Thread \ {t} : todo'[u] = todo[u] BY <2>2 DEF Load, CountTypes
    <3> QED BY <2>1, <3>1 DEF Others
  <2>3. CASE Store(t)
    <3>1. \A u \in Thread \ {t} : todo'[u] = todo[u] BY <2>3 DEF Store, CountTypes
    <3> QED BY <2>1, <3>1 DEF Others
  <2> QED BY <1>2, <2>2, <2>3
<1>3. CASE EnterLock(t)
  <2>1. UNCHANGED <<at, todo>> BY <1>3 DEF EnterLock, poolVars
  <2>2. \A p \in Lock : writers[p] \subseteq writers'[p]
        BY <1>3 DEF EnterLock, EnterRead, TakeWriteFlag, EnterWrite, PoolInv, LockInv, LockTypeOK
  <2> QED BY <1>1, <2>1, <2>2
<1>4. CASE \E size \in Lock : GetBuf(t, size)
      BY <1>1, <1>4 DEF GetBuf, Ask
<1>5. CASE \/ GetNext(t) \/ GetFirst(t) \/ Unlink(t) \/ GetNew(t) \/ FreeLink(t)
           \/ FreeFirst(t)
      BY <1>1, <1>5
      DEF GetNext, GetFirst, Unlink, GetNew, FreeLink, FreeFirst, Ask, Change, lockVars
<1>6. CASE GetReturn(t) \/ FreeLeave(t)
  <2>1. at[t] \in Locals /\ at[t].pc \in {"gotten", "leave"}
        BY <1>6 DEF GetReturn, FreeLeave, At, PoolInv, PoolTypeOK
  <2>2. at[t].pool \in Lock BY <2>1 DEF Locals, Away
  <2>3. \A p \in Lock, u \in Thread \ {t} : u \in writers[p] => u \in writers'[p]
        BY <1>6, <2>2, LeaveWriteFacts DEF PoolInv, GetReturn, FreeLeave
  <2> QED BY <1>1, <1>6, <2>3 DEF GetReturn, FreeLeave, Change
<1>7. CASE FreeReturn(t)
  <2>1. UNCHANGED writers BY <1>7 DEF FreeReturn, LeaveRead, lockVars
  <2> QED BY <1>1, <1>7, <2>1 DEF FreeReturn
<1>8. CASE FreeNext(t)
  <2>1. at[t].pc = "pass" /\ at[t].pool \in hasNext BY <1>8 DEF FreeNext, At
  <2>2. at[t].pool + 1 \in Lock BY <2>1 DEF PoolInv, PoolTypeOK
  <2> QED BY <1>8, <2>2, ArriveOthers DEF FreeNext, Behind
<1>9. CASE \E b \in Buffer, del \in BOOLEAN : FreeBuf(t, b, del)
      BY <1>9, LockRange, ArriveOthers DEF FreeBuf
<1> QED BY <1>2, <1>3, <1>4, <1>5, <1>6, <1>7, <1>8, <1>9 DEF Inside

\* Nothing is counted and nobody owes.
LEMMA InitCountInv == ASSUME Init PROVE CountInv
<1>1. ULong \in Nat /\ ULong > 0 BY PoolAssumption
<1>2. CountTypes
  <2>1. <<>> \in Seq(Work) /\ 0 \in 0 .. ULong - 1 BY <1>1
  <2> QED BY <2>1 DEF Init, CountTypes, Counter
<1>3. \A t \in Thread : todo[t] = <<>> /\ Len(todo[t]) = 0 /\ at[t].pc = "away"
      BY DEF Init, Away
<1>4. \A t \in Thread : WorkOK(t) BY <1>3 DEF WorkOK
<1>5. \A c, d, p : Owers(c, d, p) = {} BY <1>3 DEF Owers, Owing, Lists
<1>6. \A p \in Lock : Of(p) = {}
  <2>1. 0 \notin Lock BY LockRange
  <2> QED BY <2>1 DEF Init, Of
<1>7. \A c \in Counter, p \in Lock : Counted(c, p) = {}
      BY <1>6 DEF Counted, Init, ToSet
<1>8. Cardinality({}) = 0 BY FS_EmptySet
<1>9. CountsDue
  <2> SUFFICES ASSUME NEW c \in Counter, NEW p \in Lock
               PROVE  count[c][p] \in {Due(c, p), Due(c, p) + ULong}
      BY DEF CountsDue
  <2>0. Counted(c, p) = {} /\ Owers(c, 1, p) = {} /\ Owers(c, -1, p) = {} BY <1>5, <1>7
  <2>1. Due(c, p) = 0 BY <2>0, <1>8 DEF Due
  <2>2. count[c][p] = 0 BY DEF Init, Counter
  <2> QED BY <2>1, <2>2
<1>10. LimitKept
  <2>1. m_nMaxSize \in Nat BY PoolAssumption
  <2> SUFFICES ASSUME NEW p \in Lock PROVE Cardinality(Of(p)) <= m_nMaxSize BY DEF LimitKept
  <2>2. Of(p) = {} BY <1>6
  <2> QED BY <2>1, <2>2, <1>8
<1> QED BY <1>2, <1>4, <1>9, <1>10 DEF CountInv

\* A step that changes neither what is counted nor what is owed.
LEMMA QuietCounts ==
    ASSUME CountInv, UNCHANGED <<count, nLen, list, raced>>,
           \A u \in Thread : \A c, d, p : Owing(u, c, d, p)' <=> Owing(u, c, d, p),
           \A b \in Buffer : Taken(b)' <=> Taken(b)
    PROVE  ~raced' => CountsDue' /\ LimitKept'
<1>1. \A p : Of(p)' = Of(p) BY DEF Of
<1>2. \A c, p : Counted(c, p)' = Counted(c, p) BY <1>1 DEF Counted, Of
<1>3. \A c, d, p : Owers(c, d, p)' = Owers(c, d, p) BY DEF Owers
<1>4. \A c, p : Due(c, p)' = Due(c, p) BY <1>2, <1>3 DEF Due
<1> QED BY <1>1, <1>4 DEF CountInv, CountsDue, LimitKept

\* A step that counts nothing and moves no block keeps the counters explained.
LEMMA QuietStep ==
    ASSUME CountInv, NEW t \in Thread, Others(t),
           UNCHANGED <<count, nLen, list, raced>>,
           todo'[t] = <<>>, todo[t] = <<>>, at[t].pc # "leave", at'[t].pc # "leave",
           \A b \in Buffer : Taken(b)' <=> Taken(b),
           UNCHANGED todo
    PROVE  CountInv'
<1>1. WorkOK(t)' BY DEF WorkOK
<1>2. \A c, d, p : Owing(t, c, d, p)' <=> Owing(t, c, d, p) BY DEF Owing
<1>3. \A u \in Thread : \A c, d, p : Owing(u, c, d, p)' <=> Owing(u, c, d, p)
      BY <1>2, OthersKeep
<1>4. ~raced' => CountsDue' /\ LimitKept' BY <1>3, QuietCounts
<1>5. CountTypes' BY DEF CountInv, CountTypes
<1> QED BY <1>1, <1>4, <1>5, OthersKeep DEF CountInv

\* Who waits for a lock changes no counter.
LEMMA EnterLockCounts ==
    ASSUME PoolInv, CountInv, NEW t \in Thread, EnterLock(t), Others(t)
    PROVE  CountInv'
<1>1. UNCHANGED <<count, nLen, list, raced, todo, at, inUse>> BY DEF EnterLock, poolVars
<1>2. \A p \in Lock : writers[p] \subseteq writers'[p]
      BY DEF EnterLock, EnterRead, TakeWriteFlag, EnterWrite, PoolInv, LockInv, LockTypeOK
<1>3. \A u \in Thread : WorkOK(u)' /\ \A c, d, p : Owing(u, c, d, p)' <=> Owing(u, c, d, p)
      BY <1>1, <1>2, OthersOwe DEF CountInv
<1>4. \A b \in Buffer : Taken(b)' <=> Taken(b) BY <1>1 DEF Taken, Hand
<1>5. ~raced' => CountsDue' /\ LimitKept' BY <1>1, <1>3, <1>4, QuietCounts
<1>6. CountTypes' BY <1>1 DEF CountInv, CountTypes
<1> QED BY <1>3, <1>5, <1>6 DEF CountInv


\* The steps that change no counter, no list and no owner of a block.
LEMMA QuietSteps ==
    ASSUME PoolInv, CountInv, NEW t \in Thread, Others(t),
           \/ \E size \in Lock : GetBuf(t, size)
           \/ GetNext(t) \/ GetFirst(t) \/ GetReturn(t) \/ FreeLink(t) \/ FreeReturn(t)
    PROVE  CountInv'
<1>1. UNCHANGED <<count, nLen, list, raced, todo, inUse>>
      BY DEF GetBuf, GetNext, GetFirst, GetReturn, FreeLink, FreeReturn
<1>2. todo[t] = <<>>
  <2>1. CASE at[t] = Away BY <2>1 DEF CountInv, WorkOK, Away
  <2>2. CASE at[t] # Away BY <2>2 DEF GetBuf, GetNext, GetFirst, GetReturn, FreeLink, FreeReturn, At
  <2> QED BY <2>1, <2>2
<1>3. at[t] \in Locals BY DEF PoolInv, PoolTypeOK
<1>4. /\ at[t].pc # "leave" /\ at'[t].pc # "leave" /\ Hand(t)' = Hand(t)
  <2>1. CASE \E size \in Lock : GetBuf(t, size)
    <3>1. at[t].pc = "away" /\ at'[t].pc = "get"
          BY <2>1 DEF GetBuf, Go, Away, PoolInv, PoolTypeOK
    <3> QED BY <3>1 DEF Hand
  <2>2. CASE GetNext(t)
    <3>1. at[t] \in [pc : {"get"}, pool : Lock, size : Lock]
          BY <2>2, <1>3 DEF GetNext, At, Locals, Away
    <3>2. at[t].pc = "get" /\ at'[t].pc = "get"
          BY <2>2, <3>1 DEF GetNext, Go, PoolInv, PoolTypeOK
    <3> QED BY <3>2 DEF Hand
  <2>3. CASE GetFirst(t)
    <3>1. at[t].pc = "get" /\ at'[t].pc = "unlink"
          BY <2>3 DEF GetFirst, At, Go, PoolInv, PoolTypeOK
    <3> QED BY <3>1 DEF Hand
  <2>4. CASE GetReturn(t)
    <3>1. at[t] \in [pc : {"gotten"}, pool : Lock]
          BY <2>4, <1>3 DEF GetReturn, At, Locals, Away
    <3>2. at[t].pc = "gotten" /\ at'[t].pc \in {"away", "gotten"}
          BY <2>4, <3>1 DEF GetReturn, Go, Away, PoolInv, PoolTypeOK
    <3> QED BY <3>2 DEF Hand
  <2>5. CASE FreeLink(t)
    <3>1. at[t].pc = "link" /\ at'[t].pc = "first" /\ at'[t].buf = at[t].buf
          BY <2>5 DEF FreeLink, At, Go, PoolInv, PoolTypeOK
    <3> QED BY <3>1 DEF Hand
  <2>6. CASE FreeReturn(t)
    <3>1. at[t] \in [pc : {"freed"}, pool : Lock]
          BY <2>6, <1>3 DEF FreeReturn, At, Locals, Away
    <3>2. at[t].pc = "freed" /\ at'[t].pc \in {"away", "freed"}
          BY <2>6, <3>1 DEF FreeReturn, Go, Away, PoolInv, PoolTypeOK
    <3> QED BY <3>2 DEF Hand
  <2> QED BY <2>1, <2>2, <2>3, <2>4, <2>5, <2>6
<1>5. \A u \in Thread : Hand(u)' = Hand(u) BY <1>4 DEF Others, Hand
<1>6. \A b \in Buffer : Taken(b)' <=> Taken(b) BY <1>1, <1>5 DEF Taken
<1> QED BY <1>1, <1>2, <1>4, <1>6, QuietStep

\* A load notes a value.
LEMMA LoadCounts ==
    ASSUME PoolInv, CountInv, NEW t \in Thread, Load(t), Others(t)
    PROVE  CountInv'
<1>1. UNCHANGED <<lockVars, count, nLen, list, raced, at, inUse>> BY DEF Load
<1>2. todo \in [Thread -> Seq(Work)] /\ todo[t] \in Seq(Work) /\ todo[t] # <<>>
      BY DEF CountInv, CountTypes, Load
<1> DEFINE s == todo[t]
           w == s[1]
           v == [w EXCEPT !.loaded = TRUE, !.value = count[w.c][w.p]]
<1>3. Len(s) \in Nat /\ Len(s) > 0 /\ Head(s) = w /\ w \in Work BY <1>2
<1>4. v \in Work /\ v.c = w.c /\ v.d = w.d /\ v.p = w.p
      BY <1>3 DEF Work, CountInv, CountTypes
<1>5. todo' = [todo EXCEPT ![t] = [s EXCEPT ![1] = v]]
      BY <1>2, <1>3 DEF Load
<1> HIDE DEF v
<1>6. /\ [s EXCEPT ![1] = v] \in Seq(Work) /\ Len([s EXCEPT ![1] = v]) = Len(s)
      /\ \A i \in 1 .. Len(s) : [s EXCEPT ![1] = v][i] = IF i = 1 THEN v ELSE s[i]
      BY <1>2, <1>3, <1>4
<1>7. /\ todo' \in [Thread -> Seq(Work)] /\ Len(todo'[t]) = Len(s)
      /\ \A i \in 1 .. Len(s) : todo'[t][i] = IF i = 1 THEN v ELSE s[i]
      BY <1>2, <1>5, <1>6
<1>8. \A i \in 1 .. Len(s) : /\ todo'[t][i].c = s[i].c /\ todo'[t][i].d = s[i].d
                             /\ todo'[t][i].p = s[i].p
      BY <1>4, <1>7
<1>9. ASSUME NEW c, NEW d, NEW p PROVE Owing(t, c, d, p)' <=> Owing(t, c, d, p)
  <2>1. /\ \E i \in 1 .. Len(s) : s[i].c = c /\ s[i].d = d /\ s[i].p = p
        <=> \E i \in 1 .. Len(todo'[t]) :
               todo'[t][i].c = c /\ todo'[t][i].d = d /\ todo'[t][i].p = p
        BY <1>7, <1>8
  <2> QED BY <1>1, <2>1 DEF Owing, Lists
<1>10. WorkOK(t)'
  <2>1. WorkOK(t) /\ at'[t] = at[t] /\ writers' = writers
        BY <1>1 DEF CountInv, lockVars
  <2>2. Len(s) = 2 => 1 \in 1 .. Len(s) /\ 2 \in 1 .. Len(s) BY <1>3
  <2> QED BY <2>1, <2>2, <1>2, <1>7, <1>8 DEF WorkOK
<1>11. \A u \in Thread : \A c, d, p : Owing(u, c, d, p)' <=> Owing(u, c, d, p)
       BY <1>9, OthersKeep
<1>12. \A b \in Buffer : Taken(b)' <=> Taken(b) BY <1>1 DEF Taken, Hand
<1>13. ~raced' => CountsDue' /\ LimitKept' BY <1>1, <1>11, <1>12, QuietCounts
<1>14. CountTypes' BY <1>1, <1>7 DEF CountInv, CountTypes
<1> QED BY <1>10, <1>13, <1>14, OthersKeep DEF CountInv

\* A store that undoes no other moves its counter by what its thread owed.
LEMMA StoreCounts ==
    ASSUME PoolInv, CountInv, NEW t \in Thread, Store(t), Others(t)
    PROVE  CountInv'
<1>1. UNCHANGED <<lockVars, nLen, list, at, inUse>> BY DEF Store
<1>2. todo \in [Thread -> Seq(Work)] /\ todo[t] \in Seq(Work) /\ todo[t] # <<>>
      BY DEF CountInv, CountTypes, Store
<1> DEFINE s == todo[t]
           r == Tail(s)
<1>3. PICK w \in Work : w = s[1] /\ w = Head(s)
  <2>1. s[1] \in Work /\ s[1] = Head(s) BY <1>2
  <2> QED BY <2>1
<1>4. w.c \in Counter /\ w.p \in Lock /\ w.d \in {1, -1} /\ w.value \in 0 .. ULong - 1
      BY DEF Work
<1>5. /\ Len(s) \in {1, 2} /\ 1 .. Len(s) \in {{1}, {1, 2}} /\ (Len(s) = 2 => 2 \in 1 .. Len(s))
      /\ r \in Seq(Work) /\ Len(r) = Len(s) - 1
      /\ \A i \in 1 .. Len(r) : i = 1 /\ r[i] = s[2] /\ Len(s) = 2
      /\ Len(s) = 2 => 1 \in 1 .. Len(r) /\ r[1] = s[2]
  <2>1. Len(s) \in Nat /\ Len(s) # 0 /\ Len(s) <= 2 BY <1>2 DEF CountInv, WorkOK
  <2>0. Len(s) = 1 \/ Len(s) = 2
    <3>1. \A k \in Nat : k # 0 /\ k <= 2 => k = 1 \/ k = 2 OBVIOUS
    <3> QED BY <2>1, <3>1
  <2>2. Len(s) \in {1, 2} /\ 1 .. Len(s) \in {{1}, {1, 2}}
    <3>1. 1 .. 1 = {1} /\ 1 .. 2 = {1, 2} OBVIOUS
    <3> QED BY <2>0, <3>1
  <2>3. r \in Seq(Work) /\ Len(r) = Len(s) - 1 /\ \A i \in 1 .. Len(r) : r[i] = s[i + 1]
        BY <1>2
  <2>4. ASSUME NEW i \in 1 .. Len(r) PROVE i = 1 /\ r[i] = s[2] /\ Len(s) = 2
    <3>1. i = 1 /\ Len(s) = 2 BY <2>2, <2>3
    <3> QED BY <3>1, <2>3
  <2>5. Len(s) = 2 => 1 \in 1 .. Len(r)
    <3>1. Len(s) = 2 => Len(r) = 1 BY <2>3
    <3>2. 1 \in 1 .. 1 OBVIOUS
    <3> HIDE DEF r, s
    <3> QED BY <3>1, <3>2
  <2> HIDE DEF r
  <2> QED BY <2>2, <2>3, <2>4, <2>5
<1>6. todo'[t] = r /\ todo' \in [Thread -> Seq(Work)]
      BY <1>2, <1>5 DEF Store
<1>7. WorkOK(t) /\ at[t].pc # "leave" /\ at'[t] = at[t] BY <1>1, <1>2 DEF CountInv, WorkOK
<1> HIDE DEF r
<1>8. WorkOK(t)'
  <2>1. Len(r) = 0 \/ Len(r) = 1 BY <1>5
  <2>2. todo'[t] # <<>> => at'[t].pc \in {"gotten", "freed"} BY <1>2, <1>7 DEF WorkOK
  <2>3. ASSUME NEW i \in 1 .. Len(r), r[i].c = "out", r[i].d = 1 PROVE t \in writers[r[i].p]
    <3>1. r[i] = s[2] /\ 2 \in 1 .. Len(s) BY <1>5
    <3> QED BY <3>1, <2>3, <1>7 DEF WorkOK
  <2> QED BY <1>1, <1>6, <2>1, <2>2, <2>3 DEF WorkOK, lockVars
<1>9. ASSUME NEW c, NEW d, NEW p
      PROVE  /\ Owing(t, c, d, p) <=> \/ w.c = c /\ w.d = d /\ w.p = p
                                      \/ Len(s) = 2 /\ s[2].c = c /\ s[2].d = d /\ s[2].p = p
             /\ Owing(t, c, d, p)' <=> Len(s) = 2 /\ s[2].c = c /\ s[2].d = d /\ s[2].p = p
  <2>3. Owing(t, c, d, p) <=> \/ w.c = c /\ w.d = d /\ w.p = p
                              \/ Len(s) = 2 /\ s[2].c = c /\ s[2].d = d /\ s[2].p = p
    <3>1. CASE Len(s) = 1 BY <3>1, <1>3, <1>5, <1>7 DEF Owing, Lists
    <3>2. CASE Len(s) = 2
      <4>1. 1 .. Len(s) = {1, 2} BY <3>2
      <4> QED BY <4>1, <3>2, <1>3, <1>7 DEF Owing, Lists
    <3> QED BY <3>1, <3>2, <1>5
  <2>4. Owing(t, c, d, p)' <=> Len(s) = 2 /\ s[2].c = c /\ s[2].d = d /\ s[2].p = p
        BY <1>5, <1>6, <1>7 DEF Owing, Lists
  <2> QED BY <2>3, <2>4
<1>10. Len(s) = 2 => w.c # s[2].c BY <1>3, <1>7 DEF WorkOK
<1>11. \A c \in Counter, p \in Lock : Counted(c, p)' = Counted(c, p)
       BY <1>1 DEF Counted, Of, Taken, Hand
<1>12. \A u \in Thread \ {t} : \A c, d, p : Owing(u, c, d, p)' <=> Owing(u, c, d, p)
       BY OthersKeep
<1>13. ASSUME NEW c \in Counter, NEW p \in Lock, c # w.c \/ p # w.p
       PROVE  Due(c, p)' = Due(c, p)
  <2>1. ASSUME NEW d PROVE Owers(c, d, p)' = Owers(c, d, p)
    <3>1. Owing(t, c, d, p)' <=> Owing(t, c, d, p) BY <1>9, <1>13
    <3> QED BY <3>1, <1>12, SameOwe
  <2> QED BY <2>1, <1>11 DEF Due
<1>14. Due(w.c, w.p)' = Due(w.c, w.p) + w.d
  <2>0. PICK d \in {1, -1} : d # w.d /\ {d, w.d} = {1, -1}
    <3>1. w.d = 1 \/ w.d = -1 BY <1>4
    <3> QED BY <3>1
  <2>1. /\ Owing(t, w.c, w.d, w.p) /\ ~Owing(t, w.c, w.d, w.p)'
        /\ ~Owing(t, w.c, d, w.p) /\ ~Owing(t, w.c, d, w.p)'
        BY <2>0, <1>9, <1>10
  <2>2. Cardinality(Owers(w.c, w.d, w.p))' = Cardinality(Owers(w.c, w.d, w.p)) - 1
        BY <2>1, <1>12, OneLessOwes
  <2>3. Owers(w.c, d, w.p)' = Owers(w.c, d, w.p)
    <3>1. \A u \in Thread : Owing(u, w.c, d, w.p)' <=> Owing(u, w.c, d, w.p)
          BY <2>1, <1>12
    <3> QED BY <3>1, SameOwe
  <2>4. /\ Cardinality(Counted(w.c, w.p)) \in Nat /\ Cardinality(Owers(w.c, 1, w.p)) \in Nat
        /\ Cardinality(Owers(w.c, -1, w.p)) \in Nat
        BY <1>4, CountedFinite, OwersFinite DEF PoolInv
  <2>5. Counted(w.c, w.p)' = Counted(w.c, w.p) BY <1>4, <1>11
  <2>6. CASE w.d = 1 /\ d = -1 BY <2>2, <2>3, <2>4, <2>5, <2>6 DEF Due
  <2>7. CASE w.d = -1 /\ d = 1 BY <2>2, <2>3, <2>4, <2>5, <2>7 DEF Due
  <2> QED BY <1>4, <2>0, <2>6, <2>7
<1>15. count' = [count EXCEPT ![w.c][w.p] = (w.value + w.d) % ULong] BY <1>3 DEF Store
<1>16. (w.value + w.d) % ULong \in 0 .. ULong - 1
  <2>1. ULong \in Nat /\ ULong > 0 /\ w.value + w.d \in Int BY <1>4, PoolAssumption
  <2> QED BY <2>1
<1>17. CountTypes'
  <2>1. count' \in [Counter -> [Lock -> 0 .. ULong - 1]]
        BY <1>4, <1>15, <1>16 DEF CountInv, CountTypes
  <2>2. raced' \in BOOLEAN BY DEF Store, CountInv, CountTypes
  <2> QED BY <1>6, <2>1, <2>2 DEF CountTypes
<1>18. ASSUME ~raced' PROVE CountsDue' /\ LimitKept'
  <2>1. ~raced /\ count[w.c][w.p] = w.value BY <1>3, <1>18 DEF Store
  <2>2. LimitKept' BY <1>1, <2>1 DEF CountInv, LimitKept, Of
  <2> SUFFICES ASSUME NEW c \in Counter, NEW p \in Lock
               PROVE  count'[c][p] \in {Due(c, p)', Due(c, p)' + ULong}
      BY <2>2 DEF CountsDue
  <2>3. CASE c = w.c /\ p = w.p
    <3>1. count'[c][p] = (w.value + w.d) % ULong
          BY <1>4, <1>15, <2>3 DEF CountInv, CountTypes
    <3>2. w.value \in {Due(c, p), Due(c, p) + ULong}
          BY <1>4, <2>1, <2>3 DEF CountInv, CountsDue
    <3>3. Due(c, p)' = Due(c, p) + w.d BY <1>14, <2>3
    <3>4. Due(c, p) \in Int /\ Due(c, p)' \in Int /\ -ULong < Due(c, p)' /\ Due(c, p)' < ULong
      <4>1. Counted(c, p) \in SUBSET Buffer /\ Counted(c, p)' = Counted(c, p)
            BY <1>11, CountedFinite DEF PoolInv
      <4>2. ASSUME NEW d PROVE Owers(c, d, p) \in SUBSET Thread /\ Owers(c, d, p)' \in SUBSET Thread
            BY DEF Owers
      <4>3. Owers(c, 1, p) \in SUBSET Thread /\ Owers(c, 1, p)' \in SUBSET Thread BY <4>2
      <4>4. Owers(c, -1, p) \in SUBSET Thread /\ Owers(c, -1, p)' \in SUBSET Thread BY <4>2
      <4>5. Due(c, p) \in Int BY <4>1, <4>3, <4>4, SumsFit DEF Due
      <4> QED BY <4>1, <4>3, <4>4, <4>5, SumsFit DEF Due
    <3> QED BY <1>4, <3>1, <3>2, <3>3, <3>4, CountWraps
  <2>4. CASE c # w.c \/ p # w.p
    <3>1. count'[c][p] = count[c][p]
          BY <1>4, <1>15, <2>4 DEF CountInv, CountTypes
    <3>2. Due(c, p)' = Due(c, p) BY <2>4, <1>13
    <3> QED BY <2>1, <3>1, <3>2 DEF CountInv, CountsDue
  <2> QED BY <2>3, <2>4
<1> QED BY <1>8, <1>17, <1>18, OthersKeep DEF CountInv


\* What is counted changes by k, and t owes that change from then on.
LEMMA DueKept ==
    ASSUME PoolTypeOK, CountInv, NEW t \in Thread, Others(t),
           NEW c \in Counter, NEW q \in Lock, NEW k \in {-1, 0, 1},
           ~Owing(t, c, 1, q), ~Owing(t, c, -1, q),
           Owing(t, c, 1, q)' <=> k = 1, Owing(t, c, -1, q)' <=> k = -1,
           Cardinality(Counted(c, q))' = Cardinality(Counted(c, q)) + k
    PROVE  Due(c, q)' = Due(c, q)
<1>1. \A u \in Thread \ {t} : \A d : Owing(u, c, d, q)' <=> Owing(u, c, d, q)
      BY OthersKeep
<1>2. ASSUME NEW d, ~Owing(t, c, d, q)
      PROVE  Cardinality(Owers(c, d, q))' = Cardinality(Owers(c, d, q))
                                            + (IF Owing(t, c, d, q)' THEN 1 ELSE 0)
  <2>1. CASE Owing(t, c, d, q)' BY <1>1, <1>2, <2>1, OneMoreOwes
  <2>2. CASE ~Owing(t, c, d, q)'
    <3>1. Owers(c, d, q)' = Owers(c, d, q) BY <1>1, <1>2, <2>2, SameOwe
    <3>2. Cardinality(Owers(c, d, q)) \in Nat BY OwersFinite
    <3> QED BY <2>2, <3>1, <3>2
  <2> QED BY <2>1, <2>2
<1>3. /\ Cardinality(Counted(c, q)) \in Nat /\ Cardinality(Owers(c, 1, q)) \in Nat
      /\ Cardinality(Owers(c, -1, q)) \in Nat
      BY CountedFinite, OwersFinite
<1>4. Cardinality(Owers(c, 1, q))' = Cardinality(Owers(c, 1, q))
                                     + (IF k = 1 THEN 1 ELSE 0)
      BY <1>2
<1>5. Cardinality(Owers(c, -1, q))' = Cardinality(Owers(c, -1, q))
                                      + (IF k = -1 THEN 1 ELSE 0)
      BY <1>2
<1> QED BY <1>3, <1>4, <1>5 DEF Due

\* A thread that owes nothing but what its place says.
LEMMA OwesNothing ==
    ASSUME NEW t \in Thread, todo[t] = <<>>, at[t].pc # "leave"
    PROVE  WorkOK(t) /\ \A c, d, p : ~Owing(t, c, d, p)
BY DEF WorkOK, Owing, Lists

\* A new list of counters to change.
LEMMA NewWork ==
    ASSUME CountTypes, NEW t \in Thread, NEW c \in Counter, NEW d \in {1, -1}, NEW p \in Lock
    PROVE  /\ <<By(c, p, d)>> \in Seq(Work)
           /\ \A e \in Counter, f \in {1, -1} : <<By(c, p, d), By(e, p, f)>> \in Seq(Work)
<1>1. 0 \in 0 .. ULong - 1 BY PoolAssumption
<1>2. \A e \in Counter, f \in {1, -1} : By(e, p, f) \in Work BY <1>1 DEF By, Work
<1> QED BY <1>2

\* Two changes that are still to be made.
LEMMA TwoChanges ==
    ASSUME NEW q, NEW e, NEW f, NEW g, NEW h, NEW c, NEW d, NEW m
    PROVE  Lists(<<By(e, q, f), By(g, q, h)>>, c, d, m)
           <=> m = q /\ ((c = e /\ d = f) \/ (c = g /\ d = h))
<1> DEFINE s == <<By(e, q, f), By(g, q, h)>>
<1>1. 1 .. Len(s) = {1, 2} /\ s[1] = By(e, q, f) /\ s[2] = By(g, q, h) OBVIOUS
<1>2. /\ s[1].c = e /\ s[1].d = f /\ s[1].p = q
      /\ s[2].c = g /\ s[2].d = h /\ s[2].p = q
      BY <1>1 DEF By
<1>3. (\E i \in {1, 2} : s[i].c = c /\ s[i].d = d /\ s[i].p = m)
      <=> \/ s[1].c = c /\ s[1].d = d /\ s[1].p = m
          \/ s[2].c = c /\ s[2].d = d /\ s[2].p = m
      OBVIOUS
<1>4. (\E i \in {1, 2} : s[i].c = c /\ s[i].d = d /\ s[i].p = m)
      <=> (e = c /\ f = d /\ q = m) \/ (g = c /\ h = d /\ q = m)
      BY <1>2, <1>3, Zenon
<1>5. Lists(s, c, d, m) <=> \E i \in {1, 2} : s[i].c = c /\ s[i].d = d /\ s[i].p = m
      BY <1>1 DEF Lists
<1> QED BY <1>4, <1>5, Zenon

\* The block that Unlink takes leaves the list and is in use; both counters wait.
LEMMA UnlinkCounts ==
    ASSUME PoolInv, CountInv, NEW t \in Thread, Unlink(t), Others(t)
    PROVE  CountInv'
<1> DEFINE p == at[t].pool
<1>1. at[t].pc = "unlink" /\ p \in Lock /\ todo[t] = <<>>
      BY DEF Unlink, At, PoolInv, PoolTypeOK, Locals, Away
<1>2. at[t].chain = list[p] /\ list[p] # <<>> /\ t \in writers[p]
      BY <1>1 DEF PoolInv, Owns
<1>3. list[p] \in Seq(Buffer) /\ OnceEach(list[p])
      BY <1>1 DEF PoolInv, PoolTypeOK, Blocks, ListsApart
<1>4. PICK b \in Buffer : /\ b = Head(list[p]) /\ b \in ToSet(list[p])
                          /\ ToSet(Tail(list[p])) = ToSet(list[p]) \ {b}
      BY <1>2, <1>3, TakeFirst
<1>5. PICK q \in Lock : q = p BY <1>1
<1>6. /\ list' = [list EXCEPT ![q] = Tail(list[q])] /\ inUse' = inUse \cup {b}
      /\ UNCHANGED <<lockVars, nLen, count, raced>>
      /\ todo' = [todo EXCEPT ![t] = <<By("in", q, -1), By("out", q, 1)>>]
      /\ at' = [at EXCEPT ![t] = [pc |-> "gotten", pool |-> q]]
      BY <1>2, <1>4, <1>5 DEF Unlink, Go, Change
<1>7. /\ list'[q] = Tail(list[q]) /\ \A m \in Lock \ {q} : list'[m] = list[m]
      /\ at'[t].pc = "gotten" /\ at[t].pc = "unlink"
      /\ \A u \in Thread : Hand(u)' = Hand(u)
  <2>1. at'[t].pc = "gotten" BY <1>6 DEF PoolInv, PoolTypeOK
  <2>2. Hand(t)' = Hand(t) BY <1>1, <2>1 DEF Hand
  <2> QED BY <1>1, <1>6, <2>1, <2>2 DEF PoolInv, PoolTypeOK, Others, Hand
<1>8. nLen[b] = q /\ ~Taken(b)
      BY <1>4, <1>5 DEF PoolInv, Blocks, ListsApart, HandsApart, Taken
<1>9. \A c \in Buffer : Taken(c)' <=> Taken(c) \/ c = b BY <1>6, <1>7 DEF Taken
<1>10. todo'[t] = <<By("in", q, -1), By("out", q, 1)>> BY <1>6 DEF CountInv, CountTypes
<1>11. CountTypes'
  <2>1. <<By("in", q, -1), By("out", q, 1)>> \in Seq(Work) BY NewWork DEF CountInv, Counter
  <2> QED BY <1>6, <2>1 DEF CountInv, CountTypes
<1>12. WorkOK(t)'
  <2>1. /\ Len(todo'[t]) = 2 /\ todo'[t][1] = By("in", q, -1) /\ todo'[t][2] = By("out", q, 1)
        /\ \A i \in 1 .. Len(todo'[t]) : i = 1 \/ i = 2
        BY <1>10
  <2>2. t \in writers'[q] BY <1>2, <1>5, <1>6 DEF lockVars
  <2> QED BY <1>7, <2>1, <2>2 DEF WorkOK, By
<1>13. /\ \A c, d, m : ~Owing(t, c, d, m)
       /\ \A c, m : Owing(t, c, -1, m)' <=> m = q /\ c = "in"
       /\ \A c, m : Owing(t, c, 1, m)' <=> m = q /\ c = "out"
  <2>1. \A c, d, m : ~Owing(t, c, d, m) BY <1>1, OwesNothing
  <2>2. ASSUME NEW c, NEW d, NEW m
        PROVE  Owing(t, c, d, m)' <=> m = q /\ ((c = "in" /\ d = -1) \/ (c = "out" /\ d = 1))
    <3>1. Lists(todo'[t], c, d, m)
          <=> m = q /\ ((c = "in" /\ d = -1) \/ (c = "out" /\ d = 1))
          BY <1>10, TwoChanges
    <3> QED BY <1>7, <3>1 DEF Owing
  <2>3. -1 # 1 OBVIOUS
  <2>4. ASSUME NEW c, NEW m PROVE Owing(t, c, -1, m)' <=> m = q /\ c = "in"
    <3>1. Owing(t, c, -1, m)' <=> m = q /\ ((c = "in" /\ -1 = -1) \/ (c = "out" /\ -1 = 1))
          BY <2>2, Zenon
    <3> QED BY <3>1, <2>3
  <2>5. ASSUME NEW c, NEW m PROVE Owing(t, c, 1, m)' <=> m = q /\ c = "out"
    <3>1. Owing(t, c, 1, m)' <=> m = q /\ ((c = "in" /\ 1 = -1) \/ (c = "out" /\ 1 = 1))
          BY <2>2, Zenon
    <3> QED BY <3>1, <2>3
  <2> QED BY <2>1, <2>4, <2>5
<1>14. ASSUME NEW c \in Counter, NEW m \in Lock PROVE Due(c, m)' = Due(c, m)
  <2>1. CASE m # q
    <3>1. Counted(c, m)' = Counted(c, m)
      <4>1. CASE c = "out" BY <1>6, <1>7, <1>8, <1>9, <2>1, <4>1 DEF Counted, Of
      <4>2. CASE c = "in" BY <1>6, <1>7, <1>8, <1>9, <2>1, <4>2 DEF Counted
      <4> QED BY <4>1, <4>2 DEF Counter
    <3>2. Cardinality(Counted(c, m))' = Cardinality(Counted(c, m)) + 0
          BY <3>1, CountedFinite DEF PoolInv
    <3> QED BY <2>1, <3>2, <1>13, DueKept DEF PoolInv
  <2>2. CASE m = q /\ c = "out"
    <3>1. Counted(c, m)' = Counted(c, m) \cup {b} /\ b \notin Counted(c, m)
          BY <1>6, <1>8, <1>9, <2>2 DEF Counted, Of
    <3>2. Cardinality(Counted(c, m))' = Cardinality(Counted(c, m)) + 1
          BY <3>1, CountedFinite, FS_AddElement DEF PoolInv
    <3> QED BY <2>2, <3>2, <1>13, DueKept DEF PoolInv
  <2>3. CASE m = q /\ c = "in"
    <3>1. Counted(c, m)' = Counted(c, m) \ {b} /\ b \in Counted(c, m)
          BY <1>4, <1>5, <1>7, <2>3 DEF Counted
    <3>2. Cardinality(Counted(c, m))' = Cardinality(Counted(c, m)) + (-1)
          BY <3>1, CountedFinite, FS_RemoveElement DEF PoolInv
    <3>3. Owing(t, c, -1, m)' BY <2>3, <1>13
    <3>4. ~Owing(t, c, 1, m)' BY <2>3, <1>13
    <3>5. -1 \in {-1, 0, 1} /\ -1 # 1 OBVIOUS
    <3> QED BY <3>2, <3>3, <3>4, <3>5, <1>13, DueKept DEF PoolInv
  <2> QED BY <2>1, <2>2, <2>3 DEF Counter
<1>15. ~raced' => CountsDue' /\ LimitKept'
  <2>1. ~raced' => CountsDue' BY <1>6, <1>14 DEF CountInv, CountsDue
  <2>2. ~raced' => LimitKept' BY <1>6 DEF CountInv, LimitKept, Of
  <2> QED BY <2>1, <2>2
<1> QED BY <1>11, <1>12, <1>15, OthersKeep DEF CountInv

\* The block that FreeFirst links is free from then on; the counters follow later.
LEMMA FreeFirstCounts ==
    ASSUME PoolInv, CountInv, NEW t \in Thread, FreeFirst(t), Others(t)
    PROVE  CountInv'
<1>1. at[t].pc = "first" /\ todo[t] = <<>> BY DEF FreeFirst, At
<1>2. PICK q \in Lock, b \in Buffer : q = at[t].pool /\ b = at[t].buf
  <2>1. at[t].pool \in Lock /\ at[t].buf \in Buffer BY <1>1 DEF PoolInv, PoolTypeOK, Locals, Away
  <2> QED BY <2>1
<1>3. at[t].chain = list[q] /\ nLen[b] = q /\ Hand(t) = {b}
      BY <1>1, <1>2 DEF PoolInv, Owns, Hand
<1>4. /\ b \notin inUse /\ b \notin ToSet(list[q])
      /\ \A u \in Thread \ {t} : b \notin Hand(u)
      BY <1>3 DEF PoolInv, Blocks, HandsApart
<1>5. ToSet(<<b>> \o list[q]) = ToSet(list[q]) \cup {b}
  <2>1. list[q] \in Seq(Buffer) /\ OnceEach(list[q])
        BY DEF PoolInv, PoolTypeOK, Blocks, ListsApart
  <2> QED BY <1>4, <2>1, PutFirst
<1>6. /\ list' = [list EXCEPT ![q] = <<b>> \o list[q]]
      /\ UNCHANGED <<lockVars, nLen, inUse, count, raced, todo>>
      /\ at' = [at EXCEPT ![t] = [pc |-> "leave", pool |-> q]]
      BY <1>2, <1>3 DEF FreeFirst, Go
<1>7. /\ ToSet(list'[q]) = ToSet(list[q]) \cup {b} /\ \A m \in Lock \ {q} : list'[m] = list[m]
      /\ at'[t].pc = "leave" /\ at'[t].pool = q /\ Hand(t)' = {}
      /\ \A u \in Thread \ {t} : Hand(u)' = Hand(u)
  <2>1. list'[q] = <<b>> \o list[q] /\ \A m \in Lock \ {q} : list'[m] = list[m]
        BY <1>6 DEF PoolInv, PoolTypeOK
  <2>2. at'[t].pc = "leave" /\ at'[t].pool = q BY <1>6 DEF PoolInv, PoolTypeOK
  <2> QED BY <1>5, <2>1, <2>2 DEF Others, Hand
<1>8. \A c \in Buffer : Taken(c)' <=> Taken(c) /\ c # b
      BY <1>3, <1>4, <1>6, <1>7 DEF Taken
<1>9. Taken(b) BY <1>3 DEF Taken
<1>10. CountTypes' /\ WorkOK(t)'
       BY <1>1, <1>6 DEF CountInv, CountTypes, WorkOK
<1>11. /\ \A c, d, m : ~Owing(t, c, d, m)
       /\ \A c, m : Owing(t, c, -1, m)' <=> m = q /\ c = "out"
       /\ \A c, m : Owing(t, c, 1, m)' <=> m = q /\ c = "in"
  <2>1. \A c, d, m : ~Owing(t, c, d, m) BY <1>1, OwesNothing
  <2>2. ASSUME NEW c, NEW d, NEW m
        PROVE  Owing(t, c, d, m)' <=> m = q /\ ((c = "out" /\ d = -1) \/ (c = "in" /\ d = 1))
    <3>1. todo'[t] = <<>> BY <1>1, <1>6
    <3> QED BY <1>7, <3>1 DEF Owing, Lists
  <2>3. -1 # 1 OBVIOUS
  <2>4. ASSUME NEW c, NEW m PROVE Owing(t, c, -1, m)' <=> m = q /\ c = "out"
    <3>1. Owing(t, c, -1, m)' <=> m = q /\ ((c = "out" /\ -1 = -1) \/ (c = "in" /\ -1 = 1))
          BY <2>2, Zenon
    <3> QED BY <3>1, <2>3
  <2>5. ASSUME NEW c, NEW m PROVE Owing(t, c, 1, m)' <=> m = q /\ c = "in"
    <3>1. Owing(t, c, 1, m)' <=> m = q /\ ((c = "out" /\ 1 = -1) \/ (c = "in" /\ 1 = 1))
          BY <2>2, Zenon
    <3> QED BY <3>1, <2>3
  <2> QED BY <2>1, <2>4, <2>5
<1>12. ASSUME NEW c \in Counter, NEW m \in Lock PROVE Due(c, m)' = Due(c, m)
  <2>1. CASE m # q
    <3>1. Counted(c, m)' = Counted(c, m)
      <4>1. CASE c = "out" BY <1>3, <1>6, <1>7, <1>8, <2>1, <4>1 DEF Counted, Of
      <4>2. CASE c = "in" BY <1>3, <1>6, <1>7, <1>8, <2>1, <4>2 DEF Counted
      <4> QED BY <4>1, <4>2 DEF Counter
    <3>2. Cardinality(Counted(c, m))' = Cardinality(Counted(c, m)) + 0
          BY <3>1, CountedFinite DEF PoolInv
    <3> QED BY <2>1, <3>2, <1>11, DueKept DEF PoolInv
  <2>2. CASE m = q /\ c = "in"
    <3>1. Counted(c, m)' = Counted(c, m) \cup {b} /\ b \notin Counted(c, m)
          BY <1>4, <1>7, <2>2 DEF Counted
    <3>2. Cardinality(Counted(c, m))' = Cardinality(Counted(c, m)) + 1
          BY <3>1, CountedFinite, FS_AddElement DEF PoolInv
    <3> QED BY <2>2, <3>2, <1>11, DueKept DEF PoolInv
  <2>3. CASE m = q /\ c = "out"
    <3>1. Counted(c, m)' = Counted(c, m) \ {b} /\ b \in Counted(c, m)
          BY <1>3, <1>6, <1>8, <1>9, <2>3 DEF Counted, Of
    <3>2. Cardinality(Counted(c, m))' = Cardinality(Counted(c, m)) + (-1)
          BY <3>1, CountedFinite, FS_RemoveElement DEF PoolInv
    <3>3. Owing(t, c, -1, m)' BY <2>3, <1>11
    <3>4. ~Owing(t, c, 1, m)' BY <2>3, <1>11
    <3>5. -1 \in {-1, 0, 1} /\ -1 # 1 OBVIOUS
    <3> QED BY <3>2, <3>3, <3>4, <3>5, <1>11, DueKept DEF PoolInv
  <2> QED BY <2>1, <2>2, <2>3 DEF Counter
<1>13. ~raced' => CountsDue' /\ LimitKept'
  <2>1. ~raced' => CountsDue' BY <1>6, <1>12 DEF CountInv, CountsDue
  <2>2. ~raced' => LimitKept' BY <1>6 DEF CountInv, LimitKept, Of
  <2> QED BY <2>1, <2>2
<1> QED BY <1>10, <1>13, OthersKeep DEF CountInv

\* After the lock is left what was owed by the place is listed in todo.
LEMMA FreeLeaveCounts ==
    ASSUME PoolInv, CountInv, NEW t \in Thread, FreeLeave(t), Others(t)
    PROVE  CountInv'
<1>1. at[t].pc = "leave" /\ todo[t] = <<>> BY DEF FreeLeave, At
<1>2. PICK q \in Lock : q = at[t].pool
  <2>1. at[t].pool \in Lock BY <1>1 DEF PoolInv, PoolTypeOK, Locals, Away
  <2> QED BY <2>1
<1>3. /\ UNCHANGED <<list, nLen, inUse, count, raced>>
      /\ todo' = [todo EXCEPT ![t] = <<By("out", q, -1), By("in", q, 1)>>]
      /\ at' = [at EXCEPT ![t] = [pc |-> "freed", pool |-> q]]
      BY <1>2 DEF FreeLeave, Go, Change, AfterFree
<1>4. /\ todo'[t] = <<By("out", q, -1), By("in", q, 1)>>
      /\ at'[t].pc = "freed"
      BY <1>3 DEF CountInv, CountTypes, PoolInv, PoolTypeOK
<1>5. CountTypes'
  <2>1. <<By("out", q, -1), By("in", q, 1)>> \in Seq(Work) BY NewWork DEF CountInv, Counter
  <2> QED BY <1>3, <2>1 DEF CountInv, CountTypes
<1>6. WorkOK(t)'
  <2>1. /\ Len(todo'[t]) = 2 /\ todo'[t][1] = By("out", q, -1) /\ todo'[t][2] = By("in", q, 1)
        /\ \A i \in 1 .. Len(todo'[t]) : i = 1 \/ i = 2
        BY <1>4
  <2> QED BY <1>4, <2>1 DEF WorkOK, By
<1>7. ASSUME NEW c, NEW d, NEW m PROVE Owing(t, c, d, m)' <=> Owing(t, c, d, m)
  <2>1. Lists(todo'[t], c, d, m)
        <=> m = q /\ ((c = "out" /\ d = -1) \/ (c = "in" /\ d = 1))
        BY <1>4, TwoChanges
  <2>2. Owing(t, c, d, m)' <=> m = q /\ ((c = "out" /\ d = -1) \/ (c = "in" /\ d = 1))
        BY <1>4, <2>1 DEF Owing
  <2>3. Owing(t, c, d, m) <=> m = q /\ ((c = "out" /\ d = -1) \/ (c = "in" /\ d = 1))
        BY <1>1, <1>2 DEF Owing, Lists
  <2> QED BY <2>2, <2>3
<1>8. \A u \in Thread : Hand(u)' = Hand(u) BY <1>1, <1>4 DEF Others, Hand
<1>9. \A b \in Buffer : Taken(b)' <=> Taken(b) BY <1>3, <1>8 DEF Taken
<1>10. \A u \in Thread : \A c, d, m : Owing(u, c, d, m)' <=> Owing(u, c, d, m)
       BY <1>7, OthersKeep
<1>11. ~raced' => CountsDue' /\ LimitKept' BY <1>3, <1>9, <1>10, QuietCounts
<1> QED BY <1>5, <1>6, <1>11, OthersKeep DEF CountInv


\* The change in a list of one.
LEMMA OneChange ==
    ASSUME NEW q, NEW e, NEW f, NEW c, NEW d, NEW m
    PROVE  Lists(<<By(e, q, f)>>, c, d, m) <=> m = q /\ c = e /\ d = f
<1> DEFINE s == <<By(e, q, f)>>
<1>1. 1 .. Len(s) = {1} /\ s[1] = By(e, q, f) OBVIOUS
<1>2. s[1].c = e /\ s[1].d = f /\ s[1].p = q BY <1>1 DEF By
<1>3. Lists(s, c, d, m) <=> s[1].c = c /\ s[1].d = d /\ s[1].p = m BY <1>1 DEF Lists
<1> QED BY <1>2, <1>3, Zenon

\* FreeBuf deletes a block before it counts it out; else it carries the block on.
LEMMA ArriveCounts ==
    ASSUME PoolInv, CountInv, NEW t \in Thread, NEW p \in Lock, NEW b \in Buffer,
           NEW del \in BOOLEAN, Arrive(t, p, b, del), Others(t),
           UNCHANGED <<list, count, raced>>, inUse' = inUse \ {b},
           Hand(t) \subseteq {b}, Taken(b), \A u \in Thread \ {t} : b \notin Hand(u),
           todo[t] = <<>>, at[t].pc # "leave"
    PROVE  CountInv'
<1>1. \A u \in Thread \ {t} : Hand(u)' = Hand(u) BY DEF Others, Hand
<1>2. CASE /\ UNCHANGED <<nLen, todo>>
           /\ \E loc : Go(t, loc) /\ loc.pc \in {"pass", "link"} /\ loc.buf = b
  <2>1. at'[t].pc \in {"pass", "link"} /\ at'[t].buf = b
        BY <1>2 DEF Go, PoolInv, PoolTypeOK
  <2>2. Hand(t)' = {b} /\ at'[t].pc # "leave" BY <2>1 DEF Hand
  <2>3. \A c \in Buffer : Taken(c)' <=> Taken(c) BY <1>1, <2>2 DEF Taken
  <2> QED BY <1>2, <2>2, <2>3, QuietStep
<1>3. CASE /\ nLen[b] = p
           /\ nLen' = [nLen EXCEPT ![b] = 0] /\ UNCHANGED lockVars
           /\ todo' = [todo EXCEPT ![t] = <<By("out", p, -1)>>]
           /\ Go(t, [pc |-> "freed", pool |-> p])
  <2>1. at'[t].pc = "freed" /\ Hand(t)' = {} BY <1>3 DEF Go, PoolInv, PoolTypeOK, Hand
  <2>2. \A c \in Buffer : c # b => (Taken(c)' <=> Taken(c)) BY <1>1, <2>1 DEF Taken
  <2>3. nLen'[b] = 0 /\ 0 \notin Lock /\ \A c \in Buffer \ {b} : nLen'[c] = nLen[c]
        BY <1>3, LockRange DEF PoolInv, PoolTypeOK
  <2>4. todo'[t] = <<By("out", p, -1)>> BY <1>3 DEF CountInv, CountTypes
  <2>5. CountTypes'
    <3>1. <<By("out", p, -1)>> \in Seq(Work) BY NewWork DEF CountInv, Counter
    <3> QED BY <1>3, <3>1 DEF CountInv, CountTypes
  <2>6. WorkOK(t)'
    <3>1. /\ Len(todo'[t]) = 1 /\ todo'[t][1] = By("out", p, -1)
          /\ \A i \in 1 .. Len(todo'[t]) : i = 1
          BY <2>4
    <3>2. By("out", p, -1).d # 1 BY DEF By
    <3> QED BY <2>1, <3>1, <3>2 DEF WorkOK
  <2>7. \A c, d, m : ~Owing(t, c, d, m) BY OwesNothing
  <2>8. ASSUME NEW c, NEW d, NEW m
        PROVE  Owing(t, c, d, m)' <=> m = p /\ c = "out" /\ d = -1
    <3>1. Lists(todo'[t], c, d, m) <=> m = p /\ c = "out" /\ d = -1 BY <2>4, OneChange
    <3> QED BY <2>1, <3>1 DEF Owing
  <2>9. ASSUME NEW c, NEW m
        PROVE  (Owing(t, c, -1, m)' <=> m = p /\ c = "out") /\ ~Owing(t, c, 1, m)'
    <3>1. Owing(t, c, -1, m)' <=> m = p /\ c = "out" /\ -1 = -1 BY <2>8, Zenon
    <3>2. Owing(t, c, 1, m)' <=> m = p /\ c = "out" /\ 1 = -1 BY <2>8, Zenon
    <3> QED BY <3>1, <3>2
  <2>10. ASSUME NEW c \in Counter, NEW m \in Lock PROVE Due(c, m)' = Due(c, m)
    <3>1. CASE c = "in" \/ m # p
      <4>1. Counted(c, m)' = Counted(c, m)
        <5>1. CASE c = "in" BY <5>1 DEF Counted
        <5>2. CASE c = "out" /\ m # p BY <5>2, <1>3, <2>2, <2>3 DEF Counted, Of
        <5> QED BY <3>1, <5>1, <5>2 DEF Counter
      <4>2. Cardinality(Counted(c, m))' = Cardinality(Counted(c, m)) + 0
            BY <4>1, CountedFinite DEF PoolInv
      <4>3. ~Owing(t, c, -1, m)' /\ ~Owing(t, c, 1, m)' BY <3>1, <2>9
      <4> QED BY <4>2, <4>3, <2>7, DueKept DEF PoolInv
    <3>2. CASE c = "out" /\ m = p
      <4>1. Counted(c, m)' = Counted(c, m) \ {b} /\ b \in Counted(c, m)
            BY <3>2, <1>3, <2>2, <2>3 DEF Counted, Of
      <4>2. Cardinality(Counted(c, m))' = Cardinality(Counted(c, m)) + (-1)
        <5>1. IsFiniteSet(Counted(c, m)) /\ Cardinality(Counted(c, m)) \in Nat
              BY CountedFinite DEF PoolInv
        <5>2. Cardinality(Counted(c, m) \ {b}) = Cardinality(Counted(c, m)) - 1
              BY <4>1, <5>1, FS_RemoveElement
        <5> QED BY <4>1, <5>1, <5>2
      <4>3. Owing(t, c, -1, m)' /\ ~Owing(t, c, 1, m)' BY <3>2, <2>9
      <4>4. -1 \in {-1, 0, 1} /\ -1 # 1 OBVIOUS
      <4> QED BY <4>2, <4>3, <4>4, <2>7, DueKept DEF PoolInv
    <3> QED BY <3>1, <3>2 DEF Counter
  <2>11. ~raced' => CountsDue' BY <2>10 DEF CountInv, CountsDue
  <2>12. ASSUME ~raced', m_nMaxSize # 0, NEW m \in Lock
         PROVE  Cardinality(Of(m))' <= m_nMaxSize
    <3>1. Cardinality(Of(m)) <= m_nMaxSize BY <2>12 DEF CountInv, LimitKept
    <3>2. Of(m)' \in SUBSET Of(m) BY <2>3 DEF Of
    <3>3. IsFiniteSet(Of(m)) /\ Cardinality(Of(m)) \in Nat BY CountedFinite DEF PoolInv, Counter
    <3>4. Cardinality(Of(m)') <= Cardinality(Of(m)) /\ Cardinality(Of(m)') \in Nat
          BY <3>2, <3>3, FS_Subset, FS_CardinalityType
    <3> QED BY <3>1, <3>3, <3>4, PoolAssumption
  <2> QED BY <2>5, <2>6, <2>11, <2>12, OthersKeep DEF CountInv, LimitKept
<1>4. CASE nLen[b] # p
  <2>1. UNCHANGED <<nLen, todo>> /\ Go(t, [pc |-> "pass", pool |-> p, buf |-> b, del |-> del])
        BY <1>4 DEF Arrive
  <2> QED BY <1>2, <2>1
<1>5. CASE nLen[b] = p /\ del BY <1>3, <1>5 DEF Arrive, Change
<1>6. CASE nLen[b] = p /\ ~del
  <2>1. UNCHANGED <<nLen, todo>> /\ Go(t, [pc |-> "link", pool |-> p, buf |-> b])
        BY <1>6 DEF Arrive
  <2> QED BY <1>2, <2>1
<1> QED BY <1>4, <1>5, <1>6

\* FreeBuf begins with the first pool.
LEMMA FreeBufCounts ==
    ASSUME PoolInv, CountInv, NEW t \in Thread, NEW b \in Buffer, NEW del \in BOOLEAN,
           FreeBuf(t, b, del), Others(t)
    PROVE  CountInv'
<1>1. /\ at[t] = Away /\ b \in inUse /\ inUse' = inUse \ {b} /\ Arrive(t, 1, b, del)
      /\ UNCHANGED <<list, count, raced>>
      BY DEF FreeBuf
<1>2. Hand(t) = {} /\ at[t].pc = "away" BY <1>1 DEF Hand, Away
<1>3. todo[t] = <<>> BY <1>2 DEF CountInv, WorkOK
<1>4. Taken(b) /\ \A u \in Thread : b \notin Hand(u)
      BY <1>1 DEF Taken, PoolInv, Blocks, HandsApart
<1> QED BY <1>1, <1>2, <1>3, <1>4, LockRange, ArriveCounts

\* FreeBuf goes on to the next pool.
LEMMA FreeNextCounts ==
    ASSUME PoolInv, CountInv, NEW t \in Thread, FreeNext(t), Others(t)
    PROVE  CountInv'
<1>1. at[t].pc = "pass" /\ todo[t] = <<>> /\ at[t].pool \in hasNext BY DEF FreeNext, At
<1>2. PICK b \in Buffer : b = at[t].buf
      BY <1>1 DEF PoolInv, PoolTypeOK, Locals, Away
<1>3. at[t].del \in BOOLEAN /\ at[t].pool + 1 \in Lock
      BY <1>1 DEF PoolInv, PoolTypeOK, Locals, Away
<1>4. Hand(t) = {b} BY <1>1, <1>2 DEF Hand
<1>5. b \notin inUse /\ \A u \in Thread \ {t} : b \notin Hand(u)
      BY <1>4 DEF PoolInv, Blocks, HandsApart
<1>6. Taken(b) BY <1>4 DEF Taken
<1>7. /\ inUse' = inUse \ {b} /\ UNCHANGED <<list, count, raced>>
      /\ Arrive(t, at[t].pool + 1, b, at[t].del)
      BY <1>2, <1>5 DEF FreeNext, Behind
<1> QED BY <1>1, <1>3, <1>4, <1>5, <1>6, <1>7, ArriveCounts

\* Under the lock nobody else is about to count a block of this pool: the counter
\* is no smaller than the number of blocks that are taken, which with an empty list
\* are all blocks of the pool.
LEMMA LimitSeesAll ==
    ASSUME PoolInv, CountInv, ~raced, NEW t \in Thread, NEW q \in Lock,
           t \in writers[q], todo[t] = <<>>, list[q] = <<>>
    PROVE  Cardinality(Of(q)) \in Nat /\ Cardinality(Of(q)) <= count["out"][q]
<1>1. Owers("out", 1, q) = {}
  <2> SUFFICES ASSUME NEW u \in Thread, Owing(u, "out", 1, q) PROVE FALSE BY DEF Owers
  <2>1. PICK i \in 1 .. Len(todo[u]) :
           todo[u][i].c = "out" /\ todo[u][i].d = 1 /\ todo[u][i].p = q
        BY DEF Owing, Lists
  <2>2. u \in writers[q] BY <2>1 DEF CountInv, WorkOK
  <2>3. u = t BY <2>2 DEF PoolInv, LockInv, FlagOwned
  <2> QED BY <2>1, <2>3
<1>2. Of(q) = Counted("out", q)
  <2>1. ToSet(list[q]) = {} BY DEF ToSet
  <2>2. q # 0 BY LockRange
  <2>3. \A b \in Of(q) : Taken(b) BY <2>1, <2>2 DEF Of, Taken, PoolInv, Blocks, NoneLost
  <2> QED BY <2>3 DEF Counted
<1>3. /\ Cardinality(Of(q)) \in Nat /\ Cardinality(Owers("out", -1, q)) \in Nat
      /\ Cardinality({}) = 0 /\ ULong \in Nat
      BY CountedFinite, OwersFinite, FS_EmptySet, PoolAssumption DEF PoolInv, Counter
<1>4. Due("out", q) \in Int /\ Cardinality(Of(q)) <= Due("out", q)
  <2>1. Due("out", q) = Cardinality(Of(q)) - 0 + Cardinality(Owers("out", -1, q))
    <3>1. Cardinality(Owers("out", 1, q)) = 0 BY <1>1, <1>3
    <3>2. Cardinality(Counted("out", q)) = Cardinality(Of(q)) BY <1>2
    <3> QED BY <3>1, <3>2 DEF Due
  <2> QED BY <1>3, <2>1
<1>5. count["out"][q] \in {Due("out", q), Due("out", q) + ULong}
      BY DEF CountInv, CountsDue, Counter
<1> QED BY <1>3, <1>4, <1>5

\* GetBuf allocates a block only below the limit, and counts it out afterwards.
LEMMA GetNewCounts ==
    ASSUME PoolInv, CountInv, NEW t \in Thread, GetNew(t), Others(t)
    PROVE  CountInv'
<1>1. at[t].pc = "get" /\ todo[t] = <<>> /\ want[t] = Idle BY DEF GetNew, At
<1>2. PICK q \in Lock : q = at[t].pool BY <1>1 DEF PoolInv, PoolTypeOK, Locals, Away
<1>3. t \in writers[q]
  <2>1. Idle # [op |-> "write", lock |-> q] BY DEF Idle
  <2> QED BY <1>1, <1>2, <2>1 DEF PoolInv, Owns
<1>4. /\ list[q] = <<>> /\ UNCHANGED <<lockVars, list, count, raced>>
      /\ at' = [at EXCEPT ![t] = [pc |-> "gotten", pool |-> q]]
      BY <1>2 DEF GetNew, Go
<1>5. at'[t].pc = "gotten" /\ \A u \in Thread : Hand(u)' = Hand(u)
  <2>1. at'[t].pc = "gotten" BY <1>4 DEF PoolInv, PoolTypeOK
  <2> QED BY <1>1, <2>1 DEF Others, Hand
<1>6. CASE UNCHANGED <<nLen, inUse, todo>>
  <2>1. \A c \in Buffer : Taken(c)' <=> Taken(c) BY <1>5, <1>6 DEF Taken
  <2> QED BY <1>1, <1>4, <1>5, <1>6, <2>1, QuietStep
<1>7. ASSUME NEW b \in Buffer \ Allocated, BelowLimit(q),
             nLen' = [nLen EXCEPT ![b] = q], inUse' = inUse \cup {b},
             todo' = [todo EXCEPT ![t] = <<By("out", q, 1)>>]
      PROVE  CountInv'
  <2>1. nLen[b] = 0 /\ 0 \notin Lock BY LockRange DEF Allocated
  <2>2. nLen'[b] = q /\ \A c \in Buffer \ {b} : nLen'[c] = nLen[c]
        BY <1>7 DEF PoolInv, PoolTypeOK
  <2>3. Taken(b)' /\ \A c \in Buffer : c # b => (Taken(c)' <=> Taken(c))
        BY <1>5, <1>7 DEF Taken
  <2>4. todo'[t] = <<By("out", q, 1)>> BY <1>7 DEF CountInv, CountTypes
  <2>5. CountTypes'
    <3>1. <<By("out", q, 1)>> \in Seq(Work) BY NewWork DEF CountInv, Counter
    <3> QED BY <1>4, <1>7, <3>1 DEF CountInv, CountTypes
  <2>6. WorkOK(t)'
    <3>1. /\ Len(todo'[t]) = 1 /\ todo'[t][1] = By("out", q, 1)
          /\ \A i \in 1 .. Len(todo'[t]) : i = 1
          BY <2>4
    <3>2. By("out", q, 1).p = q BY DEF By
    <3>3. t \in writers'[q] BY <1>3, <1>4 DEF lockVars
    <3> QED BY <1>5, <3>1, <3>2, <3>3 DEF WorkOK
  <2>7. \A c, d, m : ~Owing(t, c, d, m) BY <1>1, OwesNothing
  <2>8. ASSUME NEW c, NEW d, NEW m
        PROVE  Owing(t, c, d, m)' <=> m = q /\ c = "out" /\ d = 1
    <3>1. Lists(todo'[t], c, d, m) <=> m = q /\ c = "out" /\ d = 1 BY <2>4, OneChange
    <3> QED BY <1>5, <3>1 DEF Owing
  <2>9. ASSUME NEW c, NEW m
        PROVE  (Owing(t, c, 1, m)' <=> m = q /\ c = "out") /\ ~Owing(t, c, -1, m)'
    <3>1. Owing(t, c, -1, m)' <=> m = q /\ c = "out" /\ -1 = 1 BY <2>8, Zenon
    <3>2. Owing(t, c, 1, m)' <=> m = q /\ c = "out" /\ 1 = 1 BY <2>8, Zenon
    <3> QED BY <3>1, <3>2
  <2>10. ASSUME NEW c \in Counter, NEW m \in Lock PROVE Due(c, m)' = Due(c, m)
    <3>1. CASE c = "in" \/ m # q
      <4>1. Counted(c, m)' = Counted(c, m)
        <5>1. CASE c = "in" BY <5>1, <1>4 DEF Counted
        <5>2. CASE c = "out" /\ m # q BY <5>2, <2>1, <2>2, <2>3 DEF Counted, Of
        <5> QED BY <3>1, <5>1, <5>2 DEF Counter
      <4>2. Cardinality(Counted(c, m))' = Cardinality(Counted(c, m)) + 0
            BY <4>1, CountedFinite DEF PoolInv
      <4>3. ~Owing(t, c, -1, m)' /\ ~Owing(t, c, 1, m)' BY <3>1, <2>9
      <4> QED BY <4>2, <4>3, <2>7, DueKept DEF PoolInv
    <3>2. CASE c = "out" /\ m = q
      <4>1. Counted(c, m)' = Counted(c, m) \cup {b} /\ b \notin Counted(c, m)
            BY <3>2, <2>1, <2>2, <2>3 DEF Counted, Of
      <4>2. Cardinality(Counted(c, m))' = Cardinality(Counted(c, m)) + 1
        <5>1. IsFiniteSet(Counted(c, m)) BY CountedFinite DEF PoolInv
        <5>2. Cardinality(Counted(c, m) \cup {b}) = Cardinality(Counted(c, m)) + 1
              BY <4>1, <5>1, FS_AddElement
        <5> QED BY <4>1, <5>2
      <4>3. Owing(t, c, 1, m)' /\ ~Owing(t, c, -1, m)' BY <3>2, <2>9
      <4> QED BY <4>2, <4>3, <2>7, DueKept DEF PoolInv
    <3> QED BY <3>1, <3>2 DEF Counter
  <2>11. ~raced' => CountsDue' BY <1>4, <2>10 DEF CountInv, CountsDue
  <2>12. ASSUME ~raced', m_nMaxSize # 0, NEW m \in Lock
         PROVE  Cardinality(Of(m))' <= m_nMaxSize
    <3>1. ~raced BY <1>4, <2>12
    <3>2. CASE m # q
      <4>1. Of(m)' = Of(m) BY <3>2, <2>1, <2>2 DEF Of
      <4> QED BY <3>1, <4>1, <2>12 DEF CountInv, LimitKept
    <3>3. CASE m = q
      <4>1. Cardinality(Of(q)) \in Nat /\ Cardinality(Of(q)) <= count["out"][q]
            BY <3>1, <1>1, <1>3, <1>4, LimitSeesAll
      <4>2. count["out"][q] \in Nat /\ count["out"][q] < m_nMaxSize /\ m_nMaxSize \in Nat
            BY <1>7, <2>12, PoolAssumption DEF BelowLimit, CountInv, CountTypes, Counter
      <4>3. Of(q)' = Of(q) \cup {b} /\ b \notin Of(q) BY <2>1, <2>2 DEF Of
      <4>4. IsFiniteSet(Of(q)) BY CountedFinite DEF PoolInv, Counter
      <4>5. Cardinality(Of(q)') = Cardinality(Of(q)) + 1 BY <4>3, <4>4, FS_AddElement
      <4> QED BY <3>3, <4>1, <4>2, <4>5
    <3> QED BY <3>2, <3>3
  <2> QED BY <2>5, <2>6, <2>11, <2>12, OthersKeep DEF CountInv, LimitKept
<1>8. \/ /\ BelowLimit(q)
         /\ \E b \in Buffer \ Allocated : /\ nLen' = [nLen EXCEPT ![b] = q]
                                          /\ inUse' = inUse \cup {b}
         /\ todo' = [todo EXCEPT ![t] = <<By("out", q, 1)>>]
      \/ UNCHANGED <<nLen, inUse, todo>>
      BY <1>2 DEF GetNew, Change
<1> QED BY <1>6, <1>7, <1>8

\* Every step keeps the counters explained.
LEMMA CountStep == ASSUME PoolInv, CountInv, [Next]_vars PROVE CountInv'
<1>1. CASE UNCHANGED vars
  <2>1. UNCHANGED <<lockVars, list, nLen, inUse, count, at, todo, raced>>
        BY <1>1 DEF vars, poolVars
  <2>2. UNCHANGED writers BY <2>1 DEF lockVars
  <2>3. \A u \in Thread : WorkOK(u)' /\ \A c, d, p : Owing(u, c, d, p)' <=> Owing(u, c, d, p)
        BY <2>1, <2>2, OthersOwe DEF CountInv
  <2>4. \A b \in Buffer : Taken(b)' <=> Taken(b) BY <2>1 DEF Taken, Hand
  <2>5. ~raced' => CountsDue' /\ LimitKept' BY <2>1, <2>3, <2>4, QuietCounts
  <2>6. CountTypes' BY <2>1 DEF CountInv, CountTypes
  <2> QED BY <2>3, <2>5, <2>6 DEF CountInv
<1>2. CASE Next
  <2>1. PICK t \in Thread : \/ \E size \in Lock : GetBuf(t, size)
                            \/ \E b \in Buffer, del \in BOOLEAN : FreeBuf(t, b, del)
                            \/ Inside(t)
        BY <1>2 DEF Next
  <2>2. Others(t) BY <2>1, StepOfOne DEF CountInv
  <2>3. CASE \E b \in Buffer, del \in BOOLEAN : FreeBuf(t, b, del)
        BY <2>2, <2>3, FreeBufCounts
  <2>4. CASE Inside(t)
        BY <2>2, <2>4, LoadCounts, StoreCounts, EnterLockCounts, QuietSteps, UnlinkCounts,
           GetNewCounts, FreeNextCounts, FreeFirstCounts, FreeLeaveCounts
        DEF Inside
  <2>5. CASE \E size \in Lock : GetBuf(t, size) BY <2>2, <2>5, QuietSteps
  <2> QED BY <2>1, <2>3, <2>4, <2>5
<1> QED BY <1>1, <1>2

\* A list that has every element once is as long as the set of its elements.
LEMMA LengthOfOnce ==
    ASSUME NEW s \in Seq(Buffer), OnceEach(s)
    PROVE  Cardinality(ToSet(s)) = Len(s)
<1>1. Len(s) \in Nat /\ DOMAIN s = 1 .. Len(s) OBVIOUS
<1>2. s \in [1 .. Len(s) -> ToSet(s)] BY <1>1 DEF ToSet
<1>3. IsInjective(s) BY DEF OnceEach, IsInjective
<1>4. \A b \in ToSet(s) : \E i \in 1 .. Len(s) : s[i] = b BY <1>1 DEF ToSet
<1>5. s \in Bijection(1 .. Len(s), ToSet(s))
      BY <1>2, <1>3, <1>4 DEF Bijection, Injection, Surjection
<1> QED BY <1>1, <1>5, FS_CountingElements DEF ExistsBijection

\* Unless an unlocked update was lost, no pool gives out more blocks than its limit,
\* and both counters are exact when no call is under way.
THEOREM CountersAreRight == Spec => []CountersHold
<1>1. Init => CountInv BY InitCountInv
<1>2. PoolInv /\ CountInv /\ [Next]_vars => CountInv' BY CountStep
<1>3. ASSUME PoolInv, CountInv PROVE CountersHold
  <2> SUFFICES ASSUME ~raced, NEW p \in Lock
               PROVE  /\ m_nMaxSize # 0 => Cardinality(InUse(p)) <= m_nMaxSize
                      /\ (\A t \in Thread : at[t] = Away) =>
                            /\ count["out"][p] = Cardinality(InUse(p))
                            /\ count["in"][p] = Len(list[p])
      BY DEF CountersHold
  <2>1. IsFiniteSet(Of(p)) /\ Cardinality(Of(p)) \in Nat
        BY <1>3, CountedFinite DEF PoolInv, Counter
  <2>2. InUse(p) \in SUBSET Of(p) BY <1>3 DEF InUse, Of, PoolInv, PoolTypeOK
  <2>3. Cardinality(InUse(p)) <= Cardinality(Of(p)) /\ Cardinality(InUse(p)) \in Nat
        BY <2>1, <2>2, FS_Subset, FS_CardinalityType
  <2>4. ASSUME m_nMaxSize # 0 PROVE Cardinality(InUse(p)) <= m_nMaxSize
    <3>1. Cardinality(Of(p)) <= m_nMaxSize BY <1>3, <2>4 DEF CountInv, LimitKept
    <3> QED BY <2>1, <2>3, <3>1, PoolAssumption
  <2>5. ASSUME \A t \in Thread : at[t] = Away
        PROVE  /\ count["out"][p] = Cardinality(InUse(p))
               /\ count["in"][p] = Len(list[p])
    <3>1. \A t \in Thread : at[t].pc = "away" /\ todo[t] = <<>> /\ Hand(t) = {}
          BY <1>3, <2>5 DEF CountInv, WorkOK, Hand, Away
    <3>2. \A c, d : Owers(c, d, p) = {} BY <3>1 DEF Owers, Owing, Lists
    <3>3. Counted("out", p) = InUse(p)
          BY <3>1, <1>3 DEF Counted, Of, Taken, InUse, PoolInv, PoolTypeOK
    <3>4. Cardinality(Counted("in", p)) = Len(list[p])
      <4>1. list[p] \in Seq(Buffer) /\ OnceEach(list[p])
            BY <1>3 DEF PoolInv, PoolTypeOK, Blocks, ListsApart
      <4> QED BY <4>1, LengthOfOnce DEF Counted
    <3>5. ASSUME NEW c \in Counter PROVE count[c][p] = Cardinality(Counted(c, p))
      <4>1. Cardinality(Counted(c, p)) \in Nat /\ Cardinality({}) = 0
            BY <1>3, CountedFinite, FS_EmptySet DEF PoolInv
      <4>2. Owers(c, 1, p) = {} /\ Owers(c, -1, p) = {} BY <3>2
      <4>3. Due(c, p) = Cardinality(Counted(c, p)) BY <4>1, <4>2 DEF Due
      <4>4. count[c][p] \in 0 .. ULong - 1 /\ count[c][p] \in {Due(c, p), Due(c, p) + ULong}
            BY <1>3 DEF CountInv, CountTypes, CountsDue
      <4> QED BY <4>1, <4>3, <4>4, PoolAssumption
    <3> QED BY <3>3, <3>4, <3>5 DEF Counter
  <2> QED BY <2>4, <2>5
<1> QED BY <1>1, <1>2, <1>3, PoolInvariant, PTL DEF Spec

-----------------------------------------------------------------------------
(* ---- FThreadPool ---- *)

\* A put between its push and its signal has queued a task without a permit.
Unsignalled == IF mutex \in Client THEN 1 ELSE 0

\* Permits, and threads that were given one, never outnumber the tasks.
PermitsCovered ==
    /\ IsFiniteSet(Promised)
    /\ permits + Cardinality(Promised) + Unsignalled <= Len(tasks)

\* A thread has a task exactly while it runs, until it is killed; none was
\* started before init.
RunningHasTask ==
    \A w \in Worker : /\ ~inited => pc[w] = "off"
                      /\ pc[w] = "run" => cur[w] # NoTask
                      /\ pc[w] \in {"off", "wait", "permitted", "locked"} => cur[w] = NoTask

\* A task is handed over by one client; until its push nobody else knows it.
HandedOver ==
    \A c \in Client : put[c] # NoTask =>
       /\ fate[put[c]] # "fresh"
       /\ mutex # c => fate[put[c]] = "adding"
       /\ \A d \in Client \ {c} : put[d] # put[c]

\* What is queued or was begun has been handed over.
Known ==
    /\ \A i \in 1..Len(tasks) : fate[tasks[i]] \notin {"fresh", "adding"}
    /\ \A w \in Worker : cur[w] # NoTask => fate[cur[w]] \notin {"fresh", "adding"}

\* A thread that looks at the queue has its mutex.
LockHeld == \A w \in Worker : pc[w] = "locked" => mutex = w

\* What the proofs about the thread pool carry from step to step.
ThreadPoolInv ==
    /\ TypeOK /\ PermitsCovered /\ PopFindsTask
    /\ RunningHasTask /\ HandedOver /\ Known /\ LockHeld

\* A new thread pool has no task, no thread and no permit.
LEMMA InitThreadPoolInv == ASSUME ThreadPoolInit PROVE ThreadPoolInv
<1>1. TypeOK
  <2>1. tasks \in Seq(Task) BY EmptySeq DEF ThreadPoolInit
  <2>2. permits \in Nat /\ mutex \in Worker \cup Client \cup {Nobody} BY DEF ThreadPoolInit
  <2>3. inited \in BOOLEAN /\ ending \in BOOLEAN BY DEF ThreadPoolInit
  <2>4. pc \in [Worker -> PCs] /\ fate \in [Task -> Fates] BY DEF ThreadPoolInit, PCs, Fates
  <2>5. /\ cur \in [Worker -> Task \cup {NoTask}]
        /\ put \in [Client -> Task \cup {NoTask}]
        BY DEF ThreadPoolInit
  <2> QED BY <2>1, <2>2, <2>3, <2>4, <2>5 DEF TypeOK
<1>2. Promised = {} BY DEF ThreadPoolInit, Promised
<1>3. PermitsCovered
      BY <1>2, FS_EmptySet, ThreadPoolAssumption DEF ThreadPoolInit, PermitsCovered, Unsignalled
<1> QED BY <1>1, <1>3
        DEF ThreadPoolInit, ThreadPoolInv, PopFindsTask, RunningHasTask, HandedOver, Known, LockHeld

\* Each step keeps the types.
LEMMA TypeKept == ASSUME TypeOK, [ThreadPoolNext]_threadPoolVars PROVE TypeOK'
<1> USE DEF TypeOK, PCs, Fates
<1>1. ASSUME NEW S \in SUBSET Worker, InitPool(S) PROVE TypeOK' BY <1>1 DEF InitPool
<1>2. ASSUME NEW c \in Client, NEW o \in Task, AddTask(c, o) PROVE TypeOK'
      BY <1>2 DEF AddTask
<1>3. ASSUME NEW c \in Client, PutPush(c) PROVE TypeOK'
  <2>1. put[c] \in Task BY <1>3 DEF PutPush
  <2>2. Append(tasks, put[c]) \in Seq(Task) BY <2>1, AppendProperties
  <2> QED BY <1>3, <2>1, <2>2 DEF PutPush
<1>4. ASSUME NEW c \in Client, PutSignal(c) PROVE TypeOK'
      BY <1>4 DEF PutSignal, Signalled
<1>5. ASSUME NEW w \in Worker, GetPermit(w) PROVE TypeOK'
      BY <1>5 DEF GetPermit, Permitted
<1>6. ASSUME NEW w \in Worker, GetLock(w) PROVE TypeOK' BY <1>6 DEF GetLock
<1>7. ASSUME NEW w \in Worker, GetPop(w) PROVE TypeOK'
  <2>1. CASE tasks = <<>> BY <1>7, <2>1 DEF GetPop
  <2>2. CASE tasks # <<>>
    <3>1. Head(tasks) \in Task /\ Tail(tasks) \in Seq(Task) BY <2>2, HeadTailProperties
    <3> QED BY <1>7, <2>2, <3>1 DEF GetPop, Rest, OwnerAfterPop
  <2> QED BY <2>1, <2>2
<1>8. ASSUME NEW w \in Worker, TaskReturns(w) PROVE TypeOK' BY <1>8 DEF TaskReturns
<1>9. ASSUME NEW w \in Worker, Kill(w) PROVE TypeOK' BY <1>9 DEF Kill
<1>10. CASE Terminate BY <1>10 DEF Terminate
<1>11. CASE UNCHANGED threadPoolVars BY <1>11 DEF threadPoolVars
<1> QED BY <1>1, <1>2, <1>3, <1>4, <1>5, <1>6, <1>7, <1>8, <1>9, <1>10, <1>11
        DEF ThreadPoolNext, ClientStep, WorkerStep

\* Threads that are promised a task only become fewer: fine if nothing else
\* changes.
LEMMA PromisedFewer ==
    ASSUME TypeOK, PermitsCovered, Promised' \subseteq Promised, permits' = permits,
           mutex' = mutex, tasks' = tasks
    PROVE  PermitsCovered'
<1>1. IsFiniteSet(Promised') /\ Cardinality(Promised') <= Cardinality(Promised)
      BY FS_Subset DEF PermitsCovered
<1>2. Cardinality(Promised) \in Nat /\ Cardinality(Promised') \in Nat
      BY <1>1, FS_CardinalityType DEF PermitsCovered
<1>3. Len(tasks) \in Nat /\ Unsignalled' = Unsignalled /\ Unsignalled \in {0, 1}
      BY DEF TypeOK, Unsignalled
<1> QED BY <1>1, <1>2, <1>3 DEF PermitsCovered, TypeOK

\* A thread stops being promised a task.
LEMMA OneFewer ==
    ASSUME PermitsCovered, NEW w \in Promised, Promised' = Promised \ {w}
    PROVE  /\ IsFiniteSet(Promised')
           /\ Cardinality(Promised') = Cardinality(Promised) - 1
           /\ Cardinality(Promised) \in Nat /\ Cardinality(Promised) >= 1
<1>1. IsFiniteSet(Promised) BY DEF PermitsCovered
<1>2. /\ IsFiniteSet(Promised \ {w})
      /\ Cardinality(Promised \ {w}) = Cardinality(Promised) - 1
      BY <1>1, FS_RemoveElement
<1>3. Cardinality(Promised) \in Nat /\ Cardinality(Promised \ {w}) \in Nat
      BY <1>1, <1>2, FS_CardinalityType
<1> QED BY <1>2, <1>3

\* No step makes the permits outnumber the tasks.
LEMMA PermitsKept == ASSUME ThreadPoolInv, [ThreadPoolNext]_threadPoolVars PROVE PermitsCovered'
<1> USE DEF ThreadPoolInv
<1>0. /\ permits \in Nat /\ Len(tasks) \in Nat /\ Cardinality(Promised) \in Nat
      /\ permits + Cardinality(Promised) + Unsignalled <= Len(tasks)
      BY FS_CardinalityType DEF TypeOK, PermitsCovered
<1>1. ASSUME NEW S \in SUBSET Worker, InitPool(S) PROVE PermitsCovered'
  <2>1. Promised' = {} BY <1>1 DEF InitPool, Promised, TypeOK
  <2> QED BY <1>1, <2>1, PromisedFewer DEF InitPool
<1>2. ASSUME NEW c \in Client, NEW o \in Task, AddTask(c, o) PROVE PermitsCovered'
      BY <1>2, PromisedFewer DEF AddTask, Promised
<1>3. ASSUME NEW c \in Client, PutPush(c) PROVE PermitsCovered'
  <2>1. put[c] \in Task BY <1>3 DEF PutPush, TypeOK
  <2>2. Len(tasks') = Len(tasks) + 1 BY <1>3, <2>1, AppendProperties DEF PutPush, TypeOK
  <2>3. Unsignalled = 0 /\ Unsignalled' = 1
        BY <1>3, ThreadPoolAssumption DEF PutPush, Unsignalled
  <2>4. Promised' = Promised /\ permits' = permits BY <1>3 DEF PutPush, Promised
  <2> QED BY <1>0, <2>2, <2>3, <2>4 DEF PermitsCovered
<1>4. ASSUME NEW c \in Client, PutSignal(c) PROVE PermitsCovered'
  <2>1. Unsignalled = 1 /\ Unsignalled' = 0
        BY <1>4, ThreadPoolAssumption DEF PutSignal, Unsignalled
  <2>2. Promised' = Promised /\ tasks' = tasks /\ permits' = permits + 1
        BY <1>4 DEF PutSignal, Signalled, Promised
  <2> QED BY <1>0, <2>1, <2>2 DEF PermitsCovered
<1>5. ASSUME NEW w \in Worker, GetPermit(w) PROVE PermitsCovered'
  <2>1. Promised' = Promised \cup {w} /\ w \notin Promised
        BY <1>5 DEF GetPermit, Promised, TypeOK
  <2>2. /\ IsFiniteSet(Promised')
        /\ Cardinality(Promised') = Cardinality(Promised) + 1
        BY <2>1, FS_AddElement DEF PermitsCovered
  <2>3. permits > 0 /\ permits' = permits - 1 /\ tasks' = tasks
        /\ Unsignalled' = Unsignalled
        BY <1>5 DEF GetPermit, Permitted, Unsignalled
  <2>4. Unsignalled \in {0, 1} BY DEF Unsignalled
  <2> QED BY <1>0, <2>2, <2>3, <2>4 DEF PermitsCovered
<1>6. ASSUME NEW w \in Worker, GetLock(w) PROVE PermitsCovered'
  <2>1. Promised' = Promised BY <1>6 DEF GetLock, Promised, TypeOK
  <2>2. Unsignalled = 0 /\ Unsignalled' = 0
        BY <1>6, ThreadPoolAssumption DEF GetLock, Unsignalled
  <2> QED BY <1>6, <2>1, <2>2 DEF GetLock, PermitsCovered
<1>7. ASSUME NEW w \in Worker, GetPop(w) PROVE PermitsCovered'
  <2>1. w \in Promised BY <1>7 DEF GetPop, Promised
  <2>2. Promised' = Promised \ {w} BY <1>7 DEF GetPop, Promised, TypeOK
  <2>3. /\ IsFiniteSet(Promised')
        /\ Cardinality(Promised') = Cardinality(Promised) - 1
        /\ Cardinality(Promised) >= 1
        BY <2>1, <2>2, OneFewer
  <2>4. tasks # <<>> BY <1>0, <2>3 DEF Unsignalled
  <2>5. Len(tasks') = Len(tasks) - 1
        BY <1>7, <2>4, HeadTailProperties DEF GetPop, Rest, TypeOK
  <2>6. Unsignalled' = 0 /\ permits' = permits /\ Unsignalled \in {0, 1}
        BY <1>7, <2>4, ThreadPoolAssumption DEF GetPop, OwnerAfterPop, Unsignalled
  <2> QED BY <1>0, <2>3, <2>5, <2>6 DEF PermitsCovered
<1>8. ASSUME NEW w \in Worker, TaskReturns(w) PROVE PermitsCovered'
  <2>1. Promised' \subseteq Promised BY <1>8 DEF TaskReturns, Promised, TypeOK
  <2> QED BY <1>8, <2>1, PromisedFewer DEF TaskReturns
<1>9. ASSUME NEW w \in Worker, Kill(w) PROVE PermitsCovered'
  <2>1. Promised' \subseteq Promised BY <1>9 DEF Kill, Promised, TypeOK
  <2> QED BY <1>9, <2>1, PromisedFewer DEF Kill
<1>10. CASE Terminate BY <1>10, PromisedFewer DEF Terminate, Promised
<1>11. CASE UNCHANGED threadPoolVars BY <1>11, PromisedFewer DEF threadPoolVars, Promised
<1> QED BY <1>1, <1>2, <1>3, <1>4, <1>5, <1>6, <1>7, <1>8, <1>9, <1>10, <1>11
        DEF ThreadPoolNext, ClientStep, WorkerStep

\* A thread that has the mutex and a permit finds a task.
LEMMA LockedFindsTask ==
    ASSUME ThreadPoolInv, NEW w \in Worker, pc[w] = "locked" PROVE tasks # <<>>
<1>1. w \in Promised BY DEF Promised
<1>2. IsFiniteSet(Promised) /\ permits \in Nat /\ Unsignalled \in {0, 1}
      BY DEF ThreadPoolInv, PermitsCovered, TypeOK, Unsignalled
<1>3. Cardinality(Promised) \in Nat BY <1>2, FS_CardinalityType
<1>4. Cardinality(Promised) # 0 BY <1>1, <1>2, FS_EmptySet
<1>5. Len(tasks) >= 1
      BY <1>2, <1>3, <1>4 DEF ThreadPoolInv, PermitsCovered, TypeOK
<1> QED BY <1>5

\* The threads and what they execute.
LEMMA ThreadsKept ==
    ASSUME ThreadPoolInv, [ThreadPoolNext]_threadPoolVars PROVE PopFindsTask' /\ RunningHasTask' /\ LockHeld'
<1> USE DEF ThreadPoolInv, PopFindsTask, RunningHasTask, LockHeld, TypeOK
<1> USE ThreadPoolAssumption
<1>1. ASSUME NEW S \in SUBSET Worker, InitPool(S)
      PROVE  PopFindsTask' /\ RunningHasTask' /\ LockHeld'
  <2>1. \A w \in Worker : cur[w] = NoTask
        BY <1>1 DEF InitPool
  <2> QED BY <1>1, <2>1 DEF InitPool
<1>2. ASSUME NEW c \in Client, NEW o \in Task, AddTask(c, o)
      PROVE  PopFindsTask' /\ RunningHasTask' /\ LockHeld'
      BY <1>2 DEF AddTask
<1>3. ASSUME NEW c \in Client, PutPush(c)
      PROVE  PopFindsTask' /\ RunningHasTask' /\ LockHeld'
      BY <1>3 DEF PutPush
<1>4. ASSUME NEW c \in Client, PutSignal(c)
      PROVE  PopFindsTask' /\ RunningHasTask' /\ LockHeld'
      BY <1>4 DEF PutSignal
<1>5. ASSUME NEW w \in Worker, GetPermit(w)
      PROVE  PopFindsTask' /\ RunningHasTask' /\ LockHeld'
      BY <1>5 DEF GetPermit
<1>6. ASSUME NEW w \in Worker, GetLock(w)
      PROVE  PopFindsTask' /\ RunningHasTask' /\ LockHeld'
      BY <1>6 DEF GetLock
<1>7. ASSUME NEW w \in Worker, GetPop(w)
      PROVE  PopFindsTask' /\ RunningHasTask' /\ LockHeld'
  <2>1. tasks # <<>> BY <1>7, LockedFindsTask DEF GetPop
  <2>2. Head(tasks) \in Task BY <2>1, HeadTailProperties
  <2> QED BY <1>7, <2>1, <2>2 DEF GetPop, OwnerAfterPop
<1>8. ASSUME NEW w \in Worker, TaskReturns(w)
      PROVE  PopFindsTask' /\ RunningHasTask' /\ LockHeld'
      BY <1>8 DEF TaskReturns
<1>9. ASSUME NEW w \in Worker, Kill(w)
      PROVE  PopFindsTask' /\ RunningHasTask' /\ LockHeld'
      BY <1>9 DEF Kill
<1>10. CASE Terminate BY <1>10 DEF Terminate
<1>11. CASE UNCHANGED threadPoolVars BY <1>11 DEF threadPoolVars
<1> QED BY <1>1, <1>2, <1>3, <1>4, <1>5, <1>6, <1>7, <1>8, <1>9, <1>10, <1>11
        DEF ThreadPoolNext, ClientStep, WorkerStep

\* The tasks and those who know them.
LEMMA TasksKept == ASSUME ThreadPoolInv, [ThreadPoolNext]_threadPoolVars PROVE HandedOver' /\ Known'
<1> USE DEF ThreadPoolInv, HandedOver, Known, LockHeld, TypeOK
<1> USE ThreadPoolAssumption
<1>1. ASSUME NEW S \in SUBSET Worker, InitPool(S) PROVE HandedOver' /\ Known'
      BY <1>1 DEF InitPool
<1>2. ASSUME NEW c \in Client, NEW o \in Task, AddTask(c, o) PROVE HandedOver' /\ Known'
  <2>1. HandedOver' BY <1>2 DEF AddTask
  <2>2. \A i \in 1..Len(tasks) : tasks[i] \in Task OBVIOUS
  <2>3. Known' BY <1>2, <2>2 DEF AddTask
  <2> QED BY <2>1, <2>3
<1>3. ASSUME NEW c \in Client, PutPush(c) PROVE HandedOver' /\ Known'
  <2>1. put[c] \in Task BY <1>3 DEF PutPush
  <2>2. /\ Len(tasks') = Len(tasks) + 1
        /\ \A i \in 1..Len(tasks) : tasks'[i] = tasks[i] /\ tasks[i] \in Task
        /\ tasks'[Len(tasks) + 1] = put[c]
        BY <1>3, <2>1, AppendProperties DEF PutPush
  <2>3. HandedOver' BY <1>3, <2>1 DEF PutPush
  <2>4. Known' BY <1>3, <2>1, <2>2 DEF PutPush
  <2> QED BY <2>3, <2>4
<1>4. ASSUME NEW c \in Client, PutSignal(c) PROVE HandedOver' /\ Known'
      BY <1>4 DEF PutSignal
<1>5. ASSUME NEW w \in Worker, GetPermit(w) PROVE HandedOver' /\ Known'
      BY <1>5 DEF GetPermit
<1>6. ASSUME NEW w \in Worker, GetLock(w) PROVE HandedOver' /\ Known'
      BY <1>6 DEF GetLock
<1>7. ASSUME NEW w \in Worker, GetPop(w) PROVE HandedOver' /\ Known'
  <2>1. tasks # <<>> BY <1>7, LockedFindsTask DEF GetPop
  <2>2. /\ Head(tasks) = tasks[1] /\ Head(tasks) \in Task
        /\ Len(Tail(tasks)) = Len(tasks) - 1
        /\ \A i \in 1..Len(Tail(tasks)) : Tail(tasks)[i] = tasks[i + 1]
        BY <2>1, HeadTailProperties
  <2>3. fate[Head(tasks)] \notin {"fresh", "adding"} BY <2>1, <2>2
  <2>4. mutex = w /\ mutex \notin Client /\ mutex' = Nobody
        BY <1>7, <2>1 DEF GetPop, OwnerAfterPop
  <2>5. HandedOver' BY <1>7, <2>1, <2>2, <2>3, <2>4 DEF GetPop
  <2>6. /\ tasks' = Tail(tasks)
        /\ fate' = [fate EXCEPT ![Head(tasks)] = "running"]
        /\ cur' = [cur EXCEPT ![w] = Head(tasks)]
        BY <1>7, <2>1 DEF GetPop, Rest
  <2>7. \A o \in Task : fate[o] \notin {"fresh", "adding"} => fate'[o] \notin {"fresh", "adding"}
        BY <2>2, <2>6
  <2>8. \A i \in 1..Len(tasks') : tasks'[i] \in Task /\ fate[tasks'[i]] \notin {"fresh", "adding"}
        BY <2>2, <2>6
  <2>9. \A v \in Worker : cur'[v] # NoTask =>
           cur'[v] \in Task /\ fate[cur'[v]] \notin {"fresh", "adding"}
        BY <2>2, <2>3, <2>6
  <2> QED BY <2>5, <2>7, <2>8, <2>9
<1>8. ASSUME NEW w \in Worker, TaskReturns(w) PROVE HandedOver' /\ Known'
  <2>1. cur[w] \in Task /\ fate[cur[w]] \notin {"fresh", "adding"}
        BY <1>8 DEF TaskReturns, RunningHasTask
  <2>2. HandedOver' BY <1>8, <2>1 DEF TaskReturns
  <2>3. \A i \in 1..Len(tasks) : tasks[i] \in Task OBVIOUS
  <2>4. Known' BY <1>8, <2>1, <2>3 DEF TaskReturns
  <2> QED BY <2>2, <2>4
<1>9. ASSUME NEW w \in Worker, Kill(w) PROVE HandedOver' /\ Known' BY <1>9 DEF Kill
<1>10. CASE Terminate BY <1>10 DEF Terminate
<1>11. CASE UNCHANGED threadPoolVars BY <1>11 DEF threadPoolVars
<1> QED BY <1>1, <1>2, <1>3, <1>4, <1>5, <1>6, <1>7, <1>8, <1>9, <1>10, <1>11
        DEF ThreadPoolNext, ClientStep, WorkerStep

\* The invariant holds always.
LEMMA ThreadPoolInvariant == ThreadPoolSpec => []ThreadPoolInv
<1>1. ThreadPoolInit => ThreadPoolInv BY InitThreadPoolInv
<1>2. ThreadPoolInv /\ [ThreadPoolNext]_threadPoolVars => ThreadPoolInv'
      BY TypeKept, PermitsKept, ThreadsKept, TasksKept DEF ThreadPoolInv
<1> QED BY <1>1, <1>2, PTL DEF ThreadPoolSpec

\* The variables of the pool always have their types.
THEOREM PoolTypeCorrect == ThreadPoolSpec => []TypeOK
<1>1. ThreadPoolInv => TypeOK BY DEF ThreadPoolInv
<1> QED BY <1>1, ThreadPoolInvariant, PTL

\* get() never takes from an empty queue, with any number of threads and
\* clients, and wherever threads are killed.
THEOREM TakesWhatIsThere == ThreadPoolSpec => []PopFindsTask
<1>1. ThreadPoolInv => PopFindsTask BY DEF ThreadPoolInv
<1> QED BY <1>1, ThreadPoolInvariant, PTL

\* The pool begins with nothing queued and nothing executing.
LEMMA RefinesInit == ASSUME ThreadPoolInit PROVE Abs!AbsInit
BY DEF ThreadPoolInit, Abs!AbsInit

\* Every step of the pool is a step of the abstract queue or none.
LEMMA RefinesStep ==
    ASSUME ThreadPoolInv, [ThreadPoolNext]_threadPoolVars PROVE [Abs!AbsNext]_(Abs!absVars)
<1> DEFINE abs == [o \in Task |-> IF fate[o] = "adding" THEN "fresh" ELSE fate[o]]
<1> USE DEF ThreadPoolInv, TypeOK
<1>a. ASSUME tasks' = tasks, cur' = cur, fate' = fate PROVE UNCHANGED Abs!absVars
      BY <1>a DEF Abs!absVars
<1>1. ASSUME NEW S \in SUBSET Worker, InitPool(S) PROVE UNCHANGED Abs!absVars
      BY <1>1, <1>a DEF InitPool
<1>2. ASSUME NEW c \in Client, NEW o \in Task, AddTask(c, o) PROVE UNCHANGED Abs!absVars
      BY <1>2 DEF AddTask, Abs!absVars
<1>3. ASSUME NEW c \in Client, PutPush(c) PROVE Abs!AbsNext
  <2>1. PICK o \in Task : o = put[c] BY <1>3 DEF PutPush
  <2>2. fate[o] = "adding"
        BY <1>3, <2>1, ThreadPoolAssumption DEF PutPush, HandedOver
  <2>3. abs' = [abs EXCEPT ![o] = "queued"] BY <1>3, <2>1 DEF PutPush
  <2>4. abs[o] = "fresh" BY <2>2
  <2>5. Abs!Accept(o) BY <1>3, <2>1, <2>3, <2>4 DEF PutPush, Abs!Accept
  <2> QED BY <2>5 DEF Abs!AbsNext
<1>4. ASSUME NEW c \in Client, PutSignal(c) PROVE UNCHANGED Abs!absVars
      BY <1>4, <1>a DEF PutSignal
<1>5. ASSUME NEW w \in Worker, GetPermit(w) PROVE UNCHANGED Abs!absVars
      BY <1>5, <1>a DEF GetPermit
<1>6. ASSUME NEW w \in Worker, GetLock(w) PROVE UNCHANGED Abs!absVars
      BY <1>6, <1>a DEF GetLock
<1>7. ASSUME NEW w \in Worker, GetPop(w) PROVE Abs!AbsNext
  <2>1. tasks # <<>> BY <1>7, LockedFindsTask DEF GetPop
  <2>2. Head(tasks) \in Task BY <2>1, HeadTailProperties
  <2>3. cur[w] = NoTask BY <1>7 DEF GetPop, RunningHasTask
  <2>4. /\ tasks' = Tail(tasks)
        /\ cur' = [cur EXCEPT ![w] = Head(tasks)]
        /\ fate' = [fate EXCEPT ![Head(tasks)] = "running"]
        BY <1>7, <2>1 DEF GetPop, Rest
  <2>5. abs' = [abs EXCEPT ![Head(tasks)] = "running"] BY <2>2, <2>4
  <2>6. Abs!Busy \subseteq Worker \ {w} BY <2>3 DEF Abs!Busy
  <2>7. /\ IsFiniteSet(Worker \ {w})
        /\ Cardinality(Worker \ {w}) = Cardinality(Worker) - 1
        BY ThreadPoolAssumption, FS_RemoveElement
  <2>8. /\ Cardinality(Abs!Busy) \in Nat /\ Cardinality(Worker) \in Nat
        /\ Cardinality(Abs!Busy) <= Cardinality(Worker \ {w})
        BY <2>6, <2>7, ThreadPoolAssumption, FS_Subset, FS_CardinalityType
  <2>9. Cardinality(Abs!Busy) < Cardinality(Worker) BY <2>7, <2>8
  <2>10. Abs!Cardinality(Abs!Busy) = Cardinality(Abs!Busy)
         BY DEF Abs!Cardinality, Cardinality, Abs!IsFiniteSet, IsFiniteSet
  <2>11. Abs!Begin(w) BY <2>1, <2>3, <2>4, <2>5, <2>9, <2>10 DEF Abs!Begin
  <2> QED BY <2>11 DEF Abs!AbsNext
<1>8. ASSUME NEW w \in Worker, TaskReturns(w) PROVE Abs!AbsNext
  <2>1. cur[w] \in Task /\ cur[w] # NoTask BY <1>8 DEF TaskReturns, RunningHasTask
  <2>2. abs' = [abs EXCEPT ![cur[w]] = "done"] BY <1>8, <2>1 DEF TaskReturns
  <2>3. Abs!Finish(w) BY <1>8, <2>1, <2>2 DEF TaskReturns, Abs!Finish
  <2> QED BY <2>3 DEF Abs!AbsNext
<1>9. ASSUME NEW w \in Worker, Kill(w) PROVE UNCHANGED Abs!absVars
      BY <1>9, <1>a DEF Kill
<1>10. ASSUME Terminate PROVE UNCHANGED Abs!absVars BY <1>10, <1>a DEF Terminate
<1>11. ASSUME UNCHANGED threadPoolVars PROVE UNCHANGED Abs!absVars BY <1>11, <1>a DEF threadPoolVars
<1> QED BY <1>1, <1>2, <1>3, <1>4, <1>5, <1>6, <1>7, <1>8, <1>9, <1>10, <1>11
        DEF ThreadPoolNext, ClientStep, WorkerStep

\* The pool keeps the promises of the abstract queue: tasks begin in the order
\* in which they were pushed, each once, in threads that have none.
THEOREM PoolRefines == ThreadPoolSpec => ImplementsTaskQueue
<1>1. ThreadPoolInit => Abs!AbsInit BY RefinesInit
<1>2. ThreadPoolInv /\ [ThreadPoolNext]_threadPoolVars => [Abs!AbsNext]_(Abs!absVars) BY RefinesStep
<1> QED BY <1>1, <1>2, ThreadPoolInvariant, PTL DEF ThreadPoolSpec, ImplementsTaskQueue, Abs!AbsSpec
=============================================================================
