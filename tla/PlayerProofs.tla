---------------------------- MODULE PlayerProofs ----------------------------
(***************************************************************************)
(* Theorems about the sound buffers, for every pool: PlayerQueue conserves *)
(* its buffers whatever calls are made, and CBasePlayer makes no others;   *)
(* and why the player reports no song as finished that was stopped.        *)
(***************************************************************************)
EXTENDS BasePlayer, SequenceTheorems, TLAPS

(* Every buffer of the pool once, the free ones first.                     *)
Pool == free \o queued

-----------------------------------------------------------------------------
(* Cutting a sequence in two loses nothing.                                *)
LEMMA CutInTwo ==
    ASSUME NEW S, NEW s \in Seq(S), NEW k \in 0 .. Len(s)
    PROVE  /\ SubSeq(s, 1, k) \in Seq(S) /\ SubSeq(s, k + 1, Len(s)) \in Seq(S)
           /\ SubSeq(s, 1, k) \o SubSeq(s, k + 1, Len(s)) = s
  <1>1. \A i \in 1 .. k : s[i] \in S
    BY ElementOfSeq
  <1>2. \A i \in k + 1 .. Len(s) : s[i] \in S
    BY ElementOfSeq
  <1>3. SubSeq(s, 1, k) \in Seq(S)
    BY <1>1, SubSeqProperties
  <1>4. SubSeq(s, k + 1, Len(s)) \in Seq(S)
    BY <1>2, SubSeqProperties
  <1>5. SubSeq(s, 1, k) \o SubSeq(s, k + 1, Len(s)) = SubSeq(s, 1, Len(s))
    <2>1. 1 \in 1 .. Len(s) + 1 /\ k \in 1 - 1 .. Len(s) /\ Len(s) \in k .. Len(s)
      OBVIOUS
    <2> QED
      BY <2>1, ConcatAdjacentSubSeq
  <1>6. SubSeq(s, 1, Len(s)) = s
    BY SubSeqFull
  <1> QED
    BY <1>3, <1>4, <1>5, <1>6

(* Taking back what was played leaves the pool as it was.                  *)
LEMMA ReclaimKeepsPool ==
    ASSUME PoolTypeOK
    PROVE  /\ Idle \in Seq(Buffers) /\ InUse \in Seq(Buffers)
           /\ Idle \o InUse = Pool
  <1>1. /\ SubSeq(queued, 1, played) \in Seq(Buffers)
        /\ InUse \in Seq(Buffers)
        /\ SubSeq(queued, 1, played) \o InUse = queued
    BY CutInTwo DEF PoolTypeOK, InUse
  <1>2. Idle \in Seq(Buffers)
    BY <1>1, ConcatProperties DEF PoolTypeOK, Idle
  <1>3. Idle \o InUse = free \o (SubSeq(queued, 1, played) \o InUse)
    <2>1. \A a, b, c \in Seq(Buffers) : (a \o b) \o c = a \o (b \o c)
      BY ConcatAssociative
    <2>2. free \in Seq(Buffers)
      BY DEF PoolTypeOK
    <2> QED
      BY <1>1, <2>1, <2>2 DEF Idle
  <1> QED
    BY <1>1, <1>2, <1>3 DEF Pool

(* Moving the first element of a sequence to its end.                      *)
LEMMA Rotation ==
    ASSUME NEW S, NEW s \in Seq(S), NEW t \in Seq(S), s # <<>>
    PROVE  /\ Tail(s) \o Append(t, Head(s)) \in Seq(S)
           /\ Elements(Tail(s) \o Append(t, Head(s))) = Elements(s \o t)
           /\ Distinct(s \o t) => Distinct(Tail(s) \o Append(t, Head(s)))
  <1> DEFINE r == Tail(s) \o Append(t, Head(s))
             n == Len(s) + Len(t)
  <1>1. Head(s) = s[1] /\ Len(s) \in Nat \ {0} /\ Len(t) \in Nat
    BY EmptySeq
  <1>2. Head(s) \in S /\ Tail(s) \in Seq(S) /\ Len(Tail(s)) = Len(s) - 1
        /\ \A i \in 1 .. Len(s) - 1 : Tail(s)[i] = s[i + 1]
    BY HeadTailProperties
  <1>3. /\ Append(t, Head(s)) \in Seq(S) /\ Len(Append(t, Head(s))) = Len(t) + 1
        /\ \A i \in 1 .. Len(t) : Append(t, Head(s))[i] = t[i]
        /\ Append(t, Head(s))[Len(t) + 1] = Head(s)
    BY <1>2, AppendProperties
  <1>4. /\ s \o t \in Seq(S) /\ Len(s \o t) = n
        /\ \A i \in 1 .. n : (s \o t)[i] = IF i <= Len(s) THEN s[i] ELSE t[i - Len(s)]
    BY ConcatProperties
  <1>5. /\ r \in Seq(S) /\ Len(r) = n
        /\ \A i \in 1 .. n : r[i] = IF i <= Len(s) - 1 THEN Tail(s)[i]
                                    ELSE Append(t, Head(s))[i - (Len(s) - 1)]
    BY <1>1, <1>2, <1>3, ConcatProperties
  <1> HIDE DEF r
  <1>6. \A i \in 1 .. n : r[i] = (s \o t)[IF i = n THEN 1 ELSE i + 1]
    <2> TAKE i \in 1 .. n
    <2>1. CASE i <= Len(s) - 1
      BY <2>1, <1>1, <1>2, <1>4, <1>5
    <2>2. CASE i > Len(s) - 1 /\ i # n
      <3>1. i - (Len(s) - 1) \in 1 .. Len(t) /\ i + 1 \in 1 .. n /\ ~(i + 1 <= Len(s))
        BY <2>2, <1>1
      <3>2. r[i] = t[i - (Len(s) - 1)]
        BY <3>1, <2>2, <1>1, <1>3, <1>5
      <3>3. (s \o t)[i + 1] = t[i + 1 - Len(s)]
        BY <3>1, <1>4
      <3>4. i - (Len(s) - 1) = i + 1 - Len(s)
        BY <1>1
      <3> QED
        BY <2>2, <3>2, <3>3, <3>4
    <2>3. CASE i = n
      <3>1. r[n] = s[1]
        BY <2>3, <1>1, <1>3, <1>5
      <3>2. (s \o t)[1] = s[1]
        BY <1>1, <1>4
      <3> QED
        BY <2>3, <3>1, <3>2
    <2> QED
      BY <2>1, <2>2, <2>3, <1>1
  <1>0. /\ Elements(r) = {r[i] : i \in 1 .. n}
        /\ Elements(s \o t) = {(s \o t)[i] : i \in 1 .. n}
    BY <1>4, <1>5 DEF Elements
  <1>7. Elements(r) \subseteq Elements(s \o t)
    <2>1. \A i \in 1 .. n : (IF i = n THEN 1 ELSE i + 1) \in 1 .. n
      BY <1>1
    <2> QED
      BY <1>0, <1>6, <2>1
  <1>8. Elements(s \o t) \subseteq Elements(r)
    <2> SUFFICES ASSUME NEW j \in 1 .. n PROVE \E i \in 1 .. n : r[i] = (s \o t)[j]
      BY <1>0
    <2>1. CASE j = 1
      BY <2>1, <1>1, <1>6
    <2>2. CASE j # 1
      <3>1. j - 1 \in 1 .. n /\ j - 1 # n /\ (j - 1) + 1 = j
        BY <2>2, <1>1
      <3> QED
        BY <3>1, <1>6
    <2> QED
      BY <2>1, <2>2
  <1>9. ASSUME Distinct(s \o t) PROVE Distinct(r)
    <2> SUFFICES ASSUME NEW i \in 1 .. n, NEW j \in 1 .. n, i # j PROVE r[i] # r[j]
      BY <1>5 DEF Distinct
    <2> DEFINE next(k) == IF k = n THEN 1 ELSE k + 1
    <2>1. next(i) \in 1 .. n /\ next(j) \in 1 .. n /\ next(i) # next(j)
      BY <1>1
    <2>2. r[i] = (s \o t)[next(i)] /\ r[j] = (s \o t)[next(j)]
      BY <1>6
    <2> QED
      BY <2>1, <2>2, <1>4, <1>9 DEF Distinct
  <1> QED
    BY <1>5, <1>7, <1>8, <1>9 DEF r

(* Dropping the first element of a sequence.                               *)
LEMMA DropFirst ==
    ASSUME NEW S, NEW s \in Seq(S), NEW t \in Seq(S), s # <<>>, Distinct(s \o t)
    PROVE  /\ Distinct(Tail(s) \o t)
           /\ Elements(Tail(s) \o t) = Elements(s \o t) \ {Head(s)}
  <1> DEFINE r == Tail(s) \o t
             n == Len(s) + Len(t)
  <1>1. Head(s) = s[1] /\ Len(s) \in Nat \ {0} /\ Len(t) \in Nat
    BY EmptySeq
  <1>2. Tail(s) \in Seq(S) /\ Len(Tail(s)) = Len(s) - 1
        /\ \A i \in 1 .. Len(s) - 1 : Tail(s)[i] = s[i + 1]
    BY HeadTailProperties
  <1>4. /\ Len(s \o t) = n
        /\ \A i \in 1 .. n : (s \o t)[i] = IF i <= Len(s) THEN s[i] ELSE t[i - Len(s)]
    BY ConcatProperties
  <1>5. /\ Len(r) = n - 1
        /\ \A i \in 1 .. n - 1 : r[i] = IF i <= Len(s) - 1 THEN Tail(s)[i]
                                        ELSE t[i - (Len(s) - 1)]
    BY <1>1, <1>2, ConcatProperties
  <1> HIDE DEF r
  <1>6. \A i \in 1 .. n - 1 : r[i] = (s \o t)[i + 1]
    <2> TAKE i \in 1 .. n - 1
    <2>1. CASE i <= Len(s) - 1
      BY <2>1, <1>1, <1>2, <1>4, <1>5
    <2>2. CASE i > Len(s) - 1
      <3>1. i + 1 \in 1 .. n /\ ~(i + 1 <= Len(s)) /\ i - (Len(s) - 1) = i + 1 - Len(s)
        BY <2>2, <1>1
      <3> QED
        BY <3>1, <2>2, <1>4, <1>5
    <2> QED
      BY <2>1, <2>2, <1>1
  <1>7. (s \o t)[1] = Head(s)
    BY <1>1, <1>4
  <1>8. Elements(r) = Elements(s \o t) \ {Head(s)}
    <2>1. \A i \in 1 .. n - 1 : (s \o t)[i + 1] # Head(s)
      BY <1>1, <1>4, <1>7 DEF Distinct
    <2>2. \A j \in 1 .. n : (s \o t)[j] # Head(s) => j - 1 \in 1 .. n - 1 /\ (j - 1) + 1 = j
      BY <1>1, <1>7
    <2>3. \A i \in 1 .. n - 1 : i + 1 \in 1 .. n
      BY <1>1
    <2>4. /\ Elements(r) = {r[i] : i \in 1 .. n - 1}
          /\ Elements(s \o t) = {(s \o t)[i] : i \in 1 .. n}
      BY <1>4, <1>5 DEF Elements
    <2>5. \A i \in 1 .. n - 1 : r[i] \in Elements(s \o t) \ {Head(s)}
      BY <1>6, <2>1, <2>3, <2>4
    <2>6. ASSUME NEW j \in 1 .. n, (s \o t)[j] # Head(s)
          PROVE  (s \o t)[j] \in Elements(r)
      <3>1. r[j - 1] = (s \o t)[j]
        BY <1>6, <2>2, <2>6
      <3> QED
        BY <2>2, <2>4, <2>6, <3>1
    <2> QED
      BY <2>4, <2>5, <2>6
  <1>9. Distinct(r)
    <2> SUFFICES ASSUME NEW i \in 1 .. n - 1, NEW j \in 1 .. n - 1, i # j PROVE r[i] # r[j]
      BY <1>5 DEF Distinct
    <2>1. i + 1 \in 1 .. n /\ j + 1 \in 1 .. n /\ i + 1 # j + 1
      BY <1>1
    <2>2. \A k, l \in 1 .. n : k # l => (s \o t)[k] # (s \o t)[l]
      BY <1>4 DEF Distinct
    <2>3. (s \o t)[i + 1] # (s \o t)[j + 1]
      BY <2>1, <2>2
    <2> QED
      BY <2>3, <1>6
  <1> QED
    BY <1>8, <1>9 DEF r

-----------------------------------------------------------------------------
PoolInv == PoolTypeOK /\ PoolConserved

LEMMA PoolInvInit == PoolInit => PoolInv
  <1> SUFFICES ASSUME PoolInit PROVE PoolInv
    OBVIOUS
  <1>1. Header \o <<>> = Header
    BY HeaderAssumption, ConcatEmptySeq
  <1> QED
    BY <1>1, HeaderAssumption, EmptySeq
       DEF PoolInit, PoolInv, PoolTypeOK, PoolConserved, SourceStates

LEMMA PushKeepsPool == ASSUME PoolInv, NEW ok \in BOOLEAN, Push(ok) PROVE PoolInv'
  <1>1. /\ Idle \in Seq(Buffers) /\ InUse \in Seq(Buffers)
        /\ Idle \o InUse = free \o queued
    BY ReclaimKeepsPool DEF PoolInv, Pool
  <1>2. played' = 0 /\ UNCHANGED source
    BY DEF Push
  <1>3. CASE Idle = <<>>
    <2>1. free' = Idle /\ queued' = InUse /\ UNCHANGED lost
      BY <1>3 DEF Push
    <2>2. free' \o queued' = free \o queued
      BY <1>1, <2>1
    <2>3. PoolConserved'
      BY <2>1, <2>2 DEF PoolInv, PoolConserved
    <2> QED
      BY <1>1, <1>2, <2>1, <2>3 DEF PoolInv, PoolTypeOK
  <1>4. CASE Idle # <<>>
    <2>1. /\ Head(Idle) \in Buffers
          /\ Tail(Idle) \in Seq(Buffers)
      BY <1>1, <1>4, HeadTailProperties
    <2>2. free' = Tail(Idle)
      BY <1>4 DEF Push
    <2>3. CASE ok
      <3>1. queued' = Append(InUse, Head(Idle)) /\ UNCHANGED lost
        BY <1>4, <2>3 DEF Push
      <3>2. queued' \in Seq(Buffers) /\ played' \in 0 .. Len(queued')
        BY <1>1, <1>2, <2>1, <3>1, AppendProperties
      <3>3. PoolConserved'
        <4>1. /\ Elements(Tail(Idle) \o Append(InUse, Head(Idle))) = Elements(Idle \o InUse)
              /\ Distinct(Idle \o InUse)
                 => Distinct(Tail(Idle) \o Append(InUse, Head(Idle)))
          BY <1>1, <1>4, Rotation
        <4>2. free' \o queued' = Tail(Idle) \o Append(InUse, Head(Idle))
          BY <2>2, <3>1
        <4> QED
          BY <1>1, <3>1, <4>1, <4>2 DEF PoolInv, PoolConserved
      <3> QED
        BY <1>2, <2>1, <2>2, <3>1, <3>2, <3>3 DEF PoolInv, PoolTypeOK
    <2>4. CASE ~ok
      <3>1. queued' = InUse /\ lost' = lost \cup {Head(Idle)}
        BY <1>4, <2>4 DEF Push
      <3>2. queued' \in Seq(Buffers) /\ played' \in 0 .. Len(queued')
        BY <1>1, <1>2, <3>1
      <3>3. PoolConserved'
        <4>1. Distinct(Idle \o InUse)
          BY <1>1 DEF PoolInv, PoolConserved
        <4>2. /\ Distinct(Tail(Idle) \o InUse)
              /\ Elements(Tail(Idle) \o InUse) = Elements(Idle \o InUse) \ {Head(Idle)}
          BY <1>1, <1>4, <4>1, DropFirst
        <4>3. free' \o queued' = Tail(Idle) \o InUse
          BY <2>2, <3>1
        <4> QED
          BY <1>1, <3>1, <4>2, <4>3 DEF PoolInv, PoolConserved
      <3> QED
        BY <1>2, <2>1, <2>2, <3>1, <3>2, <3>3 DEF PoolInv, PoolTypeOK
    <2> QED
      BY <2>3, <2>4
  <1> QED
    BY <1>3, <1>4

LEMMA PoolInvStep == PoolInv /\ [PoolNext]_pqVars => PoolInv'
  <1> SUFFICES ASSUME PoolInv, [PoolNext]_pqVars PROVE PoolInv'
    OBVIOUS
  <1>1. CASE Reclaim
    <2>1. /\ Idle \in Seq(Buffers) /\ InUse \in Seq(Buffers)
          /\ Idle \o InUse = free \o queued
      BY ReclaimKeepsPool DEF PoolInv, Pool
    <2>2. free' = Idle /\ queued' = InUse /\ played' = 0 /\ UNCHANGED <<source, lost>>
      BY <1>1 DEF Reclaim
    <2>3. free' \o queued' = free \o queued
      BY <2>1, <2>2
    <2>4. PoolConserved'
      BY <2>2, <2>3 DEF PoolInv, PoolConserved
    <2> QED
      BY <2>1, <2>2, <2>4 DEF PoolInv, PoolTypeOK
  <1>2. CASE Play
    <2>1. Len(queued) = 0 <=> queued = <<>>
      BY EmptySeq DEF PoolInv, PoolTypeOK
    <2> QED
      BY <1>2, <2>1 DEF Play, PoolInv, PoolTypeOK, PoolConserved, SourceStates
  <1>3. CASE Pause
    BY <1>3 DEF Pause, PoolInv, PoolTypeOK, PoolConserved, SourceStates
  <1>4. CASE StopQueue
    <2>1. Header \o <<>> = Header
      BY HeaderAssumption, ConcatEmptySeq
    <2> QED
      BY <1>4, <2>1, HeaderAssumption, EmptySeq
         DEF StopQueue, AllFree, PoolInv, PoolTypeOK, PoolConserved, SourceStates
  <1>5. CASE Consume
    BY <1>5 DEF Consume, PoolInv, PoolTypeOK, PoolConserved, SourceStates
  <1>6. ASSUME NEW ok \in BOOLEAN, Push(ok) PROVE PoolInv'
    BY <1>6, PushKeepsPool
  <1>7. CASE UNCHANGED pqVars
    BY <1>7 DEF pqVars, PoolInv, PoolTypeOK, PoolConserved
  <1> QED
    BY <1>1, <1>2, <1>3, <1>4, <1>5, <1>6, <1>7 DEF PoolNext

(* Whatever calls are made of the queue, and whatever the source does      *)
(* meanwhile, no buffer is free and queued at once, none is queued twice,  *)
(* and the only ones missing are those a failure took since the last stop. *)
THEOREM PoolIsConserved == PoolSpec => []PoolConserved
  <1>1. PoolSpec => []PoolInv
    BY PoolInvInit, PoolInvStep, PTL DEF PoolSpec
  <1> QED
    BY <1>1, PTL DEF PoolInv

-----------------------------------------------------------------------------
(* Every step of the player is at most one call of the sound queue: the    *)
(* player implements any-sequence-of-calls, so it inherits the above.      *)
LEMMA PlayerStepsAreCalls == [Next]_vars => [PoolNext]_pqVars
  <1> SUFFICES ASSUME [Next]_vars PROVE [PoolNext]_pqVars
    OBVIOUS
  <1>1. ASSUME NEW c \in Callers, NEW s \in Songs,
               Stop(c) \/ PauseOrContinue(c) \/ SeekPlayPosition(c) \/ CallStep(c)
               \/ StartToPlay(c, s)
        PROVE  UNCHANGED pqVars
    BY <1>1 DEF Stop, PauseOrContinue, SeekPlayPosition, CallStep, StopState, AddSong,
                WriteState, StartToPlay
  <1>2. ASSUME NEW c \in Callers,
               Stop(c) \/ PauseOrContinue(c) \/ SeekPlayPosition(c) \/ CallStep(c)
        PROVE  UNCHANGED pqVars
    BY <1>2 DEF Stop, PauseOrContinue, SeekPlayPosition, CallStep, StopState, AddSong,
                WriteState
  <1>3. CASE WorkerStep
    <2>1. CASE \/ TakeSong \/ EnterPlay \/ Loop \/ SeekFails \/ FillStop \/ FillError
               \/ FillNothing \/ FillPart \/ SyncRead \/ Ended \/ SetStop \/ PlayReturns
               \/ \E n \in 0 .. MaxChunks : OpenSong(n)
      BY <2>1 DEF TakeSong, EnterPlay, Loop, SeekFails, FillStop, FillError, FillNothing,
                  FillPart, SyncRead, Ended, SetStop, PlayReturns, OpenSong
    <2>2. CASE Count \/ Look
      BY <2>2 DEF Count, Look, PoolNext
    <2>3. CASE Start \/ Finish \/ \E n \in 0 .. MaxChunks : SeekDone(n)
      BY <2>3 DEF Start, Finish, SeekDone, PoolNext
    <2>4. ASSUME NEW ok \in BOOLEAN, FillEnd(ok) \/ FillFull(ok) PROVE [PoolNext]_pqVars
      BY <2>4 DEF FillEnd, FillFull, PoolNext
    <2>5. CASE SyncPlayerState
      <3>1. Play \/ Pause \/ StopQueue \/ UNCHANGED pqVars
        BY <2>5 DEF SyncPlayerState
      <3> QED
        BY <3>1 DEF PoolNext
    <2> QED
      BY <1>3, <2>1, <2>2, <2>3, <2>4, <2>5 DEF WorkerStep
  <1>4. CASE Device
    BY <1>4 DEF Device, PoolNext
  <1>5. CASE UNCHANGED vars
    BY <1>5 DEF vars
  <1> QED
    BY <1>1, <1>2, <1>3, <1>4, <1>5 DEF Next

(* The player never hands the source a buffer it still has to play.        *)
THEOREM PlayerConservesPool == Spec => []PoolConserved
  <1>1. Init => PoolInit
    BY DEF Init
  <1>2. Spec => PoolSpec
    BY <1>1, PlayerStepsAreCalls, PTL DEF Spec, PoolSpec
  <1> QED
    BY <1>2, PoolIsConserved, PTL

-----------------------------------------------------------------------------
(* No step of a caller, of the worker or of the device leaves sound behind *)
(* between songs: only steps with the worker in the loop touch the source, *)
(* and the worker leaves the loop through Finish or never entered it.      *)
LEMMA SilentStep == SilentBetweenSongs /\ [Next]_vars => SilentBetweenSongs'
  <1> SUFFICES ASSUME SilentBetweenSongs, [Next]_vars PROVE SilentBetweenSongs'
    OBVIOUS
  <1> DEFINE InLoop == PlayPCs \ {"ended"}
  <1>1. UNCHANGED <<pc, source, queued, free>> => SilentBetweenSongs'
    BY DEF SilentBetweenSongs
  <1>2. ASSUME NEW c \in Callers,
               \/ Stop(c) \/ PauseOrContinue(c) \/ SeekPlayPosition(c) \/ CallStep(c)
               \/ \E s \in Songs : StartToPlay(c, s)
        PROVE  UNCHANGED <<pc, source, queued, free>>
    BY <1>2 DEF Stop, PauseOrContinue, SeekPlayPosition, CallStep, StopState, AddSong,
                WriteState, StartToPlay, pqVars
  <1>3. CASE WorkerStep
    <2>1. ASSUME pc \notin InLoop, UNCHANGED pqVars PROVE SilentBetweenSongs'
      BY <2>1 DEF SilentBetweenSongs, pqVars
    <2>2. CASE TakeSong \/ EnterPlay \/ Ended \/ SetStop \/ PlayReturns
               \/ \E n \in 0 .. MaxChunks : OpenSong(n)
      <3>1. pc \notin InLoop /\ UNCHANGED pqVars
        BY <2>2 DEF TakeSong, EnterPlay, Ended, SetStop, PlayReturns, OpenSong, PlayPCs
      <3> QED
        BY <2>1, <3>1
    <2>3. CASE \/ Loop \/ SeekFails \/ Count \/ FillStop \/ FillError \/ FillNothing
               \/ FillPart \/ SyncRead \/ SyncPlayerState \/ Look \/ Start
               \/ \E n \in 0 .. MaxChunks : SeekDone(n)
               \/ \E ok \in BOOLEAN : FillEnd(ok) \/ FillFull(ok)
      <3>1. pc \in InLoop /\ (pc' = pc \/ pc' \in InLoop)
        BY <2>3 DEF Loop, SeekFails, Count, FillStop, FillError, FillNothing, FillPart,
                    SyncRead, SyncPlayerState, Look, Start, SeekDone, FillEnd, FillFull,
                    Filling, PlayPCs
      <3> QED
        BY <3>1 DEF SilentBetweenSongs
    <2>4. CASE Finish
      BY <2>4 DEF Finish, StopQueue, AllFree, SilentBetweenSongs
    <2> QED
      BY <1>3, <2>2, <2>3, <2>4 DEF WorkerStep
  <1>4. CASE Device
    <2>1. pc' = pc /\ source = "playing"
      BY <1>4 DEF Device, Consume
    <2> QED
      BY <2>1 DEF SilentBetweenSongs
  <1>5. CASE UNCHANGED vars
    BY <1>5, <1>1 DEF vars, pqVars
  <1> QED
    BY <1>1, <1>2, <1>3, <1>4, <1>5 DEF Next

(* Between songs the source is silent and every buffer is in the pool,     *)
(* those a refused call lost included.                                     *)
THEOREM PlayerIsSilent == Spec => []SilentBetweenSongs
  <1>1. Init => SilentBetweenSongs
    BY DEF Init, PoolInit, SilentBetweenSongs
  <1> QED
    BY <1>1, SilentStep, PTL DEF Spec

-----------------------------------------------------------------------------
(* Why a song that was stopped is never reported as finished.              *)

Fates == {"fresh", "queued", "running", "done", "cancelled"}
Calls == {"none", "start", "stop", "add", "pause", "continue"}

(* The requests are those of the queue: a waiting one waits once, and the  *)
(* worker runs one exactly while it is in Play.                            *)
RequestsOK ==
    /\ pending \in Seq(Songs)
    /\ fate \in [Songs -> Fates]
    /\ exec \in [{worker} -> Songs \cup {NoSong}]
    /\ call \in [Callers -> Calls]
    /\ \A c \in Callers : call[c] \in {"start", "add"} => arg[c] \in Songs
    /\ arg \in [Callers -> Songs \cup {NoSong}]
    /\ pc \in PlayPCs \cup {"off", "play", "open", "setStop", "notify"}
    /\ \A i \in 1 .. Len(pending) : fate[pending[i]] = "queued"
    /\ Distinct(pending)
    /\ pc = "off" => song = NoSong
    /\ pc # "off" => song \in Songs /\ fate[song] = "running"

(* What the histories hold has been begun; what was reported is over.      *)
HistoriesOK ==
    /\ \A s \in halted : s \in Songs /\ fate[s] \in {"running", "done"}
    /\ \A s \in nexts : s \in Songs /\ fate[s] = "done"

(* The state in which a song was stopped lasts as long as the song does,   *)
(* and no caller is about to overwrite it.                                 *)
HaltLasts ==
    /\ pc \in PlayPCs /\ song \in halted =>
          state = "stop" /\ \A c \in Callers : call[c] \notin {"pause", "continue"}
    /\ pc \in {"play", "open"} => song \notin halted
    /\ pc \in {"setStop", "notify"} /\ isNextSong => song \notin halted

NextInv == RequestsOK /\ HistoriesOK /\ HaltLasts /\ NextMeansFinished

OneCaller == \A b, c \in Callers : b = c

LEMMA NextInvInit == Init => NextInv
  <1> QED
    BY SongsAssumption DEF Init, NextInv, RequestsOK, HistoriesOK, HaltLasts,
       NextMeansFinished, Distinct, PlayPCs, song, Fates, Calls

(* Steps of the worker inside the loop of a song.                          *)
LEMMA LoopKeepsNext ==
    ASSUME NextInv, pc \in PlayPCs, pc' \in PlayPCs,
           UNCHANGED <<state, pending, exec, fate, isNextSong, call, arg, halted, nexts>>
    PROVE  NextInv'
  <1> QED
    BY DEF NextInv, RequestsOK, HistoriesOK, HaltLasts, NextMeansFinished, PlayPCs, song, Distinct

LEMMA SameKeepsNext ==
    ASSUME NextInv,
           UNCHANGED <<state, pending, exec, fate, pc, isNextSong, call, arg, halted, nexts>>
    PROVE  NextInv'
  <1> QED
    BY DEF NextInv, RequestsOK, HistoriesOK, HaltLasts, NextMeansFinished, song, Distinct

(* What waits is cancelled: by Stop, or by a request that will follow.      *)
LEMMA DropKeepsNext ==
    ASSUME NextInv, Queue!Drop, NEW c \in Callers, call[c] = "none",
           UNCHANGED <<state, pc, isNextSong, halted, nexts>>,
           NEW k \in {"start", "stop"}, call' = [call EXCEPT ![c] = k],
           \/ k = "stop" /\ arg' = arg
           \/ \E s \in Songs : arg' = [arg EXCEPT ![c] = s]
    PROVE  NextInv'
  <1>1. /\ pending' = <<>> /\ exec' = exec
        /\ fate' = [o \in Songs |-> IF fate[o] = "queued" THEN "cancelled" ELSE fate[o]]
    BY DEF Queue!Drop
  <1>2. RequestsOK'
    <2>1. /\ fate' \in [Songs -> Fates]
          /\ pending' \in Seq(Songs) /\ Len(pending') = 0
          /\ exec' \in [{worker} -> Songs \cup {NoSong}]
      BY <1>1 DEF NextInv, RequestsOK, Fates
    <2>2. /\ call' \in [Callers -> Calls]
          /\ arg' \in [Callers -> Songs \cup {NoSong}]
      BY DEF NextInv, RequestsOK, Calls
    <2>3. \A b \in Callers : call'[b] \in {"start", "add"} => arg'[b] \in Songs
      BY DEF NextInv, RequestsOK
    <2>4. song' = song
      BY <1>1 DEF song
    <2>5. pc # "off" => song \in Songs /\ fate'[song] = "running"
      BY <1>1 DEF NextInv, RequestsOK
    <2> QED
      BY <2>1, <2>2, <2>3, <2>4, <2>5 DEF NextInv, RequestsOK, Distinct
  <1>3. HistoriesOK'
    BY <1>1 DEF NextInv, HistoriesOK
  <1>4. HaltLasts'
    BY <1>1 DEF NextInv, RequestsOK, HaltLasts, song
  <1> QED
    BY <1>2, <1>3, <1>4 DEF NextInv, NextMeansFinished

(* The request joins the queue.                                            *)
LEMMA AddKeepsNext == ASSUME NextInv, NEW c \in Callers, AddSong(c) PROVE NextInv'
  <1> DEFINE s == arg[c]
  <1>1. /\ call[c] = "add" /\ s \in Songs /\ fate[s] = "fresh"
        /\ pending' = Append(pending, s) /\ fate' = [fate EXCEPT ![s] = "queued"]
        /\ exec' = exec /\ call' = [call EXCEPT ![c] = "none"]
        /\ arg' = [arg EXCEPT ![c] = NoSong]
        /\ UNCHANGED <<state, pc, isNextSong, halted, nexts>>
    BY DEF AddSong, Queue!Accept, NextInv, RequestsOK, decodeVars, historyVars
  <1> HIDE DEF s
  <1>2. /\ pending' \in Seq(Songs) /\ Len(pending') = Len(pending) + 1
        /\ \A i \in 1 .. Len(pending) : pending'[i] = pending[i]
        /\ pending'[Len(pending) + 1] = s
    BY <1>1, AppendProperties DEF NextInv, RequestsOK
  <1>3. Len(pending) \in Nat /\ \A i \in 1 .. Len(pending) : pending[i] \in Songs
    BY ElementOfSeq DEF NextInv, RequestsOK
  <1>4. \A i \in 1 .. Len(pending) : pending[i] # s /\ fate[pending[i]] = "queued"
    BY <1>1 DEF NextInv, RequestsOK
  <1>5. \A i \in 1 .. Len(pending') : fate'[pending'[i]] = "queued"
    <2> TAKE i \in 1 .. Len(pending')
    <2>1. i \in 1 .. Len(pending) \/ i = Len(pending) + 1
      BY <1>2, <1>3
    <2> QED
      BY <2>1, <1>1, <1>2, <1>3, <1>4 DEF NextInv, RequestsOK, Fates
  <1>6. Distinct(pending')
    <2> SUFFICES ASSUME NEW i \in 1 .. Len(pending'), NEW j \in 1 .. Len(pending'), i # j
                 PROVE  pending'[i] # pending'[j]
      BY DEF Distinct
    <2>1. /\ i \in 1 .. Len(pending) \/ i = Len(pending) + 1
          /\ j \in 1 .. Len(pending) \/ j = Len(pending) + 1
      BY <1>2, <1>3
    <2> QED
      BY <2>1, <1>2, <1>4 DEF NextInv, RequestsOK, Distinct
  <1>7. song' = song /\ (pc # "off" => song \in Songs /\ fate'[song] = "running")
    BY <1>1 DEF song, NextInv, RequestsOK
  <1>8. RequestsOK'
    <2>1. /\ fate' \in [Songs -> Fates] /\ exec' \in [{worker} -> Songs \cup {NoSong}]
          /\ call' \in [Callers -> Calls] /\ arg' \in [Callers -> Songs \cup {NoSong}]
      BY <1>1 DEF NextInv, RequestsOK, Fates, Calls
    <2>2. \A b \in Callers : call'[b] \in {"start", "add"} => arg'[b] \in Songs
      BY <1>1 DEF NextInv, RequestsOK, Calls
    <2> QED
      BY <1>1, <1>2, <1>5, <1>6, <1>7, <2>1, <2>2 DEF NextInv, RequestsOK
  <1>9. HistoriesOK' /\ HaltLasts'
    <2>1. HistoriesOK'
      BY <1>1 DEF NextInv, RequestsOK, HistoriesOK
    <2> QED
      BY <1>1, <1>7, <2>1 DEF NextInv, RequestsOK, HaltLasts, Calls
  <1> QED
    BY <1>1, <1>8, <1>9 DEF NextInv, NextMeansFinished

(* What a step of a caller does that neither adds nor drops a request.     *)
LEMMA CallMovesNext ==
    ASSUME NextInv, NEW c \in Callers,
           UNCHANGED <<pending, exec, fate, pc, isNextSong, arg>>,
           NEW k \in Calls, call' = [call EXCEPT ![c] = k],
           k \in {"start", "add"} => call[c] \in {"start", "add"}
    PROVE  RequestsOK' /\ song' = song
  <1>1. call' \in [Callers -> Calls]
    BY DEF NextInv, RequestsOK
  <1>2. \A b \in Callers : call'[b] \in {"start", "add"} => arg'[b] \in Songs
    BY DEF NextInv, RequestsOK
  <1>3. song' = song
    BY DEF song
  <1> QED
    BY <1>1, <1>2, <1>3 DEF NextInv, RequestsOK, Distinct

(* The state is written: the only caller is the one that writes it.        *)
LEMMA StopStateKeepsNext ==
    ASSUME NextInv, OneCaller, NEW c \in Callers, StopState(c) PROVE NextInv'
  <1> DEFINE k == IF call[c] = "start" THEN "add" ELSE "none"
  <1>1. /\ call[c] \in {"start", "stop"} /\ state' = "stop"
        /\ call' = [call EXCEPT ![c] = k]
        /\ halted' = IF pc \in PlayPCs THEN halted \cup {song} ELSE halted
        /\ UNCHANGED <<pending, exec, fate, pc, isNextSong, arg, nexts>>
    BY DEF StopState, queueVars, decodeVars, NextInv, RequestsOK
  <1>2. k \in {"add", "none"} /\ (k = "add" => call[c] = "start")
    OBVIOUS
  <1> HIDE DEF k
  <1>3. RequestsOK' /\ song' = song
    BY <1>1, <1>2, CallMovesNext DEF Calls
  <1>4. \A b \in Callers : call'[b] \notin {"pause", "continue"}
    BY <1>1, <1>2 DEF OneCaller, NextInv, RequestsOK
  <1>5. pc \in PlayPCs => song \in Songs /\ fate[song] = "running"
    BY DEF NextInv, RequestsOK, PlayPCs
  <1>6. HistoriesOK'
    BY <1>1, <1>5 DEF NextInv, HistoriesOK
  <1>7. HaltLasts'
    <2>1. pc \in {"play", "open", "setStop", "notify"} => pc \notin PlayPCs
      BY DEF PlayPCs
    <2> QED
      BY <1>1, <1>3, <1>4, <2>1 DEF NextInv, HaltLasts
  <1>8. NextMeansFinished'
    BY <1>1, <1>5 DEF NextInv, HistoriesOK, NextMeansFinished
  <1> QED
    BY <1>3, <1>6, <1>7, <1>8 DEF NextInv

(* A pause begins only in a state in which the song was not stopped.       *)
LEMMA PauseKeepsNext ==
    ASSUME NextInv, NEW c \in Callers, PauseOrContinue(c) \/ WriteState(c) PROVE NextInv'
  <1>1. CASE PauseOrContinue(c)
    <2> DEFINE k == IF state = "playing" THEN "pause" ELSE "continue"
    <2>1. /\ state \in {"playing", "pause"} /\ call' = [call EXCEPT ![c] = k]
          /\ UNCHANGED <<state, pending, exec, fate, pc, isNextSong, arg, halted, nexts>>
      BY <1>1 DEF PauseOrContinue, queueVars, decodeVars, historyVars
    <2>2. k \in {"pause", "continue"}
      OBVIOUS
    <2> HIDE DEF k
    <2>3. RequestsOK' /\ song' = song
      BY <2>1, <2>2, CallMovesNext DEF Calls
    <2>4. HaltLasts'
      BY <2>1, <2>3 DEF NextInv, HaltLasts
    <2> QED
      BY <2>1, <2>3, <2>4 DEF NextInv, HistoriesOK, NextMeansFinished
  <1>2. CASE WriteState(c)
    <2>1. /\ call[c] \in {"pause", "continue"} /\ call' = [call EXCEPT ![c] = "none"]
          /\ UNCHANGED <<pending, exec, fate, pc, isNextSong, arg, halted, nexts>>
      BY <1>2 DEF WriteState, queueVars, decodeVars, historyVars
    <2>2. RequestsOK' /\ song' = song
      BY <2>1, CallMovesNext DEF Calls
    <2>3. HaltLasts'
      BY <2>1, <2>2 DEF NextInv, HaltLasts
    <2> QED
      BY <2>1, <2>2, <2>3 DEF NextInv, HistoriesOK, NextMeansFinished
  <1> QED
    BY <1>1, <1>2

LEMMA CallsKeepNext ==
    ASSUME NextInv, OneCaller, NEW c \in Callers,
           \/ Stop(c) \/ PauseOrContinue(c) \/ SeekPlayPosition(c) \/ CallStep(c)
           \/ \E s \in Songs : StartToPlay(c, s)
    PROVE  NextInv'
  <1>1. CASE Stop(c)
    <2>1. /\ Queue!Drop /\ call[c] = "none" /\ call' = [call EXCEPT ![c] = "stop"]
          /\ UNCHANGED <<state, pc, isNextSong, halted, nexts>> /\ arg' = arg
      BY <1>1 DEF Stop, decodeVars, historyVars
    <2> QED
      BY <2>1, DropKeepsNext
  <1>2. ASSUME NEW s \in Songs, StartToPlay(c, s) PROVE NextInv'
    <2>1. /\ Queue!Drop /\ call[c] = "none" /\ call' = [call EXCEPT ![c] = "start"]
          /\ UNCHANGED <<state, pc, isNextSong, halted, nexts>>
          /\ arg' = [arg EXCEPT ![c] = s]
      BY <1>2 DEF StartToPlay, decodeVars, historyVars
    <2> QED
      BY <2>1, DropKeepsNext
  <1>3. CASE SeekPlayPosition(c)
    BY <1>3, SameKeepsNext DEF SeekPlayPosition, queueVars, decodeVars, callVars, historyVars
  <1> QED
    BY <1>1, <1>2, <1>3, AddKeepsNext, StopStateKeepsNext, PauseKeepsNext DEF CallStep

(* The worker takes the first request: it was waiting, hence never played. *)
LEMMA TakeKeepsNext == ASSUME NextInv, TakeSong PROVE NextInv'
  <1> DEFINE s == Head(pending)
  <1>1. /\ pending # <<>> /\ pc = "off" /\ pc' = "play"
        /\ exec' = [exec EXCEPT ![worker] = s] /\ pending' = Tail(pending)
        /\ fate' = [fate EXCEPT ![s] = "running"]
        /\ UNCHANGED <<state, isNextSong, call, arg, halted, nexts>>
    BY DEF TakeSong, Queue!Begin, decodeVars, callVars, historyVars
  <1>2. /\ Len(pending) \in Nat \ {0} /\ s = pending[1] /\ s \in Songs
        /\ pending' \in Seq(Songs) /\ Len(pending') = Len(pending) - 1
        /\ \A i \in 1 .. Len(pending') : pending'[i] = pending[i + 1]
    BY <1>1, EmptySeq, HeadTailProperties DEF NextInv, RequestsOK
  <1> HIDE DEF s
  <1>3. fate[s] = "queued"
    BY <1>2 DEF NextInv, RequestsOK
  <1>4. \A i \in 1 .. Len(pending') : i + 1 \in 1 .. Len(pending) /\ i + 1 # 1
    BY <1>2
  <1>5. \A i \in 1 .. Len(pending) : pending[i] \in Songs
    BY ElementOfSeq DEF NextInv, RequestsOK
  <1>6. \A i \in 1 .. Len(pending') : fate'[pending'[i]] = "queued"
    <2> TAKE i \in 1 .. Len(pending')
    <2>1. pending[i + 1] # s /\ pending[i + 1] \in Songs /\ fate[pending[i + 1]] = "queued"
      BY <1>2, <1>4, <1>5 DEF NextInv, RequestsOK, Distinct
    <2> QED
      BY <2>1, <1>1, <1>2 DEF NextInv, RequestsOK
  <1>7. Distinct(pending')
    <2> SUFFICES ASSUME NEW i \in 1 .. Len(pending'), NEW j \in 1 .. Len(pending'), i # j
                 PROVE  pending'[i] # pending'[j]
      BY DEF Distinct
    <2>1. i + 1 # j + 1
      BY <1>2
    <2> QED
      BY <2>1, <1>2, <1>4 DEF NextInv, RequestsOK, Distinct
  <1>8. song' = s /\ fate'[s] = "running"
    BY <1>1, <1>2 DEF song, NextInv, RequestsOK
  <1>9. RequestsOK'
    <2>1. /\ fate' \in [Songs -> Fates] /\ exec' \in [{worker} -> Songs \cup {NoSong}]
      BY <1>1, <1>2 DEF NextInv, RequestsOK, Fates
    <2> QED
      BY <1>1, <1>2, <1>6, <1>7, <1>8, <2>1 DEF NextInv, RequestsOK, Calls
  <1>10. s \notin halted
    BY <1>3 DEF NextInv, HistoriesOK
  <1>11. HistoriesOK'
    BY <1>1, <1>2, <1>3 DEF NextInv, RequestsOK, HistoriesOK
  <1>12. HaltLasts'
    BY <1>1, <1>8, <1>10 DEF HaltLasts, PlayPCs
  <1> QED
    BY <1>1, <1>9, <1>11, <1>12 DEF NextInv, NextMeansFinished

(* The request the worker was at is done.                                  *)
LEMMA FinishKeepsNext ==
    ASSUME NextInv, Queue!Finish(worker), pc # "off", pc' = "off",
           UNCHANGED <<state, isNextSong, call, arg, halted>>,
           nexts' = nexts \/ (nexts' = nexts \cup {song} /\ song \notin halted)
    PROVE  NextInv'
  <1>1. /\ exec' = [exec EXCEPT ![worker] = NoSong] /\ pending' = pending
        /\ fate' = [fate EXCEPT ![song] = "done"]
    BY DEF Queue!Finish, song
  <1>2. song \in Songs /\ fate[song] = "running"
    BY DEF NextInv, RequestsOK
  <1>3. song' = NoSong
    BY <1>1 DEF song, NextInv, RequestsOK
  <1>4. \A i \in 1 .. Len(pending) : fate'[pending[i]] = "queued"
    <2>1. \A i \in 1 .. Len(pending) : pending[i] \in Songs
      BY ElementOfSeq DEF NextInv, RequestsOK
    <2> QED
      BY <1>1, <1>2, <2>1 DEF NextInv, RequestsOK
  <1>5. RequestsOK'
    <2>1. /\ fate' \in [Songs -> Fates] /\ exec' \in [{worker} -> Songs \cup {NoSong}]
      BY <1>1, <1>2 DEF NextInv, RequestsOK, Fates
    <2> QED
      BY <1>1, <1>3, <1>4, <2>1 DEF NextInv, RequestsOK
  <1>6. HistoriesOK'
    BY <1>1, <1>2 DEF NextInv, RequestsOK, HistoriesOK
  <1>7. HaltLasts'
    BY DEF HaltLasts, PlayPCs
  <1> QED
    BY <1>5, <1>6, <1>7 DEF NextInv, NextMeansFinished

(* The worker moves on within Play.                                        *)
LEMMA PlayKeepsNext ==
    ASSUME NextInv, pc # "off", pc' \in PlayPCs \cup {"open", "setStop", "notify"},
           UNCHANGED <<pending, exec, fate, call, arg, halted, nexts>>
    PROVE  RequestsOK' /\ HistoriesOK' /\ NextMeansFinished' /\ song' = song
  <1>1. song' = song
    BY DEF song
  <1>2. RequestsOK'
    BY <1>1 DEF NextInv, RequestsOK, PlayPCs, Distinct
  <1> QED
    BY <1>1, <1>2 DEF NextInv, HistoriesOK, NextMeansFinished

LEMMA WorkerKeepsNext == ASSUME NextInv, WorkerStep PROVE NextInv'
  <1>1. CASE EnterPlay
    <2>1. CASE pending # <<>>
      <3>1. /\ Queue!Finish(worker) /\ pc = "play" /\ pc' = "off"
            /\ UNCHANGED <<state, isNextSong, call, arg, halted, nexts>>
        BY <1>1, <2>1 DEF EnterPlay, decodeVars, callVars, historyVars
      <3> QED
        BY <3>1, FinishKeepsNext
    <2>2. CASE pending = <<>>
      <3>1. /\ pc = "play" /\ pc' = "open"
            /\ UNCHANGED <<state, pending, exec, fate, isNextSong, call, arg, halted, nexts>>
        BY <1>1, <2>2 DEF EnterPlay, queueVars, decodeVars, callVars, historyVars
      <3>2. HaltLasts'
        BY <3>1 DEF NextInv, HaltLasts, PlayPCs, song
      <3> QED
        BY <3>1, <3>2, PlayKeepsNext DEF NextInv
    <2> QED
      BY <2>1, <2>2
  <1>2. ASSUME NEW n \in 0 .. MaxChunks, OpenSong(n) PROVE NextInv'
    <2>1. /\ pc = "open" /\ pc' \in {"ended", "loop"}
          /\ UNCHANGED <<pending, exec, fate, isNextSong, call, arg, halted, nexts>>
      BY <1>2 DEF OpenSong, queueVars, callVars, historyVars
    <2>2. HaltLasts'
      BY <2>1 DEF NextInv, HaltLasts, PlayPCs, song
    <2> QED
      BY <2>1, <2>2, PlayKeepsNext DEF NextInv, PlayPCs
  <1>3. CASE \/ Loop \/ SeekFails \/ Count \/ FillStop \/ FillError \/ FillNothing
             \/ FillPart \/ SyncRead \/ SyncPlayerState \/ Look \/ Start \/ Finish
             \/ \E n \in 0 .. MaxChunks : SeekDone(n)
             \/ \E ok \in BOOLEAN : FillEnd(ok) \/ FillFull(ok)
    <2>1. pc \in PlayPCs /\ pc' \in PlayPCs
      BY <1>3 DEF Loop, SeekFails, Count, FillStop, FillError, FillNothing, FillPart,
                  SyncRead, SyncPlayerState, Look, Start, Finish, SeekDone, FillEnd,
                  FillFull, Filling, FillVars, PlayPCs
    <2>2. UNCHANGED <<state, pending, exec, fate, isNextSong, call, arg, halted, nexts>>
      BY <1>3 DEF Loop, SeekFails, Count, FillStop, FillError, FillNothing, FillPart,
                  SyncRead, SyncPlayerState, Look, Start, Finish, SeekDone, FillEnd,
                  FillFull, Filling, FillVars, queueVars, decodeVars, callVars, historyVars
    <2> QED
      BY <2>1, <2>2, LoopKeepsNext
  <1>4. CASE Ended
    <2>1. /\ pc = "ended" /\ pc' = "setStop" /\ isNextSong' = EndedByItself
          /\ UNCHANGED <<pending, exec, fate, call, arg, halted, nexts>>
      BY <1>4 DEF Ended, queueVars, callVars, historyVars
    <2>2. song \in halted => state = "stop"
      BY <2>1 DEF NextInv, HaltLasts, PlayPCs
    <2>3. isNextSong' => song \notin halted
      BY <2>1, <2>2 DEF EndedByItself
    <2>4. HaltLasts'
      BY <2>1, <2>3 DEF HaltLasts, PlayPCs, song
    <2> QED
      BY <2>1, <2>4, PlayKeepsNext DEF NextInv
  <1>5. CASE SetStop
    <2>1. /\ pc = "setStop" /\ pc' = "notify"
          /\ UNCHANGED <<pending, exec, fate, isNextSong, call, arg, halted, nexts>>
      BY <1>5 DEF SetStop, queueVars, decodeVars, callVars, historyVars
    <2>2. HaltLasts'
      BY <2>1 DEF NextInv, HaltLasts, PlayPCs, song
    <2> QED
      BY <2>1, <2>2, PlayKeepsNext DEF NextInv
  <1>6. CASE PlayReturns
    <2>1. /\ Queue!Finish(worker) /\ pc = "notify" /\ pc' = "off"
          /\ nexts' = IF isNextSong THEN nexts \cup {song} ELSE nexts
          /\ UNCHANGED <<state, isNextSong, call, arg, halted>>
      BY <1>6 DEF PlayReturns, decodeVars, callVars
    <2>2. isNextSong => song \notin halted
      BY <2>1 DEF NextInv, HaltLasts
    <2> QED
      BY <2>1, <2>2, FinishKeepsNext
  <1> QED
    BY <1>1, <1>2, <1>3, <1>4, <1>5, <1>6, TakeKeepsNext DEF WorkerStep

(* With one thread that calls the player, the program is never told that a *)
(* song ended by itself which it stopped or replaced while it was playing, *)
(* however the worker's unlocked reads and writes of the state fall; for   *)
(* any songs and buffers.                                                  *)
THEOREM NextIsNotStopped == OneCaller /\ Spec => []NextMeansFinished
  <1>1. ASSUME NextInv, OneCaller, [Next]_vars PROVE NextInv'
    <2>1. CASE Device \/ UNCHANGED vars
      BY <1>1, <2>1, SameKeepsNext DEF Device, vars, queueVars, decodeVars, callVars, historyVars
    <2> QED
      BY <1>1, <2>1, CallsKeepNext, WorkerKeepsNext DEF Next
  <1>2. NextInv => NextMeansFinished
    BY DEF NextInv
  <1>3. ASSUME OneCaller PROVE Spec => []NextMeansFinished
    <2>1. NextInv /\ [Next]_vars => NextInv'
      BY <1>1, <1>3
    <2> QED
      BY <2>1, <1>2, NextInvInit, PTL DEF Spec
  <1> QED
    BY <1>3

=============================================================================
