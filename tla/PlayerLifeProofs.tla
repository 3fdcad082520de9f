-------------------------- MODULE PlayerLifeProofs --------------------------
(* Who may destroy a player, and what is left of its queue then, for any     *)
(* number of songs and calls.                                                *)
EXTENDS PlayerLife, TLAPS

Destroying == {"destroyCallBack", "destroyCancle", "destroyState", "destroyEnd"}
Counting == {"stopState", "startState", "startAdd", "pause", "playing"}
WithSong == {"taken", "play", "use", "callback", "stopping", "finished", "next", "tell", "drop"}
WorkerPlaces == {"none", "start", "while", "wait", "leave", "ended", "join", "undefined"} \cup WithSong
DownPlaces == {"none", "run", "stuck", "use", "callback", "undefined"}

TypeInv ==
    /\ inMap \in BOOLEAN /\ thePlayer \subseteq Threads /\ waiting \in Nat /\ op \in BOOLEAN
    /\ object \in {"alive", "dying", "gone"}
    /\ call \in [Threads -> {"none", "join"} \cup Counting \cup Destroying]
    /\ pc \in [Callers -> WorkerPlaces \cup DownPlaces]
    /\ pc[Worker] \in WorkerPlaces /\ pc[Down] \in DownPlaces
    /\ ret \in [Callers -> {"none", "play", "next", "drop", "run"}]
    /\ ret[Worker] \in {"none", "play", "next", "drop"} /\ ret[Down] \in {"none", "run"}
    /\ callback \in BOOLEAN /\ isRunning \in BOOLEAN /\ threadCnt \in 0 .. 1
    /\ late \in [Callers -> Nat] /\ diedOn \in Threads \cup {"none"}

Referenced == inMap \/ thePlayer # {} \/ waiting > 0 \/ op

\* Who is where: the program in a call that needs the player has it in the map, a
\* callback is in the middle of a song, destroyPlayer has its reference, and the
\* download thread works only while the worker plays its song.
PlacesInv ==
    /\ pc[Worker] \in WithSong => op
    /\ op => pc[Worker] \in WithSong \cup {"undefined"}
    /\ call[App] \in Counting => inMap
    /\ \A t \in Callers : call[t] # "none" => pc[t] = "callback"
    /\ \A t \in Callers : call[t] # "join"
    /\ \A t \in Threads : t \in thePlayer <=> call[t] \in Destroying
    /\ pc[Worker] \in {"use", "callback"} => ret[Worker] # "none"
    /\ threadCnt = IF pc[Worker] \in {"none", "ended"} THEN 0 ELSE 1
    /\ pc[Down] # "none" =>
          /\ op
          /\ \/ pc[Worker] \in {"play", "stopping", "undefined"}
             \/ pc[Worker] \in {"use", "callback"} /\ ret[Worker] = "play"

\* The destructor runs on one thread, without references.
DeathInv ==
    /\ object = "alive" <=> Referenced
    /\ isRunning <=> object = "alive"
    /\ pc[Worker] = "join" => object = "dying" /\ diedOn = Worker
    /\ call[App] = "join" => object = "dying" /\ diedOn = App
    /\ object = "dying" => pc[Worker] = "join" \/ call[App] = "join"
    /\ object = "gone" => call[App] = "none"
    /\ object = "gone" /\ diedOn = App => pc[Worker] \in {"none", "ended"}
    /\ object = "gone" /\ diedOn # App => pc[Worker] \in {"while", "undefined"}

\* The pointer is cleared for good; only a test from before may be under way, on
\* each thread.
LateInv ==
    /\ Cleared => ~callback
    /\ \A t \in Callers : /\ ~Cleared => late[t] = 0
                          /\ pc[t] = "use" => late[t] = 0
                          /\ late[t] <= 1

LifeInv == TypeInv /\ PlacesInv /\ DeathInv /\ LateInv

\* One lemma for each action: it keeps the four parts of the invariant.

USE DEF App, Worker, Down, Callers, Threads, Does, Goes, WorkerGoes, held, queue, history,
        Destroying, Counting, WithSong, WorkerPlaces, DownPlaces

LEMMA BeginKeeps == ASSUME LifeInv, NEW t \in Threads, Begin(t) PROVE LifeInv'
<1>1. TypeInv' BY DEF LifeInv, TypeInv, PlacesInv, Begin, MayCall, Counted, Cancle
<1>2. PlacesInv' BY DEF LifeInv, TypeInv, PlacesInv, Begin, MayCall, Counted, Cancle
<1>3. DeathInv' BY DEF LifeInv, TypeInv, PlacesInv, DeathInv, Referenced, Begin, MayCall, Counted, Cancle
<1>4. LateInv' BY DEF LifeInv, TypeInv, PlacesInv, LateInv, Cleared, Begin, MayCall, Counted, Cancle
<1> QED BY <1>1, <1>2, <1>3, <1>4 DEF LifeInv

LEMMA StopStateKeeps == ASSUME LifeInv, NEW t \in Threads, StopState(t) PROVE LifeInv'
<1>1. TypeInv' BY DEF LifeInv, TypeInv, PlacesInv, StopState
<1>2. PlacesInv' BY DEF LifeInv, TypeInv, PlacesInv, StopState
<1>3. DeathInv' BY DEF LifeInv, TypeInv, PlacesInv, DeathInv, Referenced, StopState
<1>4. LateInv' BY DEF LifeInv, TypeInv, PlacesInv, LateInv, Cleared, StopState
<1> QED BY <1>1, <1>2, <1>3, <1>4 DEF LifeInv

LEMMA AddSongKeeps == ASSUME LifeInv, NEW t \in Threads, AddSong(t) PROVE LifeInv'
<1>1. TypeInv' BY DEF LifeInv, TypeInv, PlacesInv, AddSong, NeedsThread
<1>2. PlacesInv' BY DEF LifeInv, TypeInv, PlacesInv, AddSong, NeedsThread
<1>3. DeathInv' BY DEF LifeInv, TypeInv, PlacesInv, DeathInv, Referenced, AddSong, NeedsThread
<1>4. LateInv' BY DEF LifeInv, TypeInv, PlacesInv, LateInv, Cleared, AddSong, NeedsThread
<1> QED BY <1>1, <1>2, <1>3, <1>4 DEF LifeInv

LEMMA PauseOrContinueKeeps == ASSUME LifeInv, NEW t \in Threads, PauseOrContinue(t) PROVE LifeInv'
<1>1. TypeInv' BY DEF LifeInv, TypeInv, PlacesInv, PauseOrContinue, MayCall, Counted
<1>2. PlacesInv' BY DEF LifeInv, TypeInv, PlacesInv, PauseOrContinue, MayCall, Counted
<1>3. DeathInv' BY DEF LifeInv, TypeInv, PlacesInv, DeathInv, Referenced, PauseOrContinue, MayCall, Counted
<1>4. LateInv' BY DEF LifeInv, TypeInv, PlacesInv, LateInv, Cleared, PauseOrContinue, MayCall, Counted
<1> QED BY <1>1, <1>2, <1>3, <1>4 DEF LifeInv

LEMMA WriteStateKeeps == ASSUME LifeInv, NEW t \in Threads, WriteState(t) PROVE LifeInv'
<1>1. TypeInv' BY DEF LifeInv, TypeInv, PlacesInv, WriteState
<1>2. PlacesInv' BY DEF LifeInv, TypeInv, PlacesInv, WriteState
<1>3. DeathInv' BY DEF LifeInv, TypeInv, PlacesInv, DeathInv, Referenced, WriteState
<1>4. LateInv' BY DEF LifeInv, TypeInv, PlacesInv, LateInv, Cleared, WriteState
<1> QED BY <1>1, <1>2, <1>3, <1>4 DEF LifeInv

LEMMA DestroyPlayerKeeps == ASSUME LifeInv, NEW t \in Threads, DestroyPlayer(t) PROVE LifeInv'
<1>1. TypeInv'
  <2>1. (inMap \in BOOLEAN /\ op \in BOOLEAN /\ callback \in BOOLEAN /\ isRunning \in BOOLEAN)'
        BY DEF LifeInv, TypeInv, DestroyPlayer, MayCall
  <2>2. (thePlayer \subseteq Threads)'
        BY DEF LifeInv, TypeInv, DestroyPlayer, MayCall
  <2>3. (/\ waiting \in Nat
         /\ object \in {"alive", "dying", "gone"}
         /\ call \in [Threads -> {"none", "join"} \cup Counting \cup Destroying])'
        BY DEF LifeInv, TypeInv, PlacesInv, DestroyPlayer, MayCall
  <2>4. (/\ pc \in [Callers -> WorkerPlaces \cup DownPlaces]
         /\ pc[Worker] \in WorkerPlaces /\ pc[Down] \in DownPlaces)'
        BY DEF LifeInv, TypeInv, PlacesInv, DestroyPlayer, MayCall
  <2>5. (/\ ret \in [Callers -> {"none", "play", "next", "drop", "run"}]
         /\ ret[Worker] \in {"none", "play", "next", "drop"} /\ ret[Down] \in {"none", "run"})'
        BY DEF LifeInv, TypeInv, PlacesInv, DestroyPlayer, MayCall
  <2>6. (threadCnt \in 0 .. 1 /\ late \in [Callers -> Nat] /\ diedOn \in Threads \cup {"none"})'
        BY DEF LifeInv, TypeInv, PlacesInv, DestroyPlayer, MayCall
  <2> QED BY <2>1, <2>2, <2>3, <2>4, <2>5, <2>6 DEF TypeInv
<1>2. PlacesInv' BY DEF LifeInv, TypeInv, PlacesInv, DestroyPlayer, MayCall
<1>3. DeathInv' BY DEF LifeInv, TypeInv, PlacesInv, DeathInv, Referenced, DestroyPlayer, MayCall
<1>4. LateInv' BY DEF LifeInv, TypeInv, PlacesInv, LateInv, Cleared, DestroyPlayer, MayCall
<1> QED BY <1>1, <1>2, <1>3, <1>4 DEF LifeInv

LEMMA SetCallBackKeeps == ASSUME LifeInv, NEW t \in Threads, SetCallBack(t) PROVE LifeInv'
<1>1. TypeInv'
  <2>1. (inMap \in BOOLEAN /\ op \in BOOLEAN /\ callback \in BOOLEAN /\ isRunning \in BOOLEAN)'
        BY DEF LifeInv, TypeInv, SetCallBack, CallBackAfter
  <2>2. (thePlayer \subseteq Threads)'
        BY DEF LifeInv, TypeInv, SetCallBack, CallBackAfter
  <2>3. (/\ waiting \in Nat
         /\ object \in {"alive", "dying", "gone"}
         /\ call \in [Threads -> {"none", "join"} \cup Counting \cup Destroying])'
        BY DEF LifeInv, TypeInv, PlacesInv, SetCallBack, CallBackAfter
  <2>4. (/\ pc \in [Callers -> WorkerPlaces \cup DownPlaces]
         /\ pc[Worker] \in WorkerPlaces /\ pc[Down] \in DownPlaces)'
        BY DEF LifeInv, TypeInv, PlacesInv, SetCallBack, CallBackAfter
  <2>5. (/\ ret \in [Callers -> {"none", "play", "next", "drop", "run"}]
         /\ ret[Worker] \in {"none", "play", "next", "drop"} /\ ret[Down] \in {"none", "run"})'
        BY DEF LifeInv, TypeInv, PlacesInv, SetCallBack, CallBackAfter
  <2>6. (threadCnt \in 0 .. 1 /\ late \in [Callers -> Nat] /\ diedOn \in Threads \cup {"none"})'
        BY DEF LifeInv, TypeInv, PlacesInv, SetCallBack, CallBackAfter
  <2> QED BY <2>1, <2>2, <2>3, <2>4, <2>5, <2>6 DEF TypeInv
<1>2. PlacesInv' BY DEF LifeInv, TypeInv, PlacesInv, SetCallBack, CallBackAfter
<1>3. DeathInv' BY DEF LifeInv, TypeInv, PlacesInv, DeathInv, Referenced, SetCallBack, CallBackAfter
<1>4. LateInv'
  <2>1. ~Cleared BY DEF Cleared, SetCallBack
  <2>2. \A s \in Callers : late[s] = 0 BY <2>1 DEF LifeInv, LateInv
  <2>3. ~callback' BY DEF SetCallBack, CallBackAfter
  <2>4. late' = late BY DEF SetCallBack
  <2> QED BY <2>2, <2>3, <2>4 DEF LateInv
<1> QED BY <1>1, <1>2, <1>3, <1>4 DEF LifeInv

LEMMA DestroyCancleKeeps == ASSUME LifeInv, NEW t \in Threads, DestroyCancle(t) PROVE LifeInv'
<1>1. TypeInv' BY DEF LifeInv, TypeInv, PlacesInv, DestroyCancle, Cancle
<1>2. PlacesInv' BY DEF LifeInv, TypeInv, PlacesInv, DestroyCancle, Cancle
<1>3. DeathInv' BY DEF LifeInv, TypeInv, PlacesInv, DeathInv, Referenced, DestroyCancle, Cancle
<1>4. LateInv' BY DEF LifeInv, TypeInv, PlacesInv, LateInv, Cleared, DestroyCancle, Cancle
<1> QED BY <1>1, <1>2, <1>3, <1>4 DEF LifeInv

LEMMA DestroyEndKeeps == ASSUME LifeInv, NEW t \in Threads, DestroyEnd(t) PROVE LifeInv'
<1>1. TypeInv'
  <2>1. (inMap \in BOOLEAN /\ op \in BOOLEAN /\ callback \in BOOLEAN /\ isRunning \in BOOLEAN)'
        BY DEF LifeInv, TypeInv, DestroyEnd, References, Destruct
  <2>2. (thePlayer \subseteq Threads)'
        BY DEF LifeInv, TypeInv, DestroyEnd, References, Destruct
  <2>3. (/\ waiting \in Nat
         /\ object \in {"alive", "dying", "gone"}
         /\ call \in [Threads -> {"none", "join"} \cup Counting \cup Destroying])'
        BY DEF LifeInv, TypeInv, PlacesInv, DestroyEnd, References, Destruct
  <2>4. (/\ pc \in [Callers -> WorkerPlaces \cup DownPlaces]
         /\ pc[Worker] \in WorkerPlaces /\ pc[Down] \in DownPlaces)'
        BY DEF LifeInv, TypeInv, PlacesInv, DestroyEnd, References, Destruct
  <2>5. (/\ ret \in [Callers -> {"none", "play", "next", "drop", "run"}]
         /\ ret[Worker] \in {"none", "play", "next", "drop"} /\ ret[Down] \in {"none", "run"})'
        BY DEF LifeInv, TypeInv, PlacesInv, DestroyEnd, References, Destruct
  <2>6. (threadCnt \in 0 .. 1 /\ late \in [Callers -> Nat] /\ diedOn \in Threads \cup {"none"})'
        BY DEF LifeInv, TypeInv, PlacesInv, DestroyEnd, References, Destruct
  <2> QED BY <2>1, <2>2, <2>3, <2>4, <2>5, <2>6 DEF TypeInv
<1>2. PlacesInv' BY DEF LifeInv, TypeInv, PlacesInv, DestroyEnd, References, Destruct
<1>3. DeathInv' BY DEF LifeInv, TypeInv, PlacesInv, DeathInv, Referenced, DestroyEnd, References, Destruct
<1>4. LateInv' BY DEF LifeInv, TypeInv, PlacesInv, LateInv, Cleared, DestroyEnd, References, Destruct
<1> QED BY <1>1, <1>2, <1>3, <1>4 DEF LifeInv

LEMMA JoinKeeps == ASSUME LifeInv, NEW t \in Threads, Join(t) PROVE LifeInv'
<1>1. TypeInv' BY DEF LifeInv, TypeInv, PlacesInv, Join, OthersGone
<1>2. PlacesInv' BY DEF LifeInv, TypeInv, PlacesInv, Join, OthersGone
<1>3. DeathInv' BY DEF LifeInv, TypeInv, PlacesInv, DeathInv, Referenced, Join, OthersGone
<1>4. LateInv' BY DEF LifeInv, TypeInv, PlacesInv, LateInv, Cleared, Join, OthersGone
<1> QED BY <1>1, <1>2, <1>3, <1>4 DEF LifeInv

LEMMA StartKeeps == ASSUME LifeInv, Start PROVE LifeInv'
<1>1. TypeInv' BY DEF LifeInv, TypeInv, PlacesInv, Start
<1>2. PlacesInv' BY DEF LifeInv, TypeInv, PlacesInv, Start
<1>3. DeathInv' BY DEF LifeInv, TypeInv, PlacesInv, DeathInv, Referenced, Start
<1>4. LateInv' BY DEF LifeInv, TypeInv, PlacesInv, LateInv, Cleared, Start
<1> QED BY <1>1, <1>2, <1>3, <1>4 DEF LifeInv

LEMMA WhileKeeps == ASSUME LifeInv, While PROVE LifeInv'
<1>1. TypeInv' BY DEF LifeInv, TypeInv, PlacesInv, While
<1>2. PlacesInv' BY DEF LifeInv, TypeInv, PlacesInv, While
<1>3. DeathInv' BY DEF LifeInv, TypeInv, PlacesInv, DeathInv, Referenced, While
<1>4. LateInv' BY DEF LifeInv, TypeInv, PlacesInv, LateInv, Cleared, While
<1> QED BY <1>1, <1>2, <1>3, <1>4 DEF LifeInv

LEMMA TakeKeeps == ASSUME LifeInv, Take PROVE LifeInv'
<1>1. TypeInv' BY DEF LifeInv, TypeInv, PlacesInv, Take
<1>2. PlacesInv' BY DEF LifeInv, TypeInv, PlacesInv, Take
<1>3. DeathInv' BY DEF LifeInv, TypeInv, PlacesInv, DeathInv, Referenced, Take
<1>4. LateInv' BY DEF LifeInv, TypeInv, PlacesInv, LateInv, Cleared, Take
<1> QED BY <1>1, <1>2, <1>3, <1>4 DEF LifeInv

LEMMA LeaveKeeps == ASSUME LifeInv, Leave PROVE LifeInv'
<1>1. TypeInv' BY DEF LifeInv, TypeInv, PlacesInv, Leave
<1>2. PlacesInv' BY DEF LifeInv, TypeInv, PlacesInv, Leave
<1>3. DeathInv' BY DEF LifeInv, TypeInv, PlacesInv, DeathInv, Referenced, Leave
<1>4. LateInv' BY DEF LifeInv, TypeInv, PlacesInv, LateInv, Cleared, Leave
<1> QED BY <1>1, <1>2, <1>3, <1>4 DEF LifeInv

LEMMA BeginSongKeeps == ASSUME LifeInv, BeginSong PROVE LifeInv'
<1>1. TypeInv' BY DEF LifeInv, TypeInv, PlacesInv, BeginSong
<1>2. PlacesInv' BY DEF LifeInv, TypeInv, PlacesInv, BeginSong
<1>3. DeathInv' BY DEF LifeInv, TypeInv, PlacesInv, DeathInv, Referenced, BeginSong
<1>4. LateInv' BY DEF LifeInv, TypeInv, PlacesInv, LateInv, Cleared, BeginSong
<1> QED BY <1>1, <1>2, <1>3, <1>4 DEF LifeInv

LEMMA EndSongKeeps == ASSUME LifeInv, EndSong PROVE LifeInv'
<1>1. TypeInv' BY DEF LifeInv, TypeInv, PlacesInv, EndSong, NeedsExit
<1>2. PlacesInv' BY DEF LifeInv, TypeInv, PlacesInv, EndSong, NeedsExit
<1>3. DeathInv' BY DEF LifeInv, TypeInv, PlacesInv, DeathInv, Referenced, EndSong, NeedsExit
<1>4. LateInv' BY DEF LifeInv, TypeInv, PlacesInv, LateInv, Cleared, EndSong, NeedsExit
<1> QED BY <1>1, <1>2, <1>3, <1>4 DEF LifeInv

LEMMA SongEndedKeeps == ASSUME LifeInv, SongEnded PROVE LifeInv'
<1>1. TypeInv' BY DEF LifeInv, TypeInv, PlacesInv, SongEnded, JoinDown
<1>2. PlacesInv' BY DEF LifeInv, TypeInv, PlacesInv, SongEnded, JoinDown
<1>3. DeathInv' BY DEF LifeInv, TypeInv, PlacesInv, DeathInv, Referenced, SongEnded, JoinDown
<1>4. LateInv' BY DEF LifeInv, TypeInv, PlacesInv, LateInv, Cleared, SongEnded, JoinDown
<1> QED BY <1>1, <1>2, <1>3, <1>4 DEF LifeInv

LEMMA CallBackTestKeeps == ASSUME LifeInv, NEW t \in Callers, NEW way \in Ways(t), CallBackTest(t, way) PROVE LifeInv'
<1>1. TypeInv' BY DEF LifeInv, TypeInv, PlacesInv, CallBackTest, Ways
<1>2. PlacesInv' BY DEF LifeInv, TypeInv, PlacesInv, CallBackTest, Ways
<1>3. DeathInv' BY DEF LifeInv, TypeInv, PlacesInv, DeathInv, Referenced, CallBackTest, Ways
<1>4. LateInv' BY DEF LifeInv, TypeInv, PlacesInv, LateInv, Cleared, CallBackTest, Ways
<1> QED BY <1>1, <1>2, <1>3, <1>4 DEF LifeInv

LEMMA CallBackUseKeeps == ASSUME LifeInv, NEW t \in Callers, CallBackUse(t) PROVE LifeInv'
<1>1. TypeInv' BY DEF LifeInv, TypeInv, PlacesInv, CallBackUse
<1>2. PlacesInv' BY DEF LifeInv, TypeInv, PlacesInv, CallBackUse
<1>3. DeathInv' BY DEF LifeInv, TypeInv, PlacesInv, DeathInv, Referenced, CallBackUse
<1>4. LateInv' BY DEF LifeInv, TypeInv, PlacesInv, LateInv, Cleared, CallBackUse
<1> QED BY <1>1, <1>2, <1>3, <1>4 DEF LifeInv

LEMMA CallBackReturnKeeps == ASSUME LifeInv, NEW t \in Callers, CallBackReturn(t) PROVE LifeInv'
<1>1. TypeInv' BY DEF LifeInv, TypeInv, PlacesInv, CallBackReturn
<1>2. PlacesInv' BY DEF LifeInv, TypeInv, PlacesInv, CallBackReturn
<1>3. DeathInv' BY DEF LifeInv, TypeInv, PlacesInv, DeathInv, Referenced, CallBackReturn
<1>4. LateInv' BY DEF LifeInv, TypeInv, PlacesInv, LateInv, Cleared, CallBackReturn
<1> QED BY <1>1, <1>2, <1>3, <1>4 DEF LifeInv

LEMMA PlayEndsKeeps == ASSUME LifeInv, PlayEnds PROVE LifeInv'
<1>1. TypeInv' BY DEF LifeInv, TypeInv, PlacesInv, PlayEnds, NeedsExit
<1>2. PlacesInv' BY DEF LifeInv, TypeInv, PlacesInv, PlayEnds, NeedsExit
<1>3. DeathInv' BY DEF LifeInv, TypeInv, PlacesInv, DeathInv, Referenced, PlayEnds, NeedsExit
<1>4. LateInv' BY DEF LifeInv, TypeInv, PlacesInv, LateInv, Cleared, PlayEnds, NeedsExit
<1> QED BY <1>1, <1>2, <1>3, <1>4 DEF LifeInv

LEMMA DropKeeps == ASSUME LifeInv, Drop PROVE LifeInv'
<1>1. TypeInv'
  <2>1. (inMap \in BOOLEAN /\ op \in BOOLEAN /\ callback \in BOOLEAN /\ isRunning \in BOOLEAN)'
        BY DEF LifeInv, TypeInv, Drop, References, Destruct
  <2>2. (thePlayer \subseteq Threads)'
        BY DEF LifeInv, TypeInv, Drop, References, Destruct
  <2>3. (/\ waiting \in Nat
         /\ object \in {"alive", "dying", "gone"}
         /\ call \in [Threads -> {"none", "join"} \cup Counting \cup Destroying])'
        BY DEF LifeInv, TypeInv, PlacesInv, Drop, References, Destruct
  <2>4. (/\ pc \in [Callers -> WorkerPlaces \cup DownPlaces]
         /\ pc[Worker] \in WorkerPlaces /\ pc[Down] \in DownPlaces)'
        BY DEF LifeInv, TypeInv, PlacesInv, Drop, References, Destruct
  <2>5. (/\ ret \in [Callers -> {"none", "play", "next", "drop", "run"}]
         /\ ret[Worker] \in {"none", "play", "next", "drop"} /\ ret[Down] \in {"none", "run"})'
        BY DEF LifeInv, TypeInv, PlacesInv, Drop, References, Destruct
  <2>6. (threadCnt \in 0 .. 1 /\ late \in [Callers -> Nat] /\ diedOn \in Threads \cup {"none"})'
        BY DEF LifeInv, TypeInv, PlacesInv, Drop, References, Destruct
  <2> QED BY <2>1, <2>2, <2>3, <2>4, <2>5, <2>6 DEF TypeInv
<1>2. PlacesInv' BY DEF LifeInv, TypeInv, PlacesInv, Drop, References, Destruct
<1>3. DeathInv' BY DEF LifeInv, TypeInv, PlacesInv, DeathInv, Referenced, Drop, References, Destruct
<1>4. LateInv' BY DEF LifeInv, TypeInv, PlacesInv, LateInv, Cleared, Drop, References, Destruct
<1> QED BY <1>1, <1>2, <1>3, <1>4 DEF LifeInv

LEMMA DownCancledKeeps == ASSUME LifeInv, DownCancled PROVE LifeInv'
<1>1. TypeInv' BY DEF LifeInv, TypeInv, PlacesInv, DownCancled
<1>2. PlacesInv' BY DEF LifeInv, TypeInv, PlacesInv, DownCancled
<1>3. DeathInv' BY DEF LifeInv, TypeInv, PlacesInv, DeathInv, Referenced, DownCancled
<1>4. LateInv' BY DEF LifeInv, TypeInv, PlacesInv, LateInv, Cleared, DownCancled
<1> QED BY <1>1, <1>2, <1>3, <1>4 DEF LifeInv

LEMMA WriteNothingKeeps == ASSUME LifeInv, WriteNothing PROVE LifeInv'
<1>1. TypeInv' BY DEF LifeInv, TypeInv, PlacesInv, WriteNothing
<1>2. PlacesInv' BY DEF LifeInv, TypeInv, PlacesInv, WriteNothing
<1>3. DeathInv' BY DEF LifeInv, TypeInv, PlacesInv, DeathInv, Referenced, WriteNothing
<1>4. LateInv' BY DEF LifeInv, TypeInv, PlacesInv, LateInv, Cleared, WriteNothing
<1> QED BY <1>1, <1>2, <1>3, <1>4 DEF LifeInv

LEMMA MakeRoomKeeps == ASSUME LifeInv, MakeRoom PROVE LifeInv'
<1>1. TypeInv' BY DEF LifeInv, TypeInv, PlacesInv, MakeRoom
<1>2. PlacesInv' BY DEF LifeInv, TypeInv, PlacesInv, MakeRoom
<1>3. DeathInv' BY DEF LifeInv, TypeInv, PlacesInv, DeathInv, Referenced, MakeRoom
<1>4. LateInv' BY DEF LifeInv, TypeInv, PlacesInv, LateInv, Cleared, MakeRoom
<1> QED BY <1>1, <1>2, <1>3, <1>4 DEF LifeInv

LEMMA LifeStep == ASSUME LifeInv, [Next]_vars PROVE LifeInv'
<1>1. CASE UNCHANGED vars
  <2>1. TypeInv' BY <1>1 DEF LifeInv, TypeInv, vars
  <2>2. PlacesInv' BY <1>1 DEF LifeInv, PlacesInv, vars
  <2>3. DeathInv' BY <1>1 DEF LifeInv, DeathInv, Referenced, vars
  <2>4. LateInv' BY <1>1 DEF LifeInv, LateInv, Cleared, vars
  <2> QED BY <2>1, <2>2, <2>3, <2>4 DEF LifeInv
<1>2. ASSUME NEW t \in Threads, Calling(t) PROVE LifeInv'
  BY <1>2, StopStateKeeps, AddSongKeeps, WriteStateKeeps, SetCallBackKeeps, DestroyCancleKeeps,
     DestroyEndKeeps, JoinKeeps DEF Calling
<1>3. ASSUME NEW t \in Threads, Called(t) PROVE LifeInv'
  BY <1>3, BeginKeeps, PauseOrContinueKeeps, DestroyPlayerKeeps DEF Called
<1>4. CASE Queueing BY <1>4, StartKeeps, WhileKeeps, TakeKeeps, LeaveKeeps DEF Queueing
<1>5. CASE Playing BY <1>5, BeginSongKeeps, EndSongKeeps, SongEndedKeeps, CallBackUseKeeps,
                      CallBackReturnKeeps, PlayEndsKeeps, DropKeeps DEF Playing
<1>6. CASE Downloading BY <1>6, CallBackUseKeeps, CallBackReturnKeeps, DownCancledKeeps DEF Downloading
<1>7. ASSUME NEW t \in Callers, Telling(t) PROVE LifeInv' BY <1>7, CallBackTestKeeps DEF Telling
<1>8. CASE WriteNothing \/ MakeRoom BY <1>8, WriteNothingKeeps, MakeRoomKeeps
<1> QED BY <1>1, <1>2, <1>3, <1>4, <1>5, <1>6, <1>7, <1>8 DEF Next

LEMMA InitLife == ASSUME Init PROVE LifeInv
<1>1. TypeInv
  <2>1. call \in [Threads -> {"none", "join"} \cup Counting \cup Destroying] BY DEF Init
  <2>2. inMap \in BOOLEAN /\ op \in BOOLEAN /\ callback \in BOOLEAN /\ isRunning \in BOOLEAN BY DEF Init
  <2>3. threadCnt \in 0 .. 1 /\ late \in [Callers -> Nat] /\ waiting \in Nat BY DEF Init
  <2>4. thePlayer \subseteq Threads /\ diedOn \in Threads \cup {"none"} /\ object \in {"alive", "dying", "gone"}
        BY DEF Init
  <2>5. /\ pc \in [Callers -> WorkerPlaces \cup DownPlaces]
        /\ pc[Worker] \in WorkerPlaces /\ pc[Down] \in DownPlaces
        /\ ret \in [Callers -> {"none", "play", "next", "drop", "run"}]
        /\ ret[Worker] \in {"none", "play", "next", "drop"} /\ ret[Down] \in {"none", "run"}
        BY DEF Init
  <2> QED BY <2>1, <2>2, <2>3, <2>4, <2>5 DEF TypeInv
<1>2. PlacesInv BY DEF Init, PlacesInv
<1>3. DeathInv BY DEF Init, DeathInv, Referenced
<1>4. LateInv BY DEF Init, LateInv, Cleared
<1> QED BY <1>1, <1>2, <1>3, <1>4 DEF LifeInv

LEMMA LifeHolds == Spec => []LifeInv
BY InitLife, LifeStep, PTL DEF Spec

\* The destructor runs when the factory, destroyPlayer, every waiting song and
\* the played one have let go, and not before; never under the queue's lock.
THEOREM DestroyedByTheLast == Spec => []DiesUnreferenced
<1>1. LifeInv => DiesUnreferenced BY DEF LifeInv, DeathInv, Referenced, DiesUnreferenced
<1> QED BY <1>1, LifeHolds, PTL

\* A queue that is destroyed on the program's thread has no thread left.
THEOREM ProgramDestroysCleanly == Spec => []CleanOnProgram
<1>1. LifeInv => CleanOnProgram BY DEF LifeInv, DeathInv, CleanOnProgram
<1> QED BY <1>1, LifeHolds, PTL

\* Nobody is inside a call of a player that is gone, except for the worker that
\* destroyed it; the download thread has ended.
THEOREM NobodyStaysInside == Spec => []NobodyInside
<1>1. ASSUME LifeInv PROVE NobodyInside
  <2>1. SUFFICES ASSUME object = "gone"
                 PROVE  /\ \A t \in Threads : call[t] = "none"
                        /\ pc[Worker] \in {"none", "ended", "while", "undefined"}
                        /\ pc[Down] = "none"
        BY DEF NobodyInside
  <2>2. pc[Worker] \in {"none", "ended", "while", "undefined"} BY <1>1, <2>1 DEF LifeInv, DeathInv
  <2>3. call[App] = "none" BY <1>1, <2>1 DEF LifeInv, DeathInv
  <2>4. ~op BY <1>1, <2>1 DEF LifeInv, DeathInv, Referenced
  <2>5. pc[Down] = "none" BY <1>1, <2>4 DEF LifeInv, PlacesInv
  <2>6. call[Worker] = "none" /\ call[Down] = "none" BY <1>1, <2>2, <2>5 DEF LifeInv, PlacesInv
  <2> QED BY <2>2, <2>3, <2>5, <2>6
<1> QED BY <1>1, LifeHolds, PTL

\* The three together: when, where and how a player dies.
THEOREM DeathIsClean == Spec => []DiesCleanly
<1>1. DiesUnreferenced /\ CleanOnProgram /\ NobodyInside => DiesCleanly BY DEF DiesCleanly
<1> QED BY <1>1, DestroyedByTheLast, ProgramDestroysCleanly, NobodyStaysInside, PTL

\* After SetCallBack(NULL) the worker begins at most one callback, and so does the
\* download thread.
THEOREM OneLateCallBack == Spec => []AtMostOneLate
<1>1. LifeInv => AtMostOneLate
  <2>1. SUFFICES ASSUME LifeInv, NEW t \in Callers PROVE late[t] <= 1
        BY DEF AtMostOneLate
  <2> QED BY <2>1 DEF LifeInv, LateInv
<1> QED BY <1>1, LifeHolds, PTL
=============================================================================
