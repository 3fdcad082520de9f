----------------------------- MODULE PlayerLife -----------------------------
(* The life of a player. CPlayerFactory holds a reference to it; so does     *)
(* each song that waits in its operation queue or is played by the thread of *)
(* that queue, which belongs to the player. destroyPlayer gives up the       *)
(* factory's, and whoever drops the last one runs ~CBasePlayer.              *)
(*                                                                           *)
(* Three threads: the program's, the worker of the queue (its limit is one,  *)
(* so that it never leaves for being idle), and while the worker plays a     *)
(* song from the net the one that downloads it (createPlayer makes a         *)
(* COnlinePlayer), which the worker joins at the end of the song. The        *)
(* callback of the program runs on the worker and on the download thread and *)
(* may call the player. What the download thread does is in OnlineSong; here *)
(* it runs, calls back, is stuck on a full disk, and ends.                   *)
EXTENDS Integers

CONSTANTS MaxStarts, MaxCalls   \* bounds: songs, and other calls of the program

ASSUME LifeAssumption == MaxStarts \in Nat /\ MaxCalls \in Nat

App == "app"
Worker == "worker"
Down == "down"
Callers == {Worker, Down}        \* threads of the player, which call back
Threads == {App} \cup Callers

VARIABLES
    inMap,      \* _playerMap has it
    thePlayer,  \* threads whose destroyPlayer has a reference of its own
    waiting,    \* songs in _opList, each with a reference
    op,         \* the worker has a song, with a reference
    object,     \* the player: "alive", "dying" in its destructor, "gone"
    call,       \* what each thread is about to do in a call of the player
    pc, ret,    \* where the threads of the player are, and where a callback
                \* returns to
    state,      \* _state
    callback,   \* _pIPlayerCallBack # NULL
    isRunning,  \* of the queue
    threadCnt,  \* _curThreadCnt of the queue
    starts, calls,    \* counters for the bounds
    late, diedOn      \* history: callbacks that each thread began after
                      \* SetCallBack(NULL); who ran the destructor

held == <<inMap, thePlayer, waiting, op, object>>
queue == <<isRunning, threadCnt>>
history == <<late, diedOn>>
vars == <<held, call, pc, ret, state, callback, queue, starts, calls, history>>

Init ==
    /\ inMap = TRUE /\ thePlayer = {} /\ waiting = 0 /\ op = FALSE /\ object = "alive"
    /\ call = [t \in Threads |-> "none"]
    /\ pc = [t \in Callers |-> "none"] /\ ret = [t \in Callers |-> "none"]
    /\ state = "init" /\ callback = TRUE
    /\ isRunning = TRUE /\ threadCnt = 0
    /\ starts = 0 /\ calls = 0 /\ late = [t \in Callers |-> 0] /\ diedOn = "none"

\* The program may use its pointer until it destroys the player, a callback
\* while it runs.
MayCall(t) == /\ call[t] = "none"
              /\ IF t = App THEN inMap ELSE pc[t] = "callback"
Does(t, from, to) == call[t] = from /\ call' = [call EXCEPT ![t] = to]
Goes(t, from, to) == pc[t] = from /\ pc' = [pc EXCEPT ![t] = to]
Counted == calls < MaxCalls /\ calls' = calls + 1

(* ---- references ---- *)

References == inMap \/ thePlayer # {} \/ waiting > 0 \/ op

\* ~CBasePlayer up to the join: Stop, and the first half of stop of the queue.
Destruct(t) == /\ object' = "dying" /\ diedOn' = t
               /\ state' = "stop" /\ isRunning' = FALSE

(* ---- the calls of the player ---- *)

\* cancle: the songs are dropped under the lock of the queue. To drop the last
\* reference here would take that lock again.
Cancle == /\ waiting' = 0
          /\ object' = IF waiting > 0 /\ ~(inMap \/ thePlayer # {} \/ op)
                       THEN "stuck" ELSE object

\* Stop and StartToPlay begin with cancle.
Begin(t) ==
    /\ MayCall(t)
    /\ \/ Does(t, "none", "stopState") /\ Counted /\ UNCHANGED starts
       \/ Does(t, "none", "startState") /\ starts < MaxStarts /\ starts' = starts + 1
          /\ UNCHANGED calls
    /\ Cancle
    /\ UNCHANGED <<inMap, thePlayer, op, pc, ret, state, callback, queue, history>>

StopState(t) ==
    /\ \/ Does(t, "stopState", "none")
       \/ Does(t, "startState", "startAdd")
       \/ Does(t, "destroyState", "destroyEnd")
    /\ state' = "stop"
    /\ UNCHANGED <<held, pc, ret, callback, queue, starts, calls, history>>

NeedsThread == threadCnt < 1

\* shared_from_this goes into the operation; the first one starts the thread.
AddSong(t) ==
    /\ Does(t, "startAdd", "none")
    /\ IF isRunning
       THEN /\ waiting' = waiting + 1
            /\ IF NeedsThread THEN threadCnt' = threadCnt + 1 /\ Goes(Worker, pc[Worker], "start")
                              ELSE UNCHANGED <<threadCnt, pc>>
       ELSE UNCHANGED <<waiting, threadCnt, pc>>
    /\ UNCHANGED <<inMap, thePlayer, op, object, ret, state, callback, isRunning, starts,
                   calls, history>>

PauseOrContinue(t) ==
    /\ MayCall(t) /\ Counted
    /\ \/ state = "playing" /\ Does(t, "none", "pause")
       \/ state = "pause" /\ Does(t, "none", "playing")
    /\ UNCHANGED <<held, pc, ret, state, callback, queue, starts, history>>

WriteState(t) ==
    /\ call[t] \in {"pause", "playing"}
    /\ state' = call[t]
    /\ Does(t, call[t], "none")
    /\ UNCHANGED <<held, pc, ret, callback, queue, starts, calls, history>>

(* ---- destroyPlayer ---- *)

\* A callback destroys the player only while the program is not in a call.
DestroyPlayer(t) ==
    /\ MayCall(t) /\ inMap
    /\ t # App => call[App] = "none"
    /\ Does(t, "none", "destroyCallBack")
    /\ inMap' = FALSE
    /\ thePlayer' = thePlayer \cup {t}
    /\ UNCHANGED <<waiting, op, object, pc, ret, state, callback, queue, starts, calls, history>>

CallBackAfter_Kept == callback
CallBackAfter == FALSE

SetCallBack(t) ==
    /\ Does(t, "destroyCallBack", "destroyCancle")
    /\ callback' = CallBackAfter
    /\ UNCHANGED <<held, pc, ret, state, queue, starts, calls, history>>

DestroyCancle(t) ==
    /\ Does(t, "destroyCancle", "destroyState")
    /\ Cancle
    /\ UNCHANGED <<inMap, thePlayer, op, pc, ret, state, callback, queue, starts, calls, history>>

DestroyEnd(t) ==
    /\ thePlayer' = thePlayer \ {t}
    /\ UNCHANGED <<inMap, waiting, op>>
    /\ IF References' THEN /\ Does(t, "destroyEnd", "none")
                           /\ UNCHANGED <<object, state, isRunning, diedOn>>
                      ELSE /\ Does(t, "destroyEnd", "join")
                           /\ Destruct(t)
    /\ UNCHANGED <<pc, ret, callback, threadCnt, starts, calls, late>>

OthersGone_Unread(t) == TRUE
OthersGone(t) == threadCnt = IF t = Worker THEN 1 ELSE 0

\* stop has seen the others leave; the members are destroyed, the queue with them.
Join(t) ==
    /\ object = "dying" /\ OthersGone(t)
    /\ \/ t = App /\ Does(App, "join", "none") /\ UNCHANGED pc
       \/ t = Worker /\ Goes(Worker, "join", "while") /\ UNCHANGED call
    /\ object' = "gone"
    /\ UNCHANGED <<inMap, thePlayer, waiting, op, ret, state, callback, queue, starts, calls, history>>

(* ---- the worker ---- *)

WorkerGoes(from, to) == Goes(Worker, from, to)

Start == WorkerGoes("start", "while")
         /\ UNCHANGED <<held, call, ret, state, callback, queue, starts, calls, history>>

\* while (_isRunning), of a queue that may be gone.
While ==
    /\ \/ object = "gone" /\ WorkerGoes("while", "undefined")
       \/ object # "gone" /\ isRunning /\ WorkerGoes("while", "wait")
       \/ object # "gone" /\ ~isRunning /\ WorkerGoes("while", "leave")
    /\ UNCHANGED <<held, call, ret, state, callback, queue, starts, calls, history>>

Take ==
    /\ isRunning /\ waiting > 0
    /\ WorkerGoes("wait", "taken")
    /\ waiting' = waiting - 1 /\ op' = TRUE
    /\ UNCHANGED <<inMap, thePlayer, object, call, ret, state, callback, queue, starts, calls, history>>

Leave ==
    /\ \/ ~isRunning /\ WorkerGoes("wait", "ended")
       \/ WorkerGoes("leave", "ended")
    /\ threadCnt' = 0
    /\ UNCHANGED <<held, call, ret, state, callback, isRunning, starts, calls, history>>

\* Play gives way at once to a song that came later. OnPlay starts a download
\* for a song with a url, if the thread can be created.
BeginSong ==
    /\ pc[Worker] = "taken"
    /\ \/ waiting > 0 /\ WorkerGoes("taken", "drop") /\ UNCHANGED state
       \/ /\ \E d \in {"none", "run"} : pc' = [pc EXCEPT ![Worker] = "play", ![Down] = d]
          /\ state' = "playing"
    /\ UNCHANGED <<held, call, ret, callback, queue, starts, calls, history>>

NeedsExit_Queue == waiting > 0
NeedsExit == state = "stop" \/ waiting > 0

\* The loop ends by itself, or because it has to. CResDownloader::stop tells the
\* download to end...
EndSong ==
    /\ WorkerGoes("play", "stopping")
    /\ NeedsExit \/ state = "playing"
    /\ UNCHANGED <<held, call, ret, state, callback, queue, starts, calls, history>>

\* ...and waits for its thread.
JoinDown == WorkerGoes("stopping", "finished") /\ pc[Down] = "none"

SongEnded ==
    /\ JoinDown
    /\ UNCHANGED <<held, call, ret, state, callback, queue, starts, calls, history>>

\* Where each thread calls back from, and where it goes on. The worker: XPET_ERROR
\* when no sound queue could be made, any time in the loop, XPET_PLAY_FINISHED,
\* XPET_PLAY_NEXT. The download: XPET_DOWN_DATA, or XPET_DOWN_FINISHED and
\* XPET_DOWN_FAILED, with which the thread ends.
Ways(t) == IF t = Worker THEN {<<"taken", "drop">>, <<"play", "play">>, <<"finished", "next">>,
                               <<"tell", "drop">>}
                         ELSE {<<"run", "run">>, <<"run", "none">>}

\* OnIPlayerCallBack tests the pointer...
CallBackTest(t, way) ==
    /\ Goes(t, way[1], IF callback THEN "use" ELSE way[2])
    /\ ret' = [ret EXCEPT ![t] = way[2]]
    /\ UNCHANGED <<held, call, state, callback, queue, starts, calls, history>>

\* SetCallBack(NULL) has returned.
Cleared == ~inMap /\ \A t \in Threads : call[t] # "destroyCallBack"

\* ...and uses it: as it was read, or read again.
CallBackUse(t) ==
    /\ \/ /\ Goes(t, "use", "callback")
          /\ late' = [late EXCEPT ![t] = @ + IF Cleared THEN 1 ELSE 0]
       \/ ~callback /\ Goes(t, "use", "undefined") /\ UNCHANGED late
    /\ UNCHANGED <<held, call, ret, state, callback, queue, starts, calls, diedOn>>

CallBackReturn(t) ==
    /\ call[t] = "none"
    /\ Goes(t, "callback", ret[t])
    /\ UNCHANGED <<held, call, ret, state, callback, queue, starts, calls, history>>

PlayEnds ==
    /\ WorkerGoes("next", IF state = "playing" /\ ~NeedsExit THEN "tell" ELSE "drop")
    /\ state' = "stop"
    /\ UNCHANGED <<held, call, ret, callback, queue, starts, calls, history>>

\* The operation is destroyed at the end of the turn.
Drop ==
    /\ op' = FALSE
    /\ UNCHANGED <<inMap, thePlayer, waiting>>
    /\ IF References' THEN /\ WorkerGoes("drop", "while")
                           /\ UNCHANGED <<object, state, isRunning, diedOn>>
                      ELSE /\ WorkerGoes("drop", "join")
                           /\ Destruct(Worker)
    /\ UNCHANGED <<call, ret, callback, threadCnt, starts, calls, late>>

(* ---- the download thread ---- *)

\* OnCancled, which tells nobody.
DownCancled ==
    /\ pc[Worker] = "stopping"
    /\ Goes(Down, "run", "none")
    /\ UNCHANGED <<held, call, ret, state, callback, queue, starts, calls, history>>

\* The loop of mp3_write_data on a full disk looks at no flag...
WriteNothing ==
    /\ Goes(Down, "run", "stuck")
    /\ UNCHANGED <<held, call, ret, state, callback, queue, starts, calls, history>>

\* ...until there is room.
MakeRoom ==
    /\ Goes(Down, "stuck", "run")
    /\ UNCHANGED <<held, call, ret, state, callback, queue, starts, calls, history>>

(* ---- the specification ---- *)

Calling(t) == \/ StopState(t) \/ AddSong(t) \/ WriteState(t) \/ SetCallBack(t)
              \/ DestroyCancle(t) \/ DestroyEnd(t) \/ Join(t)
Called(t) == Begin(t) \/ PauseOrContinue(t) \/ DestroyPlayer(t)
Queueing == Start \/ While \/ Take \/ Leave
Playing == BeginSong \/ EndSong \/ SongEnded \/ CallBackUse(Worker) \/ CallBackReturn(Worker)
           \/ PlayEnds \/ Drop
Downloading == CallBackUse(Down) \/ CallBackReturn(Down) \/ DownCancled
Telling(t) == \E way \in Ways(t) : CallBackTest(t, way)

Next == \/ \E t \in Threads : Calling(t) \/ Called(t)
        \/ Queueing \/ Playing \/ Downloading
        \/ \E t \in Callers : Telling(t)
        \/ WriteNothing \/ MakeRoom

Spec == Init /\ [][Next]_vars

\* Begun calls, the worker, the download thread and the callbacks go on: a song
\* is finite, and the download looks at the flag of stop. A full disk may stay full.
LiveSpec == /\ Spec
            /\ \A t \in Threads : WF_vars(Calling(t))
            /\ WF_vars(Queueing) /\ SF_vars(Playing) /\ WF_vars(Downloading)
            /\ WF_vars(pc[Worker] \in {"finished", "tell"} /\ Telling(Worker))

-----------------------------------------------------------------------------
\* The destructor runs when nobody has a reference, and never inside cancle.
DiesUnreferenced ==
    object = "alive" <=> inMap \/ thePlayer # {} \/ waiting > 0 \/ op

\* A player that dies on the program's thread, which has nothing playing, takes
\* its worker with it: no thread uses the queue that is gone. Only one whose
\* last song ended on the worker leaves it with a queue that is not there.
CleanOnProgram ==
    object = "gone" /\ diedOn = App => pc[Worker] \in {"none", "ended"}

\* A thread is in a call of the player, or in its callback, only while it exists;
\* the download thread ends before it.
NobodyInside ==
    object = "gone" => /\ \A t \in Threads : call[t] = "none"
                       /\ pc[Worker] \in {"none", "ended", "while", "undefined"}
                       /\ pc[Down] = "none"

\* When and where a player dies, and what may still be inside it then.
DiesCleanly == DiesUnreferenced /\ CleanOnProgram /\ NobodyInside

\* After SetCallBack(NULL) each of the two threads that call back begins at most
\* one callback: the one for which it had tested the pointer.
AtMostOneLate == \A t \in Callers : late[t] <= 1

\* A destroyed player dies, although Stop may be overwritten by a song that is
\* just beginning; unless its own callback pauses it at the wrong moment, or its
\* download is stuck on a full disk.
DestroyedDies ==
    ~inMap ~> \/ object = "gone"
              \/ \E t \in Callers : pc[t] = "undefined"
              \/ op /\ state = "pause"
              \/ pc[Down] = "stuck"
=============================================================================
