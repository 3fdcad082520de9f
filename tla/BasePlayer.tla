----------------------------- MODULE BasePlayer -----------------------------
(***************************************************************************)
(* CBasePlayer of play_plugin: threads of the program ask for songs, stop, *)
(* pause, continue and seek by writing a few unguarded members; the one    *)
(* thread of the operation queue decodes the song into the sound buffers   *)
(* and follows those members by polling.                                   *)
(*                                                                         *)
(* The operation queue is the one TaskQueue promises, the sound buffers    *)
(* those of PlayerQueue.  A decoded chunk fills one buffer.                *)
(***************************************************************************)
EXTENDS PlayerQueue

CONSTANTS
    Callers,    \* threads of the program that use the player
    Songs,      \* requests; each is handed to StartToPlay once
    NoSong,     \* no request
    worker,     \* the thread of the operation queue
    MaxChunks   \* bound: chunks in a song

ASSUME SongsAssumption == NoSong \notin Songs /\ worker \notin Callers
ASSUME ChunksAssumption == MaxChunks \in Nat \ {0}

VARIABLES
    state,      \* _state
    pending,    \* _spOpQueue: the requests waiting
    exec,       \* the request the worker executes
    fate,       \* what has become of each request
    pc,         \* where the worker is in Play and DefaultPlayPro
    idle,       \* nIdleBufferCnt
    pcm,        \* pcmCnt > 0: decoded data that is not in a buffer yet
    left,       \* chunks still to be decoded
    failed,     \* isDecoderErr
    seen,       \* queueSt, as SyncPlayerState has read it
    isNextSong, \* isNextSong
    isNewSeek,  \* _isNewSeek
    call,       \* the call each caller is in, and how far it is
    arg,        \* the request a caller is handing over
    halted,     \* history: songs stopped while they were playing
    nexts       \* history: songs XPET_PLAY_NEXT was sent for

queueVars == <<pending, exec, fate>>
decodeVars == <<idle, pcm, left, failed, seen, isNextSong>>
callVars == <<call, arg>>
historyVars == <<halted, nexts>>
vars == <<state, pending, exec, fate, pc, idle, pcm, left, failed, seen,
          isNextSong, isNewSeek, call, arg, halted, nexts, pqVars>>

Queue == INSTANCE TaskQueue WITH
    Workers <- {worker}, Clients <- Callers, Ops <- Songs, NoOp <- NoSong,
    MaxConcurrency <- 1, accepting <- TRUE, quiet <- {}

song == exec[worker]

PlayPCs == {"loop", "seek", "count", "fill", "sync", "switch", "look", "start",
            "finish", "ended"}

Init ==
    /\ PoolInit
    /\ state = "init"
    /\ pending = <<>>
    /\ exec = [w \in {worker} |-> NoSong]
    /\ fate = [s \in Songs |-> "fresh"]
    /\ pc = "off"
    /\ idle = 0 /\ pcm = FALSE /\ left = 0 /\ failed = FALSE
    /\ seen = "initial"
    /\ isNextSong = FALSE
    /\ isNewSeek = FALSE
    /\ call = [c \in Callers |-> "none"]
    /\ arg = [c \in Callers |-> NoSong]
    /\ halted = {} /\ nexts = {}

-----------------------------------------------------------------------------
(* Calls of the program *)

(* Stop(), of its own or as the first part of StartToPlay: cancel what     *)
(* waits, then write the state.                                            *)
StartToPlay(c, s) ==
    /\ call[c] = "none"
    /\ fate[s] = "fresh" /\ \A b \in Callers : arg[b] # s
    /\ Queue!Drop
    /\ call' = [call EXCEPT ![c] = "start"]
    /\ arg' = [arg EXCEPT ![c] = s]
    /\ UNCHANGED <<state, pc, decodeVars, isNewSeek, historyVars, pqVars>>

Stop(c) ==
    /\ call[c] = "none"
    /\ Queue!Drop
    /\ call' = [call EXCEPT ![c] = "stop"]
    /\ UNCHANGED <<state, pc, decodeVars, isNewSeek, arg, historyVars, pqVars>>

StopState(c) ==
    /\ call[c] \in {"start", "stop"}
    /\ state' = "stop"
    /\ call' = [call EXCEPT ![c] = IF @ = "start" THEN "add" ELSE "none"]
    /\ halted' = IF pc \in PlayPCs THEN halted \cup {song} ELSE halted
    /\ UNCHANGED <<queueVars, pc, decodeVars, isNewSeek, arg, nexts, pqVars>>

AddSong(c) ==
    /\ call[c] = "add"
    /\ Queue!Accept(arg[c])
    /\ pending' = Append(pending, arg[c])
    /\ call' = [call EXCEPT ![c] = "none"]
    /\ arg' = [arg EXCEPT ![c] = NoSong]
    /\ UNCHANGED <<state, pc, decodeVars, isNewSeek, historyVars, pqVars>>

(* Pause() and Continue() are called in the state they assert; the state   *)
(* may be another one when it is written.                                  *)
PauseOrContinue(c) ==
    /\ call[c] = "none"
    /\ state \in {"playing", "pause"}
    /\ call' = [call EXCEPT ![c] = IF state = "playing" THEN "pause" ELSE "continue"]
    /\ UNCHANGED <<state, queueVars, pc, decodeVars, isNewSeek, arg, historyVars,
                   pqVars>>

WriteState(c) ==
    /\ call[c] \in {"pause", "continue"}
    /\ state' = IF call[c] = "pause" THEN "pause" ELSE "playing"
    /\ call' = [call EXCEPT ![c] = "none"]
    /\ UNCHANGED <<queueVars, pc, decodeVars, isNewSeek, arg, historyVars, pqVars>>

SeekPlayPosition(c) ==
    /\ call[c] = "none"
    /\ isNewSeek' = TRUE
    /\ UNCHANGED <<state, queueVars, pc, decodeVars, callVars, historyVars, pqVars>>

-----------------------------------------------------------------------------
(* Play, on the worker *)

(* Mutant: a waiting song does not end the one that plays. *)
IsNeedExitPlayPro_StateOnly == state = "stop"
(* Mutant: only a waiting song ends the one that plays. *)
IsNeedExitPlayPro_QueueOnly == pending # <<>>
IsNeedExitPlayPro == state = "stop" \/ pending # <<>>

isRunning == ~IsNeedExitPlayPro /\ ~failed

(* isExitLoopPred, COnlinePlayer::IsDownFailed for an online song: it is   *)
(* never true unless the state is XPS_PLAYING.                             *)
DownFailed == IF state = "playing" THEN BOOLEAN ELSE {FALSE}

TakeSong ==
    /\ pc = "off"
    /\ Queue!Begin(worker)
    /\ pc' = "play"
    /\ UNCHANGED <<state, decodeVars, isNewSeek, callVars, historyVars, pqVars>>

(* A song that has been replaced by now is not begun. *)
EnterPlay ==
    /\ pc = "play"
    /\ IF pending # <<>>
         THEN pc' = "off" /\ Queue!Finish(worker)
         ELSE pc' = "open" /\ UNCHANGED queueVars
    /\ UNCHANGED <<state, decodeVars, isNewSeek, callVars, historyVars, pqVars>>

(* _state = XPS_PLAYING, whatever it was; the decoder opens or does not. *)
OpenSong(n) ==
    /\ pc = "open"
    /\ state' = "playing"
    /\ pc' = IF n = 0 THEN "ended" ELSE "loop"
    /\ left' = n
    /\ pcm' = FALSE /\ failed' = FALSE
    /\ UNCHANGED <<queueVars, idle, seen, isNextSong, isNewSeek, callVars, historyVars,
                   pqVars>>

(* The head of the loop of DefaultPlayPro. *)
Loop ==
    /\ pc = "loop"
    /\ \E down \in DownFailed :
         pc' = IF ~isRunning \/ down THEN "finish"
               ELSE IF isNewSeek THEN "seek" ELSE "count"
    /\ isNewSeek' = (isNewSeek /\ pc' # "seek")
    /\ UNCHANGED <<state, queueVars, decodeVars, callVars, historyVars, pqVars>>

SeekDone(n) ==
    /\ pc = "seek"
    /\ pc' = "count"
    /\ pcm' = FALSE
    /\ left' = n
    /\ StopQueue
    /\ UNCHANGED <<state, queueVars, idle, failed, seen, isNextSong, isNewSeek,
                   callVars, historyVars>>

SeekFails ==
    /\ pc = "seek"
    /\ pc' = "count"
    /\ UNCHANGED <<state, queueVars, decodeVars, isNewSeek, callVars, historyVars,
                   pqVars>>

Count ==
    /\ pc = "count"
    /\ idle' = Len(Idle)
    /\ Reclaim
    /\ pc' = "fill"
    /\ UNCHANGED <<state, queueVars, pcm, left, failed, seen, isNextSong, isNewSeek,
                   callVars, historyVars>>

(* The inner loop: while(nIdleBufferCnt-- && isRunning()). *)
Filling == pc = "fill" /\ idle > 0 /\ isRunning
FillVars == <<state, queueVars, seen, isNextSong, isNewSeek, callVars, historyVars>>

FillStop ==
    /\ pc = "fill" /\ (idle = 0 \/ ~isRunning \/ TRUE \in DownFailed)
    /\ pc' = "sync"
    /\ UNCHANGED <<FillVars, idle, pcm, left, failed, pqVars>>

FillEnd(ok) ==
    /\ Filling /\ left = 0
    /\ IF pcm THEN Push(ok) ELSE UNCHANGED pqVars
    /\ pcm' = FALSE
    /\ pc' = "sync"
    /\ UNCHANGED <<FillVars, idle, left, failed>>

(* decode_once or get_audio_info reports an error. *)
FillError ==
    /\ Filling /\ left > 0
    /\ failed' = TRUE
    /\ pc' = "sync"
    /\ UNCHANGED <<FillVars, idle, pcm, left, pqVars>>

(* No data yet, or none any more: an idle buffer is counted all the same. *)
FillNothing ==
    /\ Filling /\ left > 0
    /\ idle' = idle - 1
    /\ left' \in {left, 0}
    /\ UNCHANGED <<FillVars, pc, pcm, failed, pqVars>>

(* Less than MIN_PCM_BUFSIZE: kept in pcmBuf. *)
FillPart ==
    /\ Filling /\ left > 0 /\ ~pcm
    /\ pcm' = TRUE
    /\ UNCHANGED <<FillVars, pc, idle, left, failed, pqVars>>

FillFull(ok) ==
    /\ Filling /\ left > 0
    /\ Push(ok)
    /\ pcm' = FALSE
    /\ left' = left - 1
    /\ idle' = idle - 1
    /\ UNCHANGED <<FillVars, pc, failed>>

(* SyncPlayerState reads the source, then the state. *)
SyncRead ==
    /\ pc = "sync"
    /\ seen' = source
    /\ pc' = "switch"
    /\ UNCHANGED <<state, queueVars, idle, pcm, left, failed, isNextSong, isNewSeek,
                   callVars, historyVars, pqVars>>

SyncPlayerState ==
    /\ pc = "switch"
    /\ CASE state = "playing" /\ seen # "playing" -> Play
         [] state = "pause" /\ seen = "playing" -> Pause
         [] state = "stop" /\ seen # "stopped" -> StopQueue
         [] OTHER -> UNCHANGED pqVars
    /\ pc' = "look"
    /\ UNCHANGED <<state, queueVars, decodeVars, isNewSeek, callVars, historyVars>>

(* The source ran dry, or was not started yet. *)
NeedsStart == state = "playing" /\ source # "playing"

(* The rest of the loop: the song ends when there is nothing left to       *)
(* decode and nothing to start the source with.                            *)
Look ==
    /\ pc = "look"
    /\ Reclaim
    /\ pc' = IF ~NeedsStart THEN "loop"
             ELSE IF InUse # <<>> THEN "start"
             ELSE IF left = 0 THEN "finish" ELSE "loop"
    /\ UNCHANGED <<state, queueVars, decodeVars, isNewSeek, callVars, historyVars>>

Start ==
    /\ pc = "start"
    /\ Play
    /\ pc' = "loop"
    /\ UNCHANGED <<state, queueVars, decodeVars, isNewSeek, callVars, historyVars>>

(* spScopedPlayerQueue stops the sound when DefaultPlayPro returns. *)
Finish ==
    /\ pc = "finish"
    /\ StopQueue
    /\ pc' = "ended"
    /\ UNCHANGED <<state, queueVars, decodeVars, isNewSeek, callVars, historyVars>>

(* Mutant: only a waiting song is looked for. *)
EndedByItself_NotStopped == pending = <<>>
EndedByItself == state = "playing" /\ ~IsNeedExitPlayPro

Ended ==
    /\ pc = "ended"
    /\ isNextSong' = EndedByItself
    /\ pc' = "setStop"
    /\ UNCHANGED <<state, queueVars, idle, pcm, left, failed, seen, isNewSeek, callVars,
                   historyVars, pqVars>>

SetStop ==
    /\ pc = "setStop"
    /\ state' = "stop"
    /\ pc' = "notify"
    /\ UNCHANGED <<queueVars, decodeVars, isNewSeek, callVars, historyVars, pqVars>>

PlayReturns ==
    /\ pc = "notify"
    /\ nexts' = IF isNextSong THEN nexts \cup {song} ELSE nexts
    /\ Queue!Finish(worker)
    /\ pc' = "off"
    /\ UNCHANGED <<state, decodeVars, isNewSeek, callVars, halted, pqVars>>

-----------------------------------------------------------------------------

CallStep(c) == StopState(c) \/ AddSong(c) \/ WriteState(c)

WorkerStep ==
    \/ TakeSong \/ EnterPlay \/ Loop \/ SeekFails \/ Count
    \/ \E n \in 0 .. MaxChunks : OpenSong(n) \/ SeekDone(n)
    \/ FillStop \/ FillError \/ FillNothing \/ FillPart
    \/ \E ok \in BOOLEAN : FillEnd(ok) \/ FillFull(ok)
    \/ SyncRead \/ SyncPlayerState \/ Look \/ Start \/ Finish \/ Ended \/ SetStop \/ PlayReturns

(* The sound device works beside the worker. *)
Device ==
    /\ Consume
    /\ UNCHANGED <<state, queueVars, pc, decodeVars, isNewSeek, callVars, historyVars>>

Next ==
    \/ \E c \in Callers :
         \/ Stop(c) \/ PauseOrContinue(c) \/ SeekPlayPosition(c) \/ CallStep(c)
         \/ \E s \in Songs : StartToPlay(c, s)
    \/ WorkerStep
    \/ Device

Spec == Init /\ [][Next]_vars

(* Threads are scheduled, calls that were begun return. *)
Fairness == WF_vars(WorkerStep) /\ \A c \in Callers : WF_vars(CallStep(c))

LiveSpec == Spec /\ Fairness

-----------------------------------------------------------------------------
(* Properties *)

(* The program is not told to go on to the next song after one that it     *)
(* stopped or replaced while it was playing.                               *)
NextMeansFinished == nexts \cap halted = {}

(* No sound is left behind: between songs the source is silent and every   *)
(* buffer is back in the pool.                                             *)
SilentBetweenSongs ==
    pc \notin PlayPCs \ {"ended"} => source = "initial" /\ queued = <<>> /\ free = Header

(* A stop or a pause that lasts takes effect, although the worker only     *)
(* polls, sleeps, and may have read an older state: its song ends, or the  *)
(* sound stops.                                                            *)
CommandsSettle ==
    /\ <>[](state = "stop") => <>[](pc = "off" /\ source # "playing")
    /\ <>[](state = "pause") => <>[](source # "playing")

(* A song that waits is begun or replaced, even when the one before it is  *)
(* paused, or when the stop that came with the request was overwritten.    *)
RequestSettles == pending # <<>> ~> pending = <<>>

=============================================================================
