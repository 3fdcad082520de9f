---------------------------- MODULE PlayerQueue -----------------------------
(***************************************************************************)
(* xiamiPlayerQueue of play_plugin/playerQ: a pool of sound buffers that   *)
(* are free, or queued on an OpenAL source which plays them on its own     *)
(* thread.  The source (source, queued, played) is modelled after what     *)
(* the al* calls do to it; every call of the queue comes from one thread.  *)
(***************************************************************************)
EXTENDS Integers, Sequences, FiniteSets

CONSTANTS
    Buffers,      \* names of the buffers that alGenBuffers made
    Header,       \* uiBufferHeader: the same names, in an array
    QueueMayFail  \* alSourceQueueBuffers may refuse a buffer (another format)

Elements(s) == {s[i] : i \in 1 .. Len(s)}
Distinct(s) == \A i, j \in 1 .. Len(s) : i # j => s[i] # s[j]

ASSUME HeaderAssumption ==
    Header \in Seq(Buffers) /\ Distinct(Header) /\ Elements(Header) = Buffers
ASSUME FailAssumption == QueueMayFail \in BOOLEAN

VARIABLES
    free,    \* uiFreeBuffers
    queued,  \* the buffers queued on uiSource, oldest first
    played,  \* how many of them the source has finished with
    source,  \* AL_SOURCE_STATE
    lost     \* history: buffers taken from the pool that were not queued

pqVars == <<free, queued, played, source, lost>>

SourceStates == {"initial", "playing", "paused", "stopped"}

(* xiamiPlayerQueue_create *)
PoolInit ==
    /\ free = Header
    /\ queued = <<>>
    /\ played = 0
    /\ source = "initial"
    /\ lost = {}

(* xiamiPlayerQueue_idleBufferCnt takes back what the source has played;   *)
(* inBufferCnt, duration and pushBuffer do so first.                       *)
InUse == SubSeq(queued, played + 1, Len(queued))
Idle == free \o SubSeq(queued, 1, played)

Reclaim ==
    /\ free' = Idle
    /\ queued' = InUse
    /\ played' = 0
    /\ UNCHANGED <<source, lost>>

(* xiamiPlayerQueue_pushBuffer; ok: the source accepts the buffer. *)
Push(ok) ==
    /\ ok \/ QueueMayFail
    /\ IF Idle = <<>>
         THEN free' = Idle /\ queued' = InUse /\ UNCHANGED lost
         ELSE /\ free' = Tail(Idle)
              /\ queued' = IF ok THEN Append(InUse, Head(Idle)) ELSE InUse
              /\ lost' = IF ok THEN lost ELSE lost \cup {Head(Idle)}
    /\ played' = 0
    /\ UNCHANGED source

(* xiamiPlayerQueue_play: a paused source goes on, any other starts again  *)
(* with the first buffer in its queue, played or not.                      *)
Play ==
    /\ source' = IF queued = <<>> THEN "stopped" ELSE "playing"
    /\ played' = IF source = "paused" THEN played ELSE 0
    /\ UNCHANGED <<free, queued, lost>>

(* xiamiPlayerQueue_pause *)
Pause ==
    /\ source' = IF source = "playing" THEN "paused" ELSE source
    /\ UNCHANGED <<free, queued, played, lost>>

(* xiamiPlayerQueue_stop: whatever was queued, every buffer is free again, *)
(* those lost as well.                                                     *)
(* Mutant: uiFreeBuffers is not cleared first. *)
AllFree_NotCleared == free \o Header
AllFree == Header

(* Mutant: the source is not rewound. *)
StopQueue_NotRewound ==
    /\ free' = AllFree /\ queued' = <<>> /\ played' = 0 /\ lost' = {}
    /\ source' = IF source = "initial" THEN source ELSE "stopped"
StopQueue ==
    /\ free' = AllFree
    /\ queued' = <<>>
    /\ played' = 0
    /\ source' = "initial"
    /\ lost' = {}

(* The source finishes a buffer, and stops after the last one. *)
Consume ==
    /\ source = "playing" /\ played < Len(queued)
    /\ played' = played + 1
    /\ source' = IF played' = Len(queued) THEN "stopped" ELSE source
    /\ UNCHANGED <<free, queued, lost>>

(* Any sequence of calls, whoever makes them. *)
PoolNext ==
    \/ Reclaim \/ Play \/ Pause \/ StopQueue \/ Consume
    \/ \E ok \in BOOLEAN : Push(ok)

PoolSpec == PoolInit /\ [][PoolNext]_pqVars

-----------------------------------------------------------------------------
(* Properties *)

PoolTypeOK ==
    /\ free \in Seq(Buffers) /\ queued \in Seq(Buffers)
    /\ played \in 0 .. Len(queued)
    /\ source \in SourceStates
    /\ lost \subseteq Buffers

(* Every buffer is in one place: free once, queued once, or lost; so none  *)
(* is refilled while the source may still play it, and the pool never ends *)
(* up smaller than what failures took.  It is what the assertions at the   *)
(* end of xiamiPlayerQueue_stop say of the moment after a stop.            *)
PoolConserved ==
    /\ Distinct(free \o queued)
    /\ Elements(free \o queued) = Buffers \ lost

=============================================================================
