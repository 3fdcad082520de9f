----------------------------- MODULE LuaAVPlayer -----------------------------
(* The players that Lua sees (luaext/lplaycenter.cpp over vlc/AVPlayer.cpp). *)
(* A player owns a task object for each kind of event. libvlc's threads      *)
(* report events by adding the task of that kind to the list of              *)
(* MainThreadTask; the main thread runs it in a tick or a flush, where Lua   *)
(* may play something else, stop, or release the player, whose tasks are     *)
(* then deleted. To stop a medium waits for the thread that plays it.        *)
EXTENDS MainThreadTask, FiniteSets

CONSTANTS
    Player,    \* the LuaAVPlayer objects
    Kind       \* OnPlaying, OnPosChanged, OnEndReached

ASSUME TaskAssumption == Tasks = Player \X Kind
ASSUME KindAssumption == {"none", "undefined"} \cap Kind = {}

VARIABLES
    object,    \* each player: "none" yet, "live", "dying" in its destructor, "gone"
    media,     \* m_pVLC_Player # NULL: libvlc has a thread for it
    event,     \* what that thread is reporting, "none", or "undefined": libvlc or
               \* the list has used the player after its destructor
    luaCall,   \* the call of the main thread that waits for libvlc
    drained    \* history: players that were released in silence, and nothing of
               \* theirs in the list

luaVars == <<vars, object, media, event, luaCall, drained>>

NoCall == <<"none">>

LuaInit ==
    /\ Init
    /\ object = [p \in Player |-> "none"] /\ media = [p \in Player |-> FALSE]
    /\ event = [p \in Player |-> "none"] /\ luaCall = NoCall /\ drained = {}

(* ---- Lua, on the main thread: between ticks or in a handler ---- *)

LuaRuns == pc \in {"idle", "task", "flushTask"} /\ luaCall = NoCall

NewPlayCenter(p) ==
    /\ LuaRuns /\ object[p] = "none"
    /\ object' = [object EXCEPT ![p] = "live"]
    /\ UNCHANGED <<vars, media, event, luaCall, drained>>

\* PlayFile and PlayURL stop what plays first; so does Stop.
PlayOrStop(p, what) ==
    /\ LuaRuns /\ object[p] = "live"
    /\ luaCall' = <<what, p>>
    /\ UNCHANGED <<vars, object, media, event, drained>>

Waiting(p) == {i \in 1 .. Len(tasks) : tasks[i][1] = p}

\* Release and __gc: ~LuaAVPlayer deletes the tasks; only then ~CAVPlayer stops
\* the medium.
Release(p) ==
    /\ LuaRuns /\ object[p] = "live"
    /\ object' = [object EXCEPT ![p] = "dying"]
    /\ luaCall' = <<"release", p>>
    /\ drained' = IF ~media[p] /\ Waiting(p) = {} THEN drained \cup {p} ELSE drained
    /\ UNCHANGED <<vars, media, event>>

Silent_NotWaited(p) == TRUE
\* libvlc_media_player_stop returns when its thread is done.
Silent(p) == event[p] = "none"

Stopped(p, plays) ==
    /\ luaCall # NoCall /\ luaCall[2] = p /\ Silent(p)
    /\ plays => luaCall[1] = "play"
    /\ media' = [media EXCEPT ![p] = plays]
    /\ object' = IF luaCall[1] = "release" THEN [object EXCEPT ![p] = "gone"] ELSE object
    /\ luaCall' = NoCall
    /\ UNCHANGED <<vars, event, drained>>

DeletedTaskRuns(p) ==
    /\ pc \in {"pop", "flush"}
    /\ tasks # <<>> /\ Head(tasks)[1] = p
    /\ object[p] = "gone"

\* doTask of a task that ~LuaAVPlayer deleted is undefined from there on.
MainThread(calls) ==
    /\ luaCall = NoCall
    /\ calls
    /\ event' = [p \in Player |-> IF DeletedTaskRuns(p) THEN "undefined" ELSE event[p]]
    /\ UNCHANGED <<object, media, luaCall, drained>>

(* ---- the threads of libvlc ---- *)

Reporting == {p \in Player : event[p] \in Kind}

\* OnVLC_Event: the callback tests its task. Once ~LuaAVPlayer is over, the call
\* goes through an object whose class is gone.
EventBegins(p, k) ==
    /\ media[p] /\ event[p] = "none" /\ Len(added) + Cardinality(Reporting) < MaxAdds
    /\ event' = [event EXCEPT ![p] = IF object[p] = "live" THEN k ELSE "undefined"]
    /\ UNCHANGED <<vars, object, media, luaCall, drained>>

Adds(t) == AddTask(t)

\* addTask refuses when the list has been shut.
EventAdds(p) ==
    /\ event[p] \in Kind
    /\ \/ Adds(<<p, event[p]>>)
       \/ LockFree /\ Refuses /\ UNCHANGED vars
    /\ event' = [event EXCEPT ![p] = "none"]
    /\ UNCHANGED <<object, media, luaCall, drained>>

(* ---- the specification ---- *)

Lua == \E p \in Player : \/ NewPlayCenter(p) \/ Release(p)
                         \/ \E what \in {"play", "stop"} : PlayOrStop(p, what)
StopEnds(p) == \E plays \in BOOLEAN : Stopped(p, plays)

LuaNext ==
    \/ Lua \/ MainThread(Tick) \/ MainThread(FlushEntry) \/ MainThread(Flush)
    \/ \E p \in Player : StopEnds(p) \/ EventAdds(p) \/ \E k \in Kind : EventBegins(p, k)

LuaSpec == LuaInit /\ [][LuaNext]_luaVars

\* The application calls tick in each turn of its loop, a flush that was begun
\* and the main thread's waiting go on, and the threads of libvlc are scheduled.
FairLuaSpec ==
    /\ LuaSpec
    /\ SF_luaVars(MainThread(Tick)) /\ SF_luaVars(MainThread(Flush))
    /\ \A p \in Player : WF_luaVars(EventAdds(p)) /\ SF_luaVars(StopEnds(p))

-----------------------------------------------------------------------------
\* The list meets a deleted task, and libvlc a player without its class, only when
\* a player was released that still played or had events in the list: to stop it
\* and to wait for a tick without tasks is enough.
DrainedIsSafe ==
    \A p \in drained : Waiting(p) = {} /\ event[p] = "none"

\* flush holds the lock while its tasks run: one that stops a player whose
\* thread is adding a task waits for ever.
StuckInFlush == pc = "flushTask" /\ luaCall # NoCall /\ ~Silent(luaCall[2])

GivenUp == StuckInFlush \/ \E p \in Player : event[p] = "undefined"

\* A handler may stop or release a player while a thread of that player waits
\* to add a task: tick has let go of the lock. The call returns, and so does
\* the tick; the exceptions are a handler that flush runs, and the use of a
\* player in or after its destructor.
CallsReturn ==
    \A p \in Player : (luaCall # NoCall /\ luaCall[2] = p) ~> (luaCall = NoCall \/ GivenUp)

\* Each event that was accepted reaches its task's turn, whatever the handlers
\* do, with the same exceptions: neither the unlocked test of m_empty nor a
\* handler that waits hides it.
EventsHandled == \A n \in 1 .. MaxAdds : Len(added) >= n ~> (Len(ran) >= n \/ GivenUp)
=============================================================================
