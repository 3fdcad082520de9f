# Formal models of myduilib

myduilib is a Windows GUI library (DuiLib) with the libraries that a music
player built on it needs. This directory holds TLA+ models of the parts whose
correctness depends on the order of things: an operation queue with threads,
the reentrant message dispatch and the timers of the paint manager, an audio
player from its creation to its destruction with its sound queue and its
downloads, the main thread's task list and the Lua player that uses it, a
readers/writer lock, a chain of memory pools, a thread pool, and an HTTP
download in several threads. TLC checks them on small instances; TLAPS proves
the main results for every value of the constants.

Paths are relative to the root of the repository; `play_plugin` stands for
`src/thirdpart/play_plugin`.

## 1. Inventory

### Components

| Component | State it keeps | Operations | Interacts with |
|---|---|---|---|
| operation queue, `src/thirdpart/operationQueue` | list of operations, set and number of threads, running flag | `addOperation`, `cancle`, `stop`, `size`; the thread function | used by `CBasePlayer`; operations run on its threads and may call it |
| paint manager, `src/DuiLib/Core/UIManager.cpp`, with `UIControl.cpp` and `UIContainer.cpp` | the control tree, pointers to the focused, hovered, pressed and key control, capture, queued notifications, controls to be deleted, timers, native windows | the window messages, `SetFocus`, `SendNotify`, `AttachDialog`, `AddDelayedCleanup`, `ReapObjects`, timers | calls controls and listeners, which call back into it, add and remove controls, or run message loops |
| sound queue, `play_plugin/playerQ` | free buffers, buffers queued on an OpenAL source | create, push, play, pause, stop, state, counts | called by the player's worker; OpenAL's mixer thread consumes the queue |
| `CBasePlayer`, `CLocalPlayer`, `play_plugin/src` | state, seek request, time, decoder, sound queue | `StartToPlay`, `Stop`, `Pause`, `Continue`, `SeekPlayPosition`; `Play` and `DefaultPlayPro` on the worker | operation queue (one thread), sound queue, decoder plugins, callbacks of the program |
| `CPlayerFactory` | the players by id, each with a shared pointer | `createPlayer`, `destroyPlayer` | players; songs that wait or play hold references too |
| `COnlinePlayer`, `CResDownloader`, the mp3 decoder | bytes received, length, budget of connections, failure flag, the song's file | start, stop with join, the loop of connections, delegate calls; decode, seek, is_finish | the download thread writes through the decoder the file that the worker reads |
| `MainThreadTask` | queue of tasks, two flags | `addTask`, `tick`, `flush` | any thread to the main loop |
| `LuaAVPlayer` (`luaext/lplaycenter.cpp`) over `CAVPlayer` (`vlc/src/AVPlayer.cpp`) | the vlc medium, three task objects | New, PlayFile, PlayURL, Stop, Release, `__gc`; events of libvlc | libvlc's threads add tasks to `MainThreadTask`; the main thread runs Lua in them |
| FLib: `FDReadAWriteLock`, `FMemPool`, `FThreadPool` | a count and a flag behind an inner lock; free lists and counters; a task list, a semaphore, threads | enter and leave; `GetBuf`, `FreeBuf`; `addTask`, `terminate` | any threads; the pools use the lock |
| http: `HTTPRequest` | the request, its chunks, one `FILE*`, result flags, the list of requests | `Run`, `Stop`, `Destroy`, `Close`; threads of the request and of its chunks | libcurl; callbacks of the program |
| DuiLib controls, layouts, rendering, markup, dialog builder, utilities | per control | drawing, layout, parsing | below the paint manager |
| LuaDuiLib, the rest of luaext | Lua states | bindings | DuiLib, player, network |
| codecs, network, Agent, WebService, database, the rest of FLib, StackDump, taglib_plugin | handles | wrappers | applications |
| Demos, DuiDesigner | applications | | everything above |
| vendored: protobuf, sqlite3, Lua, zlib, taglib, curl, OpenAL, libmad | | | |

### What is hard, and what makes each part correct

* **Operation queue.** The flag `_isRunning` is read and written without the
  lock, `notify_all` is sent after unlocking, threads leave when idle, and
  `stop()` joins by polling and may be called by an operation. Correct means:
  the count of threads is exact and bounded, nothing runs once `stop()` has
  returned, no queued operation is stranded, `stop()` returns.
* **Paint manager.** One thread, but every event runs application code that
  may change anything before the manager goes on with what it read before.
  Correct means: no pointer to a deleted control is kept or used, nothing is
  deleted twice or while it runs, what was queued is handled.
* **Timers.** Ids of the window are handed out in a ring without a look at
  those in use, entries point to controls, messages outlive `KillTimer`.
  Correct means: no event to a deleted control, none to the wrong one.
* **Sound queue.** The mixer consumes buffers while the worker counts and
  refills them; a push may fail half-way. Correct means: each buffer is in one
  place, and the pool recovers.
* **Player.** `Stop`, `Pause`, `Continue` and requests are plain writes which
  the worker polls, and which both sides overwrite. Correct means: no notice
  of a finished song after one that was stopped, silence between songs, a
  lasting stop or pause is obeyed, requests are not forgotten.
* **Life of a player.** References are held by the factory, by waiting songs
  and by the one that plays; whoever drops the last one runs the destructor,
  which stops and deletes the queue it may be running on; the worker and the
  thread that downloads a song both call the program back. Correct means: the
  player dies, once, when nobody is inside, and callbacks end.
* **Online songs.** Two threads share a decoder, a file and four flags without
  a lock; connections break and are asked for again, a write may take a part of
  the data, nothing, or fail. Correct means: the file is the song, the end of a
  song is recognised for the right reason, nobody
  writes to a closed decoder, every song ends.
* **Main thread tasks and the Lua player.** A flag is read without its lock,
  `flush` keeps the lock while tasks run, task objects belong to players that
  Lua may release in a task, and stopping a player waits for a thread that may
  be adding a task. Correct means: no task is hidden, missing when it was
  announced, left after `flush`, or deleted while it waits; calls return.
* **Lock, pools, threads of FLib.** The writer's flag and the readers' count
  are separate sections, counters are changed without a lock, locks of several
  pools are held at once, threads are killed wherever they are. Correct means:
  mutual exclusion, blocks in one place, no task lost, no deadlock.
* **HTTP download.** Chunks share a file position and result flags, transfers
  break and are repeated, the server may send another range than it was asked
  for, a request is deleted by other threads. Correct
  means: bytes land where they belong, success means a whole file, nobody uses
  a deleted request, the program gets a result.

`PROJECT.json` lists the single hazards with their lines.

## 2. Modules

| Module | Content |
|---|---|
| `TaskQueue` | what a queue of operations promises: no locks, no threads to wake; implemented by `OperationQueue` and by `FThreadPool` |
| `OperationQueue` | the code, one action per critical section or unlocked access |
| `PaintManager` | message dispatch with an explicit call stack |
| `PaintTimers` | the table of timers, the window's timers, posted `WM_TIMER` |
| `PlayerQueue` | pool of buffers and the source that plays them |
| `BasePlayer` | the player: extends `PlayerQueue`, uses `TaskQueue` (by instance) as the queue its requests go through |
| `PlayerLife` | references, destruction and callbacks of a player together with its queue |
| `OnlineSong` | the download thread, the mp3 decoder's file and the worker |
| `MainThreadTask` | the task list of the main thread |
| `LuaAVPlayer` | extends `MainThreadTask` with the players, libvlc's threads and Lua |
| `ReadersWriters` | what a readers/writer lock promises |
| `FDReadAWriteLock` | the code of the lock |
| `FMemPool` | extends `FDReadAWriteLock` with the pools |
| `FThreadPool` | the thread pool of FLib |
| `HttpDownload` | one download, its threads and the program |
| `OperationQueueProofs`, `PlayerProofs`, `PlayerLifeProofs`, `OnlineSongProofs`, `PaintProofs`, `MainThreadTaskProofs`, `FLibProofs`, `HttpDownloadProofs` | theorems |
| `MC*` | finite values for TLC |

The player is composed of the other two: its requests are accepted, begun,
finished and dropped by the actions of `TaskQueue`, which `OperationQueue` is
proved to implement, and its sound calls are the actions of `PlayerQueue`.
`stop()` of the queue is called only by `~CBasePlayer`, so that in
`BasePlayer` the queue always accepts and nobody waits for it; the destructor
is the subject of `PlayerLife`, which keeps of a song only that it is finite
and whether a thread downloads it.
`OnlineSong` keeps of the worker's loop only what touches the decoder.
`LuaAVPlayer` composes the players with the very actions of `MainThreadTask`,
`FMemPool` with those of the lock.

### OperationQueue

`isRunning`, `opList`, `threadIdSet`, `curThreadCnt` are the members of
`COperationQueueImpl`; `pc`, `timeOutCnt` and `cur` are where a thread is in
`onOpThreadPro` and its locals; `call`, `arg` and `isOpThread` are where a
caller is in `addOperation` or `stop`. A section under `_mu` is one action. The
lock itself is not a variable: the only place where a thread holds it between
two actions is `"block"`, after its predicate was false and before
`timed_wait` releases the lock; there, an unlocked write of the flag and a
`notify_all` can come too early, and both are modelled. `timed_wait` with a
predicate tests it on entry, after each notify and once after the time-out.
`fate` and `stopped` are history.

Left out: identity of the operations beyond their name, `size()`, the failure
of thread creation. Each operation is handed over once.

### PaintManager

`stack` is the call stack, innermost frame first: frames of application code
(`event`, `kill`, `set`, `notify`), points at which the manager continues
(`sfKilled`, `click`, `enter`, `drain` and so on) and nested message loops
(`modal`). A handler may do any call the application can make, at most
`MaxCalls` in a behaviour, before `HandlerReturns`. Window messages are
dispatched only while the thread pumps. A control is its identity: all are
visible, enabled and hit by the mouse when in the attached dialog, and events
do not go on to parents (`DoEvent` of the parent runs no other pointer of the
manager). Containers are one level deep. `CControlUI::Event` gives the event to
another control when one is bound (`m_pBindEventCtrl`): `Bound` are the controls
whose dialog takes theirs, `Hearer` is who gets it. When a handler returns, the
event is recorded in `m_bFocused` (`Records`) or it is not (`Ignores`): a listener
of `OnEvent` refuses it, or the class of the control returns before
`CControlUI::DoEvent` (`src/DuiLib/Control/UIScrollBar.cpp:646-653`,
`src/DuiLib/Control/UIHotKey.cpp:313-315`,
`src/DuiLib/Control/UIDateTime.cpp:308-310`). `refused`, history, says that this
was the last set-focus event of the control with the focus. The use that
`WM_CONTEXTMENU` makes of the capture is left out. `pressed` is history; so is
`orderly`, which is true until a message loop is nested or a dialog attached
while a removed control waits for deletion: the library deletes controls under
running handlers in both cases, and what is claimed only without them says so.
`WM_APP+1` messages are a count, at most one by `WorkIsPosted`. The instance
queues few notifications, so that it does little to exercise the clearing of
`pSender` in `ReapObjects`; `PointersSafe` is proved for any number of them.

### PaintTimers

`m_aTimers`, `m_uTimerID` are the members; an entry also knows its place in
the array (`nth`), which decides whose event a `WM_TIMER` becomes. `armed` and
`posted` are the window: a timer that is set again replaces the one with its
id, a message that is posted stays when its timer is killed. The ring of ids
has `IdModulus` places (255 in the code). `SetTimer` may be refused by the
system. A control that is deleted is reaped with all its entries in one step,
as `ReapObjects` does before the destructor goes on; handlers do not run inside
the table's functions, so that each is one action. `SetTimer` of a live name
returns false and is no step. What an event does is left out.

### PlayerQueue

`free` is `uiFreeBuffers`; `queued`, `played` and `source` are the source's
queue, its `BuffersPlayed` and its state, after `SetSourceState` and the end of
the mixer's loop in the OpenAL sources of the repository. `Reclaim` is
`idleBufferCnt`, which the other calls begin with. `Push(ok)` may be refused by
`alSourceQueueBuffers` (another format than the one queued), which loses the
buffer until the next stop (`lost`, history). The device stays connected, and
buffers are never empty.

### BasePlayer

`state` is `_state`, a plain member. A call of the program is split at each
access: `Stop` is "drop the waiting requests", then "write the state";
`StartToPlay` adds a third step; `Pause` and `Continue` are "test", then
"write". The worker's `pc` follows `Play` and `DefaultPlayPro` with a step for
each read of the state or of the source that something may come between:
`SyncRead` and `SyncPlayerState`, `Ended`, `SetStop` and `PlayReturns`. The
device plays between any two steps. A chunk is what fills one buffer;
`MaxChunks` bounds a song. A decode step may give nothing, part of a buffer, a
full buffer, an error, or reach the end.

Abstractions: the two reads of `isRunning` (state, then size of the queue) are
one; volume and fading, times and the other callbacks are left out; opening the
decoder fails or gives the number of chunks; `COnlinePlayer` is its exit
predicate (`DownFailed`), which may be true at any time while playing. The
callers are one thread, as in the program; in the proofs their number is free,
except where `NextIsNotStopped` assumes one.

### PlayerLife

`inMap`, `thePlayer`, `waiting` and `op` are the references: the factory's,
those of a `destroyPlayer` under way, one per waiting song and the played
song's. `Destruct` is what the last `shared_ptr` does, on the program's thread
or, at the end of an operation, on the worker, where `~COperationQueue` ends
without waiting for itself (`isOpThread`) and the loop of `onOpThreadPro` goes
on with the deleted object: `"undefined"`.

There are three threads: the program's (`App`), the worker, and while the worker
plays a song with a url the one that downloads it (`Down`): `createPlayer` makes
a `COnlinePlayer`. `BeginSong` starts it, or not (a local file, or no thread to
be had); `EndSong` and `SongEnded` are `CResDownloader::stop`, the flag and the
join; `DownCancled` is the end of a download that was told to stop. The worker
calls back for `XPET_ERROR`, in the loop, for `XPET_PLAY_FINISHED` and
`XPET_PLAY_NEXT`; the download thread for `XPET_DOWN_DATA`, `XPET_DOWN_FINISHED`
and `XPET_DOWN_FAILED`, and the last two are the last thing it does (`Ways`).
Callbacks are three steps on either thread: the test of the pointer, its use, its
return, with calls of the player between the last two. A download that writes to
a full disk is `"stuck"` (see `OnlineSong`). `~CPlayerFactory` does the same as
`destroyPlayer`. `MaxStarts` and `MaxCalls` bound the songs and the other calls.

### OnlineSong

`wpc` and `dpc` are the worker in `OnPlay` and the download thread in
`OnDownPro`; the other variables are the members and globals that they share,
with the names of the code. A unit of data is known by its place in the song,
so that `written` is the file itself. The server (`Answers`) sends what was
asked, the whole song, or no length; a connection may break after any unit.
`doubt` marks the answers after which the code cannot tell what it has. The
order of the delegate calls and of the two writes of `mb_data_completed` and
the size is that of the code. The loop of the worker is in detail that of
`BasePlayer`: here a turn decodes, takes, seeks or leaves in any order.

`RecvData` counts what came (`ResDownloader.cpp:226`) and only then hands it to
`mp3_write_data`, whose loop is modelled turn by turn: a write takes some of the
data (`WriteData`), nothing (`WriteNothing`, the full disk: the loop goes on and
looks at no flag, until `MakeRoom`), or fails (`WriteFails`, also the closed
handle): then the rest of the data is dropped, the result is looked at by an
assertion only, and the bytes stay counted. `refused` remembers that. `Connect`
counts `maxErrCnt` down whenever it is looked at, so that a download that has used
it up ends with -1. The file is taken to be empty when a song begins
(`OPEN_EXISTING` without truncation in the code), and reading it does not fail.

### MainThreadTask and LuaAVPlayer

`tasks`, `empty` and `shutdown` are the static variables of
`MainThreadTask.cpp`; `pc` is where the main thread is in `tick` or `flush`.
`addTask` and the locked part of `tick` are one step each. `front()` of an
empty deque leads to the state `"undefined"`, after which nothing is said.
`added` and `ran` are history. Tasks are objects that may be queued again
while they wait, as those of `luaext/lplaycenter.cpp` are: a player has one for
each kind of event.

In `LuaAVPlayer` the main thread is in Lua outside `tick`, or in a task that
`tick` or `flush` runs. A call that stops a medium (`luaCall`) returns when
libvlc's thread of that player is not in an event handler. `Release` is the
destructor: first its tasks are deleted, then the base class stops the medium.
An event of a player that is being or has been destroyed, and a deleted task
that is run, are `"undefined"`.

### FDReadAWriteLock, FMemPool

Each section of the inner lock is a step: a writer takes the flag, then polls
the count in separate sections; a reader that finds the flag asks again.
`readers`, `flagged` and `writers` are history that says who is inside.
`FMemPool` numbers its pools; `list`, `count`, `hasNext` are the members,
`at` the locals. Each `++` and `--` is a load and a store (`todo`), and `raced`
remembers that a store undid another one: the unlocked ones in `FreeBuf` do.
Values of an `unsigned long` are taken modulo `ULong`.

### FThreadPool

A worker gets a permit of the semaphore, then the mutex, then pops, and runs
the task outside. `Terminate` may kill a worker between any two steps
(`TerminateThread`); the mutex of a killed one stays locked. `front()` of an
empty queue would be `"undefined"`. A wait for the semaphore is taken not to fail:
`get` does not look at its result (`FThread.cpp:226`).

### HttpDownload

The thread of the request (`pc`), one record per chunk (`chunk`), the lock, the
position and the content of the shared `FILE*`. Bytes are numbers and the file
is a function from places to bytes. A range is a request only, and `DoDownload`
takes any status from 200 to 300 (`HTTPHelper.cpp:755`): the server may send the
range of the chunk, the whole file, or a page of its own, whose bytes have
negative numbers (`Answers`); the record keeps the first byte and the length of
the answer (`first`, `length`) and how many bytes were taken of it (`sent`).
`write_callback` is three steps: take the lock and seek, cut the block at the end
of the chunk, write. A transfer may end, break or time out at any moment, and a
retry may be answered otherwise if `Fickle`; the list of requests is `listed`; the
program may `Stop` and `Destroy` at any time. `Ranges` are the download ranges
that the program may set; they end inside the file.

## 3. Runs

| Run | Asks | Instance |
|---|---|---|
| `opqueue` | thread count, what a return of `stop` means, implements `TaskQueue`, operations settle, `stop` returns | a caller, 3 operations (one may stop the queue), 3 threads, limit 2, 1 timed wait |
| `paint` | dangling pointers, deletion, posted work, capture, focus | 2 dialogs, a control in the first, whose dialog takes its events, 2 calls, nested loops, one at a time |
| `paint_attach` | finds `RunningCodeAlive` violated | the same without nested loops and with no control bound |
| `player` | buffers, next-song notice, silence, commands and requests settle | 2 buffers, 2 requests, songs of 2 chunks, refused buffers, a caller |
| `lua_tasks` | the unlocked flag, `flush`, deleted tasks, calls return, events are handled | 2 players, 2 kinds of event each, 3 additions |
| `pools_and_locks` | blocks, counters, implements `ReadersWriters`, calls return | 2 threads, 2 pools, 3 blocks, limit 2, 5 calls, counters modulo 8 |
| `threadpool` | implements `TaskQueue`, tasks begin, `addTask` returns | 2 threads, 2 clients, 4 tasks |
| `online` | the file, the reasons for an end, the open decoder, songs end | 2 songs of 2 units, 2 connections each, writes that take a part, nothing or fail, 1 seek |
| `paint_timers` | who gets an event | 2 controls, 2 names each, a ring of 3, 4 entries |
| `life` | destruction, late callbacks, destroyed players die | 3 songs, each with or without a download thread, 4 other calls |
| `download` | bytes, success, deletion, a result | 4 bytes, the whole file or bytes 1 to 3, 1 or 2 threads, 1 retry, blocks of 2; the server sends the range, the whole file or a page of 1 byte |
| `download_finished` | finds `FinishedIsWhole` violated | the same |

**Why the bounds are enough.**

* `opqueue`: three threads for a limit of two let a dead thread be replaced
  while another is between start and registration; a timed wait shows both the
  wait that ends with work and the one that ends the thread (the code's six
  repeat the first); the third operation is the one that waits. A larger limit
  repeats the same races. Operations that run call the queue as callers do, so
  that one outer caller is enough for two callers at once.
* `paint`: two calls of the application suffice for every hazard listed:
  something that dooms a control and something that uses it or deletes it. The
  control is bound to its dialog, so that the focus flags of both matter.
* `player`: two requests are a song and its successor; two buffers and two
  chunks let one be played while the other waits and let the source run dry
  with data left.
* `lua_tasks`: a list longer than what one tick takes, two tasks of one player,
  and additions between all steps of `tick` and `flush`.
* `pools_and_locks`: two pools are a first and a last one; with a limit of two
  the first is used up while a block of the second is free.
* `threadpool`: two threads race for one permit; four tasks let `addTask` find
  the queue empty, with one task and with two.
* `online`: a second unit and a second connection give a reconnect in the
  middle of a song and a write that takes only part of the data; the second song
  finds what the first left in the globals.
* `paint_timers`: four entries outgrow the ring by one, which is where an id
  is given twice.
* `life`: one song plays, one waits or comes from a callback, one comes while
  the player is destroyed; four calls are a stop, a pause, its end and one more,
  on any of the three threads.
* `download`: with two chunks of two bytes, or the one or two of a range that does
  not begin the file, the whole file is too long for each chunk, blocks are cut
  at an end, and one retry gives an attempt after another. A server that answers
  a retry otherwise than the first request (`Fickle`) multiplies the states by
  so much that the run leaves it out; the theorems allow it.

The proofs do not depend on these numbers.

`CHECK_DEADLOCK FALSE` stands where the system stops: callers make no more calls
and threads have ended (`opqueue`, `threadpool`, `life`, `online`, `download`,
`download_finished`), calls or entries are used up (`pools_and_locks`,
`paint_timers`), or the state is `"undefined"` or stuck in `flush` (`lua_tasks`). The paint manager and
the player in its loop never stop, and deadlock is looked for there.

**Fairness.** Threads that can go on do (weak fairness of each thread's steps):
the scheduler is preemptive and all waits are timed or polls. The exceptions:

* `OperationQueue`: `OpReturns` has strong fairness: an operation that goes on
  calling the queue still returns.
* `BasePlayer`, `PlayerLife`: the worker and begun calls are scheduled; in
  `PlayerLife` a song that is played ends, which `BasePlayer` shows, its download
  thread looks at the flag that `stop` cleared, and callbacks return. `Playing`
  has strong fairness there, since callbacks come between the turns of the loop. Nothing
  makes the device play, the program call, or room on a full disk.
* `OnlineSong`: the two threads are scheduled; the server and the network owe
  nothing, a socket that is silent times out. The disk owes nothing either.
* `LuaAVPlayer`: the application calls `tick` in each turn of its loop
  (`src/skin/ymusic/lua/app.lua:79-81`); a `flush` that was
  begun goes on (nothing makes the program begin one), and so do the threads of
  libvlc. The main thread's steps have strong fairness, since Lua calls come in
  between.
* `FMemPool`: each thread inside a call is scheduled. `FThreadPool`: strong
  fairness of each client and thread, for the same reason as `tick`.
* `HttpDownload`: the thread of the request, the chunks and a begun `Close` are
  scheduled; curl ends every transfer in some way; the program owes no call.
* `PaintManager`, `PaintTimers`: none; their properties are about safety.

**Mutants.** Above many definitions stands a variant with a small mistake
(`NeedsThread_Late`, `PushLock_Shared`...). `PROJECT.json` says which property
fails when it takes the definition's place.

## 4. What the checks show

Operation queue and threads

* The operation queue keeps its promises with all its unlocked accesses. Two
  operations that run at once and both call `stop()` would wait for each other;
  it takes a limit above one and two such operations, which no user in the
  repository has, so that one operation of the instance may stop.
* The pool of FLib never meets an empty queue. `terminate()` may kill a thread
  that has the mutex, after which `addTask` waits for ever; this is the only
  way (`AddTaskReturns`).
* The readers/writer lock is one. Nothing in the repository nests sections, and
  the run nests none (`MaxNest = 1`): that calls return (`CallsReturn`) is shown
  for such users only. The theorems about the lock allow any depth of nesting.
* `FreeBuf` changes the counters of a pool without a lock, so that updates are
  lost and the limit drifts; as long as none was lost the counters are exact
  (`CountersHold`). The free lists are right in any case.

Paint manager

* `AttachDialog` deletes what was queued for cleanup at once, so that a handler
  that removes its own control and attaches another dialog has its control
  deleted while it runs: against the comment in `AttachDialog` itself
  (`src/DuiLib/Core/UIManager.cpp:1720-1724`). This is the run `paint_attach`.
  Without that pattern and without nested loops, no pointer and no frame is
  left with a deleted control (`NothingDangles`); a nested loop after a removal
  has the same effect by design. The other properties hold with both.
* The mouse capture is released with the button except when the pressed
  control has been removed from the dialog meanwhile (`CaptureHasOwner` says
  exactly this): then `WM_LBUTTONUP` returns before `ReleaseCapture`.
* Whoever takes the events of the control that ends up as `m_pFocus` believes that
  it has the focus (`FocusIsFocused`), however handlers move the focus while it is
  being moved, unless the event was not recorded: `CControlUI::Event` returns
  without `DoEvent` when `OnEvent` refuses, and a few classes return before they
  call that of `CControlUI`. The exception is necessary: without it TLC finds a
  control with the focus whose flag is clear. With a bound control the flag is
  that of the other one: the control that `m_pFocus` names does not say
  `IsFocused()`. The converse does not hold: when the set-focus handler of a
  control gives the focus away, `CControlUI::DoEvent` sets `m_bFocused` after the
  kill-focus event has cleared it, and `IsFocused()` stays true of a control
  without the focus.
* Timers never reach a deleted control. They reach the right one until the
  ring of ids has gone round once; after that an entry may have a live one's
  id, and replaces its window timer (`EventOfItsOwn` says so).

Player

* With one calling thread the program is never told to go on to the next song
  after one it stopped. With two threads it can be: one stops while the other
  is between the test and the write of `Continue`.
* A `Stop()` that comes between the start of a request on the worker and
  `_state = XPS_PLAYING` is lost. A request is not: the worker looks at the
  queue as well as at the state (`RequestSettles`).
* A player that is destroyed while it plays is deleted by its own worker, and
  the loop of the queue goes on with a deleted object. A player whose callback
  pauses it after `destroyPlayer` stopped it stays alive. Both are what
  `DiesCleanly` and `DestroyedDies` exclude by name; everything else holds.
  After `SetCallBack(NULL)` one more callback may begin on each of the two threads
  that call back. A song whose download writes to a full disk keeps its player
  alive: the join in `CResDownloader::stop` waits for a loop that looks at no flag.
* A download that was answered as asked and whose writes were not refused is the
  song, whatever breaks. A
  reconnect that is answered with the whole file (200), or with the first
  length, is appended and compared with it all the same: the file is then not
  the song, against the assertion at `play_plugin/src/ResDownloader.cpp:234`
  (`doubt` in the model). A refused write leaves a gap in the file, and the
  download counts as finished all the same, because the bytes were counted before
  (`refused`); a song may then never end by itself. Failures are told by
  DECODER_ERROR, says `play_plugin/include/decoder_plugin.h:30`; on a full disk
  `mp3_write_data` tells nothing but goes round until there is room, and `stop()`
  waits for it. `SongEnds` names both.
* `tick` finds a task whenever its unlocked test promised one, until `flush` has
  run: `flush` leaves `m_empty` as it was, so that after a flush that found
  tasks the next `tick` takes the front of an empty deque. `UnlockedTestRight`
  says that this is the only way there. Nothing in the repository calls `flush`.
* A Lua player that is released while it plays or while one of its events waits
  leaves a deleted task in the list, or gets an event in its destructor; after
  a `Stop` and a `tick` that found nothing it is safe (`DrainedIsSafe`). `flush`
  holds the lock of the list while tasks run: a task that stops a player then
  waits for a libvlc thread that waits for the lock (`CallsReturn` leaves out
  this case and no other).

HTTP download

* A chunk that fails is forgotten when another succeeds after it
  (`download_finished`): the incomplete file is reported as a success. A retry
  after a timeout asks from the first byte of the chunk but writes behind what
  it has. `SuccessIsWhole` says what a success is worth: without a failed chunk,
  without such a retry and without an answer that begins elsewhere the file is
  whole.
* A server that ignores the range and answers 200 with the whole body is believed
  (`HTTPHelper.cpp:755`). A chunk that begins the file is none the worse, or
  fails because the block that was cut ends the transfer. Any other writes the
  bytes from the beginning of the file, or those of a page, to its own place, and
  may report a success for them: `Misled`, an exception by name in `RightPlace`
  and `SuccessIsWhole`.
* Bytes land in their chunk's part of the file although all chunks share a file
  position, as long as no such retry or answer
  shifted them (`RightPlace`), and every
  download reports a result.
* A request that is deleted before its thread has set `m_is_running`, or after a
  `Stop` while its chunks still run, is used after its end; `DeletedIsOver`
  names these cases.

## 5. Proofs

All theorems hold for every value of the constants that the named assumptions
allow: finite or disjoint sets, limits of at least one, the buffers listed once
in `Header`, ranges that begin and end inside the file, and, for the counters of the
pools, fewer blocks and threads than values of an `unsigned long`
(`RoomAssumption`: such numbers do not fit into the address space of the Win32
build; in the x64 build, where an `unsigned long` has 32 bits too, so many blocks
would take more than 64 GB, which the theorem leaves out). Every safety invariant that a run checks is the
conclusion of a theorem.

* `OperationQueueProofs`: `TypeCorrect`; `ThreadsAccounted`, from the inductive
  invariant that ties the count, the registered set and the program counters
  together (the count alone is not inductive: an exit decrements it for a
  thread that must be known to be counted); `StopQuiesces`, which adds that the
  flag stays false once a caller is inside `stop`, that the list stays empty
  after its `cancle`, and that a caller which found itself registered is a
  thread that cannot leave meanwhile. `QueueRefines`: every step is a step of
  `TaskQueue` or changes nothing there; it needs, beyond those invariants, that
  exactly the threads that run have an operation, and that an operation is in
  the list, in the hands of a caller or a thread, or new.
* `PlayerProofs`: `PoolIsConserved`. The property with the type of the pool is
  inductive; the work is in the lemmas on sequences: cutting the queue at
  `played` and joining the parts again changes nothing (`ReclaimKeepsPool`),
  moving the first free buffer to the end of the queue keeps the elements and
  their distinctness (`Rotation`), dropping it removes exactly one
  (`DropFirst`). `PlayerConservesPool`: each step of the player is at most one
  call of the pool, hence `Spec => PoolSpec`, from which the first theorem
  gives the result. `PlayerIsSilent`: by the place of the worker; only steps
  inside the loop touch the source, and the loop is left through `Finish`.
  `NextIsNotStopped`: for one caller, the state a song was stopped in lasts as
  long as the song does (`HaltLasts`): a pause begins only in another state, and
  `_state = XPS_PLAYING` is written only for a song that nobody can have stopped
  while it played. With two callers a pause begun before the stop may be written
  after it, and the theorem's assumption is needed.
* `PlayerLifeProofs`: `DestroyedByTheLast` (the destructor runs exactly when no
  reference is left), `ProgramDestroysCleanly`, `NobodyStaysInside`, together
  `DeathIsClean`, and `OneLateCallBack`, from one invariant over the references
  and the places of control of the three threads. That the download thread is
  outside when the player dies rests on the join before the end of the song;
  once the pointer is cleared no test succeeds, so that each thread has at most
  the callback left that it had tested for.
* `OnlineSongProofs`: `DownloadIsSong`: what was written is a beginning of the
  song as long as nothing is in doubt and no write was refused, because a
  connection that begins asks from what was received, an open one carries on from
  there, and what was counted is written or in the hands of the loop that writes. `EndIsEnd` and
  `GivenUpForCause`, together `EndHasCause`, need the order in which the
  download thread publishes size, data and completion. `DecoderIsOpen` rests on
  the join. `OnlineTypeCorrect` includes that the budget stops at -1: it gets there
  only on the way out of the loop, which nobody enters again.
* `PaintProofs`, timers: `TimersReachTheLiving` and `TableIsTheWindows` by
  induction over the calls; `RingIsLongEnough` from the arithmetic of the ring
  (ids of entries made less than a ring apart differ); `OwnEventsOnly` from all
  three.
* `PaintProofs`, controls, for any dialogs, controls and depth of nesting:
  `PointersSafe` (`NothingDangles`) and `CleanupOnce` (`CleanedOnce`) follow from
  `PaintInv`, which is inductive. Its parts keep one another. `TreesOK`: a
  control queued for deletion is out of its tree or a whole tree, is queued once,
  and what is not yet under the manager lives. `FrameOK` and `OrderOK`, together
  `Well`: what each frame of the stack of calls may point to and below which
  frame it lies. While the application has been orderly (no nested message loop,
  no dialog attached while a cleanup is pending), a cleanup runs only at the
  bottom of the stack, so that no frame is left to use what it deletes, and the
  manager's own pointers were cleared when the control was reaped. `WorkPosted`
  (`WorkIsPosted`) needs besides that the frame which handles `WM_APP+1` stays
  on the stack until its cleanup. `FocusBelieved` (`FocusIsFocused`) holds only
  between messages; what holds always is `FocusOK`: the hearer of the
  control with the focus believes it, the event was refused, or a `SetFocus` is
  still on the stack. `CaptureOwned`
  (`CaptureHasOwner`) needs that a capture without a press belongs to a double
  click on the stack, or its control is out of the dialog (`CaptureOK`).
* `MainThreadTaskProofs`: `OrderIsKept`, `UnlockedTestIsSafe`, `FlushIsFinal`,
  all from one inductive invariant. The second needs `FlagExplained`: the flag
  may announce tasks that are not there only inside `flush` and after it.
  `PlayersUseTheList`: `LuaAVPlayer` makes no step of the list that
  `MainThreadTask` does not allow, so that `ListHoldsUnderLua`.
  `DrainedPlayersAreSafe`: a drained player has no medium, hence no thread that
  reports, and stays without a task in the list until it is released.
* `FLibProofs`: `LockTypeCorrect`; `ReadersCounted` (the count is the number of
  open sections, the flag that of writers); `MutualExclusion` and `LockRefines`
  from it: a writer enters only after it read a zero that readers could not
  leave while its flag was up. `PoolsKeepBlocks`: a writer builds its new list
  from a chain that is still the one in the pool, because its section excludes
  every other, so that hands and lists stay apart and nothing is lost.
  `PoolLocksRefine` is the refinement again, of the locks as the pools use them.
  `CountersAreRight` (`CountersHold`): the counters are changed after the lock
  is left, so the statement about calls that are over is not inductive. What is,
  `CountInv`: a counter is what it counts, less what threads have yet to add,
  plus what they have yet to take away (`Due`), or that number and one full turn
  of the `unsigned long`, for a block can be freed before it was counted out.
  The limit holds for all blocks of a pool, free ones included: `GetBuf` looks
  at the counter with the lock and an empty list, when no thread owes an
  addition (`LimitSeesAll`). `FThreadPool`: `PoolTypeCorrect`;
  `TakesWhatIsThere`: permits given out and signals still to be sent never
  exceed the tasks in the queue; `PoolRefines` from it.
* `HttpDownloadProofs`, for any size, range, number of chunks and of retries, and
  for servers that answer each attempt in any of the ways:
  `HttpInv` is inductive and gives all three invariants of the run.
  `BytesInPlace` (`RightPlace`): the lock of the file is held from the seek to
  the write, so the position is the chunk's, and what is written there is what the
  answer has there (`Unshifted`). `SuccessWhole` (`SuccessIsWhole`):
  all up to the place of a chunk is written (`ChunksGrow`), and the chunks cover
  the range whatever the remainder of the division (`ChunksCover`).
  `DeletionIsLate` (`DeletedIsOver`) is not inductive: it needs `DestroyWaits`,
  that a download which nobody stopped is listed and running as long as its
  thread is in it, so that `Destroy` finds it and joins.

Model-checked only: the liveness properties (`EveryOpSettles`, `StopReturns`,
`CommandsSettle`, `RequestSettles`, `CallsReturn`, `EventsHandled`,
`EveryTaskBegins`, `AddTaskReturns`, `SongEnds`, `DestroyedDies`,
`DownloadEnds`), because fairness and `ENABLED` are beyond the prover.

## 6. Plan and limits

Next, in this order: the destruction of the paint manager, whose queued
notifications are deleted before the controls that look for them
(`src/DuiLib/Core/UIManager.cpp:189`); native windows and mouse-leave
registrations (1391, 1730); `Resume` and `PerformRequest` of `HTTPRequest`;
`ReGetBuf`, `FThreadGroup` and `FAsync` of FLib; fading of the volume and
`xiamiPlayerQueue_destroy`.

Not to be modelled: drawing, layout arithmetic, parsing, codecs, wrappers of
sockets and databases, demos and the vendored libraries, which are nearly all of
the repository's lines. Their difficulty is data or the operating system, not
order; the applications appear as the calls that handlers, callbacks and Lua
make.
