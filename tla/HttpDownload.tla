----------------------------- MODULE HttpDownload -----------------------------
(* A download of HTTPRequest (http/HTTPHelper.cpp), from Run(true, true) on:  *)
(* the thread of the request splits the file into chunks, a thread for each   *)
(* chunk asks libcurl for its range and writes it through one FILE*, and the  *)
(* program may Stop or Destroy the request meanwhile.                         *)
(*                                                                            *)
(* Bytes are numbered by their place at the server; the file holds numbers.   *)
(* The server may send the range, or, as CURLOPT_RANGE is a request only, the *)
(* whole file, or a page of its own.                                          *)
(* Resume, and calls made by the callbacks of the request, are left out.      *)
EXTENDS Integers, FiniteSets

CONSTANTS
    Size,        \* bytes at the server
    Ranges,      \* SetDownloadRange: <<from, to>>, to < 1 for an open end
    Threads,     \* m_thread_count after SplitDownloadCount; 1 without multi-download
    Retries,     \* m_retry_times
    PageSize,    \* bytes of a page that the server sends instead
    Fickle,      \* bound: a server may answer a retry otherwise than before
    Blocks       \* bound: how many bytes libcurl hands over at a time, at most

ASSUME HttpAssumption ==
    /\ Size \in Nat \ {0} /\ Retries \in Nat /\ PageSize \in Nat \ {0}
    /\ Fickle \in BOOLEAN /\ Blocks \subseteq Nat \ {0}
    /\ Threads \subseteq Nat \ {0} /\ Ranges \subseteq (0 .. Size - 1) \X Int
    /\ \A r \in Ranges : r[2] < Size

VARIABLES
    from, to, n, auto,     \* the range, the chunks, and IsAutoDestroy
    running, cancel, fail, \* m_is_running, m_is_cancel, m_download_fail
    listed,                \* in s_async_requests
    pc,                    \* the thread of the request
    chunk,                 \* the threads of the chunks
    lock, at, file,        \* m_download_lock, the position of _fp, what it wrote
    result,                \* what OnRequestFinished was told
    request,               \* "live", "gone", or "undefined" once used after that
    joins,                 \* Close waits for the thread of the request
    calls                  \* history: the calls of the program; "tooEarly" for a
                           \* Destroy before the thread has begun

thread == <<running, fail, listed, pc, result>>
disk == <<lock, at, file>>
vars == <<from, to, n, auto, cancel, thread, chunk, disk, request, joins, calls>>

Chunks == 0 .. n - 1
Total == (IF to > 0 THEN to + 1 ELSE Size) - from
Gap == Total \div n

\* The last chunk starts without m_download_range_begin.
Start(i) == IF n > 1 /\ i = n - 1 THEN i * Gap ELSE i * Gap + from

EndOfLast_Gap(i) == Start(i) + Gap - 1
EndOfLast(i) == to
End(i) == IF i = n - 1 THEN EndOfLast(i) ELSE Start(i) + Gap - 1

\* Length of the range: to its end, or that of the file.
Length(i) == (IF End(i) > 0 THEN End(i) + 1 ELSE Size) - Start(i)

\* The bytes of a page have negative numbers.
Page == -PageSize

\* What the server sends: the first byte, and how many.
Answers(i) == {<<Start(i), Length(i)>>, <<0, Size>>, <<Page, PageSize>>}

Idle == [pc |-> "none", start |-> 0, first |-> 0, length |-> 0, sent |-> 0, block |-> 0,
         retries |-> 0]

Init ==
    /\ \E r \in Ranges : from = r[1] /\ to = r[2]
    /\ n \in Threads /\ auto \in BOOLEAN
    /\ running = FALSE /\ cancel = FALSE /\ fail = FALSE /\ listed = TRUE
    /\ pc = "start" /\ chunk = [i \in Chunks |-> Idle]
    /\ lock = -1 /\ at = 0 /\ file = [p \in {} |-> 0]
    /\ result = "none" /\ request = "live" /\ joins = FALSE /\ calls = {}

Job == <<from, to, n, auto>>
program == <<joins, calls>>
Alive == request = "live"

(* ---- the thread of the request ---- *)

Step(here, there) == Alive /\ pc = here /\ pc' = there

Perform ==
    /\ Step("start", "size") /\ running' = TRUE /\ cancel' = FALSE
    /\ UNCHANGED <<Job, fail, listed, result, chunk, disk, request, program>>

\* The size request, or fopen, fails.
GiveUp ==
    /\ Step("size", "error") /\ running' = FALSE
    /\ UNCHANGED <<Job, cancel, fail, listed, result, chunk, disk, request, program>>

StartChunks ==
    /\ Step("size", "join")
    /\ chunk' = [i \in Chunks |-> [Idle EXCEPT !.pc = "start", !.start = Start(i),
                                                   !.first = Start(i)]]
    /\ UNCHANGED <<Job, cancel, running, fail, listed, result, disk, request, program>>

Ended(i) == chunk[i].pc \in {"ok", "failed", "noCurl"}

Joined == \A i \in Chunks : Ended(i)

\* All threads are joined; the file is moved to its place or removed.
CloseFile ==
    /\ Step("join", "report") /\ Joined /\ running' = FALSE
    /\ UNCHANGED <<Job, cancel, fail, listed, result, chunk, disk, request, program>>

Report ==
    /\ \/ Step("error", "remove") /\ result' = "failure"
       \/ Step("report", "remove") /\ result' = IF fail THEN "failure" ELSE "success"
    /\ UNCHANGED <<Job, cancel, running, fail, listed, chunk, disk, request, program>>

Remove ==
    /\ Step("remove", "removed") /\ listed' = FALSE
    /\ UNCHANGED <<Job, cancel, running, fail, result, chunk, disk, request, program>>

\* RemoveRequest reads _auto_destroy after it let go of the lock of the list.
Finish ==
    /\ Step("removed", "done") /\ request' = IF auto THEN "gone" ELSE request
    /\ UNCHANGED <<Job, cancel, running, fail, listed, result, chunk, disk, program>>

RequestThread == \/ Perform \/ GiveUp \/ StartChunks \/ CloseFile
                 \/ Report \/ Remove \/ Finish
(* ---- the thread of a chunk: DoDownload ---- *)

Goes(i, there) == chunk' = [chunk EXCEPT ![i].pc = there]
At(i, here) == Alive /\ chunk[i].pc = here

\* curl_easy_perform: the server begins one of the answers.
Transfer(i, answers, retries) ==
    \E a \in answers :
        chunk' = [chunk EXCEPT ![i] = [@ EXCEPT !.pc = "perform", !.first = a[1], !.length = a[2],
                                               !.sent = 0, !.retries = retries]]

CurlInit(i) ==
    /\ At(i, "start")
    /\ \/ Transfer(i, Answers(i), Retries) /\ UNCHANGED fail
       \/ Goes(i, "noCurl") /\ fail' = FALSE
    /\ UNCHANGED <<Job, cancel, running, listed, pc, result, disk, request, program>>

\* A block, or the rest of the answer.
BlockOf(i, b) == LET rest == chunk[i].length - chunk[i].sent IN IF b < rest THEN b ELSE rest

\* write_callback is called with the next block of the answer, whatever its status.
Receive(i) ==
    /\ At(i, "perform") /\ chunk[i].sent < chunk[i].length
    /\ \E b \in Blocks :
        chunk' = [chunk EXCEPT ![i].block = BlockOf(i, b),
                               ![i].pc = IF cancel \/ ~running THEN "failing" ELSE "block"]
    /\ UNCHANGED <<Job, cancel, thread, disk, request, program>>

Lockable_Always == TRUE
Lockable == lock = -1

Seek(i) ==
    /\ At(i, "block") /\ Lockable
    /\ lock' = i /\ at' = chunk[i].start
    /\ Goes(i, "write")
    /\ UNCHANGED <<Job, cancel, thread, file, request, program>>

\* A block that would pass the end of the chunk is cut, unless it begins there.
Cut(i) == LET c == chunk[i] IN
    IF End(i) > 0 /\ c.start <= End(i) /\ c.start + c.block > End(i)
    THEN End(i) - c.start + 1 ELSE c.block

\* To write less than was received ends the transfer. So does a full disk.
Write(i) ==
    /\ At(i, "write")
    /\ \E w \in {0, Cut(i)} :
        LET c == chunk[i]  new == at .. at + w - 1 IN
        /\ file' = [p \in DOMAIN file \cup new |->
                       IF p \in new THEN c.first + c.sent + (p - at) ELSE file[p]]
        /\ at' = at + w
        /\ chunk' = [chunk EXCEPT ![i] = [c EXCEPT !.start = c.start + w, !.sent = c.sent + w,
                                            !.pc = IF w = c.block THEN "perform" ELSE "failing"]]
    /\ lock' = -1
    /\ UNCHANGED <<Job, cancel, thread, request, program>>

TimeOut(i) ==
    /\ At(i, "perform") /\ Goes(i, "timedOut")
    /\ UNCHANGED <<Job, cancel, thread, disk, request, program>>

Less_Never(r) == r
Less(r) == r - 1

\* The handle still has the range it was given; _startidx stays where it got to.
Retry(i) ==
    /\ At(i, "timedOut") /\ chunk[i].retries > 0 /\ running
    /\ LET same == {<<chunk[i].first, chunk[i].length>>} IN
       Transfer(i, IF Fickle THEN Answers(i) ELSE same, Less(chunk[i].retries))
    /\ UNCHANGED <<Job, cancel, thread, disk, request, program>>

\* Any status from 200 to 300 will do, 200 for a range as well.
Complete(i) ==
    /\ At(i, "perform") /\ chunk[i].sent = chunk[i].length
    /\ Goes(i, "ok") /\ fail' = FALSE
    /\ UNCHANGED <<Job, cancel, running, listed, pc, result, disk, request, program>>

\* A write error, a broken connection, another status, or no retry left.
Fail(i) ==
    /\ \/ At(i, "failing") \/ At(i, "perform")
       \/ At(i, "timedOut") /\ (chunk[i].retries = 0 \/ ~running)
    /\ Goes(i, "failed") /\ fail' = TRUE
    /\ UNCHANGED <<Job, cancel, running, listed, pc, result, disk, request, program>>

DoDownload(i) == \/ CurlInit(i) \/ Receive(i) \/ Seek(i) \/ Write(i)
                 \/ TimeOut(i) \/ Retry(i) \/ Complete(i) \/ Fail(i)
(* ---- the program ---- *)

\* Abort: nobody is waited for.
Stop ==
    /\ Alive /\ running /\ "destroy" \notin calls
    /\ listed' = FALSE /\ cancel' = TRUE /\ running' = FALSE
    /\ request' = IF auto THEN "gone" ELSE request
    /\ calls' = calls \cup {"stop"}
    /\ UNCHANGED <<Job, fail, pc, result, chunk, disk, joins>>

Joins_Never == FALSE
Joins == running /\ listed

\* A request that destroys itself is not the program's to destroy.
Destroy ==
    /\ Alive /\ ~auto /\ "destroy" \notin calls
    /\ joins' = Joins
    /\ calls' = calls \cup {"destroy"} \cup (IF pc = "start" THEN {"tooEarly"} ELSE {})
    /\ UNCHANGED <<Job, cancel, thread, chunk, disk, request>>

Close ==
    /\ Alive /\ "destroy" \in calls /\ (joins => pc = "done")
    /\ request' = "gone" /\ cancel' = (cancel \/ joins)
    /\ UNCHANGED <<Job, thread, chunk, disk, program>>

Active(i) == ~(Ended(i) \/ chunk[i].pc = "none")

UseAfter ==
    /\ request = "gone"
    /\ pc # "done" \/ \E i \in Chunks : Active(i)
    /\ request' = "undefined"
    /\ UNCHANGED <<Job, cancel, thread, chunk, disk, program>>

Next == RequestThread \/ (\E i \in Chunks : DoDownload(i)) \/ Stop \/ Destroy \/ Close \/ UseAfter

Spec == Init /\ [][Next]_vars

\* The threads are scheduled (SplitDownloadCount allows ten at most), and libcurl
\* ends every transfer: LOW_SPEED_TIME.
LiveSpec == /\ Spec
            /\ WF_vars(RequestThread) /\ WF_vars(Close)
            /\ \A i \in UNION {0 .. k - 1 : k \in Threads} : WF_vars(i \in Chunks /\ DoDownload(i))
-----------------------------------------------------------------------------
Shifted(i) == chunk[i].pc # "none" /\ chunk[i].start # Start(i) + chunk[i].sent
\* It wrote of an answer that does not begin where it does.
Misled(i) == LET c == chunk[i] IN c.pc # "none" /\ c.first # Start(i) /\ c.start # Start(i)
Whole == \A p \in from .. from + Total - 1 : p \in DOMAIN file /\ file[p] = p

\* The chunks share one FILE* and its position, yet every byte is written where
\* it belongs, until a chunk began its range again or was sent bytes that do not
\* begin where it does.
RightPlace ==
    (\E p \in DOMAIN file : file[p] # p) => \E i \in Chunks : Shifted(i) \/ Misled(i)

\* Success means the whole range, though the last chunk starts too early, and
\* though a server may send the first chunk all of the file; unless a chunk that
\* failed was the first to say so, one repeated its range, or an answer that did
\* not begin where its chunk does was accepted for its status.
SuccessIsWhole ==
    result = "success" =>
       Whole \/ \E i \in Chunks : Shifted(i) \/ Misled(i) \/ chunk[i].pc # "ok"

\* Without Stop, and unless Destroy came before the thread had set m_is_running,
\* no thread of a chunk meets a deleted request, nor does the thread of the
\* request before its download is over. (From the result on, Destroy does not
\* wait for it: RemoveRequest may still read the request.)
DeletedIsOver ==
    request # "live" /\ calls \cap {"stop", "tooEarly"} = {} =>
       pc \notin {"start", "size", "join"} /\ \A i \in Chunks : ~Active(i)

\* Every download comes to a result and its thread to an end, whatever the
\* transfers do, if the request lives.
DownloadEnds ==
    pc = "start" ~> (request # "live" \/ (result # "none" /\ pc = "done"))

\* "Download Finished!" (examples/test_http_plugin/Test.cpp) is said of a file
\* that has all its bytes; that a transfer could not even begin is set aside, and
\* that the server sent something else.
FinishedIsWhole ==
    result = "success" => Whole \/ \E i \in Chunks : chunk[i].pc = "noCurl" \/ Misled(i)
=============================================================================
