----------------------------- MODULE OnlineSong -----------------------------
(* COnlinePlayer::OnPlay with the thread of CResDownloader and the mp3      *)
(* decoder between them. The download thread asks a server for the song,    *)
(* again and from where it broke off when the connection fails, and writes  *)
(* what it receives through the decoder into a file, which may take less    *)
(* than it is given, nothing (a full disk), or refuse; the worker of the    *)
(* player reads the same file and has to know when the song is over. The    *)
(* only thing between the two threads is the join at the end of OnPlay.     *)
(*                                                                          *)
(* Data is counted in units; a unit is known by its place in the song. The  *)
(* loop of the worker is in detail that of BasePlayer: here the order of    *)
(* what it does in one turn is left open.                                   *)
EXTENDS Integers, Sequences

CONSTANTS
    Song, NoSong,
    FileLen,         \* units of a song
    MAX_ERROR_CNT,   \* connections that a download may try
    MaxSeeks         \* bound: seeks in a behaviour

ASSUME OnlineAssumption ==
    /\ FileLen \in Nat \ {0} /\ MAX_ERROR_CNT \in Nat /\ MaxSeeks \in Nat
    /\ NoSong \notin Song

VARIABLES
    wpc, song, state,   \* the worker: where it is, its song, _state
    pos, samples, info, \* mn_cur_position, m_raw_pcm_data_list, mp_audio_info # NULL
    written, size,      \* the file, mn_file_size
    completed,          \* mb_data_completed
    isDownFailed,       \* _isDownFailed
    running,            \* _isRunning
    dpc, next, got,     \* the download thread: where it is, first unit received and
                        \* not written (0 before a header), how many of them
    total, nFileLen,    \* totalRecvBytes, nFileLen: -1 if not known
    isFinished, maxErrCnt,
    doubt, refused,     \* history: the server answered something else than it was
    verdict, how,       \* asked; a write was refused; what was reported of the song;
    toPlay, seeks       \* why it ended. Bounds: songs to play, seeks so far

workerVars == <<wpc, song, state, pos, samples, info>>
fileVars == <<written, size, completed, isDownFailed>>
downVars == <<dpc, next, got, total, nFileLen, isFinished, maxErrCnt>>
historyVars == <<doubt, refused, verdict, how, toPlay, seeks>>
vars == <<workerVars, fileVars, running, downVars, historyVars>>

Init ==
    /\ wpc = "off" /\ song = NoSong /\ state = "stop"
    /\ pos = 0 /\ samples = FALSE /\ info = FALSE
    /\ written = <<>> /\ size = 0 /\ completed = FALSE /\ isDownFailed = FALSE
    /\ running = FALSE /\ dpc = "none"
    /\ next = 0 /\ got = 0 /\ total = 0 /\ nFileLen = -1
    /\ isFinished = FALSE /\ maxErrCnt = MAX_ERROR_CNT
    /\ doubt = FALSE /\ refused = FALSE /\ seeks = 0
    /\ verdict = "none" /\ how = "none" /\ toPlay = Song

(* ---- the download thread ---- *)

Goes(pc) == dpc' = pc
TriesLeft == maxErrCnt # 0

Budget_Endless == maxErrCnt
Budget == maxErrCnt - 1

\* The head of the outer loop, then Create, ConnectEx, WaitWriteable, Send. The
\* head counts a try whenever the thread runs, also when it then leaves the loop.
Connect(ok) ==
    /\ dpc = "connect"
    /\ maxErrCnt' = IF running THEN Budget ELSE maxErrCnt
    /\ Goes(IF ~running \/ ~TriesLeft \/ isFinished THEN "report"
            ELSE IF ok THEN "recv" ELSE "connect")
    /\ next' = 0
    /\ UNCHANGED <<workerVars, fileVars, running, got, total, nFileLen, isFinished,
                   historyVars>>

Receiving == dpc = "recv" /\ running /\ ~isFinished

\* The inner loop ends: stop, the last unit, a timeout, an error of the socket,
\* or a header that is neither 200 OK nor 206 Partial Content.
Disconnect ==
    /\ dpc = "recv"
    /\ Goes("connect")
    /\ UNCHANGED <<workerVars, fileVars, running, next, got, total, nFileLen, isFinished,
                   maxErrCnt, historyVars>>

AskedFrom_Start == 0
\* Range: bytes=totalRecvBytes-
AskedFrom == total

\* The server sends what it was asked for (206) or the whole song (200), with
\* the length of what it sends or without.
Answers == [from : {AskedFrom, 0} \cap (0 .. FileLen - 1), tells : BOOLEAN]
Length(a) == IF a.tells THEN FileLen - a.from ELSE -1

\* A header, with n units behind it. OnRecvHeader tells the decoder the size.
RecvHeader(a, n) ==
    /\ Receiving /\ next = 0
    /\ a.from + n <= FileLen
    /\ nFileLen' = IF nFileLen = -1 THEN Length(a) ELSE nFileLen
    /\ size' = IF nFileLen = -1 THEN nFileLen' ELSE size
    /\ doubt' = (doubt \/ a.from # AskedFrom \/ (nFileLen # nFileLen' /\ total # 0))
    /\ next' = a.from + 1
    /\ got' = n
    /\ Goes("data")
    /\ UNCHANGED <<workerVars, written, completed, isDownFailed, running, total,
                   isFinished, maxErrCnt, refused, verdict, how, toPlay, seeks>>

Recv(n) ==
    /\ Receiving /\ next > 0
    /\ next + n <= FileLen + 1
    /\ got' = n
    /\ Goes("data")
    /\ UNCHANGED <<workerVars, fileVars, running, next, total, nFileLen, isFinished,
                   maxErrCnt, historyVars>>

\* The loop looks at the length and receives again.
Enough(cnt) == nFileLen # -1 /\ cnt >= nFileLen
Test(cnt) == isFinished' = Enough(cnt) /\ Goes("recv")

\* The units are counted, and OnRecvData gives them to the decoder; a header
\* alone does not.
RecvData ==
    /\ dpc = "data"
    /\ total' = total + got
    /\ IF got = 0 THEN Test(total') ELSE Goes("write") /\ UNCHANGED isFinished
    /\ UNCHANGED <<workerVars, fileVars, running, next, got, nFileLen, maxErrCnt, historyVars>>

WriteOnly == UNCHANGED <<workerVars, size, completed, isDownFailed, running, total, nFileLen,
                         maxErrCnt, doubt, verdict, how, toPlay, seeks>>

\* One turn of the loop of mp3_write_data: Write takes n units. After the last
\* OnRecvData returns.
WriteData(n) ==
    /\ dpc = "write" /\ n <= got
    /\ written' = written \o [i \in 1 .. n |-> next + i - 1]
    /\ next' = next + n /\ got' = got - n
    /\ IF n = got THEN Test(total) ELSE Goes("write") /\ UNCHANGED isFinished
    /\ WriteOnly /\ UNCHANGED refused

\* Write takes nothing, as on a full disk: the loop goes on, and looks at no flag.
WriteNothing ==
    /\ dpc = "write"
    /\ Goes("spin")
    /\ WriteOnly /\ UNCHANGED <<written, next, got, isFinished, refused>>

\* There is room again.
MakeRoom ==
    /\ dpc = "spin"
    /\ Goes("write")
    /\ WriteOnly /\ UNCHANGED <<written, next, got, isFinished, refused>>

\* The handle is closed, or Write gives an error: the rest is dropped, which
\* nobody is told; it stays counted.
WriteFails ==
    /\ dpc = "write"
    /\ next' = next + got /\ got' = 0
    /\ Test(total)
    /\ refused' = TRUE
    /\ WriteOnly /\ UNCHANGED written

\* OnFinished, OnCancled or OnFailed, and the thread ends.
Report ==
    /\ dpc = "report"
    /\ completed' = (completed \/ isFinished)
    /\ isDownFailed' = (isDownFailed \/ (~isFinished /\ running))
    /\ verdict' = IF isFinished THEN "finished" ELSE IF running THEN "failed" ELSE "cancelled"
    /\ Goes("done")
    /\ UNCHANGED <<workerVars, written, size, running, next, got, total, nFileLen,
                   isFinished, maxErrCnt, doubt, refused, how, toPlay, seeks>>

(* ---- the worker ---- *)

FailedAtOpen == FALSE

\* Play and OnPlay up to DefaultPlayPro: the decoder is opened, the download
\* starts if its thread can be created.
OnPlay(s, started) ==
    /\ wpc = "off" /\ s \in toPlay
    /\ wpc' = "play" /\ song' = s /\ state' = "playing"
    /\ pos' = 0 /\ samples' = FALSE /\ info' = FALSE
    /\ written' = <<>> /\ size' = 0 /\ completed' = FALSE
    /\ isDownFailed' = FailedAtOpen
    /\ running' = started
    /\ Goes(IF started THEN "connect" ELSE "none")
    /\ next' = 0 /\ got' = 0 /\ total' = 0 /\ nFileLen' = -1
    /\ isFinished' = FALSE /\ maxErrCnt' = MAX_ERROR_CNT
    /\ doubt' = FALSE /\ refused' = FALSE
    /\ verdict' = "none" /\ how' = "none"
    /\ toPlay' = toPlay \ {s}
    /\ UNCHANGED seeks

WorkerOnly == UNCHANGED <<song, state, fileVars, running, downVars, doubt, refused, verdict, toPlay>>

\* mp3_decode_once reads the file where there is something to read; a frame may
\* come of it.
Decode(n) ==
    /\ wpc = "play"
    /\ pos + n <= Len(written)
    /\ pos' = pos + n
    /\ \E frame \in BOOLEAN : /\ samples' = (samples \/ frame)
                              /\ info' = (info \/ frame)
    /\ WorkerOnly /\ UNCHANGED <<wpc, how, seeks>>

\* mp3_get_data takes all there is, or fills its buffer.
GetData ==
    /\ wpc = "play" /\ samples
    /\ samples' = FALSE
    /\ WorkerOnly /\ UNCHANGED <<wpc, pos, info, how, seeks>>

\* mp3_seek; before the first frame there is no audio info to compute from.
Seek(p) ==
    /\ wpc = "play" /\ seeks < MaxSeeks
    /\ seeks' = seeks + 1
    /\ p <= IF size > 0 THEN size ELSE 0
    /\ IF info THEN /\ p <= Len(written)
                    /\ pos' = p /\ samples' = FALSE
                    /\ wpc' = wpc
               ELSE wpc' = "undefined" /\ UNCHANGED <<pos, samples>>
    /\ WorkerOnly /\ UNCHANGED <<info, how>>

is_finish_Read == ~samples /\ size <= pos
is_finish == ~samples /\ size <= pos /\ completed

IsDownFailed == isDownFailed /\ ~samples /\ state = "playing"

\* The loop of DefaultPlayPro ends: why, and CResDownloader::stop.
Leave(why) ==
    /\ wpc = "play"
    /\ \/ why = "ended" /\ is_finish /\ state = "playing"
       \/ why = "failed" /\ IsDownFailed
       \/ why = "stopped" /\ state = "stop"
       \/ why = "error" /\ pos > 0
    /\ how' = why
    /\ running' = FALSE
    /\ wpc' = "join"
    /\ UNCHANGED <<song, state, pos, samples, info, fileVars, downVars, doubt, refused, verdict,
                   toPlay, seeks>>

Joined_NotWaited == TRUE
Joined == dpc \in {"none", "done"}

\* The thread has ended; the decoder is closed, _state = XPS_STOP.
Close ==
    /\ wpc = "join" /\ Joined
    /\ wpc' = "off" /\ song' = NoSong /\ state' = "stop"
    /\ UNCHANGED <<pos, samples, info, fileVars, running, downVars, historyVars>>

\* Stop, Pause and Continue, by the program.
WriteState(st) ==
    /\ st = "pause" => state = "playing"
    /\ st = "playing" => state = "pause"
    /\ state' = st
    /\ UNCHANGED <<wpc, song, pos, samples, info, fileVars, running, downVars, historyVars>>

(* ---- the specification ---- *)

Download == \/ \E ok \in BOOLEAN : Connect(ok)
            \/ Disconnect
            \/ \E a \in Answers, n \in 0 .. FileLen : RecvHeader(a, n)
            \/ \E n \in 1 .. FileLen : Recv(n)
            \/ RecvData
            \/ \E n \in 1 .. FileLen : WriteData(n)
            \/ WriteNothing \/ WriteFails
            \/ Report

DecodeSome == \E n \in 1 .. FileLen : Decode(n)
LeaveOrClose == Close \/ \E why \in {"ended", "failed", "stopped"} : Leave(why)

Next == \/ Download \/ MakeRoom
        \/ \E s \in Song, started \in BOOLEAN : OnPlay(s, started)
        \/ DecodeSome \/ GetData
        \/ \E p \in 0 .. FileLen : Seek(p)
        \/ LeaveOrClose \/ Leave("error")
        \/ \E st \in {"playing", "pause", "stop"} : WriteState(st)

Spec == Init /\ [][Next]_vars

\* Both threads are scheduled. Nothing is said of the server: a socket that
\* is silent times out. Nothing is said of the disk: a full one may stay full.
LiveSpec == /\ Spec
            /\ WF_vars(Download)
            /\ WF_vars(DecodeSome) /\ WF_vars(GetData) /\ WF_vars(LeaveOrClose)

-----------------------------------------------------------------------------
\* The variables have their types.
TypeOK ==
    /\ wpc \in {"off", "play", "join", "undefined"}
    /\ song \in Song \cup {NoSong}
    /\ state \in {"playing", "pause", "stop"}
    /\ pos \in Nat /\ samples \in BOOLEAN /\ info \in BOOLEAN
    /\ written \in Seq(1 .. FileLen) /\ size \in -1 .. FileLen
    /\ completed \in BOOLEAN /\ isDownFailed \in BOOLEAN /\ running \in BOOLEAN
    /\ dpc \in {"none", "connect", "recv", "data", "write", "spin", "report", "done"}
    /\ next \in 0 .. FileLen + 1 /\ got \in 0 .. FileLen
    /\ total \in Nat /\ nFileLen \in -1 .. FileLen
    /\ isFinished \in BOOLEAN /\ maxErrCnt \in -1 .. MAX_ERROR_CNT
    /\ doubt \in BOOLEAN /\ refused \in BOOLEAN /\ seeks \in 0 .. MaxSeeks
    /\ verdict \in {"none", "finished", "failed", "cancelled"}
    /\ how \in {"none", "ended", "failed", "stopped", "error"}
    /\ toPlay \subseteq Song

\* The file is the beginning of the song, in order and without gaps, however
\* often the connection broke and however little Write took at a time; and it is
\* the whole song when the download is finished. Unless a write was refused, or
\* the server answered a request for the rest with the whole song, or told a
\* length for the first time with a rest.
FileIsSong ==
    ~doubt /\ ~refused =>
       /\ written = [i \in 1 .. Len(written) |-> i]
       /\ isFinished => Len(written) = FileLen

\* A song that ends by itself was downloaded and read to its end: the worker
\* sees the size and the end of the download in whatever order the other
\* thread sets them.
EndedMeansRead ==
    wpc = "join" /\ how = "ended" =>
       /\ verdict = "finished"
       /\ pos >= nFileLen

\* A song is given up for a failed download only when it is its own that
\* failed, and after what was decoded of it has been taken.
GivenUpMeansFailed ==
    wpc = "join" /\ how = "failed" => verdict = "failed" /\ ~samples

\* Whatever the program and the server do, a song ends for a cause that is so.
EndsForCause == EndedMeansRead /\ GivenUpMeansFailed

\* The download thread works only between the opening and the closing of the
\* decoder it writes to.
WritesToOpenDecoder ==
    dpc \in {"connect", "recv", "data", "write", "spin", "report"} => wpc \in {"play", "join", "undefined"}

\* A song whose download could be started ends, whatever the server does and
\* however often the connection breaks, unless the program pauses it, the disk is
\* full for ever (the join waits for a loop that looks at no flag), or a write was
\* refused (the file never reaches the size that was told).
SongEnds ==
    \A s \in Song : (song = s /\ dpc # "none") ~>
       (song # s \/ state = "pause" \/ wpc = "undefined" \/ dpc = "spin" \/ refused)
=============================================================================
