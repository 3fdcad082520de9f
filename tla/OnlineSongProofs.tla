-------------------------- MODULE OnlineSongProofs --------------------------
(* Theorems about OnlineSong, for songs of any length, any number of tries  *)
(* and any number of seeks.                                                 *)
EXTENDS OnlineSong, SequenceTheorems, TLAPS

\* What was received and is not written is inside the song; a write has something
\* to write.
InsideSong ==
    /\ dpc \in {"data", "write", "spin"} => next >= 1 /\ next + got <= FileLen + 1
    /\ dpc \in {"write", "spin"} => got >= 1

\* A connection is tried only while the budget lasts: it ends at -1.
BudgetLasts == dpc \in {"connect", "recv", "data", "write", "spin"} => maxErrCnt >= 0

\* Units that are counted and not written yet.
Held == IF dpc \in {"write", "spin"} THEN got ELSE 0

\* Without doubt and refusals the server is where the file ends, but for what is
\* held, and a length that was told is the length of the song.
Undoubted ==
    ~doubt /\ ~refused =>
       /\ total <= FileLen
       /\ written = [i \in 1 .. total - Held |-> i]
       /\ nFileLen \in {-1, FileLen}
       /\ next # 0 => next = total - Held + 1

\* The download is finished when what was told has been received.
FinishedHasAll ==
    isFinished => /\ nFileLen # -1 /\ total >= nFileLen
                  /\ dpc \notin {"data", "write", "spin"}

\* What the two threads tell each other, while the worker has a song.
Told ==
    /\ wpc \in {"play", "join"} => song \in Song
    /\ wpc = "play" => how = "none"
    /\ wpc = "off" => dpc \in {"none", "done"}
    /\ nFileLen # -1 => size = nFileLen
    /\ completed => /\ dpc = "done" /\ isFinished
                    /\ wpc \in {"play", "join"} => verdict = "finished"
    /\ isDownFailed => /\ dpc = "done"
                       /\ wpc \in {"play", "join"} => verdict = "failed"
    /\ wpc = "join" /\ how = "ended" => completed /\ size <= pos
    /\ wpc = "join" /\ how = "failed" => isDownFailed /\ ~samples

OnlineInv == TypeOK /\ InsideSong /\ BudgetLasts /\ Undoubted /\ FinishedHasAll /\ Told

\* Received units that follow the file go on with it.
LEMMA FileGrows ==
    ASSUME NEW t \in Nat, NEW g \in Nat
    PROVE  [i \in 1 .. t |-> i] \o [i \in 1 .. g |-> (t + 1) + i - 1] = [i \in 1 .. t + g |-> i]
<1> DEFINE f == [i \in 1 .. t |-> i]
           h == [i \in 1 .. g |-> (t + 1) + i - 1]
           r == [i \in 1 .. t + g |-> i]
<1>1. f \in Seq(Int) /\ Len(f) = t OBVIOUS
<1>2. h \in Seq(Int) /\ Len(h) = g OBVIOUS
<1>3. r \in Seq(Int) /\ Len(r) = t + g OBVIOUS
<1> HIDE DEF f, h, r
<1>4. /\ f \o h \in Seq(Int) /\ Len(f \o h) = t + g
      /\ \A i \in 1 .. t + g : (f \o h)[i] = IF i <= t THEN f[i] ELSE h[i - t]
      BY <1>1, <1>2, ConcatProperties
<1>5. \A i \in 1 .. t + g : (f \o h)[i] = i
  <2> SUFFICES ASSUME NEW i \in 1 .. t + g PROVE (f \o h)[i] = i OBVIOUS
  <2>1. CASE i <= t
    <3>1. i \in 1 .. t BY <2>1
    <3> QED BY <1>4, <2>1, <3>1 DEF f
  <2>2. CASE ~(i <= t)
    <3>1. i - t \in 1 .. g /\ ~(i <= t) BY <2>2
    <3>2. h[i - t] = i BY <3>1 DEF h
    <3> QED BY <1>4, <3>1, <3>2
  <2> QED BY <2>1, <2>2
<1>6. \A i \in 1 .. t + g : r[i] = i BY DEF r
<1>7. f \o h = r BY <1>3, <1>4, <1>5, <1>6, SeqEqual
<1> QED BY <1>7 DEF f, h, r

LEMMA InitOnline == ASSUME Init PROVE OnlineInv
<1>1. written \in Seq(1 .. FileLen) BY EmptySeq DEF Init
<1>2. written = [i \in 1 .. 0 |-> i] BY DEF Init
<1>3. TypeOK
  <2>1. /\ wpc = "off" /\ song = NoSong /\ state = "stop" /\ pos \in Nat /\ samples \in BOOLEAN
        /\ info \in BOOLEAN /\ size = 0 /\ completed \in BOOLEAN /\ isDownFailed \in BOOLEAN
        /\ running \in BOOLEAN /\ dpc = "none" /\ next = 0 /\ got = 0 /\ total \in Nat
        /\ nFileLen = -1 /\ isFinished \in BOOLEAN /\ maxErrCnt = MAX_ERROR_CNT
        /\ doubt \in BOOLEAN /\ refused \in BOOLEAN /\ seeks = 0 /\ verdict = "none"
        /\ how = "none" /\ toPlay \subseteq Song
        BY DEF Init
  <2> QED BY <1>1, <2>1, OnlineAssumption DEF TypeOK
<1>4. InsideSong /\ BudgetLasts /\ FinishedHasAll /\ Told
      BY OnlineAssumption DEF Init, InsideSong, BudgetLasts, FinishedHasAll, Told
<1>5. Undoubted
  <2>1. total - Held = 0 BY DEF Init, Held
  <2> QED BY <1>2, <2>1, OnlineAssumption DEF Init, Undoubted
<1> QED BY <1>3, <1>4, <1>5 DEF OnlineInv

\* Each step of the download thread, and room on the disk, keeps the invariant.
LEMMA DownloadKeeps == ASSUME OnlineInv, Download \/ MakeRoom PROVE OnlineInv'
<1> USE OnlineAssumption DEF OnlineInv, TypeOK, InsideSong, BudgetLasts, Undoubted, Held,
        FinishedHasAll, Told, Goes, workerVars, fileVars, downVars, historyVars
<1>1. ASSUME NEW ok \in BOOLEAN, Connect(ok) PROVE OnlineInv'
  <2>1. dpc = "connect" /\ dpc' \in {"connect", "recv", "report"} BY <1>1 DEF Connect
  <2>2. maxErrCnt \in 0 .. MAX_ERROR_CNT BY <2>1
  <2>3. maxErrCnt' \in -1 .. MAX_ERROR_CNT BY <1>1, <2>2 DEF Connect, Budget
  <2>4. dpc' \in {"connect", "recv"} => maxErrCnt' >= 0
        BY <1>1, <2>2 DEF Connect, Budget, TriesLeft
  <2>5. TypeOK' BY <1>1, <2>1, <2>3 DEF Connect
  <2>6. InsideSong' /\ BudgetLasts' /\ FinishedHasAll' BY <1>1, <2>1, <2>4 DEF Connect
  <2>7. Undoubted' BY <1>1, <2>1 DEF Connect
  <2>8. Told' BY <1>1, <2>1 DEF Connect
  <2> QED BY <2>5, <2>6, <2>7, <2>8
<1>2. CASE Disconnect BY <1>2 DEF Disconnect
<1>3. ASSUME NEW a \in Answers, NEW n \in 0 .. FileLen, RecvHeader(a, n) PROVE OnlineInv'
  <2>1. a.from \in {total, 0} /\ a.from \in 0 .. FileLen - 1 /\ a.tells \in BOOLEAN
        BY DEF Answers, AskedFrom
  <2>2. Length(a) \in -1 .. FileLen /\ (a.from = 0 => Length(a) \in {-1, FileLen})
        BY <2>1 DEF Length
  <2>3. dpc = "recv" /\ running /\ ~isFinished /\ dpc' = "data"
        BY <1>3 DEF RecvHeader, Receiving
  <2>4. TypeOK'
    <3>1. nFileLen' \in -1 .. FileLen /\ size' \in -1 .. FileLen BY <1>3, <2>2 DEF RecvHeader
    <3>2. doubt' \in BOOLEAN BY <1>3 DEF RecvHeader
    <3>3. next' = a.from + 1 BY <1>3 DEF RecvHeader
    <3> QED BY <1>3, <2>1, <3>1, <3>2, <3>3 DEF RecvHeader
  <2>5. InsideSong' /\ BudgetLasts' /\ FinishedHasAll' BY <1>3, <2>1, <2>3 DEF RecvHeader
  <2>6. Undoubted'
    <3>1. Held = 0 /\ Held' = 0 BY <2>3
    <3>2. /\ total' = total /\ written' = written /\ refused' = refused /\ next' = a.from + 1
          /\ nFileLen' = IF nFileLen = -1 THEN Length(a) ELSE nFileLen
          /\ ~doubt' => ~doubt /\ a.from = total /\ (nFileLen = nFileLen' \/ total = 0)
          BY <1>3 DEF RecvHeader, AskedFrom
    <3> SUFFICES ASSUME ~doubt', ~refused' PROVE Undoubted' OBVIOUS
    <3>3. nFileLen' \in {-1, FileLen} BY <2>2, <3>2
    <3> QED BY <3>1, <3>2, <3>3
  <2>7. Told' BY <1>3, <2>3 DEF RecvHeader
  <2> QED BY <2>4, <2>5, <2>6, <2>7
<1>4. ASSUME NEW n \in 1 .. FileLen, Recv(n) PROVE OnlineInv'
      BY <1>4 DEF Recv, Receiving
<1>5. CASE RecvData
  <2>1. dpc = "data" /\ ~isFinished /\ total' = total + got /\ isFinished' \in BOOLEAN
        BY <1>5 DEF RecvData, Test, Enough
  <2>2. /\ got = 0 => dpc' = "recv" /\ (isFinished' => nFileLen # -1 /\ total' >= nFileLen)
        /\ got # 0 => dpc' = "write" /\ ~isFinished'
        BY <1>5, <2>1 DEF RecvData, Test, Enough
  <2>3. TypeOK' BY <1>5, <2>1, <2>2 DEF RecvData
  <2>4. InsideSong' /\ BudgetLasts' /\ FinishedHasAll' BY <1>5, <2>1, <2>2 DEF RecvData
  <2>5. Undoubted'
    <3>1. total' - Held' = total BY <1>5, <2>1, <2>2 DEF RecvData
    <3> SUFFICES ASSUME ~doubt, ~refused PROVE Undoubted' BY <1>5 DEF RecvData
    <3>2. next = total + 1 /\ total + got <= FileLen BY <2>1
    <3> QED BY <1>5, <2>1, <3>1, <3>2 DEF RecvData
  <2>6. Told' BY <1>5, <2>1, <2>2 DEF RecvData
  <2> QED BY <2>3, <2>4, <2>5, <2>6
<1>6. ASSUME NEW n \in 1 .. FileLen, WriteData(n) PROVE OnlineInv'
  <2> DEFINE more == [i \in 1 .. n |-> next + i - 1]
  <2>1. /\ dpc = "write" /\ ~isFinished /\ n <= got /\ written' = written \o more
        /\ next' = next + n /\ got' = got - n /\ isFinished' \in BOOLEAN
        BY <1>6 DEF WriteData, Test, Enough
  <2>2. /\ n = got => dpc' = "recv" /\ (isFinished' => nFileLen # -1 /\ total >= nFileLen)
        /\ n # got => dpc' = "write" /\ ~isFinished'
        BY <1>6, <2>1 DEF WriteData, Test, Enough
  <2>3. more \in Seq(1 .. FileLen) BY <2>1
  <2>4. written' \in Seq(1 .. FileLen)
    <3> HIDE DEF more
    <3> QED BY <2>1, <2>3, ConcatProperties
  <2>5. TypeOK' BY <1>6, <2>1, <2>2, <2>4 DEF WriteData, WriteOnly
  <2>6. InsideSong' /\ BudgetLasts' /\ FinishedHasAll'
        BY <1>6, <2>1, <2>2 DEF WriteData, WriteOnly
  <2>7. Undoubted'
    <3> SUFFICES ASSUME ~doubt, ~refused PROVE Undoubted' BY <1>6 DEF WriteData, WriteOnly
    <3> DEFINE t == total - got
    <3>1. t \in Nat /\ next = t + 1 /\ written = [i \in 1 .. t |-> i] BY <2>1
    <3>2. written' = [i \in 1 .. t + n |-> i] BY <2>1, <3>1, FileGrows
    <3>3. total' - Held' = t + n BY <1>6, <2>1, <2>2 DEF WriteData, WriteOnly
    <3>4. next' = t + n + 1 /\ total' = total /\ nFileLen' = nFileLen
          BY <1>6, <2>1, <3>1 DEF WriteData, WriteOnly
    <3> HIDE DEF t
    <3> QED BY <2>1, <3>1, <3>2, <3>3, <3>4
  <2>8. Told' BY <1>6, <2>1, <2>2 DEF WriteData, WriteOnly
  <2> QED BY <2>5, <2>6, <2>7, <2>8
<1>7. CASE WriteNothing BY <1>7 DEF WriteNothing, WriteOnly
<1>8. CASE MakeRoom BY <1>8 DEF MakeRoom, WriteOnly
<1>9. CASE WriteFails BY <1>9 DEF WriteFails, WriteOnly, Test, Enough
<1>10. CASE Report
  <2>1. verdict' = IF isFinished THEN "finished" ELSE IF running THEN "failed" ELSE "cancelled"
        BY <1>10 DEF Report
  <2>2. completed' \in BOOLEAN /\ isDownFailed' \in BOOLEAN BY <1>10 DEF Report
  <2>3. TypeOK' BY <1>10, <2>1, <2>2 DEF Report
  <2>4. InsideSong' /\ BudgetLasts' /\ FinishedHasAll' /\ Undoubted' BY <1>10 DEF Report
  <2>5. Told' BY <1>10, <2>1, <2>2 DEF Report
  <2> QED BY <2>3, <2>4, <2>5
<1> QED BY <1>1, <1>2, <1>3, <1>4, <1>5, <1>6, <1>7, <1>8, <1>9, <1>10 DEF Download

\* Each step of the worker and of the program keeps it.
LEMMA WorkerKeeps == ASSUME OnlineInv, Next, ~Download, ~MakeRoom PROVE OnlineInv'
<1> USE OnlineAssumption DEF OnlineInv, TypeOK, InsideSong, BudgetLasts, Undoubted, Held,
        FinishedHasAll, Told, Goes, workerVars, fileVars, downVars, historyVars
<1>1. ASSUME NEW s \in Song, NEW started \in BOOLEAN, OnPlay(s, started) PROVE OnlineInv'
  <2>1. written' \in Seq(1 .. FileLen) BY <1>1, EmptySeq DEF OnPlay
  <2>2. written' = [i \in 1 .. total' - Held' |-> i] BY <1>1 DEF OnPlay
  <2>3. TypeOK'
    <3>1. /\ wpc' = "play" /\ song' \in Song /\ state' = "playing" /\ pos' \in Nat
          /\ samples' \in BOOLEAN /\ info' \in BOOLEAN /\ size' = 0 /\ completed' \in BOOLEAN
          /\ isDownFailed' \in BOOLEAN /\ running' \in BOOLEAN /\ dpc' \in {"none", "connect"}
          /\ next' = 0 /\ got' = 0 /\ total' \in Nat /\ nFileLen' = -1
          /\ isFinished' \in BOOLEAN /\ maxErrCnt' = MAX_ERROR_CNT /\ doubt' \in BOOLEAN
          /\ refused' \in BOOLEAN
          BY <1>1 DEF OnPlay, FailedAtOpen
    <3>2. verdict' = "none" /\ how' = "none" /\ seeks' = seeks /\ toPlay' \subseteq Song
          BY <1>1 DEF OnPlay
    <3> HIDE <1>1
    <3> QED BY <2>1, <3>1, <3>2
  <2>4. InsideSong' /\ BudgetLasts' /\ FinishedHasAll' /\ Told' BY <1>1 DEF OnPlay, FailedAtOpen
  <2>5. Undoubted' BY <1>1, <2>2 DEF OnPlay
  <2> QED BY <2>3, <2>4, <2>5
<1>2. CASE DecodeSome
  <2>1. PICK n \in 1 .. FileLen : Decode(n) BY <1>2 DEF DecodeSome
  <2>2. pos' \in Nat /\ samples' \in BOOLEAN /\ info' \in BOOLEAN BY <2>1 DEF Decode
  <2>3. TypeOK' BY <2>1, <2>2 DEF Decode, WorkerOnly
  <2>4. InsideSong' /\ BudgetLasts' /\ FinishedHasAll' /\ Undoubted' BY <2>1 DEF Decode, WorkerOnly
  <2>5. Told' BY <2>1 DEF Decode, WorkerOnly
  <2> QED BY <2>3, <2>4, <2>5
<1>3. CASE GetData
  <2>1. TypeOK'
    <3>1. samples' \in BOOLEAN BY <1>3 DEF GetData
    <3>2. UNCHANGED <<wpc, song, state, pos, info>> /\ UNCHANGED fileVars /\ UNCHANGED running
          /\ UNCHANGED downVars /\ UNCHANGED historyVars
          BY <1>3 DEF GetData, WorkerOnly
    <3> QED BY <3>1, <3>2
  <2>2. InsideSong' /\ BudgetLasts' /\ FinishedHasAll' BY <1>3 DEF GetData, WorkerOnly
  <2>3. Undoubted' BY <1>3 DEF GetData, WorkerOnly
  <2>4. Told' BY <1>3 DEF GetData, WorkerOnly
  <2> QED BY <2>1, <2>2, <2>3, <2>4
<1>4. ASSUME NEW p \in 0 .. FileLen, Seek(p) PROVE OnlineInv'
  <2>1. pos' \in Nat /\ samples' \in BOOLEAN /\ wpc' \in {wpc, "undefined"} /\ seeks' \in 0 .. MaxSeeks
    <3>1. seeks' \in 0 .. MaxSeeks BY <1>4 DEF Seek
    <3>2. CASE info
      <4>1. pos' = p /\ samples' = FALSE /\ wpc' = wpc BY <1>4, <3>2 DEF Seek
      <4>2. p \in Nat OBVIOUS
      <4> QED BY <3>1, <4>1, <4>2
    <3>3. CASE ~info
      <4>1. pos' = pos /\ samples' = samples /\ wpc' = "undefined" BY <1>4, <3>3 DEF Seek
      <4> QED BY <3>1, <4>1
    <3> QED BY <3>2, <3>3
  <2>2. TypeOK' BY <1>4, <2>1 DEF Seek, WorkerOnly
  <2>3. InsideSong' /\ BudgetLasts' /\ FinishedHasAll' /\ Undoubted' BY <1>4 DEF Seek, WorkerOnly
  <2>4. Told' BY <1>4 DEF Seek, WorkerOnly
  <2> QED BY <2>2, <2>3, <2>4
<1>5. ASSUME NEW why \in {"ended", "failed", "stopped", "error"}, Leave(why) PROVE OnlineInv'
  <2>1. how' \in {"none", "ended", "failed", "stopped", "error"} BY <1>5 DEF Leave
  <2>2. song \in Song /\ how' = why BY <1>5 DEF Leave
  <2>3. TypeOK'
    <3>1. wpc' \in {"off", "play", "join", "undefined"} /\ running' \in BOOLEAN BY <1>5 DEF Leave
    <3>2. UNCHANGED <<song, state, pos, samples, info, fileVars, downVars, doubt, refused, verdict,
                      toPlay, seeks>>
          BY <1>5 DEF Leave
    <3> HIDE DEF InsideSong, BudgetLasts, Undoubted, Held, FinishedHasAll, Told
    <3> QED BY <2>1, <3>1, <3>2
  <2>4. InsideSong' /\ BudgetLasts' /\ FinishedHasAll' /\ Undoubted' BY <1>5 DEF Leave
  <2>5. why = "ended" => completed /\ size <= pos BY <1>5 DEF Leave, is_finish
  <2>6. why = "failed" => isDownFailed /\ ~samples BY <1>5 DEF Leave, IsDownFailed
  <2>7. Told' BY <1>5, <2>2, <2>5, <2>6 DEF Leave
  <2> QED BY <2>3, <2>4, <2>7
<1>6. CASE Close
  <2>1. TypeOK' BY <1>6 DEF Close, Joined
  <2>2. InsideSong' /\ BudgetLasts' /\ FinishedHasAll' BY <1>6 DEF Close, Joined
  <2>3. Undoubted' BY <1>6 DEF Close, Joined
  <2>4. Told' BY <1>6 DEF Close, Joined
  <2> QED BY <2>1, <2>2, <2>3, <2>4
<1>7. ASSUME NEW st \in {"playing", "pause", "stop"}, WriteState(st) PROVE OnlineInv'
      BY <1>7 DEF WriteState
<1> QED BY <1>1, <1>2, <1>3, <1>4, <1>5, <1>6, <1>7 DEF Next, LeaveOrClose

LEMMA OnlineInvariant == Spec => []OnlineInv
<1>1. Init => OnlineInv BY InitOnline
<1>2. OnlineInv /\ [Next]_vars => OnlineInv'
  <2>1. OnlineInv /\ UNCHANGED vars => OnlineInv'
        BY DEF OnlineInv, TypeOK, InsideSong, BudgetLasts, Undoubted, Held, FinishedHasAll, Told,
               vars, workerVars, fileVars, downVars, historyVars
  <2> QED BY <2>1, DownloadKeeps, WorkerKeeps
<1> QED BY <1>1, <1>2, PTL DEF Spec

\* The variables have their types, for songs of any length; the budget of
\* connections, which is counted down after the test too, stops at -1.
THEOREM OnlineTypeCorrect == Spec => []TypeOK
<1>1. OnlineInv => TypeOK BY DEF OnlineInv
<1> QED BY <1>1, OnlineInvariant, PTL

\* As long as the server sends what it is asked for and no write is refused, the
\* file is the beginning of the song, and the whole song when the download is
\* finished: for any length, wherever and however often the connection breaks,
\* and however little Write takes at a time.
THEOREM DownloadIsSong == Spec => []FileIsSong
<1>1. ASSUME OnlineInv PROVE FileIsSong
  <2> SUFFICES ASSUME ~doubt, ~refused
               PROVE  /\ written = [i \in 1 .. Len(written) |-> i]
                      /\ isFinished => Len(written) = FileLen
      BY DEF FileIsSong
  <2> DEFINE t == total - Held
  <2>1. t \in Nat /\ t <= FileLen
    <3>1. total \in Nat /\ total <= FileLen /\ got \in Nat BY <1>1 DEF OnlineInv, TypeOK, Undoubted
    <3>2. dpc \in {"write", "spin"} => got <= total
      <4> SUFFICES ASSUME dpc \in {"write", "spin"} PROVE got <= total OBVIOUS
      <4>1. next >= 1 /\ next \in Nat BY <1>1 DEF OnlineInv, TypeOK, InsideSong
      <4>2. next = total - got + 1 BY <1>1, <4>1 DEF OnlineInv, Undoubted, Held
      <4> QED BY <3>1, <4>1, <4>2
    <3> QED BY <3>1, <3>2, OnlineAssumption DEF Held
  <2>2. written = [i \in 1 .. t |-> i] BY <1>1 DEF OnlineInv, Undoubted
  <2>3. isFinished => t = FileLen
        BY <1>1, OnlineAssumption DEF OnlineInv, TypeOK, Undoubted, FinishedHasAll, Held
  <2> HIDE DEF t
  <2>4. Len(written) = t BY <2>1, <2>2
  <2> QED BY <2>2, <2>3, <2>4
<1> QED BY <1>1, OnlineInvariant, PTL

\* A song that ended by itself was finished and read to its end.
THEOREM EndIsEnd == Spec => []EndedMeansRead
<1>1. ASSUME OnlineInv PROVE EndedMeansRead
      BY <1>1 DEF OnlineInv, TypeOK, Told, FinishedHasAll, EndedMeansRead
<1> QED BY <1>1, OnlineInvariant, PTL

\* A song is given up only for its own failed download.
THEOREM GivenUpForCause == Spec => []GivenUpMeansFailed
<1>1. ASSUME OnlineInv PROVE GivenUpMeansFailed
      BY <1>1 DEF OnlineInv, Told, GivenUpMeansFailed
<1> QED BY <1>1, OnlineInvariant, PTL

\* Both: a song ends for the cause that it gives.
THEOREM EndHasCause == Spec => []EndsForCause
<1>1. EndedMeansRead /\ GivenUpMeansFailed => EndsForCause BY DEF EndsForCause
<1> QED BY <1>1, EndIsEnd, GivenUpForCause, PTL

\* Nothing is written to a decoder that is closed or not open yet.
THEOREM DecoderIsOpen == Spec => []WritesToOpenDecoder
<1>1. ASSUME OnlineInv PROVE WritesToOpenDecoder
      BY <1>1 DEF OnlineInv, TypeOK, Told, WritesToOpenDecoder
<1> QED BY <1>1, OnlineInvariant, PTL
=============================================================================
