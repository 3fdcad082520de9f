---------------------------- MODULE HttpDownloadProofs ----------------------------
(* Theorems about HttpDownload, for any size, any ranges that begin inside    *)
(* the file, any number of chunks, of retries, and of bytes in a block, and   *)
(* for servers that send the range, the whole file, or a page of their own.   *)
EXTENDS HttpDownload, TLAPS

\* Where the thread of the request is, and where those of the chunks are.
ThreadPlaces == {"start", "size", "error", "join", "report", "remove", "removed", "done"}
ChunkPlaces == {"none", "start", "perform", "block", "write", "timedOut", "failing",
                "ok", "failed", "noCurl"}
ChunkStates == [pc : ChunkPlaces, start : Int, first : Int, length : Int, sent : Nat, block : Nat,
                retries : Nat]

\* The variables have their types.
HttpTypes ==
    /\ from \in 0 .. Size - 1 /\ to \in Int /\ to < Size /\ n \in Nat \ {0} /\ auto \in BOOLEAN
    /\ running \in BOOLEAN /\ listed \in BOOLEAN /\ joins \in BOOLEAN
    /\ pc \in ThreadPlaces /\ chunk \in [Chunks -> ChunkStates]
    /\ lock \in Int /\ at \in Int
    /\ request \in {"live", "gone", "undefined"}
    /\ calls \subseteq {"stop", "destroy", "tooEarly"}

\* The lock is held from fseek to fwrite, and the position is that of its chunk.
HoldsTheFile ==
    \A i \in Chunks :
       /\ chunk[i].pc = "write" => lock = i /\ at = chunk[i].start
       /\ chunk[i].pc \in {"block", "write"} => chunk[i].block > 0

\* The place of a chunk in the file is never behind what libcurl has sent, all up
\* to it is written, and a chunk that is complete has been sent one of the answers
\* in full.
ChunksGrow ==
    \A i \in Chunks :
       chunk[i].pc # "none" =>
          /\ chunk[i].start >= Start(i) + chunk[i].sent
          /\ Start(i) .. chunk[i].start - 1 \subseteq DOMAIN file
          /\ chunk[i].pc \notin {"start", "noCurl"} =>
                <<chunk[i].first, chunk[i].length>> \in Answers(i)
          /\ chunk[i].pc = "ok" => chunk[i].sent = chunk[i].length

\* A byte is in its place, unless a chunk is shifted or misled.
Unshifted == (\A i \in Chunks : ~Shifted(i) /\ ~Misled(i)) => \A p \in DOMAIN file : file[p] = p

\* The chunks run while the thread of the request waits for them.
ChunksInside ==
    /\ pc \in {"start", "size", "error"} =>
          DOMAIN file = {} /\ \A i \in Chunks : chunk[i].pc = "none"
    /\ pc # "join" => \A i \in Chunks : ~Active(i)

\* Without Stop a download is running and listed, so that Destroy waits for it.
DestroyWaits ==
    /\ "stop" \notin calls /\ pc \in {"start", "size", "join"} => listed
    /\ "stop" \notin calls /\ pc \in {"size", "join"} => running
    /\ "tooEarly" \notin calls /\ pc = "start" => "destroy" \notin calls
    /\ calls \cap {"stop", "tooEarly"} = {} /\ "destroy" \in calls /\ pc \in {"size", "join"} => joins

\* Together they are kept by every step.
HttpInv ==
    /\ HttpTypes /\ HoldsTheFile /\ ChunksGrow /\ Unshifted /\ ChunksInside
    /\ DestroyWaits /\ DeletedIsOver

\* Positions and lengths are integers.
LEMMA StartIsInt ==
    ASSUME HttpTypes
    PROVE  /\ Total \in Int /\ Gap \in Int /\ n - 1 \in Chunks
           /\ \A i \in Chunks : i \in Nat /\ Start(i) \in Int /\ End(i) \in Int /\ Length(i) \in Int
<1>1. from \in Int /\ to \in Int /\ Size \in Int /\ n \in Nat /\ n > 0
      BY HttpAssumption DEF HttpTypes
<1>2. Total \in Int BY <1>1 DEF Total
<1>3. Gap \in Int BY <1>1, <1>2 DEF Gap
<1>4. n - 1 \in Chunks BY <1>1 DEF Chunks
<1>5. ASSUME NEW i \in Chunks
      PROVE  i \in Nat /\ Start(i) \in Int /\ End(i) \in Int /\ Length(i) \in Int
  <2>1. i \in Nat BY <1>1 DEF Chunks
  <2>2. i * Gap \in Int BY <2>1, <1>3
  <2>3. Start(i) \in Int BY <2>2, <1>1 DEF Start
  <2>4. End(i) \in Int BY <2>3, <1>1, <1>3 DEF End, EndOfLast
  <2> QED BY <2>1, <2>3, <2>4, <1>1 DEF Length
<1> QED BY <1>2, <1>3, <1>4, <1>5

\* The parts of the range depend on the request only.
LEMMA JobStays ==
    ASSUME UNCHANGED Job
    PROVE  /\ Chunks' = Chunks
           /\ \A i \in Chunks : Start(i)' = Start(i) /\ Answers(i)' = Answers(i) /\ End(i)' = End(i)
BY DEF Job, Chunks, Start, Length, Answers, Page, End, EndOfLast, Gap, Total

\* Nothing is asked for or written yet.
LEMMA InitHttp ==
    ASSUME Init
    PROVE  HttpInv
<1>1. /\ chunk = [i \in Chunks |-> Idle] /\ calls = {} /\ pc = "start"
      /\ DOMAIN file = {} /\ request = "live" /\ listed = TRUE
      BY DEF Init
<1>2. Idle \in ChunkStates /\ Idle.pc = "none" BY DEF Idle, ChunkStates, ChunkPlaces
<1>3. \A i \in Chunks : chunk[i] = Idle BY <1>1
<1>4. HttpTypes
  <2>1. from \in 0 .. Size - 1 /\ to \in Int /\ to < Size
    <3>1. PICK r \in Ranges : from = r[1] /\ to = r[2] BY DEF Init
    <3>2. r \in (0 .. Size - 1) \X Int /\ r[2] < Size BY HttpAssumption
    <3> QED BY <3>1, <3>2
  <2>2. n \in Nat \ {0} BY HttpAssumption DEF Init
  <2>3. chunk \in [Chunks -> ChunkStates] BY <1>1, <1>2
  <2>4. /\ auto \in BOOLEAN /\ running \in BOOLEAN /\ listed \in BOOLEAN /\ joins \in BOOLEAN
        BY DEF Init
  <2>5. pc \in ThreadPlaces BY <1>1 DEF ThreadPlaces
  <2>6. lock = -1 /\ at = 0 BY DEF Init
  <2>7. lock \in Int /\ at \in Int BY <2>6
  <2>8. request \in {"live", "gone", "undefined"} BY <1>1
  <2>9. calls \subseteq {"stop", "destroy", "tooEarly"} BY <1>1
  <2> QED BY <2>1, <2>2, <2>3, <2>4, <2>5, <2>7, <2>8, <2>9 DEF HttpTypes
<1>5. HoldsTheFile /\ ChunksGrow /\ Unshifted /\ ChunksInside
      BY <1>1, <1>2, <1>3 DEF HoldsTheFile, ChunksGrow, Unshifted, ChunksInside, Active
<1>6. DestroyWaits /\ DeletedIsOver BY <1>1 DEF DestroyWaits, DeletedIsOver
<1> QED BY <1>4, <1>5, <1>6 DEF HttpInv

\* The thread of a chunk takes a step, other than to write.
LEMMA ChunkMoves ==
    ASSUME HttpInv, NEW i \in Chunks, NEW c \in ChunkStates, Active(i), Alive,
           chunk' = [chunk EXCEPT ![i] = c],
           UNCHANGED <<Job, running, listed, pc, file, request, program>>,
           c.start = chunk[i].start, c.pc # "none",
           c.sent = 0 \/ (c.sent = chunk[i].sent /\ c.first = chunk[i].first),
           c.pc \notin {"start", "noCurl"} => <<c.first, c.length>> \in Answers(i),
           c.pc = "ok" => c.sent = c.length,
           c.pc \in {"block", "write"} => c.block > 0,
           \/ UNCHANGED <<lock, at>> /\ c.pc # "write"
           \/ lock = -1 /\ lock' = i /\ at' = c.start
    PROVE  HttpInv'
<1> USE DEF HttpInv
<1>1. /\ Chunks' = Chunks
      /\ \A j \in Chunks : Start(j)' = Start(j) /\ Answers(j)' = Answers(j)
      BY JobStays
<1>2. /\ chunk \in [Chunks -> ChunkStates] /\ chunk' \in [Chunks -> ChunkStates]
      /\ \A j \in Chunks : chunk'[j] = IF j = i THEN c ELSE chunk[j]
      BY DEF HttpTypes
<1>3. pc = "join" BY DEF ChunksInside
<1>4. i \in Nat /\ Start(i) \in Int BY StartIsInt
<1>5. chunk[i].pc # "none" /\ chunk[i].start \in Int /\ chunk[i].sent \in Nat /\ c.sent \in Nat
      BY <1>2 DEF Active, ChunkStates
<1>6. HttpTypes'
  <2>1. at' \in Int /\ lock' \in Int BY <1>4, <1>5 DEF HttpTypes
  <2> QED BY <1>1, <1>2, <2>1 DEF HttpTypes, Job, program
<1>7. HoldsTheFile'
  <2> SUFFICES ASSUME NEW j \in Chunks
               PROVE  /\ chunk'[j].pc = "write" => lock' = j /\ at' = chunk'[j].start
                      /\ chunk'[j].pc \in {"block", "write"} => chunk'[j].block > 0
      BY <1>1 DEF HoldsTheFile
  <2>1. CASE j = i BY <1>2, <2>1
  <2>2. CASE j # i
    <3>1. chunk'[j] = chunk[j] BY <1>2, <2>2
    <3>2. chunk[j].pc = "write" => lock = j /\ at = chunk[j].start BY DEF HoldsTheFile
    <3>3. j # -1 BY StartIsInt
    <3> QED BY <3>1, <3>2, <3>3 DEF HoldsTheFile
  <2> QED BY <2>1, <2>2
<1>8. ChunksGrow'
  <2> SUFFICES ASSUME NEW j \in Chunks, chunk'[j].pc # "none"
               PROVE  /\ chunk'[j].start >= Start(j) + chunk'[j].sent
                      /\ Start(j) .. chunk'[j].start - 1 \subseteq DOMAIN file
                      /\ chunk'[j].pc \notin {"start", "noCurl"} =>
                            <<chunk'[j].first, chunk'[j].length>> \in Answers(j)
                      /\ chunk'[j].pc = "ok" => chunk'[j].sent = chunk'[j].length
      BY <1>1 DEF ChunksGrow
  <2>1. CASE j = i
    <3>1. chunk[i].start >= Start(i) + chunk[i].sent /\ Start(i) .. chunk[i].start - 1 \subseteq DOMAIN file
          BY <1>5 DEF ChunksGrow
    <3>2. c.start >= Start(i) + c.sent BY <3>1, <1>4, <1>5
    <3> QED BY <1>2, <2>1, <3>1, <3>2
  <2>2. CASE j # i BY <1>2, <2>2 DEF ChunksGrow
  <2> QED BY <2>1, <2>2
<1>9. Unshifted'
  <2> SUFFICES ASSUME \A j \in Chunks : ~Shifted(j)' /\ ~Misled(j)', NEW p \in DOMAIN file
               PROVE  file[p] = p
      BY <1>1 DEF Unshifted
  <2>1. ASSUME NEW j \in Chunks PROVE ~Shifted(j) /\ ~Misled(j)
    <3>1. CASE j = i
      <4>1. c.start = Start(i) + c.sent BY <1>1, <1>2 DEF Shifted
      <4>2. c.first = Start(i) \/ c.start = Start(i) BY <1>1, <1>2 DEF Misled
      <4>3. chunk[i].start >= Start(i) + chunk[i].sent BY <1>5 DEF ChunksGrow
      <4>4. chunk[i].start = Start(i) + chunk[i].sent BY <4>1, <4>3, <1>4, <1>5
      <4>5. chunk[i].first = Start(i) \/ chunk[i].start = Start(i) BY <4>1, <4>2, <1>4
      <4> QED BY <3>1, <4>4, <4>5 DEF Shifted, Misled
    <3>2. CASE j # i BY <1>1, <1>2, <3>2 DEF Shifted, Misled
    <3> QED BY <3>1, <3>2
  <2> QED BY <2>1 DEF Unshifted
<1>10. ChunksInside' BY <1>3 DEF ChunksInside
<1>11. DestroyWaits' BY <1>3 DEF DestroyWaits, program
<1>12. DeletedIsOver' BY DEF DeletedIsOver, Alive
<1> QED BY <1>6, <1>7, <1>8, <1>9, <1>10, <1>11, <1>12

\* A chunk writes what it received, or a part of it, or nothing.
LEMMA ChunkWrites ==
    ASSUME HttpInv, NEW i \in Chunks, Write(i)
    PROVE  HttpInv'
<1> USE DEF HttpInv
<1> DEFINE c == chunk[i]
<1>1. PICK w \in {0, Cut(i)} :
         /\ file' = [p \in DOMAIN file \cup (at .. at + w - 1) |->
                        IF p \in at .. at + w - 1 THEN c.first + c.sent + (p - at) ELSE file[p]]
         /\ at' = at + w
         /\ chunk' = [chunk EXCEPT ![i] = [c EXCEPT !.start = c.start + w, !.sent = c.sent + w,
                                             !.pc = IF w = c.block THEN "perform" ELSE "failing"]]
      BY DEF Write
<1>2. Alive /\ chunk[i].pc = "write" /\ lock' = -1
      /\ UNCHANGED <<Job, running, listed, pc, request, joins, calls>>
      BY DEF Write, At, thread, program
<1>3. /\ Chunks' = Chunks
      /\ \A j \in Chunks : Start(j)' = Start(j) /\ Answers(j)' = Answers(j)
      BY <1>2, JobStays
<1>4. c \in ChunkStates /\ at = c.start /\ lock = i /\ c.block > 0
      BY <1>2 DEF HttpTypes, HoldsTheFile
<1>5. i \in Nat /\ Start(i) \in Int /\ End(i) \in Int /\ c.start \in Int /\ c.sent \in Nat /\ c.block \in Nat
      /\ c.retries \in Nat /\ c.first \in Int /\ c.length \in Int
      BY <1>4, StartIsInt DEF ChunkStates
<1>6. w \in Nat BY <1>4, <1>5 DEF Cut
<1> DEFINE q == IF w = c.block THEN "perform" ELSE "failing"
           e == [c EXCEPT !.start = c.start + w, !.sent = c.sent + w, !.pc = q]
<1>7. /\ e \in ChunkStates /\ e.start = c.start + w /\ e.sent = c.sent + w
      /\ e.first = c.first /\ e.length = c.length
      /\ e.pc \in {"perform", "failing"}
  <2>1. c.start + w \in Int /\ c.sent + w \in Nat /\ q \in {"perform", "failing"}
        BY <1>5, <1>6
  <2> HIDE DEF q
  <2> QED BY <1>4, <2>1 DEF ChunkStates, ChunkPlaces
<1>8. chunk \in [Chunks -> ChunkStates] /\ chunk' = [chunk EXCEPT ![i] = e]
      BY <1>1 DEF HttpTypes
<1> HIDE DEF e
<1>9. /\ chunk' \in [Chunks -> ChunkStates]
      /\ \A j \in Chunks : chunk'[j] = IF j = i THEN e ELSE chunk[j]
      BY <1>7, <1>8
<1>10. pc = "join" BY <1>2 DEF ChunksInside, Active, Ended
<1>11. /\ DOMAIN file' = DOMAIN file \cup (c.start .. c.start + w - 1)
       /\ \A p \in DOMAIN file' :
             file'[p] = IF p \in c.start .. c.start + w - 1
                          THEN c.first + c.sent + (p - c.start) ELSE file[p]
       BY <1>1, <1>4
<1>12. /\ c.start >= Start(i) + c.sent /\ Start(i) .. c.start - 1 \subseteq DOMAIN file
       /\ <<c.first, c.length>> \in Answers(i)
       BY <1>2 DEF ChunksGrow
<1> HIDE DEF c
<1>13. HttpTypes'
  <2>1. at' \in Int /\ lock' \in Int BY <1>1, <1>2, <1>5, <1>4, <1>6
  <2> QED BY <1>2, <1>3, <1>9, <2>1 DEF HttpTypes, Job
<1>14. HoldsTheFile'
  <2> SUFFICES ASSUME NEW j \in Chunks
               PROVE  /\ chunk'[j].pc = "write" => lock' = j /\ at' = chunk'[j].start
                      /\ chunk'[j].pc \in {"block", "write"} => chunk'[j].block > 0
      BY <1>3 DEF HoldsTheFile
  <2>1. CASE j = i BY <1>7, <1>9, <2>1
  <2>2. CASE j # i BY <1>4, <1>9, <2>2 DEF HoldsTheFile
  <2> QED BY <2>1, <2>2
<1>15. ChunksGrow'
  <2> SUFFICES ASSUME NEW j \in Chunks, chunk'[j].pc # "none"
               PROVE  /\ chunk'[j].start >= Start(j) + chunk'[j].sent
                      /\ Start(j) .. chunk'[j].start - 1 \subseteq DOMAIN file'
                      /\ chunk'[j].pc \notin {"start", "noCurl"} =>
                            <<chunk'[j].first, chunk'[j].length>> \in Answers(j)
                      /\ chunk'[j].pc = "ok" => chunk'[j].sent = chunk'[j].length
      BY <1>3 DEF ChunksGrow
  <2>1. CASE j = i
    <3>1. e.start >= Start(i) + e.sent BY <1>5, <1>6, <1>7, <1>12
    <3>2. ASSUME NEW p \in Start(i) .. e.start - 1 PROVE p \in DOMAIN file'
      <4>1. p \in Start(i) .. c.start - 1 \/ p \in c.start .. c.start + w - 1
            BY <1>5, <1>6, <1>7
      <4> QED BY <4>1, <1>11, <1>12
    <3> QED BY <1>7, <1>9, <1>12, <2>1, <3>1, <3>2
  <2>2. CASE j # i BY <1>9, <1>11, <2>2 DEF ChunksGrow
  <2> QED BY <2>1, <2>2
<1>16. Unshifted'
  <2> SUFFICES ASSUME \A j \in Chunks : ~Shifted(j)' /\ ~Misled(j)', NEW p \in DOMAIN file'
               PROVE  file'[p] = p
      BY <1>3 DEF Unshifted
  <2>1. c.start = Start(i) + c.sent
    <3>1. e.start = Start(i) + e.sent BY <1>3, <1>7, <1>9 DEF Shifted
    <3> QED BY <3>1, <1>5, <1>6, <1>7
  <2>2. c.first = Start(i) \/ c.start + w = Start(i) BY <1>3, <1>7, <1>9 DEF Misled
  <2>3. ASSUME NEW j \in Chunks PROVE ~Shifted(j) /\ ~Misled(j)
    <3>1. CASE j = i
      <4>1. c.start + w = Start(i) => c.start = Start(i) BY <2>1, <1>5, <1>6
      <4> QED BY <2>1, <2>2, <3>1, <4>1 DEF Shifted, Misled, c
    <3>2. CASE j # i BY <1>3, <1>9, <3>2 DEF Shifted, Misled
    <3> QED BY <3>1, <3>2
  <2>4. CASE p \in c.start .. c.start + w - 1
    <3>1. file'[p] = c.first + c.sent + (p - c.start) BY <1>11, <2>4
    <3>2. c.first = Start(i) BY <2>1, <2>2, <2>4, <1>5, <1>6
    <3> QED BY <2>1, <2>4, <3>1, <3>2, <1>5, <1>6
  <2>5. CASE p \notin c.start .. c.start + w - 1
    <3>1. p \in DOMAIN file /\ file'[p] = file[p] BY <1>11, <2>5
    <3> QED BY <2>3, <3>1 DEF Unshifted
  <2> QED BY <2>4, <2>5
<1>17. ChunksInside' BY <1>2, <1>10 DEF ChunksInside
<1>18. DestroyWaits' BY <1>2 DEF DestroyWaits
<1>19. DeletedIsOver' BY <1>2 DEF DeletedIsOver, Alive
<1> QED BY <1>13, <1>14, <1>15, <1>16, <1>17, <1>18, <1>19

\* The steps of the thread of a chunk.
LEMMA DownloadKeeps ==
    ASSUME HttpInv, NEW i \in Chunks, DoDownload(i)
    PROVE  HttpInv'
<1> USE DEF HttpInv
<1> DEFINE c == chunk[i]
<1>1. chunk \in [Chunks -> ChunkStates] /\ c \in ChunkStates /\ Retries \in Nat
      BY HttpAssumption DEF HttpTypes
<1>2. CASE Write(i) BY <1>2, ChunkWrites
<1>3. ASSUME NEW e \in ChunkStates, Active(i), Alive, chunk' = [chunk EXCEPT ![i] = e],
             e.start = c.start, e.sent = 0 \/ (e.sent = c.sent /\ e.first = c.first),
             e.pc \in {"perform", "noCurl", "timedOut", "ok", "failed"},
             e.pc # "noCurl" => <<e.first, e.length>> \in Answers(i),
             e.pc = "ok" => e.sent = e.length,
             UNCHANGED <<Job, running, listed, pc, disk, request, program>>
      PROVE  HttpInv'
  <2>1. UNCHANGED <<file, lock, at>> BY <1>3 DEF disk
  <2> QED BY <1>3, <2>1, ChunkMoves
<1>0. ASSUME c.pc \notin {"none", "start", "noCurl"} PROVE <<c.first, c.length>> \in Answers(i)
      BY <1>0 DEF ChunksGrow
<1>4. ASSUME NEW p \in {"noCurl", "timedOut", "ok", "failed"}, Active(i), Alive, Goes(i, p),
             p = "ok" => c.sent = c.length, p # "noCurl" => c.pc # "start",
             UNCHANGED <<Job, running, listed, pc, disk, request, program>>
      PROVE  HttpInv'
  <2> DEFINE e == [c EXCEPT !.pc = p]
  <2>1. /\ e \in ChunkStates /\ e.start = c.start /\ e.sent = c.sent /\ e.pc = p
        /\ e.first = c.first /\ e.length = c.length
        BY <1>1 DEF ChunkStates, ChunkPlaces
  <2>2. chunk' = [chunk EXCEPT ![i] = e] BY <1>1, <1>4 DEF Goes
  <2>3. p # "noCurl" => <<c.first, c.length>> \in Answers(i) BY <1>0, <1>4 DEF Active, Ended
  <2> HIDE DEF e
  <2> QED BY <1>3, <1>4, <2>1, <2>2, <2>3
<1>5. c.retries \in Nat BY <1>1 DEF ChunkStates
<1>13. ASSUME NEW answers \in SUBSET Answers(i), NEW r \in Nat, Transfer(i, answers, r),
              Active(i), Alive,
              UNCHANGED <<Job, running, listed, pc, disk, request, program>>
       PROVE  HttpInv'
  <2>1. PICK a \in answers :
           chunk' = [chunk EXCEPT ![i] = [@ EXCEPT !.pc = "perform", !.first = a[1],
                                            !.length = a[2], !.sent = 0, !.retries = r]]
        BY <1>13, Zenon DEF Transfer
  <2>2. a \in Answers(i) /\ a[1] \in Int /\ a[2] \in Int /\ <<a[1], a[2]>> = a
        BY HttpAssumption, StartIsInt DEF Answers, Page
  <2> DEFINE e == [c EXCEPT !.pc = "perform", !.first = a[1], !.length = a[2], !.sent = 0,
                            !.retries = r]
  <2>3. chunk' = [chunk EXCEPT ![i] = e] BY <2>1
  <2>4. /\ e \in ChunkStates /\ e.start = c.start /\ e.sent = 0 /\ e.pc = "perform"
        /\ e.first = a[1] /\ e.length = a[2]
        BY <1>1, <2>2 DEF ChunkStates, ChunkPlaces
  <2>5. <<e.first, e.length>> \in Answers(i) BY <2>2, <2>4
  <2>6. Active(i) /\ Alive /\ UNCHANGED <<Job, running, listed, pc, disk, request, program>>
        BY <1>13
  <2> HIDE DEF e
  <2>7. e.pc \notin {"ok", "noCurl"} /\ e.pc \in {"perform", "noCurl", "timedOut", "ok", "failed"}
        BY <2>4
  <2> QED BY <1>3, <2>3, <2>4, <2>5, <2>6, <2>7
<1>6. CASE CurlInit(i)
  <2>1. Active(i) /\ Alive BY <1>6 DEF CurlInit, At, Active, Ended
  <2>2. UNCHANGED <<Job, running, listed, pc, disk, request, program>> BY <1>6 DEF CurlInit
  <2>3. CASE Transfer(i, Answers(i), Retries) BY <1>1, <1>13, <2>1, <2>2, <2>3
  <2>4. CASE Goes(i, "noCurl") BY <1>4, <2>1, <2>2, <2>4
  <2> QED BY <1>6, <2>3, <2>4 DEF CurlInit
<1>7. CASE Receive(i)
  <2>1. Active(i) /\ Alive /\ c.pc = "perform" /\ c.sent < c.length
        BY <1>7 DEF Receive, At, Active, Ended
  <2>2. PICK b \in Blocks, p \in {"failing", "block"} :
           chunk' = [chunk EXCEPT ![i].block = BlockOf(i, b), ![i].pc = p]
        BY <1>7 DEF Receive
  <2> DEFINE k == BlockOf(i, b)
             e == [c EXCEPT !.block = k, !.pc = p]
  <2>3. k \in Nat /\ k > 0
    <3>1. b \in Nat /\ b > 0 BY HttpAssumption
    <3>2. c.length \in Int /\ c.sent \in Nat BY <1>1 DEF ChunkStates
    <3> QED BY <2>1, <3>1, <3>2 DEF BlockOf
  <2> HIDE DEF k
  <2>4. /\ e \in ChunkStates /\ e.start = c.start /\ e.sent = c.sent /\ e.pc = p /\ e.block = k
        /\ e.first = c.first /\ e.length = c.length
        BY <1>1, <2>3 DEF ChunkStates, ChunkPlaces
  <2>5. chunk' = [chunk EXCEPT ![i] = e] BY <1>1, <2>2 DEF k
  <2>6. UNCHANGED <<Job, running, listed, pc, file, lock, at, request, program>>
        BY <1>7 DEF Receive, thread, disk
  <2>7. <<c.first, c.length>> \in Answers(i) BY <1>0, <2>1
  <2> HIDE DEF e
  <2> QED BY <2>1, <2>3, <2>4, <2>5, <2>6, <2>7, ChunkMoves
<1>8. CASE Seek(i)
  <2>1. Active(i) /\ Alive /\ c.pc = "block" /\ c.block > 0
        BY <1>8 DEF Seek, At, Active, Ended, HoldsTheFile
  <2> DEFINE e == [c EXCEPT !.pc = "write"]
  <2>2. /\ e \in ChunkStates /\ e.start = c.start /\ e.sent = c.sent /\ e.pc = "write"
        /\ e.block = c.block /\ e.first = c.first /\ e.length = c.length
        BY <1>1 DEF ChunkStates, ChunkPlaces
  <2>3. chunk' = [chunk EXCEPT ![i] = e] BY <1>1, <1>8 DEF Seek, Goes
  <2>4. /\ UNCHANGED <<Job, running, listed, pc, file, request, program>>
        /\ lock = -1 /\ lock' = i /\ at' = c.start
        BY <1>8 DEF Seek, Lockable, thread
  <2>5. <<c.first, c.length>> \in Answers(i) BY <1>0, <2>1
  <2> HIDE DEF e
  <2> QED BY <2>1, <2>2, <2>3, <2>4, <2>5, ChunkMoves
<1>9. CASE TimeOut(i)
  <2>1. Active(i) /\ Alive /\ c.pc = "perform" BY <1>9 DEF TimeOut, At, Active, Ended
  <2>2. Goes(i, "timedOut")
        /\ UNCHANGED <<Job, running, listed, pc, disk, request, program>>
        BY <1>9 DEF TimeOut, thread
  <2> QED BY <1>4, <2>1, <2>2
<1>10. CASE Retry(i)
  <2>1. Active(i) /\ Alive /\ c.pc = "timedOut" BY <1>10 DEF Retry, At, Active, Ended
  <2>2. c.retries - 1 \in Nat /\ UNCHANGED <<Job, running, listed, pc, disk, request, program>>
        BY <1>5, <1>10 DEF Retry, thread
  <2>3. PICK answers \in {Answers(i), {<<c.first, c.length>>}} : Transfer(i, answers, c.retries - 1)
        BY <1>10 DEF Retry, Less
  <2>4. answers \in SUBSET Answers(i) BY <1>0, <2>1
  <2> QED BY <1>13, <2>1, <2>2, <2>3, <2>4
<1>11. CASE Complete(i)
  <2>1. Active(i) /\ Alive /\ c.pc = "perform" BY <1>11 DEF Complete, At, Active, Ended
  <2>2. Goes(i, "ok") /\ c.sent = c.length
        /\ UNCHANGED <<Job, running, listed, pc, disk, request, program>>
        BY <1>11 DEF Complete
  <2> QED BY <1>4, <2>1, <2>2
<1>12. CASE Fail(i)
  <2>1. Active(i) /\ Alive /\ c.pc # "start" BY <1>12 DEF Fail, At, Active, Ended
  <2>2. Goes(i, "failed")
        /\ UNCHANGED <<Job, running, listed, pc, disk, request, program>>
        BY <1>12 DEF Fail
  <2> QED BY <1>4, <2>1, <2>2
<1> QED BY <1>2, <1>6, <1>7, <1>8, <1>9, <1>10, <1>11, <1>12 DEF DoDownload

\* Steps that leave the chunks and the file alone.
LEMMA OtherSteps ==
    ASSUME HttpInv, UNCHANGED <<Job, chunk, disk>>, pc' \in ThreadPlaces,
           running' \in BOOLEAN, listed' \in BOOLEAN, joins' \in BOOLEAN,
           request' \in {"live", "gone", "undefined"},
           calls' \subseteq {"stop", "destroy", "tooEarly"},
           ChunksInside', DestroyWaits', DeletedIsOver'
    PROVE  HttpInv'
<1> USE DEF HttpInv
<1>1. /\ Chunks' = Chunks
      /\ \A j \in Chunks : Start(j)' = Start(j) /\ Answers(j)' = Answers(j)
      BY JobStays
<1>2. HttpTypes' BY <1>1 DEF HttpTypes, Job, disk
<1>3. HoldsTheFile' BY <1>1 DEF HoldsTheFile, disk
<1>4. ChunksGrow' BY <1>1 DEF ChunksGrow, disk
<1>5. Unshifted'
  <2>1. \A j \in Chunks : (Shifted(j)' <=> Shifted(j)) /\ (Misled(j)' <=> Misled(j))
        BY <1>1 DEF Shifted, Misled
  <2> QED BY <1>1, <2>1 DEF Unshifted, disk
<1> QED BY <1>2, <1>3, <1>4, <1>5

\* What does not change with the chunks.
LEMMA SameChunks ==
    ASSUME UNCHANGED <<Job, chunk, disk>>
    PROVE  /\ Chunks' = Chunks /\ DOMAIN file' = DOMAIN file /\ chunk' = chunk
           /\ \A j \in Chunks : Active(j)' <=> Active(j)
BY JobStays DEF disk, Active, Ended

\* The steps of the thread of the request.
LEMMA RequestKeeps == ASSUME HttpInv, RequestThread PROVE HttpInv'
<1> USE DEF HttpInv
<1>0. /\ running \in BOOLEAN /\ listed \in BOOLEAN /\ joins \in BOOLEAN /\ auto \in BOOLEAN
      /\ request \in {"live", "gone", "undefined"} /\ pc \in ThreadPlaces
      /\ calls \subseteq {"stop", "destroy", "tooEarly"}
      BY DEF HttpTypes
<1>1. CASE Perform
  <2>1. /\ pc = "start" /\ pc' = "size" /\ running' = TRUE /\ request = "live"
        /\ UNCHANGED <<Job, chunk, disk, listed, request, joins, calls>>
        BY <1>1 DEF Perform, Step, Alive, program
  <2>2. ChunksInside' BY <2>1, SameChunks DEF ChunksInside
  <2>3. DestroyWaits' /\ DeletedIsOver' BY <2>1 DEF DestroyWaits, DeletedIsOver
  <2> QED BY <1>0, <2>1, <2>2, <2>3, OtherSteps DEF ThreadPlaces
<1>2. CASE GiveUp
  <2>1. /\ pc = "size" /\ pc' = "error" /\ running' = FALSE /\ request = "live"
        /\ UNCHANGED <<Job, chunk, disk, listed, request, joins, calls>>
        BY <1>2 DEF GiveUp, Step, Alive, program
  <2>2. ChunksInside' BY <2>1, SameChunks DEF ChunksInside
  <2>3. DestroyWaits' /\ DeletedIsOver' BY <2>1 DEF DestroyWaits, DeletedIsOver
  <2> QED BY <1>0, <2>1, <2>2, <2>3, OtherSteps DEF ThreadPlaces
<1>3. CASE StartChunks
  <2>1. /\ pc = "size" /\ pc' = "join" /\ request = "live"
        /\ UNCHANGED <<Job, disk, running, listed, request, joins, calls>>
        BY <1>3, Zenon DEF StartChunks, Step, Alive, program
  <2> DEFINE new(i) == [Idle EXCEPT !.pc = "start", !.start = Start(i), !.first = Start(i)]
  <2>0. chunk' = [i \in Chunks |-> new(i)] BY <1>3, Zenon DEF StartChunks
  <2>2. /\ Chunks' = Chunks
        /\ \A j \in Chunks : Start(j)' = Start(j) /\ Answers(j)' = Answers(j)
        BY <2>1, JobStays
  <2>11. ASSUME NEW i \in Chunks
        PROVE  /\ new(i) \in ChunkStates /\ new(i).pc = "start" /\ new(i).start = Start(i)
               /\ new(i).sent = 0 /\ new(i).block = 0 /\ Start(i) \in Int
    <3>1. Start(i) \in Int BY StartIsInt
    <3>2. Idle \in ChunkStates /\ Idle.sent = 0 /\ Idle.block = 0
          BY DEF Idle, ChunkStates, ChunkPlaces
    <3> QED BY <3>1, <3>2 DEF ChunkStates, ChunkPlaces
  <2> HIDE DEF new
  <2>3. \A i \in Chunks : /\ chunk'[i] \in ChunkStates /\ chunk'[i].pc = "start"
                          /\ chunk'[i].start = Start(i) /\ chunk'[i].sent = 0
                          /\ Start(i) \in Int
        BY <2>0, <2>11
  <2>4. DOMAIN file = {} /\ file' = file BY <2>1 DEF ChunksInside, disk
  <2>5. chunk' \in [Chunks -> ChunkStates] BY <2>0, <2>11
  <2>6. HttpTypes' BY <2>1, <2>2, <2>5, <1>0 DEF HttpTypes, Job, disk, ThreadPlaces
  <2>7. HoldsTheFile' BY <2>2, <2>3 DEF HoldsTheFile
  <2>8. ChunksGrow'
    <3>1. \A i \in Chunks : /\ chunk'[i].start >= Start(i) + chunk'[i].sent
                            /\ Start(i) .. chunk'[i].start - 1 = {}
          BY <2>3
    <3> QED BY <2>2, <2>3, <3>1 DEF ChunksGrow
  <2>9. Unshifted' BY <2>4 DEF Unshifted
  <2>10. ChunksInside' /\ DestroyWaits' /\ DeletedIsOver'
         BY <2>1 DEF ChunksInside, DestroyWaits, DeletedIsOver
  <2> QED BY <2>6, <2>7, <2>8, <2>9, <2>10
<1>4. CASE CloseFile
  <2>1. /\ pc = "join" /\ pc' = "report" /\ running' = FALSE /\ request = "live" /\ Joined
        /\ UNCHANGED <<Job, chunk, disk, listed, request, joins, calls>>
        BY <1>4 DEF CloseFile, Step, Alive, program
  <2>2. \A i \in Chunks : ~Active(i) BY <2>1 DEF Joined, Active
  <2>3. ChunksInside' BY <2>1, <2>2, SameChunks DEF ChunksInside
  <2>4. DestroyWaits' /\ DeletedIsOver' BY <2>1 DEF DestroyWaits, DeletedIsOver
  <2> QED BY <1>0, <2>1, <2>3, <2>4, OtherSteps DEF ThreadPlaces
<1>5. CASE Report
  <2>1. /\ pc \in {"error", "report"} /\ pc' = "remove" /\ request = "live"
        /\ UNCHANGED <<Job, chunk, disk, running, listed, request, joins, calls>>
        BY <1>5 DEF Report, Step, Alive, program
  <2>2. ChunksInside' BY <2>1, SameChunks DEF ChunksInside
  <2>3. DestroyWaits' /\ DeletedIsOver' BY <2>1 DEF DestroyWaits, DeletedIsOver
  <2> QED BY <1>0, <2>1, <2>2, <2>3, OtherSteps DEF ThreadPlaces
<1>6. CASE Remove
  <2>1. /\ pc = "remove" /\ pc' = "removed" /\ request = "live" /\ listed' = FALSE
        /\ UNCHANGED <<Job, chunk, disk, running, request, joins, calls>>
        BY <1>6 DEF Remove, Step, Alive, program
  <2>2. ChunksInside' BY <2>1, SameChunks DEF ChunksInside
  <2>3. DestroyWaits' /\ DeletedIsOver' BY <2>1 DEF DestroyWaits, DeletedIsOver
  <2> QED BY <1>0, <2>1, <2>2, <2>3, OtherSteps DEF ThreadPlaces
<1>7. CASE Finish
  <2>1. /\ pc = "removed" /\ pc' = "done" /\ request = "live" /\ request' \in {"gone", "live"}
        /\ UNCHANGED <<Job, chunk, disk, running, listed, joins, calls>>
        BY <1>7 DEF Finish, Step, Alive, program
  <2>2. ChunksInside' BY <2>1, SameChunks DEF ChunksInside
  <2>3. DestroyWaits' BY <2>1 DEF DestroyWaits
  <2>4. DeletedIsOver' BY <2>1, SameChunks DEF ChunksInside, DeletedIsOver
  <2> QED BY <1>0, <2>1, <2>2, <2>3, <2>4, OtherSteps DEF ThreadPlaces
<1> QED BY <1>1, <1>2, <1>3, <1>4, <1>5, <1>6, <1>7 DEF RequestThread

\* The calls of the program, and what a deleted request does.
LEMMA ProgramKeeps == ASSUME HttpInv, Stop \/ Destroy \/ Close \/ UseAfter PROVE HttpInv'
<1> USE DEF HttpInv
<1>0. /\ running \in BOOLEAN /\ listed \in BOOLEAN /\ joins \in BOOLEAN /\ auto \in BOOLEAN
      /\ request \in {"live", "gone", "undefined"} /\ pc \in ThreadPlaces
      /\ calls \subseteq {"stop", "destroy", "tooEarly"}
      BY DEF HttpTypes
<1>1. UNCHANGED <<Job, chunk, disk, pc>> BY DEF Stop, Destroy, Close, UseAfter, thread
<1>2. ChunksInside' BY <1>1, SameChunks DEF ChunksInside
<1>3. CASE Stop
  <2>1. /\ listed' = FALSE /\ running' = FALSE /\ joins' = joins
        /\ request' \in {"gone", request} /\ calls' = calls \cup {"stop"}
        BY <1>3 DEF Stop
  <2>2. DestroyWaits' /\ DeletedIsOver'
    <3>1. "stop" \in calls' BY <2>1
    <3>2. "destroy" \notin calls' BY <1>3, <2>1 DEF Stop
    <3> QED BY <3>1, <3>2 DEF DestroyWaits, DeletedIsOver
  <2> QED BY <1>0, <1>1, <1>2, <2>1, <2>2, OtherSteps
<1>4. CASE Destroy
  <2>1. /\ request = "live" /\ joins' = (running /\ listed)
        /\ calls' = calls \cup {"destroy"} \cup (IF pc = "start" THEN {"tooEarly"} ELSE {})
        /\ UNCHANGED <<running, listed, request>>
        BY <1>4 DEF Destroy, Alive, Joins, thread
  <2>2. joins' \in BOOLEAN /\ calls' \subseteq {"stop", "destroy", "tooEarly"}
        BY <1>0, <2>1
  <2>3. DestroyWaits' BY <1>1, <2>1 DEF DestroyWaits
  <2>4. DeletedIsOver' BY <2>1 DEF DeletedIsOver
  <2> QED BY <1>0, <1>1, <1>2, <2>1, <2>2, <2>3, <2>4, OtherSteps
<1>5. CASE Close
  <2>1. /\ "destroy" \in calls /\ (joins => pc = "done") /\ request' = "gone"
        /\ UNCHANGED <<running, listed, joins, calls>>
        BY <1>5 DEF Close, thread, program
  <2>2. DestroyWaits' BY <1>1, <2>1 DEF DestroyWaits
  <2>3. calls \cap {"stop", "tooEarly"} = {} => pc \notin {"start", "size", "join"}
        BY <2>1 DEF DestroyWaits
  <2>4. DeletedIsOver' BY <1>1, <2>1, <2>3, SameChunks DEF DeletedIsOver, ChunksInside
  <2> QED BY <1>0, <1>1, <1>2, <2>1, <2>2, <2>4, OtherSteps
<1>6. CASE UseAfter
  <2>1. /\ request = "gone" /\ request' = "undefined"
        /\ UNCHANGED <<running, listed, joins, calls>>
        BY <1>6 DEF UseAfter, thread, program
  <2>2. DestroyWaits' BY <1>1, <2>1 DEF DestroyWaits
  <2>3. DeletedIsOver' BY <1>1, <2>1, SameChunks DEF DeletedIsOver
  <2> QED BY <1>0, <1>1, <1>2, <2>1, <2>2, <2>3, OtherSteps
<1> QED BY <1>3, <1>4, <1>5, <1>6

\* Every step keeps them.
LEMMA HttpStep == ASSUME HttpInv, [Next]_vars PROVE HttpInv'
<1>1. CASE RequestThread BY <1>1, RequestKeeps
<1>2. CASE \E i \in Chunks : DoDownload(i) BY <1>2, DownloadKeeps
<1>3. CASE Stop \/ Destroy \/ Close \/ UseAfter BY <1>3, ProgramKeeps
<1>4. CASE UNCHANGED vars
  <2> USE DEF HttpInv
  <2>1. UNCHANGED <<Job, chunk, disk, pc, running, listed, joins, request, calls>>
        BY <1>4 DEF vars, Job, thread
  <2>2. ChunksInside' BY <2>1, SameChunks DEF ChunksInside
  <2>3. DestroyWaits' BY <2>1 DEF DestroyWaits
  <2>4. DeletedIsOver' BY <2>1, SameChunks DEF DeletedIsOver
  <2>5. /\ running \in BOOLEAN /\ listed \in BOOLEAN /\ joins \in BOOLEAN
        /\ request \in {"live", "gone", "undefined"} /\ pc \in ThreadPlaces
        /\ calls \subseteq {"stop", "destroy", "tooEarly"}
        BY DEF HttpTypes
  <2> QED BY <2>1, <2>2, <2>3, <2>4, <2>5, OtherSteps
<1> QED BY <1>1, <1>2, <1>3, <1>4 DEF Next

\* Division with remainder.
LEMMA Division ==
    ASSUME NEW a \in Nat, NEW g \in Nat, g > 0
    PROVE  \E q \in Nat : q * g <= a /\ a < q * g + g
<1>1. a \div g \in Nat /\ (a \div g) * g <= a /\ a < (a \div g) * g + g OBVIOUS
<1> QED BY <1>1

\* The order of multiples is that of the factors.
LEMMA Multiples ==
    ASSUME NEW i \in Nat, NEW k \in Nat, NEW g \in Nat, i * g < k * g
    PROVE  i < k
<1> SUFFICES ASSUME i >= k PROVE FALSE OBVIOUS
<1>1. PICK d \in Nat : i = k + d
  <2>1. i - k \in Nat /\ i = k + (i - k) OBVIOUS
  <2> QED BY <2>1
<1>2. i * g = k * g + d * g BY <1>1
<1>3. d * g >= 0 OBVIOUS
<1> QED BY <1>2, <1>3

\* The chunks together ask for the whole range. The last one begins too early
\* when the range does not begin at 0, never too late.
LEMMA ChunksCover ==
    ASSUME HttpTypes, NEW p \in from .. from + Total - 1
    PROVE  \E i \in Chunks : p \in Start(i) .. Start(i) + Length(i) - 1
<1>1. /\ from \in Nat /\ to \in Int /\ Size \in Nat /\ Size > 0 /\ n \in Nat /\ n > 0
      /\ Total \in Int /\ p \in Nat /\ from <= p /\ p < from + Total /\ Total > 0
  <2>1. from \in 0 .. Size - 1 /\ to \in Int /\ n \in Nat \ {0} /\ Size \in Nat \ {0}
        BY HttpAssumption DEF HttpTypes
  <2>2. Total \in Int BY StartIsInt
  <2> QED BY <2>1, <2>2
<1>2. Gap \in Nat
  <2>1. Total \div n \in Nat BY <1>1
  <2> QED BY <2>1 DEF Gap
<1>3. \A i \in Chunks : i \in Nat /\ Start(i) \in Int /\ Length(i) \in Int BY StartIsInt
<1> DEFINE last == n - 1
<1>4. last \in Chunks /\ last \in Nat BY <1>1 DEF Chunks
<1>5. Start(last) + Length(last) = from + Total
  <2>1. End(last) = to BY DEF End, EndOfLast
  <2> QED BY <2>1, <1>1, <1>3, <1>4 DEF Length, Total
<1>6. CASE n = 1
  <2>1. Start(last) = from
    <3>1. Start(last) = 0 * Gap + from BY <1>6 DEF Start
    <3> QED BY <3>1, <1>1, <1>2
  <2>2. p \in Start(last) .. Start(last) + Length(last) - 1
        BY <1>1, <1>3, <1>4, <1>5, <2>1
  <2> QED BY <1>4, <2>2
<1>7. CASE n > 1 /\ p >= last * Gap
  <2>1. Start(last) = last * Gap BY <1>7 DEF Start
  <2>2. p \in Start(last) .. Start(last) + Length(last) - 1
        BY <1>1, <1>3, <1>4, <1>5, <1>7, <2>1
  <2> QED BY <1>4, <2>2
<1>8. CASE n > 1 /\ p < last * Gap
  <2>1. Gap > 0
    <3>1. Gap = 0 => last * Gap = 0 BY <1>4
    <3> QED BY <1>1, <1>2, <1>8, <3>1
  <2>2. PICK i \in Nat : i * Gap <= p - from /\ p - from < i * Gap + Gap
    <3>1. p - from \in Nat BY <1>1
    <3> QED BY <3>1, <1>2, <2>1, Division
  <2>3. i * Gap \in Nat /\ last * Gap \in Nat BY <1>2, <1>4
  <2>4. i < last
    <3>1. i * Gap < last * Gap BY <1>1, <1>8, <2>2, <2>3
    <3> QED BY <3>1, <1>2, <1>4, Multiples
  <2>5. i \in Chunks /\ i # last BY <2>4, <1>1, <1>4 DEF Chunks
  <2>6. Start(i) = i * Gap + from /\ End(i) = Start(i) + Gap - 1
        BY <2>5 DEF Start, End
  <2>7. p \in Start(i) .. Start(i) + Length(i) - 1
    <3>1. Start(i) <= p /\ p <= End(i) BY <1>1, <1>2, <2>2, <2>3, <2>6
    <3>2. CASE End(i) > 0
      <4>1. Start(i) + Length(i) - 1 = End(i)
            BY <3>2, <1>2, <2>3, <2>6, <1>1 DEF Length
      <4> QED BY <3>1, <4>1, <1>3, <1>1, <2>5
    <3>3. CASE ~(End(i) > 0)
      <4>1. Start(i) + Length(i) = Size BY <3>3, <1>2, <2>3, <2>6, <1>1 DEF Length
      <4>2. p <= 0 BY <3>1, <3>3, <1>1, <1>2, <2>3, <2>6
      <4> QED BY <3>1, <4>1, <4>2, <1>3, <1>1, <2>5
    <3> QED BY <3>2, <3>3
  <2> QED BY <2>5, <2>7
<1> QED BY <1>1, <1>2, <1>4, <1>6, <1>7, <1>8

\* No chunk starts before the file does.
LEMMA StartIsNat ==
    ASSUME HttpTypes, NEW i \in Chunks, Total > 0
    PROVE  Start(i) \in Nat
<1>1. from \in Nat /\ n \in Nat /\ n > 0 /\ Total \in Nat /\ i \in Nat
      BY HttpAssumption, StartIsInt DEF HttpTypes
<1>2. Gap \in Nat
  <2>1. Total \div n \in Nat BY <1>1
  <2> QED BY <2>1 DEF Gap
<1>3. i * Gap \in Nat BY <1>1, <1>2
<1> QED BY <1>1, <1>3 DEF Start

\* Chunks that are complete, not shifted and not misled have written the whole range.
LEMMA CompleteIsWhole ==
    ASSUME HttpInv, \A i \in Chunks : ~Shifted(i) /\ ~Misled(i) /\ chunk[i].pc = "ok"
    PROVE  Whole
<1> USE DEF HttpInv
<1> SUFFICES ASSUME NEW p \in from .. from + Total - 1 PROVE p \in DOMAIN file /\ file[p] = p
    BY DEF Whole
<1>1. PICK i \in Chunks : p \in Start(i) .. Start(i) + Length(i) - 1 BY ChunksCover
<1>2. chunk[i].pc # "none" /\ chunk[i].start = Start(i) + chunk[i].sent BY DEF Shifted
<1>3. /\ chunk[i].sent = chunk[i].length /\ Start(i) .. chunk[i].start - 1 \subseteq DOMAIN file
      /\ <<chunk[i].first, chunk[i].length>> \in Answers(i)
      BY <1>2 DEF ChunksGrow
<1>4. /\ Start(i) \in Int /\ Length(i) \in Int /\ Total \in Int
      /\ from \in Nat /\ to \in Int /\ to < Size /\ Size \in Nat /\ Size > 0
      /\ PageSize \in Nat /\ PageSize > 0
      BY HttpAssumption, StartIsInt DEF HttpTypes
<1>5. p \in Int /\ Total > 0 /\ p < Size
  <2>1. p \in Int /\ from <= p /\ p <= from + Total - 1 BY <1>4
  <2>2. from + Total <= Size BY <1>4 DEF Total
  <2> QED BY <2>1, <2>2, <1>4
<1>6. Start(i) >= 0 BY <1>5, StartIsNat
<1>7. chunk[i].first = Start(i) \/ chunk[i].start = Start(i) BY <1>2 DEF Misled
<1>8. p <= chunk[i].start - 1
  <2>1. CASE chunk[i].length = Length(i) BY <1>1, <1>2, <1>3, <1>4, <1>5, <2>1
  <2>2. CASE chunk[i].first = 0 /\ chunk[i].length = Size
    <3>1. chunk[i].start = Start(i) + Size BY <1>2, <1>3, <2>2
    <3> QED BY <3>1, <1>4, <1>5, <1>6
  <2>3. CASE chunk[i].first = Page /\ chunk[i].length = PageSize
    <3>1. chunk[i].first # Start(i) BY <2>3, <1>4, <1>6 DEF Page
    <3>2. chunk[i].start # Start(i) BY <1>2, <1>3, <1>4, <2>3
    <3> QED BY <3>1, <3>2, <1>7
  <2> QED BY <1>3, <2>1, <2>2, <2>3 DEF Answers
<1>9. p \in DOMAIN file
  <2>1. p \in Start(i) .. chunk[i].start - 1
    <3>1. chunk[i].start \in Int BY <1>3, <1>4, <1>2 DEF HttpTypes, ChunkStates
    <3> QED BY <3>1, <1>1, <1>4, <1>5, <1>8
  <2> QED BY <2>1, <1>3
<1> QED BY <1>9 DEF Unshifted

\* The positions of the chunks, the lock of the file, and what Destroy waits for.
THEOREM HttpInvariant == Spec => []HttpInv
<1>1. Init => HttpInv BY InitHttp
<1>2. HttpInv /\ [Next]_vars => HttpInv' BY HttpStep
<1> QED BY <1>1, <1>2, PTL DEF Spec

\* With one FILE* for all chunks, every byte is in its place until a chunk is shifted
\* or misled.
THEOREM BytesInPlace == Spec => []RightPlace
<1>1. HttpInv => RightPlace BY DEF HttpInv, Unshifted, RightPlace
<1> QED BY <1>1, HttpInvariant, PTL

\* A success of chunks that are complete, not shifted and not misled is the whole
\* range, whatever the server answered.
THEOREM SuccessWhole == Spec => []SuccessIsWhole
<1>1. HttpInv => SuccessIsWhole BY CompleteIsWhole DEF SuccessIsWhole
<1> QED BY <1>1, HttpInvariant, PTL

\* A request is deleted when its download is over, if nobody stops it or is too early.
THEOREM DeletionIsLate == Spec => []DeletedIsOver
<1>1. HttpInv => DeletedIsOver BY DEF HttpInv
<1> QED BY <1>1, HttpInvariant, PTL

=============================================================================
