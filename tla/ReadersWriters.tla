--------------------------- MODULE ReadersWriters ---------------------------
(* What a readers/writer lock promises, for each lock: sections of readers  *)
(* may overlap, a section of a writer overlaps nothing.                     *)

CONSTANTS Lock, Section, Thread

VARIABLES readers,   \* readers[l]: the open reading sections
          writers    \* writers[l]: the threads inside a writing section

rwVars == <<readers, writers>>

RWInit == /\ readers = [l \in Lock |-> {}]
          /\ writers = [l \in Lock |-> {}]

BeginRead(l, s) == /\ writers[l] = {}
                   /\ readers' = [readers EXCEPT ![l] = @ \cup {s}]
                   /\ UNCHANGED writers

EndRead(l, s) == /\ s \in readers[l]
                 /\ readers' = [readers EXCEPT ![l] = @ \ {s}]
                 /\ UNCHANGED writers

BeginWrite(l, t) == /\ readers[l] = {} /\ writers[l] = {}
                    /\ writers' = [writers EXCEPT ![l] = {t}]
                    /\ UNCHANGED readers

EndWrite(l, t) == /\ writers[l] = {t}
                  /\ writers' = [writers EXCEPT ![l] = {}]
                  /\ UNCHANGED readers

RWNext == \E l \in Lock : \/ \E s \in Section : BeginRead(l, s) \/ EndRead(l, s)
                          \/ \E t \in Thread : BeginWrite(l, t) \/ EndWrite(l, t)

RWSpec == RWInit /\ [][RWNext]_rwVars
=============================================================================
